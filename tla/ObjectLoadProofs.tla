-------------------------- MODULE ObjectLoadProofs --------------------------
(***************************************************************************)
(* Proofs about EEMemoryManager and ObjectLoadListener, for any number of  *)
(* sections, funclets, unwind codes and clauses.                           *)
(***************************************************************************)
EXTENDS ObjectLoadListener, NatLemmas, FiniteSetTheorems, SequenceTheorems, TLAPS

-----------------------------------------------------------------------------
(* The object does not change, and is as LLVM writes it. *)

Powers == {1, 2, 4, 8, 16}
Section == [size : Nat, align : Powers, stackmap : BOOLEAN]

SectionsOK ==
  /\ sections \in Seq(Section)
  /\ PREJIT \in BOOLEAN
  /\ \A k, l \in DOMAIN sections : sections[k].stackmap /\ sections[l].stackmap => k = l

(* The sections of an object satisfy SectionsOK. *)
LEMMA LoadInitSections == LoadInit => SectionsOK
<1> SUFFICES ASSUME LoadInit PROVE SectionsOK
  OBVIOUS
<1>1. PICK n \in 0 .. MaxSections :
        sections \in [1 .. n -> [size : Sizes, align : Alignments, stackmap : BOOLEAN]]
  BY DEF LoadInit
<1>2. n \in Nat
  BY LoadAssumption
<1>3. \A k \in 1 .. n : sections[k] \in Section
  BY <1>1, LoadAssumption DEF Section, Powers
<1>4. sections \in [1 .. n -> Section]
  BY <1>1, <1>3
<1>5. sections \in Seq(Section)
  BY <1>2, <1>4
<1>6. QED
  BY <1>5 DEF SectionsOK, LoadInit

(* A section is a section. *)
LEMMA SectionIs ==
  ASSUME SectionsOK, NEW s \in DOMAIN sections
  PROVE  sections[s] \in Section
BY DEF SectionsOK

(* RODataAlign is the largest alignment of a section, or 1. *)
LEMMA LargestAlign ==
  ASSUME SectionsOK
  PROVE  /\ RODataAlign \in Powers
         /\ \A s \in DOMAIN sections : sections[s].align <= RODataAlign
<1> DEFINE A == {1} \union {sections[s].align : s \in DOMAIN sections}
<1>1. \A s \in DOMAIN sections : sections[s].align \in Powers
  BY SectionIs DEF Section
<1>2. A \subseteq Powers
  BY <1>1 DEF Powers
<1>3. \E a \in A : \A b \in A : b <= a
  <2>0. 1 \in A
    OBVIOUS
  <2> HIDE DEF A
  <2>1. CASE 16 \in A
    BY <1>2, <2>1 DEF Powers
  <2>2. CASE 16 \notin A /\ 8 \in A
    BY <1>2, <2>2 DEF Powers
  <2>3. CASE 16 \notin A /\ 8 \notin A /\ 4 \in A
    BY <1>2, <2>3 DEF Powers
  <2>4. CASE 16 \notin A /\ 8 \notin A /\ 4 \notin A
    BY <1>2, <2>0, <2>4 DEF Powers
  <2>5. QED
    BY <2>1, <2>2, <2>3, <2>4
<1>4. \E a \in A : \A s \in DOMAIN sections : sections[s].align <= a
  BY <1>3
<1>5. RODataAlign \in A /\ \A s \in DOMAIN sections : sections[s].align <= RODataAlign
  BY <1>4 DEF RODataAlign
<1>6. QED
  BY <1>2, <1>5

\* What a section takes at most, its padding included
Rounded(s) == ((AllocSize(s) + RODataAlign - 1) \div RODataAlign) * RODataAlign

(* Rounding up to a power gives a multiple of it that is no smaller. *)
LEMMA RoundUp ==
  ASSUME NEW a \in Powers, NEW x \in Nat
  PROVE  LET r == ((x + a - 1) \div a) * a IN r \in Nat /\ r % a = 0 /\ x <= r
BY DEF Powers

(* The space that allocateDataSection uses for a section. *)
LEMMA RoundedFits ==
  ASSUME SectionsOK, NEW s \in DOMAIN sections
  PROVE  /\ AllocSize(s) \in Nat
         /\ Rounded(s) \in Nat /\ Rounded(s) % RODataAlign = 0 /\ AllocSize(s) <= Rounded(s)
<1>1. AllocSize(s) \in Nat
  BY SectionIs DEF Section, AllocSize
<1>2. QED
  BY <1>1, RoundUp, LargestAlign DEF Rounded

-----------------------------------------------------------------------------
(* The space of a set of sections: the sum of what each takes at most. *)

Share(P) == [n \in 1 .. Len(sections) |-> IF n \in P THEN Rounded(n) ELSE 0]
Sums(P) == CHOOSE f : SumTo(f, Share(P), Len(sections))
Space(P) == Sums(P)[Len(sections)]

(* Space is well defined, and counts whole multiples of the alignment. *)
LEMMA SumsOf ==
  ASSUME SectionsOK, NEW P
  PROVE  /\ SumTo(Sums(P), Share(P), Len(sections))
         /\ \A n \in 0 .. Len(sections) : Sums(P)[n] \in Nat /\ Sums(P)[n] % RODataAlign = 0
         /\ Sums(P)[0] = 0
         /\ \A n \in 1 .. Len(sections) :
              Sums(P)[n] = Sums(P)[n - 1] + (IF n \in P THEN Rounded(n) ELSE 0)
<1> DEFINE L == Len(sections)
           f == Sums(P)
           a == RODataAlign
<1>1. L \in Nat /\ DOMAIN sections = 1 .. L
  BY DEF SectionsOK
<1>2. SumTo(f, Share(P), L)
  BY <1>1, SumExists DEF Sums
<1>3. \A n \in 1 .. L : Share(P)[n] = (IF n \in P THEN Rounded(n) ELSE 0) /\ Share(P)[n] \in Nat
  BY <1>1, RoundedFits DEF Share
<1>4. /\ \A n \in 0 .. L : f[n] \in Nat
      /\ f[0] = 0
      /\ \A n \in 1 .. L : f[n] = f[n - 1] + Share(P)[n]
  BY <1>1, <1>2, <1>3, SumIncreases
<1>5. a \in Powers /\ \A n \in 1 .. L : Share(P)[n] % a = 0
  <2>1. a \in Powers /\ 0 % a = 0
    BY LargestAlign DEF Powers
  <2>2. QED
    BY <1>1, <1>3, <2>1, RoundedFits
<1> DEFINE T == {n \in Nat : n <= L => f[n] % a = 0}
<1>6. 0 \in T
  BY <1>4, <1>5 DEF Powers
<1>7. ASSUME NEW n \in Nat, n \in T PROVE n + 1 \in T
  <2> SUFFICES ASSUME n + 1 <= L PROVE f[n + 1] % a = 0
    OBVIOUS
  <2>1. n + 1 \in 1 .. L /\ (n + 1) - 1 = n /\ n \in 0 .. L
    BY <1>1
  <2>2. f[n] \in Nat /\ f[n] % a = 0
    BY <1>4, <1>7, <2>1
  <2>3. Share(P)[n + 1] \in Nat /\ Share(P)[n + 1] % a = 0
    BY <1>3, <1>5, <2>1
  <2>4. f[n + 1] = f[n] + Share(P)[n + 1]
    BY <1>4, <2>1
  <2>5. \A x, y \in Nat : x % a = 0 /\ y % a = 0 => (x + y) % a = 0
    BY <1>5 DEF Powers
  <2>6. QED
    BY <2>2, <2>3, <2>4, <2>5
<1>8. \A n \in Nat : n \in T
  <2> HIDE DEF T
  <2> QED
    BY <1>6, <1>7, SetInduction
<1>9. QED
  BY <1>2, <1>3, <1>4, <1>8

(* RODataSize is the space of all sections. *)
LEMMA SpaceOfAll ==
  ASSUME SectionsOK
  PROVE  RODataSize = Space(DOMAIN sections)
<1> DEFINE L == Len(sections)
           P == DOMAIN sections
           Sum(f) == f = [n \in 0 .. L |-> IF n = 0 THEN 0 ELSE f[n - 1] + Rounded(n)]
           g == CHOOSE f : Sum(f)
<1>1. L \in Nat /\ P = 1 .. L
  BY DEF SectionsOK
<1>2. RODataSize = g[L]
  BY DEF RODataSize, Rounded
<1>3. SumTo(Sums(P), Share(P), L)
  BY SumsOf
<1>4. Sum(Sums(P))
  <2>1. \A n \in 0 .. L : n # 0 => Share(P)[n] = Rounded(n)
    BY <1>1 DEF Share
  <2>2. QED
    BY <1>3, <2>1 DEF SumTo
<1>5. Sum(g)
  BY <1>4
<1>6. \A n \in Nat : n <= L => g[n] = Sums(P)[n]
  <2> DEFINE T == {n \in Nat : n <= L => g[n] = Sums(P)[n]}
  <2> HIDE DEF g
  <2>1. 0 \in T
    BY <1>1, <1>4, <1>5, 0 \in 0 .. L
  <2>2. ASSUME NEW n \in Nat, n \in T PROVE n + 1 \in T
    <3> SUFFICES ASSUME n + 1 <= L PROVE g[n + 1] = Sums(P)[n + 1]
      OBVIOUS
    <3>1. n + 1 \in 0 .. L /\ n + 1 # 0 /\ (n + 1) - 1 = n /\ n <= L
      BY <1>1
    <3>2. g[n + 1] = g[n] + Rounded(n + 1)
      BY <1>5, <3>1
    <3>3. Sums(P)[n + 1] = Sums(P)[n] + Rounded(n + 1)
      BY <1>4, <3>1
    <3>4. QED
      BY <2>2, <3>1, <3>2, <3>3
  <2>3. \A n \in Nat : n \in T
    <3> HIDE DEF T
    <3> QED
      BY <2>1, <2>2, SetInduction
  <2>4. QED
    BY <2>3
<1>7. QED
  BY <1>1, <1>2, <1>6 DEF Space

(* One more section takes its share. *)
LEMMA SpaceGrows ==
  ASSUME SectionsOK, NEW P \in SUBSET DOMAIN sections, NEW s \in DOMAIN sections, s \notin P
  PROVE  Space(P \union {s}) = Space(P) + Rounded(s)
<1> DEFINE L == Len(sections)
           Q == P \union {s}
           f == Sums(P)
           g == Sums(Q)
           T == {n \in Nat : n <= L => g[n] = f[n] + (IF s <= n THEN Rounded(s) ELSE 0)}
<1>1. L \in Nat /\ DOMAIN sections = 1 .. L /\ s \in 1 .. L
  BY DEF SectionsOK
<1>2. Rounded(s) \in Nat
  BY RoundedFits
<1>3. /\ f[0] = 0 /\ \A n \in 0 .. L : f[n] \in Nat
      /\ \A n \in 1 .. L : f[n] = f[n - 1] + (IF n \in P THEN Rounded(n) ELSE 0)
  BY SumsOf
<1>4. /\ g[0] = 0
      /\ \A n \in 1 .. L : g[n] = g[n - 1] + (IF n \in Q THEN Rounded(n) ELSE 0)
  BY SumsOf
<1>5. 0 \in T
  BY <1>1, <1>3, <1>4
<1>6. ASSUME NEW n \in Nat, n \in T PROVE n + 1 \in T
  <2> SUFFICES ASSUME n + 1 <= L
               PROVE  g[n + 1] = f[n + 1] + (IF s <= n + 1 THEN Rounded(s) ELSE 0)
    OBVIOUS
  <2>1. n + 1 \in 1 .. L /\ (n + 1) - 1 = n /\ n \in 0 .. L /\ n <= L
    BY <1>1
  <2>2. g[n] = f[n] + (IF s <= n THEN Rounded(s) ELSE 0)
    BY <1>6, <2>1
  <2>3. f[n + 1] = f[n] + (IF n + 1 \in P THEN Rounded(n + 1) ELSE 0) /\ f[n] \in Nat
    BY <1>3, <2>1
  <2>4. g[n + 1] = g[n] + (IF n + 1 \in Q THEN Rounded(n + 1) ELSE 0)
    BY <1>4, <2>1
  <2>5. Rounded(n + 1) \in Nat
    BY <1>1, <2>1, RoundedFits
  <2> HIDE DEF f, g
  <2>6. CASE n + 1 = s
    BY <1>1, <1>2, <2>2, <2>3, <2>4, <2>6
  <2>7. CASE n + 1 # s
    <3>1. n + 1 \in Q <=> n + 1 \in P
      BY <2>7
    <3>2. s <= n + 1 <=> s <= n
      BY <1>1, <2>7
    <3>3. QED
      BY <1>2, <2>2, <2>3, <2>4, <2>5, <3>1, <3>2
  <2>8. QED
    BY <2>6, <2>7
<1>7. L \in T
  <2> HIDE DEF T
  <2> QED
    BY <1>1, <1>5, <1>6, SetInduction
<1>8. QED
  BY <1>1, <1>7 DEF Space

(* A part takes no more space than the whole. *)
LEMMA SpaceOfPart ==
  ASSUME SectionsOK, NEW P \in SUBSET DOMAIN sections
  PROVE  Space(P) <= RODataSize /\ Space(P) \in Nat /\ Space(P) % RODataAlign = 0 /\ RODataSize \in Nat
<1> DEFINE L == Len(sections)
           A == DOMAIN sections
           f == Sums(P)
           g == Sums(A)
           T == {n \in Nat : n <= L => f[n] <= g[n]}
<1>1. L \in Nat /\ A = 1 .. L
  BY DEF SectionsOK
<1>2. /\ f[0] = 0 /\ \A n \in 0 .. L : f[n] \in Nat /\ f[n] % RODataAlign = 0
      /\ \A n \in 1 .. L : f[n] = f[n - 1] + (IF n \in P THEN Rounded(n) ELSE 0)
  BY SumsOf
<1>3. /\ g[0] = 0 /\ \A n \in 0 .. L : g[n] \in Nat
      /\ \A n \in 1 .. L : g[n] = g[n - 1] + (IF n \in A THEN Rounded(n) ELSE 0)
  BY SumsOf
<1>4. 0 \in T
  BY <1>1, <1>2, <1>3
<1>5. ASSUME NEW n \in Nat, n \in T PROVE n + 1 \in T
  <2> SUFFICES ASSUME n + 1 <= L PROVE f[n + 1] <= g[n + 1]
    OBVIOUS
  <2>1. n + 1 \in 1 .. L /\ (n + 1) - 1 = n /\ n \in 0 .. L /\ n <= L
    BY <1>1
  <2>2. f[n] <= g[n] /\ f[n] \in Nat /\ g[n] \in Nat
    BY <1>2, <1>3, <1>5, <2>1
  <2>3. f[n + 1] = f[n] + (IF n + 1 \in P THEN Rounded(n + 1) ELSE 0)
    BY <1>2, <2>1
  <2>4. g[n + 1] = g[n] + Rounded(n + 1)
    BY <1>1, <1>3, <2>1
  <2>5. Rounded(n + 1) \in Nat
    BY <1>1, <2>1, RoundedFits
  <2> HIDE DEF f, g
  <2>6. QED
    BY <2>2, <2>3, <2>4, <2>5
<1>6. L \in T
  <2> HIDE DEF T
  <2> QED
    BY <1>1, <1>4, <1>5, SetInduction
<1>7. QED
  BY <1>1, <1>2, <1>3, <1>6, SpaceOfAll DEF Space

(* No sections take no space. *)
LEMMA SpaceOfNone == SectionsOK => Space({}) = 0
<1> SUFFICES ASSUME SectionsOK PROVE Space({}) = 0
  OBVIOUS
<1> DEFINE L == Len(sections)
           f == Sums({})
           T == {n \in Nat : n <= L => f[n] = 0}
<1>1. L \in Nat
  BY DEF SectionsOK
<1>2. f[0] = 0 /\ \A n \in 1 .. L : f[n] = f[n - 1] + 0
  BY SumsOf
<1>3. ASSUME NEW n \in Nat, n \in T PROVE n + 1 \in T
  <2>1. n + 1 <= L => n + 1 \in 1 .. L /\ (n + 1) - 1 = n /\ n <= L
    BY <1>1
  <2>2. QED
    BY <1>2, <1>3, <2>1
<1>4. 0 \in T
  BY <1>2
<1>5. L \in T
  <2> HIDE DEF T
  <2> QED
    BY <1>1, <1>3, <1>4, SetInduction
<1>6. QED
  BY <1>1, <1>5 DEF Space

-----------------------------------------------------------------------------
(* The inductive invariant of the placing: whatever the order, the sections placed
   so far lie below ReadOnlyDataUnallocated, and it has not passed what they take at
   most.  Without the second fact the last section could end outside the block. *)

FromBase(x) == x - (IF PREJIT THEN ReadOnlyDataBlock ELSE 0)

PlacedBelow ==
  \A s \in DOMAIN placed :
    /\ placed[s] \in Nat /\ ReadOnlyDataBlock <= placed[s] /\ End(s) <= ReadOnlyDataUnallocated
    /\ FromBase(placed[s]) % sections[s].align = 0
    /\ \A t \in DOMAIN placed \ {s} : End(s) <= placed[t] \/ End(t) <= placed[s]
    /\ sections[s].stackmap => StackMap = [block |-> placed[s], size |-> AllocSize(s)]

WithinSpace ==
  /\ ReadOnlyDataBlock \in Nat /\ ReadOnlyDataUnallocated \in Nat
  /\ allocMem(ReadOnlyDataBlock, AlignmentFlag)
  /\ ReadOnlyDataSize = RODataSize
  /\ ReadOnlyDataBlock <= ReadOnlyDataUnallocated
  /\ ReadOnlyDataUnallocated <= ReadOnlyDataBlock + Space(DOMAIN placed)

FitInv ==
  /\ SectionsOK
  /\ DOMAIN placed \subseteq DOMAIN sections
  /\ phase \in {"reserveUnwindSpace", "reserveAllocationSpace"} => DOMAIN placed = {}
  /\ DOMAIN placed # {} \/ phase = "allocateDataSection" => WithinSpace
  /\ PlacedBelow

(* Padding to an alignment stays within the next multiple of a larger one. *)
LEMMA PadWithin ==
  ASSUME NEW a \in Powers, NEW l \in Powers, l <= a, NEW B \in Nat, NEW U \in Nat, NEW S \in Nat,
         B % a = 0, S % a = 0, B <= U, U <= B + S
  PROVE  LET p == IF U % l > 0 THEN l - (U % l) ELSE 0
         IN  p \in Nat /\ (U + p) % l = 0 /\ U + p <= B + S
<1>1. CASE a = 1
  BY <1>1 DEF Powers
<1>2. CASE a = 2
  BY <1>2 DEF Powers
<1>3. CASE a = 4
  BY <1>3 DEF Powers
<1>4. CASE a = 8
  BY <1>4 DEF Powers
<1>5. CASE a = 16
  BY <1>5 DEF Powers
<1>6. QED
  BY <1>1, <1>2, <1>3, <1>4, <1>5 DEF Powers

(* The padding of allocateDataSection aligns, and stays within the space of what is
   placed. *)
LEMMA PaddingWithin ==
  ASSUME FitInv, WithinSpace, NEW s \in DOMAIN sections
  PROVE  LET p == padding(sections[s].align)
         IN  /\ p \in Nat
             /\ FromBase(ReadOnlyDataUnallocated + p) % sections[s].align = 0
             /\ ReadOnlyDataUnallocated + p <= ReadOnlyDataBlock + Space(DOMAIN placed)
<1> DEFINE a == RODataAlign
           l == sections[s].align
           S == Space(DOMAIN placed)
           B == ReadOnlyDataBlock
           U == ReadOnlyDataUnallocated
<1>1. SectionsOK /\ DOMAIN placed \in SUBSET DOMAIN sections
  BY DEF FitInv
<1>2. a \in Powers /\ l \in Powers /\ l <= a
  BY <1>1, LargestAlign, SectionIs DEF Section
<1>3. S \in Nat /\ S % a = 0
  BY <1>1, SpaceOfPart
<1>4. B \in Nat /\ U \in Nat /\ B <= U /\ U <= B + S
  BY DEF WithinSpace
<1>5. CASE PREJIT
  <2>1. U - B \in Nat /\ 0 <= U - B /\ U - B <= 0 + S /\ 0 % a = 0
    BY <1>2, <1>3, <1>4 DEF Powers
  <2> DEFINE p == IF (U - B) % l > 0 THEN l - ((U - B) % l) ELSE 0
  <2>2. p \in Nat /\ ((U - B) + p) % l = 0 /\ (U - B) + p <= 0 + S
    BY <1>2, <1>3, <2>1, PadWithin
  <2>3. padding(l) = p
    BY <1>5 DEF padding
  <2>4. FromBase(U + p) = (U - B) + p
    <3> HIDE DEF p
    <3> QED
      BY <1>4, <1>5, <2>2 DEF FromBase
  <2>5. U + p <= B + S
    <3> HIDE DEF p, S
    <3> QED
      BY <1>3, <1>4, <2>2
  <2>6. QED
    BY <2>2, <2>3, <2>4, <2>5
<1>6. CASE ~PREJIT
  <2>1. B % a = 0
    <3>1. B % 8 = 0 /\ (a = 16 => B % 16 = 0)
      BY <1>6 DEF WithinSpace, allocMem, AlignmentFlag
    <3> HIDE DEF a, B
    <3>2. QED
      BY <1>2, <1>4, <3>1 DEF Powers
  <2> DEFINE p == IF U % l > 0 THEN l - (U % l) ELSE 0
  <2>2. p \in Nat /\ (U + p) % l = 0 /\ U + p <= B + S
    BY <1>2, <1>3, <1>4, <2>1, PadWithin
  <2>3. padding(l) = p
    BY <1>6 DEF padding
  <2>4. FromBase(U + p) = U + p
    <3> HIDE DEF p
    <3> QED
      BY <1>4, <1>6, <2>2 DEF FromBase
  <2>5. QED
    BY <2>2, <2>3, <2>4
<1>7. QED
  BY <1>5, <1>6

(* Placing one more section keeps the others as they are. *)
LEMMA PlacingFits ==
  ASSUME FitInv, NEW s \in DOMAIN sections, allocateDataSection(s)
  PROVE  FitInv'
<1> DEFINE result == ReadOnlyDataUnallocated + padding(sections[s].align)
           P == DOMAIN placed
           B == ReadOnlyDataBlock
<1>1. /\ UNCHANGED <<sections, PREJIT, phase, ReadOnlyDataBlock, ReadOnlyDataSize>>
      /\ s \notin P /\ phase = "allocateDataSection"
      /\ placed' = [x \in P \union {s} |-> IF x = s THEN result ELSE placed[x]]
      /\ ReadOnlyDataUnallocated' = result + AllocSize(s)
      /\ StackMap' = IF sections[s].stackmap THEN [block |-> result, size |-> AllocSize(s)] ELSE StackMap
  BY DEF allocateDataSection, object
<1>2. WithinSpace /\ SectionsOK /\ P \in SUBSET DOMAIN sections /\ PlacedBelow
  BY <1>1 DEF FitInv
<1>3. /\ result \in Nat /\ ReadOnlyDataUnallocated <= result
      /\ FromBase(result) % sections[s].align = 0
      /\ result <= B + Space(P)
  BY <1>2, PaddingWithin DEF WithinSpace
<1> HIDE DEF result
<1>4. AllocSize(s) \in Nat /\ AllocSize(s) <= Rounded(s) /\ Rounded(s) \in Nat
  BY <1>2, RoundedFits
<1>5. Space(P \union {s}) = Space(P) + Rounded(s) /\ Space(P) \in Nat
  BY <1>1, <1>2, SpaceGrows, SpaceOfPart
<1>6. SectionsOK' /\ RODataSize' = RODataSize /\ RODataAlign' = RODataAlign
      /\ (\A Q : Space(Q)' = Space(Q)) /\ (\A t : AllocSize(t)' = AllocSize(t))
  BY <1>1, <1>2 DEF SectionsOK, RODataSize, RODataAlign, Space, Sums, Share, Rounded, AllocSize
<1>7. DOMAIN placed' = P \union {s} /\ placed'[s] = result /\ \A t \in P : placed'[t] = placed[t]
  BY <1>1
<1>8. WithinSpace'
  <2>1. allocMem(B, AlignmentFlag)'
    BY <1>1, <1>2, <1>6 DEF WithinSpace, allocMem, AlignmentFlag
  <2>2. result + AllocSize(s) \in Nat /\ B <= result + AllocSize(s) /\ B \in Nat
    BY <1>2, <1>3, <1>4 DEF WithinSpace
  <2>3. result + AllocSize(s) <= B + Space(P \union {s})
    BY <1>3, <1>4, <1>5, <2>2
  <2>4. Space(DOMAIN placed)' = Space(P \union {s})
    BY <1>6, <1>7
  <2>5. QED
    BY <1>1, <1>2, <1>6, <2>1, <2>2, <2>3, <2>4 DEF WithinSpace
<1>9. /\ \A t \in P : t \in DOMAIN sections /\ AllocSize(t) \in Nat /\ placed[t] \in Nat
                      /\ B <= placed[t] /\ placed[t] + AllocSize(t) <= ReadOnlyDataUnallocated
      /\ B \in Nat /\ ReadOnlyDataUnallocated \in Nat /\ B <= ReadOnlyDataUnallocated
  BY <1>2, RoundedFits DEF PlacedBelow, WithinSpace, End
<1>10. ASSUME NEW t \in P \union {s}
       PROVE  /\ placed'[t] \in Nat /\ B <= placed'[t]
              /\ placed'[t] + AllocSize(t) <= result + AllocSize(s)
              /\ FromBase(placed'[t]) % sections[t].align = 0
              /\ \A u \in (P \union {s}) \ {t} : \/ placed'[t] + AllocSize(t) <= placed'[u]
                                                \/ placed'[u] + AllocSize(u) <= placed'[t]
              /\ sections[t].stackmap => StackMap' = [block |-> placed'[t], size |-> AllocSize(t)]
  <2>1. CASE t = s
    <3>1. \A u \in P : placed'[u] + AllocSize(u) <= result
      BY <1>3, <1>7, <1>9
    <3>2. QED
      BY <1>1, <1>3, <1>4, <1>7, <1>9, <2>1, <3>1
  <2>2. CASE t \in P
    <3>1. placed'[t] + AllocSize(t) <= result /\ result <= result + AllocSize(s)
      BY <1>3, <1>4, <1>7, <1>9, <2>2
    <3>2. ASSUME NEW u \in (P \union {s}) \ {t}
          PROVE  \/ placed'[t] + AllocSize(t) <= placed'[u]
                 \/ placed'[u] + AllocSize(u) <= placed'[t]
      <4>1. CASE u = s
        BY <1>7, <3>1, <4>1
      <4>2. CASE u \in P
        BY <1>2, <1>7, <2>2, <4>2 DEF PlacedBelow, End
      <4>3. QED
        BY <4>1, <4>2
    <3>3. sections[t].stackmap => StackMap' = [block |-> placed'[t], size |-> AllocSize(t)]
      <4> SUFFICES ASSUME sections[t].stackmap
                   PROVE  StackMap' = [block |-> placed'[t], size |-> AllocSize(t)]
        OBVIOUS
      <4>1. ~sections[s].stackmap
        BY <1>1, <1>2, <2>2 DEF SectionsOK
      <4>2. StackMap' = StackMap /\ placed'[t] = placed[t]
        BY <1>1, <1>7, <2>2, <4>1
      <4>3. QED
        BY <1>2, <2>2, <4>2 DEF PlacedBelow
    <3>4. FromBase(placed'[t]) % sections[t].align = 0
      BY <1>2, <1>7, <2>2 DEF PlacedBelow
    <3>5. placed'[t] + AllocSize(t) <= result + AllocSize(s)
      BY <1>3, <1>4, <1>7, <1>9, <2>2, <3>1
    <3>6. QED
      BY <1>7, <1>9, <2>2, <3>2, <3>3, <3>4, <3>5
  <2>3. QED
    BY <2>1, <2>2
<1>11. PlacedBelow'
  BY <1>1, <1>6, <1>7, <1>10 DEF PlacedBelow, End, FromBase
<1>12. QED
  BY <1>1, <1>2, <1>6, <1>7, <1>8, <1>11 DEF FitInv

(* A step that leaves the object and its memory alone keeps the placing. *)
LEMMA OthersFit ==
  ASSUME FitInv, UNCHANGED <<object, memory>>,
         phase' \in {"reserveUnwindSpace", "reserveAllocationSpace"} =>
           phase \in {"reserveUnwindSpace", "reserveAllocationSpace"},
         phase' = "allocateDataSection" => phase = "allocateDataSection"
  PROVE  FitInv'
<1>1. UNCHANGED <<sections, PREJIT, ReadOnlyDataBlock, ReadOnlyDataUnallocated, ReadOnlyDataSize,
                  placed, StackMap>>
  BY DEF object, memory
<1>2. SectionsOK' <=> SectionsOK
  BY <1>1 DEF SectionsOK
<1>3. WithinSpace' <=> WithinSpace
  BY <1>1 DEF WithinSpace, RODataSize, RODataAlign, Space, Sums, Share, Rounded, AllocSize,
              allocMem, AlignmentFlag
<1>4. PlacedBelow' <=> PlacedBelow
  BY <1>1 DEF PlacedBelow, FromBase, End, AllocSize
<1>5. QED
  BY <1>1, <1>2, <1>3, <1>4 DEF FitInv

(* reserveAllocationSpace gives an empty block. *)
LEMMA ReservingFits ==
  ASSUME FitInv, NEW address \in {8, 16}, reserveAllocationSpace(address)
  PROVE  FitInv'
<1>1. /\ UNCHANGED <<sections, PREJIT, placed, StackMap>> /\ DOMAIN placed = {}
      /\ ReadOnlyDataBlock' = address /\ ReadOnlyDataUnallocated' = address
      /\ ReadOnlyDataSize' = RODataSize /\ allocMem(address, AlignmentFlag)
      /\ phase' = "allocateDataSection"
  BY DEF reserveAllocationSpace, object, FitInv
<1>2. SectionsOK' /\ RODataSize' = RODataSize /\ RODataAlign' = RODataAlign
      /\ Space({})' = Space({}) /\ SectionsOK
  BY <1>1 DEF FitInv, SectionsOK, RODataSize, RODataAlign, Space, Sums, Share, Rounded, AllocSize
<1>3. WithinSpace'
  <2>1. allocMem(ReadOnlyDataBlock, AlignmentFlag)'
    BY <1>1, <1>2 DEF allocMem, AlignmentFlag
  <2>2. Space(DOMAIN placed)' = 0
    <3>1. DOMAIN placed' = {}
      BY <1>1
    <3>2. Space({})' = 0
      BY <1>2, SpaceOfNone
    <3>3. Space(DOMAIN placed)' = Space({})'
      BY <3>1 DEF Space, Sums, Share
    <3>4. QED
      BY <3>2, <3>3
  <2>3. QED
    BY <1>1, <1>2, <2>1, <2>2 DEF WithinSpace
<1>4. QED
  BY <1>1, <1>2, <1>3 DEF FitInv, PlacedBelow

(* The invariant of the placing holds in every state. *)
LEMMA SpecFitInv == Spec => []FitInv
<1>1. Init => FitInv
  <2> SUFFICES ASSUME Init PROVE FitInv
    OBVIOUS
  <2>1. LoadInit
    BY DEF Init
  <2>2. DOMAIN placed = {} /\ phase = "reserveUnwindSpace"
    BY <2>1 DEF LoadInit
  <2>3. QED
    BY <2>1, <2>2, LoadInitSections DEF FitInv, PlacedBelow
<1>2. FitInv /\ [Next]_vars => FitInv'
  <2> SUFFICES ASSUME FitInv, [Next]_vars PROVE FitInv'
    OBVIOUS
  <2>1. CASE \E address \in {8, 16} : reserveAllocationSpace(address)
    BY <2>1, ReservingFits
  <2>2. CASE \E s \in DOMAIN sections : allocateDataSection(s)
    BY <2>2, PlacingFits
  <2>3. CASE reserveUnwindSpace
    BY <2>3, OthersFit DEF reserveUnwindSpace
  <2>4. CASE LOSHandleLoad
    BY <2>4, OthersFit DEF LOSHandleLoad
  <2>5. CASE collectUnwindBlock
    BY <2>5, OthersFit DEF collectUnwindBlock
  <2>6. CASE wholeFunction \/ reportFunclet \/ reportClauses
    BY <2>6, OthersFit DEF wholeFunction, reportFunclet, reportClauses
  <2>7. CASE getDebugInfoForObject
    BY <2>7, OthersFit DEF getDebugInfoForObject
  <2>8. CASE recordRelocations
    BY <2>8, OthersFit DEF recordRelocations
  <2>9. CASE UNCHANGED vars
    BY <2>9, OthersFit DEF vars, loadVars
  <2>10. QED
    BY <2>1, <2>2, <2>3, <2>4, <2>5, <2>6, <2>7, <2>8, <2>9 DEF Next, LoadNext
<1>3. QED
  BY <1>1, <1>2, PTL DEF Spec

(* RuntimeDyld may come to the sections in any order, and pads them as it goes, yet
   what reserveAllocationSpace asked for before is always enough: the sections lie
   apart and aligned in the block.  Every number, size and alignment of sections. *)
THEOREM SectionsFitHolds == Spec => []SectionsFit
<1>1. FitInv => SectionsFit
  <2> SUFFICES ASSUME FitInv, NEW s \in DOMAIN placed
               PROVE  /\ ReadOnlyDataBlock <= placed[s] /\ End(s) <= ReadOnlyDataBlock + ReadOnlyDataSize
                      /\ (placed[s] - (IF PREJIT THEN ReadOnlyDataBlock ELSE 0)) % sections[s].align = 0
                      /\ \A t \in DOMAIN placed \ {s} : End(s) <= placed[t] \/ End(t) <= placed[s]
                      /\ sections[s].stackmap => StackMap = [block |-> placed[s], size |-> AllocSize(s)]
    BY DEF SectionsFit
  <2>1. WithinSpace /\ PlacedBelow /\ SectionsOK /\ DOMAIN placed \in SUBSET DOMAIN sections
    BY DEF FitInv
  <2>2. Space(DOMAIN placed) <= RODataSize /\ Space(DOMAIN placed) \in Nat /\ RODataSize \in Nat
    BY <2>1, SpaceOfPart
  <2>3. End(s) \in Nat /\ End(s) <= ReadOnlyDataUnallocated
    BY <2>1, RoundedFits DEF PlacedBelow, End
  <2>4. End(s) <= ReadOnlyDataBlock + ReadOnlyDataSize
    BY <2>1, <2>2, <2>3 DEF WithinSpace
  <2>5. QED
    BY <2>1, <2>4 DEF PlacedBelow, FromBase
<1>2. QED
  BY <1>1, SpecFitInv, PTL

-----------------------------------------------------------------------------
(* The two walks over .xdata: at the start of an entry getXdataSize finds the size
   LLVM gave it, so that both walks stop at every entry and nowhere else. *)

Entry == [kind : {"plain", "handler"}, codes : Nat]

\* The words after the entries, for n funclets
WordsOK(n) ==
  /\ words \in Seq(Int) /\ n + 4 <= Len(words)
  /\ words[1] = Sentinel /\ words[2] = n
  /\ \A k \in 0 .. n : words[3 + k] = 10 * (k + 1)
  /\ words[n + 4] = Len(words) - n - 4

EntriesOK ==
  /\ entries \in Seq(Entry) /\ Len(entries) >= 1
  /\ IF Len(entries) = 1 THEN words = <<>> ELSE WordsOK(Len(entries) - 1)

(* What the concatenation of two sequences of words holds. *)
LEMMA Joined ==
  ASSUME NEW s1 \in Seq(Int), NEW s2 \in Seq(Int)
  PROVE  /\ s1 \o s2 \in Seq(Int)
         /\ Len(s1 \o s2) = Len(s1) + Len(s2)
         /\ \A i \in 1 .. Len(s1) : (s1 \o s2)[i] = s1[i]
         /\ \A i \in 1 .. Len(s2) : (s1 \o s2)[Len(s1) + i] = s2[i]
<1>1. Len(s1) \in Nat /\ Len(s2) \in Nat
  BY LenProperties
<1>2. ASSUME NEW i \in 1 .. Len(s1) PROVE (s1 \o s2)[i] = s1[i]
  BY <1>1, ConcatProperties, i \in 1 .. Len(s1) + Len(s2), i <= Len(s1)
<1>3. ASSUME NEW i \in 1 .. Len(s2) PROVE (s1 \o s2)[Len(s1) + i] = s2[i]
  BY <1>1, ConcatProperties, Len(s1) + i \in 1 .. Len(s1) + Len(s2), ~(Len(s1) + i <= Len(s1)),
     (Len(s1) + i) - Len(s1) = i
<1>4. QED
  BY <1>2, <1>3, ConcatProperties

(* The words LoadInit writes have the form registerEHFrames reads. *)
LEMMA WordsWritten ==
  ASSUME NEW n \in Nat, NEW c \in Nat,
         words = Words(n, [k \in 1 .. n + 1 |-> 10 * k], [k \in 1 .. c |-> k])
  PROVE  WordsOK(n)
<1> DEFINE A == <<Sentinel, n>>
           E == [k \in 1 .. n + 1 |-> 10 * k]
           B == [k \in 1 .. n + 1 |-> E[k]]
           C == [k \in 1 .. c |-> k]
           D == <<Len(C)>>
<1>1. A \in Seq(Int) /\ Len(A) = 2 /\ A[1] = Sentinel /\ A[2] = n
  BY DEF Sentinel
<1>2. B \in Seq(Int) /\ Len(B) = n + 1 /\ \A k \in 1 .. n + 1 : B[k] = 10 * k
  <2>1. B \in [1 .. n + 1 -> Int] /\ \A k \in 1 .. n + 1 : B[k] = 10 * k
    OBVIOUS
  <2> HIDE DEF B
  <2>2. QED
    BY <2>1, n + 1 \in Nat
<1>3. C \in Seq(Int) /\ Len(C) = c
  <2>1. C \in [1 .. c -> Int]
    OBVIOUS
  <2> HIDE DEF C
  <2>2. QED
    BY <2>1
<1>4. D \in Seq(Int) /\ Len(D) = 1 /\ D[1] = c
  <2> HIDE DEF C
  <2> QED
    BY <1>3
<1>5. words = ((A \o B) \o D) \o C
  BY DEF Words
<1> HIDE DEF A, B, C, D
<1> DEFINE F == A \o B
           G == F \o D
           H == G \o C
<1>6. F \in Seq(Int) /\ Len(F) = n + 3
      /\ (\A i \in 1 .. 2 : F[i] = A[i]) /\ (\A i \in 1 .. n + 1 : F[2 + i] = B[i])
  <2>1. /\ A \o B \in Seq(Int) /\ Len(A \o B) = Len(A) + Len(B)
        /\ \A i \in 1 .. Len(A) : (A \o B)[i] = A[i]
        /\ \A i \in 1 .. Len(B) : (A \o B)[Len(A) + i] = B[i]
    BY <1>1, <1>2, Joined, Zenon
  <2>2. F = A \o B
    OBVIOUS
  <2> HIDE DEF F
  <2>3. QED
    BY <1>1, <1>2, <2>1, <2>2
<1> HIDE DEF F
<1>7. G \in Seq(Int) /\ Len(G) = n + 4
      /\ (\A i \in 1 .. n + 3 : G[i] = F[i]) /\ (\A i \in 1 .. 1 : G[(n + 3) + i] = D[i])
  <2>1. /\ F \o D \in Seq(Int) /\ Len(F \o D) = Len(F) + Len(D)
        /\ \A i \in 1 .. Len(F) : (F \o D)[i] = F[i]
        /\ \A i \in 1 .. Len(D) : (F \o D)[Len(F) + i] = D[i]
    BY <1>4, <1>6, Joined, Zenon
  <2>2. G = F \o D
    OBVIOUS
  <2> HIDE DEF G
  <2>3. QED
    BY <1>4, <1>6, <2>1, <2>2
<1> HIDE DEF G
<1>8. H \in Seq(Int) /\ Len(H) = n + 4 + c /\ \A i \in 1 .. n + 4 : H[i] = G[i]
  <2>1. /\ G \o C \in Seq(Int) /\ Len(G \o C) = Len(G) + Len(C)
        /\ \A i \in 1 .. Len(G) : (G \o C)[i] = G[i]
        /\ \A i \in 1 .. Len(C) : (G \o C)[Len(G) + i] = C[i]
    BY <1>3, <1>7, Joined, Zenon
  <2>2. H = G \o C
    OBVIOUS
  <2> HIDE DEF H
  <2>3. QED
    BY <1>3, <1>7, <2>1, <2>2
<1> HIDE DEF H
<1>9. words = H
  BY <1>5 DEF F, G, H
<1>10. H[1] = Sentinel /\ H[2] = n
  BY <1>1, <1>6, <1>7, <1>8, 1 \in 1 .. n + 3, 2 \in 1 .. n + 3, 1 \in 1 .. n + 4, 2 \in 1 .. n + 4
<1>11. ASSUME NEW k \in 0 .. n PROVE H[3 + k] = 10 * (k + 1)
  <2>1. 3 + k \in 1 .. n + 4 /\ 3 + k \in 1 .. n + 3 /\ k + 1 \in 1 .. n + 1 /\ 2 + (k + 1) = 3 + k
    OBVIOUS
  <2>2. H[3 + k] = B[k + 1]
    <3>1. H[3 + k] = F[3 + k]
      BY <1>7, <1>8, <2>1
    <3>2. F[2 + (k + 1)] = B[k + 1]
      BY <1>6, <2>1
    <3>3. QED
      BY <2>1, <3>1, <3>2
  <2>3. QED
    BY <1>2, <2>1, <2>2
<1>12. H[n + 4] = c
  BY <1>4, <1>7, <1>8, n + 4 \in 1 .. n + 4, (n + 3) + 1 = n + 4, 1 \in 1 .. 1
<1>13. n + 4 <= Len(H) /\ H[n + 4] = Len(H) - n - 4
  BY <1>8, <1>12
<1>14. QED
  BY <1>8, <1>9, <1>10, <1>11, <1>13, Zenon DEF WordsOK

(* The entries and words of an object satisfy EntriesOK. *)
LEMMA LoadInitEntries == LoadInit => EntriesOK
<1> SUFFICES ASSUME LoadInit PROVE EntriesOK
  OBVIOUS
<1>1. PICK n \in 0 .. MaxFunclets :
        /\ entries \in [1 .. n + 1 -> [kind : EntryKinds, codes : 0 .. MaxCodes]]
        /\ \/ n = 0 /\ words = <<>>
           \/ /\ n > 0
              /\ \E c \in 0 .. MaxClauses :
                   words = Words(n, [k \in 1 .. n + 1 |-> 10 * k], [k \in 1 .. c |-> k])
  BY DEF LoadInit
<1>2. n \in Nat /\ MaxClauses \in Nat /\ MaxCodes \in Nat /\ EntryKinds \subseteq {"plain", "handler"}
  BY LoadAssumption
<1>3. ASSUME NEW k \in 1 .. n + 1 PROVE entries[k] \in Entry
  <2>1. entries[k] \in [kind : EntryKinds, codes : 0 .. MaxCodes]
    BY <1>1
  <2>2. entries[k].kind \in {"plain", "handler"} /\ entries[k].codes \in Nat
    <3>1. entries[k].kind \in EntryKinds /\ entries[k].codes \in 0 .. MaxCodes
      BY <2>1
    <3>2. entries[k].codes \in Nat
      BY <1>2, <3>1
    <3>3. QED
      BY <1>2, <3>1, <3>2
  <2>3. entries[k] = [kind |-> entries[k].kind, codes |-> entries[k].codes]
    BY <2>1
  <2>4. QED
    BY <2>2, <2>3 DEF Entry
<1>4. entries \in [1 .. n + 1 -> Entry] /\ n + 1 \in Nat
  BY <1>1, <1>2, <1>3
<1>5. entries \in Seq(Entry) /\ Len(entries) = n + 1
  BY <1>4
<1>6. CASE n = 0
  BY <1>1, <1>5, <1>6 DEF EntriesOK
<1>7. CASE n > 0
  <2>1. PICK c \in 0 .. MaxClauses :
          words = Words(n, [k \in 1 .. n + 1 |-> 10 * k], [k \in 1 .. c |-> k])
    <3>1. ~(n = 0)
      BY <1>2, <1>7
    <3>2. QED
      BY <1>1, <3>1, Zenon
  <2>2. c \in Nat
    BY <1>2
  <2>3. WordsOK(n)
    BY <1>2, <2>1, <2>2, WordsWritten
  <2>4. QED
    BY <1>2, <1>5, <1>7, <2>3 DEF EntriesOK
<1>8. QED
  BY <1>2, <1>6, <1>7

(* An entry takes at least eight bytes. *)
LEMMA EmittedSizes ==
  ASSUME NEW e \in Entry
  PROVE  emittedSize(e) \in Nat /\ emittedSize(e) >= 8
BY DEF Entry, emittedSize

(* Where the entries start. *)
LEMMA StartsAt ==
  ASSUME EntriesOK
  PROVE  /\ entryStart(1) = 0
         /\ \A k \in 1 .. Len(entries) + 1 : entryStart(k) \in Nat
         /\ \A k \in 1 .. Len(entries) : entryStart(k + 1) = entryStart(k) + emittedSize(entries[k])
<1> DEFINE L == Len(entries)
           Rec(f) == f = [n \in 1 .. L + 1 |-> IF n = 1 THEN 0 ELSE f[n - 1] + emittedSize(entries[n - 1])]
           at == CHOOSE f : Rec(f)
           c == [n \in 1 .. L |-> emittedSize(entries[n])]
<1>1. L \in Nat /\ \A k \in 1 .. L : emittedSize(entries[k]) \in Nat
  BY EmittedSizes DEF EntriesOK
<1>2. \A k : entryStart(k) = at[k]
  BY DEF entryStart
<1>3. PICK f : SumTo(f, c, L)
  BY <1>1, SumExists
<1>4. f[0] = 0 /\ (\A n \in 0 .. L : f[n] \in Nat)
      /\ \A n \in 1 .. L : f[n] = f[n - 1] + emittedSize(entries[n])
  <2>1. \A n \in 1 .. L : c[n] \in Nat /\ c[n] = emittedSize(entries[n])
    BY <1>1
  <2> HIDE DEF c
  <2>2. QED
    BY <1>1, <1>3, <2>1, SumIncreases
<1> DEFINE g == [n \in 1 .. L + 1 |-> f[n - 1]]
<1>5. Rec(g)
  <2>1. ASSUME NEW n \in 1 .. L + 1
        PROVE  g[n] = IF n = 1 THEN 0 ELSE g[n - 1] + emittedSize(entries[n - 1])
    <3>1. CASE n = 1
      BY <1>4, <3>1
    <3>2. CASE n # 1
      <4>1. n - 1 \in 1 .. L /\ n - 1 \in 1 .. L + 1
        BY <1>1, <3>2
      <4>2. g[n] = f[n - 1] /\ g[n - 1] = f[(n - 1) - 1]
        BY <4>1
      <4>3. f[n - 1] = f[(n - 1) - 1] + emittedSize(entries[n - 1])
        BY <1>4, <4>1
      <4>4. QED
        BY <3>2, <4>2, <4>3
    <3>3. QED
      BY <3>1, <3>2
  <2>2. QED
    BY <2>1
<1>6. Rec(at)
  <2> HIDE DEF g
  <2> QED
    BY <1>5
<1> HIDE DEF at, g, c
<1>7. at[1] = 0 /\ \A k \in 1 .. L : at[k + 1] = at[k] + emittedSize(entries[k])
  <2>1. at[1] = 0
    BY <1>1, <1>6, 1 \in 1 .. L + 1
  <2>2. ASSUME NEW k \in 1 .. L PROVE at[k + 1] = at[k] + emittedSize(entries[k])
    BY <1>1, <1>6, k + 1 \in 1 .. L + 1, k + 1 # 1, (k + 1) - 1 = k
  <2>3. QED
    BY <2>1, <2>2
<1> HIDE DEF Rec
<1>8. \A k \in 1 .. L + 1 : at[k] \in Nat
  <2> DEFINE T == {n \in Nat : n <= L => at[n + 1] \in Nat}
  <2>1. 0 \in T
    BY <1>7
  <2>2. ASSUME NEW n \in Nat, n \in T PROVE n + 1 \in T
    <3> SUFFICES ASSUME n + 1 <= L PROVE at[(n + 1) + 1] \in Nat
      OBVIOUS
    <3>1. n + 1 \in 1 .. L /\ at[n + 1] \in Nat
      BY <1>1, <2>2
    <3>2. QED
      BY <1>1, <1>7, <3>1
  <2>3. \A n \in Nat : n \in T
    <3> HIDE DEF T
    <3> QED
      BY <2>1, <2>2, SetInduction
  <2>4. ASSUME NEW k \in 1 .. L + 1 PROVE at[k] \in Nat
    BY <1>1, <2>3, k - 1 \in Nat, k - 1 <= L, (k - 1) + 1 = k
  <2>5. QED
    BY <2>4
<1>9. QED
  BY <1>2, <1>7, <1>8

(* No two entries start at one place. *)
LEMMA StartsApart ==
  ASSUME EntriesOK, NEW j \in 1 .. Len(entries) + 1, NEW k \in 1 .. Len(entries) + 1, j < k
  PROVE  entryStart(j) < entryStart(k)
<1> DEFINE L == Len(entries)
           T == {n \in Nat : j < n /\ n <= L + 1 => entryStart(j) < entryStart(n)}
<1>0. L \in Nat /\ \A n \in 1 .. L : emittedSize(entries[n]) \in Nat /\ emittedSize(entries[n]) > 0
  BY EmittedSizes DEF EntriesOK
<1>1. 0 \in T
  OBVIOUS
<1>2. ASSUME NEW n \in Nat, n \in T PROVE n + 1 \in T
  <2> SUFFICES ASSUME j < n + 1, n + 1 <= L + 1 PROVE entryStart(j) < entryStart(n + 1)
    OBVIOUS
  <2>1. n \in 1 .. L /\ n \in 1 .. L + 1
    BY <1>0
  <2>2. entryStart(n + 1) = entryStart(n) + emittedSize(entries[n])
        /\ entryStart(n) \in Nat /\ entryStart(j) \in Nat
    BY <2>1, StartsAt
  <2>3. entryStart(n) < entryStart(n + 1)
    BY <1>0, <2>1, <2>2
  <2>4. CASE j = n
    BY <2>3, <2>4
  <2>5. CASE j < n
    <3>1. entryStart(j) < entryStart(n)
      BY <1>0, <1>2, <2>1, <2>5
    <3>2. entryStart(n + 1) \in Nat
      BY <1>0, <2>1, <2>2
    <3>3. QED
      BY <2>2, <2>3, <3>1, <3>2
  <2>6. QED
    BY <2>4, <2>5
<1>3. k \in T
  <2> HIDE DEF T
  <2>1. \A n \in Nat : n \in T
    BY <1>1, <1>2, SetInduction
  <2>2. QED
    BY <1>0, <2>1
<1>4. QED
  BY <1>0, <1>3

(* getXdataSize at the start of an entry, in both walks. *)
LEMMA SizeAt ==
  ASSUME EntriesOK, NEW k \in 1 .. Len(entries)
  PROVE  /\ getXdataSize(entryStart(k)).Reported = 4 + 2 * entries[k].codes
         /\ getXdataSize(entryStart(k)).Total = emittedSize(entries[k])
         /\ byte0(entryStart(k)) % 8 = 1
<1> DEFINE L == Len(entries)
           ptr == entryStart(k)
           e == entries[k]
<1>0. L \in Nat /\ e \in Entry
  BY DEF EntriesOK
<1>1. ptr \in Starts
  BY DEF Starts
<1>2. \A j \in 1 .. L : entryStart(j) = ptr => j = k
  <2> SUFFICES ASSUME NEW j \in 1 .. L, j # k PROVE entryStart(j) # ptr
    OBVIOUS
  <2>1. j \in 1 .. L + 1 /\ k \in 1 .. L + 1 /\ (j < k \/ k < j)
    BY <1>0
  <2>2. entryStart(j) \in Nat /\ ptr \in Nat /\ (entryStart(j) < ptr \/ ptr < entryStart(j))
    BY <2>1, StartsApart, StartsAt
  <2> HIDE DEF ptr
  <2>3. QED
    BY <2>2
<1>3. (CHOOSE j \in 1 .. L : entryStart(j) = ptr) = k
  <2> HIDE DEF ptr
  <2> QED
    BY <1>2, k \in 1 .. L, entryStart(k) = ptr DEF ptr
<1>4. EntryAt(ptr) = e
  BY <1>3 DEF EntryAt
<1> HIDE DEF ptr, e
<1>5. NumCodes(ptr) = e.codes /\ byte0(ptr) = 1 + 8 * (IF e.kind = "plain" THEN 0 ELSE 1)
  BY <1>0, <1>1, <1>4 DEF NumCodes, byte0, FlagBits, Entry
<1>6. e.codes \in Nat /\ e.kind \in {"plain", "handler"}
  BY <1>0 DEF Entry
<1> DEFINE Padded(c) == (4 + 2 * c) + (IF ((4 + 2 * c) \div 2) % 2 = 1 THEN 2 ELSE 0)
<1>7. \A c \in Nat : /\ Padded(c) = 4 + 2 * (c + (c % 2))
                       /\ Padded(c) < 8 <=> c = 0
                       /\ Padded(0) = 4
  OBVIOUS
<1>8. getXdataSize(ptr).Reported = 4 + 2 * e.codes
  BY <1>5 DEF getXdataSize
<1>9. getXdataSize(ptr).Total = emittedSize(e)
  <2>1. CASE e.kind = "plain"
    <3>1. byte0(ptr) = 1
      BY <1>5, <2>1
    <3>2. getXdataSize(ptr).Total = LET t == Padded(e.codes) + 0 IN IF t < 8 THEN 8 ELSE t
      BY <1>5, <3>1 DEF getXdataSize
    <3>3. emittedSize(e) = 4 + 2 * (e.codes + (e.codes % 2)) + (IF e.codes = 0 THEN 4 ELSE 0)
      BY <2>1 DEF emittedSize
    <3> DEFINE c == e.codes
    <3> HIDE DEF c
    <3>4. c \in Nat
      BY <1>6 DEF c
    <3>5. (LET t == Padded(c) + 0 IN IF t < 8 THEN 8 ELSE t)
            = 4 + 2 * (c + (c % 2)) + (IF c = 0 THEN 4 ELSE 0)
      BY <3>4
    <3>6. QED
      BY <3>2, <3>3, <3>5 DEF c
  <2>2. CASE e.kind = "handler"
    <3>1. byte0(ptr) = 9
      BY <1>5, <2>2
    <3>2. getXdataSize(ptr).Total = LET t == Padded(e.codes) + 4 IN IF t < 8 THEN 8 ELSE t
      BY <1>5, <3>1 DEF getXdataSize
    <3>3. emittedSize(e) = 4 + 2 * (e.codes + (e.codes % 2)) + 4
      BY <2>2 DEF emittedSize
    <3> DEFINE c == e.codes
    <3> HIDE DEF c
    <3>4. c \in Nat
      BY <1>6 DEF c
    <3>5. (LET t == Padded(c) + 4 IN IF t < 8 THEN 8 ELSE t) = 4 + 2 * (c + (c % 2)) + 4
      BY <3>4
    <3>6. QED
      BY <3>2, <3>3, <3>5 DEF c
  <2>3. QED
    BY <1>6, <2>1, <2>2
<1>10. byte0(ptr) % 8 = 1
  BY <1>5
<1>11. QED
  BY <1>8, <1>9, <1>10 DEF ptr, e

(* A walk that stands at an entry goes on to the next, and past the last it stops:
   at the end of .xdata, or at the words. *)
LEMMA WalkOn ==
  ASSUME EntriesOK, NEW k \in 1 .. Len(entries)
  PROVE  LET next == entryStart(k) + getXdataSize(entryStart(k)).Total
         IN  /\ next = entryStart(k + 1)
             /\ moreEntries(next) <=> k < Len(entries)
             /\ k = Len(entries) => IF Len(entries) = 1 THEN next = XdataEnd
                                    ELSE next # XdataEnd /\ byte0(next) = 255
<1> DEFINE L == Len(entries)
           next == entryStart(k + 1)
<1>0. L \in Nat /\ L >= 1 /\ k + 1 \in 1 .. L + 1 /\ L + 1 \in 1 .. L + 1
  BY DEF EntriesOK
<1>1. entryStart(k) + getXdataSize(entryStart(k)).Total = next
  BY SizeAt, StartsAt
<1>2. WordsStart \in Nat /\ next \in Nat
  BY <1>0, StartsAt DEF WordsStart
<1>3. Len(words) \in Nat /\ (words = <<>> => Len(words) = 0) /\ (L # 1 => Len(words) > 0)
  BY <1>0 DEF EntriesOK, WordsOK
<1>4. XdataEnd \in Nat /\ WordsStart <= XdataEnd /\ (L # 1 => WordsStart < XdataEnd)
      /\ (L = 1 => XdataEnd = WordsStart)
  <2>1. L = 1 => Len(words) = 0
    BY <1>3 DEF EntriesOK
  <2>2. QED
    BY <1>2, <1>3, <2>1 DEF XdataEnd
<1>5. CASE k < L
  <2>1. k + 1 \in 1 .. L
    BY <1>0, <1>5
  <2>2. byte0(next) % 8 = 1
    BY <2>1, SizeAt
  <2>3. next < WordsStart
    BY <1>0, <2>1, k + 1 < L + 1, StartsApart DEF WordsStart
  <2>4. next # XdataEnd
    BY <1>2, <1>4, <2>3
  <2>5. moreEntries(next)
    BY <2>2, <2>4 DEF moreEntries
  <2>6. QED
    BY <1>0, <1>1, <1>5, <2>5
<1>6. CASE k = L
  <2>1. next = WordsStart
    BY <1>6 DEF WordsStart
  <2>2. next \notin Starts
    <3>1. ASSUME NEW j \in 1 .. L PROVE entryStart(j) # next
      <4>1. j \in 1 .. L + 1 /\ j < k + 1
        BY <1>0, <1>6
      <4>2. entryStart(j) < next /\ entryStart(j) \in Nat
        BY <1>0, <4>1, StartsApart, StartsAt
      <4> HIDE DEF next
      <4>3. QED
        BY <1>2, <4>2
    <3>2. QED
      BY <3>1 DEF Starts
  <2>3. CASE L = 1
    BY <1>0, <1>1, <1>4, <1>6, <2>1, <2>3 DEF moreEntries
  <2>4. CASE L # 1
    <3>1. next # XdataEnd /\ next < XdataEnd
      BY <1>2, <1>4, <2>1, <2>4
    <3>2. byte0(next) = 255
      BY <2>1, <2>2, <3>1 DEF byte0
    <3>3. ~moreEntries(next)
      BY <3>2 DEF moreEntries
    <3>4. QED
      BY <1>0, <1>1, <1>6, <2>4, <3>1, <3>2, <3>3
  <2>5. QED
    BY <2>3, <2>4
<1>7. QED
  BY <1>0, <1>5, <1>6

-----------------------------------------------------------------------------
(* The inductive invariant of the walks: what was reserved, collected and reported
   so far is, entry by entry, what the object has, and the walk stands at the next.  *)

BeforeFrames == {"reserveAllocationSpace", "allocateDataSection", "notifyLoaded", "recordRelocations"}
Phases == BeforeFrames \union {"reserveUnwindSpace", "registerEHFrames", "wholeFunction", "funclets", "done"}

CodeEnd(k) == IF Len(entries) = 1 THEN -1 ELSE 10 * k
ReservedOf(k) == [IsHandler |-> k # 1, size |-> 4 + 2 * entries[k].codes]
BlockOf(k) == [block |-> entryStart(k), size |-> 4 + 2 * entries[k].codes]
ReportOf(k) == [start |-> 10 * (k - 1), end |-> CodeEnd(k), block |-> entryStart(k),
                size |-> 4 + 2 * entries[k].codes, kind |-> IF k = 1 THEN "ROOT" ELSE "HANDLER"]

ReservedOK ==
  /\ reserved \in Seq({ReservedOf(k) : k \in 1 .. Len(entries)})
  /\ \A k \in 1 .. Len(reserved) : reserved[k] = ReservedOf(k)
BlocksOK ==
  /\ UnwindBlocks \in Seq({BlockOf(k) : k \in 1 .. Len(entries)})
  /\ \A k \in 1 .. Len(UnwindBlocks) : UnwindBlocks[k] = BlockOf(k)
ReportsOK ==
  /\ reported \in Seq({ReportOf(k) : k \in 1 .. Len(entries)})
  /\ \A k \in 1 .. Len(reported) : reported[k] = ReportOf(k)

\* Where the walks stand
WalkOK ==
  /\ phase \in Phases
  /\ IF phase = "reserveUnwindSpace"
     THEN Len(reserved) < Len(entries) /\ XdataPtr = entryStart(Len(reserved) + 1)
     ELSE Len(reserved) = Len(entries)
  /\ phase \in BeforeFrames => XdataPtr = 0
  /\ phase \in BeforeFrames \union {"reserveUnwindSpace"} => UnwindBlocks = <<>>
  /\ phase = "registerEHFrames" => /\ Len(UnwindBlocks) < Len(entries)
                                   /\ XdataPtr = entryStart(Len(UnwindBlocks) + 1)
  /\ phase \notin {"funclets", "done"} => I = 0 /\ StartOffset = 0 /\ reported = <<>>
  /\ phase \in {"wholeFunction", "funclets"} => Len(UnwindBlocks) = Len(entries)
  /\ phase = "wholeFunction" => Len(entries) = 1
  /\ phase = "funclets" => /\ Len(entries) # 1
                           /\ I \in 0 .. Len(entries) /\ Len(reported) = I /\ StartOffset = 10 * I
  /\ phase = "done" => /\ Len(reported) = Len(entries)
                       /\ Len(entries) # 1 =>
                            /\ EHcount = Len(words) - Len(entries) - 3
                            /\ \A c \in 1 .. EHcount : EHinfo[c] = words[Len(entries) + 3 + c]

UnwindInv == EntriesOK /\ ReservedOK /\ BlocksOK /\ ReportsOK /\ WalkOK

(* What the object's entries give does not change with the rest of the state. *)
LEMMA EntriesSame ==
  ASSUME UNCHANGED <<entries, words>>
  PROVE  /\ EntriesOK' <=> EntriesOK
         /\ \A k : /\ entryStart(k)' = entryStart(k) /\ ReservedOf(k)' = ReservedOf(k)
                   /\ BlockOf(k)' = BlockOf(k) /\ ReportOf(k)' = ReportOf(k)
         /\ reserved' = reserved => (ReservedOK' <=> ReservedOK)
         /\ UnwindBlocks' = UnwindBlocks => (BlocksOK' <=> BlocksOK)
         /\ reported' = reported => (ReportsOK' <=> ReportsOK)
<1>1. EntriesOK' <=> EntriesOK
  BY DEF EntriesOK, WordsOK
<1>2. \A k : /\ entryStart(k)' = entryStart(k) /\ ReservedOf(k)' = ReservedOf(k)
            /\ BlockOf(k)' = BlockOf(k) /\ ReportOf(k)' = ReportOf(k)
  BY DEF entryStart, emittedSize, ReservedOf, BlockOf, ReportOf, CodeEnd
<1>3. reserved' = reserved => (ReservedOK' <=> ReservedOK)
  BY DEF ReservedOK, ReservedOf
<1>4. UnwindBlocks' = UnwindBlocks => (BlocksOK' <=> BlocksOK)
  BY DEF BlocksOK, BlockOf, entryStart, emittedSize
<1>5. reported' = reported => (ReportsOK' <=> ReportsOK)
  BY DEF ReportsOK, ReportOf, CodeEnd, entryStart, emittedSize
<1>6. QED
  BY <1>1, <1>2, <1>3, <1>4, <1>5

(* reserveUnwindSpace records the entry it stands at. *)
LEMMA ReserveWalks ==
  ASSUME UnwindInv, reserveUnwindSpace
  PROVE  UnwindInv'
<1> DEFINE k == Len(reserved) + 1
           L == Len(entries)
           size == getXdataSize(XdataPtr)
           next == XdataPtr + size.Total
           S == {ReservedOf(j) : j \in 1 .. L}
<1>1. /\ UNCHANGED <<entries, words, UnwindBlocks, I, StartOffset, reported, EHcount, EHinfo>>
      /\ phase = "reserveUnwindSpace" /\ EntriesOK
      /\ XdataPtr = entryStart(k) /\ Len(reserved) < L /\ reserved \in Seq(S)
      /\ UnwindBlocks = <<>> /\ reported = <<>> /\ I = 0 /\ StartOffset = 0
  BY DEF reserveUnwindSpace, object, frames, UnwindInv, WalkOK, ReservedOK, BlocksOK, ReportsOK, BeforeFrames
<1>2. L \in Nat /\ Len(reserved) \in Nat /\ k \in 1 .. L
  BY <1>1 DEF EntriesOK
<1>3. size.Reported = 4 + 2 * entries[k].codes
  BY <1>1, <1>2, SizeAt
<1>4. /\ next = entryStart(k + 1) /\ (moreEntries(next) <=> k < L)
      /\ k = L => next = XdataEnd \/ byte0(next) = 255
  BY <1>1, <1>2, WalkOn
<1>5. reserved' = Append(reserved, ReservedOf(k))
  <2>1. (reserved # <<>>) = (k # 1)
    <3>1. reserved # <<>> <=> Len(reserved) # 0
      BY <1>1
    <3>2. QED
      BY <1>2, <3>1
  <2>2. QED
    BY <1>3, <2>1 DEF reserveUnwindSpace, ReservedOf
<1>6. /\ reserved' \in Seq(S) /\ Len(reserved') = k
      /\ \A j \in 1 .. k : reserved'[j] = ReservedOf(j)
  <2>1. ReservedOf(k) \in S
    BY <1>2
  <2>2. /\ reserved' \in Seq(S) /\ Len(reserved') = k
        /\ \A j \in 1 .. Len(reserved) : reserved'[j] = reserved[j]
        /\ reserved'[k] = ReservedOf(k)
    <3> HIDE DEF S
    <3> QED
      BY <1>1, <1>5, <2>1, AppendProperties
  <2>3. \A j \in 1 .. Len(reserved) : reserved[j] = ReservedOf(j)
    BY DEF UnwindInv, WalkOK, ReservedOK, BlocksOK, ReportsOK
  <2>4. \A j \in 1 .. k : j \in 1 .. Len(reserved) \/ j = k
    BY <1>2
  <2>5. QED
    BY <2>2, <2>3, <2>4
<1>7. CASE k < L
  <2>1. phase' = phase /\ XdataPtr' = entryStart(k + 1)
    BY <1>4, <1>7 DEF reserveUnwindSpace
  <2>2. QED
    BY <1>1, <1>2, <1>6, <1>7, <2>1, EntriesSame DEF UnwindInv, WalkOK, ReservedOK, BlocksOK, ReportsOK, BeforeFrames
<1>8. CASE k = L
  <2>1. ~moreEntries(next)
    BY <1>2, <1>4, <1>8
  <2>2. phase' = "reserveAllocationSpace" /\ XdataPtr' = 0
    BY <1>4, <1>8, <2>1 DEF reserveUnwindSpace
  <2>3. QED
    BY <1>1, <1>2, <1>6, <1>8, <2>2, EntriesSame DEF UnwindInv, WalkOK, ReservedOK, BlocksOK, ReportsOK, BeforeFrames, Phases
<1>9. QED
  BY <1>2, <1>7, <1>8

(* registerEHFrames collects the entry it stands at. *)
LEMMA CollectWalks ==
  ASSUME UnwindInv, collectUnwindBlock
  PROVE  UnwindInv'
<1> DEFINE k == Len(UnwindBlocks) + 1
           L == Len(entries)
           size == getXdataSize(XdataPtr)
           next == XdataPtr + size.Total
           S == {BlockOf(j) : j \in 1 .. L}
<1>1. /\ UNCHANGED <<entries, words, reserved, I, StartOffset, reported, EHcount, EHinfo>>
      /\ phase = "registerEHFrames" /\ EntriesOK
      /\ XdataPtr = entryStart(k) /\ Len(UnwindBlocks) < L /\ UnwindBlocks \in Seq(S)
      /\ reported = <<>> /\ I = 0 /\ StartOffset = 0 /\ Len(reserved) = L
  BY DEF collectUnwindBlock, object, UnwindInv, WalkOK, ReservedOK, BlocksOK, ReportsOK
<1>2. L \in Nat /\ L >= 1 /\ Len(UnwindBlocks) \in Nat /\ k \in 1 .. L
  BY <1>1 DEF EntriesOK
<1>3. size.Reported = 4 + 2 * entries[k].codes
  BY <1>1, <1>2, SizeAt
<1>4. /\ next = entryStart(k + 1) /\ (moreEntries(next) <=> k < L)
      /\ k = L => IF L = 1 THEN next = XdataEnd ELSE next # XdataEnd /\ byte0(next) = 255
  BY <1>1, <1>2, WalkOn
<1>5. UnwindBlocks' = Append(UnwindBlocks, BlockOf(k))
  BY <1>1, <1>3 DEF collectUnwindBlock, BlockOf
<1>6. /\ UnwindBlocks' \in Seq(S) /\ Len(UnwindBlocks') = k
      /\ \A j \in 1 .. k : UnwindBlocks'[j] = BlockOf(j)
  <2>1. BlockOf(k) \in S
    BY <1>2
  <2>2. /\ UnwindBlocks' \in Seq(S) /\ Len(UnwindBlocks') = k
        /\ \A j \in 1 .. Len(UnwindBlocks) : UnwindBlocks'[j] = UnwindBlocks[j]
        /\ UnwindBlocks'[k] = BlockOf(k)
    <3> HIDE DEF S
    <3> QED
      BY <1>1, <1>5, <2>1, AppendProperties
  <2>3. \A j \in 1 .. Len(UnwindBlocks) : UnwindBlocks[j] = BlockOf(j)
    BY DEF UnwindInv, WalkOK, ReservedOK, BlocksOK, ReportsOK
  <2>4. \A j \in 1 .. k : j \in 1 .. Len(UnwindBlocks) \/ j = k
    BY <1>2
  <2>5. QED
    BY <2>2, <2>3, <2>4
<1>7. XdataPtr' = entryStart(k + 1)
  BY <1>4 DEF collectUnwindBlock
<1>8. CASE k < L
  <2>1. phase' = phase
    BY <1>4, <1>8 DEF collectUnwindBlock
  <2>2. QED
    BY <1>1, <1>2, <1>6, <1>7, <1>8, <2>1, EntriesSame DEF UnwindInv, WalkOK, ReservedOK, BlocksOK, ReportsOK, BeforeFrames
<1>9. CASE k = L /\ L = 1
  <2>1. Len(UnwindBlocks) = 0
    BY <1>2, <1>9
  <2>2. UnwindBlocks = <<>>
    BY <1>1, <2>1
  <2>3. phase' = "wholeFunction"
    BY <1>4, <1>9, <2>2 DEF collectUnwindBlock
  <2>4. QED
    BY <1>1, <1>2, <1>6, <1>9, <2>3, EntriesSame DEF UnwindInv, WalkOK, ReservedOK, BlocksOK, ReportsOK, BeforeFrames, Phases
<1>10. CASE k = L /\ L # 1
  <2>1. words[1] = Sentinel
    BY <1>1, <1>10 DEF EntriesOK, WordsOK
  <2>2. phase' = "funclets"
    BY <1>4, <1>10, <2>1 DEF collectUnwindBlock
  <2>3. Len(reported') = I' /\ I' \in 0 .. L /\ StartOffset' = 10 * I'
    BY <1>1, <1>2
  <2>4. ReportsOK' /\ EntriesOK' /\ ReservedOK' /\ BlocksOK'
    BY <1>1, <1>6, EntriesSame DEF UnwindInv, BlocksOK
  <2>5. WalkOK'
    BY <1>1, <1>2, <1>6, <1>10, <2>2, <2>3 DEF WalkOK, BeforeFrames, Phases
  <2>6. QED
    BY <2>4, <2>5 DEF UnwindInv
<1>11. QED
  BY <1>2, <1>8, <1>9, <1>10

(* One more report is the report of the next entry. *)
LEMMA OneMoreReport ==
  ASSUME UnwindInv, NEW k \in 1 .. Len(entries), k = Len(reported) + 1,
         reported' = Append(reported, ReportOf(k))
  PROVE  /\ reported' \in Seq({ReportOf(j) : j \in 1 .. Len(entries)}) /\ Len(reported') = k
         /\ \A j \in 1 .. k : reported'[j] = ReportOf(j)
<1> DEFINE S == {ReportOf(j) : j \in 1 .. Len(entries)}
<1>1. ReportOf(k) \in S
  OBVIOUS
<1>2. reported \in Seq(S) /\ \A j \in 1 .. Len(reported) : reported[j] = ReportOf(j)
  BY DEF UnwindInv, WalkOK, ReservedOK, BlocksOK, ReportsOK
<1>3. /\ reported' \in Seq(S) /\ Len(reported') = k
      /\ \A j \in 1 .. Len(reported) : reported'[j] = reported[j]
      /\ reported'[k] = ReportOf(k)
  <2> HIDE DEF S
  <2> QED
    BY <1>1, <1>2, AppendProperties
<1>4. \A j \in 1 .. k : j \in 1 .. Len(reported) \/ j = k
  <2>1. Len(reported) \in Nat
    BY <1>2
  <2>2. QED
    BY <2>1
<1>5. QED
  BY <1>2, <1>3, <1>4

(* The one report of a method without funclets. *)
LEMMA WholeReports ==
  ASSUME UnwindInv, wholeFunction
  PROVE  UnwindInv'
<1>1. /\ UNCHANGED <<entries, words, reserved, XdataPtr, UnwindBlocks, I, StartOffset, EHcount, EHinfo>>
      /\ phase = "wholeFunction" /\ phase' = "done" /\ EntriesOK
      /\ Len(entries) = 1 /\ Len(UnwindBlocks) = 1 /\ reported = <<>> /\ Len(reserved) = 1
      /\ UnwindBlocks[1] = BlockOf(1)
  BY DEF wholeFunction, object, UnwindInv, WalkOK, ReservedOK, BlocksOK, ReportsOK, BeforeFrames
<1>2. reported' = Append(reported, ReportOf(1))
  BY <1>1 DEF wholeFunction, allocUnwindInfo, ReportOf, BlockOf, CodeEnd
<1>3. Len(reported) = 0
  BY <1>1
<1>4. /\ reported' \in Seq({ReportOf(j) : j \in 1 .. Len(entries)}) /\ Len(reported') = 1
      /\ \A j \in 1 .. 1 : reported'[j] = ReportOf(j)
  BY <1>1, <1>2, <1>3, OneMoreReport
<1>5. QED
  BY <1>1, <1>4, EntriesSame DEF UnwindInv, WalkOK, ReservedOK, BlocksOK, ReportsOK, BeforeFrames, Phases

(* The report of one part of the code. *)
LEMMA FuncletReports ==
  ASSUME UnwindInv, reportFunclet
  PROVE  UnwindInv'
<1> DEFINE L == Len(entries)
           k == I + 1
<1>1. /\ UNCHANGED <<entries, words, reserved, XdataPtr, UnwindBlocks, EHcount, EHinfo, phase>>
      /\ phase = "funclets" /\ EntriesOK /\ L # 1 /\ WordsOK(L - 1)
      /\ Len(UnwindBlocks) = L /\ Len(reserved) = L
      /\ I \in 0 .. L /\ Len(reported) = I /\ StartOffset = 10 * I /\ I <= words[2]
      /\ StartOffset' = words[3 + I] /\ I' = k
  BY DEF reportFunclet, object, UnwindInv, WalkOK, ReservedOK, BlocksOK, ReportsOK, BeforeFrames, EntriesOK
<1>2. L \in Nat /\ L >= 1
  BY <1>1 DEF EntriesOK
<1>3. words[2] = L - 1 /\ I \in 0 .. L - 1
  BY <1>1, <1>2 DEF WordsOK
<1>4. words[3 + I] = 10 * k /\ k \in 1 .. L /\ k \in 0 .. L /\ (I = 0 <=> k = 1) /\ I = k - 1
  BY <1>1, <1>2, <1>3 DEF WordsOK
<1>5. UnwindBlocks[k] = BlockOf(k)
  BY <1>1, <1>4 DEF UnwindInv, WalkOK, ReservedOK, BlocksOK, ReportsOK
<1>6. reported' = Append(reported, ReportOf(k))
  <2>1. StartOffset = 10 * (k - 1) /\ CodeEnd(k) = 10 * k
    BY <1>1, <1>4 DEF CodeEnd
  <2>2. UnwindBlocks[k].block = entryStart(k) /\ UnwindBlocks[k].size = 4 + 2 * entries[k].codes
    BY <1>5 DEF BlockOf
  <2>3. (IF I = 0 THEN "ROOT" ELSE "HANDLER") = (IF k = 1 THEN "ROOT" ELSE "HANDLER")
    BY <1>4
  <2>4. QED
    BY <1>4, <2>1, <2>2, <2>3, Zenon DEF reportFunclet, allocUnwindInfo, ReportOf
<1>7. /\ reported' \in Seq({ReportOf(j) : j \in 1 .. L}) /\ Len(reported') = k
      /\ \A j \in 1 .. k : reported'[j] = ReportOf(j)
  BY <1>1, <1>4, <1>6, OneMoreReport
<1>8. ReportsOK' /\ EntriesOK' /\ ReservedOK' /\ BlocksOK'
  BY <1>1, <1>7, EntriesSame DEF UnwindInv, ReportsOK
<1>9. WalkOK'
  BY <1>1, <1>4, <1>7 DEF UnwindInv, WalkOK, BeforeFrames
<1>10. QED
  BY <1>8, <1>9 DEF UnwindInv

(* The clauses come after the last part. *)
LEMMA ClausesReport ==
  ASSUME UnwindInv, reportClauses
  PROVE  UnwindInv'
<1> DEFINE L == Len(entries)
<1>1. /\ UNCHANGED <<entries, words, reserved, XdataPtr, UnwindBlocks, I, StartOffset, reported>>
      /\ phase = "funclets" /\ phase' = "done" /\ EntriesOK /\ L # 1 /\ WordsOK(L - 1)
      /\ Len(UnwindBlocks) = L /\ Len(reserved) = L
      /\ I \in 0 .. L /\ Len(reported) = I /\ I > words[2] /\ EHcount' = words[3 + I]
      /\ EHinfo' = [c \in 1 .. words[3 + I] |-> words[3 + I + c]]
  BY DEF reportClauses, object, UnwindInv, WalkOK, ReservedOK, BlocksOK, ReportsOK, BeforeFrames, EntriesOK
<1>2. L \in Nat /\ L >= 1 /\ Len(words) \in Nat
  BY <1>1 DEF EntriesOK, WordsOK
<1>3. words[2] = L - 1 /\ I = L /\ 3 + I = (L - 1) + 4
  BY <1>1, <1>2 DEF WordsOK
<1>4. words[(L - 1) + 4] = Len(words) - (L - 1) - 4
  BY <1>1 DEF WordsOK
<1>5. /\ EHcount' = Len(words) - L - 3
      /\ \A c \in 1 .. EHcount' : EHinfo'[c] = words[L + 3 + c]
  BY <1>1, <1>2, <1>3, <1>4
<1>6. ReportsOK' /\ EntriesOK' /\ ReservedOK' /\ BlocksOK'
  BY <1>1, EntriesSame DEF UnwindInv
<1>7. WalkOK'
  BY <1>1, <1>3, <1>5 DEF WalkOK, BeforeFrames, Phases
<1>8. QED
  BY <1>6, <1>7 DEF UnwindInv

(* A step between the two walks. *)
LEMMA BetweenWalks ==
  ASSUME UnwindInv, UNCHANGED <<object, reserved, XdataPtr, frames>>, phase \in BeforeFrames,
         phase' \in BeforeFrames \union {"registerEHFrames"}
  PROVE  UnwindInv'
<1>1. UNCHANGED <<entries, words, reserved, XdataPtr, UnwindBlocks, I, StartOffset, reported, EHcount, EHinfo>>
  BY DEF object, frames
<1>2. /\ XdataPtr = 0 /\ UnwindBlocks = <<>> /\ I = 0 /\ StartOffset = 0 /\ reported = <<>>
      /\ Len(reserved) = Len(entries) /\ EntriesOK
  BY DEF UnwindInv, WalkOK, ReservedOK, BlocksOK, ReportsOK, BeforeFrames
<1>3. Len(UnwindBlocks) = 0 /\ Len(UnwindBlocks) < Len(entries) /\ XdataPtr = entryStart(0 + 1)
  <2>1. entryStart(1) = 0
    BY <1>2, StartsAt
  <2>2. QED
    BY <1>2, <2>1 DEF EntriesOK
<1>4. QED
  BY <1>1, <1>2, <1>3, EntriesSame DEF UnwindInv, WalkOK, ReservedOK, BlocksOK, ReportsOK, BeforeFrames, Phases

(* The invariant of the walks holds in every state. *)
LEMMA SpecUnwindInv == Spec => []UnwindInv
<1>1. Init => UnwindInv
  <2> SUFFICES ASSUME Init PROVE UnwindInv
    OBVIOUS
  <2>1. LoadInit /\ EntriesOK
    BY LoadInitEntries DEF Init
  <2>2. /\ phase = "reserveUnwindSpace" /\ XdataPtr = 0 /\ reserved = <<>>
        /\ UnwindBlocks = <<>> /\ I = 0 /\ StartOffset = 0 /\ reported = <<>>
    BY <2>1 DEF LoadInit
  <2>3. Len(reserved) = 0 /\ Len(reserved) < Len(entries) /\ XdataPtr = entryStart(0 + 1)
    <3>1. entryStart(1) = 0
      BY <2>1, StartsAt
    <3>2. QED
      BY <2>1, <2>2, <3>1 DEF EntriesOK
  <2>4. QED
    BY <2>1, <2>2, <2>3 DEF UnwindInv, WalkOK, ReservedOK, BlocksOK, ReportsOK, BeforeFrames, Phases
<1>2. UnwindInv /\ [Next]_vars => UnwindInv'
  <2> SUFFICES ASSUME UnwindInv, [Next]_vars PROVE UnwindInv'
    OBVIOUS
  <2>1. CASE reserveUnwindSpace
    BY <2>1, ReserveWalks
  <2>2. CASE \E address \in {8, 16} : reserveAllocationSpace(address)
    BY <2>2, BetweenWalks DEF reserveAllocationSpace, BeforeFrames
  <2>3. CASE \E s \in DOMAIN sections : allocateDataSection(s)
    BY <2>3, BetweenWalks DEF allocateDataSection, BeforeFrames
  <2>4. CASE LOSHandleLoad
    BY <2>4, BetweenWalks DEF LOSHandleLoad, BeforeFrames
  <2>5. CASE collectUnwindBlock
    BY <2>5, CollectWalks
  <2>6. CASE wholeFunction
    BY <2>6, WholeReports
  <2>7. CASE reportFunclet
    BY <2>7, FuncletReports
  <2>8. CASE reportClauses
    BY <2>8, ClausesReport
  <2>9. CASE getDebugInfoForObject
    BY <2>9, BetweenWalks DEF getDebugInfoForObject, BeforeFrames
  <2>10. CASE recordRelocations
    BY <2>10, BetweenWalks DEF recordRelocations, BeforeFrames
  <2>11. CASE UNCHANGED vars
    <3>1. UNCHANGED <<entries, words, phase, reserved, XdataPtr, UnwindBlocks, I, StartOffset, reported, EHcount, EHinfo>>
      BY <2>11 DEF vars, loadVars, object, frames
    <3>2. ReportsOK' /\ EntriesOK' /\ ReservedOK' /\ BlocksOK'
      BY <3>1, EntriesSame DEF UnwindInv
    <3>3. WalkOK'
      <4>1. \A k : entryStart(k)' = entryStart(k)
        BY <3>1, EntriesSame
      <4>2. QED
        BY <3>1, <4>1 DEF UnwindInv, WalkOK
    <3>4. QED
      BY <3>2, <3>3 DEF UnwindInv
  <2>12. QED
    BY <2>1, <2>2, <2>3, <2>4, <2>5, <2>6, <2>7, <2>8, <2>9, <2>10, <2>11 DEF Next, LoadNext
<1>3. QED
  BY <1>1, <1>2, PTL DEF Spec

(* registerEHFrames hands the runtime, entry for entry, what reserveUnwindSpace
   announced for the same object before its memory was laid out, and asserts nothing
   that fails: for any number of funclets, unwind codes, handlers and clauses. *)
THEOREM UnwindAsReservedHolds == Spec => []UnwindAsReserved
<1>1. UnwindInv => UnwindAsReserved
  <2> SUFFICES ASSUME UnwindInv PROVE UnwindAsReserved
    OBVIOUS
  <2> DEFINE L == Len(entries)
  <2>1. phase # "malformed"
    BY DEF UnwindInv, WalkOK, Phases, BeforeFrames
  <2> SUFFICES ASSUME phase = "done"
               PROVE
    /\ Len(reported) = Len(reserved)
    /\ \A k \in 1 .. Len(reported) :
         /\ reported[k].size = reserved[k].size
         /\ (reported[k].kind = "HANDLER") <=> reserved[k].IsHandler
         /\ reported[k].block = entryStart(k)
    /\ reported[1].start = 0
    /\ \A k \in 1 .. Len(reported) - 1 : reported[k].end = reported[k + 1].start
    /\ words # <<>> => /\ reported[Len(reported)].end = 10 * Len(entries)
                       /\ EHcount = Len(words) - Len(entries) - 3
                       /\ \A c \in 1 .. EHcount : EHinfo[c] = words[Len(entries) + 3 + c]
    BY <2>1 DEF UnwindAsReserved
  <2>2. L \in Nat /\ L >= 1 /\ Len(reported) = L /\ Len(reserved) = L /\ EntriesOK
    BY DEF UnwindInv, WalkOK, EntriesOK
  <2>3. \A k \in 1 .. L : reported[k] = ReportOf(k) /\ reserved[k] = ReservedOf(k)
    BY <2>2 DEF UnwindInv, ReservedOK, ReportsOK
  <2>4. ASSUME NEW k \in 1 .. L
        PROVE  /\ reported[k].size = reserved[k].size
               /\ (reported[k].kind = "HANDLER") <=> reserved[k].IsHandler
               /\ reported[k].block = entryStart(k)
    <3>1. reported[k] = ReportOf(k) /\ reserved[k] = ReservedOf(k)
      BY <2>3
    <3>2. reported[k].size = reserved[k].size /\ reported[k].block = entryStart(k)
      BY <3>1 DEF ReportOf, ReservedOf
    <3>3. reported[k].kind = "HANDLER" <=> k # 1
      BY <3>1 DEF ReportOf
    <3>4. ReservedOf(k).IsHandler <=> k # 1
      BY Zenon DEF ReservedOf
    <3>5. QED
      BY <3>1, <3>2, <3>3, <3>4
  <2>5. ASSUME NEW k \in 1 .. L
        PROVE  reported[k].start = 10 * (k - 1) /\ reported[k].end = CodeEnd(k)
    <3>1. reported[k] = ReportOf(k)
      BY <2>3
    <3>2. QED
      BY <3>1 DEF ReportOf
  <2>6. reported[1].start = 0
    BY <2>2, <2>5, 1 \in 1 .. L, 10 * (1 - 1) = 0
  <2>7. ASSUME NEW k \in 1 .. L - 1 PROVE reported[k].end = reported[k + 1].start
    <3>1. k \in 1 .. L /\ k + 1 \in 1 .. L /\ L # 1 /\ (k + 1) - 1 = k
      BY <2>2
    <3>2. QED
      BY <2>5, <3>1 DEF CodeEnd
  <2>8. words # <<>> => /\ reported[L].end = 10 * L
                        /\ EHcount = Len(words) - L - 3
                        /\ \A c \in 1 .. EHcount : EHinfo[c] = words[L + 3 + c]
    <3> SUFFICES ASSUME words # <<>>
                 PROVE  /\ reported[L].end = 10 * L
                        /\ EHcount = Len(words) - L - 3
                        /\ \A c \in 1 .. EHcount : EHinfo[c] = words[L + 3 + c]
      OBVIOUS
    <3>1. L # 1
      BY <2>2 DEF EntriesOK
    <3>2. QED
      BY <2>2, <2>5, <3>1, L \in 1 .. L DEF CodeEnd, UnwindInv, WalkOK
  <2>9. QED
    BY <2>2, <2>4, <2>6, <2>7, <2>8
<1>2. QED
  BY <1>1, SpecUnwindInv, PTL

-----------------------------------------------------------------------------
(* Debug information: the mapping of native to IL offsets. *)

Row == [address : Nat, Line : Nat, Column : 0 .. 1]
LinesOK ==
  /\ lines \in Seq(Row)
  /\ \A k \in 1 .. Len(lines) - 1 : lines[k].address <= lines[k + 1].address

Mapping == [nativeOffset : Nat, ilOffset : Nat, source : {"CALL_INSTRUCTION", "STACK_EMPTY"}]
Scan == [last : Int, OM : Seq(Mapping)]
\* What the loop over the line table makes of a row.
Mapped(row) == [nativeOffset |-> row.address, ilOffset |-> row.Line,
                source |-> IF row.Column = 1 THEN "CALL_INSTRUCTION" ELSE "STACK_EMPTY"]
Scanned(acc, row) ==
  IF row.Line = acc.last THEN acc ELSE [last |-> row.Line, OM |-> Append(acc.OM, Mapped(row))]
NoScan == [last |-> NoLine, OM |-> <<>>]

(* The fields of rows and mappings are numbers. *)
LEMMA RowIs ==
  /\ \A row \in Row : row.address \in Nat /\ row.Line \in Nat
  /\ \A m \in Mapping : m.nativeOffset \in Nat /\ m.ilOffset \in Nat
BY DEF Row, Mapping

(* A round of the loop over the line table keeps the type of its state. *)
LEMMA ScannedType ==
  ASSUME NEW acc \in Scan, NEW row \in Row
  PROVE  Scanned(acc, row) \in Scan
<1>1. Mapped(row) \in Mapping
  BY DEF Mapped, Mapping, Row
<1>2. acc.last \in Int /\ acc.OM \in Seq(Mapping) /\ row.Line \in Int
  BY DEF Scan, Row
<1>3. Append(acc.OM, Mapped(row)) \in Seq(Mapping)
  BY <1>1, <1>2
<1>4. QED
  BY <1>2, <1>3 DEF Scanned, Scan

(* The states of the loop, row by row. *)
LEMMA Scans ==
  ASSUME LinesOK
  PROVE  \E g \in [0 .. Len(lines) -> Scan] :
            /\ mappings(NoLine) = g[Len(lines)]
            /\ g[0] = NoScan
            /\ \A n \in 1 .. Len(lines) : g[n] = Scanned(g[n - 1], lines[n])
<1> DEFINE L == Len(lines)
           Rec(f) == f = [n \in 0 .. L |->
                            IF n = 0 THEN [last |-> NoLine, OM |-> <<>>]
                            ELSE IF lines[n].Line = f[n - 1].last THEN f[n - 1]
                            ELSE [last |-> lines[n].Line,
                                  OM |-> Append(f[n - 1].OM,
                                            [nativeOffset |-> lines[n].address, ilOffset |-> lines[n].Line,
                                             source |-> IF lines[n].Column = 1 THEN "CALL_INSTRUCTION"
                                                        ELSE "STACK_EMPTY"])]]
           u == CHOOSE f : Rec(f)
           G == [p \in Nat \X Scan |-> IF p[1] + 1 <= L THEN Scanned(p[2], lines[p[1] + 1]) ELSE p[2]]
<1>1. L \in Nat /\ \A n \in 1 .. L : lines[n] \in Row
  BY DEF LinesOK
<1>2. mappings(NoLine) = u[L]
  BY Zenon DEF mappings
<1>3. NoScan \in Scan
  BY DEF NoScan, Scan, NoLine
<1>4. G \in [Nat \X Scan -> Scan]
  <2>1. ASSUME NEW p \in Nat \X Scan
        PROVE  (IF p[1] + 1 <= L THEN Scanned(p[2], lines[p[1] + 1]) ELSE p[2]) \in Scan
    <3>1. p[1] \in Nat /\ p[2] \in Scan
      OBVIOUS
    <3>2. CASE p[1] + 1 <= L
      <4>1. p[1] + 1 \in 1 .. L
        BY <1>1, <3>1, <3>2
      <4>2. Scanned(p[2], lines[p[1] + 1]) \in Scan
        BY <1>1, <3>1, <4>1, ScannedType
      <4>3. QED
        BY <3>2, <4>2
    <3>3. CASE ~(p[1] + 1 <= L)
      BY <3>1, <3>3
    <3>4. QED
      BY <3>2, <3>3
  <2>2. QED
    BY <2>1
<1>5. \A n \in Nat, a \in Scan : n + 1 <= L => G[<<n, a>>] = Scanned(a, lines[n + 1])
  OBVIOUS
<1> HIDE DEF G
<1>6. PICK f \in [0 .. L -> Scan] : f = [n \in 0 .. L |-> IF n = 0 THEN NoScan ELSE G[<<n - 1, f[n - 1]>>]]
  <2>1. \E f : RecursiveTo(f, Scan, NoScan, G, L)
    <3> HIDE DEF L
    <3> QED
      BY <1>1, <1>3, <1>4, RecursionTo
  <2>2. QED
    BY <2>1, Zenon DEF RecursiveTo
<1>7. f[0] = NoScan /\ \A n \in 1 .. L : f[n] = Scanned(f[n - 1], lines[n])
  <2>1. f[0] = NoScan
    BY <1>1, <1>6, 0 \in 0 .. L
  <2>2. ASSUME NEW n \in 1 .. L PROVE f[n] = Scanned(f[n - 1], lines[n])
    <3>1. n \in 0 .. L /\ n # 0 /\ n - 1 \in 0 .. L /\ n - 1 \in Nat /\ (n - 1) + 1 = n /\ (n - 1) + 1 <= L
      BY <1>1
    <3>2. f[n] = G[<<n - 1, f[n - 1]>>]
      BY <1>6, <3>1
    <3>3. f[n - 1] \in Scan
      BY <1>6, <3>1
    <3>4. G[<<n - 1, f[n - 1]>>] = Scanned(f[n - 1], lines[(n - 1) + 1])
      BY <1>5, <3>1, <3>3
    <3>5. QED
      BY <3>1, <3>2, <3>4
  <2>3. QED
    BY <2>1, <2>2
<1>8. Rec(f)
  <2>1. ASSUME NEW n \in 0 .. L
        PROVE  f[n] = IF n = 0 THEN NoScan ELSE Scanned(f[n - 1], lines[n])
    <3>1. CASE n = 0
      BY <1>7, <3>1
    <3>2. CASE n # 0
      BY <1>1, <1>7, <3>2, n \in 1 .. L
    <3>3. QED
      BY <3>1, <3>2
  <2>2. f = [n \in 0 .. L |-> IF n = 0 THEN NoScan ELSE Scanned(f[n - 1], lines[n])]
    BY <1>6, <2>1
  <2>3. QED
    BY <2>2, Zenon DEF Scanned, NoScan, Mapped
<1>9. Rec(u)
  BY <1>8, Zenon
<1>10. u = [n \in 0 .. L |-> IF n = 0 THEN NoScan ELSE Scanned(u[n - 1], lines[n])]
  <2> HIDE DEF u
  <2> QED
    BY <1>9, Zenon DEF Scanned, NoScan, Mapped
<1> HIDE DEF u
<1>11. u[0] = NoScan
  BY <1>1, <1>10, 0 \in 0 .. L
<1>12. ASSUME NEW n \in 1 .. L PROVE u[n] = Scanned(u[n - 1], lines[n])
  BY <1>1, <1>10, n \in 0 .. L, n # 0
<1>13. \A n \in Nat : n <= L => u[n] \in Scan
  <2> DEFINE T == {n \in Nat : n <= L => u[n] \in Scan}
  <2>1. 0 \in T
    BY <1>3, <1>11
  <2>2. ASSUME NEW n \in Nat, n \in T PROVE n + 1 \in T
    <3> SUFFICES ASSUME n + 1 <= L PROVE u[n + 1] \in Scan
      OBVIOUS
    <3>1. n + 1 \in 1 .. L /\ (n + 1) - 1 = n /\ u[n] \in Scan
      BY <1>1, <2>2
    <3>2. Scanned(u[n], lines[n + 1]) \in Scan
      BY <1>1, <3>1, ScannedType
    <3>3. QED
      BY <1>12, <3>1, <3>2
  <2>3. \A n \in Nat : n \in T
    <3> HIDE DEF T
    <3> QED
      BY <2>1, <2>2, SetInduction
  <2>4. QED
    BY <2>3
<1>14. u \in [0 .. L -> Scan]
  <2>1. ASSUME NEW n \in 0 .. L PROVE u[n] \in Scan
    BY <1>1, <1>13
  <2>2. QED
    BY <1>10, <2>1
<1>15. QED
  BY <1>2, <1>11, <1>12, <1>14

\* The last row at or before an address among the first n, and the last mapping.
RowAt(i, n, x) == i \in 1 .. n /\ lines[i].address <= x /\ \A l \in i + 1 .. n : ~(lines[l].address <= x)
MapAt(om, j, x) ==
  j \in 1 .. Len(om) /\ om[j].nativeOffset <= x /\ \A l \in j + 1 .. Len(om) : ~(om[l].nativeOffset <= x)

\* After n rows: the last mapping is for the last row, and looking up an address in the
\* mappings gives what looking it up in the rows does.
AtEnd(acc, n) ==
  IF n = 0 THEN acc = NoScan
  ELSE /\ acc.last = lines[n].Line /\ Len(acc.OM) >= 1
       /\ acc.OM[Len(acc.OM)].ilOffset = lines[n].Line
       /\ acc.OM[Len(acc.OM)].nativeOffset <= lines[n].address
Finds(acc, n) ==
  \A x \in Nat : (\E i \in 1 .. n : lines[i].address <= x) =>
    \E i, j : RowAt(i, n, x) /\ MapAt(acc.OM, j, x) /\ lines[i].Line = acc.OM[j].ilOffset

(* The order of addresses is transitive. *)
LEMMA AtMostTrans ==
  ASSUME NEW a \in Nat, NEW b \in Nat, NEW c \in Nat, a <= b, b <= c
  PROVE  a <= c
OBVIOUS

(* A round of the loop keeps what AtEnd and Finds say. *)
LEMMA ScanStep ==
  ASSUME LinesOK, NEW n \in Nat, n + 1 <= Len(lines), NEW acc \in Scan, AtEnd(acc, n), Finds(acc, n)
  PROVE  AtEnd(Scanned(acc, lines[n + 1]), n + 1) /\ Finds(Scanned(acc, lines[n + 1]), n + 1)
<1> DEFINE row == lines[n + 1]
           new == Scanned(acc, row)
           om == acc.OM
           m == Len(om)
           om2 == new.OM
<1>1. /\ Len(lines) \in Nat /\ n + 1 \in 1 .. Len(lines) /\ row \in Row
      /\ \A i \in 1 .. n + 1 : lines[i].address \in Nat
  <2>1. lines \in Seq(Row)
    BY DEF LinesOK
  <2>2. \A i \in 1 .. Len(lines) : lines[i] \in Row
    BY <2>1
  <2>3. QED
    BY <2>1, <2>2, RowIs
<1>2. row.address \in Nat /\ row.Line \in Nat
  BY <1>1, RowIs
<1>3. om \in Seq(Mapping) /\ m \in Nat /\ acc.last \in Int /\ \A j \in 1 .. m : om[j].nativeOffset \in Nat
  <2>1. om \in Seq(Mapping) /\ acc.last \in Int
    BY DEF Scan
  <2>2. \A j \in 1 .. m : om[j] \in Mapping
    BY <2>1
  <2>3. QED
    BY <2>1, <2>2, RowIs
<1>4. n # 0 => lines[n].address <= row.address
  BY <1>1 DEF LinesOK
<1>5. CASE row.Line = acc.last
  <2>1. new = acc
    BY <1>5, Zenon DEF Scanned
  <2>2. n # 0
    BY <1>2, <1>5 DEF AtEnd, NoScan, NoLine
  <2>3. /\ m >= 1 /\ om[m].ilOffset = row.Line /\ om[m].nativeOffset <= lines[n].address
        /\ lines[n].address \in Nat
    BY <1>1, <1>5, <2>2 DEF AtEnd
  <2>4. om[m].nativeOffset <= row.address
    BY <1>2, <1>3, <1>4, <2>2, <2>3
  <2>5. AtEnd(new, n + 1)
    BY <1>5, <2>1, <2>3, <2>4 DEF AtEnd
  <2>6. Finds(acc, n + 1)
    <3> SUFFICES ASSUME NEW x \in Nat, \E i \in 1 .. n + 1 : lines[i].address <= x
                 PROVE  \E i, j : RowAt(i, n + 1, x) /\ MapAt(om, j, x) /\ lines[i].Line = om[j].ilOffset
      BY DEF Finds
    <3>1. CASE row.address <= x
      <4>1. RowAt(n + 1, n + 1, x)
        BY <1>1, <3>1 DEF RowAt
      <4>2. om[m].nativeOffset <= x
        <5>1. om[m].nativeOffset \in Nat
          BY <1>3, <2>3
        <5>2. QED
          BY <1>2, <2>4, <3>1, <5>1, AtMostTrans
      <4>3. MapAt(om, m, x)
        BY <1>3, <2>3, <4>2 DEF MapAt
      <4>4. QED
        BY <2>3, <4>1, <4>3
    <3>2. CASE ~(row.address <= x)
      <4>1. \E i \in 1 .. n : lines[i].address <= x
        <5>1. PICK i \in 1 .. n + 1 : lines[i].address <= x
          OBVIOUS
        <5>2. i # n + 1
          BY <3>2, <5>1
        <5>3. i \in 1 .. n
          BY <5>1, <5>2
        <5>4. QED
          BY <5>1, <5>3
      <4>2. PICK i, j : RowAt(i, n, x) /\ MapAt(om, j, x) /\ lines[i].Line = om[j].ilOffset
        BY <4>1 DEF Finds
      <4>3. RowAt(i, n + 1, x)
        BY <3>2, <4>2 DEF RowAt
      <4>4. QED
        BY <4>2, <4>3
    <3>3. QED
      BY <3>1, <3>2
  <2>7. QED
    BY <2>1, <2>5, <2>6
<1>6. CASE row.Line # acc.last
  <2>1. new = [last |-> row.Line, OM |-> Append(om, Mapped(row))]
    BY <1>6, Zenon DEF Scanned
  <2>2. Mapped(row).ilOffset = row.Line /\ Mapped(row).nativeOffset = row.address /\ Mapped(row) \in Mapping
    BY <1>1 DEF Mapped, Mapping, Row
  <2> HIDE DEF new
  <2>3. new.last = row.Line /\ om2 = Append(om, Mapped(row))
    BY <2>1
  <2>4. /\ Len(om2) = m + 1 /\ om2[m + 1] = Mapped(row)
        /\ \A j \in 1 .. m : om2[j] = om[j]
    BY <1>3, <2>2, <2>3
  <2> HIDE DEF om2
  <2>5. AtEnd(new, n + 1)
    <3>1. Len(om2) >= 1 /\ om2[Len(om2)].ilOffset = row.Line /\ om2[Len(om2)].nativeOffset <= row.address
      BY <1>2, <1>3, <2>2, <2>4
    <3>2. QED
      BY <2>3, <3>1 DEF AtEnd, om2
  <2>6. Finds(new, n + 1)
    <3> SUFFICES ASSUME NEW x \in Nat, \E i \in 1 .. n + 1 : lines[i].address <= x
                 PROVE  \E i, j : RowAt(i, n + 1, x) /\ MapAt(om2, j, x) /\ lines[i].Line = om2[j].ilOffset
      BY DEF Finds, om2
    <3>1. CASE row.address <= x
      <4>1. RowAt(n + 1, n + 1, x)
        BY <1>1, <3>1 DEF RowAt
      <4>2. MapAt(om2, m + 1, x)
        BY <1>3, <2>2, <2>4, <3>1 DEF MapAt
      <4>3. QED
        BY <2>2, <2>4, <4>1, <4>2
    <3>2. CASE ~(row.address <= x)
      <4>1. \E i \in 1 .. n : lines[i].address <= x
        <5>1. PICK i \in 1 .. n + 1 : lines[i].address <= x
          OBVIOUS
        <5>2. i # n + 1
          BY <3>2, <5>1
        <5>3. i \in 1 .. n
          BY <5>1, <5>2
        <5>4. QED
          BY <5>1, <5>3
      <4>2. PICK i, j : RowAt(i, n, x) /\ MapAt(om, j, x) /\ lines[i].Line = om[j].ilOffset
        BY <4>1 DEF Finds
      <4>3. RowAt(i, n + 1, x)
        BY <3>2, <4>2 DEF RowAt
      <4>4. MapAt(om2, j, x) /\ om2[j] = om[j]
        <5>1. j \in 1 .. m /\ om[j].nativeOffset <= x /\ \A l \in j + 1 .. m : ~(om[l].nativeOffset <= x)
          BY <4>2 DEF MapAt
        <5>2. om2[j] = om[j] /\ j \in 1 .. Len(om2)
          BY <1>3, <2>4, <5>1
        <5>3. ASSUME NEW l \in j + 1 .. Len(om2) PROVE ~(om2[l].nativeOffset <= x)
          <6>1. CASE l = m + 1
            BY <2>2, <2>4, <3>2, <6>1, Zenon
          <6>2. CASE l # m + 1
            <7>1. l \in j + 1 .. m /\ l \in 1 .. m
              BY <1>3, <2>4, <5>1, <6>2
            <7>2. QED
              BY <2>4, <5>1, <7>1, Zenon
          <6>3. QED
            BY <6>1, <6>2
        <5>4. QED
          BY <5>1, <5>2, <5>3, Zenon DEF MapAt
      <4>5. QED
        BY <4>2, <4>3, <4>4
    <3>3. QED
      BY <3>1, <3>2
  <2>7. QED
    BY <2>5, <2>6 DEF new
<1>7. QED
  BY <1>5, <1>6

(* After the loop, looking an address up in the mappings is looking it up in the rows. *)
LEMMA Lookup ==
  ASSUME LinesOK
  PROVE  mappings(NoLine) \in Scan /\ Finds(mappings(NoLine), Len(lines))
<1> DEFINE L == Len(lines)
<1>1. L \in Nat
  BY DEF LinesOK
<1>2. PICK g \in [0 .. L -> Scan] :
         /\ mappings(NoLine) = g[L]
         /\ g[0] = NoScan
         /\ \A n \in 1 .. L : g[n] = Scanned(g[n - 1], lines[n])
  BY Scans, Zenon
<1> DEFINE T == {n \in Nat : n <= L => AtEnd(g[n], n) /\ Finds(g[n], n)}
<1>3. 0 \in T
  <2>1. AtEnd(g[0], 0) /\ Finds(g[0], 0)
    BY <1>2 DEF AtEnd, Finds
  <2>2. QED
    BY <2>1
<1>4. ASSUME NEW n \in Nat, n \in T PROVE n + 1 \in T
  <2> SUFFICES ASSUME n + 1 <= L PROVE AtEnd(g[n + 1], n + 1) /\ Finds(g[n + 1], n + 1)
    OBVIOUS
  <2>1. n + 1 \in 1 .. L /\ (n + 1) - 1 = n /\ n \in 0 .. L /\ AtEnd(g[n], n) /\ Finds(g[n], n)
    BY <1>1, <1>4
  <2>2. g[n + 1] = Scanned(g[n], lines[n + 1]) /\ g[n] \in Scan
    BY <1>2, <2>1
  <2>3. QED
    BY <2>1, <2>2, ScanStep
<1>5. \A n \in Nat : n \in T
  <2> HIDE DEF T
  <2> QED
    BY <1>3, <1>4, SetInduction
<1>6. AtEnd(g[L], L) /\ Finds(g[L], L) /\ g[L] \in Scan
  BY <1>1, <1>2, <1>5
<1>7. QED
  BY <1>2, <1>6, Zenon

(* The array handed to setBoundaries, for a line table.  The table is a parameter, so
   that the invariant below can be read in the next state. *)
BoundaryFor(b, rows) ==
  /\ b.cMap = Len(b.pMap)
  /\ \A k \in 1 .. Len(rows) :
       LastWhere(b.pMap, LAMBDA m : m.nativeOffset <= rows[k].address).ilOffset
         = LastWhere(rows, LAMBDA row : row.address <= rows[k].address).Line

(* The array getDebugInfoForObject writes is as it should be. *)
LEMMA BoundariesWritten ==
  ASSUME LinesOK
  PROVE  BoundaryFor([cMap |-> NumDebugRanges, pMap |-> mappings(resetOffset).OM], lines)
<1> DEFINE om == mappings(NoLine).OM
           b == [cMap |-> NumDebugRanges, pMap |-> mappings(resetOffset).OM]
<1>1. b.cMap = Len(om) /\ b.pMap = om
  BY Zenon DEF NumDebugRanges, resetOffset
<1>2. om \in Seq(Mapping) /\ Len(om) \in Nat /\ Len(lines) \in Nat
  BY Lookup DEF Scan, LinesOK
<1>3. \A j \in 1 .. Len(om) : om[j].nativeOffset \in Nat
  <2>1. \A j \in 1 .. Len(om) : om[j] \in Mapping
    BY <1>2
  <2>2. QED
    BY <2>1, RowIs
<1>4. \A k \in 1 .. Len(lines) : lines[k].address \in Nat
  <2>1. \A k \in 1 .. Len(lines) : lines[k] \in Row
    BY DEF LinesOK
  <2>2. QED
    BY <2>1, RowIs
<1> HIDE DEF om, b
<1>5. ASSUME NEW k \in 1 .. Len(lines)
      PROVE  LastWhere(om, LAMBDA m : m.nativeOffset <= lines[k].address).ilOffset
               = LastWhere(lines, LAMBDA row : row.address <= lines[k].address).Line
  <2> DEFINE x == lines[k].address
  <2>1. x \in Nat /\ lines[k].address <= x
    BY <1>4
  <2>2. PICK i, j : RowAt(i, Len(lines), x) /\ MapAt(om, j, x) /\ lines[i].Line = om[j].ilOffset
    BY <2>1, Lookup DEF Finds, om
  <2> HIDE DEF x
  <2>3. (CHOOSE l \in 1 .. Len(lines) : lines[l].address <= x /\ \A z \in l + 1 .. Len(lines) : ~(lines[z].address <= x)) = i
    <3>1. ASSUME NEW l \in 1 .. Len(lines), lines[l].address <= x,
                 \A z \in l + 1 .. Len(lines) : ~(lines[z].address <= x)
          PROVE  l = i
      <4>1. i \in 1 .. Len(lines) /\ ~(l < i) /\ ~(i < l)
        BY <1>2, <2>2, <3>1 DEF RowAt
      <4>2. QED
        BY <1>2, <4>1
    <3>2. QED
      BY <2>2, <3>1 DEF RowAt
  <2>4. (CHOOSE l \in 1 .. Len(om) : om[l].nativeOffset <= x /\ \A z \in l + 1 .. Len(om) : ~(om[z].nativeOffset <= x)) = j
    <3>1. ASSUME NEW l \in 1 .. Len(om), om[l].nativeOffset <= x,
                 \A z \in l + 1 .. Len(om) : ~(om[z].nativeOffset <= x)
          PROVE  l = j
      <4>1. j \in 1 .. Len(om) /\ ~(l < j) /\ ~(j < l)
        BY <1>2, <2>2, <3>1 DEF MapAt
      <4>2. QED
        BY <1>2, <4>1
    <3>2. QED
      BY <2>2, <3>1 DEF MapAt
  <2>5. LastWhere(om, LAMBDA m : m.nativeOffset <= x) = om[j]
    BY <2>4, Zenon DEF LastWhere
  <2>6. LastWhere(lines, LAMBDA row : row.address <= x) = lines[i]
    BY <2>3, Zenon DEF LastWhere
  <2>7. QED
    BY <2>2, <2>5, <2>6, Zenon DEF x
<1>6. BoundaryFor(b, lines)
  BY <1>1, <1>5, Zenon DEF BoundaryFor
<1>7. QED
  BY <1>6 DEF b

-----------------------------------------------------------------------------
(* Debug information: the locals. *)

DwarfEntry == [tag : {"formal_parameter", "variable", "lexical_block"}, location : Int]
DwarfOK == dwarf \in Seq(DwarfEntry)

\* The k-th local found is the k-th entry of a local.
Numbered(found, n) ==
  /\ Len(found) = Cardinality(LocalsTo(n))
  /\ \A d \in LocalsTo(n) :
       Cardinality(LocalsTo(d)) \in 1 .. Len(found) /\ found[Cardinality(LocalsTo(d))] = dwarf[d]

(* One more entry of the tree is one more local, or none. *)
LEMMA LocalsGrow ==
  ASSUME NEW n \in Nat
  PROVE  /\ IsFiniteSet(LocalsTo(n)) /\ Cardinality(LocalsTo(n)) \in Nat
         /\ IsLocal(dwarf[n + 1]) => /\ LocalsTo(n + 1) = LocalsTo(n) \union {n + 1}
                                     /\ Cardinality(LocalsTo(n + 1)) = Cardinality(LocalsTo(n)) + 1
         /\ ~IsLocal(dwarf[n + 1]) => LocalsTo(n + 1) = LocalsTo(n)
<1>1. IsFiniteSet(1 .. n) /\ LocalsTo(n) \subseteq 1 .. n
  BY FS_Interval DEF LocalsTo
<1>2. IsFiniteSet(LocalsTo(n))
  BY <1>1, FS_Subset
<1>3. Cardinality(LocalsTo(n)) \in Nat
  BY <1>2, FS_CardinalityType
<1>4. \A d : d \in 1 .. n + 1 <=> d \in 1 .. n \/ d = n + 1
  OBVIOUS
<1>5. IsLocal(dwarf[n + 1]) => LocalsTo(n + 1) = LocalsTo(n) \union {n + 1}
  BY <1>4, Zenon DEF LocalsTo
<1>6. ~IsLocal(dwarf[n + 1]) => LocalsTo(n + 1) = LocalsTo(n)
  BY <1>4, Zenon DEF LocalsTo
<1>7. n + 1 \notin LocalsTo(n)
  BY <1>1
<1>8. Cardinality(LocalsTo(n) \union {n + 1}) = Cardinality(LocalsTo(n)) + 1
  BY <1>2, <1>7, FS_AddElement
<1>9. QED
  BY <1>2, <1>3, <1>5, <1>6, <1>8, Zenon

(* A visit of extractLocalLocations keeps the numbering. *)
LEMMA FindStep ==
  ASSUME DwarfOK, NEW n \in Nat, n + 1 <= Len(dwarf), NEW found \in Seq(DwarfEntry), Numbered(found, n)
  PROVE  LET new == IF IsLocal(dwarf[n + 1]) THEN Append(found, dwarf[n + 1]) ELSE found
         IN  new \in Seq(DwarfEntry) /\ Numbered(new, n + 1)
<1> DEFINE e == dwarf[n + 1]
           c == Cardinality(LocalsTo(n))
<1>1. e \in DwarfEntry /\ n + 1 \in 1 .. Len(dwarf)
  BY DEF DwarfOK
<1>2. CASE ~IsLocal(e)
  <2>1. LocalsTo(n + 1) = LocalsTo(n)
    BY <1>2, LocalsGrow
  <2>2. Numbered(found, n + 1)
    BY <2>1, Zenon DEF Numbered
  <2>3. QED
    BY <1>2, <2>2, Zenon
<1>3. CASE IsLocal(e)
  <2> DEFINE new == Append(found, e)
  <2>1. LocalsTo(n + 1) = LocalsTo(n) \union {n + 1} /\ Cardinality(LocalsTo(n + 1)) = c + 1 /\ c \in Nat
    BY <1>3, LocalsGrow
  <2>2. Len(found) = c
    BY DEF Numbered
  <2>3. /\ new \in Seq(DwarfEntry) /\ Len(new) = c + 1 /\ new[c + 1] = e
        /\ \A k \in 1 .. c : new[k] = found[k]
    BY <1>1, <2>1, <2>2
  <2> HIDE DEF new, c, e
  <2>4. ASSUME NEW d \in LocalsTo(n + 1)
        PROVE  Cardinality(LocalsTo(d)) \in 1 .. Len(new) /\ new[Cardinality(LocalsTo(d))] = dwarf[d]
    <3>1. CASE d = n + 1
      <4>1. Cardinality(LocalsTo(d)) = c + 1 /\ c + 1 \in 1 .. Len(new) /\ dwarf[d] = e
        BY <2>1, <2>3, <3>1 DEF e
      <4>2. QED
        BY <2>3, <4>1
    <3>2. CASE d # n + 1
      <4>1. d \in LocalsTo(n)
        BY <2>1, <3>2
      <4>2. Cardinality(LocalsTo(d)) \in 1 .. c /\ found[Cardinality(LocalsTo(d))] = dwarf[d]
        BY <2>2, <4>1 DEF Numbered
      <4>3. Cardinality(LocalsTo(d)) \in 1 .. Len(new)
        BY <2>1, <2>3, <4>2
      <4>4. QED
        BY <2>3, <4>2, <4>3
    <3>3. QED
      BY <3>1, <3>2
  <2>5. Numbered(new, n + 1)
    BY <2>1, <2>3, <2>4 DEF Numbered
  <2>6. QED
    BY <1>3, <2>3, <2>5, Zenon DEF new, e
<1>4. QED
  BY <1>2, <1>3

(* extractLocalLocations finds the locals in their order. *)
LEMMA LocalsFound ==
  ASSUME DwarfOK
  PROVE  foundLocals \in Seq(DwarfEntry) /\ Numbered(foundLocals, Len(dwarf))
<1> DEFINE L == Len(dwarf)
           S == Seq(DwarfEntry)
           Rec(f) == f = [n \in 0 .. L |-> IF n = 0 THEN <<>>
                                           ELSE IF IsLocal(dwarf[n]) THEN Append(f[n - 1], dwarf[n])
                                           ELSE f[n - 1]]
           u == CHOOSE f : Rec(f)
           Add(s, n) == IF IsLocal(dwarf[n]) THEN Append(s, dwarf[n]) ELSE s
           G == [p \in Nat \X S |-> IF p[1] + 1 <= L THEN Add(p[2], p[1] + 1) ELSE p[2]]
<1>1. L \in Nat /\ \A n \in 1 .. L : dwarf[n] \in DwarfEntry
  BY DEF DwarfOK
<1>2. foundLocals = u[L]
  BY Zenon DEF foundLocals
<1>3. \A n \in 1 .. L, s \in S : Add(s, n) \in S
  BY <1>1
<1>4. <<>> \in S
  OBVIOUS
<1> HIDE DEF Add, S
<1>5. G \in [Nat \X S -> S]
  <2>1. ASSUME NEW p \in Nat \X S PROVE (IF p[1] + 1 <= L THEN Add(p[2], p[1] + 1) ELSE p[2]) \in S
    <3>1. p[1] \in Nat /\ p[2] \in S
      OBVIOUS
    <3>2. p[1] + 1 <= L => p[1] + 1 \in 1 .. L
      BY <1>1, <3>1
    <3>3. QED
      BY <1>3, <3>1, <3>2
  <2>2. QED
    BY <2>1
<1>6. \A n \in Nat, s \in S : n + 1 <= L => G[<<n, s>>] = Add(s, n + 1)
  OBVIOUS
<1> HIDE DEF G
<1>7. PICK f : f \in [0 .. L -> S] /\ f = [n \in 0 .. L |-> IF n = 0 THEN <<>> ELSE G[<<n - 1, f[n - 1]>>]]
  <2>1. \E f : RecursiveTo(f, S, <<>>, G, L)
    <3> HIDE DEF L
    <3> QED
      BY <1>1, <1>4, <1>5, RecursionTo
  <2>2. QED
    BY <2>1, Zenon DEF RecursiveTo
<1>8. ASSUME NEW n \in 0 .. L PROVE f[n] = IF n = 0 THEN <<>> ELSE Add(f[n - 1], n)
  <2>1. CASE n = 0
    BY <1>7, <2>1
  <2>2. CASE n # 0
    <3>1. n - 1 \in 0 .. L /\ n - 1 \in Nat /\ (n - 1) + 1 = n /\ (n - 1) + 1 <= L
      BY <1>1, <2>2
    <3>2. f[n] = G[<<n - 1, f[n - 1]>>] /\ f[n - 1] \in S
      BY <1>7, <2>2, <3>1
    <3>3. G[<<n - 1, f[n - 1]>>] = Add(f[n - 1], (n - 1) + 1)
      BY <1>6, <3>1, <3>2
    <3>4. QED
      BY <2>2, <3>1, <3>2, <3>3
  <2>3. QED
    BY <2>1, <2>2
<1>9. f = [n \in 0 .. L |-> IF n = 0 THEN <<>> ELSE Add(f[n - 1], n)]
  BY <1>7, <1>8
<1>10. Rec(f)
  BY <1>9, Zenon DEF Add
<1>11. Rec(u)
  BY <1>10, Zenon
<1>12. u = [n \in 0 .. L |-> IF n = 0 THEN <<>> ELSE Add(u[n - 1], n)]
  <2> HIDE DEF u
  <2> QED
    BY <1>11, Zenon DEF Add
<1> HIDE DEF u
<1> DEFINE T == {n \in Nat : n <= L => u[n] \in Seq(DwarfEntry) /\ Numbered(u[n], n)}
<1>13. 0 \in T
  <2>1. u[0] = <<>>
    BY <1>1, <1>12, 0 \in 0 .. L
  <2>2. LocalsTo(0) = {}
    BY DEF LocalsTo
  <2>3. Cardinality({}) = 0
    BY FS_EmptySet
  <2>4. Numbered(<<>>, 0)
    BY <2>2, <2>3 DEF Numbered
  <2>5. <<>> \in Seq(DwarfEntry)
    OBVIOUS
  <2>6. u[0] \in Seq(DwarfEntry) /\ Numbered(u[0], 0)
    BY <2>1, <2>4, <2>5, Zenon
  <2>7. 0 \in Nat
    OBVIOUS
  <2>8. QED
    BY <2>6, <2>7, Zenon
<1>14. ASSUME NEW n \in Nat, n \in T PROVE n + 1 \in T
  <2> SUFFICES ASSUME n + 1 <= L PROVE u[n + 1] \in Seq(DwarfEntry) /\ Numbered(u[n + 1], n + 1)
    OBVIOUS
  <2>1. n + 1 \in 0 .. L /\ n + 1 # 0 /\ (n + 1) - 1 = n /\ u[n] \in Seq(DwarfEntry) /\ Numbered(u[n], n)
    BY <1>1, <1>14
  <2>2. u[n + 1] = Add(u[n], n + 1)
    BY <1>12, <2>1
  <2>3. QED
    BY <2>1, <2>2, FindStep DEF Add
<1>15. \A n \in Nat : n \in T
  <2> HIDE DEF T
  <2> QED
    BY <1>13, <1>14, SetInduction
<1>16. QED
  BY <1>1, <1>2, <1>15

(* The array handed to setVars, for a tree. *)
LocalsIn(tree, n) == {d \in 1 .. n : IsLocal(tree[d])}
LocalsFor(l, tree) ==
  /\ Len(l) = Cardinality(LocalsIn(tree, Len(tree)))
  /\ \A d \in LocalsIn(tree, Len(tree)) :
       LET k == Cardinality(LocalsIn(tree, d))
       IN  /\ l[k].varNumber = k - 1
           /\ tree[d].location # NoLocation => l[k].vlsOffset = tree[d].location

(* The array getDebugInfoForLocals writes is as it should be. *)
LEMMA LocalsWritten ==
  ASSUME DwarfOK, NEW Offsets \in extractLocalLocations
  PROVE  LocalsFor([k \in 1 .. Len(Offsets) |-> [varNumber |-> k - 1, vlsOffset |-> Offsets[k]]], dwarf)
<1> DEFINE found == foundLocals
           l == [k \in 1 .. Len(Offsets) |-> [varNumber |-> k - 1, vlsOffset |-> Offsets[k]]]
<1>1. found \in Seq(DwarfEntry) /\ Numbered(found, Len(dwarf)) /\ Len(found) \in Nat
  BY LocalsFound
<1>2. /\ \E X : Offsets \in [1 .. Len(found) -> X]
      /\ \A k \in 1 .. Len(found) : found[k].location # NoLocation => Offsets[k] = found[k].location
  BY Zenon DEF extractLocalLocations
<1>3. Len(Offsets) = Len(found)
  <2> HIDE DEF found
  <2> QED
    BY <1>1, <1>2
<1> HIDE DEF found
<1>4. Len(l) = Len(found) /\ \A k \in 1 .. Len(found) : l[k].varNumber = k - 1 /\ l[k].vlsOffset = Offsets[k]
  BY <1>1, <1>3
<1> HIDE DEF l
<1>5. Len(l) = Cardinality(LocalsTo(Len(dwarf)))
  BY <1>1, <1>4, Zenon DEF Numbered
<1>6. ASSUME NEW d \in LocalsTo(Len(dwarf))
      PROVE  LET k == Cardinality(LocalsTo(d))
             IN  /\ l[k].varNumber = k - 1
                 /\ dwarf[d].location # NoLocation => l[k].vlsOffset = dwarf[d].location
  <2>1. Cardinality(LocalsTo(d)) \in 1 .. Len(found) /\ found[Cardinality(LocalsTo(d))] = dwarf[d]
    BY <1>1, Zenon DEF Numbered
  <2>2. QED
    BY <1>2, <1>4, <2>1, Zenon
<1>7. \A n : LocalsTo(n) = LocalsIn(dwarf, n)
  BY Zenon DEF LocalsTo, LocalsIn
<1>8. LocalsFor(l, dwarf)
  BY <1>5, <1>6, <1>7, Zenon DEF LocalsFor
<1>9. QED
  BY <1>8 DEF l

-----------------------------------------------------------------------------
(* What the reports of debug information are at any time. *)
Boundary == [cMap : Nat, pMap : Seq(Mapping)]
LocalsArray == Seq([varNumber : Nat, vlsOffset : Int])

DebugInv ==
  /\ LinesOK /\ DwarfOK
  /\ boundaries \in Seq(Boundary)
  /\ locals \in Seq(LocalsArray)
  /\ \A b \in 1 .. Len(boundaries) : BoundaryFor(boundaries[b], lines)
  /\ \A v \in 1 .. Len(locals) : LocalsFor(locals[v], dwarf)

(* Calling setBoundaries keeps the invariant. *)
LEMMA BoundaryReported ==
  ASSUME LinesOK
  PROVE  LET b == [cMap |-> NumDebugRanges, pMap |-> mappings(resetOffset).OM]
         IN  b \in Boundary /\ BoundaryFor(b, lines)
<1> DEFINE b == [cMap |-> NumDebugRanges, pMap |-> mappings(resetOffset).OM]
<1>1. mappings(NoLine).OM \in Seq(Mapping)
  BY Lookup DEF Scan
<1>2. b = [cMap |-> Len(mappings(NoLine).OM), pMap |-> mappings(NoLine).OM]
  BY Zenon DEF NumDebugRanges, resetOffset
<1>3. Len(mappings(NoLine).OM) \in Nat
  BY <1>1
<1>4. b \in Boundary
  <2> HIDE DEF b
  <2> QED
    BY <1>1, <1>2, <1>3 DEF Boundary
<1>5. BoundaryFor(b, lines)
  BY BoundariesWritten
<1>6. QED
  BY <1>4, <1>5, Zenon

(* Calling setVars keeps the invariant. *)
LEMMA LocalsReported ==
  ASSUME DwarfOK, NEW Offsets \in extractLocalLocations
  PROVE  LET l == [k \in 1 .. Len(Offsets) |-> [varNumber |-> k - 1, vlsOffset |-> Offsets[k]]]
         IN  l \in LocalsArray /\ LocalsFor(l, dwarf)
<1> DEFINE found == foundLocals
           l == [k \in 1 .. Len(Offsets) |-> [varNumber |-> k - 1, vlsOffset |-> Offsets[k]]]
<1>1. found \in Seq(DwarfEntry) /\ Len(found) \in Nat
  BY LocalsFound
<1>2. Offsets \in [1 .. Len(found) -> Garbage \union {found[k].location : k \in 1 .. Len(found)}]
  BY Zenon DEF extractLocalLocations
<1>3. \A e \in DwarfEntry : e.location \in Int
  BY DEF DwarfEntry
<1> HIDE DEF found
<1>4. \A k \in 1 .. Len(found) : found[k].location \in Int
  BY <1>1, <1>3
<1>5. Garbage \union {found[k].location : k \in 1 .. Len(found)} \subseteq Int
  BY <1>4 DEF Garbage
<1>6. Len(Offsets) = Len(found) /\ \A k \in 1 .. Len(found) : Offsets[k] \in Int
  BY <1>1, <1>2, <1>5
<1>7. l \in LocalsArray
  BY <1>1, <1>6 DEF LocalsArray
<1>8. LocalsFor(l, dwarf)
  BY LocalsWritten
<1>9. QED
  BY <1>7, <1>8, Zenon

(* The line table and the tree of an object are as the compiler writes them. *)
LEMMA InitTables == Init => LinesOK /\ DwarfOK
<1> SUFFICES ASSUME Init PROVE LinesOK /\ DwarfOK
  OBVIOUS
<1>1. lines = <<>> \/ lines = OneRow \/ lines \in LineTables
  BY Zenon DEF Init
<1>2. dwarf = <<>> \/ \E n \in 1 .. MaxEntries :
        dwarf \in [1 .. n -> [tag : {"formal_parameter", "variable", "lexical_block"},
                              location : {NoLocation, 8, 16}]]
  BY DEF Init
<1>3. LinesOK
  <2>1. CASE lines = <<>>
    BY <2>1 DEF LinesOK
  <2>2. CASE lines = OneRow
    <3>1. [address |-> 0, Line |-> 0, Column |-> 0] \in Row
      BY DEF Row
    <3>2. lines \in Seq(Row) /\ Len(lines) = 1
      BY <2>2, <3>1 DEF OneRow
    <3>3. QED
      BY <3>2 DEF LinesOK
  <2>3. CASE lines \in LineTables
    <3>1. PICK n \in 1 .. MaxRows : lines \in [1 .. n -> [address : Addresses, Line : ILOffsets, Column : 0 .. 1]]
      BY <2>3 DEF LineTables
    <3>2. n \in Nat
      BY ListenerAssumption
    <3>3. \A k \in 1 .. n : lines[k] \in Row
      BY <3>1, ListenerAssumption DEF Row
    <3>4. lines \in [1 .. n -> Row]
      BY <3>1, <3>3
    <3>5. lines \in Seq(Row)
      BY <3>2, <3>4
    <3>6. \A k \in 1 .. Len(lines) - 1 : lines[k].address <= lines[k + 1].address
      BY <2>3, Zenon DEF LineTables
    <3>7. QED
      BY <3>5, <3>6 DEF LinesOK
  <2>4. QED
    BY <1>1, <2>1, <2>2, <2>3
<1>4. DwarfOK
  <2>1. CASE dwarf = <<>>
    BY <2>1 DEF DwarfOK
  <2>2. CASE \E n \in 1 .. MaxEntries :
               dwarf \in [1 .. n -> [tag : {"formal_parameter", "variable", "lexical_block"},
                                     location : {NoLocation, 8, 16}]]
    <3>1. PICK n \in 1 .. MaxEntries :
             dwarf \in [1 .. n -> [tag : {"formal_parameter", "variable", "lexical_block"},
                                   location : {NoLocation, 8, 16}]]
      BY <2>2
    <3>2. n \in Nat
      BY ListenerAssumption
    <3>3. \A k \in 1 .. n : dwarf[k] \in DwarfEntry
      BY <3>1 DEF DwarfEntry, NoLocation
    <3>4. dwarf \in [1 .. n -> DwarfEntry]
      BY <3>1, <3>3
    <3>5. QED
      BY <3>2, <3>4 DEF DwarfOK
  <2>3. QED
    BY <1>2, <2>1, <2>2
<1>5. QED
  BY <1>3, <1>4

(* getDebugInfoForObject keeps the invariant. *)
LEMMA DebugReported ==
  ASSUME DebugInv, getDebugInfoForObject
  PROVE  DebugInv'
<1>1. lines' = lines /\ dwarf' = dwarf
  BY DEF getDebugInfoForObject, debug
<1>2. LinesOK /\ DwarfOK /\ LinesOK' /\ DwarfOK'
  BY <1>1 DEF DebugInv, LinesOK, DwarfOK
<1>3. CASE UNCHANGED <<boundaries, locals>>
  BY <1>1, <1>2, <1>3 DEF DebugInv
<1>4. CASE ~UNCHANGED <<boundaries, locals>>
  <2> DEFINE b == [cMap |-> NumDebugRanges, pMap |-> mappings(resetOffset).OM]
  <2>1. boundaries' = Append(boundaries, b) /\ getDebugInfoForLocals
    BY <1>4 DEF getDebugInfoForObject
  <2>2. b \in Boundary /\ BoundaryFor(b, lines)
    BY <1>2, BoundaryReported
  <2> HIDE DEF b
  <2>3. boundaries' \in Seq(Boundary) /\ \A i \in 1 .. Len(boundaries') : BoundaryFor(boundaries'[i], lines)
    <3>1. boundaries \in Seq(Boundary) /\ \A i \in 1 .. Len(boundaries) : BoundaryFor(boundaries[i], lines)
      BY DEF DebugInv
    <3>2. QED
      BY <2>1, <2>2, <3>1
  <2>4. PICK Offsets \in extractLocalLocations :
          locals' = IF ~sameAddr \/ Offsets = <<>> THEN locals
                    ELSE Append(locals, [k \in 1 .. Len(Offsets) |-> [varNumber |-> k - 1, vlsOffset |-> Offsets[k]]])
    BY <2>1, Zenon DEF getDebugInfoForLocals
  <2> DEFINE l == [k \in 1 .. Len(Offsets) |-> [varNumber |-> k - 1, vlsOffset |-> Offsets[k]]]
  <2>5. l \in LocalsArray /\ LocalsFor(l, dwarf)
    BY <1>2, LocalsReported
  <2>6. locals' = locals \/ locals' = Append(locals, l)
    BY <2>4, Zenon
  <2> HIDE DEF l
  <2>7. locals' \in Seq(LocalsArray) /\ \A i \in 1 .. Len(locals') : LocalsFor(locals'[i], dwarf)
    <3>1. locals \in Seq(LocalsArray) /\ \A i \in 1 .. Len(locals) : LocalsFor(locals[i], dwarf)
      BY DEF DebugInv
    <3>2. CASE locals' = locals
      BY <3>1, <3>2
    <3>3. CASE locals' = Append(locals, l)
      BY <2>5, <3>1, <3>3
    <3>4. QED
      BY <2>6, <3>2, <3>3
  <2>8. QED
    BY <1>1, <1>2, <2>3, <2>7 DEF DebugInv
<1>5. QED
  BY <1>3, <1>4

(* What the runtime is told about the code, by setBoundaries and setVars in
   getDebugInfoForObject, agrees with the line table and the DWARF tree: the array
   has the length the first loop counted, looking an address up in it gives the IL
   offset of the row, and the k-th local is the k-th entry of a local that
   extractLocalLocations meets, located or not.  For line tables and trees of any
   length, any addresses and any IL offsets. *)
THEOREM DebugInfoAgreesHolds == Spec => []DebugInfoAgrees
<1>1. Init => DebugInv
  <2> SUFFICES ASSUME Init PROVE DebugInv
    OBVIOUS
  <2>1. boundaries = <<>> /\ locals = <<>>
    BY DEF Init
  <2>2. QED
    BY <2>1, InitTables DEF DebugInv
<1>2. DebugInv /\ [Next]_vars => DebugInv'
  <2> SUFFICES ASSUME DebugInv, [Next]_vars PROVE DebugInv'
    OBVIOUS
  <2>1. CASE getDebugInfoForObject
    BY <2>1, DebugReported
  <2>2. CASE ~getDebugInfoForObject
    <3>1. UNCHANGED <<lines, dwarf, boundaries, locals>>
      BY <2>2, Zenon DEF Next, vars, debug, reports, recordRelocations
    <3>2. QED
      BY <3>1 DEF DebugInv, LinesOK, DwarfOK
  <2>3. QED
    BY <2>1, <2>2
<1>3. DebugInv => DebugInfoAgrees
  <2> SUFFICES ASSUME DebugInv PROVE DebugInfoAgrees
    OBVIOUS
  <2>1. \A n : LocalsTo(n) = LocalsIn(dwarf, n)
    BY Zenon DEF LocalsTo, LocalsIn
  <2>2. /\ \A b \in 1 .. Len(boundaries) : BoundaryFor(boundaries[b], lines)
        /\ \A v \in 1 .. Len(locals) : LocalsFor(locals[v], dwarf)
    BY Zenon DEF DebugInv
  <2>3. QED
    BY <2>1, <2>2, Zenon DEF DebugInfoAgrees, BoundaryFor, LocalsFor
<1>4. QED
  BY <1>1, <1>2, <1>3, PTL DEF Spec
=============================================================================
