-------------------------- MODULE FirstPassProofs ---------------------------
(***************************************************************************)
(* Proofs about the first pass of the reader: the tree of exception        *)
(* regions and the walk through it (RegionTree), for any number of clauses *)
(* and code of any length; and the blocks that are made on the way         *)
(* (FlowGraph), for any program.                                           *)
(***************************************************************************)
EXTENDS FlowGraph, NatLemmas, SequenceTheorems, TLAPS

-----------------------------------------------------------------------------
(* The clauses. *)

\* Clause k lies in a range of clause l.
ClauseIn(k, l) ==
  /\ Try(EIT[k]) # Try(EIT[l])
  /\ \E y \in Ranges(EIT[l]) : Inside(Try(EIT[k]), y)

NumClauses == Len(EIT)

ClausesOK ==
  /\ EIT \in Seq(Clauses) /\ Len(EIT) > 0
  /\ \A k, l \in 1 .. NumClauses : k < l => Nest(EIT[l], EIT[k]) /\ ~InFilterOf(EIT[l], EIT[k])

\* The part of the list before J is sorted: inner clauses first, clauses of one try as
\* the runtime gives them.
Sorted ==
  /\ ClauseList \in [1 .. NumClauses -> 1 .. NumClauses]
  /\ J \in 2 .. NumClauses + 1
  /\ \A a, b \in 1 .. NumClauses : ClauseList[a] = ClauseList[b] => a = b
  /\ \A a \in 1 .. NumClauses : (a < J => ClauseList[a] < J) /\ (a >= J => ClauseList[a] = a)
  /\ \A a, b \in 1 .. J - 1 : ClauseIn(ClauseList[a], ClauseList[b]) => a < b
  /\ \A a, b \in 1 .. J - 1 :
       Try(EIT[ClauseList[a]]) = Try(EIT[ClauseList[b]]) /\ ClauseList[a] < ClauseList[b] => a < b

-----------------------------------------------------------------------------
(* The tree.  rs is a value of regions. *)

HandlerKinds == {"MCatch", "MExcept", "Finally", "Fault", "Filter"}
RegionRecords ==
  [Kind : {"Root", "Try"} \cup HandlerKinds, Parent : Nat, Start : Nat, End : Nat,
   Children : Seq(Nat), EntryRegion : Nat, HandlerRegion : Nat, HandlerEHPad : Nat,
   Pad : Nat, ParentPad : Nat]

Ids(rs) == 1 .. Len(rs)
In2(rs, r, s) == rs[s].Start <= rs[r].Start /\ rs[r].End <= rs[s].End
Apart(rs, r, s) == rs[r].End <= rs[s].Start \/ rs[s].End <= rs[r].Start
Beside(rs, h) == rs[h].Kind \in HandlerKinds

\* Region 1 is the root, and parents come first.
Rooted(rs) ==
  /\ rs \in Seq(RegionRecords) /\ Len(rs) >= 1
  /\ rs[1].Kind = "Root" /\ rs[1].Parent = 0 /\ rs[1].Start = 0 /\ rs[1].End = CodeSize
  /\ rs[1].HandlerEHPad = 0 /\ rs[1].Pad = 0
  /\ \A r \in 2 .. Len(rs) : rs[r].Kind # "Root" /\ rs[r].Parent \in 1 .. r - 1
  /\ \A r \in Ids(rs) : rs[r].Start < rs[r].End /\ rs[r].End <= CodeSize

\* Ranges are nested or apart, and all different.
Laminar(rs) ==
  /\ \A r, s \in Ids(rs) : In2(rs, r, s) \/ In2(rs, s, r) \/ Apart(rs, r, s)
  /\ \A r, s \in Ids(rs) : In2(rs, r, s) /\ In2(rs, s, r) => r = s

\* The parent of a try is the innermost region around it.
TriesUnder(rs) ==
  \A t \in Ids(rs) : rs[t].Kind = "Try" =>
    /\ In2(rs, t, rs[t].Parent)
    /\ \A s \in Ids(rs) : In2(rs, t, s) /\ s # t => In2(rs, rs[t].Parent, s)

\* A handler is beside its try, in the same regions.
HandlersBeside(rs) ==
  \A h \in Ids(rs) : Beside(rs, h) =>
    /\ rs[rs[h].Parent].Kind = "Try"
    /\ \A s \in Ids(rs) : s # h => (In2(rs, h, s) <=> s # rs[h].Parent /\ In2(rs, rs[h].Parent, s))

Linked(rs) ==
  \A r \in Ids(rs) :
    /\ \A k \in 1 .. Len(rs[r].Children) :
         rs[r].Children[k] \in Ids(rs) /\ rs[rs[r].Children[k]].Parent = r
    /\ \A s \in Ids(rs) : rs[s].Parent = r => \E k \in 1 .. Len(rs[r].Children) : rs[r].Children[k] = s

TreeOK(rs) == Rooted(rs) /\ Laminar(rs) /\ TriesUnder(rs) /\ HandlersBeside(rs) /\ Linked(rs)

\* A try is entered with the first of its own range and those of its handlers.
Family(rs, t, x) == x = t \/ (rs[x].Parent = t /\ Beside(rs, x))
Entries(rs) ==
  \A t \in Ids(rs) : rs[t].Kind = "Try" =>
    /\ rs[t].EntryRegion \in Ids(rs) /\ Family(rs, t, rs[t].EntryRegion)
    /\ \A x \in Ids(rs) : Family(rs, t, x) => rs[rs[t].EntryRegion].Start <= rs[x].Start

\* Filters and their handlers belong to each other.
Filters(rs) ==
  /\ \A f \in Ids(rs) :
       IF rs[f].Kind = "Filter"
       THEN /\ rs[f].HandlerRegion \in Ids(rs)
            /\ rs[rs[f].HandlerRegion].Kind = "MExcept" /\ rs[rs[f].HandlerRegion].Parent = rs[f].Parent
       ELSE rs[f].HandlerRegion = 0
  /\ \A h \in Ids(rs) : rs[h].Kind = "MExcept" => \E f \in Ids(rs) : rs[f].HandlerRegion = h
  /\ \A f, g \in Ids(rs) : rs[f].HandlerRegion = rs[g].HandlerRegion /\ rs[f].HandlerRegion # 0 => f = g

-----------------------------------------------------------------------------
(* The tree and the clauses. *)

KindFor(c) == IF c.Kind = "Filter" THEN "MExcept" ELSE IF c.Kind = "Catch" THEN "MCatch" ELSE c.Kind
HasRange(rs, r, x) == rs[r].Start = x[1] /\ rs[r].End = x[2]

\* r is the region of the handler or of the filter of clause c.
HandlerOf(rs, r, c) ==
  /\ \/ rs[r].Kind = KindFor(c) /\ HasRange(rs, r, Handler(c))
     \/ rs[r].Kind = "Filter" /\ c.Kind = "Filter" /\ HasRange(rs, r, Filter(c))
  /\ rs[rs[r].Parent].Kind = "Try" /\ HasRange(rs, rs[r].Parent, Try(c))
RegionOf(rs, r, c) == (rs[r].Kind = "Try" /\ HasRange(rs, r, Try(c))) \/ HandlerOf(rs, r, c)

\* The regions are those of the clauses behind position n of the list.
Made(rs, n) ==
  \A r \in 2 .. Len(rs) : \E a \in n + 1 .. NumClauses : RegionOf(rs, r, EIT[ClauseList[a]])

\* The handlers of a try are in the order of the list.
Ordered(rs, n) ==
  \A t \in Ids(rs) : \A k, l \in 1 .. Len(rs[t].Children) : \A a, b \in n + 1 .. NumClauses :
    /\ k < l
    /\ HandlerOf(rs, rs[t].Children[k], EIT[ClauseList[a]])
    /\ HandlerOf(rs, rs[t].Children[l], EIT[ClauseList[b]])
    => a <= b

Encloses(rs, r, x) == rs[r].Start <= x[1] /\ x[2] <= rs[r].End

Building == {"sort", "find", "insert"}
BuildOK ==
  /\ I \in 0 .. NumClauses
  /\ phase = "sort" => I = NumClauses
  /\ phase # "sort" => J = NumClauses + 1
  /\ phase \in {"find", "insert"} => I >= 1
  /\ search \in Ids(regions)
  /\ phase = "sort" => Len(regions) = 1 /\ search = 1
  /\ phase \in {"find", "insert"} => Encloses(regions, search, Try(Clause))
  /\ phase = "insert" =>
       \A s \in Ids(regions) : Encloses(regions, s, Try(Clause)) => In2(regions, search, s)
  /\ phase \in Building => CurrentOffset = 0 /\ CurrentRegion = 1 /\ entered = <<>>

TreeInv ==
  /\ ClausesOK /\ Sorted /\ BuildOK
  /\ TreeOK(regions) /\ Entries(regions) /\ Filters(regions)
  /\ Made(regions, I) /\ Ordered(regions, I)

-----------------------------------------------------------------------------
(* The walk. *)

Entered == {entered[k] : k \in 1 .. Len(entered)}
\* E are the tries entered so far: the pads of r are made.
ReadyIn(rs, E, r) ==
  \/ rs[r].Kind = "Root"
  \/ rs[r].Kind = "Try" /\ r \in E
  \/ Beside(rs, r) /\ rs[r].Parent \in E
Ready(r) == ReadyIn(regions, Entered, r)

\* The handlers of a try, and the tries among the children of r with their handlers.
Near(rs, r, x) == rs[x].Parent = r \/ (rs[rs[x].Parent].Parent = r /\ rs[rs[x].Parent].Kind = "Try")

Around2(rs, r, o) == rs[r].Start <= o /\ o < rs[r].End

WalkOK ==
  /\ CurrentOffset \in Nat /\ CurrentRegion \in Ids(regions)
  /\ entered \in Seq(Ids(regions))
  /\ \A k \in 1 .. Len(entered) : regions[entered[k]].Kind = "Try"
  /\ \A k, l \in 1 .. Len(entered) : entered[k] = entered[l] => k = l
  /\ phase \in {"switch", "instruction"} =>
       /\ CurrentOffset < CodeSize
       /\ regions[CurrentRegion].Start <= CurrentOffset
       /\ \A s \in Ids(regions) : In2(regions, CurrentRegion, s) => Ready(s)
       /\ \A s \in Ids(regions) :
            regions[s].Start < CurrentOffset /\ CurrentOffset < regions[s].End => In2(regions, CurrentRegion, s)
       /\ \A t \in Ids(regions) : regions[t].Kind = "Try" =>
            /\ regions[regions[t].EntryRegion].Start < CurrentOffset => t \in Entered
            /\ t \in Entered => \/ regions[regions[t].EntryRegion].Start < CurrentOffset
                                \/ In2(regions, CurrentRegion, regions[t].EntryRegion)
  /\ phase = "instruction" =>
       /\ NextRegionTransitionOffset \in Nat
       /\ CurrentOffset < NextRegionTransitionOffset
       /\ NextRegionTransitionOffset <= regions[CurrentRegion].End
       /\ \A x \in 2 .. Len(regions) : Near(regions, CurrentRegion, x) =>
            \/ regions[x].End <= CurrentOffset
            \/ NextRegionTransitionOffset <= regions[x].Start

\* u is the innermost try around r, or 0.
InnermostTry(rs, r, u) ==
  IF u = 0 THEN \A s \in Ids(rs) : rs[s].Kind = "Try" => ~In2(rs, r, s)
  ELSE /\ u \in Ids(rs) /\ rs[u].Kind = "Try" /\ In2(rs, r, u)
       /\ \A s \in Ids(rs) : rs[s].Kind = "Try" /\ In2(rs, r, s) => In2(rs, u, s)
InnermostHandler(rs, r, u) ==
  IF u = 1 THEN \A s \in Ids(rs) : Beside(rs, s) => ~In2(rs, r, s)
  ELSE /\ u \in Ids(rs) /\ Beside(rs, u) /\ In2(rs, r, u)
       /\ \A s \in Ids(rs) : Beside(rs, s) /\ In2(rs, r, s) => In2(rs, u, s)
\* p is the pad of handler h.
IsPad(rs, h, p) == IF rs[h].Kind = "MExcept" THEN p \in Ids(rs) /\ rs[p].HandlerRegion = h ELSE p = h

PadsIn(rs, E) ==
  /\ \A r \in Ids(rs) : ReadyIn(rs, E, r) => InnermostTry(rs, r, rs[r].HandlerEHPad)
  /\ \A h \in Ids(rs) : Beside(rs, h) /\ ReadyIn(rs, E, h) =>
       /\ IsPad(rs, h, rs[h].Pad)
       /\ \E u \in Ids(rs) :
            /\ InnermostHandler(rs, rs[h].Parent, u)
            /\ IF u = 1 THEN rs[h].ParentPad = 0 ELSE IsPad(rs, u, rs[h].ParentPad)
PadsOK == PadsIn(regions, Entered)

IInv == TreeInv /\ WalkOK /\ PadsOK

-----------------------------------------------------------------------------
(* Facts about ranges and clauses. *)

RangeSet == {x \in Nat \X Nat : x[1] < x[2] /\ x[2] <= CodeSize}

(* Nested and disjoint ranges. *)
LEMMA RangeFacts ==
  ASSUME NEW x \in RangeSet, NEW y \in RangeSet
  PROVE  /\ x[1] \in Nat /\ x[2] \in Nat /\ x[1] < x[2] /\ x[2] <= CodeSize
         /\ x[1] = y[1] /\ x[2] = y[2] => x = y
         /\ Inside(x, y) /\ Inside(y, x) => x = y
         /\ ~(Inside(x, y) /\ Disjoint(x, y))
         /\ ~Disjoint(x, x)
         /\ Disjoint(x, y) => Disjoint(y, x)
<1>1. /\ x[1] \in Nat /\ x[2] \in Nat /\ x[1] < x[2] /\ x[2] <= CodeSize
      /\ y[1] \in Nat /\ y[2] \in Nat /\ y[1] < y[2]
  BY DEF RangeSet
<1>2. x[1] = y[1] /\ x[2] = y[2] => x = y
  BY DEF RangeSet
<1>3. QED
  BY <1>1, <1>2, SizeAssumption DEF Inside, Disjoint

(* The ranges of a clause: the try, and apart from it the handler and the filter. *)
LEMMA ClauseRanges ==
  ASSUME NEW c \in Clauses
  PROVE  /\ Ranges(c) \subseteq RangeSet
         /\ Try(c) \in Ranges(c) /\ Handler(c) \in Handlers(c) /\ Handlers(c) \subseteq Ranges(c)
         /\ c.Kind = "Filter" => Filter(c) \in Handlers(c)
         /\ \A x \in Handlers(c) : x = Handler(c) \/ (c.Kind = "Filter" /\ x = Filter(c))
         /\ \A x \in Ranges(c) : x = Try(c) \/ x \in Handlers(c)
         /\ \A x \in Handlers(c) : Disjoint(x, Try(c))
         /\ c.Kind = "Filter" => Disjoint(Filter(c), Handler(c))
         /\ c.Kind = "Filter" => Filter(c)[1] < Handler(c)[1]
         /\ c.Kind \in {"Catch", "Filter", "Finally", "Fault"}
<1>1. /\ c.Kind \in ClauseKinds /\ c.TryOffset \in Nat /\ c.TryLength \in Nat
      /\ c.HandlerOffset \in Nat /\ c.HandlerLength \in Nat /\ c.FilterOffset \in Nat
  BY SizeAssumption DEF Clauses
<1>2. /\ \A x \in Ranges(c) : x[1] < x[2] /\ x[2] <= CodeSize
      /\ \A x \in Handlers(c) : Disjoint(x, Try(c))
  BY DEF Clauses
<1>3. /\ Try(c) \in Ranges(c) /\ Handler(c) \in Handlers(c) /\ Handlers(c) \subseteq Ranges(c)
      /\ c.Kind = "Filter" => Filter(c) \in Handlers(c)
      /\ \A x \in Handlers(c) : x = Handler(c) \/ (c.Kind = "Filter" /\ x = Filter(c))
      /\ \A x \in Ranges(c) : x = Try(c) \/ x \in Handlers(c)
  BY DEF Ranges, Handlers
<1>4. /\ Try(c) \in Nat \X Nat /\ Handler(c) \in Nat \X Nat
      /\ Filter(c) \in Nat \X Nat
  BY <1>1 DEF Try, Handler, Filter
<1>5. Ranges(c) \subseteq RangeSet
  BY <1>2, <1>3, <1>4 DEF RangeSet
<1>6. c.Kind = "Filter" => Disjoint(Filter(c), Handler(c))
  BY <1>1 DEF Disjoint, Filter, Handler
<1>7. c.Kind = "Filter" => Filter(c)[1] < Handler(c)[1]
  <2>1. c.Kind = "Filter" => Filter(c)[1] < Filter(c)[2]
    BY <1>2, <1>3
  <2>2. QED
    BY <2>1, <1>1 DEF Filter, Handler
<1>8. c.Kind \in {"Catch", "Filter", "Finally", "Fault"}
  BY <1>1, KindsAssumption
<1>9. QED
  BY <1>2, <1>3, <1>5, <1>6, <1>7, <1>8

(* The ranges of clauses of different tries: different, and apart or nested; what encloses *)
(* one range of a clause encloses all of it. *)
LEMMA NestDifferent ==
  ASSUME NEW c \in Clauses, NEW d \in Clauses, Nest(c, d) \/ Nest(d, c), Try(c) # Try(d),
         NEW x \in Ranges(c), NEW y \in Ranges(d)
  PROVE  /\ x # y
         /\ Disjoint(x, y) \/ Inside(x, y) \/ Inside(y, x)
         /\ Inside(x, y) => \A z \in Ranges(c) : Inside(z, y)
         /\ Inside(y, x) => \A z \in Ranges(d) : Inside(z, x)
<1>1. x \in RangeSet /\ y \in RangeSet
  BY ClauseRanges
<1>2. \/ Disjoint(x, y)
      \/ x # y /\ \A z \in Ranges(c) : Inside(z, y)
      \/ x # y /\ \A z \in Ranges(d) : Inside(z, x)
  <2>1. CASE Nest(c, d)
    BY <2>1, Zenon DEF Nest
  <2>2. CASE Nest(d, c)
    <3>1. \/ Disjoint(y, x)
          \/ y # x /\ \A z \in Ranges(d) : Inside(z, x)
          \/ y # x /\ \A z \in Ranges(c) : Inside(z, y)
      BY <2>2, Zenon DEF Nest
    <3>2. QED
      BY <1>1, <3>1, RangeFacts
  <2>3. QED
    BY <2>1, <2>2
<1>3. ~Disjoint(x, x)
  BY <1>1, RangeFacts
<1>4. x # y
  BY <1>2, <1>3
<1>5. Disjoint(x, y) => ~Inside(x, y) /\ ~Inside(y, x)
  BY <1>1, RangeFacts
<1>6. Inside(x, y) /\ Inside(y, x) => x = y
  BY <1>1, RangeFacts
<1>7. QED
  BY <1>2, <1>4, <1>5, <1>6

(* Clauses of one try have handlers that are apart. *)
LEMMA NestSame ==
  ASSUME NEW c \in Clauses, NEW d \in Clauses, Nest(c, d) \/ Nest(d, c), Try(c) = Try(d),
         NEW x \in Handlers(c), NEW y \in Handlers(d)
  PROVE  Disjoint(x, y)
<1>1. x \in RangeSet /\ y \in RangeSet
  BY ClauseRanges
<1>2. Disjoint(x, y) \/ Disjoint(y, x)
  BY Zenon DEF Nest
<1>3. QED
  BY <1>1, <1>2, RangeFacts

(* Two clauses of the table. *)
LEMMA ClausePairs ==
  ASSUME ClausesOK, NEW k \in 1 .. NumClauses, NEW l \in 1 .. NumClauses
  PROVE  /\ EIT[k] \in Clauses /\ EIT[l] \in Clauses
         /\ k # l => Nest(EIT[k], EIT[l]) \/ Nest(EIT[l], EIT[k])
<1>1. EIT[k] \in Clauses /\ EIT[l] \in Clauses
  BY DEF ClausesOK, NumClauses
<1>2. k # l => k < l \/ l < k
  BY DEF ClausesOK, NumClauses
<1>3. QED
  BY <1>1, <1>2 DEF ClausesOK

(* Two ranges of the table. *)
LEMMA RangePairs ==
  ASSUME ClausesOK, NEW k \in 1 .. NumClauses, NEW l \in 1 .. NumClauses,
         NEW x \in Ranges(EIT[k]), NEW y \in Ranges(EIT[l])
  PROVE  /\ x \in RangeSet /\ y \in RangeSet
         /\ Disjoint(x, y) \/ Inside(x, y) \/ Inside(y, x)
         /\ x = y => Try(EIT[k]) = Try(EIT[l]) /\ (x = Try(EIT[k]) \/ k = l)
         /\ x # y /\ Try(EIT[k]) = Try(EIT[l]) => Disjoint(x, y)
         /\ Inside(x, y) /\ x # y => ClauseIn(k, l) /\ \A z \in Ranges(EIT[k]) : Inside(z, y)
<1> DEFINE c == EIT[k]
           d == EIT[l]
<1>1. c \in Clauses /\ d \in Clauses /\ (k # l => Nest(c, d) \/ Nest(d, c))
  BY ClausePairs
<1>2. x \in Ranges(c) /\ y \in Ranges(d)
  OBVIOUS
<1> HIDE DEF c, d
<1>3. x \in RangeSet /\ y \in RangeSet
  BY <1>1, <1>2, ClauseRanges
<1>4. x # y /\ Try(c) = Try(d) => Disjoint(x, y)
  <2> SUFFICES ASSUME x # y, Try(c) = Try(d) PROVE Disjoint(x, y)
    OBVIOUS
  <2>1. (x = Try(c) \/ x \in Handlers(c)) /\ (y = Try(d) \/ y \in Handlers(d))
    BY <1>1, <1>2, ClauseRanges
  <2>2. CASE x \in Handlers(c) /\ y \in Handlers(d)
    <3>1. CASE k = l
      <4>1. c = d
        BY <3>1 DEF c, d
      <4>2. /\ x = Handler(c) \/ (c.Kind = "Filter" /\ x = Filter(c))
            /\ y = Handler(c) \/ (c.Kind = "Filter" /\ y = Filter(c))
            /\ c.Kind = "Filter" => Disjoint(Filter(c), Handler(c))
        BY <1>1, <2>2, <4>1, ClauseRanges
      <4>3. Disjoint(x, y) \/ Disjoint(y, x)
        BY <4>2
      <4>4. QED
        BY <1>3, <4>3, RangeFacts
    <3>2. CASE k # l
      BY <1>1, <2>2, <3>2, NestSame
    <3>3. QED
      BY <3>1, <3>2
  <2>3. CASE x = Try(c) /\ y \in Handlers(d)
    <3>1. Disjoint(y, Try(d))
      BY <1>1, <2>3, ClauseRanges
    <3>2. QED
      BY <1>3, <2>3, <3>1, RangeFacts
  <2>4. CASE x \in Handlers(c) /\ y = Try(d)
    BY <1>1, <2>4, ClauseRanges
  <2>5. QED
    BY <2>1, <2>2, <2>3, <2>4
<1>5. ASSUME Try(c) # Try(d)
      PROVE  /\ x # y
             /\ Disjoint(x, y) \/ Inside(x, y) \/ Inside(y, x)
             /\ Inside(x, y) => \A z \in Ranges(c) : Inside(z, y)
  <2>1. k # l
    BY <1>5 DEF c, d
  <2>2. QED
    BY <1>1, <1>2, <1>5, <2>1, NestDifferent
<1>6. ~(Inside(x, y) /\ Disjoint(x, y)) /\ Inside(x, x)
  BY <1>3, RangeFacts DEF Inside
<1>7. x = y => Try(c) = Try(d) /\ (x = Try(c) \/ k = l)
  <2> SUFFICES ASSUME x = y PROVE Try(c) = Try(d) /\ (x = Try(c) \/ k = l)
    OBVIOUS
  <2>1. Try(c) = Try(d)
    BY <1>5
  <2>2. ASSUME x # Try(c), k # l PROVE FALSE
    <3>1. x \in Handlers(c) /\ y \in Handlers(d)
      BY <1>1, <1>2, <2>1, <2>2, ClauseRanges
    <3>2. Disjoint(x, y)
      BY <1>1, <2>1, <2>2, <3>1, NestSame
    <3>3. QED
      BY <1>6, <3>2
  <2>3. QED
    BY <2>1, <2>2
<1>8. ASSUME Inside(x, y), x # y PROVE ClauseIn(k, l) /\ \A z \in Ranges(c) : Inside(z, y)
  <2>1. Try(c) # Try(d)
    BY <1>4, <1>6, <1>8
  <2>2. \A z \in Ranges(c) : Inside(z, y)
    BY <1>5, <1>8, <2>1
  <2>3. Try(c) \in Ranges(c)
    BY <1>1, ClauseRanges
  <2>4. ClauseIn(k, l)
    BY <1>2, <2>1, <2>2, <2>3 DEF ClauseIn, c, d
  <2>5. QED
    BY <2>2, <2>4
<1>9. Disjoint(x, y) \/ Inside(x, y) \/ Inside(y, x)
  BY <1>4, <1>5, <1>6
<1>10. QED
  BY <1>3, <1>4, <1>7, <1>8, <1>9 DEF c, d

(* Being in a clause is a strict order. *)
LEMMA InTransitive ==
  ASSUME ClausesOK, NEW k \in 1 .. NumClauses, NEW l \in 1 .. NumClauses, NEW m \in 1 .. NumClauses,
         ClauseIn(k, l), ClauseIn(l, m)
  PROVE  ClauseIn(k, m)
<1>1. PICK y \in Ranges(EIT[l]) : Inside(Try(EIT[k]), y)
  BY DEF ClauseIn
<1>2. PICK z \in Ranges(EIT[m]) : Inside(Try(EIT[l]), z)
  BY DEF ClauseIn
<1>3. EIT[k] \in Clauses /\ EIT[l] \in Clauses /\ EIT[m] \in Clauses
  BY ClausePairs
<1>4. Try(EIT[k]) \in Ranges(EIT[k]) /\ Try(EIT[l]) \in Ranges(EIT[l]) /\ Try(EIT[m]) \in Ranges(EIT[m])
  BY <1>3, ClauseRanges
<1>5. Try(EIT[k]) # Try(EIT[l]) /\ Try(EIT[l]) # Try(EIT[m])
  BY DEF ClauseIn
<1>6. Try(EIT[l]) # z
  BY <1>4, <1>5, RangePairs
<1>7. Inside(y, z)
  BY <1>2, <1>4, <1>6, RangePairs
<1>8. Try(EIT[k]) \in RangeSet /\ y \in RangeSet /\ z \in RangeSet
  BY <1>3, <1>4, ClauseRanges
<1>9. Inside(Try(EIT[k]), z)
  BY <1>1, <1>7, <1>8, RangeFacts DEF Inside
<1>10. Try(EIT[k]) # Try(EIT[m])
  <2> SUFFICES ASSUME Try(EIT[k]) = Try(EIT[m]) PROVE FALSE
    OBVIOUS
  <2>1. z = Try(EIT[m])
    <3>1. CASE z # Try(EIT[m])
      <4>1. Disjoint(Try(EIT[m]), z)
        BY <1>4, <3>1, RangePairs
      <4>2. QED
        BY <1>8, <1>9, <4>1, RangeFacts
    <3>2. QED
      BY <3>1
  <2>2. y = z
    BY <1>1, <1>7, <1>8, <2>1, RangeFacts
  <2>3. QED
    BY <1>5, <2>2, RangePairs
<1>11. QED
  BY <1>9, <1>10 DEF ClauseIn

(* What the sort compares. *)
LEMMA InsideIs ==
  ASSUME ClausesOK, NEW k \in 1 .. NumClauses, NEW l \in 1 .. NumClauses
  PROVE  /\ clauseXInsideY(EIT[k], EIT[l]) => ClauseIn(k, l)
         /\ ClauseIn(k, l) => clauseXInsideY(EIT[k], EIT[l]) \/ InFilterOf(EIT[k], EIT[l])
<1> DEFINE c == EIT[k]
           d == EIT[l]
<1>1. c \in Clauses /\ d \in Clauses
  BY ClausePairs
<1>2. Try(c) \in Ranges(c) /\ Try(d) \in Ranges(d) /\ Handler(d) \in Handlers(d) /\ Handlers(d) \subseteq Ranges(d)
  BY <1>1, ClauseRanges
<1>3. /\ Try(c)[2] = Try(c)[1] + c.TryLength /\ Try(d)[2] = Try(d)[1] + d.TryLength
      /\ Handler(d)[2] = Handler(d)[1] + d.HandlerLength
      /\ {c.TryLength, d.TryLength, d.HandlerLength} \subseteq Nat
  BY <1>1, SizeAssumption DEF Clauses, Try, Handler
<1>4. Try(c) \in RangeSet /\ Try(d) \in RangeSet /\ Handler(d) \in RangeSet
  BY <1>1, ClauseRanges
<1>5. ASSUME clauseXInsideY(c, d) PROVE ClauseIn(k, l)
  <2>1. CASE Inside(Try(c), Try(d)) /\ c.TryLength # d.TryLength
    <3>1. Try(c) # Try(d)
      BY <2>1, <1>3, <1>4, RangeFacts
    <3>2. QED
      BY <1>2, <2>1, <3>1 DEF ClauseIn
  <2>2. CASE Inside(Try(c), Handler(d)) /\ c.TryLength # d.HandlerLength
    <3>1. Try(c) # Handler(d)
      BY <2>2, <1>3, <1>4, RangeFacts
    <3>2. QED
      BY <1>2, <2>2, <3>1, RangePairs
  <2>3. QED
    BY <1>5, <2>1, <2>2 DEF clauseXInsideY
<1>6. ASSUME ClauseIn(k, l) PROVE clauseXInsideY(c, d) \/ InFilterOf(c, d)
  <2>1. PICK y \in Ranges(d) : Inside(Try(c), y)
    BY <1>6 DEF ClauseIn
  <2>2. Try(c) # Try(d)
    BY <1>6 DEF ClauseIn
  <2>3. Try(c) # y
    BY <1>2, <2>2, RangePairs
  <2>4. y = Try(d) \/ y = Handler(d) \/ (d.Kind = "Filter" /\ y = Filter(d))
    BY <1>1, ClauseRanges
  <2>5. CASE y = Try(d)
    <3>1. c.TryLength # d.TryLength
      BY <2>1, <2>2, <2>5, <1>3, <1>4, RangeFacts DEF Inside
    <3>2. QED
      BY <2>1, <2>5, <3>1 DEF clauseXInsideY
  <2>6. CASE y = Handler(d)
    <3>1. c.TryLength # d.HandlerLength
      BY <2>1, <2>3, <2>6, <1>3, <1>4, RangeFacts DEF Inside
    <3>2. QED
      BY <2>1, <2>6, <3>1 DEF clauseXInsideY
  <2>7. CASE d.Kind = "Filter" /\ y = Filter(d)
    BY <2>1, <2>7 DEF InFilterOf
  <2>8. QED
    BY <2>4, <2>5, <2>6, <2>7
<1>7. QED
  BY <1>5, <1>6

-----------------------------------------------------------------------------
(* The sort. *)

(* The elements of a concatenation. *)
LEMMA ConcatAt ==
  ASSUME NEW S, NEW s \in Seq(S), NEW t \in Seq(S), NEW u, u = s \o t
  PROVE  /\ u \in Seq(S) /\ Len(u) = Len(s) + Len(t)
         /\ \A a \in 1 .. Len(s) : u[a] = s[a]
         /\ \A a \in 1 .. Len(t) : u[Len(s) + a] = t[a]
  BY ConcatProperties

(* The elements of a list with one more in front. *)
LEMMA PutFirst ==
  ASSUME NEW n \in Nat, NEW s \in Seq(Nat), NEW u, u = <<n>> \o s
  PROVE  /\ u \in Seq(Nat) /\ Len(u) = Len(s) + 1 /\ Len(s) \in Nat
         /\ u[1] = n /\ \A k \in 1 .. Len(s) : u[1 + k] = s[k]
<1>1. PICK one : one = <<n>>
  OBVIOUS
<1>2. one \in Seq(Nat) /\ Len(one) = 1 /\ one[1] = n
  BY <1>1
<1>3. u = one \o s
  BY <1>1
<1>4. /\ u \in Seq(Nat) /\ Len(u) = Len(one) + Len(s)
      /\ \A a \in 1 .. Len(one) : u[a] = one[a]
      /\ \A a \in 1 .. Len(s) : u[Len(one) + a] = s[a]
  BY <1>2, <1>3, ConcatAt
<1>5. u[1] = n
  BY <1>2, <1>4, 1 \in 1 .. 1
<1>6. QED
  BY <1>2, <1>4, <1>5

\* t is s with the j-th element moved to an earlier position p.
IsMoved(s, j, p, n, t) ==
  t = SubSeq(s, 1, p - 1) \o <<s[j]>> \o SubSeq(s, p, j - 1) \o SubSeq(s, j + 1, n)
MovedAs(s, j, p, n, t) ==
  \A a \in 1 .. n :
    t[a] = IF a < p THEN s[a] ELSE IF a = p THEN s[j] ELSE IF a <= j THEN s[a - 1] ELSE s[a]

(* The elements of a list with one of them moved. *)
LEMMA MovedTo ==
  ASSUME NEW S, NEW n \in Nat, NEW s \in [1 .. n -> S], NEW j \in 2 .. n, NEW p \in 1 .. j, NEW u,
         IsMoved(s, j, p, n, u)
  PROVE  u \in [1 .. n -> S] /\ MovedAs(s, j, p, n, u)
<1> DEFINE A == SubSeq(s, 1, p - 1)
           B == SubSeq(s, p, j - 1)
           C == SubSeq(s, j + 1, n)
           D == <<s[j]>>
           AD == A \o D
           ADB == AD \o B
           t == ADB \o C
<1>1. s \in Seq(S) /\ Len(s) = n
  OBVIOUS
<1>2. A \in Seq(S) /\ Len(A) = p - 1 /\ \A a \in 1 .. p - 1 : A[a] = s[a]
  BY <1>1
<1>3. B \in Seq(S) /\ Len(B) = j - p /\ \A a \in 1 .. j - p : B[a] = s[a + p - 1]
  BY <1>1
<1>4. C \in Seq(S) /\ Len(C) = n - j /\ \A a \in 1 .. n - j : C[a] = s[a + j]
  BY <1>1
<1>5. D \in Seq(S) /\ Len(D) = 1 /\ D[1] = s[j]
  OBVIOUS
<1>6. AD = A \o D /\ ADB = AD \o B /\ t = ADB \o C
  OBVIOUS
<1> HIDE DEF A, B, C, D, AD, ADB, t
<1>7. /\ AD \in Seq(S) /\ Len(AD) = p /\ AD[p] = D[1]
      /\ \A a \in 1 .. p - 1 : AD[a] = A[a]
  <2>1. /\ AD \in Seq(S) /\ Len(AD) = Len(A) + Len(D)
        /\ \A a \in 1 .. Len(A) : AD[a] = A[a]
        /\ \A a \in 1 .. Len(D) : AD[Len(A) + a] = D[a]
    <3>1. A \in Seq(S) /\ D \in Seq(S) /\ AD = A \o D
      BY <1>2, <1>5, <1>6
    <3>2. QED
      BY <3>1, ConcatAt
  <2>2. QED
    BY <1>2, <1>5, <2>1
<1>8. /\ ADB \in Seq(S) /\ Len(ADB) = j
      /\ \A a \in 1 .. p : ADB[a] = AD[a]
      /\ \A a \in 1 .. j - p : ADB[p + a] = B[a]
  <2>1. /\ ADB \in Seq(S) /\ Len(ADB) = Len(AD) + Len(B)
        /\ \A a \in 1 .. Len(AD) : ADB[a] = AD[a]
        /\ \A a \in 1 .. Len(B) : ADB[Len(AD) + a] = B[a]
    <3>1. AD \in Seq(S) /\ B \in Seq(S) /\ ADB = AD \o B
      BY <1>3, <1>6, <1>7
    <3>2. QED
      BY <3>1, ConcatAt
  <2>2. QED
    BY <1>3, <1>7, <2>1
<1>9. /\ t \in Seq(S) /\ Len(t) = n
      /\ \A a \in 1 .. j : t[a] = ADB[a]
      /\ \A a \in 1 .. n - j : t[j + a] = C[a]
  <2>1. /\ t \in Seq(S) /\ Len(t) = Len(ADB) + Len(C)
        /\ \A a \in 1 .. Len(ADB) : t[a] = ADB[a]
        /\ \A a \in 1 .. Len(C) : t[Len(ADB) + a] = C[a]
    <3>1. ADB \in Seq(S) /\ C \in Seq(S) /\ t = ADB \o C
      BY <1>4, <1>6, <1>8
    <3>2. QED
      BY <3>1, ConcatAt
  <2>2. QED
    BY <1>4, <1>8, <2>1
<1>10. ASSUME NEW a \in 1 .. n
       PROVE  t[a] = IF a < p THEN s[a] ELSE IF a = p THEN s[j] ELSE IF a <= j THEN s[a - 1] ELSE s[a]
  <2>1. CASE a < p
    <3>1. t[a] = ADB[a] /\ ADB[a] = AD[a] /\ AD[a] = A[a] /\ A[a] = s[a]
      BY <1>2, <1>7, <1>8, <1>9, <2>1
    <3>2. QED
      BY <2>1, <3>1
  <2>2. CASE a = p
    <3>1. t[a] = ADB[a] /\ ADB[a] = AD[a] /\ AD[a] = D[1]
      BY <1>7, <1>8, <1>9, <2>2
    <3>2. QED
      BY <1>5, <2>2, <3>1
  <2>3. CASE a > p /\ a <= j
    <3>1. a - p \in 1 .. j - p /\ p + (a - p) = a /\ (a - p) + p - 1 = a - 1 /\ a \in 1 .. j
      BY <2>3
    <3>2. t[a] = ADB[a] /\ ADB[a] = B[a - p] /\ B[a - p] = s[a - 1]
      BY <1>3, <1>8, <1>9, <3>1
    <3>3. QED
      BY <2>3, <3>2
  <2>4. CASE a > j
    <3>1. a - j \in 1 .. n - j /\ j + (a - j) = a /\ (a - j) + j = a
      BY <2>4
    <3>2. t[a] = C[a - j] /\ C[a - j] = s[a]
      BY <1>4, <1>9, <3>1
    <3>3. QED
      BY <2>4, <3>2
  <2>5. QED
    BY <2>1, <2>2, <2>3, <2>4
<1>11. t \in [1 .. n -> S]
  BY <1>9
<1>12. QED
  <2>1. u = t
    BY Zenon DEF IsMoved, t, ADB, AD, A, B, C, D
  <2>2. MovedAs(s, j, p, n, t)
    BY <1>10, Zenon DEF MovedAs
  <2>3. QED
    BY <1>11, <2>1, <2>2, Zenon

(* rgnCreateRegionTree sorts: the list stays sorted as a clause is inserted. *)
LEMMA SortStep ==
  ASSUME TreeInv, sortClause, J <= Len(EIT)
  PROVE  Sorted'
<1> DEFINE n == NumClauses
           key == ClauseList[J]
           stop == {k \in 1 .. J - 1 : clauseXInsideY(EIT[key], EIT[ClauseList[k]])}
           at == IF stop = {} THEN J ELSE CHOOSE k \in stop : \A l \in stop : k <= l
           L == ClauseList'
<1>1. n \in Nat /\ J \in 2 .. n /\ J \in Nat /\ n = Len(EIT)
  BY DEF TreeInv, Sorted, ClausesOK, NumClauses
<1>2. ClauseList \in [1 .. n -> 1 .. n] /\ key = J /\ ClausesOK
  BY <1>1 DEF TreeInv, Sorted
<1>3. at \in 1 .. J /\ (\A k \in stop : at <= k) /\ (at # J => at \in stop)
  <2>1. CASE stop = {}
    BY <1>1, <2>1
  <2>2. CASE stop # {}
    <3>1. stop \in SUBSET Nat /\ stop \subseteq 1 .. J - 1
      BY <1>1
    <3> HIDE DEF stop
    <3>2. PICK k \in stop : \A l \in stop : k <= l
      BY <2>2, <3>1, Least
    <3>3. at \in stop /\ \A k1 \in stop : at <= k1
      BY <2>2, <3>2
    <3> HIDE DEF at
    <3>4. at \in 1 .. J
      BY <1>1, <3>1, <3>3
    <3>5. QED
      BY <3>3, <3>4
  <2>3. QED
    BY <2>1, <2>2
<1>4. /\ L = SubSeq(ClauseList, 1, at - 1) \o <<key>> \o SubSeq(ClauseList, at, J - 1)
                \o SubSeq(ClauseList, J + 1, n)
      /\ J' = J + 1 /\ EIT' = EIT
  <2>1. ~(J > Len(EIT))
    BY <1>1
  <2>2. QED
    BY <1>1, <2>1 DEF sortClause
<1> HIDE DEF at
<1>5. /\ L \in [1 .. n -> 1 .. n]
      /\ \A a \in 1 .. n : L[a] = IF a < at THEN ClauseList[a] ELSE IF a = at THEN key
                                  ELSE IF a <= J THEN ClauseList[a - 1] ELSE ClauseList[a]
  <2> HIDE DEF n, stop, L
  <2>1. IsMoved(ClauseList, J, at, n, L)
    BY <1>4 DEF IsMoved
  <2>2. n \in Nat /\ J \in 2 .. n /\ at \in 1 .. J /\ ClauseList \in [1 .. n -> 1 .. n]
    BY <1>1, <1>2, <1>3
  <2>3. L \in [1 .. n -> 1 .. n] /\ MovedAs(ClauseList, J, at, n, L)
    BY <2>1, <2>2, MovedTo
  <2>4. QED
    BY <2>3 DEF MovedAs
<1> DEFINE old(a) == IF a < at THEN a ELSE IF a = at THEN J ELSE IF a <= J THEN a - 1 ELSE a
<1>6. \A a \in 1 .. n : old(a) \in 1 .. n /\ L[a] = ClauseList[old(a)] /\ (a <= J => old(a) <= J)
  BY <1>1, <1>2, <1>3, <1>5
<1>7. \A a, b \in 1 .. n : old(a) = old(b) => a = b
  BY <1>1, <1>3
<1>8. \A a, b \in 1 .. n : L[a] = L[b] => a = b
  BY <1>2, <1>6, <1>7 DEF TreeInv, Sorted
<1>9. \A a \in 1 .. n : (a < J + 1 => L[a] < J + 1) /\ (a >= J + 1 => L[a] = a)
  <2>1. \A a \in 1 .. n : a <= J => ClauseList[a] <= J
    BY <1>1, <1>2 DEF TreeInv, Sorted
  <2>2. ASSUME NEW a \in 1 .. n, a < J + 1 PROVE L[a] < J + 1
    <3>1. old(a) \in 1 .. n /\ old(a) <= J /\ L[a] = ClauseList[old(a)]
      BY <1>1, <1>6, <2>2
    <3> HIDE DEF old, L, n
    <3>2. ClauseList[old(a)] <= J /\ ClauseList[old(a)] \in Nat
      BY <1>1, <1>2, <2>1, <3>1
    <3>3. QED
      BY <1>1, <3>1, <3>2
  <2>3. \A a \in 1 .. n : a >= J + 1 => L[a] = a
    BY <1>1, <1>2, <1>3, <1>5 DEF TreeInv, Sorted
  <2>4. QED
    BY <2>2, <2>3
<1>10. \A a \in 1 .. J - 1 : ClauseList[a] \in 1 .. n /\ ClauseList[a] < J
  BY <1>1, <1>2 DEF TreeInv, Sorted
<1>11. \A a \in 1 .. J - 1 : a < at => ~ClauseIn(J, ClauseList[a])
  <2> SUFFICES ASSUME NEW a \in 1 .. J - 1, a < at, ClauseIn(J, ClauseList[a]) PROVE FALSE
    OBVIOUS
  <2>1. ClauseList[a] \in 1 .. n /\ ClauseList[a] < J /\ J \in 1 .. n
    BY <1>1, <1>10
  <2>2. clauseXInsideY(EIT[J], EIT[ClauseList[a]]) \/ InFilterOf(EIT[J], EIT[ClauseList[a]])
    BY <1>2, <2>1, InsideIs
  <2>3. ~InFilterOf(EIT[J], EIT[ClauseList[a]])
    BY <1>2, <2>1 DEF ClausesOK
  <2>4. a \in stop
    BY <1>2, <2>2, <2>3
  <2>5. at <= a /\ at \in Nat /\ a \in Nat
    BY <1>1, <1>3, <2>4
  <2>6. QED
    BY <2>5
<1>12. ASSUME at # J PROVE at \in 1 .. J - 1 /\ ClauseIn(J, ClauseList[at])
  <2>1. at \in stop /\ at \in 1 .. J - 1
    BY <1>3, <1>12
  <2>2. ClauseList[at] \in 1 .. n /\ J \in 1 .. n
    BY <1>1, <1>10, <2>1
  <2>3. clauseXInsideY(EIT[J], EIT[ClauseList[at]])
    BY <1>2, <2>1
  <2>4. QED
    BY <1>2, <2>1, <2>2, <2>3, InsideIs
<1>13. \A a \in 1 .. J - 1 : a >= at => ~ClauseIn(ClauseList[a], J)
  <2> SUFFICES ASSUME NEW a \in 1 .. J - 1, a >= at, ClauseIn(ClauseList[a], J) PROVE FALSE
    OBVIOUS
  <2>1. at # J
    BY <1>1, <1>3
  <2>2. ClauseList[a] \in 1 .. n /\ ClauseList[at] \in 1 .. n /\ J \in 1 .. n
    BY <1>1, <1>10, <1>12, <2>1
  <2>3. ClauseIn(ClauseList[a], ClauseList[at])
    BY <1>2, <1>12, <2>1, <2>2, InTransitive
  <2>4. a < at
    BY <1>12, <2>1, <2>3 DEF TreeInv, Sorted
  <2>5. QED
    BY <1>1, <1>3, <2>4
<1>14. \A a \in 1 .. J - 1 : a >= at => Try(EIT[ClauseList[a]]) # Try(EIT[J])
  <2> SUFFICES ASSUME NEW a \in 1 .. J - 1, a >= at, Try(EIT[ClauseList[a]]) = Try(EIT[J]) PROVE FALSE
    OBVIOUS
  <2>1. at # J
    BY <1>1, <1>3
  <2>2. ClauseIn(ClauseList[a], ClauseList[at])
    BY <1>12, <2>1 DEF ClauseIn
  <2>3. a < at
    BY <1>12, <2>1, <2>2 DEF TreeInv, Sorted
  <2>4. QED
    BY <1>1, <1>3, <2>3
<1>15. \A a, b \in 1 .. J : ClauseIn(L[a], L[b]) => a < b
  <2> SUFFICES ASSUME NEW a \in 1 .. J, NEW b \in 1 .. J, ClauseIn(L[a], L[b]), ~(a < b) PROVE FALSE
    OBVIOUS
  <2>1. a \in 1 .. n /\ b \in 1 .. n
    BY <1>1
  <2>2. L[a] = ClauseList[old(a)] /\ L[b] = ClauseList[old(b)]
    BY <1>6, <2>1
  <2>3. CASE a = at
    <3>1. old(a) = J
      BY <2>3
    <3>2. CASE b = at
      BY <2>3, <3>2 DEF ClauseIn
    <3>3. CASE b < at
      <4>1. old(b) = b /\ b \in 1 .. J - 1
        BY <1>1, <1>3, <3>3
      <4>2. QED
        BY <1>2, <1>11, <2>2, <3>1, <3>3, <4>1
    <3>4. QED
      BY <1>1, <1>3, <2>3, <3>2, <3>3
  <2>4. CASE a # at /\ b = at
    <3>1. old(b) = J
      BY <2>4
    <3>2. a > at /\ old(a) = a - 1 /\ old(a) \in 1 .. J - 1 /\ old(a) >= at
      BY <1>1, <1>3, <2>4
    <3>3. QED
      BY <1>2, <1>13, <2>2, <3>1, <3>2
  <2>5. CASE a # at /\ b # at
    <3>1. old(a) \in 1 .. J - 1 /\ old(b) \in 1 .. J - 1 /\ ~(old(a) < old(b))
      BY <1>1, <1>3, <2>5
    <3>2. old(a) < old(b)
      BY <2>2, <3>1 DEF TreeInv, Sorted
    <3>3. QED
      BY <3>1, <3>2
  <2>6. QED
    BY <2>3, <2>4, <2>5
<1>16. \A a, b \in 1 .. J : Try(EIT[L[a]]) = Try(EIT[L[b]]) /\ L[a] < L[b] => a < b
  <2> SUFFICES ASSUME NEW a \in 1 .. J, NEW b \in 1 .. J,
                      Try(EIT[L[a]]) = Try(EIT[L[b]]), L[a] < L[b], ~(a < b)
               PROVE  FALSE
    OBVIOUS
  <2>1. a \in 1 .. n /\ b \in 1 .. n
    BY <1>1
  <2>2. L[a] = ClauseList[old(a)] /\ L[b] = ClauseList[old(b)] /\ L[a] \in Nat /\ L[b] \in Nat
    BY <1>5, <1>6, <2>1
  <2>3. CASE a = at
    <3>1. L[a] = J
      BY <1>2, <2>2, <2>3
    <3>2. L[b] < J + 1
      <4>1. b < J + 1
        BY <1>1
      <4>2. QED
        BY <1>9, <2>1, <4>1
    <3>3. QED
      BY <1>1, <2>2, <3>1, <3>2
  <2>4. CASE a # at /\ b = at
    <3>1. old(b) = J
      BY <2>4
    <3>2. a > at /\ old(a) = a - 1 /\ old(a) \in 1 .. J - 1 /\ old(a) >= at
      BY <1>1, <1>3, <2>4
    <3>3. QED
      BY <1>2, <1>14, <2>2, <3>1, <3>2
  <2>5. CASE a # at /\ b # at
    <3>1. old(a) \in 1 .. J - 1 /\ old(b) \in 1 .. J - 1 /\ ~(old(a) < old(b))
      BY <1>1, <1>3, <2>5
    <3>2. old(a) < old(b)
      BY <2>2, <3>1 DEF TreeInv, Sorted
    <3>3. QED
      BY <3>1, <3>2
  <2>6. QED
    BY <2>3, <2>4, <2>5
<1>17. NumClauses' = n /\ J' - 1 = J /\ J' \in 2 .. n + 1
  BY <1>1, <1>4 DEF NumClauses
<1> HIDE DEF n
<1>18. QED
  BY <1>4, <1>5, <1>8, <1>9, <1>15, <1>16, <1>17 DEF Sorted, ClauseIn

-----------------------------------------------------------------------------
(* The first states. *)

\* The tables of clauses that rgnCreateRegionTree may be given.
GoodTables ==
  {e \in Seq(Clauses) :
     \A k, l \in 1 .. Len(e) : k < l => Nest(e[l], e[k]) /\ ~InFilterOf(e[l], e[k])}

(* One clause more. *)
LEMMA ExtensionsGood ==
  ASSUME NEW eits \in SUBSET GoodTables, NEW e \in Extensions(eits)
  PROVE  e \in GoodTables /\ Len(e) > 0
<1>1. PICK b \in eits : \E c \in Allowed(b) : Extends(b, c) /\ e = Append(b, c)
  BY Zenon DEF Extensions
<1>2. PICK c \in Clauses : Extends(b, c) /\ e = Append(b, c)
  BY <1>1 DEF Allowed, ThreeClauses
<1>3. b \in Seq(Clauses) /\ b \in GoodTables
  BY DEF GoodTables
<1>4. /\ e \in Seq(Clauses) /\ Len(e) = Len(b) + 1 /\ e[Len(b) + 1] = c
      /\ \A k \in 1 .. Len(b) : e[k] = b[k]
  BY <1>2, <1>3, AppendProperties
<1>5. ASSUME NEW k \in 1 .. Len(e), NEW l \in 1 .. Len(e), k < l
      PROVE  Nest(e[l], e[k]) /\ ~InFilterOf(e[l], e[k])
  <2>1. Len(b) \in Nat /\ k \in 1 .. Len(b) /\ e[k] = b[k]
    BY <1>3, <1>4, <1>5
  <2>2. CASE l = Len(b) + 1
    BY <1>2, <1>4, <2>1, <2>2, Zenon DEF Extends
  <2>3. CASE l # Len(b) + 1
    <3>1. l \in 1 .. Len(b) /\ e[l] = b[l]
      BY <1>4, <2>1, <2>3
    <3>2. QED
      BY <1>3, <1>5, <2>1, <3>1, Zenon DEF GoodTables
  <2>4. QED
    BY <2>2, <2>3
<1>6. Len(e) > 0
  BY <1>3, <1>4
<1>7. QED
  BY <1>4, <1>5, <1>6, Zenon DEF GoodTables

(* Any number of clauses. *)
LEMMA TablesGood ==
  ASSUME NEW n \in Nat, n >= 1, NEW e \in Tables(n)
  PROVE  e \in GoodTables /\ Len(e) > 0
<1> DEFINE S == SUBSET GoodTables
           G == [x \in Nat \X S |-> Extensions(x[2])]
           Body(f) == [m \in 0 .. n |-> IF m = 0 THEN {<<>>} ELSE Extensions(f[m - 1])]
           upTo == CHOOSE f : f = Body(f)
<1>1. {<<>>} \in S
  BY DEF GoodTables
<1>2. G \in [Nat \X S -> S]
  BY ExtensionsGood
<1>3. PICK f : RecursiveTo(f, S, {<<>>}, G, n)
  <2> HIDE DEF S, G
  <2> QED
    BY <1>1, <1>2, RecursionTo
<1>4. f \in [0 .. n -> S] /\ f = [m \in 0 .. n |-> IF m = 0 THEN {<<>>} ELSE G[<<m - 1, f[m - 1]>>]]
  BY <1>3 DEF RecursiveTo
<1>5. ASSUME NEW m \in 1 .. n PROVE G[<<m - 1, f[m - 1]>>] = Extensions(f[m - 1])
  <2>1. m - 1 \in Nat /\ m - 1 \in 0 .. n
    OBVIOUS
  <2>2. f[m - 1] \in S
    BY <1>4, <2>1, Zenon
  <2> HIDE DEF S
  <2>3. QED
    BY <2>1, <2>2
<1> HIDE DEF G, S
<1>6. f = Body(f)
  <2>1. \A m \in 0 .. n : m # 0 => m \in 1 .. n
    OBVIOUS
  <2>2. \A m \in 0 .. n : (IF m = 0 THEN {<<>>} ELSE G[<<m - 1, f[m - 1]>>])
                          = (IF m = 0 THEN {<<>>} ELSE Extensions(f[m - 1]))
    BY <1>5, <2>1, Zenon
  <2>3. QED
    BY <1>4, <2>2
<1>7. /\ upTo[0] = {<<>>}
      /\ \A m \in Nat : m + 1 <= n => upTo[m + 1] = Extensions(upTo[m])
  <2>1. upTo = Body(upTo)
    BY <1>6, Zenon
  <2> HIDE DEF upTo
  <2>2. upTo[0] = {<<>>}
    BY <2>1, 0 \in 0 .. n
  <2>3. ASSUME NEW m \in Nat, m + 1 <= n PROVE upTo[m + 1] = Extensions(upTo[m])
    <3>1. m + 1 \in 0 .. n /\ m + 1 # 0 /\ (m + 1) - 1 = m
      BY <2>3
    <3>2. upTo[m + 1] = Extensions(upTo[(m + 1) - 1])
      BY <2>1, <3>1, Zenon
    <3>3. QED
      BY <3>1, <3>2
  <2>4. QED
    BY <2>2, <2>3
<1> HIDE DEF upTo
<1>8. \A m \in Nat : m <= n => upTo[m] \in S
  <2> DEFINE T == {m \in Nat : m <= n => upTo[m] \in S}
  <2>1. 0 \in T
    BY <1>1, <1>7
  <2>2. ASSUME NEW m \in Nat, m \in T PROVE m + 1 \in T
    <3> SUFFICES ASSUME m + 1 <= n PROVE upTo[m + 1] \in S
      OBVIOUS
    <3>1. upTo[m] \in S
      BY <2>2
    <3>2. upTo[m + 1] = Extensions(upTo[m])
      BY <1>7
    <3>3. QED
      BY <3>1, <3>2, ExtensionsGood DEF S
  <2>3. \A m \in Nat : m \in T
    <3> HIDE DEF T
    <3> QED
      BY <2>1, <2>2, SetInduction
  <2>4. QED
    BY <2>3
<1>9. Tables(n) = Extensions(upTo[n - 1])
  <2>1. Tables(n) = upTo[n]
    BY Zenon DEF Tables, upTo
  <2>2. upTo[n] = Extensions(upTo[n - 1])
    BY <1>7, n - 1 \in Nat, (n - 1) + 1 = n
  <2>3. QED
    BY <2>1, <2>2
<1>10. upTo[n - 1] \in SUBSET GoodTables
  BY <1>8, n - 1 \in Nat DEF S
<1>11. QED
  BY <1>9, <1>10, ExtensionsGood

(* The tree of the root alone. *)
LEMMA RootOnly ==
  ASSUME NEW rs, rs = <<newRegion("Root", 0, <<0, CodeSize>>)>>, CodeSize > 0
  PROVE  TreeOK(rs) /\ Entries(rs) /\ Filters(rs) /\ Len(rs) = 1
         /\ rs[1].HandlerEHPad = 0 /\ rs[1].Kind = "Root"
<1>1. /\ rs[1].Kind = "Root" /\ rs[1].Parent = 0 /\ rs[1].Start = 0 /\ rs[1].End = CodeSize
      /\ rs[1].Children = <<>> /\ rs[1].HandlerRegion = 0 /\ rs[1].HandlerEHPad = 0 /\ rs[1].Pad = 0
      /\ Len(rs) = 1
  BY DEF newRegion
<1>2. rs \in Seq(RegionRecords)
  <2>1. newRegion("Root", 0, <<0, CodeSize>>) \in RegionRecords
    BY SizeAssumption DEF newRegion, RegionRecords
  <2>2. QED
    BY <2>1
<1>3. Ids(rs) = {1} /\ 2 .. Len(rs) = {}
  BY <1>1 DEF Ids
<1>4. CodeSize \in Nat
  BY SizeAssumption
<1> HIDE DEF newRegion
<1>5. Rooted(rs)
  BY <1>1, <1>2, <1>3, <1>4 DEF Rooted
<1>6. Laminar(rs)
  BY <1>1, <1>3, <1>4 DEF Laminar, In2
<1>7. TriesUnder(rs) /\ HandlersBeside(rs) /\ Linked(rs) /\ Entries(rs) /\ Filters(rs)
  BY <1>1, <1>3, <1>4 DEF TriesUnder, HandlersBeside, Beside, HandlerKinds, Linked, Entries, Filters
<1>8. QED
  BY <1>1, <1>5, <1>6, <1>7 DEF TreeOK

(* The invariant holds at first. *)
LEMMA InitInv ==
  ASSUME TreeInit
  PROVE  IInv
<1>1. EIT \in GoodTables /\ Len(EIT) > 0
  BY SizeAssumption, TablesGood DEF TreeInit
<1>2. ClausesOK
  BY <1>1, Zenon DEF ClausesOK, GoodTables, NumClauses
<1>3. NumClauses \in Nat /\ NumClauses >= 1 /\ NumClauses = Len(EIT)
  BY <1>1 DEF GoodTables, NumClauses
<1>4. CodeSize > 0
  <2>1. EIT[1] \in Clauses
    BY <1>2, <1>3, ClausePairs
  <2>2. Try(EIT[1]) \in RangeSet
    BY <2>1, ClauseRanges
  <2>3. QED
    BY <2>2, SizeAssumption, RangeFacts
<1>5. /\ ClauseList = [k \in 1 .. Len(EIT) |-> k] /\ J = 2 /\ I = Len(EIT) /\ search = 1
      /\ regions = <<newRegion("Root", 0, <<0, CodeSize>>)>>
      /\ phase = "sort" /\ CurrentOffset = 0 /\ CurrentRegion = 1 /\ entered = <<>>
  BY DEF TreeInit
<1>6. /\ TreeOK(regions) /\ Entries(regions) /\ Filters(regions) /\ Len(regions) = 1
      /\ regions[1].HandlerEHPad = 0 /\ regions[1].Kind = "Root"
  BY <1>4, <1>5, RootOnly
<1>7. Sorted
  <2>1. 1 .. J - 1 = {1}
    BY <1>5
  <2>2. ~ClauseIn(ClauseList[1], ClauseList[1])
    BY DEF ClauseIn
  <2>3. /\ ClauseList \in [1 .. NumClauses -> 1 .. NumClauses] /\ J \in 2 .. NumClauses + 1
        /\ \A a \in 1 .. NumClauses : ClauseList[a] = a /\ (a < J => a = 1)
    BY <1>3, <1>5
  <2>4. \A a, b \in 1 .. J - 1 : ~ClauseIn(ClauseList[a], ClauseList[b]) /\ ~(ClauseList[a] < ClauseList[b])
    BY <1>3, <2>1, <2>2, <2>3
  <2>5. \A a \in 1 .. NumClauses : (a < J => ClauseList[a] < J) /\ (a >= J => ClauseList[a] = a)
    BY <2>3
  <2>6. \A a, b \in 1 .. NumClauses : ClauseList[a] = ClauseList[b] => a = b
    BY <2>3
  <2>7. QED
    BY <2>3, <2>4, <2>5, <2>6, Zenon DEF Sorted
<1>8. Ids(regions) = {1} /\ 2 .. Len(regions) = {}
  BY <1>6 DEF Ids
<1>9. BuildOK
  BY <1>3, <1>5, <1>6, <1>8 DEF BuildOK
<1>10. regions[1].Children = <<>>
  BY <1>5 DEF newRegion
<1>11. Made(regions, I) /\ Ordered(regions, I)
  BY <1>8, <1>10 DEF Made, Ordered
<1>12. TreeInv
  BY <1>2, <1>6, <1>7, <1>9, <1>11 DEF TreeInv
<1>13. WalkOK
  BY <1>5, <1>8 DEF WalkOK
<1>14. PadsOK
  <2>1. InnermostTry(regions, 1, 0)
    BY <1>6, <1>8 DEF InnermostTry
  <2>2. ~Beside(regions, 1)
    BY <1>6 DEF Beside, HandlerKinds
  <2>3. QED
    BY <1>6, <1>8, <2>1, <2>2 DEF PadsOK, PadsIn
<1>15. QED
  BY <1>12, <1>13, <1>14 DEF IInv

-----------------------------------------------------------------------------
(* Facts about the tree. *)

(* One region. *)
LEMMA IdFacts ==
  ASSUME NEW rs, Rooted(rs), NEW r \in Ids(rs)
  PROVE  /\ r \in Nat /\ r >= 1 /\ rs[r] \in RegionRecords
         /\ rs[r].Start \in Nat /\ rs[r].End \in Nat /\ rs[r].Start < rs[r].End /\ rs[r].End <= CodeSize
         /\ rs[r].Parent \in Nat /\ rs[r].Children \in Seq(Nat)
         /\ rs[r].Kind = "Root" \/ rs[r].Kind = "Try" \/ Beside(rs, r)
         /\ rs[r].Kind = "Try" => ~Beside(rs, r) /\ r # 1
         /\ rs[r].Kind = "Root" <=> r = 1
         /\ Beside(rs, r) => r # 1
         /\ r # 1 => rs[r].Parent \in Ids(rs) /\ rs[r].Parent < r /\ r \in 2 .. Len(rs)
         /\ 1 \in Ids(rs) /\ Len(rs) \in Nat
<1>1. rs \in Seq(RegionRecords) /\ Len(rs) \in Nat /\ Len(rs) >= 1
  BY DEF Rooted
<1>2. r \in Nat /\ r >= 1 /\ r <= Len(rs) /\ rs[r] \in RegionRecords /\ 1 \in Ids(rs)
  BY <1>1 DEF Ids
<1>3. rs[r].Start < rs[r].End /\ rs[r].End <= CodeSize
  BY DEF Rooted
<1>4. /\ rs[r].Start \in Nat /\ rs[r].End \in Nat /\ rs[r].Parent \in Nat /\ rs[r].Children \in Seq(Nat)
      /\ rs[r].Kind \in {"Root", "Try"} \cup HandlerKinds
  BY <1>2 DEF RegionRecords
<1>5. /\ rs[r].Kind = "Root" \/ rs[r].Kind = "Try" \/ Beside(rs, r)
      /\ rs[r].Kind = "Try" => ~Beside(rs, r)
      /\ rs[r].Kind = "Root" => ~Beside(rs, r)
  BY <1>4 DEF Beside, HandlerKinds
<1>6. rs[1].Kind = "Root"
  BY DEF Rooted
<1>7. r # 1 => r \in 2 .. Len(rs)
  BY <1>1, <1>2
<1>8. r # 1 => rs[r].Kind # "Root" /\ rs[r].Parent \in 1 .. r - 1
  BY <1>7 DEF Rooted
<1>9. r # 1 => rs[r].Parent \in Ids(rs) /\ rs[r].Parent < r
  BY <1>1, <1>2, <1>8 DEF Ids
<1>10. QED
  BY <1>1, <1>2, <1>3, <1>4, <1>5, <1>6, <1>7, <1>8, <1>9

(* Ranges in ranges. *)
LEMMA In2Facts ==
  ASSUME NEW rs, TreeOK(rs), NEW r \in Ids(rs), NEW s \in Ids(rs)
  PROVE  /\ In2(rs, r, r) /\ In2(rs, r, 1)
         /\ In2(rs, r, s) \/ In2(rs, s, r) \/ Apart(rs, r, s)
         /\ In2(rs, r, s) /\ In2(rs, s, r) => r = s
         /\ In2(rs, r, s) => ~Apart(rs, r, s) /\ ~Apart(rs, s, r)
         /\ \A u \in Ids(rs) : In2(rs, r, s) /\ In2(rs, s, u) => In2(rs, r, u)
<1>1. Rooted(rs) /\ Laminar(rs)
  BY DEF TreeOK
<1>2. \A u \in Ids(rs) : rs[u].Start \in Nat /\ rs[u].End \in Nat /\ rs[u].Start < rs[u].End
                         /\ rs[u].End <= CodeSize
  BY <1>1, IdFacts
<1>3. rs[1].Start = 0 /\ rs[1].End = CodeSize
  BY <1>1 DEF Rooted
<1>4. In2(rs, r, r) /\ In2(rs, r, 1)
  BY <1>2, <1>3 DEF In2
<1>5. In2(rs, r, s) => ~Apart(rs, r, s) /\ ~Apart(rs, s, r)
  BY <1>2 DEF In2, Apart
<1>6. \A u \in Ids(rs) : In2(rs, r, s) /\ In2(rs, s, u) => In2(rs, r, u)
  BY <1>2 DEF In2
<1>7. QED
  BY <1>1, <1>4, <1>5, <1>6 DEF Laminar

(* A try. *)
LEMMA TryFacts ==
  ASSUME NEW rs, TreeOK(rs), NEW t \in Ids(rs), rs[t].Kind = "Try"
  PROVE  /\ rs[t].Parent \in Ids(rs) /\ rs[t].Parent < t /\ rs[t].Parent # t
         /\ In2(rs, t, rs[t].Parent)
         /\ \A s \in Ids(rs) : In2(rs, t, s) /\ s # t => In2(rs, rs[t].Parent, s)
<1>1. rs[t].Parent \in Ids(rs) /\ rs[t].Parent < t /\ t \in Nat /\ rs[t].Parent \in Nat
  BY IdFacts DEF TreeOK
<1>2. QED
  BY <1>1 DEF TreeOK, TriesUnder

(* A handler or filter: its try, the region around both, and that the two are apart. *)
LEMMA HandlerFacts ==
  ASSUME NEW rs, TreeOK(rs), NEW h \in Ids(rs), Beside(rs, h), NEW q, q = rs[h].Parent, NEW p, p = rs[q].Parent
  PROVE  /\ q \in Ids(rs) /\ rs[q].Kind = "Try" /\ q < h
         /\ p \in Ids(rs) /\ p < q /\ p < h
         /\ \A s \in Ids(rs) : s # h => (In2(rs, h, s) <=> s # q /\ In2(rs, q, s))
         /\ In2(rs, h, p) /\ In2(rs, q, p)
         /\ \A s \in Ids(rs) : In2(rs, h, s) /\ s # h => In2(rs, p, s)
         /\ ~In2(rs, h, q) /\ ~In2(rs, q, h) /\ Apart(rs, h, q) /\ h # q
<1>1. h \in Nat /\ q \in Nat /\ q \in Ids(rs) /\ q < h
  BY IdFacts DEF TreeOK
<1>2. /\ rs[q].Kind = "Try"
      /\ \A s \in Ids(rs) : s # h => (In2(rs, h, s) <=> s # q /\ In2(rs, q, s))
  BY DEF TreeOK, HandlersBeside
<1>3. /\ p \in Ids(rs) /\ p < q /\ p # q /\ In2(rs, q, p)
      /\ \A s \in Ids(rs) : In2(rs, q, s) /\ s # q => In2(rs, p, s)
  BY <1>1, <1>2, TryFacts
<1>4. p \in Nat
  BY <1>3, IdFacts DEF TreeOK
<1>5. p < h /\ p # h
  BY <1>1, <1>3, <1>4
<1>6. In2(rs, h, p)
  BY <1>2, <1>3, <1>5
<1>7. \A s \in Ids(rs) : In2(rs, h, s) /\ s # h => In2(rs, p, s)
  BY <1>2, <1>3
<1>8. ~In2(rs, h, q)
  BY <1>1, <1>2
<1>9. ~In2(rs, q, h)
  <2> SUFFICES ASSUME In2(rs, q, h) PROVE FALSE
    OBVIOUS
  <2>1. In2(rs, p, h)
    BY <1>1, <1>3
  <2>2. p = h
    BY <1>3, <1>6, <2>1, In2Facts
  <2>3. QED
    BY <1>5, <2>2
<1>10. Apart(rs, h, q)
  BY <1>1, <1>8, <1>9, In2Facts
<1>11. QED
  BY <1>1, <1>2, <1>3, <1>5, <1>6, <1>7, <1>8, <1>9, <1>10

\* x is a try child of r, or a handler of one.
Below(rs, r, x) ==
  \/ rs[x].Kind = "Try" /\ rs[x].Parent = r
  \/ Beside(rs, x) /\ rs[rs[x].Parent].Parent = r

(* If a region in r has an upward closed property, so has one just below r. *)
LEMMA Nearest ==
  ASSUME NEW rs, TreeOK(rs), NEW r \in Ids(rs), NEW T \in SUBSET Ids(rs),
         \A s \in T : \A x \in Ids(rs) : In2(rs, s, x) => x \in T,
         NEW s0 \in T, In2(rs, s0, r), s0 # r
  PROVE  \E x \in T : x # r /\ In2(rs, x, r) /\ Below(rs, r, x)
<1> DEFINE U == {s \in T : In2(rs, s, r) /\ s # r}
<1>1. U \in SUBSET Nat /\ U # {}
  BY IdFacts DEF TreeOK
<1>2. PICK m \in U : \A y \in U : m <= y
  <2> HIDE DEF U
  <2> QED
    BY <1>1, Least
<1>3. m \in T /\ In2(rs, m, r) /\ m # r /\ m \in Ids(rs) /\ m \in Nat
  BY <1>1
<1>4. m # 1
  <2>1. In2(rs, r, 1)
    BY In2Facts
  <2>2. QED
    BY <1>3, <2>1, In2Facts
<1>5. CASE rs[m].Kind = "Try"
  <2> DEFINE p == rs[m].Parent
  <2>1. p \in Ids(rs) /\ p < m /\ p \in Nat /\ In2(rs, m, p) /\ In2(rs, p, r)
    BY <1>3, <1>5, TryFacts, IdFacts DEF TreeOK
  <2>2. p \in T
    BY <1>3, <2>1
  <2>3. CASE p = r
    BY <1>3, <1>5, <2>3 DEF Below
  <2>4. CASE p # r
    <3>1. p \in U
      BY <2>1, <2>2, <2>4
    <3>2. m <= p
      BY <1>2, <3>1
    <3>3. QED
      BY <1>3, <2>1, <3>2
  <2>5. QED
    BY <2>3, <2>4
<1>6. CASE Beside(rs, m)
  <2>1. PICK q, p : q = rs[m].Parent /\ p = rs[q].Parent
    OBVIOUS
  <2>2. p \in Ids(rs) /\ p < m /\ p \in Nat /\ In2(rs, m, p) /\ In2(rs, p, r)
    <3>1. /\ p \in Ids(rs) /\ p < m /\ In2(rs, m, p)
          /\ \A s \in Ids(rs) : In2(rs, m, s) /\ s # m => In2(rs, p, s)
      BY <1>3, <1>6, <2>1, HandlerFacts
    <3>2. p \in Nat
      BY <3>1, IdFacts DEF TreeOK
    <3>3. QED
      BY <1>3, <3>1, <3>2
  <2>3. p \in T
    BY <1>3, <2>2
  <2>4. CASE p = r
    BY <1>3, <1>6, <2>1, <2>4 DEF Below
  <2>5. CASE p # r
    <3>1. p \in U
      BY <2>2, <2>3, <2>5
    <3>2. m <= p
      BY <1>2, <3>1
    <3>3. QED
      BY <1>3, <2>2, <3>2
  <2>6. QED
    BY <2>4, <2>5
<1>7. QED
  BY <1>3, <1>4, <1>5, <1>6, IdFacts DEF TreeOK

(* The greatest element of a set of bounded numbers. *)
LEMMA Greatest ==
  ASSUME NEW n \in Nat, NEW T \in SUBSET (0 .. n), T # {}
  PROVE  \E x \in T : \A y \in T : y <= x
<1> DEFINE U == {m \in Nat : \A y \in T : y <= m}
<1>1. U \in SUBSET Nat /\ n \in U
  OBVIOUS
<1>2. PICK m \in U : \A y \in U : m <= y
  <2> HIDE DEF U
  <2> QED
    BY <1>1, Least
<1>3. m \in Nat /\ \A y \in T : y <= m /\ y \in Nat
  OBVIOUS
<1>4. m \in T
  <2> SUFFICES ASSUME m \notin T PROVE FALSE
    OBVIOUS
  <2>1. \A y \in T : y < m
    BY <1>3
  <2>2. m # 0
    <3>1. PICK y \in T : TRUE
      OBVIOUS
    <3>2. QED
      BY <1>3, <2>1, <3>1
  <2>3. m - 1 \in U
    BY <1>3, <2>1, <2>2
  <2>4. QED
    BY <1>2, <1>3, <2>3
<1>5. QED
  BY <1>3, <1>4

(* FirstOf finds an element of the list that is in the set, if there is one. *)
LEMMA FirstOfFound ==
  ASSUME NEW list \in Seq(Nat), NEW T
  PROVE  /\ (\E k \in 1 .. Len(list) : list[k] \in T) =>
              \E k \in 1 .. Len(list) : list[k] \in T /\ FirstOf(list, T) = list[k]
         /\ (\A k \in 1 .. Len(list) : list[k] \notin T) => FirstOf(list, T) = 0
<1> DEFINE hits == {k \in 1 .. Len(list) : list[k] \in T}
<1>1. ASSUME hits # {}
      PROVE  \E k \in 1 .. Len(list) : list[k] \in T /\ FirstOf(list, T) = list[k]
  <2>1. hits \in SUBSET Nat
    OBVIOUS
  <2> DEFINE m == CHOOSE k \in hits : \A l \in hits : k <= l
  <2>2. m \in hits
    <3> HIDE DEF hits
    <3>1. \E k \in hits : \A l \in hits : k <= l
      BY <1>1, <2>1, Least
    <3>2. QED
      BY <3>1
  <2>3. FirstOf(list, T) = list[m]
    BY <1>1, Zenon DEF FirstOf
  <2> HIDE DEF m
  <2>4. QED
    BY <2>2, <2>3
<1>2. (\A k \in 1 .. Len(list) : list[k] \notin T) => FirstOf(list, T) = 0
  BY DEF FirstOf
<1>3. QED
  BY <1>1, <1>2

(* The children of a region. *)
LEMMA ChildFacts ==
  ASSUME TreeOK(regions), NEW r \in Ids(regions)
  PROVE  /\ Children(r) \in Seq(Nat)
         /\ \A k \in 1 .. Len(Children(r)) :
              Children(r)[k] \in Ids(regions) /\ regions[Children(r)[k]].Parent = r /\ Children(r)[k] # 1
         /\ \A x \in ChildSet(r) : x \in Ids(regions) /\ regions[x].Parent = r /\ x # 1
         /\ \A x \in Ids(regions) : regions[x].Parent = r =>
              x \in ChildSet(r) /\ \E k \in 1 .. Len(Children(r)) : Children(r)[k] = x
<1>1. regions[1].Parent = 0 /\ r \in Nat /\ r # 0
  BY IdFacts DEF TreeOK, Rooted
<1>2. Children(r) \in Seq(Nat)
  BY IdFacts DEF TreeOK, Children
<1>3. /\ \A k \in 1 .. Len(Children(r)) :
           Children(r)[k] \in Ids(regions) /\ regions[Children(r)[k]].Parent = r
      /\ \A x \in Ids(regions) : regions[x].Parent = r => \E k \in 1 .. Len(Children(r)) : Children(r)[k] = x
  BY Zenon DEF TreeOK, Linked, Children
<1>4. QED
  BY <1>1, <1>2, <1>3 DEF ChildSet

-----------------------------------------------------------------------------
(* Steps that leave the tree alone. *)

(* What was proved of the pads stays true. *)
LEMMA PadsKept ==
  ASSUME PadsOK, regions' = regions, entered' = entered
  PROVE  PadsOK'
  BY DEF PadsOK, Entered

(* So does what holds of the regions and the clauses. *)
LEMMA TreeKept ==
  ASSUME TreeInv, regions' = regions, EIT' = EIT, ClauseList' = ClauseList, J' = J, I' = I
  PROVE  /\ ClausesOK' /\ Sorted' /\ TreeOK(regions)' /\ Entries(regions)' /\ Filters(regions)'
         /\ Made(regions, I)' /\ Ordered(regions, I)'
<1>1. NumClauses' = NumClauses
  BY DEF NumClauses
<1>2. ClausesOK'
  BY <1>1 DEF TreeInv, ClausesOK
<1>3. Sorted'
  BY <1>1 DEF TreeInv, Sorted, ClauseIn
<1>4. TreeOK(regions)' /\ Entries(regions)' /\ Filters(regions)'
  BY DEF TreeInv
<1>5. Made(regions, I)'
  BY <1>1 DEF TreeInv, Made
<1>6. Ordered(regions, I)'
  BY <1>1 DEF TreeInv, Ordered
<1>7. QED
  BY <1>2, <1>3, <1>4, <1>5, <1>6

(* The clause being inserted. *)
LEMMA ClauseFacts ==
  ASSUME TreeInv, I >= 1
  PROVE  /\ I \in 1 .. NumClauses /\ NumClauses \in Nat /\ ClauseList[I] \in 1 .. NumClauses
         /\ Clause \in Clauses /\ Clause = EIT[ClauseList[I]]
         /\ Try(Clause) \in RangeSet /\ Try(Clause) \in Ranges(Clause)
<1>1. NumClauses \in Nat /\ I \in 1 .. NumClauses
  BY DEF TreeInv, BuildOK, ClausesOK, NumClauses
<1>2. ClauseList[I] \in 1 .. NumClauses
  BY <1>1 DEF TreeInv, Sorted
<1>3. Clause \in Clauses /\ Clause = EIT[ClauseList[I]]
  BY <1>2, ClausePairs DEF TreeInv, Clause
<1>4. QED
  BY <1>1, <1>2, <1>3, ClauseRanges

(* The sort keeps the invariant. *)
LEMMA SortKeeps ==
  ASSUME IInv, sortClause
  PROVE  IInv'
<1> USE DEF IInv
<1>1. /\ phase = "sort" /\ EIT' = EIT /\ I' = I /\ regions' = regions /\ search' = search
      /\ CurrentOffset' = CurrentOffset /\ CurrentRegion' = CurrentRegion /\ entered' = entered
  BY DEF sortClause
<1>2. /\ TreeInv /\ BuildOK /\ TreeOK(regions) /\ I = NumClauses /\ Len(regions) = 1 /\ search = 1
      /\ NumClauses' = NumClauses /\ NumClauses \in Nat /\ NumClauses >= 1 /\ NumClauses = Len(EIT)
      /\ J \in Nat /\ J <= NumClauses + 1
  BY <1>1 DEF TreeInv, BuildOK, NumClauses, ClausesOK, Sorted
<1>3. ClausesOK' /\ TreeOK(regions)' /\ Entries(regions)' /\ Filters(regions)'
  <2>1. ClausesOK'
    BY <1>1, <1>2 DEF TreeInv, ClausesOK
  <2>2. QED
    BY <1>1, <2>1 DEF TreeInv
<1>4. Made(regions, I)' /\ Ordered(regions, I)'
  <2>1. 2 .. Len(regions') = {} /\ I' + 1 .. NumClauses' = {}
    BY <1>1, <1>2
  <2>2. QED
    BY <2>1 DEF Made, Ordered
<1>5. Sorted' /\ BuildOK' /\ phase' \in Building
  <2>1. CASE J > Len(EIT)
    <3>1. phase' = "find" /\ ClauseList' = ClauseList /\ J' = J
      BY <2>1 DEF sortClause
    <3>2. Sorted'
      BY <1>1, <1>2, <3>1, TreeKept
    <3>3. J = NumClauses + 1
      BY <1>2, <2>1
    <3>4. Clause' = Clause
      BY <1>1, <3>1 DEF Clause
    <3>5. Encloses(regions, 1, Try(Clause))
      <4>1. Try(Clause) \in RangeSet
        BY <1>2, ClauseFacts
      <4>2. regions[1].Start = 0 /\ regions[1].End = CodeSize
        BY <1>2 DEF TreeOK, Rooted
      <4>3. QED
        BY <4>1, <4>2, RangeFacts DEF Encloses
    <3>6. BuildOK'
      BY <1>1, <1>2, <3>1, <3>3, <3>4, <3>5 DEF BuildOK, Building
    <3>7. QED
      BY <3>1, <3>2, <3>6 DEF Building
  <2>2. CASE ~(J > Len(EIT))
    <3>1. phase' = phase /\ J' = J + 1
      BY <2>2 DEF sortClause
    <3>2. Sorted'
      BY <1>2, <2>2, SortStep
    <3>3. BuildOK'
      BY <1>1, <1>2, <3>1 DEF BuildOK, Building
    <3>4. QED
      BY <1>1, <3>1, <3>2, <3>3 DEF Building
  <2>3. QED
    BY <2>1, <2>2
<1>6. WalkOK'
  BY <1>1, <1>5 DEF WalkOK, Building
<1>7. PadsOK'
  BY <1>1, PadsKept
<1>8. QED
  BY <1>3, <1>4, <1>5, <1>6, <1>7 DEF TreeInv

\* What rgnFindLowestEnclosingRegion works with, as it names them.
FEncloses == {r \in 2 .. Len(regions) : Inside(Try(Clause), <<regions[r].Start, regions[r].End>>)}
FTries == {r \in ChildSet(search) : IsTry(r)}
FHandler(t) == FirstOf(Children(t), {r \in FEncloses : ~IsTry(r)})
FLast == {k \in 1 .. Len(Children(search)) :
            Children(search)[k] \in FTries /\ FHandler(Children(search)[k]) # 0}
FNext == IF FTries \intersect FEncloses # {}
         THEN FirstOf(Children(search), FTries \intersect FEncloses)
         ELSE IF FLast = {} THEN 0
         ELSE FHandler(Children(search)[CHOOSE k \in FLast : \A l \in FLast : l <= k])

(* The region the search comes to next. *)
LEMMA FNextFacts ==
  ASSUME TreeInv, phase = "find"
  PROVE  /\ FNext # 0 => FNext \in Ids(regions) /\ Encloses(regions, FNext, Try(Clause))
         /\ FNext = 0 => \A x \in Ids(regions) : Below(regions, search, x) => ~Encloses(regions, x, Try(Clause))
<1> DEFINE cs == Children(search)
<1>1. TreeOK(regions) /\ Rooted(regions) /\ search \in Ids(regions)
  BY DEF TreeInv, BuildOK, TreeOK
<1>2. /\ cs \in Seq(Nat)
      /\ \A k \in 1 .. Len(cs) : cs[k] \in Ids(regions) /\ regions[cs[k]].Parent = search /\ cs[k] # 1
      /\ \A x \in ChildSet(search) : x \in Ids(regions) /\ regions[x].Parent = search /\ x # 1
      /\ \A x \in Ids(regions) : regions[x].Parent = search =>
              x \in ChildSet(search) /\ \E k \in 1 .. Len(cs) : cs[k] = x
  BY <1>1, ChildFacts
<1>3. \A x : x \in FEncloses <=> x \in Ids(regions) /\ x # 1 /\ Encloses(regions, x, Try(Clause))
  <2>1. Len(regions) \in Nat
    BY <1>1, IdFacts
  <2>2. QED
    BY <2>1 DEF FEncloses, Ids, Encloses, Inside
<1>4. \A x \in FEncloses : x # 0 /\ x \in Ids(regions) /\ Encloses(regions, x, Try(Clause))
  BY <1>3 DEF Ids
<1>5. ASSUME NEW t \in Ids(regions)
      PROVE  /\ FHandler(t) # 0 => FHandler(t) \in FEncloses
             /\ FHandler(t) = 0 => \A x \in Ids(regions) : regions[x].Parent = t /\ ~IsTry(x) => x \notin FEncloses
  <2> DEFINE T == {r \in FEncloses : ~IsTry(r)}
  <2>1. /\ Children(t) \in Seq(Nat)
        /\ \A x \in Ids(regions) : regions[x].Parent = t => \E k \in 1 .. Len(Children(t)) : Children(t)[k] = x
    BY <1>1, ChildFacts
  <2>2. /\ (\E k \in 1 .. Len(Children(t)) : Children(t)[k] \in T) => FHandler(t) \in T
        /\ (\A k \in 1 .. Len(Children(t)) : Children(t)[k] \notin T) => FHandler(t) = 0
    BY <2>1, FirstOfFound DEF FHandler
  <2>3. \A x \in T : x \in FEncloses /\ x # 0
    BY <1>4
  <2>4. QED
    BY <2>1, <2>2, <2>3
<1>6. CASE FTries \intersect FEncloses # {}
  <2> DEFINE T == FTries \intersect FEncloses
  <2>1. PICK x \in T : TRUE
    BY <1>6
  <2>2. x \in ChildSet(search) /\ x \in T
    BY DEF FTries
  <2>3. \E k \in 1 .. Len(cs) : cs[k] \in T
    BY <1>2, <2>2
  <2>4. FNext \in T
    <3>1. FNext = FirstOf(cs, T)
      BY <1>6 DEF FNext
    <3> HIDE DEF T, cs
    <3>2. QED
      BY <1>2, <2>3, <3>1, FirstOfFound
  <2>5. QED
    BY <1>4, <2>4
<1>7. CASE FTries \intersect FEncloses = {} /\ FLast # {}
  <2> DEFINE m == CHOOSE k \in FLast : \A l \in FLast : l <= k
  <2>1. FLast \in SUBSET (0 .. Len(cs)) /\ Len(cs) \in Nat
    BY <1>2 DEF FLast
  <2>2. m \in FLast
    <3>1. \E k \in FLast : \A l \in FLast : l <= k
      BY <1>7, <2>1, Greatest
    <3>2. QED
      BY <3>1
  <2>3. FNext = FHandler(cs[m])
    BY <1>7, Zenon DEF FNext
  <2> HIDE DEF m
  <2>4. m \in 1 .. Len(cs) /\ FHandler(cs[m]) # 0
    BY <2>2 DEF FLast
  <2>5. FNext \in FEncloses
    BY <1>2, <1>5, <2>3, <2>4
  <2>6. QED
    BY <1>4, <2>5
<1>8. CASE FTries \intersect FEncloses = {} /\ FLast = {}
  <2>1. FNext = 0
    BY <1>8 DEF FNext
  <2>2. ASSUME NEW x \in Ids(regions), Below(regions, search, x), Encloses(regions, x, Try(Clause)) PROVE FALSE
    <3>1. x # 1 /\ x \in FEncloses
      <4>1. regions[x].Kind = "Try" \/ Beside(regions, x)
        BY <2>2 DEF Below
      <4>2. x # 1
        BY <1>1, <4>1, IdFacts
      <4>3. QED
        BY <1>3, <2>2, <4>2
    <3>2. CASE regions[x].Kind = "Try" /\ regions[x].Parent = search
      BY <1>2, <1>8, <3>1, <3>2 DEF FTries, IsTry
    <3>3. CASE Beside(regions, x) /\ regions[regions[x].Parent].Parent = search
      <4>1. PICK q : q = regions[x].Parent
        OBVIOUS
      <4>2. q \in Ids(regions) /\ regions[q].Kind = "Try" /\ regions[q].Parent = search
        BY <1>1, <3>3, <4>1, HandlerFacts
      <4>3. ~IsTry(x)
        BY <1>1, <3>3, IdFacts DEF IsTry
      <4>4. FHandler(q) # 0
        BY <1>5, <3>1, <4>1, <4>2, <4>3
      <4>5. PICK k \in 1 .. Len(cs) : cs[k] = q
        BY <1>2, <4>2
      <4>6. q \in FTries
        BY <1>2, <4>2 DEF FTries, IsTry
      <4>7. k \in FLast
        BY <4>4, <4>5, <4>6 DEF FLast
      <4>8. QED
        BY <1>8, <4>7
    <3>4. QED
      BY <2>2, <3>2, <3>3 DEF Below
  <2>3. QED
    BY <2>1, <2>2
<1>9. QED
  BY <1>6, <1>7, <1>8

(* The search for the innermost region around a try keeps the invariant. *)
LEMMA FindKeeps ==
  ASSUME IInv, rgnFindLowestEnclosingRegion
  PROVE  IInv'
<1> USE DEF IInv
<1>1. /\ phase = "find"
      /\ IF FNext = 0 THEN phase' = "insert" /\ search' = search ELSE search' = FNext /\ phase' = phase
      /\ UNCHANGED <<EIT, ClauseList, J, I, regions, CurrentOffset, CurrentRegion,
                     NextRegionTransitionOffset, entered>>
  BY Zenon DEF rgnFindLowestEnclosingRegion, FNext, FLast, FHandler, FTries, FEncloses
<1>2. /\ TreeInv /\ BuildOK /\ TreeOK(regions) /\ search \in Ids(regions)
      /\ NumClauses' = NumClauses /\ Clause' = Clause /\ I >= 1
      /\ Encloses(regions, search, Try(Clause))
  BY <1>1 DEF TreeInv, BuildOK, NumClauses, Clause
<1>3. /\ ClausesOK' /\ Sorted' /\ TreeOK(regions)' /\ Entries(regions)' /\ Filters(regions)'
      /\ Made(regions, I)' /\ Ordered(regions, I)'
  BY <1>1, <1>2, TreeKept
<1>4. /\ FNext # 0 => FNext \in Ids(regions) /\ Encloses(regions, FNext, Try(Clause))
      /\ FNext = 0 => \A x \in Ids(regions) : Below(regions, search, x) => ~Encloses(regions, x, Try(Clause))
  BY <1>1, <1>2, FNextFacts
<1>5. ASSUME FNext = 0, NEW s \in Ids(regions), Encloses(regions, s, Try(Clause)) PROVE In2(regions, search, s)
  <2> SUFFICES ASSUME ~In2(regions, search, s) PROVE FALSE
    OBVIOUS
  <2> DEFINE T == {x \in Ids(regions) : Encloses(regions, x, Try(Clause))}
  <2>1. Try(Clause) \in RangeSet
    BY <1>2, ClauseFacts
  <2>2. /\ Try(Clause)[1] \in Nat /\ Try(Clause)[2] \in Nat /\ Try(Clause)[1] < Try(Clause)[2]
        /\ \A x \in Ids(regions) : regions[x].Start \in Nat /\ regions[x].End \in Nat
    BY <1>2, <2>1, RangeFacts, IdFacts DEF TreeOK
  <2>3. ~Apart(regions, search, s)
    BY <1>2, <1>5, <2>2 DEF Apart, Encloses
  <2>4. In2(regions, s, search) /\ s # search
    BY <1>2, <2>3, In2Facts
  <2>5. \A y \in T : \A x \in Ids(regions) : In2(regions, y, x) => x \in T
    BY <2>2 DEF In2, Encloses
  <2>6. T \in SUBSET Ids(regions) /\ s \in T
    BY <1>5
  <2> HIDE DEF T
  <2>7. \E x \in T : x # search /\ In2(regions, x, search) /\ Below(regions, search, x)
    BY <1>2, <2>4, <2>5, <2>6, Nearest
  <2>8. QED
    BY <1>4, <1>5, <2>7 DEF T
<1>6. BuildOK'
  <2>1. CASE FNext = 0
    <3>1. \A s \in Ids(regions) : Encloses(regions, s, Try(Clause)) => In2(regions, search, s)
      BY <1>5, <2>1
    <3>2. QED
      BY <1>1, <1>2, <2>1, <3>1 DEF BuildOK, Building
  <2>2. CASE FNext # 0
    BY <1>1, <1>2, <1>4, <2>2 DEF BuildOK, Building
  <2>3. QED
    BY <2>1, <2>2
<1>7. phase' \in Building
  BY <1>1 DEF Building
<1>8. WalkOK'
  BY <1>1, <1>7 DEF WalkOK, Building
<1>9. PadsOK'
  BY <1>1, PadsKept
<1>10. QED
  BY <1>3, <1>6, <1>8, <1>9 DEF TreeInv

-----------------------------------------------------------------------------
(* A region is pushed on its parent. *)

\* Region r is the same in rs and rs2, but for its children and where it is entered.
Same(rs, rs2, r) ==
  /\ rs2[r].Kind = rs[r].Kind /\ rs2[r].Parent = rs[r].Parent
  /\ rs2[r].Start = rs[r].Start /\ rs2[r].End = rs[r].End
  /\ rs2[r].HandlerRegion = rs[r].HandlerRegion
  /\ rs2[r].HandlerEHPad = rs[r].HandlerEHPad /\ rs2[r].Pad = rs[r].Pad

\* rs2 is rs with one region more.
Pushed(rs, rs2, new) ==
  /\ rs \in Seq(RegionRecords) /\ rs2 \in Seq(RegionRecords) /\ Len(rs2) = Len(rs) + 1
  /\ new.Parent \in Ids(rs) /\ rs2[Len(rs) + 1] = new
  /\ \A r \in Ids(rs) : Same(rs, rs2, r) /\ rs2[r].EntryRegion = rs[r].EntryRegion
  /\ \A r \in Ids(rs) : r # new.Parent => rs2[r].Children = rs[r].Children
  /\ rs2[new.Parent].Children = <<Len(rs) + 1>> \o rs[new.Parent].Children

(* rgnPushRegionChild. *)
LEMMA PushIs ==
  ASSUME NEW rs \in Seq(RegionRecords), NEW new \in RegionRecords, new.Parent \in Ids(rs)
  PROVE  Pushed(rs, push(rs, new), new)
<1> DEFINE p == new.Parent
           n == Len(rs) + 1
           list == <<n>> \o rs[p].Children
           mid == [rs EXCEPT ![p].Children = <<n>> \o @]
           rs2 == push(rs, new)
<1>1. Len(rs) \in Nat /\ n \in Nat /\ p \in 1 .. Len(rs) /\ rs[p] \in RegionRecords
  BY DEF Ids
<1>2. list \in Seq(Nat)
  <2> HIDE DEF n
  <2>1. <<n>> \in Seq(Nat)
    BY <1>1
  <2>2. rs[p].Children \in Seq(Nat)
    BY <1>1 DEF RegionRecords
  <2>3. QED
    BY <2>1, <2>2, ConcatProperties
<1>3. mid = [rs EXCEPT ![p] = [rs[p] EXCEPT !.Children = list]]
  OBVIOUS
<1> HIDE DEF mid, n, list
<1>4. [rs[p] EXCEPT !.Children = list] \in RegionRecords
  BY <1>1, <1>2 DEF RegionRecords
<1>5. /\ mid \in Seq(RegionRecords) /\ Len(mid) = Len(rs)
      /\ mid[p] = [rs[p] EXCEPT !.Children = list]
      /\ \A r \in Ids(rs) : r # p => mid[r] = rs[r]
  BY <1>1, <1>3, <1>4 DEF Ids
<1>6. rs2 = Append(mid, new)
  BY Zenon DEF push, mid, n
<1>7. /\ rs2 \in Seq(RegionRecords) /\ Len(rs2) = Len(rs) + 1 /\ rs2[Len(rs) + 1] = new
      /\ \A r \in Ids(rs) : rs2[r] = mid[r]
  <2> HIDE DEF rs2
  <2> QED
    BY <1>5, <1>6, AppendProperties DEF Ids
<1> HIDE DEF rs2
<1>8. /\ mid[p].Kind = rs[p].Kind /\ mid[p].Parent = rs[p].Parent
      /\ mid[p].Start = rs[p].Start /\ mid[p].End = rs[p].End
      /\ mid[p].HandlerRegion = rs[p].HandlerRegion /\ mid[p].Children = list
      /\ mid[p].HandlerEHPad = rs[p].HandlerEHPad /\ mid[p].Pad = rs[p].Pad
      /\ mid[p].EntryRegion = rs[p].EntryRegion
  BY <1>1, <1>5 DEF RegionRecords
<1>9. \A r \in Ids(rs) : Same(rs, rs2, r) /\ rs2[r].EntryRegion = rs[r].EntryRegion
  BY <1>5, <1>7, <1>8, ZenonT(60) DEF Same
<1>10. \A r \in Ids(rs) : r # p => rs2[r].Children = rs[r].Children
  BY <1>5, <1>7
<1>11. rs2[p].Children = <<Len(rs) + 1>> \o rs[p].Children
  BY <1>7, <1>8 DEF list, n
<1>12. QED
  BY <1>7, <1>9, <1>10, <1>11 DEF Pushed, rs2

\* Region r encloses the region to be made; the two are apart.
EnclosesNew(rs, r, new) == rs[r].Start <= new.Start /\ new.End <= rs[r].End
ApartNew(rs, r, new) == rs[r].End <= new.Start \/ new.End <= rs[r].Start

\* A region that keeps the tree well formed.
Fits(rs, new) ==
  /\ new \in RegionRecords /\ new.Kind # "Root" /\ new.Parent \in Ids(rs) /\ new.Children = <<>>
  /\ new.Start < new.End /\ new.End <= CodeSize
  /\ \A r \in Ids(rs) : ~(new.Start <= rs[r].Start /\ rs[r].End <= new.End)
  /\ \A r \in Ids(rs) : EnclosesNew(rs, r, new) \/ ApartNew(rs, r, new)
  /\ new.Kind = "Try" =>
       /\ EnclosesNew(rs, new.Parent, new)
       /\ \A s \in Ids(rs) : EnclosesNew(rs, s, new) => In2(rs, new.Parent, s)
  /\ new.Kind \in HandlerKinds =>
       /\ rs[new.Parent].Kind = "Try"
       /\ \A s \in Ids(rs) : EnclosesNew(rs, s, new) <=> s # new.Parent /\ In2(rs, new.Parent, s)

(* The regions before and after. *)
LEMMA PushedIds ==
  ASSUME NEW rs, NEW rs2, NEW new, Pushed(rs, rs2, new)
  PROVE  /\ Len(rs) \in Nat /\ Len(rs) + 1 \in Ids(rs2) /\ Len(rs) + 1 \notin Ids(rs)
         /\ \A r \in Ids(rs) : r \in Ids(rs2) /\ r # Len(rs) + 1 /\ r \in Nat /\ r < Len(rs) + 1
         /\ \A r \in Ids(rs2) : r \in Ids(rs) \/ r = Len(rs) + 1
  BY DEF Pushed, Ids

(* The tree stays well formed as a region is pushed. *)
LEMMA PushTree ==
  ASSUME NEW rs, NEW rs2, NEW new, TreeOK(rs), Pushed(rs, rs2, new), Fits(rs, new)
  PROVE  TreeOK(rs2)
<1> DEFINE n == Len(rs) + 1
           p == new.Parent
<1>1. /\ Len(rs) \in Nat /\ n \in Ids(rs2) /\ n \notin Ids(rs) /\ n \in Nat
      /\ \A r \in Ids(rs) : r \in Ids(rs2) /\ r # n /\ r \in Nat /\ r < n
      /\ \A r \in Ids(rs2) : r \in Ids(rs) \/ r = n
  BY PushedIds
<1>2. /\ \A r \in Ids(rs) : Same(rs, rs2, r) /\ rs2[r].EntryRegion = rs[r].EntryRegion
      /\ rs2[n] = new /\ p \in Ids(rs)
      /\ \A r \in Ids(rs) : r # p => rs2[r].Children = rs[r].Children
      /\ rs2[p].Children = <<n>> \o rs[p].Children
      /\ rs2 \in Seq(RegionRecords) /\ Len(rs2) = n
  BY DEF Pushed
<1>3. Rooted(rs)
  BY DEF TreeOK
<1> HIDE DEF n
<1>4. Rooted(rs2)
  <2>1. 1 \in Ids(rs) /\ Len(rs2) >= 1
    BY <1>1, <1>2, <1>3 DEF Rooted, Ids
  <2>2. /\ rs2[1].Kind = "Root" /\ rs2[1].Parent = 0 /\ rs2[1].Start = 0 /\ rs2[1].End = CodeSize
        /\ rs2[1].HandlerEHPad = 0 /\ rs2[1].Pad = 0
    BY <1>2, <1>3, <2>1 DEF Rooted, Same
  <2>3. ASSUME NEW r \in 2 .. Len(rs2) PROVE rs2[r].Kind # "Root" /\ rs2[r].Parent \in 1 .. r - 1
    <3>1. CASE r = n
      BY <1>1, <1>2, <3>1 DEF Fits, Ids, n
    <3>2. CASE r # n
      <4>1. r \in 2 .. Len(rs) /\ r \in Ids(rs)
        BY <1>1, <1>2, <3>2 DEF Ids, n
      <4>2. QED
        BY <1>2, <1>3, <4>1 DEF Rooted, Same
    <3>3. QED
      BY <3>1, <3>2
  <2>4. ASSUME NEW r \in Ids(rs2) PROVE rs2[r].Start < rs2[r].End /\ rs2[r].End <= CodeSize
    <3>1. CASE r = n
      BY <1>2, <3>1 DEF Fits
    <3>2. CASE r \in Ids(rs)
      BY <1>2, <1>3, <3>2 DEF Rooted, Same
    <3>3. QED
      BY <1>1, <3>1, <3>2
  <2>5. QED
    BY <1>2, <2>1, <2>2, <2>3, <2>4 DEF Rooted
<1>5. /\ \A r, s \in Ids(rs) : (In2(rs2, r, s) <=> In2(rs, r, s)) /\ (Apart(rs2, r, s) <=> Apart(rs, r, s))
      /\ \A r \in Ids(rs) : /\ In2(rs2, n, r) <=> EnclosesNew(rs, r, new)
                            /\ ~In2(rs2, r, n)
                            /\ Apart(rs2, n, r) <=> ApartNew(rs, r, new)
                            /\ Apart(rs2, r, n) <=> ApartNew(rs, r, new)
      /\ \A r \in Ids(rs2) : In2(rs2, r, r)
  <2>1. \A r, s \in Ids(rs) : (In2(rs2, r, s) <=> In2(rs, r, s)) /\ (Apart(rs2, r, s) <=> Apart(rs, r, s))
    BY <1>2 DEF In2, Apart, Same
  <2>2. \A r \in Ids(rs) : /\ In2(rs2, n, r) <=> EnclosesNew(rs, r, new)
                           /\ ~In2(rs2, r, n)
                           /\ Apart(rs2, n, r) <=> ApartNew(rs, r, new)
                           /\ Apart(rs2, r, n) <=> ApartNew(rs, r, new)
    BY <1>2 DEF In2, Apart, Same, EnclosesNew, ApartNew, Fits
  <2>3. \A r \in Ids(rs2) : rs2[r].Start \in Nat /\ rs2[r].End \in Nat
    BY <1>4, IdFacts
  <2>4. QED
    BY <2>1, <2>2, <2>3 DEF In2
<1>6. Laminar(rs2)
  <2>1. ASSUME NEW r \in Ids(rs2), NEW s \in Ids(rs2)
        PROVE  /\ In2(rs2, r, s) \/ In2(rs2, s, r) \/ Apart(rs2, r, s)
               /\ In2(rs2, r, s) /\ In2(rs2, s, r) => r = s
    <3>1. CASE r \in Ids(rs) /\ s \in Ids(rs)
      BY <1>5, <3>1 DEF TreeOK, Laminar
    <3>2. CASE r = n /\ s \in Ids(rs)
      BY <1>5, <3>2 DEF Fits
    <3>3. CASE r \in Ids(rs) /\ s = n
      BY <1>5, <3>3 DEF Fits
    <3>4. CASE r = n /\ s = n
      BY <1>1, <1>5, <3>4
    <3>5. QED
      BY <1>1, <3>1, <3>2, <3>3, <3>4
  <2>2. QED
    BY <2>1 DEF Laminar
<1>7. TriesUnder(rs2)
  <2>1. ASSUME NEW t \in Ids(rs2), rs2[t].Kind = "Try"
        PROVE  /\ In2(rs2, t, rs2[t].Parent)
               /\ \A s \in Ids(rs2) : In2(rs2, t, s) /\ s # t => In2(rs2, rs2[t].Parent, s)
    <3>1. CASE t = n
      <4>1. EnclosesNew(rs, p, new) /\ \A s \in Ids(rs) : EnclosesNew(rs, s, new) => In2(rs, p, s)
        BY <1>2, <2>1, <3>1 DEF Fits
      <4>2. QED
        BY <1>1, <1>2, <1>5, <3>1, <4>1
    <3>2. CASE t \in Ids(rs)
      <4>1. rs[t].Kind = "Try" /\ rs2[t].Parent = rs[t].Parent
        BY <1>2, <2>1, <3>2 DEF Same
      <4>2. /\ rs[t].Parent \in Ids(rs) /\ In2(rs, t, rs[t].Parent)
            /\ \A s \in Ids(rs) : In2(rs, t, s) /\ s # t => In2(rs, rs[t].Parent, s)
        BY <3>2, <4>1, TryFacts
      <4>3. QED
        BY <1>1, <1>5, <3>2, <4>1, <4>2
    <3>3. QED
      BY <1>1, <3>1, <3>2
  <2>2. QED
    BY <2>1 DEF TriesUnder
<1>8. HandlersBeside(rs2)
  <2>1. ASSUME NEW h \in Ids(rs2), Beside(rs2, h), NEW q, q = rs2[h].Parent
        PROVE  /\ rs2[q].Kind = "Try"
               /\ \A s \in Ids(rs2) : s # h => (In2(rs2, h, s) <=> s # q /\ In2(rs2, q, s))
    <3>1. CASE h = n
      <4>1. /\ rs[p].Kind = "Try" /\ q = p
            /\ \A s \in Ids(rs) : EnclosesNew(rs, s, new) <=> s # p /\ In2(rs, p, s)
        BY <1>2, <2>1, <3>1 DEF Fits, Beside
      <4>2. rs2[q].Kind = "Try"
        BY <1>2, <4>1 DEF Same
      <4>3. QED
        BY <1>1, <1>2, <1>5, <3>1, <4>1, <4>2
    <3>2. CASE h \in Ids(rs)
      <4>1. Beside(rs, h) /\ q = rs[h].Parent
        BY <1>2, <2>1, <3>2 DEF Same, Beside
      <4>2. PICK p1 : p1 = rs[q].Parent
        OBVIOUS
      <4>3. /\ q \in Ids(rs) /\ rs[q].Kind = "Try"
            /\ \A s \in Ids(rs) : s # h => (In2(rs, h, s) <=> s # q /\ In2(rs, q, s))
        BY <3>2, <4>1, <4>2, HandlerFacts
      <4>4. rs2[q].Kind = "Try"
        BY <1>2, <4>3 DEF Same
      <4>5. QED
        BY <1>1, <1>5, <3>2, <4>3, <4>4
    <3>3. QED
      BY <1>1, <3>1, <3>2
  <2>2. QED
    BY <2>1 DEF HandlersBeside
<1>9. Linked(rs2)
  <2>1. ASSUME NEW r \in Ids(rs)
        PROVE  /\ rs[r].Children \in Seq(Nat)
               /\ \A k \in 1 .. Len(rs[r].Children) :
                    rs[r].Children[k] \in Ids(rs) /\ rs[rs[r].Children[k]].Parent = r
               /\ \A s \in Ids(rs) : rs[s].Parent = r =>
                    \E k \in 1 .. Len(rs[r].Children) : rs[r].Children[k] = s
    <3>1. rs[r].Children \in Seq(Nat)
      BY <1>3, IdFacts
    <3>2. QED
      BY <3>1, Zenon DEF TreeOK, Linked
  <2>2. ASSUME NEW r \in Ids(rs2)
        PROVE  /\ \A k \in 1 .. Len(rs2[r].Children) :
                    rs2[r].Children[k] \in Ids(rs2) /\ rs2[rs2[r].Children[k]].Parent = r
               /\ \A s \in Ids(rs2) : rs2[s].Parent = r =>
                    \E k \in 1 .. Len(rs2[r].Children) : rs2[r].Children[k] = s
    <3>1. CASE r = n
      <4>1. rs2[r].Children = <<>> /\ Len(rs2[r].Children) = 0
        BY <1>2, <3>1 DEF Fits
      <4>2. ASSUME NEW s \in Ids(rs2), rs2[s].Parent = n PROVE FALSE
        <5>1. CASE s = n
          BY <1>1, <1>2, <4>2, <5>1
        <5>2. CASE s \in Ids(rs)
          <6>1. rs[s].Parent = n
            BY <1>2, <4>2, <5>2 DEF Same
          <6>2. n < s \/ n = 0
            BY <1>3, <5>2, <6>1, IdFacts DEF Rooted
          <6>3. s \in Nat /\ s < n
            BY <1>1, <5>2
          <6>4. QED
            BY <1>1, <6>2, <6>3
        <5>3. QED
          BY <1>1, <5>1, <5>2
      <4>3. QED
        BY <3>1, <4>1, <4>2
    <3>2. CASE r \in Ids(rs) /\ r # p
      <4>1. rs2[r].Children = rs[r].Children
        BY <1>2, <3>2
      <4>2. \A s \in Ids(rs2) : rs2[s].Parent = r => s \in Ids(rs) /\ rs[s].Parent = r
        BY <1>1, <1>2, <3>2 DEF Same
      <4>3. ASSUME NEW k \in 1 .. Len(rs2[r].Children)
            PROVE  rs2[r].Children[k] \in Ids(rs2) /\ rs2[rs2[r].Children[k]].Parent = r
        <5>1. rs[r].Children[k] \in Ids(rs) /\ rs[rs[r].Children[k]].Parent = r
          BY <2>1, <3>2, <4>1
        <5>2. QED
          BY <1>1, <1>2, <4>1, <5>1, ZenonT(60) DEF Same
      <4>4. ASSUME NEW s \in Ids(rs2), rs2[s].Parent = r
            PROVE  \E k \in 1 .. Len(rs2[r].Children) : rs2[r].Children[k] = s
        BY <2>1, <3>2, <4>1, <4>2, <4>4
      <4>5. QED
        BY <4>3, <4>4
    <3>3. CASE r = p
      <4> DEFINE old == rs[p].Children
                 list == rs2[p].Children
      <4>1. /\ list \in Seq(Nat) /\ Len(list) = Len(old) + 1 /\ Len(old) \in Nat
            /\ list[1] = n /\ \A k \in 1 .. Len(old) : list[1 + k] = old[k]
        <5>1. list = <<n>> \o old
          BY <1>2, Zenon
        <5>2. old \in Seq(Nat)
          BY <1>2, <2>1, Zenon
        <5> HIDE DEF list, old
        <5>3. QED
          BY <1>1, <5>1, <5>2, PutFirst
      <4> HIDE DEF list, old
      <4>2. ASSUME NEW k \in 1 .. Len(list) PROVE list[k] \in Ids(rs2) /\ rs2[list[k]].Parent = p
        <5>1. CASE k = 1
          BY <1>1, <1>2, <4>1, <5>1
        <5>2. CASE k # 1
          <6>1. k - 1 \in 1 .. Len(old) /\ 1 + (k - 1) = k
            BY <4>1, <5>2
          <6>2. list[k] = old[k - 1]
            BY <4>1, <6>1
          <6>3. old[k - 1] \in Ids(rs) /\ rs[old[k - 1]].Parent = p
            BY <1>2, <2>1, <6>1 DEF old
          <6>4. QED
            BY <1>1, <1>2, <6>2, <6>3, ZenonT(60) DEF Same
        <5>3. QED
          BY <5>1, <5>2
      <4>3. ASSUME NEW s \in Ids(rs2), rs2[s].Parent = p PROVE \E k \in 1 .. Len(list) : list[k] = s
        <5>1. CASE s = n
          BY <4>1, <5>1, 1 \in 1 .. Len(list)
        <5>2. CASE s \in Ids(rs)
          <6>0. rs[s].Parent = p
            BY <1>2, <4>3, <5>2 DEF Same
          <6>1. PICK k \in 1 .. Len(old) : old[k] = s
            BY <1>2, <2>1, <5>2, <6>0, Zenon DEF old
          <6>2. 1 + k \in 1 .. Len(list) /\ list[1 + k] = s
            BY <4>1, <6>1
          <6>3. QED
            BY <6>2
        <5>3. QED
          BY <1>1, <5>1, <5>2
      <4>4. QED
        BY <3>3, <4>2, <4>3 DEF list
    <3>4. QED
      BY <1>1, <3>1, <3>2, <3>3
  <2>3. QED
    BY <2>2 DEF Linked
<1>10. QED
  BY <1>4, <1>6, <1>7, <1>8, <1>9 DEF TreeOK

\* rs2 has the regions and the links of rs.
SameTree(rs, rs2) ==
  /\ rs2 \in Seq(RegionRecords) /\ Len(rs2) = Len(rs)
  /\ rs2[1].HandlerEHPad = 0 /\ rs2[1].Pad = 0
  /\ \A r \in Ids(rs) :
       /\ rs2[r].Kind = rs[r].Kind /\ rs2[r].Parent = rs[r].Parent
       /\ rs2[r].Start = rs[r].Start /\ rs2[r].End = rs[r].End
       /\ rs2[r].HandlerRegion = rs[r].HandlerRegion /\ rs2[r].Children = rs[r].Children

(* A tree with other pads or entries is well formed. *)
LEMMA SameTreeOK ==
  ASSUME NEW rs, NEW rs2, TreeOK(rs), SameTree(rs, rs2)
  PROVE  /\ TreeOK(rs2) /\ Ids(rs2) = Ids(rs) /\ (Filters(rs) => Filters(rs2))
         /\ \A r, s \in Ids(rs) : (In2(rs2, r, s) <=> In2(rs, r, s))
         /\ \A r \in Ids(rs) : (Beside(rs2, r) <=> Beside(rs, r))
<1>1. /\ rs2 \in Seq(RegionRecords) /\ Len(rs2) = Len(rs) /\ Ids(rs2) = Ids(rs)
      /\ rs2[1].HandlerEHPad = 0 /\ rs2[1].Pad = 0
  BY DEF SameTree, Ids
<1>2. \A r \in Ids(rs) :
       /\ rs2[r].Kind = rs[r].Kind /\ rs2[r].Parent = rs[r].Parent
       /\ rs2[r].Start = rs[r].Start /\ rs2[r].End = rs[r].End
       /\ rs2[r].HandlerRegion = rs[r].HandlerRegion /\ rs2[r].Children = rs[r].Children
  BY DEF SameTree
<1>3. Rooted(rs)
  BY DEF TreeOK
<1>4. Rooted(rs2)
  <2>1. 1 \in Ids(rs)
    BY <1>3, IdFacts DEF Rooted, Ids
  <2>2. 2 .. Len(rs) \subseteq Ids(rs)
    BY <1>3 DEF Rooted, Ids
  <2>3. QED
    BY <1>1, <1>2, <1>3, <2>1, <2>2 DEF Rooted
<1>5. /\ \A r, s \in Ids(rs) : (In2(rs2, r, s) <=> In2(rs, r, s)) /\ (Apart(rs2, r, s) <=> Apart(rs, r, s))
      /\ \A r \in Ids(rs) : (Beside(rs2, r) <=> Beside(rs, r))
  BY <1>2 DEF In2, Apart, Beside
<1>6. Laminar(rs2)
  BY <1>1, <1>5 DEF TreeOK, Laminar
<1>7. TriesUnder(rs2)
  <2>1. ASSUME NEW t \in Ids(rs), rs2[t].Kind = "Try"
        PROVE  /\ In2(rs2, t, rs2[t].Parent)
               /\ \A s \in Ids(rs) : In2(rs2, t, s) /\ s # t => In2(rs2, rs2[t].Parent, s)
    <3>1. rs[t].Kind = "Try" /\ rs2[t].Parent = rs[t].Parent
      BY <1>2, <2>1
    <3>2. /\ rs[t].Parent \in Ids(rs) /\ In2(rs, t, rs[t].Parent)
          /\ \A s \in Ids(rs) : In2(rs, t, s) /\ s # t => In2(rs, rs[t].Parent, s)
      BY <3>1, TryFacts
    <3>3. QED
      BY <1>5, <3>1, <3>2
  <2>2. QED
    BY <1>1, <2>1 DEF TriesUnder
<1>8. HandlersBeside(rs2)
  <2>1. ASSUME NEW h \in Ids(rs), Beside(rs2, h), NEW q, q = rs2[h].Parent
        PROVE  /\ rs2[q].Kind = "Try"
               /\ \A s \in Ids(rs) : s # h => (In2(rs2, h, s) <=> s # q /\ In2(rs2, q, s))
    <3>1. Beside(rs, h) /\ q = rs[h].Parent
      BY <1>2, <1>5, <2>1
    <3>2. PICK p : p = rs[q].Parent
      OBVIOUS
    <3>3. /\ q \in Ids(rs) /\ rs[q].Kind = "Try"
          /\ \A s \in Ids(rs) : s # h => (In2(rs, h, s) <=> s # q /\ In2(rs, q, s))
      BY <3>1, <3>2, HandlerFacts
    <3>4. QED
      BY <1>2, <1>5, <3>3
  <2>2. QED
    BY <1>1, <2>1 DEF HandlersBeside
<1>9. Linked(rs2)
  <2>1. ASSUME NEW r \in Ids(rs)
        PROVE  /\ \A k \in 1 .. Len(rs2[r].Children) :
                    rs2[r].Children[k] \in Ids(rs) /\ rs2[rs2[r].Children[k]].Parent = r
               /\ \A s \in Ids(rs) : rs2[s].Parent = r =>
                    \E k \in 1 .. Len(rs2[r].Children) : rs2[r].Children[k] = s
    <3>1. /\ \A k \in 1 .. Len(rs[r].Children) :
                    rs[r].Children[k] \in Ids(rs) /\ rs[rs[r].Children[k]].Parent = r
          /\ \A s \in Ids(rs) : rs[s].Parent = r =>
                    \E k \in 1 .. Len(rs[r].Children) : rs[r].Children[k] = s
      BY Zenon DEF TreeOK, Linked
    <3>2. rs2[r].Children = rs[r].Children
      BY <1>2
    <3>3. QED
      BY <1>2, <3>1, <3>2
  <2>2. QED
    BY <1>1, <2>1 DEF Linked
<1>10. ASSUME Filters(rs) PROVE Filters(rs2)
  <2>1. ASSUME NEW f \in Ids(rs)
        PROVE  IF rs2[f].Kind = "Filter"
               THEN /\ rs2[f].HandlerRegion \in Ids(rs)
                    /\ rs2[rs2[f].HandlerRegion].Kind = "MExcept"
                    /\ rs2[rs2[f].HandlerRegion].Parent = rs2[f].Parent
               ELSE rs2[f].HandlerRegion = 0
    BY <1>2, <1>10 DEF Filters
  <2>2. ASSUME NEW h \in Ids(rs), rs2[h].Kind = "MExcept" PROVE \E f \in Ids(rs) : rs2[f].HandlerRegion = h
    BY <1>2, <1>10, <2>2 DEF Filters
  <2>3. ASSUME NEW f \in Ids(rs), NEW g \in Ids(rs), rs2[f].HandlerRegion = rs2[g].HandlerRegion,
               rs2[f].HandlerRegion # 0
        PROVE  f = g
    BY <1>2, <1>10, <2>3 DEF Filters
  <2>4. QED
    BY <1>1, <2>1, <2>2, <2>3 DEF Filters
<1>11. QED
  BY <1>1, <1>4, <1>5, <1>6, <1>7, <1>8, <1>9, <1>10 DEF TreeOK

\* rs2 has the ranges of the regions of rs.
SameRanges(rs, rs2) ==
  \A r \in Ids(rs) : /\ rs2[r].Kind = rs[r].Kind /\ rs2[r].Parent = rs[r].Parent
                     /\ rs2[r].Start = rs[r].Start /\ rs2[r].End = rs[r].End

(* The region of a clause stays one. *)
LEMMA RegionOfKept ==
  ASSUME NEW rs, NEW rs2, Rooted(rs), SameRanges(rs, rs2), NEW r \in Ids(rs), r # 1, NEW c
  PROVE  /\ HandlerOf(rs2, r, c) <=> HandlerOf(rs, r, c)
         /\ RegionOf(rs2, r, c) <=> RegionOf(rs, r, c)
<1>1. PICK q : q = rs[r].Parent
  OBVIOUS
<1>2. q \in Ids(rs)
  BY <1>1, IdFacts
<1>3. /\ rs2[r].Kind = rs[r].Kind /\ rs2[r].Parent = q /\ rs2[r].Start = rs[r].Start /\ rs2[r].End = rs[r].End
      /\ rs2[q].Kind = rs[q].Kind /\ rs2[q].Start = rs[q].Start /\ rs2[q].End = rs[q].End
  BY <1>1, <1>2 DEF SameRanges
<1>4. HandlerOf(rs2, r, c) <=> HandlerOf(rs, r, c)
  BY <1>1, <1>3 DEF HandlerOf, HasRange
<1>5. QED
  BY <1>3, <1>4 DEF RegionOf, HasRange

(* The regions of the clauses, as one is pushed. *)
LEMMA PushMade ==
  ASSUME NEW rs, NEW rs2, NEW new, Rooted(rs), Pushed(rs, rs2, new), NEW m, Made(rs, m),
         NEW a \in m + 1 .. NumClauses, RegionOf(rs2, Len(rs) + 1, EIT[ClauseList[a]])
  PROVE  Made(rs2, m)
<1>1. SameRanges(rs, rs2) /\ Len(rs2) = Len(rs) + 1 /\ Len(rs) \in Nat
  BY DEF SameRanges, Pushed, Same
<1>2. ASSUME NEW r \in 2 .. Len(rs2)
      PROVE  \E b \in m + 1 .. NumClauses : RegionOf(rs2, r, EIT[ClauseList[b]])
  <2>1. CASE r = Len(rs) + 1
    BY <2>1
  <2>2. CASE r # Len(rs) + 1
    <3>1. r \in 2 .. Len(rs) /\ r \in Ids(rs) /\ r # 1
      BY <1>1, <2>2 DEF Ids
    <3>2. PICK b \in m + 1 .. NumClauses : RegionOf(rs, r, EIT[ClauseList[b]])
      BY <3>1 DEF Made
    <3>3. RegionOf(rs2, r, EIT[ClauseList[b]])
      BY <1>1, <3>1, <3>2, RegionOfKept
    <3>4. QED
      BY <3>3
  <2>3. QED
    BY <2>1, <2>2
<1>3. QED
  BY <1>2 DEF Made

(* Their order, as one of the first clause is pushed. *)
LEMMA PushOrdered ==
  ASSUME NEW rs, NEW rs2, NEW new, TreeOK(rs), Pushed(rs, rs2, new), new.Children = <<>>,
         NEW m \in Nat, Ordered(rs, m),
         \A a \in m + 1 .. NumClauses : HandlerOf(rs2, Len(rs) + 1, EIT[ClauseList[a]]) => a = m + 1
  PROVE  Ordered(rs2, m)
<1> DEFINE n == Len(rs) + 1
           p == new.Parent
<1>1. SameRanges(rs, rs2) /\ Len(rs) \in Nat /\ Rooted(rs) /\ p \in Ids(rs) /\ n \in Nat
  BY DEF SameRanges, Pushed, Same, TreeOK
<1>2. /\ rs2[n] = new
      /\ \A r \in Ids(rs) : r # p => rs2[r].Children = rs[r].Children
      /\ rs2[p].Children = <<n>> \o rs[p].Children
  BY DEF Pushed
<1>3. \A r \in Ids(rs2) : r \in Ids(rs) \/ r = n
  BY PushedIds
<1>4. ASSUME NEW r \in Ids(rs), NEW k \in 1 .. Len(rs[r].Children), NEW x, x = rs[r].Children[k], NEW c
      PROVE  HandlerOf(rs2, x, c) <=> HandlerOf(rs, x, c)
  <2>1. x \in Ids(rs) /\ rs[x].Parent = r /\ r \in Nat /\ r >= 1
    BY <1>1, <1>4, IdFacts DEF TreeOK, Linked
  <2>2. x # 1
    BY <1>1, <2>1 DEF Rooted
  <2>3. QED
    BY <1>1, <2>1, <2>2, RegionOfKept
<1>5. ASSUME NEW t \in Ids(rs), NEW k \in 1 .. Len(rs[t].Children), NEW l \in 1 .. Len(rs[t].Children), k < l,
             NEW a \in m + 1 .. NumClauses, NEW b \in m + 1 .. NumClauses,
             HandlerOf(rs2, rs[t].Children[k], EIT[ClauseList[a]]),
             HandlerOf(rs2, rs[t].Children[l], EIT[ClauseList[b]])
      PROVE  a <= b
  <2>1. /\ HandlerOf(rs, rs[t].Children[k], EIT[ClauseList[a]])
        /\ HandlerOf(rs, rs[t].Children[l], EIT[ClauseList[b]])
    BY <1>4, <1>5
  <2>2. QED
    BY <1>5, <2>1, Zenon DEF Ordered
<1>6. ASSUME NEW t \in Ids(rs2), NEW k \in 1 .. Len(rs2[t].Children), NEW l \in 1 .. Len(rs2[t].Children), k < l,
             NEW a \in m + 1 .. NumClauses, NEW b \in m + 1 .. NumClauses,
             HandlerOf(rs2, rs2[t].Children[k], EIT[ClauseList[a]]),
             HandlerOf(rs2, rs2[t].Children[l], EIT[ClauseList[b]])
      PROVE  a <= b
  <2>1. CASE t = n
    <3>1. rs2[t].Children = <<>> /\ Len(rs2[t].Children) = 0
      BY <1>2, <2>1
    <3>2. QED
      BY <1>6, <3>1
  <2>2. CASE t \in Ids(rs) /\ t # p
    <3>1. rs2[t].Children = rs[t].Children
      BY <1>2, <2>2
    <3>2. QED
      BY <1>5, <1>6, <2>2, <3>1
  <2>3. CASE t = p
    <3> DEFINE old == rs[p].Children
               list == rs2[p].Children
    <3>1. old \in Seq(Nat) /\ list = <<n>> \o old
      BY <1>1, <1>2, IdFacts
    <3> HIDE DEF old, list, n
    <3>2. /\ list \in Seq(Nat) /\ Len(list) = Len(old) + 1 /\ Len(old) \in Nat
          /\ list[1] = n /\ \A j \in 1 .. Len(old) : list[1 + j] = old[j]
      BY <1>1, <3>1, PutFirst
    <3>3. k \in 1 .. Len(list) /\ l \in 1 .. Len(list) /\ k < l
      BY <1>6, <2>3 DEF list
    <3>4. l - 1 \in 1 .. Len(old) /\ 1 + (l - 1) = l
      BY <3>2, <3>3
    <3>5. list[l] = old[l - 1]
      BY <3>2, <3>4
    <3>6. CASE k = 1
      <4>1. HandlerOf(rs2, n, EIT[ClauseList[a]])
        BY <1>6, <2>3, <3>2, <3>6 DEF list
      <4>2. a = m + 1
        BY <4>1 DEF n
      <4>3. QED
        BY <4>2
    <3>7. CASE k # 1
      <4>1. k - 1 \in 1 .. Len(old) /\ 1 + (k - 1) = k /\ k - 1 < l - 1
        BY <3>2, <3>3, <3>7, SMTT(30)
      <4>2. list[k] = old[k - 1]
        BY <3>2, <4>1
      <4>3. HandlerOf(rs2, old[k - 1], EIT[ClauseList[a]]) /\ HandlerOf(rs2, old[l - 1], EIT[ClauseList[b]])
        BY <1>6, <2>3, <3>5, <4>2 DEF list
      <4>4. QED
        BY <1>1, <1>5, <3>4, <4>1, <4>3 DEF old
    <3>8. QED
      BY <3>6, <3>7
  <2>4. QED
    BY <1>3, <2>1, <2>2, <2>3
<1>7. QED
  BY <1>6 DEF Ordered

\* Try t is entered with the first region of its family, those in X left aside.
EntryBut(rs, t, X) ==
  /\ rs[t].EntryRegion \in Ids(rs) /\ Family(rs, t, rs[t].EntryRegion)
  /\ \A x \in Ids(rs) : Family(rs, t, x) /\ x \notin X => rs[rs[t].EntryRegion].Start <= rs[x].Start

(* Where a try is entered, as a region is pushed. *)
LEMMA PushEntry ==
  ASSUME NEW rs, NEW rs2, NEW new, Pushed(rs, rs2, new), NEW t \in Ids(rs), NEW X, EntryBut(rs, t, X)
  PROVE  /\ EntryBut(rs2, t, X \cup {Len(rs) + 1})
         /\ ~(new.Parent = t /\ new.Kind \in HandlerKinds) => EntryBut(rs2, t, X)
<1> DEFINE n == Len(rs) + 1
<1>1. /\ n \notin Ids(rs) /\ n # t
      /\ \A r \in Ids(rs) : r \in Ids(rs2)
      /\ \A r \in Ids(rs2) : r \in Ids(rs) \/ r = n
  BY PushedIds
<1>2. /\ \A r \in Ids(rs) : Same(rs, rs2, r)
      /\ rs2[t].EntryRegion = rs[t].EntryRegion /\ rs2[n] = new
  BY DEF Pushed
<1> HIDE DEF n
<1>3. \A x \in Ids(rs) : Family(rs2, t, x) <=> Family(rs, t, x)
  BY <1>2 DEF Family, Same, Beside
<1>4. PICK e : e = rs[t].EntryRegion
  OBVIOUS
<1>5. e \in Ids(rs) /\ e \in Ids(rs2) /\ Family(rs, t, e) /\ Family(rs2, t, e) /\ rs2[t].EntryRegion = e
      /\ rs2[e].Start = rs[e].Start
  BY <1>1, <1>2, <1>3, <1>4 DEF EntryBut, Same
<1>6. ASSUME NEW x \in Ids(rs), Family(rs2, t, x), x \notin X PROVE rs2[e].Start <= rs2[x].Start
  <2>1. rs[e].Start <= rs[x].Start
    BY <1>3, <1>4, <1>6 DEF EntryBut
  <2>2. QED
    BY <1>2, <1>5, <2>1 DEF Same
<1>7. EntryBut(rs2, t, X \cup {n})
  BY <1>1, <1>5, <1>6 DEF EntryBut
<1>8. ASSUME ~(new.Parent = t /\ new.Kind \in HandlerKinds) PROVE EntryBut(rs2, t, X)
  <2>1. ~Family(rs2, t, n)
    BY <1>1, <1>2, <1>8 DEF Family, Beside
  <2>2. QED
    BY <1>1, <1>5, <1>6, <2>1 DEF EntryBut
<1>9. QED
  BY <1>7, <1>8 DEF n

\* The entry region of t is x.
Enter(rs, t, x) == [rs EXCEPT ![t].EntryRegion = x]

(* Only the entry region is changed. *)
LEMMA EnterIs ==
  ASSUME NEW rs, TreeOK(rs), NEW t \in Ids(rs), t # 1, NEW x \in Nat, NEW rs2, rs2 = Enter(rs, t, x)
  PROVE  /\ SameTree(rs, rs2) /\ rs2[t].EntryRegion = x
         /\ \A r \in Ids(rs) : (r # t => rs2[r] = rs[r]) /\ Same(rs, rs2, r)
<1>1. Rooted(rs) /\ rs \in Seq(RegionRecords) /\ rs[t] \in RegionRecords /\ 1 \in Ids(rs)
  BY IdFacts DEF TreeOK, Rooted
<1>2. rs2 = [rs EXCEPT ![t] = [rs[t] EXCEPT !.EntryRegion = x]]
  BY DEF Enter
<1>3. [rs[t] EXCEPT !.EntryRegion = x] \in RegionRecords
  BY <1>1 DEF RegionRecords
<1>4. /\ rs2 \in Seq(RegionRecords) /\ Len(rs2) = Len(rs)
      /\ rs2[t] = [rs[t] EXCEPT !.EntryRegion = x]
      /\ \A r \in Ids(rs) : r # t => rs2[r] = rs[r]
  BY <1>1, <1>2, <1>3 DEF Ids
<1>5. /\ rs2[t].Kind = rs[t].Kind /\ rs2[t].Parent = rs[t].Parent
      /\ rs2[t].Start = rs[t].Start /\ rs2[t].End = rs[t].End
      /\ rs2[t].HandlerRegion = rs[t].HandlerRegion /\ rs2[t].Children = rs[t].Children
      /\ rs2[t].HandlerEHPad = rs[t].HandlerEHPad /\ rs2[t].Pad = rs[t].Pad
      /\ rs2[t].EntryRegion = x
  BY <1>1, <1>4 DEF RegionRecords
<1>6. rs2[1].HandlerEHPad = 0 /\ rs2[1].Pad = 0
  BY <1>1, <1>4 DEF Rooted
<1>7. SameTree(rs, rs2)
  BY <1>4, <1>5, <1>6 DEF SameTree
<1>8. \A r \in Ids(rs) : Same(rs, rs2, r)
  BY <1>4, <1>5 DEF Same
<1>9. QED
  BY <1>4, <1>5, <1>7, <1>8

(* The last region made becomes the entry region if it comes first. *)
LEMMA LowEntry ==
  ASSUME NEW rs, TreeOK(rs), NEW t \in Ids(rs), t # 1, NEW X, EntryBut(rs, t, X),
         NEW last \in Ids(rs), Family(rs, t, last),
         \A x \in X : rs[last].Start <= rs[x].Start, NEW rs2,
         rs2 = IF rs[last].Start < rs[rs[t].EntryRegion].Start THEN Enter(rs, t, last) ELSE rs
  PROVE  /\ SameTree(rs, rs2) /\ EntryBut(rs2, t, {})
         /\ \A r \in Ids(rs) : (r # t => rs2[r] = rs[r]) /\ Same(rs, rs2, r)
<1>1. PICK e : e = rs[t].EntryRegion
  OBVIOUS
<1>2. /\ e \in Ids(rs) /\ Family(rs, t, e)
      /\ \A x \in Ids(rs) : Family(rs, t, x) /\ x \notin X => rs[e].Start <= rs[x].Start
  BY <1>1 DEF EntryBut
<1>3. Rooted(rs) /\ \A r \in Ids(rs) : rs[r].Start \in Nat /\ r \in Nat
  BY IdFacts DEF TreeOK
<1>4. CASE rs[last].Start < rs[e].Start
  <2>1. rs2 = Enter(rs, t, last) /\ last \in Nat
    BY <1>1, <1>3, <1>4
  <2>2. /\ SameTree(rs, rs2) /\ rs2[t].EntryRegion = last
        /\ \A r \in Ids(rs) : (r # t => rs2[r] = rs[r]) /\ Same(rs, rs2, r)
    BY <2>1, EnterIs, ZenonT(60)
  <2>3. Ids(rs2) = Ids(rs)
    BY <2>2 DEF SameTree, Ids
  <2>4. \A x \in Ids(rs) : Family(rs2, t, x) <=> Family(rs, t, x)
    BY <2>2 DEF Family, Same, Beside
  <2>5. ASSUME NEW x \in Ids(rs), Family(rs, t, x) PROVE rs2[last].Start <= rs2[x].Start
    <3>1. rs[last].Start <= rs[x].Start
      BY <1>2, <1>3, <1>4, <2>5
    <3>2. QED
      BY <2>2, <3>1 DEF Same
  <2>6. QED
    BY <2>2, <2>3, <2>4, <2>5 DEF EntryBut
<1>5. CASE ~(rs[last].Start < rs[e].Start)
  <2>1. rs2 = rs
    BY <1>1, <1>5
  <2>2. \A x \in X : x \in Ids(rs) => rs[e].Start <= rs[x].Start
    BY <1>2, <1>3, <1>5
  <2>3. EntryBut(rs, t, {})
    BY <1>1, <1>2, <2>2 DEF EntryBut
  <2>4. SameTree(rs, rs)
    BY <1>3 DEF SameTree, Rooted
  <2>5. QED
    BY <2>1, <2>3, <2>4 DEF Same
<1>6. QED
  BY <1>4, <1>5

(* Filters and their handlers, as a region that is neither is pushed. *)
LEMMA PushFilters ==
  ASSUME NEW rs, NEW rs2, NEW new, Pushed(rs, rs2, new), Filters(rs),
         new.Kind \notin {"Filter", "MExcept"}, new.HandlerRegion = 0
  PROVE  Filters(rs2)
<1> DEFINE n == Len(rs) + 1
<1>1. /\ n \notin Ids(rs)
      /\ \A r \in Ids(rs) : r \in Ids(rs2)
      /\ \A r \in Ids(rs2) : r \in Ids(rs) \/ r = n
  BY PushedIds
<1>2. (\A r \in Ids(rs) : Same(rs, rs2, r)) /\ rs2[n] = new
  BY DEF Pushed
<1> HIDE DEF n
<1>3. ASSUME NEW f \in Ids(rs2)
      PROVE  IF rs2[f].Kind = "Filter"
             THEN /\ rs2[f].HandlerRegion \in Ids(rs2)
                  /\ rs2[rs2[f].HandlerRegion].Kind = "MExcept"
                  /\ rs2[rs2[f].HandlerRegion].Parent = rs2[f].Parent
             ELSE rs2[f].HandlerRegion = 0
  <2>1. CASE f = n
    BY <1>2, <2>1
  <2>2. CASE f \in Ids(rs)
    BY <1>1, <1>2, <2>2 DEF Filters, Same
  <2>3. QED
    BY <1>1, <2>1, <2>2
<1>4. ASSUME NEW h \in Ids(rs2), rs2[h].Kind = "MExcept" PROVE \E f \in Ids(rs2) : rs2[f].HandlerRegion = h
  <2>1. h \in Ids(rs) /\ rs[h].Kind = "MExcept"
    BY <1>1, <1>2, <1>4 DEF Same
  <2>2. PICK f \in Ids(rs) : rs[f].HandlerRegion = h
    BY <2>1 DEF Filters
  <2>3. QED
    BY <1>1, <1>2, <2>2 DEF Same
<1>5. ASSUME NEW f \in Ids(rs2), NEW g \in Ids(rs2), rs2[f].HandlerRegion = rs2[g].HandlerRegion,
             rs2[f].HandlerRegion # 0
      PROVE  f = g
  <2>1. f \in Ids(rs) /\ g \in Ids(rs)
    BY <1>1, <1>2, <1>5
  <2>2. QED
    BY <1>2, <1>5, <2>1 DEF Filters, Same
<1>6. QED
  BY <1>3, <1>4, <1>5 DEF Filters

\* A handler with a filter is pushed, and then its filter f0.
BothPushed(rs, rs2, rs3, new, f0) ==
  /\ Pushed(rs, rs2, new) /\ Pushed(rs2, rs3, f0) /\ Filters(rs)
  /\ new.Kind = "MExcept" /\ new.HandlerRegion = 0
  /\ f0.Kind = "Filter" /\ f0.HandlerRegion = Len(rs) + 1 /\ f0.Parent = new.Parent
  /\ \A r \in Ids(rs) : rs[r].HandlerRegion # Len(rs) + 1

(* A handler and its filter are pushed. *)
LEMMA PushBoth ==
  ASSUME NEW rs, NEW rs2, NEW rs3, NEW new, NEW f0, BothPushed(rs, rs2, rs3, new, f0)
  PROVE  Filters(rs3)
<1>0. /\ Pushed(rs, rs2, new) /\ Pushed(rs2, rs3, f0) /\ Filters(rs)
      /\ new.Kind = "MExcept" /\ new.HandlerRegion = 0
      /\ f0.Kind = "Filter" /\ f0.HandlerRegion = Len(rs) + 1 /\ f0.Parent = new.Parent
      /\ \A r \in Ids(rs) : rs[r].HandlerRegion # Len(rs) + 1
  BY DEF BothPushed
<1> DEFINE n == Len(rs) + 1
           m == Len(rs2) + 1
<1>1. /\ n \notin Ids(rs) /\ n \in Nat /\ n # 0
      /\ \A r \in Ids(rs) : r \in Ids(rs2)
      /\ \A r \in Ids(rs2) : r \in Ids(rs) \/ r = n
      /\ m \notin Ids(rs2) /\ n \in Ids(rs2) /\ m \in Ids(rs3)
      /\ \A r \in Ids(rs2) : r \in Ids(rs3)
      /\ \A r \in Ids(rs3) : r \in Ids(rs2) \/ r = m
  BY <1>0, PushedIds
<1>2. (\A r \in Ids(rs) : Same(rs, rs2, r)) /\ rs2[n] = new /\ (\A r \in Ids(rs2) : Same(rs2, rs3, r)) /\ rs3[m] = f0
  BY <1>0 DEF Pushed
<1> HIDE DEF n, m
<1>3. /\ \A r \in Ids(rs) : rs3[r].Kind = rs[r].Kind /\ rs3[r].Parent = rs[r].Parent
                            /\ rs3[r].HandlerRegion = rs[r].HandlerRegion
      /\ rs3[n].Kind = "MExcept" /\ rs3[n].Parent = new.Parent /\ rs3[n].HandlerRegion = 0
      /\ rs3[m].Kind = "Filter" /\ rs3[m].Parent = new.Parent /\ rs3[m].HandlerRegion = n
      /\ \A r \in Ids(rs) : rs[r].HandlerRegion # n
  BY <1>0, <1>1, <1>2 DEF Same, n
<1>4. \A r \in Ids(rs3) : r \in Ids(rs) \/ r = n \/ r = m
  BY <1>1
<1>5. \A r \in Ids(rs) : r \in Ids(rs3)
  BY <1>1
<1>6. n \in Ids(rs3) /\ m \in Ids(rs3) /\ n # m
  BY <1>1
<1>7. ASSUME NEW f \in Ids(rs3)
      PROVE  IF rs3[f].Kind = "Filter"
             THEN /\ rs3[f].HandlerRegion \in Ids(rs3)
                  /\ rs3[rs3[f].HandlerRegion].Kind = "MExcept"
                  /\ rs3[rs3[f].HandlerRegion].Parent = rs3[f].Parent
             ELSE rs3[f].HandlerRegion = 0
  <2>1. CASE f = n
    BY <1>3, <2>1
  <2>2. CASE f = m
    BY <1>3, <1>6, <2>2
  <2>3. CASE f \in Ids(rs)
    BY <1>0, <1>3, <1>5, <2>3 DEF Filters
  <2>4. QED
    BY <1>4, <2>1, <2>2, <2>3
<1>8. ASSUME NEW h \in Ids(rs3), rs3[h].Kind = "MExcept" PROVE \E f \in Ids(rs3) : rs3[f].HandlerRegion = h
  <2>1. CASE h = n
    BY <1>3, <1>6, <2>1
  <2>2. CASE h \in Ids(rs)
    <3>1. PICK f \in Ids(rs) : rs[f].HandlerRegion = h
      BY <1>0, <1>3, <1>8, <2>2 DEF Filters
    <3>2. QED
      BY <1>3, <1>5, <3>1
  <2>3. QED
    BY <1>3, <1>4, <1>8, <2>1, <2>2
<1>9. ASSUME NEW f \in Ids(rs3), NEW g \in Ids(rs3), rs3[f].HandlerRegion = rs3[g].HandlerRegion,
             rs3[f].HandlerRegion # 0
      PROVE  f = g
  <2>1. CASE f \in Ids(rs) /\ g \in Ids(rs)
    BY <1>0, <1>3, <1>9, <2>1 DEF Filters
  <2>2. CASE f = m \/ g = m
    BY <1>3, <1>4, <1>9, <2>2
  <2>3. QED
    BY <1>3, <1>4, <1>9, <2>1, <2>2
<1>10. QED
  BY <1>7, <1>8, <1>9 DEF Filters

-----------------------------------------------------------------------------
(* The regions of a clause fit into the tree. *)

\* A clause is being inserted.
Inserting == TreeInv /\ phase = "insert"

\* y is a range of a clause inserted before.
OldRange(y) ==
  \E k \in 1 .. NumClauses :
    k # ClauseList[I] /\ ~ClauseIn(k, ClauseList[I]) /\ y \in Ranges(EIT[k])

\* The regions are those of clauses inserted before, and the ranges R of the clause.
Known(rs, R) == \A r \in 2 .. Len(rs) : \E y : HasRange(rs, r, y) /\ (y \in R \/ OldRange(y))

(* What is inserted. *)
LEMMA InsertFacts ==
  ASSUME Inserting
  PROVE  /\ I \in 1 .. NumClauses /\ NumClauses \in Nat /\ ClauseList[I] \in 1 .. NumClauses
         /\ Clause \in Clauses /\ Clause = EIT[ClauseList[I]] /\ ClausesOK /\ TreeOK(regions)
         /\ J = NumClauses + 1 /\ search \in Ids(regions)
         /\ Encloses(regions, search, Try(Clause))
         /\ \A s \in Ids(regions) : Encloses(regions, s, Try(Clause)) => In2(regions, search, s)
<1>1. TreeInv /\ I >= 1 /\ J = NumClauses + 1 /\ search \in Ids(regions)
  BY DEF Inserting, TreeInv, BuildOK
<1>2. ClausesOK /\ TreeOK(regions)
  BY <1>1 DEF TreeInv
<1>3. /\ Encloses(regions, search, Try(Clause))
      /\ \A s \in Ids(regions) : Encloses(regions, s, Try(Clause)) => In2(regions, search, s)
  BY DEF Inserting, TreeInv, BuildOK
<1>4. QED
  BY <1>1, <1>2, <1>3, ClauseFacts

(* The ranges of the clause. *)
LEMMA OwnRanges ==
  ASSUME Inserting, NEW x \in Ranges(Clause)
  PROVE  /\ x \in RangeSet
         /\ \A z \in Ranges(Clause) : z # x => Disjoint(x, z)
         /\ ~(x[1] <= 0 /\ CodeSize <= x[2])
<1>1. /\ Clause \in Clauses /\ Clause = EIT[ClauseList[I]] /\ ClausesOK /\ ClauseList[I] \in 1 .. NumClauses
  BY InsertFacts
<1>2. x \in RangeSet
  BY <1>1, ClauseRanges
<1>3. \A z \in Ranges(Clause) : z # x => Disjoint(x, z)
  BY <1>1, RangePairs
<1>4. PICK z \in Ranges(Clause) : z # x /\ z \in RangeSet
  <2>1. /\ Try(Clause) \in Ranges(Clause) /\ Handler(Clause) \in Ranges(Clause)
        /\ Disjoint(Handler(Clause), Try(Clause))
        /\ Try(Clause) \in RangeSet /\ Handler(Clause) \in RangeSet
    BY <1>1, ClauseRanges
  <2>2. Try(Clause) # Handler(Clause)
    BY <2>1, RangeFacts
  <2>3. QED
    BY <2>1, <2>2
<1>5. ~(x[1] <= 0 /\ CodeSize <= x[2])
  <2>1. x[2] <= z[1] \/ z[2] <= x[1]
    BY <1>3, <1>4 DEF Disjoint
  <2>2. /\ x[1] \in Nat /\ x[2] \in Nat /\ x[1] < x[2]
        /\ z[1] \in Nat /\ z[2] \in Nat /\ z[1] < z[2] /\ z[2] <= CodeSize
    BY <1>2, <1>4, RangeFacts
  <2>3. QED
    BY <2>1, <2>2, SizeAssumption
<1>6. QED
  BY <1>2, <1>3, <1>5

(* A range of the clause and one inserted before. *)
LEMMA OldRanges ==
  ASSUME Inserting, NEW x \in Ranges(Clause), NEW y, OldRange(y)
  PROVE  /\ y \in RangeSet
         /\ y = x => x = Try(Clause)
         /\ Inside(y, x) => y = x
         /\ Disjoint(x, y) \/ Inside(x, y)
         /\ Inside(x, y) /\ x # y => \A z \in Ranges(Clause) : Inside(z, y)
<1>1. /\ Clause \in Clauses /\ Clause = EIT[ClauseList[I]] /\ ClausesOK /\ ClauseList[I] \in 1 .. NumClauses
  BY InsertFacts
<1>2. PICK k \in 1 .. NumClauses :
        k # ClauseList[I] /\ ~ClauseIn(k, ClauseList[I]) /\ y \in Ranges(EIT[k])
  BY DEF OldRange
<1>3. /\ x \in RangeSet /\ y \in RangeSet
      /\ Disjoint(x, y) \/ Inside(x, y) \/ Inside(y, x)
      /\ x = y => Try(EIT[ClauseList[I]]) = Try(EIT[k]) /\ (x = Try(EIT[ClauseList[I]]) \/ ClauseList[I] = k)
      /\ Inside(x, y) /\ x # y => \A z \in Ranges(EIT[ClauseList[I]]) : Inside(z, y)
  BY <1>1, <1>2, RangePairs
<1>4. Inside(y, x) /\ y # x => ClauseIn(k, ClauseList[I])
  BY <1>1, <1>2, RangePairs
<1>5. Inside(x, x)
  BY <1>3, RangeFacts DEF Inside
<1>6. QED
  BY <1>1, <1>2, <1>3, <1>4, <1>5

(* At first the regions are those of the clauses inserted before. *)
LEMMA KnownAtFirst ==
  ASSUME Inserting
  PROVE  Known(regions, {})
<1> SUFFICES ASSUME NEW r \in 2 .. Len(regions) PROVE \E y : HasRange(regions, r, y) /\ OldRange(y)
  BY DEF Known
<1>1. /\ I \in 1 .. NumClauses /\ NumClauses \in Nat /\ J = NumClauses + 1 /\ ClausesOK
      /\ ClauseList[I] \in 1 .. NumClauses
  BY InsertFacts
<1>2. PICK a \in I + 1 .. NumClauses : RegionOf(regions, r, EIT[ClauseList[a]])
  BY DEF Inserting, TreeInv, Made
<1>3. a \in 1 .. NumClauses /\ a \in 1 .. J - 1 /\ I \in 1 .. J - 1 /\ ~(a < I) /\ a # I
  BY <1>1
<1>4. PICK k : k = ClauseList[a]
  OBVIOUS
<1>5. k \in 1 .. NumClauses /\ k # ClauseList[I]
  BY <1>1, <1>3, <1>4 DEF Inserting, TreeInv, Sorted
<1>6. ~ClauseIn(k, ClauseList[I])
  BY <1>3, <1>4 DEF Inserting, TreeInv, Sorted
<1>7. EIT[k] \in Clauses
  BY <1>1, <1>5, ClausePairs
<1>8. \E y \in Ranges(EIT[k]) : HasRange(regions, r, y)
  <2>1. /\ Try(EIT[k]) \in Ranges(EIT[k]) /\ Handler(EIT[k]) \in Ranges(EIT[k])
        /\ EIT[k].Kind = "Filter" => Filter(EIT[k]) \in Ranges(EIT[k])
    BY <1>7, ClauseRanges
  <2>2. \/ HasRange(regions, r, Try(EIT[k])) \/ HasRange(regions, r, Handler(EIT[k]))
        \/ EIT[k].Kind = "Filter" /\ HasRange(regions, r, Filter(EIT[k]))
    BY <1>2, <1>4, Zenon DEF RegionOf, HandlerOf
  <2>3. QED
    BY <2>1, <2>2, Zenon
<1>9. QED
  BY <1>5, <1>6, <1>8 DEF OldRange

(* No region has the range of a handler of the clause until one is made for it. *)
LEMMA NoHandlerYet ==
  ASSUME Inserting, NEW rs, TreeOK(rs), NEW R \in SUBSET Ranges(Clause), Known(rs, R),
         NEW x \in Handlers(Clause), x \notin R, NEW r \in Ids(rs)
  PROVE  ~HasRange(rs, r, x)
<1> SUFFICES ASSUME HasRange(rs, r, x) PROVE FALSE
  OBVIOUS
<1>1. Clause \in Clauses
  BY InsertFacts
<1>2. x \in Ranges(Clause) /\ Disjoint(x, Try(Clause)) /\ x \in RangeSet
  BY <1>1, ClauseRanges
<1>3. x # Try(Clause)
  BY <1>2, RangeFacts
<1>4. CASE r = 1
  <2>1. rs[1].Start = 0 /\ rs[1].End = CodeSize
    BY DEF TreeOK, Rooted
  <2>2. x[1] = 0 /\ x[2] = CodeSize
    BY <1>4, <2>1 DEF HasRange
  <2>3. QED
    BY <1>2, <2>2, OwnRanges, SizeAssumption
<1>5. CASE r # 1
  <2>1. r \in 2 .. Len(rs)
    BY <1>5, IdFacts DEF TreeOK
  <2>2. PICK y : HasRange(rs, r, y) /\ (y \in R \/ OldRange(y))
    BY <2>1 DEF Known
  <2>3. y \in RangeSet
    <3>1. CASE y \in R
      BY <3>1, OwnRanges
    <3>2. CASE OldRange(y)
      BY <1>2, <3>2, OldRanges
    <3>3. QED
      BY <2>2, <3>1, <3>2
  <2>4. y = x
    BY <1>2, <2>2, <2>3, RangeFacts DEF HasRange
  <2>5. QED
    BY <1>2, <1>3, <2>2, <2>4, OldRanges
<1>6. QED
  BY <1>4, <1>5

(* A range of the clause that no region has yet, and the regions. *)
LEMMA NewRange ==
  ASSUME Inserting, NEW rs, TreeOK(rs), NEW R \in SUBSET Ranges(Clause), Known(rs, R),
         NEW x \in Ranges(Clause), NEW r \in Ids(rs), ~HasRange(rs, r, x)
  PROVE  /\ ~(x[1] <= rs[r].Start /\ rs[r].End <= x[2])
         /\ Encloses(rs, r, x) \/ rs[r].End <= x[1] \/ x[2] <= rs[r].Start
         /\ Encloses(rs, r, x) => \A z \in Ranges(Clause) : Encloses(rs, r, z)
<1>1. x \in RangeSet /\ \A z \in Ranges(Clause) : z # x => Disjoint(x, z)
  BY OwnRanges
<1>2. x[1] \in Nat /\ x[2] \in Nat /\ x[1] < x[2] /\ x[2] <= CodeSize
  BY <1>1, RangeFacts
<1>3. CASE r = 1
  <2>1. rs[r].Start = 0 /\ rs[r].End = CodeSize
    BY <1>3 DEF TreeOK, Rooted
  <2>2. \A z \in Ranges(Clause) : z[1] \in Nat /\ z[2] <= CodeSize
    BY OwnRanges, RangeFacts
  <2>3. \A z \in Ranges(Clause) : Encloses(rs, r, z)
    BY <2>1, <2>2 DEF Encloses
  <2>4. ~(x[1] <= 0 /\ CodeSize <= x[2])
    BY OwnRanges
  <2>5. QED
    BY <2>1, <2>3, <2>4
<1>4. CASE r # 1
  <2>1. r \in 2 .. Len(rs)
    BY <1>4, IdFacts DEF TreeOK
  <2>2. PICK y : HasRange(rs, r, y) /\ (y \in R \/ OldRange(y))
    BY <2>1 DEF Known
  <2>3. y # x /\ y[1] = rs[r].Start /\ y[2] = rs[r].End
    BY <2>2 DEF HasRange
  <2>4. /\ ~Inside(y, x) /\ (Inside(x, y) \/ Disjoint(x, y))
        /\ Inside(x, y) => \A z \in Ranges(Clause) : Inside(z, y)
    <3>1. CASE y \in R
      <4>1. y \in Ranges(Clause) /\ y \in RangeSet /\ Disjoint(x, y) /\ Disjoint(y, x)
        BY <1>1, <2>3, <3>1, OwnRanges
      <4>2. ~Inside(y, x) /\ ~Inside(x, y)
        BY <1>1, <4>1, RangeFacts
      <4>3. QED
        BY <4>1, <4>2
    <3>2. CASE OldRange(y)
      BY <2>3, <3>2, OldRanges
    <3>3. QED
      BY <2>2, <3>1, <3>2
  <2>5. QED
    BY <2>3, <2>4 DEF Inside, Disjoint, Encloses
<1>5. QED
  BY <1>3, <1>4

(* A region is made for one more range of the clause. *)
LEMMA KnownPush ==
  ASSUME NEW rs, NEW rs2, NEW new, Pushed(rs, rs2, new), NEW R, Known(rs, R), NEW x, HasRange(rs2, Len(rs) + 1, x)
  PROVE  Known(rs2, R \cup {x})
<1>1. /\ Len(rs2) = Len(rs) + 1 /\ Len(rs) \in Nat
      /\ \A r \in Ids(rs) : rs2[r].Start = rs[r].Start /\ rs2[r].End = rs[r].End
  BY DEF Pushed, Same
<1>2. ASSUME NEW r \in 2 .. Len(rs2) PROVE \E y : HasRange(rs2, r, y) /\ (y \in R \cup {x} \/ OldRange(y))
  <2>1. CASE r = Len(rs) + 1
    BY <2>1
  <2>2. CASE r # Len(rs) + 1
    <3>1. r \in 2 .. Len(rs) /\ r \in Ids(rs)
      BY <1>1, <2>2 DEF Ids
    <3>2. PICK y : HasRange(rs, r, y) /\ (y \in R \/ OldRange(y))
      BY <3>1 DEF Known
    <3>3. HasRange(rs2, r, y)
      BY <1>1, <3>1, <3>2 DEF HasRange
    <3>4. QED
      BY <3>2, <3>3
  <2>3. QED
    BY <2>1, <2>2
<1>3. QED
  BY <1>2 DEF Known

\* new is the region of range x of the clause, whose try has region p.
HandlerFor(new, x, p) ==
  /\ new \in RegionRecords /\ new.Parent = p /\ new.Children = <<>> /\ new.Start = x[1] /\ new.End = x[2]
  /\ \/ new.Kind = KindFor(Clause) /\ x = Handler(Clause)
     \/ new.Kind = "Filter" /\ Clause.Kind = "Filter" /\ x = Filter(Clause)

\* The tree while the regions of a clause are made.  R are the ranges that have theirs.
Stage(rs, R, p) ==
  /\ TreeOK(rs) /\ Known(rs, R) /\ R \in SUBSET Ranges(Clause)
  /\ Made(rs, I - 1) /\ Ordered(rs, I - 1)
  /\ p \in Ids(rs) /\ rs[p].Kind = "Try" /\ HasRange(rs, p, Try(Clause))
  /\ \A t \in Ids(rs) : rs[t].Kind = "Try" /\ t # p => EntryBut(rs, t, {})

(* The region of a handler or filter fits beside that of its try. *)
LEMMA HandlerFits ==
  ASSUME Inserting, NEW rs, NEW R, NEW p, Stage(rs, R, p), NEW x \in Handlers(Clause), x \notin R,
         NEW new, HandlerFor(new, x, p)
  PROVE  Fits(rs, new)
<1>1. Clause \in Clauses
  BY InsertFacts
<1>2. /\ x \in Ranges(Clause) /\ Disjoint(x, Try(Clause)) /\ x \in RangeSet
      /\ Try(Clause) \in Ranges(Clause) /\ Try(Clause) \in RangeSet
      /\ Clause.Kind \in {"Catch", "Filter", "Finally", "Fault"}
  BY <1>1, ClauseRanges
<1>3. TreeOK(rs) /\ Known(rs, R) /\ R \in SUBSET Ranges(Clause) /\ p \in Ids(rs) /\ rs[p].Kind = "Try"
      /\ HasRange(rs, p, Try(Clause))
  BY DEF Stage
<1>4. /\ new \in RegionRecords /\ new.Parent = p /\ new.Children = <<>> /\ new.Start = x[1] /\ new.End = x[2]
      /\ new.Kind \in HandlerKinds /\ new.Kind # "Root" /\ new.Kind # "Try"
  BY <1>2 DEF HandlerFor, KindFor, HandlerKinds
<1>5. x[1] \in Nat /\ x[2] \in Nat /\ x[1] < x[2] /\ x[2] <= CodeSize
  BY <1>2, RangeFacts
<1>6. ASSUME NEW r \in Ids(rs)
      PROVE  /\ ~(x[1] <= rs[r].Start /\ rs[r].End <= x[2])
             /\ Encloses(rs, r, x) \/ rs[r].End <= x[1] \/ x[2] <= rs[r].Start
             /\ Encloses(rs, r, x) => \A z \in Ranges(Clause) : Encloses(rs, r, z)
  <2>1. ~HasRange(rs, r, x)
    BY <1>3, NoHandlerYet
  <2>2. QED
    BY <1>2, <1>3, <2>1, NewRange
<1>7. \A r \in Ids(rs) : /\ EnclosesNew(rs, r, new) <=> Encloses(rs, r, x)
                         /\ In2(rs, p, r) <=> Encloses(rs, r, Try(Clause))
  BY <1>3, <1>4 DEF EnclosesNew, Encloses, In2, HasRange
<1>8. ASSUME NEW s \in Ids(rs), EnclosesNew(rs, s, new) PROVE s # p /\ In2(rs, p, s)
  <2>1. Encloses(rs, s, x) /\ Encloses(rs, s, Try(Clause))
    BY <1>2, <1>6, <1>7, <1>8
  <2>2. s # p
    <3>1. Encloses(rs, p, x) => Inside(x, Try(Clause))
      BY <1>3 DEF Encloses, HasRange, Inside
    <3>2. ~Inside(x, Try(Clause))
      BY <1>2, RangeFacts
    <3>3. QED
      BY <2>1, <3>1, <3>2
  <2>3. QED
    BY <1>7, <2>1, <2>2
<1>9. ASSUME NEW s \in Ids(rs), s # p, In2(rs, p, s) PROVE EnclosesNew(rs, s, new)
  <2>1. ~HasRange(rs, s, Try(Clause))
    <3> SUFFICES ASSUME HasRange(rs, s, Try(Clause)) PROVE FALSE
      OBVIOUS
    <3>1. rs[s].Start = rs[p].Start /\ rs[s].End = rs[p].End /\ rs[s].Start \in Nat /\ rs[s].End \in Nat
      BY <1>3, IdFacts DEF HasRange, TreeOK
    <3>2. In2(rs, s, p)
      BY <3>1 DEF In2
    <3>3. QED
      BY <1>3, <1>9, <3>2, In2Facts
  <2>2. Encloses(rs, s, Try(Clause))
    BY <1>7, <1>9
  <2>3. Encloses(rs, s, x)
    BY <1>2, <1>3, <2>1, <2>2, NewRange
  <2>4. QED
    BY <1>7, <2>3
<1>10. \A r \in Ids(rs) : EnclosesNew(rs, r, new) \/ ApartNew(rs, r, new)
  BY <1>4, <1>6, <1>7 DEF ApartNew
<1>11. QED
  BY <1>3, <1>4, <1>5, <1>6, <1>8, <1>9, <1>10 DEF Fits

(* A handler region belongs to its clause alone. *)
LEMMA HandlerIsOf ==
  ASSUME Inserting, NEW rs, NEW r, NEW x \in Handlers(Clause), HasRange(rs, r, x),
         NEW a \in I .. NumClauses, HandlerOf(rs, r, EIT[ClauseList[a]])
  PROVE  a = I
<1>1. /\ I \in 1 .. NumClauses /\ NumClauses \in Nat /\ ClauseList[I] \in 1 .. NumClauses
      /\ Clause \in Clauses /\ Clause = EIT[ClauseList[I]] /\ ClausesOK
  BY InsertFacts
<1>2. a \in 1 .. NumClauses
  BY <1>1
<1>3. PICK k : k = ClauseList[a]
  OBVIOUS
<1>4. k \in 1 .. NumClauses
  BY <1>2, <1>3 DEF Inserting, TreeInv, Sorted
<1>5. EIT[k] \in Clauses
  BY <1>1, <1>4, ClausePairs
<1>6. PICK y \in Handlers(EIT[k]) : HasRange(rs, r, y)
  <2>1. /\ Handler(EIT[k]) \in Handlers(EIT[k])
        /\ EIT[k].Kind = "Filter" => Filter(EIT[k]) \in Handlers(EIT[k])
    BY <1>5, ClauseRanges
  <2>2. \/ HasRange(rs, r, Handler(EIT[k]))
        \/ EIT[k].Kind = "Filter" /\ HasRange(rs, r, Filter(EIT[k]))
    BY <1>3, Zenon DEF HandlerOf
  <2>3. QED
    BY <2>1, <2>2, Zenon
<1>7. /\ x \in Ranges(Clause) /\ x \in RangeSet /\ Disjoint(x, Try(Clause))
      /\ y \in Ranges(EIT[k]) /\ y \in RangeSet
  BY <1>1, <1>5, ClauseRanges
<1>8. y = x
  BY <1>6, <1>7, RangeFacts DEF HasRange
<1>9. Try(EIT[k]) = Try(Clause) /\ (x = Try(EIT[k]) \/ k = ClauseList[I])
  BY <1>1, <1>4, <1>7, <1>8, RangePairs
<1>10. x # Try(Clause)
  BY <1>7, RangeFacts
<1>11. QED
  BY <1>1, <1>2, <1>3, <1>9, <1>10 DEF Inserting, TreeInv, Sorted

(* One more region is made. *)
LEMMA StageHandler ==
  ASSUME Inserting, NEW rs, NEW R, NEW p, Stage(rs, R, p), NEW x \in Handlers(Clause), x \notin R,
         NEW new, HandlerFor(new, x, p), NEW rs2, Pushed(rs, rs2, new)
  PROVE  Stage(rs2, R \cup {x}, p)
<1> DEFINE n == Len(rs) + 1
<1>1. /\ I \in 1 .. NumClauses /\ NumClauses \in Nat
      /\ Clause \in Clauses /\ Clause = EIT[ClauseList[I]]
  BY InsertFacts
<1>2. /\ x \in Ranges(Clause) /\ Clause.Kind \in {"Catch", "Filter", "Finally", "Fault"}
  BY <1>1, ClauseRanges
<1>3. TreeOK(rs) /\ Known(rs, R) /\ R \in SUBSET Ranges(Clause) /\ p \in Ids(rs) /\ rs[p].Kind = "Try"
      /\ HasRange(rs, p, Try(Clause)) /\ Made(rs, I - 1) /\ Ordered(rs, I - 1)
      /\ \A t \in Ids(rs) : rs[t].Kind = "Try" /\ t # p => EntryBut(rs, t, {})
  BY DEF Stage
<1>4. /\ new \in RegionRecords /\ new.Parent = p /\ new.Children = <<>> /\ new.Start = x[1] /\ new.End = x[2]
      /\ new.Kind \in HandlerKinds /\ new.Kind # "Root" /\ new.Kind # "Try"
  BY <1>2 DEF HandlerFor, KindFor, HandlerKinds
<1>5. TreeOK(rs2)
  BY <1>3, HandlerFits, PushTree
<1>6. /\ \A r \in Ids(rs) : Same(rs, rs2, r) /\ r \in Ids(rs2)
      /\ rs2[n] = new /\ \A r \in Ids(rs2) : r \in Ids(rs) \/ r = n
  <2>1. (\A r \in Ids(rs) : Same(rs, rs2, r)) /\ rs2[n] = new
    BY DEF Pushed
  <2>2. QED
    BY <2>1, PushedIds
<1>7. HasRange(rs2, n, x)
  BY <1>4, <1>6 DEF HasRange
<1>8. rs2[p].Kind = "Try" /\ HasRange(rs2, p, Try(Clause)) /\ p \in Ids(rs2)
  BY <1>3, <1>6 DEF Same, HasRange
<1>9. Known(rs2, R \cup {x}) /\ R \cup {x} \in SUBSET Ranges(Clause)
  BY <1>2, <1>3, <1>7, KnownPush
<1>10. Made(rs2, I - 1)
  <2>1. HandlerOf(rs2, n, Clause)
    BY <1>4, <1>6, <1>7, <1>8 DEF HandlerOf, HandlerFor
  <2>2. I \in (I - 1) + 1 .. NumClauses
    BY <1>1
  <2>3. RegionOf(rs2, n, EIT[ClauseList[I]])
    BY <1>1, <2>1 DEF RegionOf
  <2>4. Rooted(rs)
    BY <1>3 DEF TreeOK
  <2>5. QED
    BY <1>3, <2>2, <2>3, <2>4, PushMade
<1>11. Ordered(rs2, I - 1)
  <2>1. I - 1 \in Nat /\ (I - 1) + 1 = I
    BY <1>1
  <2>2. \A a \in (I - 1) + 1 .. NumClauses : HandlerOf(rs2, n, EIT[ClauseList[a]]) => a = (I - 1) + 1
    BY <1>7, <2>1, HandlerIsOf
  <2>3. QED
    BY <1>3, <1>4, <2>1, <2>2, PushOrdered
<1>12. ASSUME NEW t \in Ids(rs2), rs2[t].Kind = "Try", t # p PROVE EntryBut(rs2, t, {})
  <2>1. t \in Ids(rs) /\ rs[t].Kind = "Try"
    BY <1>4, <1>6, <1>12 DEF Same
  <2>2. EntryBut(rs, t, {})
    BY <1>3, <1>12, <2>1
  <2>3. QED
    BY <1>4, <1>12, <2>1, <2>2, PushEntry
<1>13. QED
  BY <1>5, <1>8, <1>9, <1>10, <1>11, <1>12 DEF Stage

(* What is known of the regions of the clauses stays true with other entries or pads. *)
LEMMA SameMade ==
  ASSUME NEW rs, NEW rs2, TreeOK(rs), SameTree(rs, rs2), NEW m
  PROVE  /\ Made(rs, m) => Made(rs2, m)
         /\ Ordered(rs, m) => Ordered(rs2, m)
         /\ \A R : Known(rs, R) => Known(rs2, R)
<1>1. /\ Len(rs2) = Len(rs) /\ Ids(rs2) = Ids(rs) /\ SameRanges(rs, rs2) /\ Rooted(rs)
      /\ \A r \in Ids(rs) : rs2[r].Children = rs[r].Children
  BY DEF SameTree, Ids, SameRanges, TreeOK
<1>2. \A r \in 2 .. Len(rs) : r \in Ids(rs) /\ r # 1
  BY <1>1 DEF Ids, Rooted
<1>3. ASSUME Made(rs, m) PROVE Made(rs2, m)
  <2>1. ASSUME NEW r \in 2 .. Len(rs)
        PROVE  \E a \in m + 1 .. NumClauses : RegionOf(rs2, r, EIT[ClauseList[a]])
    <3>1. PICK a \in m + 1 .. NumClauses : RegionOf(rs, r, EIT[ClauseList[a]])
      BY <1>3 DEF Made
    <3>2. RegionOf(rs2, r, EIT[ClauseList[a]])
      BY <1>1, <1>2, <3>1, RegionOfKept
    <3>3. QED
      BY <3>2
  <2>2. QED
    BY <1>1, <2>1 DEF Made
<1>4. ASSUME Ordered(rs, m) PROVE Ordered(rs2, m)
  <2>1. ASSUME NEW t \in Ids(rs), NEW k \in 1 .. Len(rs[t].Children), NEW x, x = rs[t].Children[k], NEW c
        PROVE  HandlerOf(rs2, x, c) <=> HandlerOf(rs, x, c)
    <3>1. x \in Ids(rs) /\ rs[x].Parent = t /\ t \in Nat /\ t >= 1
      BY <1>1, <2>1, IdFacts DEF TreeOK, Linked
    <3>2. x # 1
      BY <1>1, <3>1 DEF Rooted
    <3>3. QED
      BY <1>1, <3>1, <3>2, RegionOfKept
  <2>2. ASSUME NEW t \in Ids(rs2), NEW k \in 1 .. Len(rs2[t].Children), NEW l \in 1 .. Len(rs2[t].Children), k < l,
               NEW a \in m + 1 .. NumClauses, NEW b \in m + 1 .. NumClauses,
               HandlerOf(rs2, rs2[t].Children[k], EIT[ClauseList[a]]),
               HandlerOf(rs2, rs2[t].Children[l], EIT[ClauseList[b]])
        PROVE  a <= b
    <3>1. t \in Ids(rs) /\ rs2[t].Children = rs[t].Children
      BY <1>1
    <3>2. /\ HandlerOf(rs, rs[t].Children[k], EIT[ClauseList[a]])
          /\ HandlerOf(rs, rs[t].Children[l], EIT[ClauseList[b]])
      BY <2>1, <2>2, <3>1
    <3>3. QED
      BY <1>4, <2>2, <3>1, <3>2, Zenon DEF Ordered
  <2>3. QED
    BY <2>2 DEF Ordered
<1>5. ASSUME NEW R, Known(rs, R) PROVE Known(rs2, R)
  BY <1>1, <1>2, <1>5 DEF Known, HasRange, SameRanges
<1>6. QED
  BY <1>3, <1>4, <1>5

\* The region of the clause's try, where there is none yet.
NewTry == newRegion("Try", search, Try(Clause))

(* It fits in the region that was found. *)
LEMMA TryFits ==
  ASSUME Inserting, ~(IsTry(search) /\ <<regions[search].Start, regions[search].End>> = Try(Clause))
  PROVE  Fits(regions, NewTry)
<1> DEFINE x == Try(Clause)
           rs == regions
<1>1. /\ Clause \in Clauses /\ TreeOK(regions) /\ search \in Ids(regions)
      /\ Encloses(regions, search, x)
      /\ \A s \in Ids(regions) : Encloses(regions, s, x) => In2(regions, search, s)
  BY InsertFacts
<1>2. x \in RangeSet /\ x \in Ranges(Clause)
  BY <1>1, ClauseRanges
<1>3. /\ x[1] \in Nat /\ x[2] \in Nat /\ x[1] < x[2] /\ x[2] <= CodeSize
      /\ x = <<x[1], x[2]>>
  BY <1>2, RangeFacts DEF RangeSet
<1> HIDE DEF x
<1>4. /\ NewTry.Kind = "Try" /\ NewTry.Parent = search /\ NewTry.Children = <<>>
      /\ NewTry.Start = x[1] /\ NewTry.End = x[2]
  BY DEF NewTry, newRegion, x
<1>5. NewTry \in RegionRecords
  <2>1. search \in Nat
    BY <1>1, IdFacts DEF TreeOK
  <2>2. QED
    BY <1>3, <2>1 DEF NewTry, newRegion, RegionRecords, x
<1>6. ASSUME NEW r \in Ids(rs) PROVE ~HasRange(rs, r, x)
  <2> SUFFICES ASSUME HasRange(rs, r, x) PROVE FALSE
    OBVIOUS
  <2>1. Encloses(rs, r, x)
    BY <1>3 , HasRange(rs, r, x) DEF Encloses, HasRange
  <2>2. In2(rs, search, r)
    BY <1>1, <2>1
  <2>3. In2(rs, r, search)
    BY <1>1, HasRange(rs, r, x) DEF In2, Encloses, HasRange
  <2>4. r = search
    BY <1>1, <2>2, <2>3, In2Facts
  <2>5. <<regions[search].Start, regions[search].End>> = x
    BY <1>3, <2>4, HasRange(rs, r, x) DEF HasRange
  <2>6. ~IsTry(search)
    BY <2>5 DEF x
  <2>7. search # 1
    BY <1>1, <1>2, <2>4, HasRange(rs, r, x), OwnRanges, SizeAssumption DEF HasRange, TreeOK, Rooted
  <2>8. search \in 2 .. Len(regions)
    BY <1>1, <2>7, IdFacts DEF TreeOK
  <2>9. PICK a \in I + 1 .. NumClauses : RegionOf(regions, search, EIT[ClauseList[a]])
    BY <2>8 DEF Inserting, TreeInv, Made
  <2>10. PICK k : k = ClauseList[a]
    OBVIOUS
  <2>11. k \in 1 .. NumClauses /\ ClausesOK /\ ClauseList[I] \in 1 .. NumClauses /\ Clause = EIT[ClauseList[I]]
    <3>1. I \in 1 .. NumClauses /\ NumClauses \in Nat
      BY InsertFacts
    <3>2. a \in 1 .. NumClauses
      BY <3>1
    <3>3. QED
      BY <2>10, <3>2, InsertFacts DEF Inserting, TreeInv, Sorted
  <2>12. EIT[k] \in Clauses
    BY <2>11, ClausePairs
  <2>13. HandlerOf(regions, search, EIT[k])
    BY <2>6, <2>9, <2>10 DEF RegionOf, IsTry
  <2>14. PICK y \in Handlers(EIT[k]) : HasRange(rs, search, y)
    <3>1. /\ Handler(EIT[k]) \in Handlers(EIT[k])
          /\ EIT[k].Kind = "Filter" => Filter(EIT[k]) \in Handlers(EIT[k])
      BY <2>12, ClauseRanges
    <3>2. \/ HasRange(rs, search, Handler(EIT[k]))
          \/ EIT[k].Kind = "Filter" /\ HasRange(rs, search, Filter(EIT[k]))
      BY <2>13, Zenon DEF HandlerOf
    <3>3. QED
      BY <3>1, <3>2, Zenon
  <2>15. y \in RangeSet /\ y \in Ranges(EIT[k]) /\ Disjoint(y, Try(EIT[k]))
    BY <2>12, ClauseRanges
  <2>16. y = x
    BY <1>2, <2>4, <2>14, <2>15, HasRange(rs, r, x), RangeFacts DEF HasRange
  <2>17. Try(EIT[k]) = Try(Clause)
    BY <1>2, <2>11, <2>15, <2>16, RangePairs
  <2>18. QED
    BY <2>15, <2>16, <2>17, RangeFacts DEF x
<1>7. Known(rs, {}) /\ {} \in SUBSET Ranges(Clause)
  BY KnownAtFirst
<1>8. ASSUME NEW r \in Ids(rs)
      PROVE  /\ ~(x[1] <= rs[r].Start /\ rs[r].End <= x[2])
             /\ Encloses(rs, r, x) \/ rs[r].End <= x[1] \/ x[2] <= rs[r].Start
  BY <1>1, <1>2, <1>6, <1>7, NewRange
<1>9. \A r \in Ids(rs) : EnclosesNew(rs, r, NewTry) <=> Encloses(rs, r, x)
  BY <1>4 DEF EnclosesNew, Encloses
<1>10. \A r \in Ids(rs) : EnclosesNew(rs, r, NewTry) \/ ApartNew(rs, r, NewTry)
  BY <1>4, <1>8, <1>9 DEF ApartNew
<1>11. NewTry.Kind \notin HandlerKinds /\ NewTry.Kind # "Root"
  BY <1>4 DEF HandlerKinds
<1>12. QED
  BY <1>1, <1>3, <1>4, <1>5, <1>8, <1>9, <1>10, <1>11 DEF Fits

(* Before a region of the clause is made. *)
LEMMA BeforeClause ==
  ASSUME Inserting
  PROVE  Known(regions, {Try(Clause)}) /\ Made(regions, I - 1) /\ Ordered(regions, I - 1)
<1>1. /\ I \in 1 .. NumClauses /\ NumClauses \in Nat /\ Clause = EIT[ClauseList[I]] /\ Clause \in Clauses
      /\ TreeOK(regions)
  BY InsertFacts
<1>2. Known(regions, {})
  BY KnownAtFirst
<1>3. Known(regions, {Try(Clause)})
  BY <1>2 DEF Known
<1>4. (I - 1) + 1 .. NumClauses = I .. NumClauses /\ I + 1 .. NumClauses \subseteq I .. NumClauses
  BY <1>1
<1>5. Made(regions, I - 1)
  BY <1>4 DEF Inserting, TreeInv, Made
<1>6. ASSUME NEW t \in Ids(regions), NEW k \in 1 .. Len(regions[t].Children),
             NEW a \in I .. NumClauses, HandlerOf(regions, regions[t].Children[k], EIT[ClauseList[a]])
      PROVE  a \in I + 1 .. NumClauses
  <2>1. PICK x : x = regions[t].Children[k]
    OBVIOUS
  <2>2. x \in Ids(regions)
    BY <1>1, <2>1 DEF TreeOK, Linked
  <2>3. a # I
    <3> SUFFICES ASSUME a = I PROVE FALSE
      OBVIOUS
    <3>1. HandlerOf(regions, x, Clause)
      BY <1>1, <1>6, <2>1
    <3>2. /\ Handler(Clause) \in Handlers(Clause)
          /\ Clause.Kind = "Filter" => Filter(Clause) \in Handlers(Clause)
      BY <1>1, ClauseRanges
    <3>3. PICK y \in Handlers(Clause) : HasRange(regions, x, y)
      BY <3>1, <3>2, Zenon DEF HandlerOf
    <3>4. {} \in SUBSET Ranges(Clause) /\ y \notin {}
      OBVIOUS
    <3>5. QED
      BY <1>1, <1>2, <2>2, <3>3, <3>4, NoHandlerYet
  <2>4. QED
    BY <1>1, <2>3
<1>7. Ordered(regions, I - 1)
  <2>1. ASSUME NEW t \in Ids(regions), NEW k \in 1 .. Len(regions[t].Children),
               NEW l \in 1 .. Len(regions[t].Children), k < l,
               NEW a \in I .. NumClauses, NEW b \in I .. NumClauses,
               HandlerOf(regions, regions[t].Children[k], EIT[ClauseList[a]]),
               HandlerOf(regions, regions[t].Children[l], EIT[ClauseList[b]])
        PROVE  a <= b
    <3>1. a \in I + 1 .. NumClauses /\ b \in I + 1 .. NumClauses
      BY <1>6, <2>1
    <3>2. Ordered(regions, I)
      BY DEF Inserting, TreeInv
    <3>3. QED
      BY <2>1, <3>1, <3>2, Zenon DEF Ordered
  <2>2. QED
    BY <1>4, <2>1 DEF Ordered
<1>8. QED
  BY <1>3, <1>5, <1>7

(* The try of the clause has its region. *)
LEMMA StageTry ==
  ASSUME Inserting, NEW rs1, rs1 = tryRegion.rs, NEW p, p = tryRegion.try
  PROVE  /\ Stage(rs1, {Try(Clause)}, p) /\ EntryBut(rs1, p, {}) /\ Filters(rs1)
         /\ \A r \in Ids(rs1) : rs1[r].HandlerRegion # Len(rs1) + 1
<1>1. /\ I \in 1 .. NumClauses /\ NumClauses \in Nat /\ Clause = EIT[ClauseList[I]] /\ Clause \in Clauses
      /\ TreeOK(regions) /\ search \in Ids(regions)
  BY InsertFacts
<1>2. Known(regions, {Try(Clause)}) /\ Made(regions, I - 1) /\ Ordered(regions, I - 1)
  BY BeforeClause
<1>3. Entries(regions) /\ Filters(regions)
  BY DEF Inserting, TreeInv
<1>4. \A t \in Ids(regions) : regions[t].Kind = "Try" => EntryBut(regions, t, {})
  BY <1>3 DEF Entries, EntryBut
<1>5. {Try(Clause)} \in SUBSET Ranges(Clause) /\ Try(Clause) \in RangeSet
  BY <1>1, ClauseRanges
<1>6. Stage(rs1, {Try(Clause)}, p) /\ EntryBut(rs1, p, {}) /\ Filters(rs1)
  <2>1. CASE IsTry(search) /\ <<regions[search].Start, regions[search].End>> = Try(Clause)
    <3>1. rs1 = regions /\ p = search
      BY <2>1 DEF tryRegion
    <3>2. HasRange(regions, search, Try(Clause))
      BY <2>1 DEF HasRange
    <3>3. QED
      BY <1>1, <1>2, <1>3, <1>4, <1>5, <2>1, <3>1, <3>2 DEF Stage, IsTry
  <2>2. CASE ~(IsTry(search) /\ <<regions[search].Start, regions[search].End>> = Try(Clause))
    <3> DEFINE n == Len(regions) + 1
    <3>1. PICK rsA : rsA = push(regions, NewTry)
      OBVIOUS
    <3>2. rs1 = Enter(rsA, n, n) /\ p = n
      BY <2>2, <3>1 DEF tryRegion, Enter, NewTry
    <3>3. Fits(regions, NewTry)
      BY <2>2, TryFits
    <3>4. regions \in Seq(RegionRecords) /\ Rooted(regions)
      BY <1>1 DEF TreeOK, Rooted
    <3>5. Pushed(regions, rsA, NewTry)
      <4>1. NewTry \in RegionRecords /\ NewTry.Parent \in Ids(regions)
        BY <3>3 DEF Fits
      <4> HIDE DEF NewTry
      <4>2. QED
        BY <3>1, <3>4, <4>1, PushIs
    <3>6. TreeOK(rsA)
      BY <1>1, <3>3, <3>5, PushTree
    <3>7. /\ NewTry.Kind = "Try" /\ NewTry.Start = Try(Clause)[1] /\ NewTry.End = Try(Clause)[2]
          /\ NewTry.HandlerRegion = 0 /\ NewTry.Parent = search /\ NewTry.Children = <<>>
      BY DEF NewTry, newRegion
    <3> HIDE DEF NewTry
    <3>8. /\ n \in Ids(rsA) /\ n \notin Ids(regions) /\ n \in Nat
          /\ \A r \in Ids(regions) : r \in Ids(rsA) /\ r # n
          /\ \A r \in Ids(rsA) : r \in Ids(regions) \/ r = n
      BY <3>5, PushedIds
    <3>9. rsA[n] = NewTry /\ \A r \in Ids(regions) : Same(regions, rsA, r)
      BY <3>5 DEF Pushed
    <3> HIDE DEF n
    <3>10. HasRange(rsA, n, Try(Clause)) /\ rsA[n].Kind = "Try"
      BY <3>7, <3>9 DEF HasRange
    <3>11. n # 1
      BY <3>6, <3>8, <3>10, IdFacts DEF TreeOK
    <3>12. Known(rsA, {Try(Clause)})
      <4>1. Known(rsA, {Try(Clause)} \cup {Try(Clause)})
        BY <1>2, <3>5, <3>10, KnownPush DEF n
      <4>2. QED
        BY <4>1
    <3>13. Made(rsA, I - 1)
      <4>1. I \in (I - 1) + 1 .. NumClauses
        BY <1>1
      <4>2. RegionOf(rsA, n, EIT[ClauseList[I]])
        BY <1>1, <3>10 DEF RegionOf
      <4>3. QED
        BY <1>2, <3>4, <3>5, <4>1, <4>2, PushMade DEF n
    <3>14. Ordered(rsA, I - 1)
      <4>1. I - 1 \in Nat
        BY <1>1
      <4>2. ASSUME NEW a \in (I - 1) + 1 .. NumClauses PROVE ~HandlerOf(rsA, n, EIT[ClauseList[a]])
        <5>1. a \in 1 .. NumClauses
          BY <1>1
        <5>2. ClauseList[a] \in 1 .. NumClauses /\ ClausesOK
          BY <5>1 DEF Inserting, TreeInv, Sorted
        <5>3. EIT[ClauseList[a]] \in Clauses
          BY <5>2, ClausePairs
        <5>4. EIT[ClauseList[a]].Kind \in {"Catch", "Filter", "Finally", "Fault"}
          BY <5>3, ClauseRanges
        <5>5. KindFor(EIT[ClauseList[a]]) # "Try"
          BY <5>4 DEF KindFor
        <5>6. QED
          BY <3>10, <5>5 DEF HandlerOf
      <4>3. QED
        BY <1>1, <1>2, <3>5, <3>7, <4>1, <4>2, PushOrdered DEF n
    <3>15. ASSUME NEW t \in Ids(regions), rsA[t].Kind = "Try" PROVE EntryBut(rsA, t, {})
      <4>1. EntryBut(regions, t, {})
        BY <1>4, <3>9, <3>15 DEF Same
      <4>2. NewTry.Kind \notin HandlerKinds
        BY <3>7 DEF HandlerKinds
      <4>3. QED
        BY <3>5, <4>1, <4>2, PushEntry
    <3>16. Filters(rsA)
      BY <1>3, <3>5, <3>7, PushFilters
    <3>17. /\ SameTree(rsA, rs1) /\ rs1[n].EntryRegion = n
           /\ \A r \in Ids(rsA) : (r # n => rs1[r] = rsA[r]) /\ Same(rsA, rs1, r)
      BY <3>2, <3>6, <3>8, <3>11, EnterIs
    <3>18. TreeOK(rs1) /\ Ids(rs1) = Ids(rsA) /\ Filters(rs1)
      BY <3>6, <3>16, <3>17, SameTreeOK
    <3>19. Known(rs1, {Try(Clause)}) /\ Made(rs1, I - 1) /\ Ordered(rs1, I - 1)
      BY <3>6, <3>12, <3>13, <3>14, <3>17, SameMade
    <3>20. rs1[n].Kind = "Try" /\ HasRange(rs1, n, Try(Clause))
      BY <3>8, <3>10, <3>17 DEF Same, HasRange
    <3>21. EntryBut(rs1, n, {})
      <4>1. ASSUME NEW x \in Ids(rs1), Family(rs1, n, x) PROVE x = n
        <5> SUFFICES ASSUME x # n PROVE FALSE
          OBVIOUS
        <5>1. rs1[x].Parent = n /\ x \in Ids(regions)
          BY <3>8, <3>18, <4>1 DEF Family
        <5>2. regions[x].Parent = n
          BY <3>8, <3>9, <3>17, <5>1 DEF Same
        <5>3. n = 0 \/ n \in Ids(regions)
          BY <3>4, <5>1, <5>2, IdFacts DEF Rooted
        <5>4. n # 0
          BY <3>8 DEF Ids
        <5>5. QED
          BY <3>8, <5>3, <5>4
      <4>2. Family(rs1, n, n) /\ rs1[n].Start \in Nat
        BY <3>8, <3>18, IdFacts DEF Family, TreeOK
      <4>3. QED
        BY <3>8, <3>17, <3>18, <4>1, <4>2 DEF EntryBut
    <3>22. ASSUME NEW t \in Ids(rs1), rs1[t].Kind = "Try", t # n PROVE EntryBut(rs1, t, {})
      <4>1. t \in Ids(regions) /\ t \in Ids(rsA) /\ rs1[t] = rsA[t]
        BY <3>8, <3>17, <3>18, <3>22
      <4>2. EntryBut(rsA, t, {})
        BY <3>15, <3>22, <4>1
      <4>3. \A x \in Ids(rsA) : Family(rs1, t, x) <=> Family(rsA, t, x)
        BY <3>17 DEF Family, Same, Beside
      <4>4. QED
        BY <3>17, <3>18, <4>1, <4>2, <4>3 DEF EntryBut, Same
    <3>23. QED
      BY <1>5, <3>2, <3>8, <3>18, <3>19, <3>20, <3>21, <3>22 DEF Stage
  <2>3. QED
    BY <2>1, <2>2
<1>7. ASSUME NEW r \in Ids(rs1) PROVE rs1[r].HandlerRegion # Len(rs1) + 1
  <2>1. rs1[r].HandlerRegion \in Ids(rs1) \/ rs1[r].HandlerRegion = 0
    BY <1>6 DEF Filters
  <2>2. Len(rs1) \in Nat
    BY <1>6, IdFacts DEF Stage, TreeOK
  <2>3. QED
    BY <2>1, <2>2 DEF Ids
<1>8. QED
  BY <1>6, <1>7

(* All regions of the clause are made, but for where its try is entered. *)
LEMMA StageClause ==
  ASSUME Inserting, NEW rs1, rs1 = tryRegion.rs, NEW t, t = tryRegion.try,
         NEW new, new = newRegion(HandlerKind, t, Handler(Clause)), NEW rs2, rs2 = push(rs1, new),
         NEW f0, f0 = [newRegion("Filter", t, Filter(Clause)) EXCEPT !.HandlerRegion = Len(rs2)],
         NEW rs3, rs3 = IF Clause.Kind = "Filter" THEN push(rs2, f0) ELSE rs2
  PROVE  \E R, X : /\ Stage(rs3, R, t) /\ Filters(rs3) /\ EntryBut(rs3, t, X)
                   /\ Len(rs3) \in Ids(rs3) /\ Family(rs3, t, Len(rs3))
                   /\ \A x \in X : rs3[Len(rs3)].Start <= rs3[x].Start
<1>1. Clause \in Clauses
  BY InsertFacts
<1>2. /\ Clause.Kind \in {"Catch", "Filter", "Finally", "Fault"}
      /\ Handler(Clause) \in Handlers(Clause) /\ Handlers(Clause) \subseteq Ranges(Clause)
      /\ Clause.Kind = "Filter" =>
           Filter(Clause) \in Handlers(Clause) /\ Disjoint(Filter(Clause), Handler(Clause))
           /\ Filter(Clause)[1] < Handler(Clause)[1]
      /\ \A x \in Handlers(Clause) : Disjoint(x, Try(Clause)) /\ x \in RangeSet
  BY <1>1, ClauseRanges
<1>3. HandlerKind = KindFor(Clause)
  BY <1>2 DEF HandlerKind, KindFor
<1>4. /\ Stage(rs1, {Try(Clause)}, t) /\ EntryBut(rs1, t, {}) /\ Filters(rs1)
      /\ \A r \in Ids(rs1) : rs1[r].HandlerRegion # Len(rs1) + 1
  BY StageTry
<1>5. TreeOK(rs1) /\ Rooted(rs1) /\ rs1 \in Seq(RegionRecords) /\ t \in Ids(rs1) /\ t \in Nat /\ Len(rs1) \in Nat
  <2>1. TreeOK(rs1) /\ Rooted(rs1) /\ rs1 \in Seq(RegionRecords) /\ t \in Ids(rs1)
    BY <1>4 DEF Stage, TreeOK, Rooted
  <2>2. QED
    BY <2>1, IdFacts
<1>6. /\ new.Kind = KindFor(Clause) /\ new.Parent = t /\ new.Children = <<>> /\ new.HandlerRegion = 0
      /\ new.Start = Handler(Clause)[1] /\ new.End = Handler(Clause)[2]
  BY <1>3 DEF newRegion
<1>7. new \in RegionRecords
  <2>1. Handler(Clause)[1] \in Nat /\ Handler(Clause)[2] \in Nat
    BY <1>2, RangeFacts
  <2>2. KindFor(Clause) \in HandlerKinds
    BY <1>2 DEF KindFor, HandlerKinds
  <2>3. QED
    BY <1>3, <1>5, <2>1, <2>2 DEF newRegion, RegionRecords
<1>8. HandlerFor(new, Handler(Clause), t)
  BY <1>6, <1>7 DEF HandlerFor
<1>9. Pushed(rs1, rs2, new)
  BY <1>5, <1>6, <1>7, PushIs
<1>10. Handler(Clause) \notin {Try(Clause)}
  BY <1>2, RangeFacts
<1>11. Stage(rs2, {Try(Clause)} \cup {Handler(Clause)}, t)
  BY <1>2, <1>4, <1>8, <1>9, <1>10, StageHandler
<1>12. EntryBut(rs2, t, {} \cup {Len(rs1) + 1})
  BY <1>4, <1>5, <1>9, PushEntry
<1>13. Len(rs2) = Len(rs1) + 1 /\ rs2[Len(rs2)] = new /\ Len(rs2) \in Ids(rs2) /\ t \in Ids(rs2) /\ rs2 \in Seq(RegionRecords)
  <2>1. Len(rs2) = Len(rs1) + 1 /\ rs2[Len(rs1) + 1] = new /\ rs2 \in Seq(RegionRecords)
    BY <1>9 DEF Pushed
  <2>2. Len(rs1) + 1 \in Ids(rs2) /\ t \in Ids(rs2)
    BY <1>5, <1>9, PushedIds
  <2>3. QED
    BY <2>1, <2>2
<1>14. new.Kind \in HandlerKinds
  BY <1>2, <1>6 DEF KindFor, HandlerKinds
<1>15. CASE Clause.Kind # "Filter"
  <2>1. rs3 = rs2
    BY <1>15
  <2>2. new.Kind \notin {"Filter", "MExcept"}
    BY <1>2, <1>6, <1>15 DEF KindFor
  <2>3. Filters(rs2)
    BY <1>4, <1>6, <1>9, <2>2, PushFilters
  <2>4. Family(rs2, t, Len(rs2))
    BY <1>6, <1>13, <1>14 DEF Family, Beside
  <2>5. new.Start \in Nat
    BY <1>7 DEF RegionRecords
  <2>6. \A x \in {} \cup {Len(rs1) + 1} : rs2[Len(rs2)].Start <= rs2[x].Start
    BY <1>13, <2>5
  <2>7. QED
    BY <1>11, <1>12, <1>13, <2>1, <2>3, <2>4, <2>6
<1>16. CASE Clause.Kind = "Filter"
  <2>1. rs3 = push(rs2, f0)
    BY <1>16
  <2>2. /\ f0.Kind = "Filter" /\ f0.Parent = t /\ f0.Children = <<>> /\ f0.HandlerRegion = Len(rs2)
        /\ f0.Start = Filter(Clause)[1] /\ f0.End = Filter(Clause)[2]
    BY DEF newRegion
  <2>3. f0 \in RegionRecords
    <3>1. Filter(Clause)[1] \in Nat /\ Filter(Clause)[2] \in Nat
      BY <1>2, <1>16, RangeFacts
    <3>2. Len(rs2) \in Nat
      BY <1>13
    <3>3. PICK g : g = newRegion("Filter", t, Filter(Clause))
      OBVIOUS
    <3>4. g \in RegionRecords
      BY <1>5, <3>1, <3>3 DEF newRegion, RegionRecords, HandlerKinds
    <3>5. f0 = [g EXCEPT !.HandlerRegion = Len(rs2)]
      BY <3>3
    <3>6. QED
      BY <3>2, <3>4, <3>5 DEF RegionRecords
  <2>4. HandlerFor(f0, Filter(Clause), t)
    BY <1>16, <2>2, <2>3 DEF HandlerFor
  <2>5. Pushed(rs2, rs3, f0)
    <3>1. f0.Parent \in Ids(rs2)
      BY <1>13, <2>2
    <3>2. QED
      BY <1>13, <2>1, <2>3, <3>1, PushIs
  <2>6. Filter(Clause) \notin {Try(Clause)} \cup {Handler(Clause)}
    BY <1>2, <1>16, RangeFacts
  <2>7. Stage(rs3, ({Try(Clause)} \cup {Handler(Clause)}) \cup {Filter(Clause)}, t)
    BY <1>2, <1>11, <1>16, <2>4, <2>5, <2>6, StageHandler
  <2>8. EntryBut(rs3, t, ({} \cup {Len(rs1) + 1}) \cup {Len(rs2) + 1})
    BY <1>12, <1>13, <2>5, PushEntry
  <2>9. Filters(rs3)
    <3>1. new.Kind = "MExcept"
      BY <1>6, <1>16 DEF KindFor
    <3>2. /\ new.HandlerRegion = 0 /\ f0.Kind = "Filter" /\ f0.HandlerRegion = Len(rs1) + 1
          /\ f0.Parent = new.Parent
      BY <1>6, <1>13, <2>2
    <3>3. QED
      <4>1. BothPushed(rs1, rs2, rs3, new, f0)
        BY <1>4, <1>9, <2>5, <3>1, <3>2, Zenon DEF BothPushed
      <4>2. QED
        BY <4>1, PushBoth, Zenon
  <2>10. Len(rs3) = Len(rs2) + 1 /\ rs3[Len(rs3)] = f0 /\ Same(rs2, rs3, Len(rs2))
    BY <1>13, <2>5 DEF Pushed
  <2>11. Len(rs3) \in Ids(rs3)
    BY <2>5, <2>10, PushedIds
  <2>12. Family(rs3, t, Len(rs3))
    BY <2>2, <2>10 DEF Family, Beside, HandlerKinds
  <2>13. f0.Start <= new.Start /\ f0.Start <= f0.Start
    <3>1. f0.Start < new.Start
      BY <1>2, <1>6, <1>16, <2>2
    <3>2. f0.Start \in Nat /\ new.Start \in Nat
      BY <1>7, <2>3 DEF RegionRecords
    <3>3. QED
      BY <3>1, <3>2
  <2>14. \A x \in ({} \cup {Len(rs1) + 1}) \cup {Len(rs2) + 1} : rs3[Len(rs3)].Start <= rs3[x].Start
    <3>1. rs3[Len(rs2)].Start = new.Start
      BY <1>13, <2>10 DEF Same
    <3>2. ASSUME NEW x \in ({} \cup {Len(rs1) + 1}) \cup {Len(rs2) + 1} PROVE x = Len(rs2) \/ x = Len(rs3)
      <4>1. x = Len(rs1) + 1 \/ x = Len(rs2) + 1
        BY Zenon
      <4>2. QED
        BY <1>13, <2>10, <4>1
    <3>3. rs3[Len(rs3)].Start <= rs3[Len(rs2)].Start /\ rs3[Len(rs3)].Start <= rs3[Len(rs3)].Start
      BY <2>10, <2>13, <3>1
    <3>4. QED
      BY <3>2, <3>3, Zenon
  <2>15. QED
    BY <2>7, <2>8, <2>9, <2>11, <2>12, <2>14
<1>17. QED
  BY <1>15, <1>16

(* While no try has been entered, only the root unwinds anywhere. *)
LEMMA NothingEntered ==
  ASSUME NEW rs, TreeOK(rs)
  PROVE  PadsIn(rs, {}) /\ \A s \in Ids(rs) : In2(rs, 1, s) => s = 1
<1>1. Rooted(rs) /\ 1 \in Ids(rs) /\ rs[1].Kind = "Root" /\ rs[1].HandlerEHPad = 0
  BY DEF TreeOK, Rooted, Ids
<1>2. ASSUME NEW s \in Ids(rs), In2(rs, 1, s) PROVE s = 1
  <2>1. In2(rs, s, 1)
    BY In2Facts
  <2>2. QED
    BY <1>1, <1>2, <2>1, In2Facts
<1>3. \A r \in Ids(rs) : ReadyIn(rs, {}, r) => r = 1
  BY <1>1, IdFacts DEF ReadyIn
<1>4. ~Beside(rs, 1)
  BY <1>1, IdFacts
<1>5. InnermostTry(rs, 1, 0)
  BY <1>1, <1>2 DEF InnermostTry
<1>6. PadsIn(rs, {})
  BY <1>1, <1>3, <1>4, <1>5 DEF PadsIn
<1>7. QED
  BY <1>2, <1>6

(* The insertion of a clause keeps the invariant. *)
LEMMA InsertKeeps ==
  ASSUME IInv, insertClause
  PROVE  IInv'
<1> DEFINE rs1 == tryRegion.rs
           t == tryRegion.try
           new == newRegion(HandlerKind, t, Handler(Clause))
           rs2 == push(rs1, new)
           f0 == [newRegion("Filter", t, Filter(Clause)) EXCEPT !.HandlerRegion = Len(rs2)]
           rs3 == IF Clause.Kind = "Filter" THEN push(rs2, f0) ELSE rs2
<1>1. phase = "insert" /\ TreeInv /\ Inserting
  BY DEF insertClause, IInv, Inserting
<1>2. /\ regions' = (IF rs3[Len(rs3)].Start < rs3[rs3[t].EntryRegion].Start THEN Enter(rs3, t, Len(rs3)) ELSE rs3)
      /\ I' = I - 1 /\ search' = 1 /\ phase' = (IF I' = 0 THEN "switch" ELSE "find")
      /\ UNCHANGED <<EIT, ClauseList, J, CurrentOffset, CurrentRegion, NextRegionTransitionOffset, entered>>
  <2> DEFINE made == rs3
  <2>1. \E rs \in {made} :
           regions' = IF rs[Len(rs)].Start < rs[rs[t].EntryRegion].Start
                      THEN [rs EXCEPT ![t].EntryRegion = Len(rs)] ELSE rs
    BY Zenon DEF insertClause
  <2> HIDE DEF made, t
  <2>2. regions' = IF made[Len(made)].Start < made[made[t].EntryRegion].Start
                   THEN [made EXCEPT ![t].EntryRegion = Len(made)] ELSE made
    BY <2>1
  <2>3. regions' = IF made[Len(made)].Start < made[made[t].EntryRegion].Start
                   THEN Enter(made, t, Len(made)) ELSE made
    BY <2>2, Zenon DEF Enter
  <2>4. QED
    BY <2>3, Zenon DEF insertClause, made
<1>3. PICK R, X : /\ Stage(rs3, R, t) /\ Filters(rs3) /\ EntryBut(rs3, t, X)
                  /\ Len(rs3) \in Ids(rs3) /\ Family(rs3, t, Len(rs3))
                  /\ \A x \in X : rs3[Len(rs3)].Start <= rs3[x].Start
  <2> HIDE DEF rs1, t
  <2>1. rs1 = tryRegion.rs /\ t = tryRegion.try
    BY DEF rs1, t
  <2> HIDE DEF new
  <2>2. new = newRegion(HandlerKind, t, Handler(Clause))
    BY DEF new
  <2> HIDE DEF rs2
  <2>3. rs2 = push(rs1, new)
    BY DEF rs2
  <2> HIDE DEF f0
  <2>4. f0 = [newRegion("Filter", t, Filter(Clause)) EXCEPT !.HandlerRegion = Len(rs2)]
    BY DEF f0
  <2> HIDE DEF rs3
  <2>5. rs3 = IF Clause.Kind = "Filter" THEN push(rs2, f0) ELSE rs2
    BY DEF rs3
  <2>6. QED
    BY <1>1, <2>1, <2>2, <2>3, <2>4, <2>5, StageClause
<1> HIDE DEF rs3, t
<1>4. TreeOK(rs3) /\ t \in Ids(rs3) /\ rs3[t].Kind = "Try" /\ Made(rs3, I - 1) /\ Ordered(rs3, I - 1)
      /\ \A u \in Ids(rs3) : rs3[u].Kind = "Try" /\ u # t => EntryBut(rs3, u, {})
  BY <1>3 DEF Stage
<1>5. t # 1
  BY <1>4, IdFacts DEF TreeOK
<1>6. PICK rs4 : rs4 = IF rs3[Len(rs3)].Start < rs3[rs3[t].EntryRegion].Start THEN Enter(rs3, t, Len(rs3)) ELSE rs3
  OBVIOUS
<1>7. /\ SameTree(rs3, rs4) /\ EntryBut(rs4, t, {})
      /\ \A r \in Ids(rs3) : (r # t => rs4[r] = rs3[r]) /\ Same(rs3, rs4, r)
  BY <1>3, <1>4, <1>5, <1>6, LowEntry
<1>8. regions' = rs4
  BY <1>2, <1>6, Zenon
<1>9. TreeOK(rs4) /\ Ids(rs4) = Ids(rs3) /\ Filters(rs4)
  BY <1>3, <1>4, <1>7, SameTreeOK
<1>10. Made(rs4, I - 1) /\ Ordered(rs4, I - 1)
  BY <1>4, <1>7, SameMade
<1>11. Entries(rs4)
  <2>1. ASSUME NEW u \in Ids(rs3), rs4[u].Kind = "Try" PROVE EntryBut(rs4, u, {})
    <3>1. CASE u = t
      BY <1>7, <3>1
    <3>2. CASE u # t
      <4>1. rs4[u] = rs3[u] /\ EntryBut(rs3, u, {})
        BY <1>4, <1>7, <2>1, <3>2
      <4>2. \A x \in Ids(rs3) : Family(rs4, u, x) <=> Family(rs3, u, x)
        BY <1>7 DEF Family, Same, Beside
      <4>3. QED
        BY <1>7, <1>9, <4>1, <4>2 DEF EntryBut, Same
    <3>3. QED
      BY <3>1, <3>2
  <2>2. QED
    BY <1>9, <2>1 DEF Entries, EntryBut
<1>12. NumClauses' = NumClauses /\ I \in 1 .. NumClauses /\ NumClauses \in Nat /\ J = NumClauses + 1
       /\ CurrentOffset = 0 /\ CurrentRegion = 1 /\ entered = <<>>
  BY <1>1, <1>2, InsertFacts DEF NumClauses, TreeInv, BuildOK, Building
<1>13. ClausesOK' /\ Sorted'
  BY <1>1, <1>2, <1>12 DEF TreeInv, ClausesOK, Sorted, ClauseIn
<1>14. TreeOK(regions)' /\ Entries(regions)' /\ Filters(regions)' /\ Made(regions, I)' /\ Ordered(regions, I)'
  <2>1. TreeOK(regions') /\ Entries(regions') /\ Filters(regions')
    BY <1>8, <1>9, <1>11
  <2>2. Made(regions, I)'
    BY <1>2, <1>8, <1>10, <1>12 DEF Made
  <2>3. Ordered(regions, I)'
    BY <1>2, <1>8, <1>10, <1>12, SMTT(30) DEF Ordered
  <2>4. QED
    BY <2>1, <2>2, <2>3
<1>15. 1 \in Ids(regions') /\ regions'[1].Start = 0 /\ regions'[1].End = CodeSize /\ CodeSize > 0 /\ regions'[1].Kind = "Root"
  BY <1>14, SizeAssumption DEF TreeOK, Rooted, Ids
<1>16. I' \in 0 .. NumClauses
  BY <1>2, <1>12
<1>17. BuildOK'
  <2>1. CASE I' = 0
    <3>1. phase' = "switch"
      BY <1>2, <2>1
    <3>2. QED
      BY <1>2, <1>12, <1>15, <1>16, <3>1 DEF BuildOK, Building
  <2>2. CASE I' # 0
    <3>1. phase' = "find" /\ I' >= 1 /\ I' \in 1 .. NumClauses
      <4>1. phase' = "find"
        BY <1>2, <2>2
      <4>2. I' >= 1 /\ I' \in 1 .. NumClauses
        BY <1>12, <1>16, <2>2
      <4>3. QED
        BY <4>1, <4>2
    <3>2. Clause' \in Clauses
      <4>1. ClauseList[I'] \in 1 .. NumClauses
        BY <1>1, <3>1 DEF TreeInv, Sorted
      <4>2. EIT[ClauseList[I']] \in Clauses
        BY <1>1, <4>1, ClausePairs DEF TreeInv
      <4>3. QED
        BY <1>2, <4>2 DEF Clause
    <3>3. PICK c : c = Clause'
      OBVIOUS
    <3>4. Try(c) \in RangeSet
      BY <3>2, <3>3, ClauseRanges
    <3>5. Encloses(regions', 1, Try(c))
      BY <1>15, <3>4, RangeFacts DEF Encloses
    <3>6. Encloses(regions, search, Try(Clause))'
      BY <1>2, <3>3, <3>5 DEF Try
    <3>7. QED
      BY <1>2, <1>12, <1>15, <1>16, <3>1, <3>6 DEF BuildOK, Building
  <2>3. QED
    BY <2>1, <2>2
<1>18. PadsOK' /\ Entered' = {} /\ \A s \in Ids(regions') : In2(regions', 1, s) => s = 1
  <2>1. Entered' = {}
    BY <1>2, <1>12 DEF Entered
  <2>2. PICK rs : rs = regions'
    OBVIOUS
  <2>3. TreeOK(rs)
    BY <1>14, <2>2
  <2>4. PadsIn(rs, {}) /\ \A s \in Ids(rs) : In2(rs, 1, s) => s = 1
    BY <2>3, NothingEntered
  <2>5. QED
    BY <2>1, <2>2, <2>4 DEF PadsOK
<1>19. WalkOK'
  <2>1. CurrentOffset' = 0 /\ CurrentRegion' = 1 /\ entered' = <<>> /\ phase' # "instruction"
    BY <1>2, <1>12
  <2>2. Ready(1)'
    BY <1>15 DEF Ready, ReadyIn
  <2>3. \A s \in Ids(regions') : regions'[s].Start \in Nat
    BY <1>14, IdFacts DEF TreeOK
  <2>4. \A u \in Ids(regions') : regions'[u].Kind = "Try" => ~(regions'[regions'[u].EntryRegion].Start < 0)
    BY <1>14, <2>3 DEF Entries
  <2>5. \A s \in Ids(regions') : ~(regions'[s].Start < 0)
    BY <2>3
  <2>6. QED
    BY <1>15, <1>18, <2>1, <2>2, <2>4, <2>5 DEF WalkOK
<1>20. QED
  BY <1>13, <1>14, <1>17, <1>18, <1>19 DEF IInv, TreeInv

-----------------------------------------------------------------------------
(* The walk: what getInnerEnclosingRegion finds. *)

Hits(o) == {x \in 1 .. Len(regions) : Contains(x, o)}
FoundIn(c, o) == IF c \in Hits(o) THEN c ELSE IF IsTry(c) THEN FirstOf(Children(c), Hits(o)) ELSE 0

(* What the loop finds at one child. *)
LEMMA FoundFacts ==
  ASSUME TreeOK(regions), NEW c \in Ids(regions), NEW o
  PROVE  /\ FoundIn(c, o) # 0 =>
              /\ FoundIn(c, o) \in Ids(regions) /\ Around2(regions, FoundIn(c, o), o)
              /\ \/ FoundIn(c, o) = c
                 \/ ~Around2(regions, c, o) /\ regions[c].Kind = "Try" /\ regions[FoundIn(c, o)].Parent = c
         /\ FoundIn(c, o) = 0 =>
              /\ ~Around2(regions, c, o)
              /\ regions[c].Kind = "Try" =>
                   \A y \in Ids(regions) : regions[y].Parent = c => ~Around2(regions, y, o)
<1>1. \A x : x \in Hits(o) <=> x \in Ids(regions) /\ Around2(regions, x, o)
  BY DEF Hits, Ids, Contains, Around2
<1>2. c # 0 /\ \A x \in Hits(o) : x # 0
  BY <1>1 DEF Ids
<1>3. CASE c \in Hits(o)
  <2>1. FoundIn(c, o) = c
    BY <1>3 DEF FoundIn
  <2>2. QED
    BY <1>1, <1>2, <1>3, <2>1
<1>4. CASE c \notin Hits(o) /\ ~IsTry(c)
  <2>1. FoundIn(c, o) = 0 /\ regions[c].Kind # "Try"
    BY <1>4 DEF FoundIn, IsTry
  <2>2. QED
    BY <1>1, <1>4, <2>1
<1>5. CASE c \notin Hits(o) /\ IsTry(c)
  <2>1. FoundIn(c, o) = FirstOf(Children(c), Hits(o)) /\ regions[c].Kind = "Try"
    BY <1>5 DEF FoundIn, IsTry
  <2>2. /\ Children(c) \in Seq(Nat)
        /\ \A k \in 1 .. Len(Children(c)) : regions[Children(c)[k]].Parent = c
        /\ \A y \in Ids(regions) : regions[y].Parent = c => \E k \in 1 .. Len(Children(c)) : Children(c)[k] = y
    BY ChildFacts
  <2>3. CASE \E k \in 1 .. Len(Children(c)) : Children(c)[k] \in Hits(o)
    <3>1. PICK k \in 1 .. Len(Children(c)) : Children(c)[k] \in Hits(o) /\ FoundIn(c, o) = Children(c)[k]
      BY <2>1, <2>2, <2>3, FirstOfFound
    <3>2. FoundIn(c, o) \in Hits(o) /\ regions[FoundIn(c, o)].Parent = c
      BY <2>2, <3>1
    <3>3. QED
      BY <1>1, <1>2, <1>5, <2>1, <3>2
  <2>4. CASE \A k \in 1 .. Len(Children(c)) : Children(c)[k] \notin Hits(o)
    <3>1. FoundIn(c, o) = 0
      BY <2>1, <2>2, <2>4, FirstOfFound
    <3>2. QED
      BY <1>1, <1>5, <2>2, <2>4, <3>1
  <2>5. QED
    BY <2>3, <2>4
<1>6. QED
  BY <1>3, <1>4, <1>5

\* x is around the offset and just below r.
Inner(rs, r, o, x) ==
  /\ x \in Ids(rs) /\ Around2(rs, x, o) /\ Below(rs, r, x)
  /\ x # r /\ In2(rs, x, r) /\ x > r

(* A region just below r lies in it, and has a greater number. *)
LEMMA BelowIsIn ==
  ASSUME NEW rs, TreeOK(rs), NEW r \in Ids(rs), NEW x \in Ids(rs), Below(rs, r, x)
  PROVE  /\ x # r /\ In2(rs, x, r) /\ x > r /\ ~In2(rs, r, x)
         /\ \A s \in Ids(rs) : In2(rs, x, s) /\ s # x => In2(rs, r, s)
<1>1. x \in Nat /\ r \in Nat
  BY IdFacts DEF TreeOK
<1>2. CASE rs[x].Kind = "Try" /\ rs[x].Parent = r
  <2>1. r < x /\ In2(rs, x, r) /\ \A s \in Ids(rs) : In2(rs, x, s) /\ s # x => In2(rs, r, s)
    BY <1>2, TryFacts
  <2>2. QED
    BY <1>1, <2>1, In2Facts
<1>3. CASE Beside(rs, x) /\ rs[rs[x].Parent].Parent = r
  <2>1. r < x /\ In2(rs, x, r) /\ \A s \in Ids(rs) : In2(rs, x, s) /\ s # x => In2(rs, r, s)
    BY <1>3, HandlerFacts
  <2>2. QED
    BY <1>1, <2>1, In2Facts
<1>4. QED
  BY <1>2, <1>3 DEF Below

(* The region found is around the offset and just below r; if none is found, no region near r *)
(* is around the offset. *)
LEMMA InnerFacts ==
  ASSUME TreeOK(regions), NEW r \in Ids(regions), NEW o \in Nat, Around2(regions, r, o),
         NEW x, x = getInnerEnclosingRegion(r, o)
  PROVE  /\ x # 0 => Inner(regions, r, o, x)
         /\ x = 0 => \A y \in 2 .. Len(regions) : Near(regions, r, y) => ~Around2(regions, y, o)
<1> DEFINE S == {y \in ChildSet(r) : FoundIn(y, o) # 0}
           c == FirstOf(Children(r), S)
<1>1. x = IF c = 0 THEN 0 ELSE FoundIn(c, o)
  BY Zenon DEF getInnerEnclosingRegion, FirstInFamily, FoundIn, Hits
<1>2. /\ Children(r) \in Seq(Nat)
      /\ \A k \in 1 .. Len(Children(r)) : Children(r)[k] \in Ids(regions)
      /\ \A y \in ChildSet(r) : y \in Ids(regions) /\ regions[y].Parent = r
      /\ \A y \in Ids(regions) : regions[y].Parent = r =>
              y \in ChildSet(r) /\ \E k \in 1 .. Len(Children(r)) : Children(r)[k] = y
  BY ChildFacts
<1>3. Rooted(regions) /\ regions[1].Parent = 0 /\ r # 0
  BY DEF TreeOK, Rooted, Ids
<1>4. CASE \E k \in 1 .. Len(Children(r)) : Children(r)[k] \in S
  <2>1. c \in S
    <3> HIDE DEF S
    <3> QED
      BY <1>2, <1>4, FirstOfFound
  <2> HIDE DEF c
  <2>2. c \in Ids(regions) /\ regions[c].Parent = r /\ FoundIn(c, o) # 0
    BY <1>2, <2>1
  <2>3. c # 0
    BY <2>2 DEF Ids
  <2>4. x = FoundIn(c, o) /\ x # 0
    BY <1>1, <2>2, <2>3
  <2>5. /\ x \in Ids(regions) /\ Around2(regions, x, o)
        /\ x = c \/ (~Around2(regions, c, o) /\ regions[c].Kind = "Try" /\ regions[x].Parent = c)
    BY <2>2, <2>4, FoundFacts
  <2>6. c # 1
    BY <1>3, <2>2
  <2>7. ASSUME NEW u \in Ids(regions), NEW v \in Ids(regions), Apart(regions, u, v)
        PROVE  ~(Around2(regions, u, o) /\ Around2(regions, v, o))
    <3>1. regions[u].Start \in Nat /\ regions[u].End \in Nat /\ regions[v].Start \in Nat /\ regions[v].End \in Nat
      BY <1>3, IdFacts
    <3>2. QED
      BY <2>7, <3>1 DEF Around2, Apart
  <2>8. Below(regions, r, x)
    <3>1. CASE x = c
      <4>1. regions[x].Kind = "Try" \/ Beside(regions, x)
        BY <1>3, <2>2, <2>6, <3>1, IdFacts
      <4>2. ~Beside(regions, x)
        <5> SUFFICES ASSUME Beside(regions, x) PROVE FALSE
          OBVIOUS
        <5>1. Apart(regions, x, r)
          BY <2>2, <3>1, HandlerFacts
        <5>2. QED
          BY <2>5, <2>7, <5>1
      <4>3. QED
        BY <2>2, <3>1, <4>1, <4>2 DEF Below
    <3>2. CASE ~Around2(regions, c, o) /\ regions[c].Kind = "Try" /\ regions[x].Parent = c
      <4>1. x # 1
        BY <1>3, <2>2, <2>3, <3>2
      <4>2. regions[x].Kind # "Try"
        <5> SUFFICES ASSUME regions[x].Kind = "Try" PROVE FALSE
          OBVIOUS
        <5>1. In2(regions, x, c)
          BY <2>5, <3>2, TryFacts
        <5>2. /\ regions[c].Start \in Nat /\ regions[c].End \in Nat
              /\ regions[x].Start \in Nat /\ regions[x].End \in Nat
          BY <1>3, <2>2, <2>5, IdFacts
        <5>3. QED
          BY <2>5, <3>2, <5>1, <5>2 DEF In2, Around2
      <4>3. Beside(regions, x)
        BY <1>3, <2>5, <4>1, <4>2, IdFacts
      <4>4. QED
        BY <2>2, <3>2, <4>3 DEF Below
    <3>3. QED
      BY <2>5, <3>1, <3>2
  <2>9. QED
    BY <2>4, <2>5, <2>8, BelowIsIn DEF Inner
<1>5. CASE \A k \in 1 .. Len(Children(r)) : Children(r)[k] \notin S
  <2>1. c = 0
    <3> HIDE DEF S
    <3> QED
      BY <1>2, <1>5, FirstOfFound
  <2>2. x = 0
    BY <1>1, <2>1
  <2>3. \A y \in Ids(regions) : regions[y].Parent = r => FoundIn(y, o) = 0
    BY <1>2, <1>5
  <2>4. ASSUME NEW y \in 2 .. Len(regions), Near(regions, r, y) PROVE ~Around2(regions, y, o)
    <3>0. y \in Ids(regions) /\ y # 1
      BY <1>3, <2>4 DEF Rooted, Ids
    <3>1. CASE regions[y].Parent = r
      BY <2>3, <3>0, <3>1, FoundFacts
    <3>2. CASE regions[regions[y].Parent].Parent = r /\ regions[regions[y].Parent].Kind = "Try"
      <4>1. PICK q : q = regions[y].Parent
        OBVIOUS
      <4>2. q \in Ids(regions)
        BY <1>3, <3>0, <4>1, IdFacts
      <4>3. FoundIn(q, o) = 0 /\ regions[q].Kind = "Try"
        BY <2>3, <3>2, <4>1, <4>2
      <4>4. QED
        BY <3>0, <4>1, <4>2, <4>3, FoundFacts
    <3>3. QED
      BY <2>4, <3>1, <3>2 DEF Near
  <2>5. QED
    BY <2>2, <2>4
<1>6. QED
  BY <1>4, <1>5

(* What encloses a region around an offset is around it. *)
LEMMA AroundUp ==
  ASSUME NEW rs, TreeOK(rs), NEW r \in Ids(rs), NEW s \in Ids(rs), NEW o \in Nat, Around2(rs, r, o)
  PROVE  /\ In2(rs, r, s) => Around2(rs, s, o)
         /\ Around2(rs, s, o) => In2(rs, r, s) \/ In2(rs, s, r)
<1>1. rs[r].Start \in Nat /\ rs[r].End \in Nat /\ rs[s].Start \in Nat /\ rs[s].End \in Nat
  BY IdFacts DEF TreeOK
<1>2. In2(rs, r, s) => Around2(rs, s, o)
  BY <1>1 DEF In2, Around2
<1>3. Around2(rs, s, o) => ~Apart(rs, r, s)
  BY <1>1 DEF Apart, Around2
<1>4. QED
  BY <1>2, <1>3, In2Facts

(* A region around an offset with none near it around the offset is the innermost. *)
LEMMA InnermostAround ==
  ASSUME NEW rs, TreeOK(rs), NEW r \in Ids(rs), NEW o \in Nat, Around2(rs, r, o),
         \A y \in 2 .. Len(rs) : Near(rs, r, y) => ~Around2(rs, y, o)
  PROVE  \A s \in Ids(rs) : Around2(rs, s, o) <=> In2(rs, r, s)
<1> SUFFICES ASSUME NEW s \in Ids(rs), Around2(rs, s, o), ~In2(rs, r, s) PROVE FALSE
  BY AroundUp
<1> DEFINE T == {x \in Ids(rs) : Around2(rs, x, o)}
<1>1. In2(rs, s, r) /\ s # r
  BY AroundUp, In2Facts
<1>2. T \in SUBSET Ids(rs) /\ s \in T
  OBVIOUS
<1>3. \A x \in T : \A y \in Ids(rs) : In2(rs, x, y) => y \in T
  BY AroundUp
<1>4. PICK x \in T : x # r /\ In2(rs, x, r) /\ Below(rs, r, x)
  <2> HIDE DEF T
  <2> QED
    BY <1>1, <1>2, <1>3, Nearest
<1>5. x \in Ids(rs) /\ Around2(rs, x, o)
  OBVIOUS
<1>6. CASE rs[x].Kind = "Try" /\ rs[x].Parent = r
  <2>1. x \in 2 .. Len(rs) /\ Near(rs, r, x)
    BY <1>5, <1>6, IdFacts DEF TreeOK, Near
  <2>2. QED
    BY <1>5, <2>1
<1>7. CASE Beside(rs, x) /\ rs[rs[x].Parent].Parent = r
  <2>1. rs[rs[x].Parent].Kind = "Try"
    BY <1>5, <1>7, HandlerFacts
  <2>2. x \in 2 .. Len(rs) /\ Near(rs, r, x)
    BY <1>5, <1>7, <2>1, IdFacts DEF TreeOK, Near
  <2>3. QED
    BY <1>5, <2>2
<1>8. QED
  BY <1>4, <1>6, <1>7 DEF Below

(* At an instruction the current region is the innermost around the offset. *)
LEMMA AtInstruction ==
  ASSUME TreeInv, WalkOK, phase = "instruction"
  PROVE  /\ Around2(regions, CurrentRegion, CurrentOffset) /\ CurrentRegion \in Ids(regions)
         /\ \A s \in Ids(regions) : Around2(regions, s, CurrentOffset) <=> In2(regions, CurrentRegion, s)
         /\ \A y \in 2 .. Len(regions) : Near(regions, CurrentRegion, y) => ~Around2(regions, y, CurrentOffset)
<1>1. TreeOK(regions) /\ Rooted(regions)
  BY DEF TreeInv, TreeOK
<1>2. /\ CurrentOffset \in Nat /\ CurrentRegion \in Ids(regions)
      /\ regions[CurrentRegion].Start <= CurrentOffset
      /\ NextRegionTransitionOffset \in Nat /\ CurrentOffset < NextRegionTransitionOffset
      /\ NextRegionTransitionOffset <= regions[CurrentRegion].End
      /\ \A x \in 2 .. Len(regions) : Near(regions, CurrentRegion, x) =>
            \/ regions[x].End <= CurrentOffset
            \/ NextRegionTransitionOffset <= regions[x].Start
  BY DEF WalkOK
<1>3. Around2(regions, CurrentRegion, CurrentOffset)
  <2>1. regions[CurrentRegion].End \in Nat
    BY <1>1, <1>2, IdFacts
  <2>2. QED
    BY <1>2, <2>1 DEF Around2
<1>4. ASSUME NEW y \in 2 .. Len(regions), Near(regions, CurrentRegion, y)
      PROVE  ~Around2(regions, y, CurrentOffset)
  <2>1. y \in Ids(regions)
    BY <1>1 DEF Rooted, Ids
  <2>2. regions[y].Start \in Nat /\ regions[y].End \in Nat
    BY <1>1, <2>1, IdFacts
  <2>3. regions[y].End <= CurrentOffset \/ NextRegionTransitionOffset <= regions[y].Start
    BY <1>2, <1>4
  <2>4. QED
    BY <1>2, <2>2, <2>3 DEF Around2
<1>5. QED
  BY <1>1, <1>2, <1>3, <1>4, InnermostAround

-----------------------------------------------------------------------------
(* Steps of the walk. *)

(* The building is over. *)
LEMMA BuildKept ==
  ASSUME TreeInv, phase \in {"switch", "instruction"}, phase' \in {"switch", "instruction", "done"},
         EIT' = EIT, ClauseList' = ClauseList, J' = J, I' = I, search' = search, Ids(regions)' = Ids(regions)
  PROVE  BuildOK' /\ NumClauses' = NumClauses
<1>1. NumClauses' = NumClauses
  BY DEF NumClauses
<1>2. phase # "sort" /\ phase' \notin Building /\ phase' # "sort" /\ phase' \notin {"find", "insert"} /\ phase' # "insert"
  BY DEF Building
<1>3. QED
  BY <1>1, <1>2 DEF TreeInv, BuildOK

(* An instruction is passed. *)
LEMMA InstructionKeeps ==
  ASSUME IInv, nextInstruction
  PROVE  IInv'
<1>1. /\ phase = "instruction" /\ CurrentOffset' = CurrentOffset + 1
      /\ phase' = IF CurrentOffset' = CodeSize THEN "done"
                  ELSE IF CurrentOffset' = NextRegionTransitionOffset THEN "switch" ELSE "instruction"
      /\ UNCHANGED <<EIT, ClauseList, J, I, regions, search, CurrentRegion, NextRegionTransitionOffset, entered>>
  BY DEF nextInstruction
<1>2. TreeInv /\ WalkOK /\ PadsOK /\ TreeOK(regions) /\ Rooted(regions) /\ Entries(regions)
  BY DEF IInv, TreeInv, TreeOK
<1>3. phase' \in {"switch", "instruction", "done"}
  BY <1>1
<1>4. TreeInv'
  <2>1. BuildOK'
    BY <1>1, <1>2, <1>3, BuildKept
  <2>2. QED
    BY <1>1, <1>2, <2>1, TreeKept DEF TreeInv
<1>5. PadsOK'
  BY <1>1, <1>2, PadsKept
<1>6. /\ CurrentOffset \in Nat /\ CurrentRegion \in Ids(regions) /\ entered \in Seq(Ids(regions))
      /\ \A k \in 1 .. Len(entered) : regions[entered[k]].Kind = "Try"
      /\ \A k, l \in 1 .. Len(entered) : entered[k] = entered[l] => k = l
      /\ CurrentOffset < CodeSize
      /\ regions[CurrentRegion].Start <= CurrentOffset
      /\ \A s \in Ids(regions) : In2(regions, CurrentRegion, s) => Ready(s)
      /\ \A t \in Ids(regions) : regions[t].Kind = "Try" =>
            /\ regions[regions[t].EntryRegion].Start < CurrentOffset => t \in Entered
            /\ t \in Entered => \/ regions[regions[t].EntryRegion].Start < CurrentOffset
                                \/ In2(regions, CurrentRegion, regions[t].EntryRegion)
      /\ NextRegionTransitionOffset \in Nat
      /\ CurrentOffset < NextRegionTransitionOffset
      /\ NextRegionTransitionOffset <= regions[CurrentRegion].End
      /\ \A x \in 2 .. Len(regions) : Near(regions, CurrentRegion, x) =>
            \/ regions[x].End <= CurrentOffset
            \/ NextRegionTransitionOffset <= regions[x].Start
  BY <1>1, <1>2 DEF WalkOK
<1>7. \A s \in Ids(regions) : Around2(regions, s, CurrentOffset) => In2(regions, CurrentRegion, s)
  BY <1>1, <1>2, AtInstruction
<1>8. \A s \in Ids(regions) : regions[s].Start \in Nat /\ regions[s].End \in Nat /\ regions[s].Start < regions[s].End
                              /\ regions[s].End <= CodeSize
  BY <1>2, IdFacts
<1>9. Ids(regions') = Ids(regions) /\ Entered' = Entered /\ CurrentOffset' \in Nat /\ CodeSize \in Nat
  BY <1>1, <1>6, SizeAssumption DEF Entered
<1>10. /\ \A k \in 1 .. Len(entered') : regions'[entered'[k]].Kind = "Try"
       /\ \A k, l \in 1 .. Len(entered') : entered'[k] = entered'[l] => k = l
       /\ entered' \in Seq(Ids(regions')) /\ CurrentRegion' \in Ids(regions')
  BY <1>1, <1>6
<1>11. ASSUME phase' \in {"switch", "instruction"} PROVE CurrentOffset' < CodeSize
  <2>1. CurrentOffset' # CodeSize
    BY <1>1, <1>11
  <2>2. CurrentOffset' <= CodeSize
    BY <1>1, <1>6, <1>9
  <2>3. QED
    BY <1>9, <2>1, <2>2
<1>12. regions[CurrentRegion].Start <= CurrentOffset'
  BY <1>1, <1>6, <1>8
<1>13. ASSUME NEW s \in Ids(regions), regions[s].Start < CurrentOffset', CurrentOffset' < regions[s].End
       PROVE  In2(regions, CurrentRegion, s)
  <2>1. Around2(regions, s, CurrentOffset)
    BY <1>1, <1>6, <1>8, <1>13 DEF Around2
  <2>2. QED
    BY <1>7, <2>1
<1>14. ASSUME NEW t \in Ids(regions), regions[t].Kind = "Try", NEW e, e = regions[t].EntryRegion
       PROVE  /\ regions[e].Start < CurrentOffset' => t \in Entered
              /\ t \in Entered => regions[e].Start < CurrentOffset' \/ In2(regions, CurrentRegion, e)
  <2>1. e \in Ids(regions) /\ Family(regions, t, e)
    BY <1>2, <1>14 DEF Entries
  <2>2. /\ regions[e].Start < CurrentOffset => t \in Entered
        /\ t \in Entered => regions[e].Start < CurrentOffset \/ In2(regions, CurrentRegion, e)
    BY <1>6, <1>14
  <2>3. ASSUME regions[e].Start = CurrentOffset PROVE t \in Entered
    <3>1. Around2(regions, e, CurrentOffset)
      BY <1>8, <2>1, <2>3 DEF Around2
    <3>2. Ready(e)
      BY <1>6, <1>7, <2>1, <3>1
    <3>3. CASE e = t
      BY <1>2, <1>14, <3>2, <3>3, IdFacts DEF Ready, ReadyIn
    <3>4. CASE regions[e].Parent = t /\ Beside(regions, e)
      <4>1. regions[e].Kind # "Try" /\ regions[e].Kind # "Root"
        BY <1>2, <2>1, <3>4, IdFacts
      <4>2. QED
        BY <3>2, <3>4, <4>1 DEF Ready, ReadyIn
    <3>5. QED
      BY <2>1, <3>3, <3>4 DEF Family
  <2>4. regions[e].Start < CurrentOffset' => regions[e].Start < CurrentOffset \/ regions[e].Start = CurrentOffset
    BY <1>1, <1>6, <1>8, <2>1
  <2>5. regions[e].Start < CurrentOffset => regions[e].Start < CurrentOffset'
    BY <1>1, <1>6, <1>8, <2>1
  <2>6. QED
    BY <2>2, <2>3, <2>4, <2>5
<1>15. ASSUME phase' = "instruction"
       PROVE  /\ NextRegionTransitionOffset' \in Nat /\ CurrentOffset' < NextRegionTransitionOffset'
              /\ NextRegionTransitionOffset' <= regions'[CurrentRegion'].End
              /\ \A x \in 2 .. Len(regions') : Near(regions', CurrentRegion', x) =>
                    \/ regions'[x].End <= CurrentOffset'
                    \/ NextRegionTransitionOffset' <= regions'[x].Start
  <2>1. CurrentOffset' # NextRegionTransitionOffset
    BY <1>1, <1>15
  <2>2. CurrentOffset' < NextRegionTransitionOffset
    BY <1>1, <1>6, <2>1
  <2>3. ASSUME NEW x \in 2 .. Len(regions), Near(regions, CurrentRegion, x)
        PROVE  regions[x].End <= CurrentOffset' \/ NextRegionTransitionOffset <= regions[x].Start
    <3>1. regions[x].End <= CurrentOffset \/ NextRegionTransitionOffset <= regions[x].Start
      BY <1>6, <2>3
    <3>2. x \in Ids(regions)
      BY <1>2 DEF Rooted, Ids
    <3>3. QED
      BY <1>1, <1>6, <1>8, <3>1, <3>2
  <2>4. QED
    BY <1>1, <1>6, <2>2, <2>3
<1>16. WalkOK'
  <2>1. \A s \in Ids(regions') : In2(regions', CurrentRegion', s) => Ready(s)'
    BY <1>1, <1>6, <1>9 DEF Ready
  <2>2. \A t \in Ids(regions') : regions'[t].Kind = "Try" =>
            /\ regions'[regions'[t].EntryRegion].Start < CurrentOffset' => t \in Entered'
            /\ t \in Entered' => \/ regions'[regions'[t].EntryRegion].Start < CurrentOffset'
                                 \/ In2(regions', CurrentRegion', regions'[t].EntryRegion)
    BY <1>1, <1>9, <1>14
  <2>3. \A s \in Ids(regions') :
           regions'[s].Start < CurrentOffset' /\ CurrentOffset' < regions'[s].End => In2(regions', CurrentRegion', s)
    BY <1>1, <1>13
  <2>4. regions'[CurrentRegion'].Start <= CurrentOffset'
    BY <1>1, <1>12
  <2>5. QED
    BY <1>9, <1>10, <1>11, <1>15, <2>1, <2>2, <2>3, <2>4 DEF WalkOK
<1>17. QED
  BY <1>4, <1>5, <1>16 DEF IInv

(* The ancestor that the reader climbs to is the innermost region around a region. *)
LEMMA AncestorFacts ==
  ASSUME TreeOK(regions), NEW r \in Ids(regions), r # 1, NEW a, a = rgnGetEnclosingAncestor(r)
  PROVE  /\ a \in Ids(regions) /\ a < r /\ In2(regions, r, a)
         /\ \A s \in Ids(regions) : In2(regions, r, s) /\ s # r => In2(regions, a, s)
<1>1. Rooted(regions)
  BY DEF TreeOK
<1>2. regions[r].Kind = "Try" \/ Beside(regions, r)
  BY <1>1, IdFacts
<1>3. CASE regions[r].Kind = "Try"
  <2>1. a = regions[r].Parent
    BY <1>3 DEF rgnGetEnclosingAncestor, rgnIsOutsideParent
  <2>2. QED
    BY <1>3, <2>1, TryFacts
<1>4. CASE Beside(regions, r)
  <2>1. regions[r].Kind # "Try" /\ regions[r].Kind # "Root"
    BY <1>1, <1>4, IdFacts
  <2>2. a = regions[regions[r].Parent].Parent
    BY <2>1 DEF rgnGetEnclosingAncestor, rgnIsOutsideParent
  <2>3. QED
    BY <1>4, <2>2, HandlerFacts
<1>5. QED
  BY <1>2, <1>3, <1>4

(* A region is left at its end. *)
LEMMA ExitKeeps ==
  ASSUME IInv, exitRegion
  PROVE  IInv'
<1>1. /\ phase = "switch" /\ CurrentOffset >= regions[CurrentRegion].End
      /\ CurrentRegion' = rgnGetEnclosingAncestor(CurrentRegion)
      /\ UNCHANGED <<EIT, ClauseList, J, I, regions, search, phase, CurrentOffset,
                     NextRegionTransitionOffset, entered>>
  BY DEF exitRegion
<1>2. TreeInv /\ WalkOK /\ PadsOK /\ TreeOK(regions) /\ Rooted(regions) /\ Entries(regions)
  BY DEF IInv, TreeInv, TreeOK
<1>3. phase' = "switch"
  BY <1>1
<1>4. TreeInv'
  <2>1. BuildOK'
    BY <1>1, <1>2, <1>3, BuildKept
  <2>2. QED
    BY <1>1, <1>2, <2>1, TreeKept DEF TreeInv
<1>5. PadsOK'
  BY <1>1, <1>2, PadsKept
<1>6. PICK r, o : r = CurrentRegion /\ o = CurrentOffset
  OBVIOUS
<1>7. /\ o \in Nat /\ r \in Ids(regions) /\ entered \in Seq(Ids(regions))
      /\ \A k \in 1 .. Len(entered) : regions[entered[k]].Kind = "Try"
      /\ \A k, l \in 1 .. Len(entered) : entered[k] = entered[l] => k = l
      /\ o < CodeSize /\ regions[r].Start <= o /\ o >= regions[r].End
      /\ \A s \in Ids(regions) : In2(regions, r, s) => Ready(s)
      /\ \A s \in Ids(regions) : regions[s].Start < o /\ o < regions[s].End => In2(regions, r, s)
      /\ \A t \in Ids(regions) : regions[t].Kind = "Try" =>
            /\ regions[regions[t].EntryRegion].Start < o => t \in Entered
            /\ t \in Entered => \/ regions[regions[t].EntryRegion].Start < o
                                \/ In2(regions, r, regions[t].EntryRegion)
  BY <1>1, <1>2, <1>6 DEF WalkOK
<1>8. \A s \in Ids(regions) : regions[s].Start \in Nat /\ regions[s].End \in Nat /\ regions[s].Start < regions[s].End
                              /\ regions[s].End <= CodeSize
  BY <1>2, IdFacts
<1>9. r # 1
  BY <1>2, <1>7, SizeAssumption DEF Rooted
<1>10. PICK a : a = rgnGetEnclosingAncestor(r)
  OBVIOUS
<1>11. /\ a \in Ids(regions) /\ In2(regions, r, a)
       /\ \A s \in Ids(regions) : In2(regions, r, s) /\ s # r => In2(regions, a, s)
  BY <1>2, <1>7, <1>9, <1>10, AncestorFacts
<1>12. regions[a].Start <= o
  BY <1>7, <1>8, <1>11 DEF In2
<1>13. ASSUME NEW s \in Ids(regions), In2(regions, a, s) PROVE Ready(s)
  <2>1. In2(regions, r, s)
    BY <1>2, <1>7, <1>11, <1>13, In2Facts
  <2>2. QED
    BY <1>7, <2>1
<1>14. ASSUME NEW s \in Ids(regions), regions[s].Start < o, o < regions[s].End PROVE In2(regions, a, s)
  <2>1. s # r
    BY <1>7, <1>8, <1>14
  <2>2. QED
    BY <1>7, <1>11, <1>14, <2>1
<1>15. ASSUME NEW t \in Ids(regions), regions[t].Kind = "Try", NEW e, e = regions[t].EntryRegion
       PROVE  /\ regions[e].Start < o => t \in Entered
              /\ t \in Entered => regions[e].Start < o \/ In2(regions, a, e)
  <2>1. e \in Ids(regions)
    BY <1>2, <1>15 DEF Entries
  <2>2. /\ regions[e].Start < o => t \in Entered
        /\ t \in Entered => regions[e].Start < o \/ In2(regions, r, e)
    BY <1>7, <1>15
  <2>3. e = r => regions[e].Start < o
    BY <1>7, <1>8
  <2>4. QED
    BY <1>11, <2>1, <2>2, <2>3
<1>16. CurrentRegion' = a /\ CurrentOffset' = o /\ regions' = regions /\ entered' = entered /\ Entered' = Entered
  BY <1>1, <1>6, <1>10 DEF Entered
<1>17. \A s : Ready(s)' <=> Ready(s)
  BY <1>16 DEF Ready
<1>18. WalkOK'
  BY <1>3, <1>7, <1>11, <1>12, <1>13, <1>14, <1>15, <1>16, <1>17 DEF WalkOK
<1>19. QED
  BY <1>4, <1>5, <1>18 DEF IInv

(* The next offset to stop at is looked for. *)
LEMMA StayKeeps ==
  ASSUME IInv, stayInRegion
  PROVE  IInv'
<1> DEFINE stops == {regions[CurrentRegion].End} \union Ahead
<1>1. /\ phase = "switch" /\ CurrentOffset < regions[CurrentRegion].End /\ NextRegion = 0
      /\ NextRegionTransitionOffset' = CHOOSE o \in stops : \A p \in stops : o <= p
      /\ phase' = "instruction"
      /\ UNCHANGED <<EIT, ClauseList, J, I, regions, search, CurrentOffset, CurrentRegion, entered>>
  BY Zenon DEF stayInRegion
<1>2. TreeInv /\ WalkOK /\ PadsOK /\ TreeOK(regions) /\ Rooted(regions)
  BY DEF IInv, TreeInv, TreeOK
<1>3. TreeInv'
  <2>1. BuildOK'
    BY <1>1, <1>2, BuildKept
  <2>2. QED
    BY <1>1, <1>2, <2>1, TreeKept DEF TreeInv
<1>4. PadsOK'
  BY <1>1, <1>2, PadsKept
<1>5. PICK r, o : r = CurrentRegion /\ o = CurrentOffset
  OBVIOUS
<1>6. o \in Nat /\ r \in Ids(regions) /\ Around2(regions, r, o) /\ o < regions[r].End
  BY <1>1, <1>2, <1>5 DEF WalkOK, Around2
<1>7. \A s \in Ids(regions) : regions[s].Start \in Nat /\ regions[s].End \in Nat
  BY <1>2, IdFacts
<1>8. \A y \in 2 .. Len(regions) : Near(regions, r, y) => ~Around2(regions, y, o)
  <2>1. getInnerEnclosingRegion(r, o) = 0
    BY <1>1, <1>5 DEF NextRegion
  <2>2. QED
    BY <1>2, <1>6, <2>1, InnerFacts
<1>9. \A s \in Ahead : s \in Nat /\ o < s
  <2>1. \A x \in ChildSet(r) : x \in Ids(regions) /\ \A y \in ChildSet(x) : y \in Ids(regions)
    BY <1>2, <1>6, ChildFacts
  <2>2. QED
    BY <1>5, <1>7, <2>1 DEF Ahead
<1>10. ASSUME NEW y \in 2 .. Len(regions), Near(regions, r, y), o < regions[y].Start PROVE regions[y].Start \in Ahead
  <2>1. y \in Ids(regions) /\ y # 1
    BY <1>2 DEF Rooted, Ids
  <2>2. CASE regions[y].Parent = r
    <3>1. y \in ChildSet(r)
      BY <1>2, <1>6, <2>1, <2>2, ChildFacts
    <3>2. QED
      BY <1>5, <1>10, <3>1 DEF Ahead
  <2>3. CASE regions[regions[y].Parent].Parent = r /\ regions[regions[y].Parent].Kind = "Try"
    <3>1. PICK q : q = regions[y].Parent
      OBVIOUS
    <3>2. q \in Ids(regions)
      BY <1>2, <2>1, <3>1, IdFacts
    <3>3. q \in ChildSet(r) /\ IsTry(q)
      BY <1>2, <1>6, <2>3, <3>1, <3>2, ChildFacts DEF IsTry
    <3>4. y \in ChildSet(q)
      BY <1>2, <2>1, <3>1, <3>2, ChildFacts
    <3>5. QED
      BY <1>5, <1>10, <3>3, <3>4 DEF Ahead
  <2>4. QED
    BY <1>10, <2>2, <2>3 DEF Near
<1>11. PICK n : n = NextRegionTransitionOffset'
  OBVIOUS
<1>12. n \in stops /\ \A p \in stops : n <= p
  <2>1. stops \in SUBSET Nat /\ stops # {}
    BY <1>5, <1>6, <1>7, <1>9
  <2>2. n = CHOOSE s \in stops : \A p \in stops : s <= p
    BY <1>1, <1>11
  <2> HIDE DEF stops
  <2>3. \E s \in stops : \A p \in stops : s <= p
    BY <2>1, Least
  <2>4. QED
    BY <2>2, <2>3
<1>13. n \in Nat /\ o < n /\ n <= regions[r].End
  BY <1>5, <1>6, <1>7, <1>9, <1>12
<1>14. ASSUME NEW y \in 2 .. Len(regions), Near(regions, r, y) PROVE regions[y].End <= o \/ n <= regions[y].Start
  <2>1. y \in Ids(regions)
    BY <1>2 DEF Rooted, Ids
  <2>2. ~Around2(regions, y, o)
    BY <1>8, <1>14
  <2>3. o < regions[y].Start => n <= regions[y].Start
    BY <1>10, <1>12, <1>14
  <2>4. QED
    BY <1>6, <1>7, <2>1, <2>2, <2>3 DEF Around2
<1>15. Entered' = Entered
  BY <1>1 DEF Entered
<1> HIDE DEF stops
<1>16. WalkOK'
  <2>1. /\ CurrentRegion' = CurrentRegion /\ CurrentOffset' = CurrentOffset /\ regions' = regions
        /\ entered' = entered /\ phase = "switch" /\ phase' = "instruction"
    BY <1>1
  <2>2. \A s : Ready(s)' <=> Ready(s)
    BY <1>15, <2>1 DEF Ready
  <2>3. /\ n = NextRegionTransitionOffset' /\ n \in Nat /\ CurrentOffset < n /\ n <= regions[CurrentRegion].End
        /\ \A y \in 2 .. Len(regions) : Near(regions, CurrentRegion, y) =>
             regions[y].End <= CurrentOffset \/ n <= regions[y].Start
    BY <1>5, <1>11, <1>13, <1>14
  <2>4. QED
    BY <1>2, <1>15, <2>1, <2>2, <2>3 DEF WalkOK
<1>17. QED
  BY <1>3, <1>4, <1>16 DEF IInv

-----------------------------------------------------------------------------
(* Climbing from a try to the handler around it, and walking down to an offset. *)

\* f is b and then again and again what H makes of it.
Iterates(f, S, b, H, L) == f \in [0 .. L -> S] /\ f = [n \in 0 .. L |-> IF n = 0 THEN b ELSE H[f[n - 1]]]

(* A function can be iterated. *)
LEMMA Iterated ==
  ASSUME NEW S, NEW b, NEW H, NEW L, b \in S, H \in [S -> S], L \in Nat
  PROVE  \E f : Iterates(f, S, b, H, L)
<1> DEFINE G == [x \in Nat \X S |-> H[x[2]]]
<1>1. G \in [Nat \X S -> S]
  OBVIOUS
<1>2. PICK f : RecursiveTo(f, S, b, G, L)
  <2> HIDE DEF G
  <2> QED
    BY <1>1, RecursionTo
<1>3. f \in [0 .. L -> S] /\ f = [n \in 0 .. L |-> IF n = 0 THEN b ELSE G[<<n - 1, f[n - 1]>>]]
  BY <1>2 DEF RecursiveTo
<1>4. ASSUME NEW n \in 0 .. L, n # 0 PROVE G[<<n - 1, f[n - 1]>>] = H[f[n - 1]]
  <2>1. n - 1 \in Nat /\ n - 1 \in 0 .. L
    BY <1>4
  <2>2. f[n - 1] \in S
    BY <1>3, <2>1
  <2>3. QED
    BY <2>1, <2>2
<1> HIDE DEF G
<1>5. \A n \in 0 .. L : (IF n = 0 THEN b ELSE G[<<n - 1, f[n - 1]>>]) = (IF n = 0 THEN b ELSE H[f[n - 1]])
  BY <1>4, Zenon
<1>6. f = [n \in 0 .. L |-> IF n = 0 THEN b ELSE H[f[n - 1]]]
  BY <1>3, <1>5
<1>7. QED
  BY <1>3, <1>6 DEF Iterates

\* One step up from a try, and one step down.
UpStep(x) == IF IsTry(x) THEN regions[x].Parent ELSE x
UpBody(t, f) == [n \in 0 .. Len(regions) |->
                   IF n = 0 THEN t ELSE IF IsTry(f[n - 1]) THEN regions[f[n - 1]].Parent ELSE f[n - 1]]
Up(t) == CHOOSE f : f = UpBody(t, f)

(* The climb, step by step. *)
LEMMA UpIs ==
  ASSUME TreeOK(regions), NEW t \in Ids(regions), NEW up, up = Up(t)
  PROVE  /\ up[0] = t
         /\ \A m \in Nat : m + 1 <= Len(regions) => up[m + 1] = UpStep(up[m])
<1> DEFINE S == Ids(regions)
           H == [x \in S |-> UpStep(x)]
           L == Len(regions)
<1>1. L \in Nat
  BY IdFacts DEF TreeOK
<1>2. H \in [S -> S]
  <2>1. \A x \in S : UpStep(x) \in S
    BY IdFacts DEF TreeOK, UpStep, IsTry
  <2> HIDE DEF S
  <2>2. QED
    BY <2>1
<1>3. PICK f : Iterates(f, S, t, H, L)
  <2> HIDE DEF S, H, L
  <2>1. t \in S
    BY DEF S
  <2> QED
    BY <1>1, <1>2, <2>1, Iterated
<1>4. f \in [0 .. L -> S] /\ f = [n \in 0 .. L |-> IF n = 0 THEN t ELSE H[f[n - 1]]]
  BY <1>3 DEF Iterates
<1>5. ASSUME NEW n \in 0 .. L, n # 0 PROVE H[f[n - 1]] = UpStep(f[n - 1])
  <2>1. n - 1 \in 0 .. L
    BY <1>1, <1>5
  <2> HIDE DEF S
  <2>2. f[n - 1] \in S
    BY <1>4, <2>1
  <2>3. QED
    BY <2>2
<1> HIDE DEF H, S
<1>6. \A n \in 0 .. L : (IF n = 0 THEN t ELSE H[f[n - 1]])
                        = (IF n = 0 THEN t ELSE IF IsTry(f[n - 1]) THEN regions[f[n - 1]].Parent ELSE f[n - 1])
  BY <1>5, Zenon DEF UpStep
<1>7. f = UpBody(t, f)
  BY <1>4, <1>6 DEF UpBody
<1>8. up = UpBody(t, up)
  BY <1>7, Zenon DEF Up
<1>9. up[0] = t
  BY <1>1, <1>8, 0 \in 0 .. L DEF UpBody
<1>10. ASSUME NEW m \in Nat, m + 1 <= L PROVE up[m + 1] = UpStep(up[m])
  <2>1. m + 1 \in 0 .. L /\ m + 1 # 0 /\ (m + 1) - 1 = m
    BY <1>1, <1>10
  <2>2. up[m + 1] = UpStep(up[(m + 1) - 1])
    BY <1>8, <2>1, Zenon DEF UpBody, UpStep
  <2>3. QED
    BY <2>1, <2>2
<1>11. QED
  BY <1>9, <1>10

\* As far as the climb from t has come.
Climbed(t, m, x) ==
  /\ x \in Ids(regions) /\ In2(regions, t, x)
  /\ \A s \in Ids(regions) : Beside(regions, s) /\ In2(regions, t, s) => In2(regions, x, s)
  /\ regions[x].Kind # "Try" \/ x + m <= t

(* The climb ends with the innermost handler around the try, or with the root. *)
LEMMA ClimbEnds ==
  ASSUME TreeOK(regions), NEW t \in Ids(regions)
  PROVE  \E h \in Ids(regions) :
           /\ In2(regions, t, h) /\ InnermostHandler(regions, t, h) /\ (h = 1 \/ Beside(regions, h))
           /\ EnclosingPad(t) = IF regions[h].Kind = "Filter" THEN regions[regions[h].HandlerRegion].Pad
                                ELSE regions[h].Pad
<1>1. PICK up : up = Up(t)
  OBVIOUS
<1>2. /\ up[0] = t
      /\ \A m \in Nat : m + 1 <= Len(regions) => up[m + 1] = UpStep(up[m])
  BY <1>1, UpIs
<1>3. Rooted(regions) /\ Len(regions) \in Nat /\ t \in Nat /\ t <= Len(regions) /\ 1 \in Ids(regions)
  BY IdFacts DEF TreeOK, Ids
<1> DEFINE T == {m \in Nat : m <= Len(regions) => Climbed(t, m, up[m])}
<1>4. 0 \in T
  BY <1>2, <1>3, In2Facts DEF Climbed
<1>5. ASSUME NEW m \in Nat, m \in T PROVE m + 1 \in T
  <2> SUFFICES ASSUME m + 1 <= Len(regions) PROVE Climbed(t, m + 1, up[m + 1])
    OBVIOUS
  <2>1. PICK x : x = up[m]
    OBVIOUS
  <2>2. Climbed(t, m, x) /\ up[m + 1] = UpStep(x)
    BY <1>2, <1>3, <1>5, <2>1
  <2>3. CASE regions[x].Kind # "Try"
    <3>1. up[m + 1] = x
      BY <2>2, <2>3 DEF UpStep, IsTry
    <3>2. QED
      BY <2>2, <2>3, <3>1 DEF Climbed
  <2>4. CASE regions[x].Kind = "Try"
    <3>1. PICK p : p = regions[x].Parent
      OBVIOUS
    <3>2. up[m + 1] = p
      BY <2>2, <2>4, <3>1 DEF UpStep, IsTry
    <3>3. x \in Ids(regions) /\ In2(regions, t, x) /\ x + m <= t
          /\ \A s \in Ids(regions) : Beside(regions, s) /\ In2(regions, t, s) => In2(regions, x, s)
      BY <2>2, <2>4 DEF Climbed
    <3>4. /\ p \in Ids(regions) /\ p < x /\ In2(regions, x, p)
          /\ \A s \in Ids(regions) : In2(regions, x, s) /\ s # x => In2(regions, p, s)
      BY <2>4, <3>1, <3>3, TryFacts
    <3>5. In2(regions, t, p)
      BY <3>3, <3>4, In2Facts
    <3>6. p + (m + 1) <= t
      <4>1. p \in Nat /\ x \in Nat
        BY <1>3, <3>3, <3>4, IdFacts
      <4>2. QED
        BY <1>3, <3>3, <3>4, <4>1
    <3>7. ~Beside(regions, x)
      BY <1>3, <2>4, <3>3, IdFacts
    <3>8. QED
      BY <3>2, <3>3, <3>4, <3>5, <3>6, <3>7 DEF Climbed
  <2>5. QED
    BY <2>3, <2>4
<1>6. \A m \in Nat : m \in T
  <2> HIDE DEF T
  <2> QED
    BY <1>4, <1>5, SetInduction
<1>7. PICK h : h = up[Len(regions)]
  OBVIOUS
<1>8. Climbed(t, Len(regions), h)
  BY <1>3, <1>6, <1>7
<1>9. h \in Ids(regions) /\ In2(regions, t, h)
      /\ \A s \in Ids(regions) : Beside(regions, s) /\ In2(regions, t, s) => In2(regions, h, s)
  BY <1>8 DEF Climbed
<1>10. h \in Nat /\ h >= 1
  BY <1>3, <1>9, IdFacts
<1>11. regions[h].Kind # "Try"
  BY <1>3, <1>8, <1>10 DEF Climbed
<1>12. h = 1 \/ Beside(regions, h)
  BY <1>3, <1>9, <1>11, IdFacts
<1>13. InnermostHandler(regions, t, h)
  <2>1. CASE h = 1
    <3>1. ASSUME NEW s \in Ids(regions), Beside(regions, s), In2(regions, t, s) PROVE FALSE
      <4>1. In2(regions, 1, s) /\ In2(regions, s, 1)
        BY <1>9, <2>1, <3>1, In2Facts
      <4>2. s = 1
        BY <1>3, <4>1, In2Facts
      <4>3. QED
        BY <1>3, <3>1, <4>2, IdFacts
    <3>2. QED
      BY <2>1, <3>1 DEF InnermostHandler
  <2>2. CASE h # 1
    BY <1>9, <1>12, <2>2 DEF InnermostHandler
  <2>3. QED
    BY <2>1, <2>2
<1>14. EnclosingPad(t) = IF regions[h].Kind = "Filter" THEN regions[regions[h].HandlerRegion].Pad
                         ELSE regions[h].Pad
  <2>1. EnclosingPad(t) = IF regions[Up(t)[Len(regions)]].Kind = "Filter"
                          THEN regions[regions[Up(t)[Len(regions)]].HandlerRegion].Pad
                          ELSE regions[Up(t)[Len(regions)]].Pad
    BY Zenon DEF EnclosingPad, Up, UpBody
  <2>2. h = Up(t)[Len(regions)]
    BY <1>1, <1>7
  <2>3. QED
    BY <2>1, <2>2
<1>15. QED
  BY <1>9, <1>12, <1>13, <1>14

-----------------------------------------------------------------------------
(* Entering a try. *)

(* The pads depend on the tree alone. *)
LEMMA SamePads ==
  ASSUME NEW rs, NEW rs2, TreeOK(rs), SameTree(rs, rs2), NEW r \in Ids(rs), NEW u
  PROVE  /\ InnermostTry(rs, r, u) => InnermostTry(rs2, r, u)
         /\ InnermostHandler(rs, r, u) => InnermostHandler(rs2, r, u)
         /\ IsPad(rs, r, u) => IsPad(rs2, r, u)
         /\ \A E : ReadyIn(rs2, E, r) <=> ReadyIn(rs, E, r)
<1>1. /\ Ids(rs2) = Ids(rs) /\ \A x, s \in Ids(rs) : In2(rs2, x, s) <=> In2(rs, x, s)
      /\ \A x \in Ids(rs) : Beside(rs2, x) <=> Beside(rs, x)
  BY SameTreeOK
<1>2. \A x \in Ids(rs) : rs2[x].Kind = rs[x].Kind /\ rs2[x].Parent = rs[x].Parent /\ rs2[x].HandlerRegion = rs[x].HandlerRegion
  BY DEF SameTree
<1>3. InnermostTry(rs, r, u) => InnermostTry(rs2, r, u)
  BY <1>1, <1>2 DEF InnermostTry
<1>4. InnermostHandler(rs, r, u) => InnermostHandler(rs2, r, u)
  BY <1>1 DEF InnermostHandler
<1>5. IsPad(rs, r, u) => IsPad(rs2, r, u)
  BY <1>1, <1>2 DEF IsPad
<1>6. \A E : ReadyIn(rs2, E, r) <=> ReadyIn(rs, E, r)
  BY <1>1, <1>2 DEF ReadyIn
<1>7. QED
  BY <1>3, <1>4, <1>5, <1>6

\* What entering t makes of the regions.
MadePads(rs2, t) ==
  /\ SameTree(regions, rs2)
  /\ \A r \in Ids(regions) : rs2[r].EntryRegion = regions[r].EntryRegion
  /\ rs2[t].HandlerEHPad = t
  /\ \A r \in Ids(regions) : r # t /\ ~(regions[r].Parent = t /\ Beside(regions, r)) => rs2[r] = regions[r]
  /\ \A h \in Ids(regions) : regions[h].Parent = t /\ Beside(regions, h) =>
       /\ rs2[h].HandlerEHPad = unwindsTo(t) /\ rs2[h].ParentPad = EnclosingPad(t)
       /\ IsPad(regions, h, rs2[h].Pad)

(* Only the pads of the try and of its handlers are made. *)
LEMMA EnterRegionIs ==
  ASSUME TreeOK(regions), Filters(regions), NEW t \in Ids(regions), regions[t].Kind = "Try",
         NEW rs2, rs2 = fgEnterRegion(t)
  PROVE  MadePads(rs2, t)
<1> DEFINE filterOf(r) == CHOOSE f \in ChildSet(t) : regions[f].HandlerRegion = r
<1>1. /\ Rooted(regions) /\ regions \in Seq(RegionRecords) /\ Len(regions) \in Nat /\ t \in Nat /\ t # 1
      /\ \A r \in Ids(regions) : regions[r] \in RegionRecords
      /\ 1 \in Ids(regions) /\ regions[1].HandlerEHPad = 0 /\ regions[1].Pad = 0 /\ regions[1].Parent = 0 /\ t # 0
  BY IdFacts DEF TreeOK, Rooted, Ids
<1>2. PICK w, p : w = unwindsTo(t) /\ p = EnclosingPad(t)
  OBVIOUS
<1>3. w \in Nat
  <2>1. regions[t].Parent \in Ids(regions)
    BY TryFacts
  <2>2. regions[regions[t].Parent] \in RegionRecords
    BY <1>1, <2>1
  <2>3. QED
    BY <1>2, <2>2 DEF unwindsTo, RegionRecords
<1>4. p \in Nat
  <2>1. PICK h \in Ids(regions) : p = IF regions[h].Kind = "Filter" THEN regions[regions[h].HandlerRegion].Pad
                                      ELSE regions[h].Pad
    BY <1>2, ClimbEnds
  <2>2. regions[h].Kind = "Filter" => regions[h].HandlerRegion \in Ids(regions)
    BY DEF Filters
  <2>3. \A x \in Ids(regions) : regions[x].Pad \in Nat
    BY <1>1 DEF RegionRecords
  <2>4. QED
    BY <2>1, <2>2, <2>3
<1>5. \A r \in Ids(regions) : r \in ChildSet(t) <=> regions[r].Parent = t
  BY ChildFacts
<1>6. \A x \in ChildSet(t) : x \in Ids(regions)
  BY ChildFacts
<1>7. ASSUME NEW r \in Ids(regions), regions[r].Kind = "MExcept", regions[r].Parent = t
      PROVE  filterOf(r) \in Ids(regions) /\ regions[filterOf(r)].HandlerRegion = r
  <2>1. PICK f \in Ids(regions) : regions[f].HandlerRegion = r
    BY <1>7 DEF Filters
  <2>2. r # 0
    BY DEF Ids
  <2>3. regions[f].Kind = "Filter"
    BY <2>1, <2>2 DEF Filters
  <2>4. regions[f].Parent = t
    BY <1>7, <2>1, <2>3 DEF Filters
  <2>5. f \in ChildSet(t)
    BY <1>5, <2>4
  <2>6. filterOf(r) \in ChildSet(t) /\ regions[filterOf(r)].HandlerRegion = r
    BY <2>1, <2>5
  <2>7. QED
    BY <1>6, <2>6
<1> HIDE DEF filterOf
<1> DEFINE padded(r, pad) == [regions[r] EXCEPT !.HandlerEHPad = unwindsTo(t), !.Pad = pad, !.ParentPad = EnclosingPad(t)]
           elem(r) == IF r = t THEN [regions[t] EXCEPT !.HandlerEHPad = t]
                      ELSE IF r \notin ChildSet(t) \/ IsTry(r) THEN regions[r]
                      ELSE IF regions[r].Kind = "MExcept" THEN padded(r, filterOf(r))
                      ELSE padded(r, r)
<1>8. rs2 = [r \in Ids(regions) |-> elem(r)]
  BY Zenon DEF fgEnterRegion, filterOf, Ids
<1>9. \A r \in Ids(regions) : rs2[r] = elem(r)
  BY <1>8, Zenon
<1>10. rs2[t] = [regions[t] EXCEPT !.HandlerEHPad = t]
  BY <1>9
<1>11. ASSUME NEW r \in Ids(regions), r # t, ~(regions[r].Parent = t /\ Beside(regions, r)) PROVE rs2[r] = regions[r]
  <2>1. r \notin ChildSet(t) \/ IsTry(r)
    <3>1. CASE r = 1
      BY <1>1, <1>5, <3>1
    <3>2. CASE r # 1
      BY <1>1, <1>5, <1>11, <3>2, IdFacts DEF IsTry
    <3>3. QED
      BY <3>1, <3>2
  <2>2. QED
    BY <1>9, <1>11, <2>1
<1>12. ASSUME NEW r \in Ids(regions), regions[r].Parent = t, Beside(regions, r)
       PROVE  \E d \in Nat : rs2[r] = padded(r, d) /\ IsPad(regions, r, d)
  <2>1. r # t /\ r \in ChildSet(t) /\ ~IsTry(r) /\ r \in Nat
    BY <1>1, <1>5, <1>12, IdFacts DEF IsTry
  <2>2. CASE regions[r].Kind = "MExcept"
    <3>1. rs2[r] = padded(r, filterOf(r))
      BY <1>9, <2>1, <2>2
    <3>2. filterOf(r) \in Ids(regions) /\ regions[filterOf(r)].HandlerRegion = r
      BY <1>7, <1>12, <2>2
    <3>3. filterOf(r) \in Nat
      BY <3>2 DEF Ids
    <3>4. QED
      BY <2>2, <3>1, <3>2, <3>3 DEF IsPad
  <2>3. CASE regions[r].Kind # "MExcept"
    <3>1. rs2[r] = padded(r, r)
      BY <1>9, <2>1, <2>3
    <3>2. QED
      BY <2>1, <2>3, <3>1 DEF IsPad
  <2>4. QED
    BY <2>2, <2>3
<1> HIDE DEF elem
<1>13. ASSUME NEW r \in Ids(regions), NEW d \in Nat, rs2[r] = padded(r, d)
       PROVE  /\ rs2[r] \in RegionRecords /\ rs2[r].HandlerEHPad = w /\ rs2[r].ParentPad = p /\ rs2[r].Pad = d
              /\ rs2[r].Kind = regions[r].Kind /\ rs2[r].Parent = regions[r].Parent
              /\ rs2[r].Start = regions[r].Start /\ rs2[r].End = regions[r].End
              /\ rs2[r].HandlerRegion = regions[r].HandlerRegion /\ rs2[r].Children = regions[r].Children
              /\ rs2[r].EntryRegion = regions[r].EntryRegion
  <2>1. PICK x : x = regions[r]
    OBVIOUS
  <2>2. x \in RegionRecords /\ rs2[r] = [x EXCEPT !.HandlerEHPad = w, !.Pad = d, !.ParentPad = p]
    BY <1>1, <1>2, <1>13, <2>1
  <2>3. QED
    BY <1>3, <1>4, <2>1, <2>2 DEF RegionRecords
<1> HIDE DEF padded
<1>14. /\ rs2[t] \in RegionRecords /\ rs2[t].HandlerEHPad = t
       /\ rs2[t].Kind = regions[t].Kind /\ rs2[t].Parent = regions[t].Parent
       /\ rs2[t].Start = regions[t].Start /\ rs2[t].End = regions[t].End
       /\ rs2[t].HandlerRegion = regions[t].HandlerRegion /\ rs2[t].Children = regions[t].Children
       /\ rs2[t].EntryRegion = regions[t].EntryRegion
  <2>1. PICK x : x = regions[t]
    OBVIOUS
  <2>2. x \in RegionRecords /\ rs2[t] = [x EXCEPT !.HandlerEHPad = t]
    BY <1>1, <1>10, <2>1
  <2>3. QED
    BY <1>1, <2>1, <2>2 DEF RegionRecords
<1>15. ASSUME NEW r \in Ids(regions)
       PROVE  /\ rs2[r] \in RegionRecords
              /\ rs2[r].Kind = regions[r].Kind /\ rs2[r].Parent = regions[r].Parent
              /\ rs2[r].Start = regions[r].Start /\ rs2[r].End = regions[r].End
              /\ rs2[r].HandlerRegion = regions[r].HandlerRegion /\ rs2[r].Children = regions[r].Children
              /\ rs2[r].EntryRegion = regions[r].EntryRegion
  <2>1. CASE r = t
    BY <1>14, <2>1
  <2>2. CASE regions[r].Parent = t /\ Beside(regions, r)
    <3>1. PICK d \in Nat : rs2[r] = padded(r, d)
      BY <1>12, <2>2
    <3>2. QED
      BY <1>13, <3>1
  <2>3. CASE r # t /\ ~(regions[r].Parent = t /\ Beside(regions, r))
    BY <1>1, <1>11, <2>3
  <2>4. QED
    BY <2>1, <2>2, <2>3
<1>16. rs2 \in Seq(RegionRecords) /\ Len(rs2) = Len(regions)
  <2>1. rs2 \in [1 .. Len(regions) -> RegionRecords]
    BY <1>8, <1>15 DEF Ids
  <2>2. rs2 \in Seq(RegionRecords)
    BY <1>1, <2>1, SeqDef
  <2>3. QED
    BY <1>1, <2>1, <2>2, LenProperties
<1>17. rs2[1] = regions[1]
  <2>1. 1 # t /\ ~Beside(regions, 1)
    BY <1>1, IdFacts
  <2>2. QED
    BY <1>1, <1>11, <2>1
<1>18. SameTree(regions, rs2)
  BY <1>1, <1>15, <1>16, <1>17 DEF SameTree
<1>19. ASSUME NEW h \in Ids(regions), regions[h].Parent = t, Beside(regions, h)
       PROVE  rs2[h].HandlerEHPad = w /\ rs2[h].ParentPad = p /\ IsPad(regions, h, rs2[h].Pad)
  <2>1. PICK d \in Nat : rs2[h] = padded(h, d) /\ IsPad(regions, h, d)
    BY <1>12, <1>19
  <2>2. QED
    BY <1>13, <2>1
<1>20. QED
  BY <1>2, <1>11, <1>14, <1>15, <1>18, <1>19 DEF MadePads

(* The pads that entering a try makes are right, if those of the regions around it are. *)
LEMMA PadsEnter ==
  ASSUME TreeOK(regions), Filters(regions), NEW E, PadsIn(regions, E), NEW t \in Ids(regions),
         regions[t].Kind = "Try", NEW p, p = regions[t].Parent,
         \A s \in Ids(regions) : In2(regions, p, s) => ReadyIn(regions, E, s),
         NEW rs2, MadePads(rs2, t), NEW E2, E2 = E \cup {t}
  PROVE  PadsIn(rs2, E2)
<1>1. /\ SameTree(regions, rs2) /\ rs2[t].HandlerEHPad = t
      /\ \A r \in Ids(regions) : r # t /\ ~(regions[r].Parent = t /\ Beside(regions, r)) => rs2[r] = regions[r]
      /\ \A h \in Ids(regions) : regions[h].Parent = t /\ Beside(regions, h) =>
           /\ rs2[h].HandlerEHPad = unwindsTo(t) /\ rs2[h].ParentPad = EnclosingPad(t)
           /\ IsPad(regions, h, rs2[h].Pad)
  BY DEF MadePads
<1>2. /\ Ids(rs2) = Ids(regions) /\ \A x \in Ids(regions) : Beside(rs2, x) <=> Beside(regions, x)
      /\ \A x \in Ids(regions) : rs2[x].Parent = regions[x].Parent
  BY <1>1, SameTreeOK DEF SameTree
<1>3. /\ p \in Ids(regions) /\ In2(regions, t, p)
      /\ \A s \in Ids(regions) : In2(regions, t, s) /\ s # t => In2(regions, p, s)
  BY TryFacts
<1>4. Rooted(regions) /\ ~Beside(regions, t)
  BY IdFacts DEF TreeOK
<1>5. ASSUME NEW r \in Ids(regions), ReadyIn(regions, E2, r), r # t, ~(regions[r].Parent = t /\ Beside(regions, r))
      PROVE  ReadyIn(regions, E, r)
  BY <1>5 DEF ReadyIn
<1>6. ASSUME NEW h \in Ids(regions), regions[h].Parent = t, Beside(regions, h)
      PROVE  InnermostTry(regions, h, unwindsTo(t))
  <2>1. PICK w : w = unwindsTo(t)
    OBVIOUS
  <2>2. InnermostTry(regions, p, w)
    <3>1. ReadyIn(regions, E, p)
      BY <1>3, In2Facts
    <3>2. QED
      BY <1>3, <2>1, <3>1 DEF PadsIn, unwindsTo
  <2>3. /\ In2(regions, h, p)
        /\ \A s \in Ids(regions) : In2(regions, h, s) /\ s # h => In2(regions, p, s)
    BY <1>6, HandlerFacts
  <2>4. \A s \in Ids(regions) : regions[s].Kind = "Try" => s # h
    BY <1>4, <1>6, IdFacts
  <2>5. CASE w = 0
    BY <2>1, <2>2, <2>3, <2>4, <2>5 DEF InnermostTry
  <2>6. CASE w # 0
    <3>1. w \in Ids(regions) /\ regions[w].Kind = "Try" /\ In2(regions, p, w)
          /\ \A s \in Ids(regions) : regions[s].Kind = "Try" /\ In2(regions, p, s) => In2(regions, w, s)
      BY <2>2, <2>6 DEF InnermostTry
    <3>2. In2(regions, h, w)
      BY <1>3, <1>6, <2>3, <3>1, In2Facts
    <3>3. QED
      BY <2>1, <2>3, <2>4, <2>6, <3>1, <3>2 DEF InnermostTry
  <2>7. QED
    BY <2>5, <2>6
<1>7. InnermostTry(regions, t, t)
  <2>1. t # 0 /\ In2(regions, t, t)
    BY In2Facts DEF Ids
  <2>2. QED
    BY <2>1 DEF InnermostTry
<1>8. \E u \in Ids(regions) :
        /\ InnermostHandler(regions, t, u)
        /\ IF u = 1 THEN EnclosingPad(t) = 0 ELSE IsPad(regions, u, EnclosingPad(t))
  <2>1. PICK h \in Ids(regions) :
           /\ In2(regions, t, h) /\ InnermostHandler(regions, t, h) /\ (h = 1 \/ Beside(regions, h))
           /\ EnclosingPad(t) = IF regions[h].Kind = "Filter" THEN regions[regions[h].HandlerRegion].Pad
                                ELSE regions[h].Pad
    BY ClimbEnds
  <2>2. CASE h = 1
    <3>1. EnclosingPad(t) = 0
      BY <1>4, <2>1, <2>2 DEF Rooted
    <3>2. QED
      BY <2>1, <2>2, <3>1
  <2>3. CASE h # 1
    <3>1. Beside(regions, h) /\ h # t
      BY <1>4, <2>1, <2>3
    <3>2. ReadyIn(regions, E, h)
      BY <1>3, <2>1, <3>1
    <3>3. regions[h].Kind # "Root" /\ regions[h].Kind # "Try"
      BY <1>4, <3>1, IdFacts
    <3>4. regions[h].Parent \in E
      BY <3>2, <3>3 DEF ReadyIn
    <3>5. CASE regions[h].Kind = "Filter"
      <4>1. PICK g : g = regions[h].HandlerRegion
        OBVIOUS
      <4>2. g \in Ids(regions) /\ regions[g].Kind = "MExcept" /\ regions[g].Parent = regions[h].Parent
        BY <3>5, <4>1 DEF Filters
      <4>3. Beside(regions, g) /\ g # 0
        BY <4>2 DEF Beside, HandlerKinds, Ids
      <4>4. ReadyIn(regions, E, g)
        BY <3>4, <4>2, <4>3 DEF ReadyIn
      <4>5. PICK d : d = regions[g].Pad
        OBVIOUS
      <4>6. IsPad(regions, g, d)
        BY <4>2, <4>3, <4>4, <4>5 DEF PadsIn
      <4>7. d \in Ids(regions) /\ regions[d].HandlerRegion = g
        BY <4>2, <4>6 DEF IsPad
      <4>8. d = h
        BY <4>1, <4>3, <4>7 DEF Filters
      <4>9. EnclosingPad(t) = h
        BY <2>1, <3>5, <4>1, <4>5, <4>8
      <4>10. IsPad(regions, h, h)
        BY <3>5 DEF IsPad
      <4>11. QED
        BY <2>1, <2>3, <4>9, <4>10
    <3>6. CASE regions[h].Kind # "Filter"
      <4>1. EnclosingPad(t) = regions[h].Pad
        BY <2>1, <3>6
      <4>2. IsPad(regions, h, regions[h].Pad)
        BY <3>1, <3>2 DEF PadsIn
      <4>3. QED
        BY <2>1, <2>3, <4>1, <4>2
    <3>7. QED
      BY <3>5, <3>6
  <2>4. QED
    BY <2>2, <2>3
<1>9. ASSUME NEW r \in Ids(regions), ReadyIn(regions, E2, r) PROVE InnermostTry(rs2, r, rs2[r].HandlerEHPad)
  <2>1. InnermostTry(regions, r, rs2[r].HandlerEHPad)
    <3>1. CASE r = t
      BY <1>1, <1>7, <3>1
    <3>2. CASE regions[r].Parent = t /\ Beside(regions, r)
      BY <1>1, <1>6, <3>2
    <3>3. CASE r # t /\ ~(regions[r].Parent = t /\ Beside(regions, r))
      BY <1>1, <1>5, <1>9, <3>3 DEF PadsIn
    <3>4. QED
      BY <3>1, <3>2, <3>3
  <2>2. QED
    BY <1>1, <2>1, SamePads
<1>10. ASSUME NEW h \in Ids(regions), Beside(regions, h), ReadyIn(regions, E2, h)
       PROVE  /\ IsPad(rs2, h, rs2[h].Pad)
              /\ \E u \in Ids(regions) :
                   /\ InnermostHandler(rs2, regions[h].Parent, u)
                   /\ IF u = 1 THEN rs2[h].ParentPad = 0 ELSE IsPad(rs2, u, rs2[h].ParentPad)
  <2>1. regions[h].Parent \in Ids(regions)
    BY <1>10, HandlerFacts
  <2>2. /\ IsPad(regions, h, rs2[h].Pad)
        /\ \E u \in Ids(regions) :
             /\ InnermostHandler(regions, regions[h].Parent, u)
             /\ IF u = 1 THEN rs2[h].ParentPad = 0 ELSE IsPad(regions, u, rs2[h].ParentPad)
    <3>1. CASE regions[h].Parent = t
      BY <1>1, <1>8, <1>10, <3>1
    <3>2. CASE regions[h].Parent # t
      <4>1. h # t
        BY <1>4, <1>10
      <4>2. rs2[h] = regions[h] /\ ReadyIn(regions, E, h)
        BY <1>1, <1>5, <1>10, <3>2, <4>1
      <4>3. QED
        BY <1>10, <4>2 DEF PadsIn
    <3>3. QED
      BY <3>1, <3>2
  <2>3. PICK u \in Ids(regions) :
             /\ InnermostHandler(regions, regions[h].Parent, u)
             /\ IF u = 1 THEN rs2[h].ParentPad = 0 ELSE IsPad(regions, u, rs2[h].ParentPad)
    BY <2>2
  <2>4. IsPad(rs2, h, rs2[h].Pad)
    BY <1>1, <2>2, SamePads
  <2>5. InnermostHandler(rs2, regions[h].Parent, u)
    BY <1>1, <2>1, <2>3, SamePads
  <2>6. IF u = 1 THEN rs2[h].ParentPad = 0 ELSE IsPad(rs2, u, rs2[h].ParentPad)
    BY <1>1, <2>3, SamePads
  <2>7. QED
    BY <2>4, <2>5, <2>6
<1>11. \A r \in Ids(regions) : ReadyIn(rs2, E2, r) <=> ReadyIn(regions, E2, r)
  BY <1>1, SamePads
<1>12. QED
  BY <1>2, <1>9, <1>10, <1>11 DEF PadsIn

(* Where try t of the region that is entered is the one to enter. *)
LEMMA EnteredTry ==
  ASSUME TreeOK(regions), NEW r \in Ids(regions), NEW x \in Ids(regions), Below(regions, r, x),
         NEW t, t = IF x \in ChildSet(r) THEN x ELSE regions[x].Parent
  PROVE  /\ t \in Ids(regions) /\ regions[t].Kind = "Try" /\ regions[t].Parent = r /\ Family(regions, t, x)
         /\ \A E : t \in E => ReadyIn(regions, E, x)
<1>1. Rooted(regions)
  BY DEF TreeOK
<1>2. CASE regions[x].Kind = "Try" /\ regions[x].Parent = r
  <2>1. t = x
    BY <1>2, ChildFacts
  <2>2. QED
    BY <1>2, <2>1 DEF Family, ReadyIn
<1>3. CASE Beside(regions, x) /\ regions[regions[x].Parent].Parent = r
  <2>1. PICK q : q = regions[x].Parent
    OBVIOUS
  <2>2. q \in Ids(regions) /\ regions[q].Kind = "Try" /\ r < q /\ r \in Nat /\ q \in Nat
    BY <1>1, <1>3, <2>1, HandlerFacts, IdFacts
  <2>3. x \notin ChildSet(r)
    <3>1. q # r
      BY <2>2
    <3>2. QED
      BY <2>1, <3>1, ChildFacts
  <2>4. t = q
    BY <2>1, <2>3
  <2>5. QED
    BY <1>3, <2>1, <2>2, <2>4 DEF Family, ReadyIn
<1>4. QED
  BY <1>2, <1>3 DEF Below

(* The ranges of a try and its handlers are apart. *)
LEMMA FamilyApart ==
  ASSUME NEW rs, TreeOK(rs), NEW t \in Ids(rs), rs[t].Kind = "Try",
         NEW x \in Ids(rs), NEW y \in Ids(rs), Family(rs, t, x), Family(rs, t, y), x # y
  PROVE  Apart(rs, x, y)
<1>1. ASSUME NEW h \in Ids(rs), rs[h].Parent = t, Beside(rs, h)
      PROVE  Apart(rs, h, t) /\ Apart(rs, t, h) /\ ~In2(rs, t, h)
             /\ \A s \in Ids(rs) : s # h => (In2(rs, h, s) <=> s # t /\ In2(rs, t, s))
  <2>1. Apart(rs, h, t) /\ ~In2(rs, t, h) /\ \A s \in Ids(rs) : s # h => (In2(rs, h, s) <=> s # t /\ In2(rs, t, s))
    BY <1>1, HandlerFacts
  <2>2. QED
    BY <2>1 DEF Apart
<1>2. CASE x = t \/ y = t
  BY <1>1, <1>2 DEF Family
<1>3. CASE x # t /\ y # t
  <2>1. rs[x].Parent = t /\ Beside(rs, x) /\ rs[y].Parent = t /\ Beside(rs, y)
    BY <1>3 DEF Family
  <2>2. ~In2(rs, x, y) /\ ~In2(rs, y, x)
    BY <1>1, <2>1
  <2>3. QED
    BY <2>2, In2Facts
<1>4. QED
  BY <1>2, <1>3

(* A region is entered, and with it perhaps its try. *)
LEMMA EnterKeeps ==
  ASSUME IInv, enterRegion
  PROVE  IInv' /\ SameTree(regions, regions')
<1>1. PICK r, o, x : r = CurrentRegion /\ o = CurrentOffset /\ x = NextRegion
  OBVIOUS
<1>2. PICK t : t = IF x \in ChildSet(r) THEN x ELSE regions[x].Parent
  OBVIOUS
<1>3. /\ phase = "switch" /\ o < regions[r].End /\ x # 0 /\ CurrentRegion' = x
      /\ UNCHANGED <<EIT, ClauseList, J, I, search, phase, CurrentOffset, NextRegionTransitionOffset>>
  BY <1>1 DEF enterRegion
<1>4. IF regions[t].EntryRegion = x
      THEN regions' = fgEnterRegion(t) /\ entered' = Append(entered, t)
      ELSE regions' = regions /\ entered' = entered
  <2>1. \E u \in {IF CurrentRegion' \in ChildSet(CurrentRegion) THEN CurrentRegion' ELSE regions[CurrentRegion'].Parent} :
           IF EntersAt(u, CurrentRegion')
           THEN regions' = fgEnterRegion(u) /\ entered' = Append(entered, u)
           ELSE UNCHANGED <<regions, entered>>
    BY Zenon DEF enterRegion
  <2>2. \E u \in {t} :
           IF EntersAt(u, x)
           THEN regions' = fgEnterRegion(u) /\ entered' = Append(entered, u)
           ELSE UNCHANGED <<regions, entered>>
    BY <1>1, <1>2, <1>3, <2>1, Zenon
  <2>3. QED
    BY <2>2 DEF EntersAt
<1>5. /\ TreeInv /\ WalkOK /\ PadsIn(regions, Entered) /\ TreeOK(regions) /\ Rooted(regions)
      /\ Entries(regions) /\ Filters(regions) /\ Made(regions, I) /\ Ordered(regions, I)
  BY DEF IInv, TreeInv, TreeOK, PadsOK
<1>6. /\ o \in Nat /\ r \in Ids(regions) /\ entered \in Seq(Ids(regions))
      /\ \A k \in 1 .. Len(entered) : regions[entered[k]].Kind = "Try"
      /\ \A k, l \in 1 .. Len(entered) : entered[k] = entered[l] => k = l
      /\ o < CodeSize /\ regions[r].Start <= o
      /\ \A s \in Ids(regions) : In2(regions, r, s) => ReadyIn(regions, Entered, s)
      /\ \A s \in Ids(regions) : regions[s].Start < o /\ o < regions[s].End => In2(regions, r, s)
      /\ \A u \in Ids(regions) : regions[u].Kind = "Try" =>
            /\ regions[regions[u].EntryRegion].Start < o => u \in Entered
            /\ u \in Entered => \/ regions[regions[u].EntryRegion].Start < o
                                \/ In2(regions, r, regions[u].EntryRegion)
  BY <1>1, <1>3, <1>5 DEF WalkOK, Ready
<1>7. \A s \in Ids(regions) : regions[s].Start \in Nat /\ regions[s].End \in Nat /\ regions[s].Start < regions[s].End
  BY <1>5, IdFacts
<1>8. Inner(regions, r, o, x)
  <2>1. Around2(regions, r, o)
    BY <1>3, <1>6 DEF Around2
  <2>2. x = getInnerEnclosingRegion(r, o)
    BY <1>1 DEF NextRegion
  <2>3. QED
    BY <1>3, <1>5, <1>6, <2>1, <2>2, InnerFacts
<1>9. /\ x \in Ids(regions) /\ regions[x].Start <= o /\ o < regions[x].End /\ Below(regions, r, x)
      /\ In2(regions, x, r) /\ ~In2(regions, r, x)
      /\ \A s \in Ids(regions) : In2(regions, x, s) /\ s # x => In2(regions, r, s)
  <2>1. x \in Ids(regions) /\ regions[x].Start <= o /\ o < regions[x].End /\ Below(regions, r, x)
    BY <1>8 DEF Inner, Around2
  <2>2. QED
    BY <1>5, <1>6, <2>1, BelowIsIn
<1>10. /\ t \in Ids(regions) /\ regions[t].Kind = "Try" /\ regions[t].Parent = r /\ Family(regions, t, x)
       /\ \A E : t \in E => ReadyIn(regions, E, x)
  BY <1>2, <1>5, <1>6, <1>9, EnteredTry
<1>11. PICK e : e = regions[t].EntryRegion
  OBVIOUS
<1>12. e \in Ids(regions) /\ Family(regions, t, e) /\ regions[e].Start <= regions[x].Start
  BY <1>5, <1>9, <1>10, <1>11 DEF Entries
<1>13. e # x => t \in Entered
  <2> SUFFICES ASSUME e # x PROVE t \in Entered
    OBVIOUS
  <2>1. Apart(regions, e, x)
    BY <1>5, <1>9, <1>10, <1>12, FamilyApart
  <2>2. regions[e].Start < o
    BY <1>6, <1>7, <1>9, <1>12, <2>1 DEF Apart
  <2>3. QED
    BY <1>6, <1>10, <1>11, <2>2
<1>14. e = x => t \notin Entered
  <2> SUFFICES ASSUME e = x, t \in Entered PROVE FALSE
    OBVIOUS
  <2>1. regions[x].Start < o \/ In2(regions, r, x)
    BY <1>6, <1>10, <1>11
  <2>2. regions[x].Start < o
    BY <1>9, <2>1
  <2>3. In2(regions, r, x)
    BY <1>6, <1>9, <2>2
  <2>4. QED
    BY <1>9, <2>3
<1>15. PICK rs2, E2, en2 : rs2 = regions' /\ E2 = Entered' /\ en2 = entered'
  OBVIOUS
<1>16. /\ SameTree(regions, rs2) /\ (\A s \in Ids(regions) : rs2[s].EntryRegion = regions[s].EntryRegion)
       /\ PadsIn(rs2, E2)
       /\ t \in E2 /\ (\A u : u \in E2 <=> u \in Entered \/ u = t) /\ (t \notin Entered => e = x)
       /\ en2 \in Seq(Ids(regions))
       /\ \A k \in 1 .. Len(en2) : regions[en2[k]].Kind = "Try"
       /\ \A k, l \in 1 .. Len(en2) : en2[k] = en2[l] => k = l
  <2>1. CASE e = x
    <3>1. rs2 = fgEnterRegion(t) /\ en2 = Append(entered, t)
      BY <1>4, <1>11, <1>15, <2>1
    <3>2. t \notin Entered
      BY <1>14, <2>1
    <3>3. /\ en2 \in Seq(Ids(regions)) /\ Len(en2) = Len(entered) + 1 /\ Len(entered) \in Nat /\ en2[Len(entered) + 1] = t
          /\ \A k \in 1 .. Len(entered) : en2[k] = entered[k]
      BY <1>6, <1>10, <3>1
    <3>4. \A k \in 1 .. Len(en2) : k \in 1 .. Len(entered) \/ k = Len(entered) + 1
      BY <3>3
    <3>5. \A k \in 1 .. Len(entered) : k \in 1 .. Len(en2) /\ en2[k] \in Entered /\ en2[k] # t
      BY <3>2, <3>3 DEF Entered
    <3>6. E2 = {en2[k] : k \in 1 .. Len(en2)}
      BY <1>15 DEF Entered
    <3>7. \A u : u \in E2 <=> u \in Entered \/ u = t
      <4>1. Len(entered) + 1 \in 1 .. Len(en2)
        BY <3>3
      <4>2. QED
        BY <3>3, <3>4, <3>5, <3>6, <4>1 DEF Entered
    <3>8. \A k \in 1 .. Len(en2) : regions[en2[k]].Kind = "Try"
      BY <1>6, <1>10, <3>3, <3>4
    <3>9. \A k, l \in 1 .. Len(en2) : en2[k] = en2[l] => k = l
      BY <1>6, <3>3, <3>4, <3>5
    <3>10. MadePads(rs2, t)
      BY <1>5, <1>10, <3>1, EnterRegionIs
    <3>11. PadsIn(rs2, E2)
      <4>1. E2 = Entered \cup {t}
        BY <3>7
      <4>2. QED
        BY <1>5, <1>6, <1>10, <3>10, <4>1, PadsEnter
    <3>12. QED
      BY <2>1, <3>3, <3>7, <3>8, <3>9, <3>10, <3>11 DEF MadePads
  <2>2. CASE e # x
    <3>1. rs2 = regions /\ en2 = entered
      BY <1>4, <1>11, <1>15, <2>2
    <3>2. E2 = Entered
      BY <1>15, <3>1 DEF Entered
    <3>3. SameTree(regions, rs2)
      BY <1>5, <3>1 DEF SameTree, Rooted
    <3>4. QED
      BY <1>5, <1>6, <1>13, <2>2, <3>1, <3>2, <3>3
  <2>3. QED
    BY <2>1, <2>2
<1>17. /\ TreeOK(rs2) /\ Ids(rs2) = Ids(regions) /\ Filters(rs2) /\ Made(rs2, I) /\ Ordered(rs2, I)
       /\ \A s, u \in Ids(regions) : In2(rs2, s, u) <=> In2(regions, s, u)
       /\ \A s \in Ids(regions) : Beside(rs2, s) <=> Beside(regions, s)
  BY <1>5, <1>16, SameTreeOK, SameMade
<1>18. \A s \in Ids(regions) : /\ rs2[s].Kind = regions[s].Kind /\ rs2[s].Parent = regions[s].Parent
                               /\ rs2[s].Start = regions[s].Start /\ rs2[s].End = regions[s].End
  BY <1>16 DEF SameTree
<1>19. Entries(rs2)
  <2>1. \A u, y \in Ids(regions) : Family(rs2, u, y) <=> Family(regions, u, y)
    BY <1>17, <1>18 DEF Family
  <2>2. QED
    BY <1>5, <1>16, <1>17, <1>18, <2>1 DEF Entries
<1>20. phase' = "switch"
  BY <1>3
<1>21. TreeInv'
  <2>1. BuildOK' /\ NumClauses' = NumClauses
    BY <1>3, <1>5, <1>15, <1>17, <1>20, BuildKept
  <2>2. ClausesOK' /\ Sorted'
    BY <1>3, <1>5, <2>1 DEF TreeInv, ClausesOK, Sorted, ClauseIn
  <2>3. TreeOK(regions') /\ Entries(regions') /\ Filters(regions')
    BY <1>15, <1>17, <1>19
  <2>4. Made(regions, I)'
    BY <1>3, <1>15, <1>17, <2>1 DEF Made
  <2>5. Ordered(regions, I)'
    BY <1>3, <1>15, <1>17, <2>1 DEF Ordered
  <2>6. QED
    BY <2>1, <2>2, <2>3, <2>4, <2>5 DEF TreeInv
<1>22. PadsOK'
  BY <1>15, <1>16 DEF PadsOK
<1>23. ASSUME NEW s \in Ids(regions), In2(regions, x, s) PROVE ReadyIn(rs2, E2, s)
  <2>1. ReadyIn(regions, E2, s)
    <3>1. CASE s = x
      BY <1>10, <1>16, <3>1
    <3>2. CASE s # x
      <4>1. ReadyIn(regions, Entered, s)
        BY <1>6, <1>9, <1>23, <3>2
      <4>2. QED
        BY <1>16, <4>1 DEF ReadyIn
    <3>3. QED
      BY <3>1, <3>2
  <2>2. QED
    BY <1>5, <1>16, <2>1, SamePads
<1>24. ASSUME NEW s \in Ids(regions), regions[s].Start < o, o < regions[s].End PROVE In2(regions, x, s)
  <2>1. In2(regions, r, s)
    BY <1>6, <1>24
  <2>2. QED
    BY <1>5, <1>6, <1>9, <2>1, In2Facts
<1>25. ASSUME NEW u \in Ids(regions), regions[u].Kind = "Try", NEW v, v = regions[u].EntryRegion
       PROVE  /\ v \in Ids(regions)
              /\ regions[v].Start < o => u \in E2
              /\ u \in E2 => regions[v].Start < o \/ In2(regions, x, v)
  <2>1. v \in Ids(regions)
    BY <1>5, <1>25 DEF Entries
  <2>2. /\ regions[v].Start < o => u \in Entered
        /\ u \in Entered => regions[v].Start < o \/ In2(regions, r, v)
    BY <1>6, <1>25
  <2>3. In2(regions, r, v) => In2(regions, x, v)
    BY <1>5, <1>6, <1>9, <2>1, In2Facts
  <2>4. u = t /\ u \notin Entered => In2(regions, x, v)
    <3> SUFFICES ASSUME u = t, u \notin Entered PROVE In2(regions, x, v)
      OBVIOUS
    <3>1. v = x
      BY <1>11, <1>16, <1>25
    <3>2. QED
      BY <1>5, <1>9, <3>1, In2Facts
  <2>5. QED
    BY <1>16, <2>1, <2>2, <2>3, <2>4
<1>26. WalkOK'
  <2>1. /\ CurrentOffset' = o /\ CurrentRegion' = x /\ regions' = rs2 /\ entered' = en2 /\ Entered' = E2
        /\ phase' = "switch"
    BY <1>1, <1>3, <1>15
  <2>2. /\ o \in Nat /\ x \in Ids(rs2) /\ en2 \in Seq(Ids(rs2)) /\ o < CodeSize /\ rs2[x].Start <= o
    BY <1>6, <1>9, <1>16, <1>17, <1>18
  <2>3. \A k \in 1 .. Len(en2) : rs2[en2[k]].Kind = "Try"
    <3>1. \A k \in 1 .. Len(en2) : en2[k] \in Ids(regions)
      BY <1>16
    <3>2. QED
      BY <1>16, <1>18, <3>1
  <2>4. \A s \in Ids(rs2) : In2(rs2, x, s) => ReadyIn(rs2, E2, s)
    BY <1>9, <1>17, <1>23
  <2>5. \A s \in Ids(rs2) : rs2[s].Start < o /\ o < rs2[s].End => In2(rs2, x, s)
    BY <1>9, <1>17, <1>18, <1>24
  <2>6. ASSUME NEW u \in Ids(rs2), rs2[u].Kind = "Try"
        PROVE  /\ rs2[rs2[u].EntryRegion].Start < o => u \in E2
               /\ u \in E2 => rs2[rs2[u].EntryRegion].Start < o \/ In2(rs2, x, rs2[u].EntryRegion)
    <3>1. PICK v : v = regions[u].EntryRegion
      OBVIOUS
    <3>2. u \in Ids(regions) /\ regions[u].Kind = "Try" /\ rs2[u].EntryRegion = v
      BY <1>16, <1>17, <1>18, <2>6, <3>1
    <3>3. /\ v \in Ids(regions)
          /\ regions[v].Start < o => u \in E2
          /\ u \in E2 => regions[v].Start < o \/ In2(regions, x, v)
      BY <1>25, <3>1, <3>2
    <3>4. QED
      BY <1>9, <1>17, <1>18, <3>2, <3>3
  <2>7. \A k, l \in 1 .. Len(en2) : en2[k] = en2[l] => k = l
    BY <1>16
  <2>8. QED
    BY <2>1, <2>2, <2>3, <2>4, <2>5, <2>6, <2>7 DEF WalkOK, Ready
<1>27. QED
  BY <1>15, <1>16, <1>21, <1>22, <1>26 DEF IInv

(* Nothing of the tree changes. *)
LEMMA TreeStutters ==
  ASSUME IInv, UNCHANGED treeVars
  PROVE  IInv'
<1>1. /\ EIT' = EIT /\ ClauseList' = ClauseList /\ J' = J /\ I' = I /\ regions' = regions /\ search' = search
      /\ phase' = phase /\ CurrentOffset' = CurrentOffset /\ CurrentRegion' = CurrentRegion
      /\ NextRegionTransitionOffset' = NextRegionTransitionOffset /\ entered' = entered
  BY DEF treeVars
<1>2. TreeInv'
  <2>1. TreeInv
    BY DEF IInv
  <2>2. NumClauses' = NumClauses /\ Clause' = Clause
    BY <1>1 DEF NumClauses, Clause
  <2>3. BuildOK'
    BY <1>1, <2>1, <2>2 DEF TreeInv, BuildOK
  <2>4. QED
    BY <1>1, <2>1, <2>3, TreeKept DEF TreeInv
<1>3. PadsOK'
  BY <1>1, PadsKept DEF IInv
<1>4. Entered' = Entered
  BY <1>1 DEF Entered
<1>5. WalkOK'
  BY <1>1, <1>4 DEF IInv, WalkOK, Ready
<1>6. QED
  BY <1>2, <1>3, <1>5 DEF IInv

-----------------------------------------------------------------------------
(* The invariant of the first pass: the clauses are sorted, the tree has the ranges   *)
(* of the clauses handled so far, nested as in the code, and the walk has entered     *)
(* what it passed, with the right pads. *)
THEOREM Invariance == TreeSpec => []IInv
<1>1. TreeInit => IInv
  BY InitInv
<1>2. IInv /\ [TreeNext]_treeVars => IInv'
  <2> SUFFICES ASSUME IInv, [TreeNext]_treeVars PROVE IInv'
    OBVIOUS
  <2>1. CASE sortClause
    BY <2>1, SortKeeps
  <2>2. CASE rgnFindLowestEnclosingRegion
    BY <2>2, FindKeeps
  <2>3. CASE insertClause
    BY <2>3, InsertKeeps
  <2>4. CASE exitRegion
    BY <2>4, ExitKeeps
  <2>5. CASE enterRegion
    BY <2>5, EnterKeeps
  <2>6. CASE stayInRegion
    BY <2>6, StayKeeps
  <2>7. CASE nextInstruction
    BY <2>7, InstructionKeeps
  <2>8. CASE UNCHANGED treeVars
    BY <2>8, TreeStutters
  <2>9. QED
    BY <2>1, <2>2, <2>3, <2>4, <2>5, <2>6, <2>7, <2>8 DEF TreeNext, buildTree, fgSwitchRegion
<1>3. QED
  BY <1>1, <1>2, PTL DEF TreeSpec

-----------------------------------------------------------------------------
(* What the invariant says of the tree, of the current region and of the pads. *)

(* Within says what In2 says, and Innermost finds the innermost region of a set. *)
LEMMA InnermostIs ==
  ASSUME TreeOK(regions), NEW S, NEW a \in S, \A s \in S : s \in Ids(regions), \A s \in S : In2(regions, a, s)
  PROVE  Innermost(S) = a
<1>1. \A r, s : Within(r, s) <=> In2(regions, r, s)
  BY DEF Within, Inside, In2
<1>2. \A s \in S : Within(a, s)
  BY <1>1
<1>3. ASSUME NEW x \in S, \A s \in S : Within(x, s) PROVE x = a
  <2>1. In2(regions, x, a) /\ In2(regions, a, x)
    BY <1>1, <1>3
  <2>2. QED
    BY <2>1, In2Facts
<1>4. QED
  BY <1>2, <1>3 DEF Innermost

(* The child of a try that starts where a handler of it does is the region of that handler. *)
LEMMA ChildOfClause ==
  ASSUME TreeInv, phase \notin Building, NEW t \in Ids(regions), regions[t].Kind = "Try", NEW c \in 1 .. NumClauses,
         HasRange(regions, t, Try(EIT[c])), NEW x \in Ids(regions), regions[x].Parent = t,
         regions[x].Start = EIT[c].HandlerOffset
  PROVE  \E a \in I + 1 .. NumClauses : ClauseList[a] = c /\ HandlerOf(regions, x, EIT[ClauseList[a]])
<1>1. TreeOK(regions) /\ Rooted(regions) /\ ClausesOK /\ Made(regions, I) /\ Sorted /\ I \in Nat /\ NumClauses \in Nat
  BY DEF TreeInv, TreeOK, BuildOK, ClausesOK, NumClauses
<1>2. /\ EIT[c] \in Clauses /\ Handler(EIT[c]) \in Handlers(EIT[c]) /\ Handlers(EIT[c]) \subseteq Ranges(EIT[c])
      /\ Ranges(EIT[c]) \subseteq RangeSet /\ Disjoint(Handler(EIT[c]), Try(EIT[c])) /\ Try(EIT[c]) \in Ranges(EIT[c])
  BY <1>1, ClausePairs, ClauseRanges
<1>3. PICK w : w = Handler(EIT[c])
  OBVIOUS
<1>4. w \in RangeSet /\ w[1] \in Nat /\ w[2] \in Nat /\ w[1] < w[2] /\ regions[x].Start = w[1]
      /\ Disjoint(w, Try(EIT[c])) /\ Try(EIT[c]) \in RangeSet
  <2>1. w \in RangeSet /\ Disjoint(w, Try(EIT[c])) /\ Try(EIT[c]) \in RangeSet
    BY <1>2, <1>3
  <2>2. w[1] = EIT[c].HandlerOffset
    BY <1>3 DEF Handler
  <2>3. QED
    BY <2>1, <2>2, RangeFacts
<1>5. /\ regions[x].Start \in Nat /\ regions[x].End \in Nat /\ regions[x].Start < regions[x].End
      /\ regions[t].Start \in Nat /\ regions[t].End \in Nat
  BY <1>1, IdFacts
<1>6. x # 1
  BY <1>1 DEF Rooted, Ids
<1>7. regions[x].Kind # "Try"
  <2> SUFFICES ASSUME regions[x].Kind = "Try" PROVE FALSE
    OBVIOUS
  <2>1. In2(regions, x, t)
    BY <1>1, TryFacts
  <2>2. regions[t].Start <= w[1] /\ w[1] < regions[t].End
    BY <1>4, <1>5, <2>1 DEF In2
  <2>3. w[2] <= regions[t].Start \/ regions[t].End <= w[1]
    BY <1>4 DEF HasRange, Disjoint
  <2>4. QED
    BY <1>4, <1>5, <2>2, <2>3
<1>8. PICK a \in I + 1 .. NumClauses : RegionOf(regions, x, EIT[ClauseList[a]])
  <2>1. x \in 2 .. Len(regions)
    BY <1>1, <1>6, IdFacts
  <2>2. QED
    BY <1>1, <2>1 DEF Made
<1>9. PICK j : j = ClauseList[a]
  OBVIOUS
<1>10. j \in 1 .. NumClauses /\ HandlerOf(regions, x, EIT[j])
  <2>1. a \in 1 .. NumClauses
    BY <1>1
  <2>2. j \in 1 .. NumClauses
    BY <1>1, <1>9, <2>1 DEF Sorted
  <2>3. QED
    BY <1>7, <1>8, <1>9, <2>2 DEF RegionOf
<1>11. EIT[j] \in Clauses /\ Try(EIT[j]) \in RangeSet /\ Handlers(EIT[j]) \subseteq RangeSet
       /\ Handler(EIT[j]) \in Handlers(EIT[j]) /\ (EIT[j].Kind = "Filter" => Filter(EIT[j]) \in Handlers(EIT[j]))
  BY <1>1, <1>10, ClausePairs, ClauseRanges
<1>12. Try(EIT[j]) = Try(EIT[c])
  <2>1. HasRange(regions, t, Try(EIT[j]))
    BY <1>10 DEF HandlerOf
  <2>2. Try(EIT[j])[1] = Try(EIT[c])[1] /\ Try(EIT[j])[2] = Try(EIT[c])[2]
    BY <2>1 DEF HasRange
  <2>3. QED
    BY <1>4, <1>11, <2>2, RangeFacts
<1>13. PICK z \in Handlers(EIT[j]) : regions[x].Start = z[1]
  BY <1>10, <1>11 DEF HandlerOf, HasRange
<1>14. j = c
  <2> SUFFICES ASSUME j # c PROVE FALSE
    OBVIOUS
  <2>1. Nest(EIT[j], EIT[c]) \/ Nest(EIT[c], EIT[j])
    BY <1>1, <1>10, ClausePairs
  <2>2. Disjoint(z, w)
    BY <1>2, <1>3, <1>11, <1>12, <2>1, NestSame
  <2>3. z[1] \in Nat /\ z[2] \in Nat /\ z[1] < z[2]
    BY <1>11, RangeFacts
  <2>4. QED
    BY <1>4, <1>13, <2>2, <2>3 DEF Disjoint
<1>15. QED
  BY <1>8, <1>9, <1>10, <1>14

(* The tree follows the ranges. *)
LEMMA FollowsRanges == IInv => TreeFollowsRanges
<1> SUFFICES ASSUME IInv, phase \notin {"sort", "find", "insert"}
             PROVE  /\ \A r \in 2 .. Len(regions) :
                         rgnGetEnclosingAncestor(r) = Innermost({s \in Regions \ {r} : Within(r, s)})
                    /\ \A r, s \in Regions : IsTry(r) /\ IsTry(s) /\ Within(r, s) /\ Within(s, r) => r = s
                    /\ \A t \in Regions : IsTry(t) => HandlersInOrder(t)
  BY DEF TreeFollowsRanges
<1>1. TreeInv /\ TreeOK(regions) /\ Rooted(regions) /\ Regions = Ids(regions) /\ phase \notin Building
  BY DEF IInv, TreeInv, TreeOK, Regions, Ids, Building
<1>2. \A r, s : Within(r, s) <=> In2(regions, r, s)
  BY DEF Within, Inside, In2
<1>3. ASSUME NEW r \in 2 .. Len(regions)
      PROVE  rgnGetEnclosingAncestor(r) = Innermost({s \in Regions \ {r} : Within(r, s)})
  <2> DEFINE S == {s \in Regions \ {r} : Within(r, s)}
  <2>1. PICK a : a = rgnGetEnclosingAncestor(r)
    OBVIOUS
  <2>2. r \in Ids(regions) /\ r # 1 /\ r \in Nat
    BY <1>1 DEF Rooted, Ids
  <2>3. /\ a \in Ids(regions) /\ a < r /\ In2(regions, r, a)
        /\ \A s \in Ids(regions) : In2(regions, r, s) /\ s # r => In2(regions, a, s)
    BY <1>1, <2>1, <2>2, AncestorFacts
  <2>4. a \in S
    <3>1. a \in Nat
      BY <1>1, <2>3, IdFacts
    <3>2. QED
      BY <1>1, <1>2, <2>2, <2>3, <3>1
  <2>5. \A s \in S : s \in Ids(regions) /\ In2(regions, a, s)
    BY <1>1, <1>2, <2>3
  <2> HIDE DEF S
  <2>6. Innermost(S) = a
    BY <1>1, <2>4, <2>5, InnermostIs
  <2>7. QED
    BY <2>1, <2>6 DEF S
<1>4. \A r, s \in Regions : IsTry(r) /\ IsTry(s) /\ Within(r, s) /\ Within(s, r) => r = s
  BY <1>1, <1>2, In2Facts
<1>5. ASSUME NEW t \in Regions, IsTry(t), NEW c \in 1 .. Len(EIT), NEW d \in 1 .. Len(EIT), c < d,
             Try(EIT[c]) = Try(EIT[d]), <<regions[t].Start, regions[t].End>> = Try(EIT[c]),
             NEW k \in 1 .. Len(Children(t)), NEW l \in 1 .. Len(Children(t)),
             regions[Children(t)[k]].Start = EIT[c].HandlerOffset,
             regions[Children(t)[l]].Start = EIT[d].HandlerOffset
      PROVE  k < l
  <2>1. /\ t \in Ids(regions) /\ regions[t].Kind = "Try" /\ c \in 1 .. NumClauses /\ d \in 1 .. NumClauses
        /\ HasRange(regions, t, Try(EIT[c])) /\ HasRange(regions, t, Try(EIT[d]))
    <3>1. Try(EIT[c])[1] = regions[t].Start /\ Try(EIT[c])[2] = regions[t].End
      BY <1>5
    <3>2. QED
      BY <1>1, <1>5, <3>1 DEF IsTry, NumClauses, HasRange
  <2>2. PICK x, y : x = Children(t)[k] /\ y = Children(t)[l]
    OBVIOUS
  <2>3. /\ x \in Ids(regions) /\ regions[x].Parent = t /\ y \in Ids(regions) /\ regions[y].Parent = t
        /\ k \in Nat /\ l \in Nat
    <3>1. k \in Nat /\ l \in Nat
      OBVIOUS
    <3>2. \A n \in 1 .. Len(Children(t)) :
            Children(t)[n] \in Ids(regions) /\ regions[Children(t)[n]].Parent = t
      BY <1>1, <2>1, ChildFacts, Zenon
    <3>3. QED
      BY <2>2, <3>1, <3>2, Zenon
  <2>4. regions[x].Start = EIT[c].HandlerOffset /\ regions[y].Start = EIT[d].HandlerOffset
    BY <1>5, <2>2
  <2>5. PICK a \in I + 1 .. NumClauses : ClauseList[a] = c /\ HandlerOf(regions, x, EIT[ClauseList[a]])
    BY <1>1, <2>1, <2>3, <2>4, ChildOfClause
  <2>6. PICK b \in I + 1 .. NumClauses : ClauseList[b] = d /\ HandlerOf(regions, y, EIT[ClauseList[b]])
    BY <1>1, <2>1, <2>3, <2>4, ChildOfClause
  <2>7. I \in Nat /\ NumClauses \in Nat /\ a \in Nat /\ b \in Nat /\ a \in 1 .. NumClauses /\ b \in 1 .. NumClauses
    <3>1. I \in Nat /\ NumClauses \in Nat
      BY <1>1 DEF TreeInv, BuildOK, ClausesOK, NumClauses
    <3>2. QED
      BY <2>5, <2>6, <3>1
  <2>8. a < b
    <3>1. J = NumClauses + 1
      BY <1>1 DEF TreeInv, BuildOK, Building
    <3>2. a \in 1 .. J - 1 /\ b \in 1 .. J - 1
      BY <2>7, <3>1
    <3>3. Try(EIT[ClauseList[a]]) = Try(EIT[ClauseList[b]]) /\ ClauseList[a] < ClauseList[b]
      BY <1>5, <2>5, <2>6
    <3>4. QED
      BY <1>1, <3>2, <3>3 DEF TreeInv, Sorted
  <2>9. k # l
    <3> SUFFICES ASSUME k = l PROVE FALSE
      OBVIOUS
    <3>1. EIT[c].HandlerOffset = EIT[d].HandlerOffset
      BY <2>2, <2>4
    <3>2. PICK w, z : w = Handler(EIT[c]) /\ z = Handler(EIT[d])
      OBVIOUS
    <3>3. c # d /\ EIT[c] \in Clauses /\ EIT[d] \in Clauses /\ (Nest(EIT[c], EIT[d]) \/ Nest(EIT[d], EIT[c]))
      <4>1. c # d
        BY <1>5
      <4>2. QED
        BY <1>1, <2>1, <4>1, ClausePairs DEF TreeInv
    <3>4. w \in Handlers(EIT[c]) /\ z \in Handlers(EIT[d]) /\ w \in RangeSet /\ z \in RangeSet
      BY <3>2, <3>3, ClauseRanges
    <3>5. Disjoint(w, z)
      BY <1>5, <3>3, <3>4, NestSame
    <3>6. w[1] = z[1]
      BY <3>1, <3>2 DEF Handler
    <3>7. w[1] \in Nat /\ w[2] \in Nat /\ w[1] < w[2] /\ z[1] \in Nat /\ z[2] \in Nat /\ z[1] < z[2]
      BY <3>4, RangeFacts
    <3>8. QED
      BY <3>5, <3>6, <3>7 DEF Disjoint
  <2>10. ~(l < k)
    <3> SUFFICES ASSUME l < k PROVE FALSE
      OBVIOUS
    <3>1. /\ k \in 1 .. Len(regions[t].Children) /\ l \in 1 .. Len(regions[t].Children)
          /\ HandlerOf(regions, regions[t].Children[l], EIT[ClauseList[b]])
          /\ HandlerOf(regions, regions[t].Children[k], EIT[ClauseList[a]])
      BY <2>2, <2>5, <2>6 DEF Children
    <3>2. b <= a
      BY <1>1, <2>1, <3>1, Zenon DEF TreeInv, Ordered
    <3>3. QED
      BY <2>7, <2>8, <3>2
  <2>11. QED
    BY <2>3, <2>9, <2>10
<1>6. \A t \in Regions : IsTry(t) => HandlersInOrder(t)
  BY <1>5 DEF HandlersInOrder
<1>7. QED
  BY <1>3, <1>4, <1>6

\* One step down towards an offset.
DownStep(x, o) == IF getInnerEnclosingRegion(x, o) = 0 THEN x ELSE getInnerEnclosingRegion(x, o)
DownBody(o, f) == [n \in 0 .. Len(regions) |->
                     IF n = 0 THEN 1
                     ELSE LET inner == getInnerEnclosingRegion(f[n - 1], o)
                          IN  IF inner = 0 THEN f[n - 1] ELSE inner]
Down(o) == CHOOSE f : f = DownBody(o, f)

(* The walk down, step by step. *)
LEMMA DownIs ==
  ASSUME TreeOK(regions), NEW o \in Nat, o < CodeSize, NEW down, down = Down(o)
  PROVE  /\ down[0] = 1
         /\ \A m \in Nat : m + 1 <= Len(regions) => down[m + 1] = DownStep(down[m], o)
<1> DEFINE S == {x \in Ids(regions) : Around2(regions, x, o)}
           H == [x \in S |-> DownStep(x, o)]
           L == Len(regions)
<1>1. L \in Nat /\ 1 \in S
  <2>1. 1 \in Ids(regions) /\ regions[1].Start = 0 /\ regions[1].End = CodeSize /\ L \in Nat
    BY DEF TreeOK, Rooted, Ids
  <2>2. QED
    BY <2>1 DEF Around2
<1>2. \A x \in S : DownStep(x, o) \in S
  <2> SUFFICES ASSUME NEW x \in S PROVE DownStep(x, o) \in S
    OBVIOUS
  <2>1. PICK y : y = getInnerEnclosingRegion(x, o)
    OBVIOUS
  <2>2. y # 0 => Inner(regions, x, o, y)
    BY <2>1, InnerFacts
  <2>3. y # 0 => y \in S
    BY <2>2 DEF Inner
  <2> HIDE DEF S
  <2>4. QED
    BY <2>1, <2>3 DEF DownStep
<1> HIDE DEF S
<1>3. H \in [S -> S]
  BY <1>2
<1>4. PICK f : Iterates(f, S, 1, H, L)
  <2> HIDE DEF H, L
  <2> QED
    BY <1>1, <1>3, Iterated
<1>5. f \in [0 .. L -> S] /\ f = [n \in 0 .. L |-> IF n = 0 THEN 1 ELSE H[f[n - 1]]]
  BY <1>4 DEF Iterates
<1>6. ASSUME NEW n \in 0 .. L, n # 0 PROVE H[f[n - 1]] = DownStep(f[n - 1], o)
  <2>1. n - 1 \in 0 .. L
    BY <1>1, <1>6
  <2>2. f[n - 1] \in S
    BY <1>5, <2>1
  <2>3. QED
    BY <2>2
<1> HIDE DEF H
<1>7. \A n \in 0 .. L : (IF n = 0 THEN 1 ELSE H[f[n - 1]])
                        = (IF n = 0 THEN 1
                           ELSE LET inner == getInnerEnclosingRegion(f[n - 1], o)
                                IN  IF inner = 0 THEN f[n - 1] ELSE inner)
  BY <1>6, Zenon DEF DownStep
<1>8. f = DownBody(o, f)
  BY <1>5, <1>7 DEF DownBody
<1>9. down = DownBody(o, down)
  BY <1>8, Zenon DEF Down
<1>10. down[0] = 1
  BY <1>1, <1>9, 0 \in 0 .. L DEF DownBody
<1>11. ASSUME NEW m \in Nat, m + 1 <= L PROVE down[m + 1] = DownStep(down[m], o)
  <2>1. m + 1 \in 0 .. L /\ m + 1 # 0 /\ (m + 1) - 1 = m
    BY <1>1, <1>11
  <2>2. down[m + 1] = DownStep(down[(m + 1) - 1], o)
    BY <1>9, <2>1, Zenon DEF DownBody, DownStep
  <2>3. QED
    BY <2>1, <2>2
<1>12. QED
  BY <1>10, <1>11

\* As far as the walk down to the offset has come.
Descended(o, m, x) ==
  /\ x \in Ids(regions) /\ Around2(regions, x, o)
  /\ getInnerEnclosingRegion(x, o) = 0 \/ x >= m + 1

(* The walk down ends with the innermost region around the offset. *)
LEMMA WalkEnds ==
  ASSUME TreeOK(regions), NEW o \in Nat, o < CodeSize
  PROVE  /\ Walk(o) \in Ids(regions) /\ Around2(regions, Walk(o), o)
         /\ \A s \in Ids(regions) : Around2(regions, s, o) <=> In2(regions, Walk(o), s)
<1>1. PICK down : down = Down(o)
  OBVIOUS
<1>2. /\ down[0] = 1
      /\ \A m \in Nat : m + 1 <= Len(regions) => down[m + 1] = DownStep(down[m], o)
  BY <1>1, DownIs
<1>3. Rooted(regions) /\ Len(regions) \in Nat /\ 1 \in Ids(regions) /\ Around2(regions, 1, o)
  <2>1. Rooted(regions) /\ Len(regions) \in Nat /\ 1 \in Ids(regions)
        /\ regions[1].Start = 0 /\ regions[1].End = CodeSize
    BY DEF TreeOK, Rooted, Ids
  <2>2. QED
    BY <2>1 DEF Around2
<1> DEFINE T == {m \in Nat : m <= Len(regions) => Descended(o, m, down[m])}
<1>4. 0 \in T
  BY <1>2, <1>3 DEF Descended
<1>5. ASSUME NEW m \in Nat, m \in T PROVE m + 1 \in T
  <2> SUFFICES ASSUME m + 1 <= Len(regions) PROVE Descended(o, m + 1, down[m + 1])
    OBVIOUS
  <2>1. PICK x, y : x = down[m] /\ y = getInnerEnclosingRegion(x, o)
    OBVIOUS
  <2>2. Descended(o, m, x) /\ down[m + 1] = DownStep(x, o)
    BY <1>2, <1>3, <1>5, <2>1
  <2>3. x \in Ids(regions) /\ Around2(regions, x, o) /\ (y = 0 \/ x >= m + 1)
    BY <2>1, <2>2 DEF Descended
  <2>4. CASE y = 0
    <3>1. down[m + 1] = x
      BY <2>1, <2>2, <2>4 DEF DownStep
    <3>2. QED
      BY <2>1, <2>3, <2>4, <3>1 DEF Descended
  <2>5. CASE y # 0
    <3>1. down[m + 1] = y
      BY <2>1, <2>2, <2>5 DEF DownStep
    <3>2. Inner(regions, x, o, y)
      BY <2>1, <2>3, <2>5, InnerFacts
    <3>3. y \in Ids(regions) /\ Around2(regions, y, o) /\ y > x
      BY <3>2 DEF Inner
    <3>4. y >= (m + 1) + 1
      <4>1. x \in Nat /\ y \in Nat
        BY <1>3, <2>3, <3>3, IdFacts
      <4>2. QED
        BY <2>3, <2>5, <3>3, <4>1
    <3>5. QED
      BY <3>1, <3>3, <3>4 DEF Descended
  <2>6. QED
    BY <2>4, <2>5
<1>6. \A m \in Nat : m \in T
  <2> HIDE DEF T
  <2> QED
    BY <1>4, <1>5, SetInduction
<1>7. PICK w : w = down[Len(regions)]
  OBVIOUS
<1>8. Descended(o, Len(regions), w)
  BY <1>3, <1>6, <1>7
<1>9. w \in Ids(regions) /\ Around2(regions, w, o) /\ getInnerEnclosingRegion(w, o) = 0
  <2>1. w \in Nat /\ w <= Len(regions)
    BY <1>3, <1>8 DEF Descended, Ids
  <2>2. ~(w >= Len(regions) + 1)
    BY <1>3, <2>1
  <2>3. QED
    BY <1>8, <2>2 DEF Descended
<1>10. \A y \in 2 .. Len(regions) : Near(regions, w, y) => ~Around2(regions, y, o)
  BY <1>9, InnerFacts
<1>11. \A s \in Ids(regions) : Around2(regions, s, o) <=> In2(regions, w, s)
  BY <1>9, <1>10, InnermostAround
<1>12. Walk(o) = w
  <2>1. Walk(o) = Down(o)[Len(regions)]
    BY Zenon DEF Walk, Down, DownBody
  <2>2. QED
    BY <1>1, <1>7, <2>1
<1>13. QED
  BY <1>9, <1>11, <1>12

(* The region followed, walked down to and looked up is the same. *)
LEMMA Agrees == IInv => RegionsAgree
<1> SUFFICES ASSUME IInv, phase = "instruction"
             PROVE  /\ CurrentRegion = Innermost(Around(CurrentOffset))
                    /\ CurrentRegion = Walk(CurrentOffset)
                    /\ CurrentRegion = fgGetRegionFromMSILOffset(CurrentOffset)
  BY DEF RegionsAgree
<1>1. TreeInv /\ WalkOK /\ TreeOK(regions) /\ Rooted(regions)
  BY DEF IInv, TreeInv, TreeOK
<1>2. PICK r, o : r = CurrentRegion /\ o = CurrentOffset
  OBVIOUS
<1>3. /\ o \in Nat /\ o < CodeSize /\ r \in Ids(regions) /\ Around2(regions, r, o)
      /\ \A s \in Ids(regions) : Around2(regions, s, o) <=> In2(regions, r, s)
  BY <1>1, <1>2, AtInstruction DEF WalkOK
<1>4. PICK A : A = Around(o)
  OBVIOUS
<1>5. r \in A /\ \A s : s \in A <=> s \in Ids(regions) /\ In2(regions, r, s)
  <2>1. \A s : s \in A <=> s \in Ids(regions) /\ Around2(regions, s, o)
    BY <1>4 DEF Around, Regions, Ids, Contains, Around2
  <2>2. QED
    BY <1>3, <2>1
<1>6. r = Innermost(A)
  BY <1>1, <1>5, InnermostIs
<1>7. r = Walk(o)
  <2>1. PICK w : w = Walk(o)
    OBVIOUS
  <2>2. w \in Ids(regions) /\ Around2(regions, w, o)
        /\ \A s \in Ids(regions) : Around2(regions, s, o) <=> In2(regions, w, s)
    BY <1>1, <1>3, <2>1, WalkEnds
  <2>3. In2(regions, w, r) /\ In2(regions, r, w)
    BY <1>3, <2>2
  <2>4. QED
    BY <1>1, <1>3, <2>1, <2>2, <2>3, In2Facts
<1>8. r = fgGetRegionFromMSILOffset(o)
  <2> DEFINE size(x) == regions[x].End - regions[x].Start
             Smallest(x) == \A s \in A \ {x} : size(x) < size(s) \/ (size(x) = size(s) /\ x < s)
  <2>1. \A x \in A : regions[x].Start \in Nat /\ regions[x].End \in Nat
    BY <1>1, <1>5, IdFacts
  <2>2. ASSUME NEW s \in A, s # r PROVE size(r) < size(s)
    <3>1. In2(regions, r, s) /\ ~In2(regions, s, r)
      BY <1>1, <1>3, <1>5, <2>2, In2Facts
    <3>2. QED
      BY <1>5, <2>1, <3>1 DEF In2
  <2>3. Smallest(r)
    BY <2>2
  <2>4. ASSUME NEW x \in A, Smallest(x) PROVE x = r
    <3> SUFFICES ASSUME x # r PROVE FALSE
      OBVIOUS
    <3>1. size(r) < size(x)
      BY <2>2
    <3>2. size(x) < size(r) \/ size(x) = size(r)
      BY <1>5, <2>4
    <3>3. size(r) \in Int /\ size(x) \in Int
      BY <1>5, <2>1
    <3> HIDE DEF size
    <3>4. QED
      BY <3>1, <3>2, <3>3
  <2>5. fgGetRegionFromMSILOffset(o) = CHOOSE x \in A : Smallest(x)
    BY <1>4, Zenon DEF fgGetRegionFromMSILOffset
  <2> HIDE DEF Smallest
  <2>6. QED
    BY <1>5, <2>3, <2>4, <2>5
<1>9. QED
  BY <1>2, <1>4, <1>6, <1>7, <1>8

(* Exceptions unwind to the innermost try, whose pads are under the innermost handler. *)
LEMMA Unwinds == IInv => UnwindsInnermost
<1> SUFFICES ASSUME IInv, phase = "instruction"
             PROVE  /\ regions[CurrentRegion].HandlerEHPad =
                         (IF Tries(CurrentOffset) = {} THEN 0 ELSE Innermost(Tries(CurrentOffset)))
                    /\ \A t \in Tries(CurrentOffset) : \A h \in ChildSet(t) : ~IsTry(h) =>
                         regions[h].ParentPad =
                           (IF HandlersAround(t) = {} THEN 0 ELSE PadOf(Innermost(HandlersAround(t))))
                    /\ \A k, l \in 1 .. Len(entered) : entered[k] = entered[l] => k = l
  BY DEF UnwindsInnermost
<1>1. TreeInv /\ WalkOK /\ TreeOK(regions) /\ Rooted(regions) /\ Filters(regions) /\ PadsIn(regions, Entered)
  BY DEF IInv, TreeInv, TreeOK, PadsOK
<1>2. PICK r, o : r = CurrentRegion /\ o = CurrentOffset
  OBVIOUS
<1>3. /\ o \in Nat /\ r \in Ids(regions) /\ Around2(regions, r, o)
      /\ \A s \in Ids(regions) : Around2(regions, s, o) <=> In2(regions, r, s)
      /\ \A s \in Ids(regions) : In2(regions, r, s) => ReadyIn(regions, Entered, s)
  BY <1>1, <1>2, AtInstruction DEF WalkOK, Ready
<1>4. PICK S : S = Tries(o)
  OBVIOUS
<1>5. \A s : s \in S <=> s \in Ids(regions) /\ regions[s].Kind = "Try" /\ In2(regions, r, s)
  <2>1. \A s : s \in S <=> s \in Ids(regions) /\ Around2(regions, s, o) /\ regions[s].Kind = "Try"
    BY <1>4 DEF Tries, Around, Regions, Ids, Contains, Around2, IsTry
  <2>2. QED
    BY <1>3, <2>1
<1>6. regions[r].HandlerEHPad = IF S = {} THEN 0 ELSE Innermost(S)
  <2>1. PICK u : u = regions[r].HandlerEHPad
    OBVIOUS
  <2>2. InnermostTry(regions, r, u)
    <3>1. ReadyIn(regions, Entered, r)
      BY <1>1, <1>3, In2Facts
    <3>2. QED
      BY <1>1, <1>3, <2>1, <3>1 DEF PadsIn
  <2>3. CASE u = 0
    <3>1. S = {}
      BY <1>5, <2>2, <2>3 DEF InnermostTry
    <3>2. QED
      BY <2>1, <2>3, <3>1
  <2>4. CASE u # 0
    <3>1. u \in S /\ \A s \in S : s \in Ids(regions) /\ In2(regions, u, s)
      BY <1>5, <2>2, <2>4 DEF InnermostTry
    <3>2. Innermost(S) = u
      BY <1>1, <3>1, InnermostIs
    <3>3. QED
      BY <2>1, <3>1, <3>2
  <2>5. QED
    BY <2>3, <2>4
<1>7. ASSUME NEW t \in S, NEW h \in ChildSet(t), ~IsTry(h)
      PROVE  regions[h].ParentPad = IF HandlersAround(t) = {} THEN 0 ELSE PadOf(Innermost(HandlersAround(t)))
  <2>1. t \in Ids(regions) /\ regions[t].Kind = "Try" /\ In2(regions, r, t) /\ t # 0
    BY <1>5 DEF Ids
  <2>2. h \in Ids(regions) /\ regions[h].Parent = t /\ h # 1
    BY <1>1, <2>1, ChildFacts
  <2>3. Beside(regions, h)
    BY <1>1, <1>7, <2>2, IdFacts DEF IsTry
  <2>4. t \in Entered
    <3>1. ReadyIn(regions, Entered, t)
      BY <1>3, <2>1
    <3>2. ~Beside(regions, t) /\ regions[t].Kind # "Root"
      BY <1>1, <2>1, IdFacts
    <3>3. QED
      BY <3>1, <3>2 DEF ReadyIn
  <2>5. PICK u \in Ids(regions) :
            /\ InnermostHandler(regions, t, u)
            /\ IF u = 1 THEN regions[h].ParentPad = 0 ELSE IsPad(regions, u, regions[h].ParentPad)
    <3>1. ReadyIn(regions, Entered, h)
      BY <2>2, <2>3, <2>4 DEF ReadyIn
    <3>2. QED
      BY <1>1, <2>2, <2>3, <3>1 DEF PadsIn
  <2>6. PICK H : H = HandlersAround(t)
    OBVIOUS
  <2>7. \A s : s \in H <=> s \in Ids(regions) /\ Beside(regions, s) /\ In2(regions, t, s)
    <3>1. \A s \in Ids(regions) : rgnIsOutsideParent(s) <=> Beside(regions, s)
      BY <1>1, IdFacts DEF rgnIsOutsideParent
    <3>2. \A s : Within(t, s) <=> In2(regions, t, s)
      BY DEF Within, Inside, In2
    <3>3. Regions = Ids(regions)
      BY DEF Regions, Ids
    <3>4. QED
      BY <2>6, <3>1, <3>2, <3>3 DEF HandlersAround
  <2>8. CASE u = 1
    <3>1. H = {}
      BY <2>5, <2>7, <2>8 DEF InnermostHandler
    <3>2. QED
      BY <2>5, <2>6, <2>8, <3>1
  <2>9. CASE u # 1
    <3>1. u \in H /\ \A s \in H : s \in Ids(regions) /\ In2(regions, u, s)
      BY <2>5, <2>7, <2>9 DEF InnermostHandler
    <3>2. Innermost(H) = u
      BY <1>1, <3>1, InnermostIs
    <3>3. PICK p : p = regions[h].ParentPad
      OBVIOUS
    <3>4. IsPad(regions, u, p)
      BY <2>5, <2>9, <3>3
    <3>5. PadOf(u) = p
      <4>1. CASE regions[u].Kind = "MExcept"
        <5>1. p \in Ids(regions) /\ regions[p].HandlerRegion = u
          BY <3>4, <4>1 DEF IsPad
        <5>2. u # 0
          BY <2>5 DEF Ids
        <5>3. \A f \in Ids(regions) : regions[f].HandlerRegion = u => f = p
          BY <1>1, <5>1, <5>2 DEF Filters
        <5>4. PadOf(u) = CHOOSE f \in Ids(regions) : regions[f].HandlerRegion = u
          BY <4>1 DEF PadOf, Regions, Ids
        <5>5. QED
          BY <5>1, <5>3, <5>4
      <4>2. CASE regions[u].Kind # "MExcept"
        BY <3>4, <4>2 DEF PadOf, IsPad
      <4>3. QED
        BY <4>1, <4>2
    <3>6. H # {}
      BY <3>1
    <3>7. QED
      BY <2>6, <3>2, <3>3, <3>5, <3>6
  <2>10. QED
    BY <2>8, <2>9
<1>8. \A k, l \in 1 .. Len(entered) : entered[k] = entered[l] => k = l
  BY <1>1 DEF WalkOK
<1>9. QED
  BY <1>2, <1>4, <1>6, <1>7, <1>8

-----------------------------------------------------------------------------
(* rgnCreateRegionTree makes a tree that says what the ranges and the clauses say, *)
(* for any number of clauses, in whatever order the runtime gives them. *)
THEOREM TreeFollowsRangesHolds == TreeSpec => []TreeFollowsRanges
  BY Invariance, FollowsRanges, PTL

(* fgSwitchRegion, getInnerEnclosingRegion from the root down and *)
(* fgGetRegionFromMSILOffset find the same region for every instruction. *)
THEOREM RegionsAgreeHolds == TreeSpec => []RegionsAgree
  BY Invariance, Agrees, PTL

(* The pads that fgEnterRegion makes unwind to the innermost try around an *)
(* instruction, under the innermost handler around the try; no try is entered twice. *)
THEOREM UnwindsInnermostHolds == TreeSpec => []UnwindsInnermost
  BY Invariance, Unwinds, PTL

-----------------------------------------------------------------------------
(* The flow graph.  First, the program. *)

Outside(o) == \A x \in AllRanges : ~In(o, x)
InstrOK(i, o) ==
  /\ i.Op \in {"other", "br", "leave", "brtrue", "switch", "throw", "ret", "jmp"}
  /\ i.Op \in {"other", "brtrue", "switch"} => o + 1 < CodeSize
  /\ i.Op \in {"other", "throw", "ret", "jmp"} => i.targets = <<>>
  /\ i.Op \in {"br", "leave", "brtrue"} => i.targets = <<i.targets[1]>> /\ i.targets[1] \in Offsets
  /\ i.Op = "switch" => /\ i.targets = <<i.targets[1], i.targets[2]>>
                        /\ i.targets[1] \in Offsets /\ i.targets[2] \in Offsets
  /\ i.Op \in {"ret", "jmp"} => Outside(o)
CodeOK == \A o \in Offsets : InstrOK(code[o + 1], o)

-----------------------------------------------------------------------------
(* The graph.  g has nodes, layout and labels, as graph; rs is a value of regions. *)

NodeTerms == [kind : {"none", "br", "brtrue", "switch", "unreachable"}, succ : Seq(Nat)]
NodeRecords == [Start : Nat, End : Nat, Region : Nat, term : NodeTerms]

Lay(g) == {g.layout[k] : k \in 1 .. Len(g.layout)}
Temps(g) == {g.labels[o] : o \in DOMAIN g.labels}

Shape(g) ==
  /\ g = Graph(g.nodes, g.layout, g.labels)
  /\ g.nodes \in Seq(NodeRecords) /\ g.layout \in Seq(Nat)
  /\ \A k \in 1 .. Len(g.layout) : g.layout[k] \in 1 .. Len(g.nodes)
  /\ \A k, l \in 1 .. Len(g.layout) : g.layout[k] = g.layout[l] => k = l

\* The temporary blocks are behind the others, one for every label.
LabelsOK(g, m) ==
  /\ m \in 1 .. Len(g.layout)
  /\ DOMAIN g.labels \subseteq Offsets
  /\ \A k \in m + 1 .. Len(g.layout) : g.layout[k] \in Temps(g)
  /\ \A o \in DOMAIN g.labels :
       /\ \E k \in m + 1 .. Len(g.layout) : g.layout[k] = g.labels[o]
       /\ g.nodes[g.labels[o]].Start = o /\ g.nodes[g.labels[o]].End = 0

\* The other blocks follow one another in the code.
Tiled(g, m) ==
  /\ g.nodes[g.layout[1]].Start = 0
  /\ \A k \in 1 .. m - 1 : g.nodes[g.layout[k]].End = g.nodes[g.layout[k + 1]].Start

GraphOK(g, m) == Shape(g) /\ LabelsOK(g, m) /\ Tiled(g, m)

StartsIn(ns, succ) == [k \in 1 .. Len(succ) |-> ns[succ[k]].Start]
GoesTo(last, e) ==
  CASE last.Op = "other" -> <<e>>
    [] last.Op = "brtrue" -> last.targets \o <<e>>
    [] last.Op = "switch" -> <<e>> \o last.targets
    [] OTHER -> last.targets

\* r is the innermost region around o; a block may have no region instead of the root.
InnerAt(rs, r, o) == r \in Ids(rs) /\ \A s \in Ids(rs) : Around2(rs, s, o) <=> In2(rs, r, s)
RegionFor(rs, r, o) == InnerAt(rs, r, o) \/ (r = 0 /\ InnerAt(rs, 1, o))

\* Block n has the code from its start to its end, and goes where that goes.
NodeRange(n, rs) ==
  /\ n.Start < n.End /\ n.End <= CodeSize
  /\ \A o \in n.Start .. n.End - 2 : code[o + 1].Op = "other"
  /\ \A o \in n.Start .. n.End - 1 : RegionFor(rs, n.Region, o)
NodeFlow(n, L, ns) ==
  /\ \A k \in 1 .. Len(n.term.succ) : n.term.succ[k] \in L
  /\ StartsIn(ns, n.term.succ) = GoesTo(code[n.End], n.End)
NodeOK(n, L, ns, rs) == NodeRange(n, rs) /\ NodeFlow(n, L, ns)

\* All blocks but one
Done(g, rs, open) ==
  \A x \in Lay(g) : x \notin Temps(g) /\ x # open => NodeOK(g.nodes[x], Lay(g), g.nodes, rs)

\* The block that is being read, up to offset o
Open(n, rs, o) ==
  /\ n.term = NoTerminator /\ n.Start <= o
  /\ \A p \in n.Start .. o - 1 : code[p + 1].Op = "other" /\ RegionFor(rs, n.Region, p)

\* The first pass: b is the last block, read up to offset o.
Reading(g, m, rs, b, o) ==
  /\ GraphOK(g, m) /\ g.layout[1] = 1 /\ b = g.layout[m]
  /\ Done(g, rs, b) /\ Open(g.nodes[b], rs, o)
RegionIs(n, r) == n.Region = r \/ (n.Region = 0 /\ r = 1)

\* The second: the blocks cover the code, and the labels left are not before b.
Covered(g, m, rs) == GraphOK(g, m) /\ Done(g, rs, 0) /\ g.nodes[g.layout[m]].End = CodeSize
Linking(g, m, rs, b) ==
  /\ Covered(g, m, rs)
  /\ b \in Lay(g) /\ b \notin Temps(g)
  /\ \A o \in DOMAIN g.labels : g.nodes[b].Start <= o

FlowInv ==
  /\ CodeOK /\ phase # "assert"
  /\ phase # "done" => \E m \in Nat : Reading(graph, m, regions, Block, CurrentOffset)
  /\ phase = "done" => \E m \in Nat : Linking(graph, m, regions, Block)
  /\ phase = "instruction" => RegionIs(nodes[Block], CurrentRegion)
  /\ phase \in Building => Len(layout) = 1

-----------------------------------------------------------------------------
(* Lists. *)

(* The elements of two lists with one between them. *)
LEMMA Middle ==
  ASSUME NEW a \in Seq(Nat), NEW n \in Nat, NEW c \in Seq(Nat), NEW u, u = (a \o <<n>>) \o c
  PROVE  /\ u \in Seq(Nat) /\ Len(u) = Len(a) + 1 + Len(c)
         /\ \A k \in 1 .. Len(a) : u[k] = a[k]
         /\ u[Len(a) + 1] = n
         /\ \A k \in 1 .. Len(c) : u[Len(a) + 1 + k] = c[k]
<1>1. PICK b, d : b = <<n>> /\ d = a \o b
  OBVIOUS
<1>2. b \in Seq(Nat) /\ Len(b) = 1 /\ b[1] = n /\ Len(a) \in Nat /\ Len(c) \in Nat
  BY <1>1
<1>3. /\ d \in Seq(Nat) /\ Len(d) = Len(a) + Len(b)
      /\ \A k \in 1 .. Len(a) : d[k] = a[k]
      /\ \A k \in 1 .. Len(b) : d[Len(a) + k] = b[k]
  BY <1>1, <1>2, ConcatAt
<1>4. Len(d) = Len(a) + 1 /\ d[Len(a) + 1] = n
  BY <1>2, <1>3, 1 \in 1 .. 1
<1>5. PICK v : v = d \o c
  OBVIOUS
<1>6. /\ v \in Seq(Nat) /\ Len(v) = Len(d) + Len(c)
      /\ \A k \in 1 .. Len(d) : v[k] = d[k]
      /\ \A k \in 1 .. Len(c) : v[Len(d) + k] = c[k]
  <2>1. d \in Seq(Nat)
    BY <1>3
  <2>2. QED
    BY <1>5, <2>1, ConcatAt
<1>7. u = v
  BY <1>1, <1>5
<1>8. v \in Seq(Nat) /\ Len(v) = Len(a) + 1 + Len(c)
  BY <1>4, <1>6
<1>9. \A k \in 1 .. Len(a) : v[k] = a[k]
  <2>1. \A k \in 1 .. Len(a) : k \in 1 .. Len(d)
    BY <1>2, <1>4
  <2>2. QED
    BY <1>3, <1>6, <2>1
<1>10. v[Len(a) + 1] = n
  <2>1. Len(a) + 1 \in 1 .. Len(d)
    BY <1>2, <1>4
  <2>2. QED
    BY <1>4, <1>6, <2>1
<1>11. \A k \in 1 .. Len(c) : v[Len(a) + 1 + k] = c[k]
  BY <1>4, <1>6
<1>12. QED
  BY <1>7, <1>8, <1>9, <1>10, <1>11

\* u is s with n at position p + 1.
IsInserted(u, s, p, n) ==
  /\ u \in Seq(Nat) /\ Len(u) = Len(s) + 1
  /\ \A k \in 1 .. p : u[k] = s[k]
  /\ u[p + 1] = n
  /\ \A k \in p + 1 .. Len(s) : u[k + 1] = s[k]
\* u is s without what is at position q.
IsRemoved(u, s, q) ==
  /\ u \in Seq(Nat) /\ Len(u) = Len(s) - 1
  /\ \A k \in 1 .. q - 1 : u[k] = s[k]
  /\ \A k \in q .. Len(s) - 1 : u[k] = s[k + 1]

(* The elements of a list with one more at position p + 1. *)
LEMMA Inserted ==
  ASSUME NEW s \in Seq(Nat), NEW p \in 1 .. Len(s), NEW n \in Nat, NEW u, u = Seqs!InsertAt(s, p + 1, n)
  PROVE  IsInserted(u, s, p, n)
<1>1. Len(s) \in Nat /\ p \in Nat /\ p <= Len(s) /\ (p + 1) - 1 = p
  OBVIOUS
<1>2. PICK a, c : a = SubSeq(s, 1, p) /\ c = SubSeq(s, p + 1, Len(s))
  OBVIOUS
<1>3. a \in Seq(Nat) /\ Len(a) = p /\ \A k \in 1 .. p : a[k] = s[k]
  BY <1>1, <1>2
<1>4. c \in Seq(Nat) /\ Len(c) = Len(s) - p /\ \A k \in 1 .. Len(s) - p : c[k] = s[p + k]
  BY <1>1, <1>2
<1>5. PICK v : v = u
  OBVIOUS
<1>6. v = (a \o <<n>>) \o c
  BY <1>1, <1>2, <1>5, Zenon DEF Seqs!InsertAt
<1>7. /\ v \in Seq(Nat) /\ Len(v) = Len(a) + 1 + Len(c)
      /\ \A k \in 1 .. Len(a) : v[k] = a[k]
      /\ v[Len(a) + 1] = n
      /\ \A k \in 1 .. Len(c) : v[Len(a) + 1 + k] = c[k]
  <2>1. a \in Seq(Nat) /\ c \in Seq(Nat)
    BY <1>3, <1>4
  <2>2. QED
    BY <1>6, <2>1, Middle
<1>8. v \in Seq(Nat) /\ Len(v) = Len(s) + 1 /\ v[p + 1] = n /\ \A k \in 1 .. p : v[k] = s[k]
  <2>1. Len(a) = p /\ Len(c) = Len(s) - p /\ Len(v) = Len(a) + 1 + Len(c)
    BY <1>3, <1>4, <1>7
  <2>2. Len(v) = Len(s) + 1
    BY <1>1, <2>1
  <2>3. QED
    BY <1>3, <1>7, <2>2
<1>9. ASSUME NEW k \in p + 1 .. Len(s) PROVE v[k + 1] = s[k]
  <2>1. k - p \in 1 .. Len(s) - p /\ p + (k - p) = k /\ p + 1 + (k - p) = k + 1
    BY <1>1
  <2>2. c[k - p] = s[p + (k - p)] /\ v[p + 1 + (k - p)] = c[k - p]
    BY <1>3, <1>4, <1>7, <2>1
  <2>3. QED
    BY <2>1, <2>2
<1>10. IsInserted(v, s, p, n)
  BY <1>8, <1>9, Zenon DEF IsInserted
<1>11. QED
  BY <1>5, <1>10

(* The elements of a list without the one at position q. *)
LEMMA Removed ==
  ASSUME NEW s \in Seq(Nat), NEW q \in 1 .. Len(s), NEW u, u = Seqs!RemoveAt(s, q)
  PROVE  IsRemoved(u, s, q)
<1>1. Len(s) \in Nat /\ q \in Nat /\ q <= Len(s) /\ q >= 1
  OBVIOUS
<1>2. PICK a, c : a = SubSeq(s, 1, q - 1) /\ c = SubSeq(s, q + 1, Len(s))
  OBVIOUS
<1>3. a \in Seq(Nat) /\ Len(a) = q - 1 /\ \A k \in 1 .. q - 1 : a[k] = s[k]
  BY <1>1, <1>2
<1>4. c \in Seq(Nat) /\ Len(c) = Len(s) - q /\ \A k \in 1 .. Len(s) - q : c[k] = s[q + k]
  BY <1>1, <1>2
<1>5. u = a \o c
  BY <1>2, Zenon DEF Seqs!RemoveAt
<1>6. /\ u \in Seq(Nat) /\ Len(u) = Len(a) + Len(c)
      /\ \A k \in 1 .. Len(a) : u[k] = a[k]
      /\ \A k \in 1 .. Len(c) : u[Len(a) + k] = c[k]
  <2>1. a \in Seq(Nat) /\ c \in Seq(Nat)
    BY <1>3, <1>4
  <2>2. QED
    BY <1>5, <2>1, ConcatAt
<1>7. Len(u) = Len(s) - 1
  <2>1. Len(a) = q - 1 /\ Len(c) = Len(s) - q /\ Len(u) = Len(a) + Len(c)
    BY <1>3, <1>4, <1>6
  <2>2. QED
    BY <1>1, <2>1
<1>8. \A k \in 1 .. q - 1 : u[k] = s[k]
  BY <1>3, <1>6
<1>9. ASSUME NEW k \in q .. Len(s) - 1 PROVE u[k] = s[k + 1]
  <2>1. k - q + 1 \in 1 .. Len(s) - q /\ q + (k - q + 1) = k + 1 /\ (q - 1) + (k - q + 1) = k
    BY <1>1
  <2>2. c[k - q + 1] = s[q + (k - q + 1)] /\ u[(q - 1) + (k - q + 1)] = c[k - q + 1]
    BY <1>3, <1>4, <1>6, <2>1
  <2>3. QED
    BY <2>1, <2>2
<1>10. QED
  BY <1>6, <1>7, <1>8, <1>9, Zenon DEF IsRemoved

-----------------------------------------------------------------------------
(* The operations on the graph. *)

(* The fields of a graph. *)
LEMMA GraphFields ==
  ASSUME NEW ns, NEW l, NEW lab
  PROVE  Graph(ns, l, lab).nodes = ns /\ Graph(ns, l, lab).layout = l /\ Graph(ns, l, lab).labels = lab
  BY DEF Graph

(* The types of the fields, and where a block is. *)
LEMMA ShapeFacts ==
  ASSUME NEW g, Shape(g)
  PROVE  /\ g = Graph(g.nodes, g.layout, g.labels)
         /\ Len(g.nodes) \in Nat /\ Len(g.layout) \in Nat /\ Fresh(g) = Len(g.nodes) + 1
         /\ \A x \in 1 .. Len(g.nodes) : g.nodes[x] \in NodeRecords
         /\ \A k \in 1 .. Len(g.layout) : g.layout[k] \in 1 .. Len(g.nodes) /\ Position(g, g.layout[k]) = k
<1>1. /\ g = Graph(g.nodes, g.layout, g.labels)
      /\ Len(g.nodes) \in Nat /\ Len(g.layout) \in Nat /\ Fresh(g) = Len(g.nodes) + 1
      /\ \A x \in 1 .. Len(g.nodes) : g.nodes[x] \in NodeRecords
  BY DEF Shape, Fresh
<1>2. ASSUME NEW k \in 1 .. Len(g.layout)
      PROVE  g.layout[k] \in 1 .. Len(g.nodes) /\ Position(g, g.layout[k]) = k
  <2>1. g.layout[k] \in 1 .. Len(g.nodes) /\ \A l \in 1 .. Len(g.layout) : g.layout[l] = g.layout[k] => l = k
    BY DEF Shape
  <2>2. QED
    BY <2>1, Zenon DEF Position
<1>3. QED
  BY <1>1, <1>2

(* A node of a record. *)
LEMMA NodeFields ==
  ASSUME NEW start, NEW end, NEW region, NEW term, NEW n, n = node(start, end, region, term)
  PROVE  /\ n.Start = start /\ n.End = end /\ n.Region = region /\ n.term = term
         /\ start \in Nat /\ end \in Nat /\ region \in Nat /\ term \in NodeTerms => n \in NodeRecords
  BY DEF node, NodeRecords

(* A node is replaced. *)
LEMMA WithNodeIs ==
  ASSUME NEW ns, NEW l, NEW lab, NEW b, NEW n
  PROVE  withNode(Graph(ns, l, lab), b, n) = Graph([ns EXCEPT ![b] = n], l, lab)
  BY GraphFields DEF withNode

(* A node is made. *)
LEMMA MakeIs ==
  ASSUME NEW ns, NEW l, NEW lab, NEW offset, NEW b
  PROVE  makeFlowGraphNode(Graph(ns, l, lab), offset, b) =
           Graph(Append(ns, node(offset, 0, 0, NoTerminator)),
                 IF b = 0 THEN Append(l, Len(ns) + 1)
                 ELSE Seqs!InsertAt(l, Position(Graph(ns, l, lab), b) + 1, Len(ns) + 1),
                 lab)
  BY GraphFields DEF makeFlowGraphNode, Fresh

\* ns2 is ns with node b changed to n1, and n2 added.
TwoNodes(ns, ns2, b, n1, n2) ==
  /\ ns2 \in Seq(NodeRecords) /\ Len(ns2) = Len(ns) + 1
  /\ ns2[Len(ns) + 1] = n2 /\ ns2[b] = n1
  /\ \A x \in 1 .. Len(ns) : x # b => ns2[x] = ns[x]

\* g2 is g with the block at position p of the layout changed to n1, and n2 behind it.
Grown(g, g2, p, n1, n2) ==
  /\ g2 = Graph(g2.nodes, g2.layout, g.labels)
  /\ TwoNodes(g.nodes, g2.nodes, g.layout[p], n1, n2)
  /\ IsInserted(g2.layout, g.layout, p, Len(g.nodes) + 1)

(* The nodes and the layout make the graph. *)
LEMMA GrownBy ==
  ASSUME NEW g, Shape(g), NEW p \in 1 .. Len(g.layout), NEW n1 \in NodeRecords, NEW n2 \in NodeRecords, NEW g2, NEW ns,
         g2 = Graph(ns, Seqs!InsertAt(g.layout, p + 1, Len(g.nodes) + 1), g.labels),
         TwoNodes(g.nodes, ns, g.layout[p], n1, n2)
  PROVE  Grown(g, g2, p, n1, n2)
<1>1. PICK l : l = Seqs!InsertAt(g.layout, p + 1, Len(g.nodes) + 1)
  OBVIOUS
<1>2. g.layout \in Seq(Nat) /\ Len(g.nodes) + 1 \in Nat
  BY DEF Shape
<1>3. IsInserted(l, g.layout, p, Len(g.nodes) + 1)
  BY <1>1, <1>2, Inserted
<1>4. g2 = Graph(ns, l, g.labels) /\ g2.nodes = ns /\ g2.layout = l
  BY <1>1, GraphFields
<1>5. QED
  BY <1>3, <1>4, Zenon DEF Grown

(* A node is changed. *)
LEMMA NodeChanged ==
  ASSUME NEW ns \in Seq(NodeRecords), NEW b \in 1 .. Len(ns), NEW n \in NodeRecords, NEW ns2, ns2 = [ns EXCEPT ![b] = n]
  PROVE  /\ ns2 \in Seq(NodeRecords) /\ Len(ns2) = Len(ns) /\ ns2[b] = n
         /\ \A x \in 1 .. Len(ns) : x # b => ns2[x] = ns[x]
  OBVIOUS

(* A node is added. *)
LEMMA NodeAdded ==
  ASSUME NEW ns \in Seq(NodeRecords), NEW n \in NodeRecords, NEW ns2, ns2 = Append(ns, n)
  PROVE  /\ ns2 \in Seq(NodeRecords) /\ Len(ns2) = Len(ns) + 1 /\ ns2[Len(ns) + 1] = n
         /\ \A x \in 1 .. Len(ns) : ns2[x] = ns[x]
  BY AppendProperties

(* A node is added, and then it and another are changed. *)
LEMMA NodesSplit ==
  ASSUME NEW ns \in Seq(NodeRecords), NEW b \in 1 .. Len(ns), NEW x \in NodeRecords,
         NEW n1 \in NodeRecords, NEW n2 \in NodeRecords,
         NEW ns2, ns2 = [[Append(ns, x) EXCEPT ![b] = n1] EXCEPT ![Len(ns) + 1] = n2]
  PROVE  TwoNodes(ns, ns2, b, n1, n2)
<1>1. PICK f, u, v : f = Len(ns) + 1 /\ u = Append(ns, x) /\ v = [u EXCEPT ![b] = n1]
  OBVIOUS
<1>2. Len(ns) \in Nat /\ f \in Nat /\ b \in 1 .. f /\ f \in 1 .. f /\ f # b
      /\ \A y \in 1 .. Len(ns) : y \in 1 .. f /\ y # f
  BY <1>1
<1>3. u \in Seq(NodeRecords) /\ Len(u) = f /\ \A y \in 1 .. Len(ns) : u[y] = ns[y]
  BY <1>1, NodeAdded
<1>4. /\ v \in Seq(NodeRecords) /\ Len(v) = f /\ v[b] = n1
      /\ \A y \in 1 .. f : y # b => v[y] = u[y]
  <2>1. u \in Seq(NodeRecords) /\ b \in 1 .. Len(u) /\ v = [u EXCEPT ![b] = n1]
    BY <1>1, <1>2, <1>3
  <2>2. /\ v \in Seq(NodeRecords) /\ Len(v) = Len(u) /\ v[b] = n1
        /\ \A y \in 1 .. Len(u) : y # b => v[y] = u[y]
    BY <2>1, NodeChanged
  <2>3. QED
    BY <1>3, <2>2
<1>5. PICK w : w = [v EXCEPT ![f] = n2]
  OBVIOUS
<1>6. /\ w \in Seq(NodeRecords) /\ Len(w) = f /\ w[f] = n2
      /\ \A y \in 1 .. f : y # f => w[y] = v[y]
  BY <1>2, <1>4, <1>5, NodeChanged
<1>7. ns2 = w
  BY <1>1, <1>5
<1>8. w[b] = n1 /\ \A y \in 1 .. Len(ns) : y # b => w[y] = ns[y]
  BY <1>2, <1>3, <1>4, <1>6
<1>9. QED
  BY <1>1, <1>6, <1>7, <1>8, Zenon DEF TwoNodes

\* The terminators of the two halves of a split block
SplitTerms(old, new, at, t1, t2) ==
  IF at THEN t1 = [kind |-> "br", succ |-> <<new>>] /\ t2 = old
  ELSE t1 = fallThrough(old, new) /\ t2 = NoTerminator

(* What fgSplitBlock gives. *)
LEMMA SplitOf ==
  ASSUME NEW g, NEW b, NEW offset, NEW at, at \/ offset # CodeSize, NEW t1, NEW t2,
         SplitTerms(g.nodes[b].term, Fresh(g), at, t1, t2)
  PROVE  fgSplitBlock(g, b, offset, at) =
           withNode(withNode(makeFlowGraphNode(g, offset, b), b,
                             node(g.nodes[b].Start, offset, g.nodes[b].Region, t1)),
                    Fresh(g), node(offset, g.nodes[b].End, g.nodes[b].Region, t2))
<1>1. CASE at
  <2>1. t1 = [kind |-> "br", succ |-> <<Fresh(g)>>] /\ t2 = g.nodes[b].term
    BY <1>1, Zenon DEF SplitTerms
  <2>2. QED
    BY <1>1, <2>1, Zenon DEF fgSplitBlock
<1>2. CASE ~at
  <2>1. t1 = fallThrough(g.nodes[b].term, Fresh(g)) /\ t2 = NoTerminator
    BY <1>2, Zenon DEF SplitTerms
  <2>2. QED
    BY <1>2, <2>1, Zenon DEF fgSplitBlock
<1>3. QED
  BY <1>1, <1>2, Zenon

\* The two halves
Halves(n, offset, t1, t2, n1, n2) ==
  n1 = node(n.Start, offset, n.Region, t1) /\ n2 = node(offset, n.End, n.Region, t2)
SplitAt(g, g2, b, offset, n1, n2) ==
  g2 = withNode(withNode(makeFlowGraphNode(g, offset, b), b, n1), Fresh(g), n2)

(* A block is split. *)
LEMMA SplitIs ==
  ASSUME NEW g, Shape(g), NEW p \in 1 .. Len(g.layout), NEW offset \in Nat,
         NEW t1 \in NodeTerms, NEW t2 \in NodeTerms,
         NEW n1, NEW n2, Halves(g.nodes[g.layout[p]], offset, t1, t2, n1, n2),
         NEW g2, SplitAt(g, g2, g.layout[p], offset, n1, n2)
  PROVE  n1 \in NodeRecords /\ n2 \in NodeRecords /\ Grown(g, g2, p, n1, n2)
<1>0. PICK b : b = g.layout[p]
  OBVIOUS
<1>1. PICK ns, l, lab, f : ns = g.nodes /\ l = g.layout /\ lab = g.labels /\ f = Len(ns) + 1
  OBVIOUS
<1>2. /\ g = Graph(ns, l, lab) /\ Fresh(g) = f /\ b \in 1 .. Len(ns) /\ Position(g, b) = p
      /\ ns \in Seq(NodeRecords) /\ ns[b] \in NodeRecords /\ b # 0
  <2>1. b \in 1 .. Len(ns) /\ Position(g, b) = p /\ Len(ns) \in Nat /\ Fresh(g) = f /\ ns[b] \in NodeRecords
    BY <1>0, <1>1, ShapeFacts
  <2>2. ns \in Seq(NodeRecords) /\ g = Graph(ns, l, lab)
    BY <1>1 DEF Shape
  <2>3. b # 0
    BY <2>1
  <2>4. QED
    BY <2>1, <2>2, <2>3
<1>3. NoTerminator \in NodeTerms
  BY DEF NoTerminator, NodeTerms
<1>4. n1 \in NodeRecords /\ n2 \in NodeRecords
  <2>1. ns[b].Start \in Nat /\ ns[b].End \in Nat /\ ns[b].Region \in Nat
    BY <1>2 DEF NodeRecords
  <2>2. n1 = node(ns[b].Start, offset, ns[b].Region, t1) /\ n2 = node(offset, ns[b].End, ns[b].Region, t2)
    BY <1>0, <1>1 DEF Halves
  <2>3. QED
    BY <2>1, <2>2, NodeFields
<1>5. PICK x : x = node(offset, 0, 0, NoTerminator)
  OBVIOUS
<1>6. x \in NodeRecords
  BY <1>3, <1>5, NodeFields
<1>7. PICK u, v, ns2 : u = Append(ns, x) /\ v = [u EXCEPT ![b] = n1] /\ ns2 = [v EXCEPT ![f] = n2]
  OBVIOUS
<1>8. TwoNodes(ns, ns2, b, n1, n2)
  <2>1. ns2 = [[Append(ns, x) EXCEPT ![b] = n1] EXCEPT ![Len(ns) + 1] = n2]
    BY <1>1, <1>7
  <2>2. QED
    BY <1>2, <1>4, <1>6, <2>1, NodesSplit
<1>9. PICK l2 : l2 = Seqs!InsertAt(l, p + 1, f)
  OBVIOUS
<1>10. makeFlowGraphNode(g, offset, b) = Graph(u, l2, lab)
  <2>1. makeFlowGraphNode(g, offset, b) =
          Graph(Append(ns, node(offset, 0, 0, NoTerminator)),
                IF b = 0 THEN Append(l, Len(ns) + 1) ELSE Seqs!InsertAt(l, Position(g, b) + 1, Len(ns) + 1), lab)
    BY <1>2, MakeIs
  <2>2. QED
    BY <1>1, <1>2, <1>5, <1>7, <1>9, <2>1
<1>11. g2 = Graph(ns2, l2, lab)
  <2>1. g2 = withNode(withNode(Graph(u, l2, lab), b, n1), f, n2)
    BY <1>0, <1>2, <1>10 DEF SplitAt
  <2>2. withNode(Graph(u, l2, lab), b, n1) = Graph(v, l2, lab)
    <3>1. withNode(Graph(u, l2, lab), b, n1) = Graph([u EXCEPT ![b] = n1], l2, lab)
      BY WithNodeIs
    <3>2. QED
      BY <1>7, <3>1, Zenon
  <2>3. withNode(Graph(v, l2, lab), f, n2) = Graph(ns2, l2, lab)
    BY <1>7, WithNodeIs
  <2>4. QED
    BY <2>1, <2>2, <2>3
<1>12. QED
  <2>1. /\ g2 = Graph(ns2, Seqs!InsertAt(g.layout, p + 1, Len(g.nodes) + 1), g.labels)
        /\ TwoNodes(g.nodes, ns2, g.layout[p], n1, n2)
    BY <1>0, <1>1, <1>8, <1>9, <1>11
  <2>2. QED
    BY <1>4, <2>1, GrownBy

-----------------------------------------------------------------------------
(* A block more. *)

\* Where element k of u comes from
InsertedFrom(u, s, p, n, k) ==
  \/ k <= p /\ k \in 1 .. Len(s) /\ u[k] = s[k]
  \/ k = p + 1 /\ u[k] = n
  \/ k > p + 1 /\ k - 1 \in p + 1 .. Len(s) /\ u[k] = s[k - 1]

(* The elements of a list with one more, from their positions. *)
LEMMA InsertedAt ==
  ASSUME NEW s \in Seq(Nat), NEW p \in 1 .. Len(s), NEW n, NEW u, IsInserted(u, s, p, n), NEW k \in 1 .. Len(u)
  PROVE  InsertedFrom(u, s, p, n, k)
<1>1. Len(s) \in Nat /\ Len(u) = Len(s) + 1 /\ p \in Nat /\ p <= Len(s) /\ k \in Nat /\ k >= 1 /\ k <= Len(s) + 1
  BY DEF IsInserted
<1>2. CASE k <= p
  <2>1. k \in 1 .. p /\ k \in 1 .. Len(s)
    BY <1>1, <1>2
  <2>2. QED
    BY <1>2, <2>1 DEF IsInserted, InsertedFrom
<1>3. CASE k = p + 1
  BY <1>3 DEF IsInserted, InsertedFrom
<1>4. CASE k > p + 1
  <2>1. k - 1 \in p + 1 .. Len(s) /\ (k - 1) + 1 = k
    BY <1>1, <1>4
  <2>2. u[(k - 1) + 1] = s[k - 1]
    BY <2>1 DEF IsInserted
  <2>3. QED
    BY <1>4, <2>1, <2>2 DEF InsertedFrom
<1>5. QED
  BY <1>1, <1>2, <1>3, <1>4

(* The graph has one block more. *)
LEMMA GrownShape ==
  ASSUME NEW g, Shape(g), NEW p \in 1 .. Len(g.layout), NEW n1 \in NodeRecords, NEW n2 \in NodeRecords,
         NEW g2, Grown(g, g2, p, n1, n2)
  PROVE  /\ Shape(g2) /\ Lay(g2) = Lay(g) \cup {Len(g.nodes) + 1} /\ Len(g.nodes) + 1 \notin Lay(g)
         /\ g2.labels = g.labels /\ Temps(g2) = Temps(g)
<1>1. PICK f : f = Len(g.nodes) + 1
  OBVIOUS
<1>2. /\ g.layout \in Seq(Nat) /\ g.nodes \in Seq(NodeRecords) /\ Len(g.nodes) \in Nat /\ Len(g.layout) \in Nat
      /\ \A k \in 1 .. Len(g.layout) : g.layout[k] \in 1 .. Len(g.nodes)
      /\ \A k, l \in 1 .. Len(g.layout) : g.layout[k] = g.layout[l] => k = l
  BY DEF Shape
<1>3. /\ IsInserted(g2.layout, g.layout, p, f) /\ g2 = Graph(g2.nodes, g2.layout, g.labels)
      /\ g2.nodes \in Seq(NodeRecords) /\ Len(g2.nodes) = f
  BY <1>1 DEF Grown, TwoNodes
<1>4. g2.labels = g.labels
  BY <1>3, GraphFields
<1>5. g2.layout \in Seq(Nat) /\ Len(g2.layout) = Len(g.layout) + 1 /\ p + 1 \in 1 .. Len(g2.layout) /\ g2.layout[p + 1] = f
  BY <1>2, <1>3 DEF IsInserted
<1>6. \A k \in 1 .. Len(g.layout) : g.layout[k] # f
  BY <1>1, <1>2
<1>7. ASSUME NEW k \in 1 .. Len(g2.layout)
      PROVE  \/ k <= p /\ k \in 1 .. Len(g.layout) /\ g2.layout[k] = g.layout[k]
             \/ k = p + 1 /\ g2.layout[k] = f
             \/ k > p + 1 /\ k - 1 \in p + 1 .. Len(g.layout) /\ g2.layout[k] = g.layout[k - 1]
  <2>1. InsertedFrom(g2.layout, g.layout, p, f, k)
    BY <1>2, <1>3, InsertedAt
  <2>2. QED
    BY <2>1, Zenon DEF InsertedFrom
<1>8. ASSUME NEW k \in 1 .. Len(g2.layout) PROVE g2.layout[k] \in 1 .. Len(g2.nodes)
  <2>1. \A x \in 1 .. Len(g.nodes) : x \in 1 .. f
    BY <1>1, <1>2
  <2>2. f \in 1 .. f /\ \A j \in p + 1 .. Len(g.layout) : j \in 1 .. Len(g.layout)
    BY <1>1, <1>2
  <2>3. QED
    BY <1>2, <1>3, <1>7, <2>1, <2>2
<1>9. ASSUME NEW k \in 1 .. Len(g2.layout), NEW l \in 1 .. Len(g2.layout), g2.layout[k] = g2.layout[l]
      PROVE  k = l
  <2>1. k \in Nat /\ l \in Nat /\ p \in Nat /\ p <= Len(g.layout)
    BY <1>2
  <2>2. \A j \in p + 1 .. Len(g.layout) : j \in 1 .. Len(g.layout) /\ j > p
    BY <2>1
  <2>3. CASE k = p + 1
    BY <1>5, <1>6, <1>7, <1>9, <2>2, <2>3
  <2>4. CASE l = p + 1
    BY <1>5, <1>6, <1>7, <1>9, <2>2, <2>4
  <2>5. CASE k # p + 1 /\ l # p + 1
    <3>1. PICK i \in 1 .. Len(g.layout) : g2.layout[k] = g.layout[i] /\ ((k <= p /\ i = k) \/ (k > p + 1 /\ i = k - 1 /\ i > p))
      BY <1>7, <2>2, <2>5
    <3>2. PICK j \in 1 .. Len(g.layout) : g2.layout[l] = g.layout[j] /\ ((l <= p /\ j = l) \/ (l > p + 1 /\ j = l - 1 /\ j > p))
      BY <1>7, <2>2, <2>5
    <3>3. i = j
      BY <1>2, <1>9, <3>1, <3>2
    <3>4. QED
      BY <2>1, <3>1, <3>2, <3>3
  <2>6. QED
    BY <2>3, <2>4, <2>5
<1>10. Lay(g2) = Lay(g) \cup {f} /\ f \notin Lay(g)
  <2>1. \A j \in p + 1 .. Len(g.layout) : j \in 1 .. Len(g.layout)
    BY <1>2
  <2>2. ASSUME NEW x \in Lay(g2) PROVE x \in Lay(g) \cup {f}
    <3>1. PICK k \in 1 .. Len(g2.layout) : x = g2.layout[k]
      BY DEF Lay
    <3>2. QED
      BY <1>7, <2>1, <3>1 DEF Lay
  <2>3. ASSUME NEW x \in Lay(g) PROVE x \in Lay(g2)
    <3>1. PICK k \in 1 .. Len(g.layout) : x = g.layout[k]
      BY DEF Lay
    <3>2. CASE k <= p
      <4>1. k \in 1 .. p /\ k \in 1 .. Len(g2.layout)
        BY <1>2, <1>5, <3>2
      <4>2. g2.layout[k] = g.layout[k]
        BY <1>3, <4>1 DEF IsInserted
      <4>3. QED
        BY <3>1, <4>1, <4>2 DEF Lay
    <3>3. CASE k > p
      <4>1. k \in p + 1 .. Len(g.layout) /\ k + 1 \in 1 .. Len(g2.layout)
        BY <1>2, <1>5, <3>3
      <4>2. g2.layout[k + 1] = g.layout[k]
        BY <1>3, <4>1 DEF IsInserted
      <4>3. QED
        BY <3>1, <4>1, <4>2 DEF Lay
    <3>4. QED
      BY <1>2, <3>2, <3>3
  <2>4. f \in Lay(g2) /\ f \notin Lay(g)
    BY <1>5, <1>6 DEF Lay
  <2>5. QED
    BY <2>2, <2>3, <2>4
<1>11. Shape(g2)
  BY <1>3, <1>4, <1>5, <1>8, <1>9, Zenon DEF Shape
<1>12. QED
  BY <1>1, <1>4, <1>10, <1>11 DEF Temps

(* What a graph says of its labels. *)
LEMMA LabelFacts ==
  ASSUME NEW g, NEW m, GraphOK(g, m)
  PROVE  /\ m \in Nat /\ m \in 1 .. Len(g.layout)
         /\ \A o \in DOMAIN g.labels :
              /\ o \in Nat /\ o < CodeSize /\ g.labels[o] \in Lay(g) /\ g.labels[o] \in 1 .. Len(g.nodes)
              /\ \A k \in 1 .. m : g.labels[o] # g.layout[k]
         /\ \A k \in 1 .. m : g.layout[k] \notin Temps(g) /\ g.layout[k] \in Lay(g)
         /\ \A x \in Lay(g) : x \in 1 .. Len(g.nodes) /\ (x \notin Temps(g) => \E k \in 1 .. m : x = g.layout[k])
         /\ 0 \notin Lay(g)
<1>1. /\ Len(g.layout) \in Nat /\ Len(g.nodes) \in Nat
      /\ \A k \in 1 .. Len(g.layout) : g.layout[k] \in 1 .. Len(g.nodes)
      /\ \A k, l \in 1 .. Len(g.layout) : g.layout[k] = g.layout[l] => k = l
  BY DEF GraphOK, Shape
<1>2. /\ m \in 1 .. Len(g.layout) /\ DOMAIN g.labels \subseteq Offsets
      /\ \A k \in m + 1 .. Len(g.layout) : g.layout[k] \in Temps(g)
      /\ \A o \in DOMAIN g.labels : \E k \in m + 1 .. Len(g.layout) : g.layout[k] = g.labels[o]
  BY DEF GraphOK, LabelsOK
<1>3. m \in Nat /\ m <= Len(g.layout) /\ m >= 1
  BY <1>1, <1>2
<1>4. ASSUME NEW o \in DOMAIN g.labels
      PROVE  /\ o \in Nat /\ o < CodeSize /\ g.labels[o] \in Lay(g) /\ g.labels[o] \in 1 .. Len(g.nodes)
             /\ \A k \in 1 .. m : g.labels[o] # g.layout[k]
  <2>1. PICK k \in m + 1 .. Len(g.layout) : g.layout[k] = g.labels[o]
    BY <1>2
  <2>2. k \in 1 .. Len(g.layout) /\ \A l \in 1 .. m : l \in 1 .. Len(g.layout) /\ l # k
    BY <1>1, <1>3
  <2>3. g.labels[o] \in Lay(g) /\ g.labels[o] \in 1 .. Len(g.nodes)
    BY <1>1, <2>1, <2>2 DEF Lay
  <2>4. o \in Nat /\ o < CodeSize
    BY <1>2, SizeAssumption DEF Offsets
  <2>5. \A l \in 1 .. m : g.labels[o] # g.layout[l]
    BY <1>1, <2>1, <2>2
  <2>6. QED
    BY <2>3, <2>4, <2>5
<1>5. ASSUME NEW k \in 1 .. m PROVE g.layout[k] \notin Temps(g) /\ g.layout[k] \in Lay(g)
  <2>1. k \in 1 .. Len(g.layout)
    BY <1>1, <1>3
  <2>2. QED
    BY <1>4, <2>1 DEF Temps, Lay
<1>6. ASSUME NEW x \in Lay(g)
      PROVE  x \in 1 .. Len(g.nodes) /\ (x \notin Temps(g) => \E k \in 1 .. m : x = g.layout[k])
  <2>1. PICK k \in 1 .. Len(g.layout) : x = g.layout[k]
    BY DEF Lay
  <2>2. k \in 1 .. m \/ k \in m + 1 .. Len(g.layout)
    BY <1>1, <1>3
  <2>3. QED
    BY <1>1, <1>2, <2>1, <2>2
<1>7. 0 \notin Lay(g)
  BY <1>1, <1>6
<1>8. QED
  BY <1>2, <1>3, <1>4, <1>5, <1>6, <1>7

\* n1 and n2 are the halves of n.
Follow(n, n1, n2) == n1.Start = n.Start /\ n1.End = n2.Start

(* A graph with one block more is a graph. *)
LEMMA GrownOK ==
  ASSUME NEW g, NEW m, GraphOK(g, m), NEW p \in 1 .. m, NEW n1 \in NodeRecords, NEW n2 \in NodeRecords,
         NEW g2, Grown(g, g2, p, n1, n2),
         Follow(g.nodes[g.layout[p]], n1, n2), p < m => n2.End = g.nodes[g.layout[p]].End
  PROVE  /\ GraphOK(g2, m + 1)
         /\ \A x \in 1 .. Len(g.nodes) : g2.nodes[x].Start = g.nodes[x].Start
         /\ g2.layout[p] = g.layout[p] /\ g2.layout[p + 1] = Len(g.nodes) + 1
<1>1. PICK b, f : b = g.layout[p] /\ f = Len(g.nodes) + 1
  OBVIOUS
<1>2. Shape(g) /\ LabelsOK(g, m) /\ Tiled(g, m)
  BY DEF GraphOK
<1>3. /\ m \in Nat /\ m \in 1 .. Len(g.layout) /\ p \in 1 .. Len(g.layout) /\ p \in Nat /\ p <= m /\ Len(g.layout) \in Nat
      /\ Len(g.nodes) \in Nat
  <2>1. m \in Nat /\ m \in 1 .. Len(g.layout)
    BY LabelFacts
  <2>2. Len(g.layout) \in Nat /\ Len(g.nodes) \in Nat
    BY <1>2, ShapeFacts
  <2>3. QED
    BY <2>1, <2>2
<1>4. /\ \A k \in 1 .. Len(g.layout) : g.layout[k] \in 1 .. Len(g.nodes)
      /\ \A k \in 1 .. Len(g.layout) : k # p => g.layout[k] # b
      /\ b \in 1 .. Len(g.nodes)
  BY <1>1, <1>2, <1>3 DEF Shape
<1>5. Shape(g2) /\ g2.labels = g.labels /\ Temps(g2) = Temps(g)
  BY <1>2, <1>3, GrownShape
<1>6. /\ g2.nodes[f] = n2 /\ g2.nodes[b] = n1
      /\ \A x \in 1 .. Len(g.nodes) : x # b => g2.nodes[x] = g.nodes[x]
      /\ IsInserted(g2.layout, g.layout, p, f)
  BY <1>1 DEF Grown, TwoNodes
<1>7. \A x \in 1 .. Len(g.nodes) : g2.nodes[x].Start = g.nodes[x].Start
  BY <1>1, <1>6 DEF Follow
<1>8. /\ Len(g2.layout) = Len(g.layout) + 1
      /\ \A k \in 1 .. p : g2.layout[k] = g.layout[k]
      /\ g2.layout[p + 1] = f
      /\ \A k \in p + 1 .. Len(g.layout) : g2.layout[k + 1] = g.layout[k]
  BY <1>6 DEF IsInserted
<1>9. LabelsOK(g2, m + 1)
  <2>1. m + 1 \in 1 .. Len(g2.layout) /\ DOMAIN g2.labels \subseteq Offsets
    BY <1>2, <1>3, <1>5, <1>8 DEF LabelsOK
  <2>2. ASSUME NEW k \in (m + 1) + 1 .. Len(g2.layout) PROVE g2.layout[k] \in Temps(g2)
    <3>1. k - 1 \in m + 1 .. Len(g.layout) /\ k - 1 \in p + 1 .. Len(g.layout) /\ (k - 1) + 1 = k
      BY <1>3, <1>8
    <3>2. g2.layout[(k - 1) + 1] = g.layout[k - 1]
      BY <1>8, <3>1
    <3>3. g.layout[k - 1] \in Temps(g)
      BY <1>2, <3>1 DEF LabelsOK
    <3>4. QED
      BY <1>5, <3>1, <3>2, <3>3
  <2>3. ASSUME NEW o \in DOMAIN g2.labels
        PROVE  /\ \E k \in (m + 1) + 1 .. Len(g2.layout) : g2.layout[k] = g2.labels[o]
               /\ g2.nodes[g2.labels[o]].Start = o /\ g2.nodes[g2.labels[o]].End = 0
    <3>1. o \in DOMAIN g.labels /\ g2.labels[o] = g.labels[o]
      BY <1>5
    <3>2. PICK k \in m + 1 .. Len(g.layout) : g.layout[k] = g.labels[o]
      BY <1>2, <3>1 DEF LabelsOK
    <3>3. g.nodes[g.labels[o]].Start = o /\ g.nodes[g.labels[o]].End = 0
      BY <1>2, <3>1 DEF LabelsOK
    <3>4. k \in p + 1 .. Len(g.layout) /\ k + 1 \in (m + 1) + 1 .. Len(g2.layout) /\ k # p /\ k \in 1 .. Len(g.layout)
      BY <1>3, <1>8
    <3>5. g2.layout[k + 1] = g2.labels[o]
      BY <1>8, <3>1, <3>2, <3>4
    <3>6. g2.nodes[g.labels[o]] = g.nodes[g.labels[o]]
      BY <1>4, <1>6, <3>2, <3>4
    <3>7. QED
      BY <3>1, <3>3, <3>4, <3>5, <3>6
  <2>4. QED
    BY <2>1, <2>2, <2>3, Zenon DEF LabelsOK
<1>10. Tiled(g2, m + 1)
  <2>1. g2.nodes[g2.layout[1]].Start = 0
    <3>1. 1 \in 1 .. p /\ 1 \in 1 .. Len(g.layout)
      BY <1>3
    <3>2. QED
      BY <1>2, <1>4, <1>7, <1>8, <3>1 DEF Tiled
  <2>2. ASSUME NEW k \in 1 .. m PROVE g2.nodes[g2.layout[k]].End = g2.nodes[g2.layout[k + 1]].Start
    <3>1. CASE k < p
      <4>1. k \in 1 .. p /\ k + 1 \in 1 .. p /\ k \in 1 .. m - 1 /\ k # p /\ k \in 1 .. Len(g.layout) /\ k + 1 \in 1 .. Len(g.layout)
        BY <1>3, <3>1
      <4>2. g.nodes[g.layout[k]].End = g.nodes[g.layout[k + 1]].Start
        BY <1>2, <4>1 DEF Tiled
      <4>3. g2.nodes[g.layout[k]] = g.nodes[g.layout[k]] /\ g2.nodes[g.layout[k + 1]].Start = g.nodes[g.layout[k + 1]].Start
        BY <1>4, <1>6, <1>7, <4>1
      <4>4. QED
        BY <1>8, <4>1, <4>2, <4>3
    <3>2. CASE k = p
      <4>1. p \in 1 .. p
        BY <1>3
      <4>2. g2.nodes[g2.layout[p]] = n1 /\ g2.nodes[g2.layout[p + 1]] = n2
        BY <1>1, <1>6, <1>8, <4>1
      <4>3. QED
        BY <3>2, <4>2 DEF Follow
    <3>3. CASE k > p
      <4>1. /\ k - 1 \in 1 .. m - 1 /\ k \in p + 1 .. Len(g.layout) /\ (k - 1) + 1 = k /\ k \in 1 .. Len(g.layout)
            /\ k - 1 \in 1 .. Len(g.layout) /\ k # p /\ p < m
        BY <1>3, <3>3
      <4>2. g2.layout[k + 1] = g.layout[k] /\ g2.nodes[g.layout[k]].Start = g.nodes[g.layout[k]].Start
        BY <1>4, <1>7, <1>8, <4>1
      <4>3. g.nodes[g.layout[k - 1]].End = g.nodes[g.layout[(k - 1) + 1]].Start
        BY <1>2, <4>1 DEF Tiled
      <4>4. g2.nodes[g2.layout[k]].End = g.nodes[g.layout[k - 1]].End
        <5>1. CASE k = p + 1
          <6>1. g2.nodes[g2.layout[k]] = n2 /\ k - 1 = p
            BY <1>3, <1>6, <1>8, <5>1
          <6>2. QED
            BY <4>1, <6>1
        <5>2. CASE k # p + 1
          <6>1. k - 1 \in p + 1 .. Len(g.layout) /\ k - 1 # p
            BY <1>3, <3>3, <4>1, <5>2
          <6>2. g2.layout[(k - 1) + 1] = g.layout[k - 1]
            BY <1>8, <6>1
          <6>3. g2.nodes[g.layout[k - 1]] = g.nodes[g.layout[k - 1]]
            BY <1>4, <1>6, <4>1, <6>1
          <6>4. QED
            BY <4>1, <6>2, <6>3
        <5>3. QED
          BY <5>1, <5>2
      <4>5. QED
        BY <4>1, <4>2, <4>3, <4>4
    <3>4. QED
      BY <1>3, <3>1, <3>2, <3>3
  <2>3. (m + 1) - 1 = m
    BY <1>3
  <2>4. QED
    BY <2>1, <2>2, <2>3 DEF Tiled
<1>11. QED
  <2>1. p \in 1 .. p
    BY <1>3
  <2>2. QED
    BY <1>1, <1>5, <1>7, <1>8, <1>9, <1>10, <2>1 DEF GraphOK

-----------------------------------------------------------------------------
(* Temporary blocks. *)

\* g2 is g with more temporary blocks.
Extended(g, g2, m) ==
  /\ GraphOK(g2, m)
  /\ DOMAIN g.labels \subseteq DOMAIN g2.labels /\ Lay(g) \subseteq Lay(g2)
  /\ \A x \in Lay(g2) : x \notin Temps(g2) => x \in Lay(g) /\ x \notin Temps(g)
  /\ \A x \in 1 .. Len(g.nodes) : x \in 1 .. Len(g2.nodes) /\ g2.nodes[x] = g.nodes[x]
  /\ \A k \in 1 .. m : g2.layout[k] = g.layout[k]

(* No block more, or more in two steps. *)
LEMMA ExtendedTwice ==
  ASSUME NEW g, NEW m, GraphOK(g, m)
  PROVE  /\ Extended(g, g, m)
         /\ \A g2, g3 : Extended(g, g2, m) /\ Extended(g2, g3, m) => Extended(g, g3, m)
<1>1. Extended(g, g, m)
  BY Zenon DEF Extended
<1>2. ASSUME NEW g2, NEW g3, Extended(g, g2, m), Extended(g2, g3, m) PROVE Extended(g, g3, m)
  <2>1. /\ GraphOK(g3, m) /\ DOMAIN g.labels \subseteq DOMAIN g3.labels /\ Lay(g) \subseteq Lay(g3)
    BY <1>2 DEF Extended
  <2>2. \A x \in Lay(g3) : x \notin Temps(g3) => x \in Lay(g) /\ x \notin Temps(g)
    BY <1>2, Zenon DEF Extended
  <2>3. \A x \in 1 .. Len(g.nodes) : x \in 1 .. Len(g3.nodes) /\ g3.nodes[x] = g.nodes[x]
    BY <1>2, Zenon DEF Extended
  <2>4. \A k \in 1 .. m : g3.layout[k] = g.layout[k]
    BY <1>2, Zenon DEF Extended
  <2>5. QED
    BY <2>1, <2>2, <2>3, <2>4, Zenon DEF Extended
<1>3. QED
  BY <1>1, <1>2

(* fgAddNodeMSILOffset adds a temporary block for an offset that has none. *)
LEMMA LabelAdded ==
  ASSUME NEW g, NEW m, GraphOK(g, m), NEW o \in Offsets
  PROVE  Extended(g, fgAddNodeMSILOffset(g, o), m) /\ o \in DOMAIN fgAddNodeMSILOffset(g, o).labels
<1>1. CASE o \in DOMAIN g.labels
  <2>1. fgAddNodeMSILOffset(g, o) = g
    BY <1>1, Zenon DEF fgAddNodeMSILOffset
  <2>2. QED
    BY <1>1, <2>1, ExtendedTwice
<1>2. CASE o \notin DOMAIN g.labels
  <2>1. PICK g2 : g2 = fgAddNodeMSILOffset(g, o)
    OBVIOUS
  <2>2. PICK ns, l, lab, f, x :
          ns = g.nodes /\ l = g.layout /\ lab = g.labels /\ f = Len(ns) + 1 /\ x = node(o, 0, 0, NoTerminator)
    OBVIOUS
  <2>3. PICK ns2, l2, lab2 :
          /\ ns2 = Append(ns, x) /\ l2 = Append(l, f)
          /\ lab2 = [q \in DOMAIN lab \cup {o} |-> IF q = o THEN f ELSE lab[q]]
    OBVIOUS
  <2>4. Shape(g) /\ LabelsOK(g, m) /\ Tiled(g, m)
    BY DEF GraphOK
  <2>5. /\ g = Graph(ns, l, lab) /\ ns \in Seq(NodeRecords) /\ l \in Seq(Nat) /\ Fresh(g) = f
        /\ Len(ns) \in Nat /\ Len(l) \in Nat /\ f \in Nat
        /\ \A k \in 1 .. Len(l) : l[k] \in 1 .. Len(ns)
        /\ \A k, j \in 1 .. Len(l) : l[k] = l[j] => k = j
    BY <2>2, <2>4 DEF Shape, Fresh
  <2>6. x \in NodeRecords /\ x.Start = o /\ x.End = 0
    <3>1. NoTerminator \in NodeTerms /\ o \in Nat
      BY DEF NoTerminator, NodeTerms, Offsets
    <3>2. QED
      BY <2>2, <3>1, NodeFields
  <2>7. g2 = Graph(ns2, l2, lab2)
    <3>1. makeFlowGraphNode(g, o, 0) = Graph(ns2, l2, lab)
      BY <2>2, <2>3, <2>5, MakeIs
    <3>2. g2 = Graph(Graph(ns2, l2, lab).nodes, Graph(ns2, l2, lab).layout,
                     [q \in DOMAIN g.labels \cup {o} |-> IF q = o THEN Fresh(g) ELSE g.labels[q]])
      BY <1>2, <2>1, <3>1, Zenon DEF fgAddNodeMSILOffset
    <3>3. lab2 = [q \in DOMAIN g.labels \cup {o} |-> IF q = o THEN Fresh(g) ELSE g.labels[q]]
      BY <2>2, <2>3, <2>5, Zenon
    <3>4. QED
      <4>1. Graph(ns2, l2, lab).nodes = ns2 /\ Graph(ns2, l2, lab).layout = l2
        BY GraphFields
      <4>2. g2 = Graph(Graph(ns2, l2, lab).nodes, Graph(ns2, l2, lab).layout, lab2)
        BY <3>2, <3>3
      <4>3. QED
        BY <4>1, <4>2
  <2>8. g2.nodes = ns2 /\ g2.layout = l2 /\ g2.labels = lab2
    BY <2>7, GraphFields
  <2>9. /\ ns2 \in Seq(NodeRecords) /\ Len(ns2) = f /\ ns2[f] = x
        /\ \A y \in 1 .. Len(ns) : ns2[y] = ns[y] /\ y \in 1 .. f
    <3>1. /\ ns2 \in Seq(NodeRecords) /\ Len(ns2) = Len(ns) + 1 /\ ns2[Len(ns) + 1] = x
          /\ \A y \in 1 .. Len(ns) : ns2[y] = ns[y]
      BY <2>3, <2>5, <2>6, NodeAdded
    <3>2. \A y \in 1 .. Len(ns) : y \in 1 .. f
      BY <2>2, <2>5
    <3>3. QED
      BY <2>2, <3>1, <3>2
  <2>10. /\ l2 \in Seq(Nat) /\ Len(l2) = Len(l) + 1 /\ l2[Len(l) + 1] = f
         /\ \A k \in 1 .. Len(l) : l2[k] = l[k] /\ k \in 1 .. Len(l2)
    BY <2>3, <2>5, AppendProperties
  <2>11. /\ DOMAIN lab2 = DOMAIN lab \cup {o} /\ lab2[o] = f
         /\ \A q \in DOMAIN lab : lab2[q] = lab[q] /\ q # o
    BY <1>2, <2>2, <2>3
  <2>12. /\ m \in Nat /\ m \in 1 .. Len(l)
         /\ \A q \in DOMAIN lab : lab[q] \in 1 .. Len(ns)
    BY <2>2, LabelFacts
  <2>13. ASSUME NEW k \in 1 .. Len(l2) PROVE (k \in 1 .. Len(l) /\ l2[k] = l[k]) \/ (k = Len(l) + 1 /\ l2[k] = f)
    BY <2>5, <2>10
  <2>14. \A k \in 1 .. Len(l) : l[k] # f /\ k # Len(l) + 1
    BY <2>2, <2>5
  <2>15. Shape(g2)
    <3>1. \A k \in 1 .. Len(l2) : l2[k] \in 1 .. Len(ns2)
      <4>1. f \in 1 .. f
        BY <2>2, <2>5
      <4>2. QED
        BY <2>5, <2>9, <2>13, <4>1
    <3>2. ASSUME NEW k \in 1 .. Len(l2), NEW j \in 1 .. Len(l2), l2[k] = l2[j] PROVE k = j
      BY <2>5, <2>13, <2>14, <3>2
    <3>3. QED
      BY <2>7, <2>8, <2>9, <2>10, <3>1, <3>2 DEF Shape
  <2>16. Temps(g2) = Temps(g) \cup {f}
    <3>1. \A y : y \in Temps(g2) <=> \E q \in DOMAIN lab \cup {o} : y = lab2[q]
      BY <2>8, <2>11 DEF Temps
    <3>2. \A y : y \in Temps(g) <=> \E q \in DOMAIN lab : y = lab[q]
      BY <2>2 DEF Temps
    <3>3. QED
      BY <2>11, <3>1, <3>2
  <2>17. Lay(g2) = Lay(g) \cup {f}
    <3>1. \A y : y \in Lay(g2) <=> \E k \in 1 .. Len(l2) : y = l2[k]
      BY <2>8 DEF Lay
    <3>2. \A y : y \in Lay(g) <=> \E k \in 1 .. Len(l) : y = l[k]
      BY <2>2 DEF Lay
    <3>3. Len(l) + 1 \in 1 .. Len(l2)
      BY <2>5, <2>10
    <3>4. QED
      BY <2>10, <2>13, <3>1, <3>2, <3>3
  <2>18. LabelsOK(g2, m)
    <3>1. m \in 1 .. Len(l2) /\ DOMAIN lab2 \subseteq Offsets
      BY <2>2, <2>4, <2>10, <2>11, <2>12 DEF LabelsOK
    <3>2. ASSUME NEW k \in m + 1 .. Len(l2) PROVE l2[k] \in Temps(g2)
      <4>1. k \in 1 .. Len(l2) /\ (k # Len(l) + 1 => k \in m + 1 .. Len(l))
        <5>1. Len(l) \in Nat /\ Len(l2) = Len(l) + 1 /\ m \in Nat
          BY <2>5, <2>10, <2>12
        <5>2. QED
          BY <5>1
      <4>2. CASE k = Len(l) + 1
        BY <2>10, <2>16, <4>2
      <4>3. CASE k # Len(l) + 1
        <5>1. l[k] \in Temps(g)
          BY <2>2, <2>4, <4>1, <4>3 DEF LabelsOK
        <5>2. QED
          BY <2>13, <2>16, <4>1, <4>3, <5>1
      <4>4. QED
        BY <4>2, <4>3
    <3>3. ASSUME NEW q \in DOMAIN lab2
          PROVE  /\ \E k \in m + 1 .. Len(l2) : l2[k] = lab2[q]
                 /\ ns2[lab2[q]].Start = q /\ ns2[lab2[q]].End = 0
      <4>1. CASE q = o
        <5>1. Len(l) + 1 \in m + 1 .. Len(l2)
          BY <2>5, <2>10, <2>12
        <5>2. QED
          BY <2>6, <2>9, <2>10, <2>11, <4>1, <5>1
      <4>2. CASE q # o
        <5>1. q \in DOMAIN lab /\ lab2[q] = lab[q]
          BY <2>11, <4>2
        <5>2. PICK k \in m + 1 .. Len(l) : l[k] = lab[q]
          BY <2>2, <2>4, <5>1 DEF LabelsOK
        <5>3. k \in m + 1 .. Len(l2) /\ k \in 1 .. Len(l)
          BY <2>5, <2>10, <2>12
        <5>4. l2[k] = lab2[q]
          BY <2>10, <5>1, <5>2, <5>3
        <5>5. ns2[lab2[q]] = ns[lab[q]]
          BY <2>9, <2>12, <5>1
        <5>6. ns[lab[q]].Start = q /\ ns[lab[q]].End = 0
          BY <2>2, <2>4, <5>1 DEF LabelsOK
        <5>7. QED
          BY <5>3, <5>4, <5>5, <5>6
      <4>3. QED
        BY <4>1, <4>2
    <3>4. QED
      BY <2>8, <3>1, <3>2, <3>3 DEF LabelsOK
  <2>19. \A k \in 1 .. m : k \in 1 .. Len(l) /\ l2[k] = l[k] /\ ns2[l2[k]] = ns[l[k]]
    <3>1. \A k \in 1 .. m : k \in 1 .. Len(l)
      BY <2>5, <2>12
    <3>2. QED
      BY <2>5, <2>9, <2>10, <3>1
  <2>20. Tiled(g2, m)
    <3>1. \A k \in 1 .. m - 1 : k \in 1 .. m /\ k + 1 \in 1 .. m
      BY <2>12
    <3>2. 1 \in 1 .. m
      BY <2>12
    <3>3. ns[l[1]].Start = 0 /\ \A k \in 1 .. m - 1 : ns[l[k]].End = ns[l[k + 1]].Start
      BY <2>2, <2>4 DEF Tiled
    <3>4. ns2[l2[1]].Start = 0
      BY <2>19, <3>2, <3>3
    <3>5. \A k \in 1 .. m - 1 : ns2[l2[k]].End = ns2[l2[k + 1]].Start
      BY <2>19, <3>1, <3>3
    <3>6. QED
      BY <2>8, <3>4, <3>5 DEF Tiled
  <2>21. GraphOK(g2, m)
    BY <2>15, <2>18, <2>20 DEF GraphOK
  <2>22. Extended(g, g2, m)
    <3>1. DOMAIN g.labels \subseteq DOMAIN g2.labels /\ Lay(g) \subseteq Lay(g2)
      BY <2>2, <2>8, <2>11, <2>17
    <3>2. \A y \in Lay(g2) : y \notin Temps(g2) => y \in Lay(g) /\ y \notin Temps(g)
      BY <2>16, <2>17
    <3>3. \A y \in 1 .. Len(g.nodes) : y \in 1 .. Len(g2.nodes) /\ g2.nodes[y] = g.nodes[y]
      BY <2>2, <2>8, <2>9
    <3>4. \A k \in 1 .. m : g2.layout[k] = g.layout[k]
      BY <2>2, <2>8, <2>19
    <3>5. QED
      BY <2>21, <3>1, <3>2, <3>3, <3>4, Zenon DEF Extended
  <2>23. QED
    BY <2>1, <2>8, <2>11, <2>22
<1>3. QED
  BY <1>1, <1>2

-----------------------------------------------------------------------------
(* The blocks that are done. *)

(* A block goes to the same offsets when there are more blocks. *)
LEMMA NodeKept ==
  ASSUME NEW n, NEW L, NEW ns, NEW rs, NodeOK(n, L, ns, rs),
         NEW L2, L \subseteq L2, NEW ns2, \A x \in L : ns2[x].Start = ns[x].Start
  PROVE  NodeOK(n, L2, ns2, rs)
<1>1. \A k \in 1 .. Len(n.term.succ) : n.term.succ[k] \in L
  BY DEF NodeOK, NodeFlow
<1>2. \A k \in 1 .. Len(n.term.succ) : n.term.succ[k] \in L2
  BY <1>1
<1>3. \A k \in 1 .. Len(n.term.succ) : ns2[n.term.succ[k]].Start = ns[n.term.succ[k]].Start
  BY <1>1
<1>4. StartsIn(ns2, n.term.succ) = StartsIn(ns, n.term.succ)
  BY <1>3 DEF StartsIn
<1>5. NodeRange(n, rs) /\ StartsIn(ns, n.term.succ) = GoesTo(code[n.End], n.End)
  BY DEF NodeOK, NodeFlow
<1>6. QED
  BY <1>2, <1>4, <1>5, Zenon DEF NodeOK, NodeFlow

(* Temporary blocks do not matter. *)
LEMMA DoneExtended ==
  ASSUME NEW g, NEW m, GraphOK(g, m), NEW g2, Extended(g, g2, m), NEW rs, NEW open, Done(g, rs, open)
  PROVE  Done(g2, rs, open)
<1> SUFFICES ASSUME NEW x \in Lay(g2), x \notin Temps(g2), x # open
             PROVE  NodeOK(g2.nodes[x], Lay(g2), g2.nodes, rs)
  BY DEF Done
<1>1. x \in Lay(g) /\ x \notin Temps(g) /\ Lay(g) \subseteq Lay(g2)
  BY DEF Extended
<1>2. \A y \in Lay(g) : g2.nodes[y] = g.nodes[y]
  BY LabelFacts DEF Extended
<1>3. NodeOK(g.nodes[x], Lay(g), g.nodes, rs)
  BY <1>1 DEF Done
<1>4. \A y \in Lay(g) : g2.nodes[y].Start = g.nodes[y].Start
  BY <1>2
<1>5. NodeOK(g.nodes[x], Lay(g2), g2.nodes, rs)
  BY <1>1, <1>3, <1>4, NodeKept
<1>6. QED
  BY <1>1, <1>2, <1>5

(* One block more. *)
LEMMA DoneGrown ==
  ASSUME NEW g, NEW m, GraphOK(g, m), NEW p \in 1 .. m, NEW n1 \in NodeRecords, NEW n2 \in NodeRecords,
         NEW g2, Grown(g, g2, p, n1, n2), Follow(g.nodes[g.layout[p]], n1, n2),
         p < m => n2.End = g.nodes[g.layout[p]].End,
         NEW rs, NEW open, NEW open2, Done(g, rs, open),
         \A x \in Lay(g) : x # g.layout[p] => x # open,
         NodeOK(n1, Lay(g2), g2.nodes, rs),
         open2 = Len(g.nodes) + 1 \/ NodeOK(n2, Lay(g2), g2.nodes, rs)
  PROVE  Done(g2, rs, open2)
<1> SUFFICES ASSUME NEW x \in Lay(g2), x \notin Temps(g2), x # open2
             PROVE  NodeOK(g2.nodes[x], Lay(g2), g2.nodes, rs)
  BY DEF Done
<1>1. PICK b, f : b = g.layout[p] /\ f = Len(g.nodes) + 1
  OBVIOUS
<1>2. Shape(g) /\ p \in 1 .. Len(g.layout) /\ m \in Nat
  <2>1. m \in Nat /\ m \in 1 .. Len(g.layout) /\ Shape(g) /\ Len(g.layout) \in Nat
    BY LabelFacts, ShapeFacts DEF GraphOK
  <2>2. QED
    BY <2>1
<1>3. Lay(g2) = Lay(g) \cup {f} /\ Temps(g2) = Temps(g)
  BY <1>1, <1>2, GrownShape
<1>4. \A y \in 1 .. Len(g.nodes) : g2.nodes[y].Start = g.nodes[y].Start
  BY GrownOK
<1>5. g2.nodes[f] = n2 /\ g2.nodes[b] = n1 /\ \A y \in 1 .. Len(g.nodes) : y # b => g2.nodes[y] = g.nodes[y]
  BY <1>1 DEF Grown, TwoNodes
<1>6. CASE x = f
  BY <1>1, <1>5, <1>6
<1>7. CASE x = b
  BY <1>5, <1>7
<1>8. CASE x # f /\ x # b
  <2>1. x \in Lay(g) /\ x \notin Temps(g) /\ x # open
    BY <1>1, <1>3, <1>8
  <2>2. \A y \in Lay(g) : y \in 1 .. Len(g.nodes)
    BY LabelFacts
  <2>3. g2.nodes[x] = g.nodes[x]
    BY <1>5, <1>8, <2>1, <2>2
  <2>4. NodeOK(g.nodes[x], Lay(g), g.nodes, rs)
    BY <2>1 DEF Done
  <2>5. Lay(g) \subseteq Lay(g2) /\ \A y \in Lay(g) : g2.nodes[y].Start = g.nodes[y].Start
    BY <1>3, <1>4, <2>2
  <2>6. NodeOK(g.nodes[x], Lay(g2), g2.nodes, rs)
    BY <2>4, <2>5, NodeKept
  <2>7. QED
    BY <2>3, <2>6
<1>9. QED
  BY <1>6, <1>7, <1>8

(* The last block changes, but not its start. *)
LEMMA ChangedOK ==
  ASSUME NEW g, NEW m, GraphOK(g, m), NEW n \in NodeRecords, n.Start = g.nodes[g.layout[m]].Start,
         NEW g2, g2 = withNode(g, g.layout[m], n)
  PROVE  /\ GraphOK(g2, m) /\ Lay(g2) = Lay(g) /\ Temps(g2) = Temps(g) /\ g2.layout = g.layout /\ g2.labels = g.labels
         /\ g2.nodes[g.layout[m]] = n /\ Len(g2.nodes) = Len(g.nodes)
         /\ \A x \in 1 .. Len(g.nodes) : x # g.layout[m] => g2.nodes[x] = g.nodes[x]
         /\ \A x \in 1 .. Len(g.nodes) : g2.nodes[x].Start = g.nodes[x].Start
<1>1. PICK b, ns, l, lab : b = g.layout[m] /\ ns = g.nodes /\ l = g.layout /\ lab = g.labels
  OBVIOUS
<1>2. PICK h, ns2 : h = g2 /\ ns2 = [ns EXCEPT ![b] = n]
  OBVIOUS
<1>3. h = Graph(ns2, l, lab)
  BY <1>1, <1>2, Zenon DEF withNode
<1>4. h.nodes = ns2 /\ h.layout = l /\ h.labels = lab
  BY <1>3, GraphFields
<1>5. Shape(g) /\ LabelsOK(g, m) /\ Tiled(g, m)
  BY DEF GraphOK
<1>6. /\ ns \in Seq(NodeRecords) /\ l \in Seq(Nat) /\ Len(l) \in Nat
      /\ \A k \in 1 .. Len(l) : l[k] \in 1 .. Len(ns)
      /\ \A k, j \in 1 .. Len(l) : l[k] = l[j] => k = j
  BY <1>1, <1>5 DEF Shape
<1>7. /\ m \in Nat /\ m \in 1 .. Len(l) /\ b = l[m] /\ b \in 1 .. Len(ns)
      /\ \A o \in DOMAIN lab : lab[o] # b /\ lab[o] \in 1 .. Len(ns)
  <2>1. m \in Nat /\ m \in 1 .. Len(l) /\ m \in 1 .. m
    BY <1>1, LabelFacts
  <2>2. \A o \in DOMAIN lab : lab[o] # b /\ lab[o] \in 1 .. Len(ns)
    BY <1>1, <2>1, LabelFacts
  <2>3. QED
    BY <1>1, <1>6, <2>1, <2>2
<1>8. /\ ns2 \in Seq(NodeRecords) /\ Len(ns2) = Len(ns) /\ ns2[b] = n
      /\ \A x \in 1 .. Len(ns) : x # b => ns2[x] = ns[x]
  BY <1>2, <1>6, <1>7, NodeChanged
<1>9. \A x \in 1 .. Len(ns) : ns2[x].Start = ns[x].Start
  <2>1. n.Start = ns[b].Start
    BY <1>1
  <2>2. QED
    BY <1>8, <2>1
<1>10. Shape(h)
  BY <1>3, <1>4, <1>6, <1>8 DEF Shape
<1>11. Temps(h) = Temps(g) /\ Lay(h) = Lay(g)
  BY <1>1, <1>4 DEF Temps, Lay
<1>12. LabelsOK(h, m)
  <2>1. \A o \in DOMAIN lab : ns2[lab[o]] = ns[lab[o]]
    BY <1>7, <1>8
  <2>2. \A o \in DOMAIN lab : /\ \E k \in m + 1 .. Len(l) : l[k] = lab[o]
                              /\ ns[lab[o]].Start = o /\ ns[lab[o]].End = 0
    BY <1>1, <1>5 DEF LabelsOK
  <2>3. \A k \in m + 1 .. Len(l) : l[k] \in Temps(h)
    BY <1>1, <1>5, <1>11 DEF LabelsOK
  <2>4. DOMAIN lab \subseteq Offsets
    BY <1>1, <1>5 DEF LabelsOK
  <2>5. QED
    BY <1>4, <1>7, <2>1, <2>2, <2>3, <2>4 DEF LabelsOK
<1>13. Tiled(h, m)
  <2>1. ns[l[1]].Start = 0 /\ \A k \in 1 .. m - 1 : ns[l[k]].End = ns[l[k + 1]].Start
    BY <1>1, <1>5 DEF Tiled
  <2>2. 1 \in 1 .. Len(l) /\ \A k \in 1 .. m - 1 : k \in 1 .. Len(l) /\ k + 1 \in 1 .. Len(l) /\ k # m
    BY <1>6, <1>7
  <2>3. \A k \in 1 .. m - 1 : ns2[l[k]] = ns[l[k]]
    BY <1>6, <1>7, <1>8, <2>2
  <2>4. \A k \in 1 .. Len(l) : ns2[l[k]].Start = ns[l[k]].Start
    BY <1>6, <1>9
  <2>5. ns2[l[1]].Start = 0 /\ \A k \in 1 .. m - 1 : ns2[l[k]].End = ns2[l[k + 1]].Start
    BY <2>1, <2>2, <2>3, <2>4
  <2>6. QED
    BY <1>4, <2>5 DEF Tiled
<1>14. GraphOK(h, m)
  BY <1>10, <1>12, <1>13 DEF GraphOK
<1>15. QED
  BY <1>1, <1>2, <1>4, <1>8, <1>9, <1>11, <1>14

-----------------------------------------------------------------------------
(* The programs. *)

(* An instruction. *)
LEMMA InstructionsOK ==
  ASSUME NEW o \in Offsets, NEW i \in Instructions(o)
  PROVE  InstrOK(i, o)
<1> DEFINE Local == {t \in Offsets : Stays(o, t)}
<1>1. \/ i \in [Op : {"other"}, targets : {x \in {<<>>} : FallsTo(o)}]
      \/ i \in [Op : {"br"}, targets : {<<t>> : t \in Local}]
      \/ i \in [Op : {"leave"}, targets : {<<t>> : t \in {u \in Offsets \ Local : LegalTarget(o, u)}}]
      \/ i \in [Op : {"brtrue"}, targets : {<<t>> : t \in {u \in Local : FallsTo(o)}}]
      \/ i \in [Op : {"switch"}, targets : {t \in Local \X Local : t[1] <= t[2] /\ FallsTo(o)}]
      \/ i \in [Op : {"throw"} \union (IF Outside(o) THEN {"ret", "jmp"} ELSE {}), targets : {<<>>}]
  BY Zenon DEF Instructions, Outside
<1>2. FallsTo(o) => o + 1 < CodeSize
  BY DEF FallsTo
<1>3. CASE i \in [Op : {"other"}, targets : {x \in {<<>>} : FallsTo(o)}]
  BY <1>2, <1>3 DEF InstrOK
<1>4. CASE i \in [Op : {"br"}, targets : {<<t>> : t \in Local}]
  BY <1>4 DEF InstrOK
<1>5. CASE i \in [Op : {"leave"}, targets : {<<t>> : t \in {u \in Offsets \ Local : LegalTarget(o, u)}}]
  BY <1>5 DEF InstrOK
<1>6. CASE i \in [Op : {"brtrue"}, targets : {<<t>> : t \in {u \in Local : FallsTo(o)}}]
  BY <1>2, <1>6 DEF InstrOK
<1>7. CASE i \in [Op : {"switch"}, targets : {t \in Local \X Local : t[1] <= t[2] /\ FallsTo(o)}]
  BY <1>2, <1>7 DEF InstrOK
<1>8. CASE i \in [Op : {"throw"} \union (IF Outside(o) THEN {"ret", "jmp"} ELSE {}), targets : {<<>>}]
  BY <1>8 DEF InstrOK
<1>9. QED
  BY <1>1, <1>3, <1>4, <1>5, <1>6, <1>7, <1>8

AnyInstruction == UNION {Instructions(n) : n \in Nat}
OneMore(n, ps) ==
  {p \in {Append(q, i) : q \in ps, i \in Instructions(n - 1)} :
     Cardinality({k \in 1 .. n : Branching(p[k])}) <= MaxBranches}
\* Programs of n instructions
GoodPrograms(n) == {p \in Seq(AnyInstruction) : Len(p) = n /\ \A k \in 1 .. n : InstrOK(p[k], k - 1)}

(* One instruction more. *)
LEMMA OneMoreGood ==
  ASSUME NEW n \in Nat, NEW ps \in SUBSET Seq(AnyInstruction)
  PROVE  /\ OneMore(n + 1, ps) \in SUBSET Seq(AnyInstruction)
         /\ n < CodeSize /\ ps \subseteq GoodPrograms(n) => OneMore(n + 1, ps) \subseteq GoodPrograms(n + 1)
<1>1. (n + 1) - 1 = n
  OBVIOUS
<1>2. ASSUME NEW p \in OneMore(n + 1, ps) PROVE \E q \in ps, i \in Instructions(n) : p = Append(q, i)
  BY <1>1 DEF OneMore
<1>3. \A i \in Instructions(n) : i \in AnyInstruction
  BY DEF AnyInstruction
<1>4. OneMore(n + 1, ps) \in SUBSET Seq(AnyInstruction)
  BY <1>2, <1>3
<1>5. ASSUME n < CodeSize, ps \subseteq GoodPrograms(n), NEW p \in OneMore(n + 1, ps) PROVE p \in GoodPrograms(n + 1)
  <2>1. PICK q \in ps, i \in Instructions(n) : p = Append(q, i)
    BY <1>2
  <2>2. q \in Seq(AnyInstruction) /\ Len(q) = n /\ \A k \in 1 .. n : InstrOK(q[k], k - 1)
    BY <1>5 DEF GoodPrograms
  <2>3. n \in Offsets
    BY <1>5, SizeAssumption DEF Offsets
  <2>4. InstrOK(i, n)
    BY <2>3, InstructionsOK
  <2>5. /\ p \in Seq(AnyInstruction) /\ Len(p) = n + 1 /\ p[n + 1] = i
        /\ \A k \in 1 .. n : p[k] = q[k]
    BY <1>3, <2>1, <2>2, AppendProperties
  <2>6. ASSUME NEW k \in 1 .. n + 1 PROVE InstrOK(p[k], k - 1)
    <3>1. CASE k = n + 1
      BY <1>1, <2>4, <2>5, <3>1
    <3>2. CASE k # n + 1
      <4>1. k \in 1 .. n
        BY <3>2
      <4>2. QED
        BY <2>2, <2>5, <4>1
    <3>3. QED
      BY <3>1, <3>2
  <2>7. QED
    BY <2>5, <2>6 DEF GoodPrograms
<1>6. QED
  BY <1>4, <1>5

(* The programs are well formed. *)
LEMMA ProgramsGood ==
  ASSUME NEW p \in Programs
  PROVE  p \in GoodPrograms(CodeSize)
<1> DEFINE S == SUBSET Seq(AnyInstruction)
           G == [x \in Nat \X S |-> OneMore(x[1] + 1, x[2])]
           Body(f) == [m \in 0 .. CodeSize |-> IF m = 0 THEN {<<>>} ELSE OneMore(m, f[m - 1])]
           upTo == CHOOSE f : f = Body(f)
<1>0. CodeSize \in Nat
  BY SizeAssumption
<1>1. {<<>>} \in S
  OBVIOUS
<1>2. G \in [Nat \X S -> S]
  BY OneMoreGood
<1>3. PICK f : RecursiveTo(f, S, {<<>>}, G, CodeSize)
  <2> HIDE DEF S, G
  <2> QED
    BY <1>0, <1>1, <1>2, RecursionTo
<1>4. f \in [0 .. CodeSize -> S] /\ f = [m \in 0 .. CodeSize |-> IF m = 0 THEN {<<>>} ELSE G[<<m - 1, f[m - 1]>>]]
  BY <1>3 DEF RecursiveTo
<1>5. ASSUME NEW m \in 1 .. CodeSize PROVE G[<<m - 1, f[m - 1]>>] = OneMore(m, f[m - 1])
  <2>1. m - 1 \in Nat /\ m - 1 \in 0 .. CodeSize /\ (m - 1) + 1 = m
    BY <1>0
  <2>2. f[m - 1] \in S
    BY <1>4, <2>1, Zenon
  <2> HIDE DEF S
  <2>3. G[<<m - 1, f[m - 1]>>] = OneMore((m - 1) + 1, f[m - 1])
    BY <2>1, <2>2
  <2>4. QED
    BY <2>1, <2>3
<1> HIDE DEF G, S
<1>6. f = Body(f)
  <2>1. \A m \in 0 .. CodeSize : m # 0 => m \in 1 .. CodeSize
    BY <1>0
  <2>2. \A m \in 0 .. CodeSize : (IF m = 0 THEN {<<>>} ELSE G[<<m - 1, f[m - 1]>>])
                                 = (IF m = 0 THEN {<<>>} ELSE OneMore(m, f[m - 1]))
    BY <1>5, <2>1, Zenon
  <2>3. QED
    BY <1>4, <2>2
<1>7. /\ upTo[0] = {<<>>}
      /\ \A m \in Nat : m + 1 <= CodeSize => upTo[m + 1] = OneMore(m + 1, upTo[m])
  <2>1. upTo = Body(upTo)
    BY <1>6, Zenon
  <2> HIDE DEF upTo
  <2>2. upTo[0] = {<<>>}
    BY <1>0, <2>1, 0 \in 0 .. CodeSize
  <2>3. ASSUME NEW m \in Nat, m + 1 <= CodeSize PROVE upTo[m + 1] = OneMore(m + 1, upTo[m])
    <3>1. m + 1 \in 0 .. CodeSize /\ m + 1 # 0 /\ (m + 1) - 1 = m
      BY <1>0, <2>3
    <3>2. upTo[m + 1] = OneMore(m + 1, upTo[(m + 1) - 1])
      BY <2>1, <3>1, Zenon
    <3>3. QED
      BY <3>1, <3>2
  <2>4. QED
    BY <2>2, <2>3
<1>8. Programs = upTo[CodeSize]
  BY DEF Programs, upTo, OneMore
<1> HIDE DEF upTo
<1>9. \A m \in Nat : m <= CodeSize => upTo[m] \in S /\ upTo[m] \subseteq GoodPrograms(m)
  <2> DEFINE T == {m \in Nat : m <= CodeSize => upTo[m] \in S /\ upTo[m] \subseteq GoodPrograms(m)}
  <2>1. 0 \in T
    <3>1. <<>> \in GoodPrograms(0)
      BY DEF GoodPrograms
    <3>2. QED
      BY <1>1, <1>7, <3>1
  <2>2. ASSUME NEW m \in Nat, m \in T PROVE m + 1 \in T
    <3> SUFFICES ASSUME m + 1 <= CodeSize PROVE upTo[m + 1] \in S /\ upTo[m + 1] \subseteq GoodPrograms(m + 1)
      OBVIOUS
    <3>1. m < CodeSize /\ m <= CodeSize
      BY <1>0
    <3>2. upTo[m] \in S /\ upTo[m] \subseteq GoodPrograms(m)
      BY <2>2, <3>1
    <3>3. upTo[m + 1] = OneMore(m + 1, upTo[m])
      BY <1>7
    <3>4. QED
      BY <3>1, <3>2, <3>3, OneMoreGood DEF S
  <2>3. \A m \in Nat : m \in T
    <3> HIDE DEF T
    <3> QED
      BY <2>1, <2>2, SetInduction
  <2>4. QED
    BY <2>3
<1>10. QED
  BY <1>0, <1>8, <1>9

-----------------------------------------------------------------------------
(* From one state to the next.  The program stays as it is. *)

(* The code. *)
LEMMA CodeKept ==
  ASSUME CodeOK, code' = code, EIT' = EIT
  PROVE  CodeOK'
<1>1. \A o : Outside(o) => Outside(o)'
  BY DEF Outside, AllRanges
<1>2. QED
  BY <1>1 DEF CodeOK, InstrOK

(* The first pass goes on. *)
LEMMA ReadingNext ==
  ASSUME code' = code, NEW g, g = graph', NEW m, NEW rs, rs = regions', NEW b, b = Block', NEW o, o = CurrentOffset',
         Reading(g, m, rs, b, o)
  PROVE  Reading(graph, m, regions, Block, CurrentOffset)'
<1>1. Done(graph, regions, Block)'
  BY DEF Reading, Done, NodeOK, NodeRange, NodeFlow
<1>2. Open(graph.nodes[Block], regions, CurrentOffset)'
  BY DEF Reading, Open
<1>3. QED
  BY <1>1, <1>2 DEF Reading

(* The second pass starts, or goes on. *)
LEMMA LinkingNext ==
  ASSUME code' = code, NEW g, g = graph', NEW m, NEW rs, rs = regions', NEW b, b = Block', Linking(g, m, rs, b)
  PROVE  Linking(graph, m, regions, Block)'
<1>1. Done(graph, regions, 0)'
  BY DEF Linking, Covered, Done, NodeOK, NodeRange, NodeFlow
<1>2. QED
  BY <1>1 DEF Linking, Covered

(* The regions get other pads or entries. *)
LEMMA RegionsKept ==
  ASSUME NEW rs, NEW rs2, TreeOK(rs), SameTree(rs, rs2), NEW g, NEW m, NEW b, NEW o, Reading(g, m, rs, b, o)
  PROVE  Reading(g, m, rs2, b, o)
<1>1. Ids(rs2) = Ids(rs) /\ \A r, s \in Ids(rs) : In2(rs2, r, s) <=> In2(rs, r, s)
  BY SameTreeOK
<1>2. \A r \in Ids(rs) : \A p : Around2(rs2, r, p) <=> Around2(rs, r, p)
  BY DEF SameTree, Around2
<1>3. \A r, p : InnerAt(rs, r, p) => InnerAt(rs2, r, p)
  BY <1>1, <1>2 DEF InnerAt
<1>4. \A r, p : RegionFor(rs, r, p) => RegionFor(rs2, r, p)
  BY <1>3 DEF RegionFor
<1>5. Done(g, rs2, b)
  BY <1>4 DEF Reading, Done, NodeOK, NodeRange
<1>6. Open(g.nodes[b], rs2, o)
  BY <1>4 DEF Reading, Open
<1>7. QED
  BY <1>5, <1>6 DEF Reading

(* At first there is one block, and nothing is read. *)
LEMMA OneBlock ==
  ASSUME NEW g, NEW m, GraphOK(g, m), Len(g.layout) = 1, NEW rs
  PROVE  Done(g, rs, g.layout[m]) /\ m = 1
<1>1. m = 1
  BY LabelFacts
<1>2. Lay(g) = {g.layout[1]}
  BY DEF Lay
<1>3. QED
  BY <1>1, <1>2 DEF Done

(* A block in which nothing is read is open. *)
LEMMA NothingRead ==
  ASSUME NEW n, n.term = NoTerminator, n.Start = 0, NEW rs
  PROVE  Open(n, rs, 0)
  BY DEF Open

(* The flow graph at the start: one block, in which nothing is read. *)
LEMMA FlowInit ==
  ASSUME Init
  PROVE  FlowInv
<1>1. /\ phase = "sort" /\ CurrentOffset = 0 /\ code \in Programs /\ labels = <<>>
      /\ nodes = <<node(0, 0, 0, NoTerminator)>> /\ layout = <<1>> /\ Block = 1
  BY DEF Init, TreeInit
<1>2. CodeOK
  <2>1. code \in GoodPrograms(CodeSize)
    BY <1>1, ProgramsGood
  <2>2. \A k \in 1 .. CodeSize : InstrOK(code[k], k - 1)
    BY <2>1 DEF GoodPrograms
  <2>3. ASSUME NEW o \in Offsets PROVE InstrOK(code[o + 1], o)
    <3>1. o + 1 \in 1 .. CodeSize /\ (o + 1) - 1 = o
      BY SizeAssumption DEF Offsets
    <3>2. InstrOK(code[o + 1], (o + 1) - 1)
      BY <2>2, <3>1
    <3>3. QED
      BY <3>1, <3>2
  <2>4. QED
    BY <2>3 DEF CodeOK
<1>3. PICK g, n : g = graph /\ n = node(0, 0, 0, NoTerminator)
  OBVIOUS
<1>4. g = Graph(nodes, layout, labels) /\ g.nodes = nodes /\ g.layout = layout /\ g.labels = labels
  BY <1>3, GraphFields DEF graph
<1>5. n \in NodeRecords /\ n.Start = 0 /\ n.term = NoTerminator
  <2>1. NoTerminator \in NodeTerms
    BY DEF NoTerminator, NodeTerms
  <2>2. QED
    BY <1>3, <2>1, NodeFields
<1>6. g.nodes = <<n>> /\ g.layout = <<1>> /\ DOMAIN g.labels = {}
  BY <1>1, <1>3, <1>4
<1>7. /\ g.nodes \in Seq(NodeRecords) /\ Len(g.nodes) = 1 /\ g.nodes[1] = n
      /\ g.layout \in Seq(Nat) /\ Len(g.layout) = 1 /\ g.layout[1] = 1
  BY <1>5, <1>6
<1>8. GraphOK(g, 1)
  <2>1. Shape(g)
    BY <1>4, <1>7 DEF Shape
  <2>2. LabelsOK(g, 1)
    BY <1>6, <1>7 DEF LabelsOK
  <2>3. Tiled(g, 1)
    BY <1>5, <1>7 DEF Tiled
  <2>4. QED
    BY <2>1, <2>2, <2>3 DEF GraphOK
<1>9. Reading(g, 1, regions, 1, 0)
  BY <1>5, <1>7, <1>8, OneBlock, NothingRead DEF Reading
<1>10. QED
  BY <1>1, <1>2, <1>3, <1>7, <1>9 DEF FlowInv

-----------------------------------------------------------------------------
(* Steps that leave the graph alone. *)

(* The state stays where the reader is in the first pass. *)
LEMMA GraphKept ==
  ASSUME CodeOK, EIT' = EIT, UNCHANGED <<code, blockVars>>, NEW m \in Nat, NEW rs, rs = regions',
         Reading(graph, m, rs, Block, CurrentOffset), CurrentOffset' = CurrentOffset,
         phase' \notin {"assert", "done", "instruction"}, phase' \in Building => Len(layout) = 1
  PROVE  FlowInv'
<1>1. /\ code' = code /\ nodes' = nodes /\ layout' = layout /\ Block' = Block /\ labels' = labels
      /\ graph' = graph
  BY DEF blockVars, graph
<1>2. PICK g, b, o : g = graph /\ b = Block /\ o = CurrentOffset
  OBVIOUS
<1>3. Reading(g, m, rs, b, o)
  BY <1>2
<1>4. g = graph' /\ b = Block' /\ o = CurrentOffset'
  BY <1>1, <1>2
<1>5. Reading(graph, m, regions, Block, CurrentOffset)'
  BY <1>1, <1>3, <1>4, ReadingNext
<1>6. CodeOK'
  BY <1>1, CodeKept
<1>7. QED
  BY <1>1, <1>5, <1>6 DEF FlowInv

(* The tree is built. *)
LEMMA BuildFlow ==
  ASSUME IInv, FlowInv, buildTree, UNCHANGED <<code, blockVars>>
  PROVE  FlowInv'
<1>1. /\ phase \in Building /\ EIT' = EIT /\ CurrentOffset' = CurrentOffset
      /\ phase' \in Building \cup {"switch"}
  <2>1. CASE sortClause
    BY <2>1 DEF sortClause, Building
  <2>2. CASE rgnFindLowestEnclosingRegion
    BY <2>2 DEF rgnFindLowestEnclosingRegion, Building
  <2>3. CASE insertClause
    BY <2>3 DEF insertClause, Building
  <2>4. QED
    BY <2>1, <2>2, <2>3 DEF buildTree
<1>2. CurrentOffset = 0 /\ phase # "done" /\ phase' \notin {"assert", "done", "instruction"}
  BY <1>1 DEF IInv, TreeInv, BuildOK, Building
<1>3. CodeOK /\ Len(layout) = 1
  BY <1>1 DEF FlowInv
<1>4. PICK m \in Nat : Reading(graph, m, regions, Block, CurrentOffset)
  BY <1>2 DEF FlowInv
<1>5. PICK g, rs : g = graph /\ rs = regions'
  OBVIOUS
<1>6. GraphOK(g, m) /\ Len(g.layout) = 1 /\ g.layout[1] = 1 /\ Block = g.layout[m] /\ Open(g.nodes[Block], regions, 0)
  BY <1>2, <1>3, <1>4, <1>5, GraphFields DEF Reading, graph
<1>7. Done(g, rs, Block) /\ m = 1
  BY <1>6, OneBlock
<1>8. g.nodes[Block].Start = 0 /\ g.nodes[Block].term = NoTerminator
  BY <1>6, <1>7 DEF GraphOK, Tiled, Open
<1>9. Open(g.nodes[Block], rs, 0)
  BY <1>8, NothingRead
<1>10. Reading(g, m, rs, Block, 0)
  BY <1>6, <1>7, <1>9 DEF Reading
<1>11. QED
  BY <1>1, <1>2, <1>3, <1>5, <1>10, GraphKept

(* A region is left or entered. *)
LEMMA SwitchFlow ==
  ASSUME IInv, FlowInv, exitRegion \/ enterRegion, UNCHANGED <<code, blockVars>>
  PROVE  FlowInv'
<1>1. phase = "switch" /\ phase' = phase /\ EIT' = EIT /\ CurrentOffset' = CurrentOffset
  BY DEF exitRegion, enterRegion
<1>2. PICK rs : rs = regions'
  OBVIOUS
<1>3. TreeOK(regions)
  BY DEF IInv, TreeInv
<1>4. rs = regions \/ SameTree(regions, rs)
  <2>1. CASE exitRegion
    BY <1>2, <2>1 DEF exitRegion
  <2>2. CASE enterRegion
    BY <1>2, <2>2, EnterKeeps
  <2>3. QED
    BY <2>1, <2>2
<1>5. PICK m \in Nat : Reading(graph, m, regions, Block, CurrentOffset)
  BY <1>1 DEF FlowInv
<1>6. Reading(graph, m, rs, Block, CurrentOffset)
  BY <1>3, <1>4, <1>5, RegionsKept
<1>7. phase' \notin {"assert", "done", "instruction"} /\ phase' \notin Building
  BY <1>1 DEF Building
<1>8. CodeOK
  BY DEF FlowInv
<1>9. QED
  BY <1>1, <1>2, <1>6, <1>7, <1>8, GraphKept

-----------------------------------------------------------------------------
(* Steps of the first pass. *)

(* The last block changes. *)
LEMMA DoneChanged ==
  ASSUME NEW g, NEW m, GraphOK(g, m), NEW n \in NodeRecords, n.Start = g.nodes[g.layout[m]].Start,
         NEW g2, g2 = withNode(g, g.layout[m], n), NEW rs, Done(g, rs, g.layout[m]),
         NEW open, open = g.layout[m] \/ NodeOK(n, Lay(g), g2.nodes, rs)
  PROVE  Done(g2, rs, open)
<1> SUFFICES ASSUME NEW x \in Lay(g2), x \notin Temps(g2), x # open
             PROVE  NodeOK(g2.nodes[x], Lay(g2), g2.nodes, rs)
  BY DEF Done
<1>1. PICK b : b = g.layout[m]
  OBVIOUS
<1>2. /\ Lay(g2) = Lay(g) /\ Temps(g2) = Temps(g) /\ g2.nodes[b] = n
      /\ \A y \in 1 .. Len(g.nodes) : y # b => g2.nodes[y] = g.nodes[y]
      /\ \A y \in 1 .. Len(g.nodes) : g2.nodes[y].Start = g.nodes[y].Start
  BY <1>1, ChangedOK
<1>3. \A y \in Lay(g) : y \in 1 .. Len(g.nodes)
  BY LabelFacts
<1>4. CASE x = b
  BY <1>1, <1>2, <1>4
<1>5. CASE x # b
  <2>1. x \in Lay(g) /\ g2.nodes[x] = g.nodes[x]
    BY <1>2, <1>3, <1>5
  <2>2. NodeOK(g.nodes[x], Lay(g), g.nodes, rs)
    BY <1>1, <1>2, <1>5, <2>1 DEF Done
  <2>3. \A y \in Lay(g) : g2.nodes[y].Start = g.nodes[y].Start
    BY <1>2, <1>3
  <2>4. NodeOK(g.nodes[x], Lay(g2), g2.nodes, rs)
    BY <1>2, <2>2, <2>3, NodeKept
  <2>5. QED
    BY <2>1, <2>4
<1>6. QED
  BY <1>4, <1>5

(* A block is made behind another. *)
LEMMA MakeGrown ==
  ASSUME NEW g, Shape(g), NEW p \in 1 .. Len(g.layout), NEW offset \in Nat,
         NEW g2, g2 = makeFlowGraphNode(g, offset, g.layout[p]), NEW n, n = node(offset, 0, 0, NoTerminator)
  PROVE  n \in NodeRecords /\ Grown(g, g2, p, g.nodes[g.layout[p]], n)
<1>1. PICK b, ns, ns2, h : b = g.layout[p] /\ ns = g.nodes /\ ns2 = Append(ns, n) /\ h = g2
  OBVIOUS
<1>2. /\ g = Graph(ns, g.layout, g.labels) /\ b \in 1 .. Len(ns) /\ Position(g, b) = p /\ Len(ns) \in Nat
      /\ ns[b] \in NodeRecords
  BY <1>1, ShapeFacts
<1>3. ns \in Seq(NodeRecords)
  BY <1>1 DEF Shape
<1>4. NoTerminator \in NodeTerms
  BY DEF NoTerminator, NodeTerms
<1>5. n \in NodeRecords
  BY <1>4, NodeFields
<1>6. /\ ns2 \in Seq(NodeRecords) /\ Len(ns2) = Len(ns) + 1 /\ ns2[Len(ns) + 1] = n
      /\ \A x \in 1 .. Len(ns) : ns2[x] = ns[x]
  BY <1>1, <1>3, <1>5, NodeAdded
<1>7. TwoNodes(ns, ns2, b, ns[b], n)
  BY <1>2, <1>6 DEF TwoNodes
<1>8. h = Graph(ns2, Seqs!InsertAt(g.layout, p + 1, Len(ns) + 1), g.labels)
  <2>1. h = Graph(Append(ns, node(offset, 0, 0, NoTerminator)),
                  IF b = 0 THEN Append(g.layout, Len(ns) + 1)
                  ELSE Seqs!InsertAt(g.layout, Position(g, b) + 1, Len(ns) + 1), g.labels)
    <3>1. h = makeFlowGraphNode(g, offset, b)
      BY <1>1
    <3>2. QED
      BY <1>2, <3>1, MakeIs
  <2>2. b # 0
    BY <1>2
  <2>3. QED
    BY <1>1, <1>2, <2>1, <2>2
<1>9. Grown(g, h, p, ns[b], n)
  <2>1. /\ h = Graph(ns2, Seqs!InsertAt(g.layout, p + 1, Len(g.nodes) + 1), g.labels)
        /\ TwoNodes(g.nodes, ns2, g.layout[p], ns[b], n)
    BY <1>1, <1>7, <1>8
  <2>2. QED
    BY <1>2, <1>5, <2>1, GrownBy
<1>10. QED
  BY <1>1, <1>5, <1>9

\* g2 is g with one block more, n2, in which nothing is read yet.
GoesOn(g, g2, m, rs, n2) ==
  /\ Reading(g2, m + 1, rs, Len(g.nodes) + 1, n2.Start) /\ m + 1 \in Nat
  /\ Len(g2.nodes) = Len(g.nodes) + 1 /\ g2.nodes[Len(g.nodes) + 1] = n2

(* The last block is done, and the next begins. *)
LEMMA NextBlock ==
  ASSUME NEW g, NEW m, GraphOK(g, m), g.layout[1] = 1, NEW rs, Done(g, rs, g.layout[m]),
         NEW n1 \in NodeRecords, NEW n2 \in NodeRecords, NEW g2, Grown(g, g2, m, n1, n2),
         Follow(g.nodes[g.layout[m]], n1, n2), NodeOK(n1, Lay(g2), g2.nodes, rs), n2.term = NoTerminator
  PROVE  GoesOn(g, g2, m, rs, n2)
<1>1. m \in Nat /\ m \in 1 .. m
  BY LabelFacts
<1>2. PICK f : f = Len(g.nodes) + 1
  OBVIOUS
<1>3. GraphOK(g2, m + 1) /\ g2.layout[m + 1] = f
  BY <1>1, <1>2, GrownOK
<1>4. g2.layout[1] = 1
  BY <1>1 DEF Grown, IsInserted
<1>5. Len(g2.nodes) = f /\ g2.nodes[f] = n2
  BY <1>2 DEF Grown, TwoNodes
<1>6. Done(g2, rs, f)
  <2>1. \A x \in Lay(g) : x # g.layout[m] => x # g.layout[m]
    OBVIOUS
  <2>2. QED
    BY <1>1, <1>2, <2>1, DoneGrown
<1>7. n2.Start \in Nat
  BY DEF NodeRecords
<1>8. Open(n2, rs, n2.Start)
  BY <1>7 DEF Open
<1>9. QED
  BY <1>1, <1>2, <1>3, <1>4, <1>5, <1>6, <1>8 DEF Reading, GoesOn

Given(g, b, r, g2) == g2 = Graph([g.nodes EXCEPT ![b].Region = r], g.layout, g.labels)

(* A block where nothing is read yet gets a region. *)
LEMMA RegionGiven ==
  ASSUME NEW g, NEW m, NEW rs, NEW b, NEW o, Reading(g, m, rs, b, o), g.nodes[b].Start = o,
         NEW r \in Nat, NEW g2, Given(g, b, r, g2)
  PROVE  Reading(g2, m, rs, b, o) /\ g2.nodes[b].Region = r /\ g2.labels = g.labels
<1>1. GraphOK(g, m) /\ g.layout[1] = 1 /\ b = g.layout[m] /\ Done(g, rs, b) /\ g.nodes[b].term = NoTerminator
  BY DEF Reading, Open
<1>2. m \in 1 .. Len(g.layout) /\ Shape(g)
  BY <1>1, LabelFacts DEF GraphOK
<1>3. b \in 1 .. Len(g.nodes) /\ g.nodes[b] \in NodeRecords
  BY <1>1, <1>2, ShapeFacts
<1>4. PICK n : n = [g.nodes[b] EXCEPT !.Region = r]
  OBVIOUS
<1>5. n \in NodeRecords /\ n.Start = g.nodes[b].Start /\ n.Region = r /\ n.term = NoTerminator
  BY <1>1, <1>3, <1>4 DEF NodeRecords
<1>6. PICK h : h = withNode(g, b, n)
  OBVIOUS
<1>7. g2 = h
  BY <1>4, <1>6 DEF withNode, Given
<1>8. h = withNode(g, g.layout[m], n)
  BY <1>1, <1>6
<1>9. n.Start = g.nodes[g.layout[m]].Start
  BY <1>1, <1>5
<1>10. GraphOK(h, m) /\ h.layout = g.layout /\ h.labels = g.labels /\ h.nodes[b] = n
  BY <1>1, <1>5, <1>8, <1>9, ChangedOK
<1>11. Done(h, rs, b)
  BY <1>1, <1>5, <1>8, <1>9, DoneChanged
<1>12. n.Start = o /\ o \in Nat
  BY <1>3, <1>5 DEF NodeRecords
<1>13. Open(n, rs, o)
  BY <1>5, <1>12 DEF Open
<1>14. QED
  BY <1>1, <1>5, <1>7, <1>10, <1>11, <1>13 DEF Reading

(* Where successors start. *)
LEMMA StartsOf ==
  ASSUME NEW ns
  PROVE  /\ StartsIn(ns, <<>>) = <<>>
         /\ \A a : StartsIn(ns, <<a>>) = <<ns[a].Start>>
         /\ \A a, b : StartsIn(ns, <<a, b>>) = <<ns[a].Start, ns[b].Start>>
         /\ \A a, b, c : StartsIn(ns, <<a, b, c>>) = <<ns[a].Start, ns[b].Start, ns[c].Start>>
<1>1. StartsIn(ns, <<>>) = <<>>
  BY DEF StartsIn
<1>2. \A a : StartsIn(ns, <<a>>) = <<ns[a].Start>>
  BY DEF StartsIn
<1>3. \A a, b : StartsIn(ns, <<a, b>>) = <<ns[a].Start, ns[b].Start>>
  BY DEF StartsIn
<1>4. \A a, b, c : StartsIn(ns, <<a, b, c>>) = <<ns[a].Start, ns[b].Start, ns[c].Start>>
  BY DEF StartsIn
<1>5. QED
  BY <1>1, <1>2, <1>3, <1>4

(* A block goes on to the next. *)
LEMMA BranchFlow ==
  ASSUME NEW n, n.term = [kind |-> "br", succ |-> <<n.term.succ[1]>>], NEW ns, NEW L, n.term.succ[1] \in L,
         ns[n.term.succ[1]].Start = n.End, code[n.End].Op = "other"
  PROVE  NodeFlow(n, L, ns)
<1>1. PICK f : f = n.term.succ[1]
  OBVIOUS
<1>2. n.term.succ = <<f>>
  BY <1>1
<1>3. StartsIn(ns, <<f>>) = <<n.End>>
  BY <1>1, StartsOf
<1>4. GoesTo(code[n.End], n.End) = <<n.End>>
  BY DEF GoesTo
<1>5. \A k \in 1 .. Len(<<f>>) : <<f>>[k] \in L
  BY <1>1
<1>6. QED
  BY <1>2, <1>3, <1>4, <1>5 DEF NodeFlow

SplitOff(g, b, o, g2) == g2 = fgSplitBlock(g, b, o, FALSE)

(* The block is split at offset o, up to which it is read. *)
LEMMA SplitReading ==
  ASSUME NEW g, NEW m, NEW rs, NEW b, NEW o \in Offsets, Reading(g, m, rs, b, o), g.nodes[b].Start # o,
         NEW g2, SplitOff(g, b, o, g2)
  PROVE  \E n2 : GoesOn(g, g2, m, rs, n2) /\ n2.Start = o /\ g2.labels = g.labels
<1>1. /\ GraphOK(g, m) /\ Shape(g) /\ g.layout[1] = 1 /\ b = g.layout[m] /\ Done(g, rs, b)
      /\ g.nodes[b].term = NoTerminator /\ g.nodes[b].Start <= o
  BY DEF Reading, Open, GraphOK
<1>2. m \in 1 .. Len(g.layout) /\ m \in 1 .. m
  BY <1>1, LabelFacts
<1>3. PICK f, n, h : f = Len(g.nodes) + 1 /\ n = g.nodes[b] /\ h = g2
  OBVIOUS
<1>4. /\ b \in 1 .. Len(g.nodes) /\ Len(g.nodes) \in Nat /\ f \in Nat /\ Fresh(g) = f
      /\ n \in NodeRecords /\ n.Start \in Nat /\ n.Start < o /\ o \in Nat /\ o < CodeSize /\ o # CodeSize
  <2>1. b \in 1 .. Len(g.nodes) /\ Len(g.nodes) \in Nat /\ n \in NodeRecords /\ Fresh(g) = Len(g.nodes) + 1
    BY <1>1, <1>2, <1>3, ShapeFacts
  <2>2. n.Start \in Nat
    BY <2>1 DEF NodeRecords
  <2>3. o \in Nat /\ o < CodeSize
    BY SizeAssumption DEF Offsets
  <2>4. n.Start < o
    BY <1>1, <1>3, <2>2, <2>3
  <2>5. QED
    BY <1>3, <2>1, <2>2, <2>3, <2>4
<1>5. PICK t1, t2 : t1 = [kind |-> "br", succ |-> <<f>>] /\ t2 = NoTerminator
  OBVIOUS
<1>6. t1 \in NodeTerms /\ t2 \in NodeTerms
  BY <1>4, <1>5 DEF NodeTerms, NoTerminator
<1>7. SplitTerms(g.nodes[b].term, Fresh(g), FALSE, t1, t2)
  BY <1>1, <1>4, <1>5 DEF SplitTerms, fallThrough, NoTerminator
<1>8. PICK n1, n2 : n1 = node(n.Start, o, n.Region, t1) /\ n2 = node(o, n.End, n.Region, t2)
  OBVIOUS
<1>9. Halves(g.nodes[g.layout[m]], o, t1, t2, n1, n2)
  BY <1>1, <1>3, <1>8 DEF Halves
<1>10. SplitAt(g, h, g.layout[m], o, n1, n2)
  <2>1. fgSplitBlock(g, b, o, FALSE) =
           withNode(withNode(makeFlowGraphNode(g, o, b), b, node(g.nodes[b].Start, o, g.nodes[b].Region, t1)),
                    Fresh(g), node(o, g.nodes[b].End, g.nodes[b].Region, t2))
    BY <1>4, <1>7, SplitOf
  <2>2. QED
    BY <1>1, <1>3, <1>8, <2>1 DEF SplitAt, SplitOff
<1>11. n1 \in NodeRecords /\ n2 \in NodeRecords /\ Grown(g, h, m, n1, n2)
  <2>1. o \in Nat
    BY <1>4
  <2>2. QED
    BY <1>1, <1>2, <1>6, <1>9, <1>10, <2>1, SplitIs
<1>12. /\ n1.Start = n.Start /\ n1.End = o /\ n1.Region = n.Region /\ n1.term = t1
       /\ n2.Start = o /\ n2.term = NoTerminator
  BY <1>5, <1>8, NodeFields
<1>13. Follow(g.nodes[g.layout[m]], n1, n2)
  BY <1>1, <1>3, <1>12 DEF Follow
<1>14. Lay(h) = Lay(g) \cup {f} /\ h.labels = g.labels
  <2>1. Lay(h) = Lay(g) \cup {Len(g.nodes) + 1} /\ h.labels = g.labels
    <3>1. Shape(g)
      BY <1>1
    <3>2. QED
      BY <1>2, <1>11, <3>1, GrownShape
  <2>2. QED
    BY <1>3, <2>1
<1>15. h.nodes[f] = n2
  BY <1>3, <1>11 DEF Grown, TwoNodes
<1>16. \A p \in n.Start .. o - 1 : code[p + 1].Op = "other" /\ RegionFor(rs, n.Region, p)
  BY <1>3 DEF Reading, Open
<1>17. NodeOK(n1, Lay(h), h.nodes, rs)
  <2>1. NodeRange(n1, rs)
    <3>1. \A p \in n.Start .. o - 2 : p \in n.Start .. o - 1
      BY <1>4
    <3>2. \A p \in n1.Start .. n1.End - 2 : code[p + 1].Op = "other"
      BY <1>12, <1>16, <3>1
    <3>3. \A p \in n1.Start .. n1.End - 1 : RegionFor(rs, n1.Region, p)
      BY <1>12, <1>16
    <3>4. n1.Start < n1.End /\ n1.End <= CodeSize
      BY <1>4, <1>12, SizeAssumption
    <3>5. QED
      BY <3>2, <3>3, <3>4 DEF NodeRange
  <2>2. code[o].Op = "other"
    <3>1. o - 1 \in n.Start .. o - 1 /\ (o - 1) + 1 = o
      BY <1>4
    <3>2. code[(o - 1) + 1].Op = "other"
      BY <1>16, <3>1
    <3>3. QED
      BY <3>1, <3>2
  <2>3. /\ n1.term.succ[1] = f /\ n1.term = [kind |-> "br", succ |-> <<n1.term.succ[1]>>]
    BY <1>5, <1>12
  <2>4. NodeFlow(n1, Lay(h), h.nodes)
    <3>1. n1.term.succ[1] \in Lay(h) /\ h.nodes[n1.term.succ[1]].Start = n1.End /\ code[n1.End].Op = "other"
      BY <1>12, <1>14, <1>15, <2>2, <2>3
    <3>2. QED
      BY <2>3, <3>1, BranchFlow
  <2>5. QED
    BY <2>1, <2>4 DEF NodeOK
<1>18. GoesOn(g, h, m, rs, n2)
  <2>1. GraphOK(g, m) /\ g.layout[1] = 1 /\ Done(g, rs, g.layout[m]) /\ n2.term = NoTerminator
    BY <1>1, <1>12
  <2>2. QED
    BY <1>11, <1>13, <1>17, <2>1, NextBlock
<1>19. QED
  BY <1>3, <1>12, <1>14, <1>18

(* An edge of a region is passed. *)
LEMMA EdgeFlow ==
  ASSUME IInv, FlowInv, switchRegion
  PROVE  FlowInv'
<1>1. /\ phase = "switch" /\ phase' = "instruction" /\ EIT' = EIT /\ regions' = regions
      /\ CurrentOffset' = CurrentOffset /\ CurrentRegion' = CurrentRegion /\ code' = code /\ labels' = labels
  BY DEF switchRegion, stayInRegion
<1>2. PICK g, b, o, r, rs : g = graph /\ b = Block /\ o = CurrentOffset /\ r = CurrentRegion /\ rs = regions
  OBVIOUS
<1>3. PICK s : s = IF nodes[b].Start # o THEN fgSplitBlock(g, b, o, FALSE) ELSE g
  OBVIOUS
<1>4. PICK c : c = Newest(s, g, b)
  OBVIOUS
<1>5. nodes' = [s.nodes EXCEPT ![c].Region = r] /\ layout' = s.layout /\ Block' = c
  BY <1>2, <1>3, <1>4 DEF switchRegion
<1>6. PICK m \in Nat : Reading(g, m, rs, b, o)
  BY <1>1, <1>2 DEF FlowInv
<1>7. o \in Offsets /\ r \in Nat
  <2>1. o \in Nat /\ o < CodeSize /\ r \in Ids(regions) /\ Rooted(regions)
    BY <1>1, <1>2 DEF IInv, TreeInv, TreeOK, WalkOK
  <2>2. QED
    BY <2>1, SizeAssumption, IdFacts DEF Offsets
<1>8. g.nodes = nodes /\ g.labels = labels
  BY <1>2, GraphFields DEF graph
<1>9. \E k \in Nat : Reading(s, k, rs, c, o) /\ s.nodes[c].Start = o /\ s.labels = labels
  <2>1. CASE nodes[b].Start = o
    <3>1. s = g /\ c = b
      BY <1>3, <1>4, <2>1 DEF Newest
    <3>2. QED
      BY <1>6, <1>8, <2>1, <3>1
  <2>2. CASE nodes[b].Start # o
    <3>1. SplitOff(g, b, o, s)
      BY <1>3, <2>2 DEF SplitOff
    <3>2. PICK n2 : GoesOn(g, s, m, rs, n2) /\ n2.Start = o /\ s.labels = g.labels
      <4>1. g.nodes[b].Start # o
        BY <1>8, <2>2
      <4>2. QED
        BY <1>6, <1>7, <3>1, <4>1, SplitReading
    <3>3. Len(g.nodes) \in Nat
      BY <1>6, ShapeFacts DEF Reading, GraphOK
    <3>4. c = Len(g.nodes) + 1
      BY <1>4, <3>2, <3>3 DEF Newest, GoesOn
    <3>5. QED
      BY <1>8, <3>2, <3>4 DEF GoesOn
  <2>3. QED
    BY <2>1, <2>2
<1>10. PICK k \in Nat : Reading(s, k, rs, c, o) /\ s.nodes[c].Start = o /\ s.labels = labels
  BY <1>9
<1>11. PICK h : h = graph'
  OBVIOUS
<1>12. h = Graph([s.nodes EXCEPT ![c].Region = r], s.layout, s.labels) /\ h.nodes = nodes'
  <2>1. h = Graph(nodes', layout', labels') /\ h.nodes = nodes'
    BY <1>11, GraphFields DEF graph
  <2>2. labels' = s.labels
    BY <1>1, <1>10
  <2>3. QED
    BY <1>5, <2>1, <2>2, Zenon
<1>13. Reading(h, k, rs, c, o) /\ h.nodes[c].Region = r
  <2>1. /\ r \in Nat /\ Reading(s, k, rs, c, o) /\ s.nodes[c].Start = o
        /\ Given(s, c, r, h)
    BY <1>7, <1>10, <1>12, Zenon DEF Given
  <2>2. QED
    BY <2>1, RegionGiven
<1>14. Reading(graph, k, regions, Block, CurrentOffset)'
  <2>1. h = graph' /\ rs = regions' /\ c = Block' /\ o = CurrentOffset' /\ code' = code
    BY <1>1, <1>2, <1>5, <1>11
  <2>2. QED
    BY <1>13, <2>1, ReadingNext
<1>15. CodeOK'
  BY <1>1, CodeKept DEF FlowInv
<1>16. RegionIs(nodes[Block], CurrentRegion)'
  BY <1>1, <1>2, <1>5, <1>12, <1>13 DEF RegionIs
<1>17. QED
  BY <1>1, <1>14, <1>15, <1>16 DEF FlowInv, Building

-----------------------------------------------------------------------------
(* Instructions. *)

\* What instruction i at the current offset goes to has labels.
HasTargets(h, i) ==
  /\ i.Op \in {"br", "leave", "brtrue"} => i.targets[1] \in DOMAIN h.labels
  /\ i.Op = "switch" => /\ CurrentOffset + 1 \in DOMAIN h.labels
                        /\ i.targets[1] \in DOMAIN h.labels /\ i.targets[2] \in DOMAIN h.labels

(* fgAddTargets makes them. *)
LEMMA TargetsAdded ==
  ASSUME NEW g, NEW m, GraphOK(g, m), CurrentOffset \in Offsets, NEW i, InstrOK(i, CurrentOffset)
  PROVE  Extended(g, fgAddTargets(g, i), m) /\ HasTargets(fgAddTargets(g, i), i)
<1>1. CASE i.Op = "switch"
  <2>1. PICK a, c, d : /\ a = fgAddNodeMSILOffset(g, CurrentOffset + 1)
                       /\ c = fgAddNodeMSILOffset(a, i.targets[1]) /\ d = fgAddNodeMSILOffset(c, i.targets[2])
    OBVIOUS
  <2>2. CurrentOffset + 1 \in Offsets /\ i.targets[1] \in Offsets /\ i.targets[2] \in Offsets
    BY <1>1, SizeAssumption DEF InstrOK, Offsets
  <2>3. Extended(g, a, m) /\ CurrentOffset + 1 \in DOMAIN a.labels
    BY <2>1, <2>2, LabelAdded
  <2>4. GraphOK(a, m)
    BY <2>3 DEF Extended
  <2>5. Extended(a, c, m) /\ i.targets[1] \in DOMAIN c.labels
    BY <2>1, <2>2, <2>4, LabelAdded
  <2>6. GraphOK(c, m)
    BY <2>5 DEF Extended
  <2>7. Extended(c, d, m) /\ i.targets[2] \in DOMAIN d.labels
    BY <2>1, <2>2, <2>6, LabelAdded
  <2>8. Extended(g, c, m)
    BY <2>3, <2>5, ExtendedTwice
  <2>9. Extended(g, d, m)
    BY <2>7, <2>8, ExtendedTwice
  <2>10. DOMAIN a.labels \subseteq DOMAIN c.labels /\ DOMAIN c.labels \subseteq DOMAIN d.labels
    BY <2>5, <2>7 DEF Extended
  <2>11. HasTargets(d, i)
    BY <1>1, <2>3, <2>5, <2>7, <2>10 DEF HasTargets
  <2>12. fgAddTargets(g, i) = d
    BY <1>1, <2>1, Zenon DEF fgAddTargets
  <2>13. QED
    BY <2>9, <2>11, <2>12
<1>2. CASE i.Op \in {"br", "leave", "brtrue"}
  <2>1. i.targets = <<i.targets[1]>> /\ i.targets[1] \in Offsets /\ i.Op # "switch"
    BY <1>2 DEF InstrOK
  <2>2. Branching(i)
    BY <2>1 DEF Branching
  <2>3. PICK c : c = fgAddNodeMSILOffset(g, i.targets[1])
    OBVIOUS
  <2>4. fgAddTargets(g, i) = c
    BY <2>1, <2>2, <2>3 DEF fgAddTargets
  <2>5. Extended(g, c, m) /\ i.targets[1] \in DOMAIN c.labels
    BY <2>1, <2>3, LabelAdded
  <2>6. HasTargets(c, i)
    BY <2>1, <2>5 DEF HasTargets
  <2>7. QED
    BY <2>4, <2>5, <2>6
<1>3. CASE i.Op \notin {"switch", "br", "leave", "brtrue"}
  <2>1. ~Branching(i)
    BY <1>3 DEF InstrOK, Branching
  <2>2. fgAddTargets(g, i) = g
    BY <1>3, <2>1 DEF fgAddTargets
  <2>3. QED
    BY <1>3, <2>2, ExtendedTwice DEF HasTargets
<1>4. QED
  BY <1>1, <1>2, <1>3

\* The temporary blocks of h are blocks of L.
LabelledIn(h, L, ns) ==
  \A o \in DOMAIN h.labels : h.labels[o] \in Nat /\ h.labels[o] \in L /\ ns[h.labels[o]].Start = o

(* Short lists put together. *)
LEMMA ShortLists ==
  ASSUME NEW x \in Nat, NEW y \in Nat, NEW z \in Nat
  PROVE  <<x>> \o <<y>> = <<x, y>> /\ <<x>> \o <<y, z>> = <<x, y, z>>
<1>1. PICK a, b, c, d : a = <<x>> /\ b = <<y>> /\ c = <<y, z>> /\ d = a \o b
  OBVIOUS
<1>2. a \in Seq(Nat) /\ b \in Seq(Nat) /\ c \in Seq(Nat) /\ Len(a) = 1 /\ Len(b) = 1 /\ Len(c) = 2
  BY <1>1
<1>3. d = <<x, y>>
  <2>1. d \in Seq(Nat) /\ Len(d) = 2 /\ d[1] = x /\ d[2] = y
    BY <1>1, <1>2
  <2>2. QED
    BY <2>1
<1>4. PICK v : v = a \o c
  OBVIOUS
<1>5. v = <<x, y, z>>
  <2>1. v \in Seq(Nat) /\ Len(v) = 3 /\ v[1] = x /\ v[2] = y /\ v[3] = z
    BY <1>1, <1>2, <1>4
  <2>2. QED
    BY <2>1
<1>6. QED
  BY <1>1, <1>3, <1>4, <1>5

\* Term t goes where instruction i, which ends at e, goes.
TermGoes(t, i, e, L, ns) ==
  /\ t \in NodeTerms
  /\ \A k \in 1 .. Len(t.succ) : t.succ[k] \in L
  /\ StartsIn(ns, t.succ) = GoesTo(i, e)

(* The terminator of an instruction goes to its targets, if it does not fall through. *)
LEMMA TerminatorGoes ==
  ASSUME NEW i, InstrOK(i, CurrentOffset), i.Op # "other", NEW h, HasTargets(h, i),
         NEW L, NEW ns, LabelledIn(h, L, ns), NEW e \in Nat
  PROVE  /\ terminator(h, i) \in NodeTerms
         /\ i.Op \notin {"brtrue", "switch"} => TermGoes(terminator(h, i), i, e, L, ns)
         /\ \A f \in Nat : /\ fallThrough(terminator(h, i), f) \in NodeTerms
                           /\ f \in L /\ ns[f].Start = e => TermGoes(fallThrough(terminator(h, i), f), i, e, L, ns)
<1>1. i.Op \in {"br", "leave", "brtrue", "switch", "throw", "ret", "jmp"}
  BY DEF InstrOK
<1>2. CASE i.Op \in {"br", "leave"}
  <2>1. PICK x, y, t : x = i.targets[1] /\ y = h.labels[x] /\ t = [kind |-> "br", succ |-> <<y>>]
    OBVIOUS
  <2>2. i.targets = <<x>> /\ x \in DOMAIN h.labels
    BY <1>2, <2>1 DEF InstrOK, HasTargets
  <2>3. y \in Nat /\ y \in L /\ ns[y].Start = x
    BY <2>1, <2>2 DEF LabelledIn
  <2>4. terminator(h, i) = t
    BY <1>2, <2>1 DEF terminator
  <2>5. \A f : fallThrough(t, f) = t
    BY <2>1 DEF fallThrough
  <2>6. GoesTo(i, e) = <<x>>
    BY <1>2, <2>2 DEF GoesTo
  <2>7. StartsIn(ns, <<y>>) = <<x>>
    BY <2>3, StartsOf
  <2>8. t.succ = <<y>> /\ t \in NodeTerms
    BY <2>1, <2>3 DEF NodeTerms
  <2>9. TermGoes(t, i, e, L, ns)
    BY <2>3, <2>6, <2>7, <2>8 DEF TermGoes
  <2>10. QED
    BY <2>4, <2>5, <2>8, <2>9
<1>3. CASE i.Op = "brtrue"
  <2>1. PICK x, y, t : x = i.targets[1] /\ y = h.labels[x] /\ t = [kind |-> "brtrue", succ |-> <<y, 0>>]
    OBVIOUS
  <2>2. i.targets = <<x>> /\ x \in DOMAIN h.labels
    BY <1>3, <2>1 DEF InstrOK, HasTargets
  <2>3. y \in Nat /\ y \in L /\ ns[y].Start = x
    BY <2>1, <2>2 DEF LabelledIn
  <2>4. terminator(h, i) = t
    BY <1>3, <2>1 DEF terminator
  <2>5. t \in NodeTerms
    BY <2>1, <2>3 DEF NodeTerms
  <2>6. ASSUME NEW f \in Nat
        PROVE  /\ fallThrough(t, f) \in NodeTerms
               /\ f \in L /\ ns[f].Start = e => TermGoes(fallThrough(t, f), i, e, L, ns)
    <3>1. PICK u : u = [kind |-> "brtrue", succ |-> <<y, f>>]
      OBVIOUS
    <3>2. fallThrough(t, f) = u
      BY <2>1, <3>1 DEF fallThrough
    <3>3. u \in NodeTerms /\ u.succ = <<y, f>>
      BY <2>3, <3>1 DEF NodeTerms
    <3>4. GoesTo(i, e) = <<x, e>>
      <4>1. x \in Nat
        BY <1>3, <2>1 DEF InstrOK, Offsets
      <4>2. <<x>> \o <<e>> = <<x, e>>
        BY <4>1, ShortLists
      <4>3. GoesTo(i, e) = i.targets \o <<e>>
        BY <1>3 DEF GoesTo
      <4>4. QED
        BY <2>2, <4>2, <4>3
    <3>5. ns[f].Start = e => StartsIn(ns, <<y, f>>) = <<x, e>>
      BY <2>3, StartsOf
    <3>6. f \in L => \A k \in 1 .. Len(<<y, f>>) : <<y, f>>[k] \in L
      BY <2>3
    <3>7. QED
      BY <3>2, <3>3, <3>4, <3>5, <3>6 DEF TermGoes
  <2>7. QED
    BY <1>3, <2>4, <2>5, <2>6
<1>4. CASE i.Op = "switch"
  <2>1. PICK x1, x2, y0, y1, y2, t :
          /\ x1 = i.targets[1] /\ x2 = i.targets[2] /\ y1 = h.labels[x1] /\ y2 = h.labels[x2]
          /\ y0 = h.labels[CurrentOffset + 1] /\ t = [kind |-> "switch", succ |-> <<y0, y1, y2>>]
    OBVIOUS
  <2>2. i.targets = <<x1, x2>> /\ x1 \in DOMAIN h.labels /\ x2 \in DOMAIN h.labels /\ CurrentOffset + 1 \in DOMAIN h.labels
    BY <1>4, <2>1 DEF InstrOK, HasTargets
  <2>3. /\ y0 \in Nat /\ y1 \in Nat /\ y2 \in Nat /\ y1 \in L /\ y2 \in L
        /\ ns[y1].Start = x1 /\ ns[y2].Start = x2
    BY <2>1, <2>2 DEF LabelledIn
  <2>4. terminator(h, i) = t
    BY <1>4, <2>1 DEF terminator
  <2>5. t \in NodeTerms
    BY <2>1, <2>3 DEF NodeTerms
  <2>6. ASSUME NEW f \in Nat
        PROVE  /\ fallThrough(t, f) \in NodeTerms
               /\ f \in L /\ ns[f].Start = e => TermGoes(fallThrough(t, f), i, e, L, ns)
    <3>1. PICK u : u = [kind |-> "switch", succ |-> <<f, y1, y2>>]
      OBVIOUS
    <3>2. fallThrough(t, f) = u
      BY <2>1, <3>1 DEF fallThrough
    <3>3. u \in NodeTerms /\ u.succ = <<f, y1, y2>>
      BY <2>3, <3>1 DEF NodeTerms
    <3>4. GoesTo(i, e) = <<e, x1, x2>>
      <4>1. x1 \in Nat /\ x2 \in Nat
        BY <1>4, <2>1 DEF InstrOK, Offsets
      <4>2. <<e>> \o <<x1, x2>> = <<e, x1, x2>>
        BY <4>1, ShortLists
      <4>3. GoesTo(i, e) = <<e>> \o i.targets
        BY <1>4 DEF GoesTo
      <4>4. QED
        BY <2>2, <4>2, <4>3
    <3>5. ns[f].Start = e => StartsIn(ns, <<f, y1, y2>>) = <<e, x1, x2>>
      BY <2>3, StartsOf
    <3>6. f \in L => \A k \in 1 .. Len(<<f, y1, y2>>) : <<f, y1, y2>>[k] \in L
      BY <2>3
    <3>7. QED
      BY <3>2, <3>3, <3>4, <3>5, <3>6 DEF TermGoes
  <2>7. QED
    BY <1>4, <2>4, <2>5, <2>6
<1>5. CASE i.Op \in {"throw", "ret", "jmp"}
  <2>1. PICK t : t = [kind |-> "unreachable", succ |-> <<>>]
    OBVIOUS
  <2>2. terminator(h, i) = t
    BY <1>5, <2>1 DEF terminator
  <2>3. \A f : fallThrough(t, f) = t
    BY <2>1 DEF fallThrough
  <2>4. GoesTo(i, e) = <<>>
    BY <1>5 DEF GoesTo, InstrOK
  <2>5. t \in NodeTerms /\ t.succ = <<>>
    BY <2>1 DEF NodeTerms
  <2>6. StartsIn(ns, <<>>) = <<>>
    BY StartsOf
  <2>7. TermGoes(t, i, e, L, ns)
    BY <2>4, <2>5, <2>6 DEF TermGoes
  <2>8. QED
    BY <2>2, <2>3, <2>5, <2>7
<1>6. QED
  BY <1>1, <1>2, <1>3, <1>4, <1>5

(* The last instruction of a block is read. *)
LEMMA RangeEnds ==
  ASSUME NEW n \in NodeRecords, NEW rs, NEW o \in Offsets, Open(n, rs, o), RegionFor(rs, n.Region, o),
         NEW n1, n1.Start = n.Start, n1.End = o + 1, n1.Region = n.Region
  PROVE  NodeRange(n1, rs)
<1>1. n.Start \in Nat /\ o \in Nat /\ o + 1 <= CodeSize /\ n.Start <= o
  BY SizeAssumption DEF Open, NodeRecords, Offsets
<1>2. \A p \in n.Start .. o - 1 : code[p + 1].Op = "other" /\ RegionFor(rs, n.Region, p)
  BY DEF Open
<1>3. ASSUME NEW p \in n1.Start .. n1.End - 2 PROVE code[p + 1].Op = "other"
  <2>1. p \in n.Start .. o - 1
    BY <1>1
  <2>2. QED
    BY <1>2, <2>1
<1>4. ASSUME NEW p \in n1.Start .. n1.End - 1 PROVE RegionFor(rs, n1.Region, p)
  <2>1. p = o \/ p \in n.Start .. o - 1
    BY <1>1
  <2>2. QED
    BY <1>2, <2>1
<1>5. n1.Start < n1.End /\ n1.End <= CodeSize
  BY <1>1
<1>6. QED
  BY <1>3, <1>4, <1>5, Zenon DEF NodeRange

(* An instruction that is read but does not end the block. *)
LEMMA OpenLonger ==
  ASSUME NEW n \in NodeRecords, NEW rs, NEW o \in Nat, Open(n, rs, o), RegionFor(rs, n.Region, o), code[o + 1].Op = "other"
  PROVE  Open(n, rs, o + 1)
<1>1. n.Start \in Nat /\ n.Start <= o /\ n.term = NoTerminator
  BY DEF Open, NodeRecords
<1>2. ASSUME NEW p \in n.Start .. (o + 1) - 1 PROVE code[p + 1].Op = "other" /\ RegionFor(rs, n.Region, p)
  <2>1. p = o \/ p \in n.Start .. o - 1
    BY <1>1
  <2>2. QED
    BY <2>1 DEF Open
<1>3. n.Start <= o + 1
  BY <1>1
<1>4. QED
  BY <1>1, <1>2, <1>3, Zenon DEF Open

(* Outside all clauses the region is the root. *)
LEMMA AtRoot ==
  ASSUME IInv, phase = "instruction", Outside(CurrentOffset)
  PROVE  CurrentRegion = 1
<1> SUFFICES ASSUME CurrentRegion # 1 PROVE FALSE
  OBVIOUS
<1>1. PICK r, o : r = CurrentRegion /\ o = CurrentOffset
  OBVIOUS
<1>2. TreeInv /\ WalkOK /\ Rooted(regions) /\ Made(regions, I) /\ Sorted /\ BuildOK
  BY DEF IInv, TreeInv, TreeOK
<1>3. Around2(regions, r, o) /\ r \in Ids(regions)
  BY <1>1, <1>2, AtInstruction
<1>4. r \in 2 .. Len(regions)
  BY <1>1, <1>2, <1>3, IdFacts
<1>5. PICK a \in I + 1 .. NumClauses : RegionOf(regions, r, EIT[ClauseList[a]])
  BY <1>2, <1>4 DEF Made
<1>6. NumClauses \in Nat /\ I \in 0 .. NumClauses
  BY <1>2 DEF BuildOK, TreeInv, ClausesOK, NumClauses
<1>7. a \in 1 .. NumClauses
  BY <1>6
<1>8. PICK k, c : k = ClauseList[a] /\ c = EIT[k]
  OBVIOUS
<1>9. k \in 1 .. Len(EIT)
  BY <1>2, <1>7, <1>8 DEF Sorted, NumClauses
<1>10. PICK x \in Ranges(c) : HasRange(regions, r, x)
  BY <1>5, <1>8 DEF RegionOf, HandlerOf, Ranges, Handlers
<1>11. x \in AllRanges
  BY <1>8, <1>9 DEF AllRanges
<1>12. In(o, x)
  BY <1>3, <1>10 DEF Around2, HasRange, In
<1>13. QED
  BY <1>1, <1>11, <1>12 DEF Outside

(* The last block is done. *)
LEMMA LastBlock ==
  ASSUME NEW g, NEW m, GraphOK(g, m), g.layout[1] = 1, NEW rs, Done(g, rs, g.layout[m]),
         NEW n \in NodeRecords, n.Start = g.nodes[g.layout[m]].Start, n.End = CodeSize,
         NEW g2, g2 = withNode(g, g.layout[m], n), NodeOK(n, Lay(g), g2.nodes, rs)
  PROVE  Linking(g2, m, rs, 1)
<1>1. PICK h, b : h = g2 /\ b = g.layout[m]
  OBVIOUS
<1>2. GraphOK(h, m) /\ h.layout = g.layout /\ h.nodes[b] = n
  BY <1>1, ChangedOK
<1>3. Done(h, rs, 0)
  BY <1>1, DoneChanged
<1>4. 1 \in Lay(h) /\ 1 \notin Temps(h)
  <2>1. m \in 1 .. Len(h.layout) /\ m \in Nat /\ h.layout[1] = 1 /\ \A k \in 1 .. m : h.layout[k] \notin Temps(h) /\ h.layout[k] \in Lay(h)
    BY <1>2, LabelFacts
  <2>2. 1 \in 1 .. m
    BY <2>1
  <2>3. QED
    BY <2>1, <2>2
<1>5. h.nodes[1].Start = 0
  BY <1>2 DEF GraphOK, Tiled
<1>6. \A o \in DOMAIN h.labels : h.nodes[1].Start <= o
  <2>1. \A o \in DOMAIN h.labels : o \in Nat
    BY <1>2, LabelFacts
  <2>2. QED
    BY <1>5, <2>1
<1>7. Linking(h, m, rs, 1)
  BY <1>1, <1>2, <1>3, <1>4, <1>6 DEF Linking, Covered
<1>8. QED
  BY <1>1, <1>7

\* The graph when instruction i of block b, up to offset e, has branched.
Branches(g, b, i, e, h, w, g2) ==
  /\ e = CurrentOffset + 1 /\ i = code[e]
  /\ h = fgAddTargets(g, i)
  /\ w = withNode(h, b, node(g.nodes[b].Start, e, g.nodes[b].Region, terminator(h, i)))
  /\ g2 = fgSplitBlock(w, b, e, FALSE)

(* A branch or a throw ends the block. *)
LEMMA Branched ==
  ASSUME CodeOK, CurrentOffset \in Offsets,
         NEW g, NEW m, NEW rs, NEW b, Reading(g, m, rs, b, CurrentOffset), RegionFor(rs, g.nodes[b].Region, CurrentOffset),
         NEW i, i.Op \notin {"other", "ret", "jmp"}, NEW e, NEW h, NEW w, NEW g2, Branches(g, b, i, e, h, w, g2)
  PROVE  IF e = CodeSize THEN Linking(g2, m, rs, 1)
         ELSE \E n2 : GoesOn(w, g2, m, rs, n2) /\ n2.Start = e /\ n2.Region = g.nodes[b].Region
<1>1. /\ GraphOK(g, m) /\ g.layout[1] = 1 /\ b = g.layout[m] /\ Done(g, rs, b) /\ Open(g.nodes[b], rs, CurrentOffset)
  BY DEF Reading
<1>2. InstrOK(i, CurrentOffset) /\ CurrentOffset \in Nat /\ e \in Nat
  BY DEF CodeOK, Offsets, Branches
<1>3. Extended(g, h, m) /\ HasTargets(h, i)
  <2>1. h = fgAddTargets(g, i)
    BY DEF Branches
  <2>2. QED
    BY <1>1, <1>2, <2>1, TargetsAdded
<1>4. m \in Nat /\ m \in 1 .. m /\ 1 \in 1 .. m /\ m \in 1 .. Len(g.layout) /\ Shape(g)
  <2>1. m \in Nat /\ m \in 1 .. Len(g.layout) /\ Shape(g)
    BY <1>1, LabelFacts DEF GraphOK
  <2>2. QED
    BY <2>1
<1>5. PICK n, t : n = g.nodes[b] /\ t = terminator(h, i)
  OBVIOUS
<1>6. b \in 1 .. Len(g.nodes) /\ n \in NodeRecords
  BY <1>1, <1>4, <1>5, ShapeFacts
<1>7. GraphOK(h, m) /\ h.layout[1] = 1 /\ h.layout[m] = b /\ h.nodes[b] = n /\ Shape(h)
  BY <1>1, <1>3, <1>4, <1>5, <1>6 DEF Extended, GraphOK
<1>8. Done(h, rs, b)
  BY <1>1, <1>3, DoneExtended
<1>9. LabelledIn(h, Lay(h), h.nodes)
  <2>1. \A o \in DOMAIN h.labels : h.labels[o] \in Lay(h) /\ h.labels[o] \in 1 .. Len(h.nodes)
    BY <1>7, LabelFacts
  <2>2. \A o \in DOMAIN h.labels : h.nodes[h.labels[o]].Start = o
    BY <1>7 DEF GraphOK, LabelsOK
  <2>3. QED
    BY <2>1, <2>2 DEF LabelledIn
<1>10. i.Op # "other" /\ t \in NodeTerms
  BY <1>2, <1>3, <1>5, <1>9, TerminatorGoes
<1>11. PICK n0 : n0 = node(n.Start, e, n.Region, t)
  OBVIOUS
<1>12. n0 \in NodeRecords /\ n0.Start = n.Start /\ n0.End = e /\ n0.Region = n.Region /\ n0.term = t
  <2>1. n.Start \in Nat /\ n.Region \in Nat
    BY <1>6 DEF NodeRecords
  <2>2. QED
    BY <1>2, <1>10, <1>11, <2>1, NodeFields
<1>13. w = withNode(h, h.layout[m], n0) /\ n0.Start = h.nodes[h.layout[m]].Start
  BY <1>5, <1>7, <1>11, <1>12 DEF Branches
<1>14. /\ GraphOK(w, m) /\ Lay(w) = Lay(h) /\ w.layout = h.layout /\ w.nodes[b] = n0
       /\ \A x \in 1 .. Len(h.nodes) : w.nodes[x].Start = h.nodes[x].Start
  BY <1>7, <1>12, <1>13, ChangedOK
<1>15. Done(w, rs, b)
  BY <1>7, <1>8, <1>12, <1>13, DoneChanged
<1>16. \A x \in Lay(h) : x \in 1 .. Len(h.nodes)
  BY <1>7, LabelFacts
<1>17. ASSUME NEW L, Lay(h) \subseteq L, NEW ns, \A x \in Lay(h) : ns[x].Start = h.nodes[x].Start
       PROVE  LabelledIn(h, L, ns)
  BY <1>9, <1>17 DEF LabelledIn
<1>18. NodeRange(n0, rs) /\ \A n1 : n1.Start = n.Start /\ n1.End = e /\ n1.Region = n.Region => NodeRange(n1, rs)
  <2>1. e = CurrentOffset + 1
    BY DEF Branches
  <2>2. QED
    BY <1>1, <1>5, <1>6, <1>12, <2>1, RangeEnds
<1>19. code[e] = i
  BY DEF Branches
<1>20. CASE e = CodeSize
  <2>1. PICK h2 : h2 = g2
    OBVIOUS
  <2>2. h2 = withNode(w, w.layout[m], n0)
    <3>1. g2 = withNode(w, b, node(w.nodes[b].Start, e, w.nodes[b].Region, w.nodes[b].term))
      BY <1>20 DEF Branches, fgSplitBlock
    <3>2. QED
      BY <1>7, <1>11, <1>12, <1>14, <2>1, <3>1
  <2>3. /\ Lay(h2) = Lay(w) /\ Len(h2.nodes) = Len(w.nodes)
        /\ \A x \in 1 .. Len(w.nodes) : h2.nodes[x].Start = w.nodes[x].Start
    <3>1. n0.Start = w.nodes[w.layout[m]].Start
      BY <1>7, <1>14
    <3>2. QED
      BY <1>12, <1>14, <2>2, <3>1, ChangedOK
  <2>4. \A x \in Lay(h) : h2.nodes[x].Start = h.nodes[x].Start
    <3>1. \A x \in Lay(w) : x \in 1 .. Len(w.nodes)
      BY <1>14, LabelFacts
    <3>2. QED
      BY <1>14, <1>16, <2>3, <3>1
  <2>5. LabelledIn(h, Lay(w), h2.nodes)
    BY <1>14, <1>17, <2>4
  <2>6. i.Op \notin {"brtrue", "switch"}
    <3>1. ~(CurrentOffset + 1 < CodeSize)
      BY <1>2, <1>20 DEF Branches
    <3>2. i.Op \in {"other", "brtrue", "switch"} => CurrentOffset + 1 < CodeSize
      BY <1>2 DEF InstrOK
    <3>3. QED
      BY <3>1, <3>2
  <2>7. TermGoes(t, i, e, Lay(w), h2.nodes)
    BY <1>2, <1>3, <1>5, <1>10, <2>5, <2>6, TerminatorGoes
  <2>8. NodeOK(n0, Lay(w), h2.nodes, rs)
    BY <1>12, <1>18, <1>19, <2>7 DEF NodeOK, NodeFlow, TermGoes
  <2>9. Linking(h2, m, rs, 1)
    <3>1. w.layout[1] = 1 /\ Done(w, rs, w.layout[m]) /\ n0.Start = w.nodes[w.layout[m]].Start /\ n0.End = CodeSize
      BY <1>7, <1>12, <1>14, <1>15, <1>20
    <3>2. QED
      BY <1>12, <1>14, <2>2, <2>8, <3>1, LastBlock
  <2>10. QED
    BY <1>20, <2>1, <2>9
<1>21. CASE e # CodeSize
  <2>1. PICK f, t1, t2 : f = Fresh(w) /\ t1 = fallThrough(t, f) /\ t2 = NoTerminator
    OBVIOUS
  <2>2. Shape(w) /\ m \in 1 .. Len(w.layout) /\ w.layout[m] = b
    BY <1>7, <1>14, LabelFacts DEF GraphOK
  <2>3. f \in Nat /\ f = Len(w.nodes) + 1
    BY <2>1, <2>2, ShapeFacts
  <2>4. t1 \in NodeTerms /\ t2 \in NodeTerms
    <3>1. t1 \in NodeTerms
      BY <1>2, <1>3, <1>5, <1>9, <1>10, <2>1, <2>3, TerminatorGoes
    <3>2. QED
      BY <2>1, <3>1 DEF NoTerminator, NodeTerms
  <2>5. SplitTerms(w.nodes[b].term, Fresh(w), FALSE, t1, t2)
    BY <1>12, <1>14, <2>1 DEF SplitTerms
  <2>6. PICK n1, n2 : n1 = node(n.Start, e, n.Region, t1) /\ n2 = node(e, e, n.Region, t2)
    OBVIOUS
  <2>7. Halves(w.nodes[w.layout[m]], e, t1, t2, n1, n2)
    BY <1>12, <1>14, <2>2, <2>6 DEF Halves
  <2>8. PICK h2 : h2 = g2
    OBVIOUS
  <2>9. SplitAt(w, h2, w.layout[m], e, n1, n2)
    <3>1. fgSplitBlock(w, b, e, FALSE) =
           withNode(withNode(makeFlowGraphNode(w, e, b), b, node(w.nodes[b].Start, e, w.nodes[b].Region, t1)),
                    Fresh(w), node(e, w.nodes[b].End, w.nodes[b].Region, t2))
      <4>1. FALSE \/ e # CodeSize
        BY <1>21
      <4>2. QED
        BY <2>5, <4>1, SplitOf, ZenonT(30)
    <3>2. h2 = withNode(withNode(makeFlowGraphNode(w, e, b), b, n1), Fresh(w), n2)
      BY <1>12, <1>14, <2>6, <2>8, <3>1 DEF Branches
    <3>3. QED
      BY <2>2, <3>2 DEF SplitAt
  <2>10. n1 \in NodeRecords /\ n2 \in NodeRecords /\ Grown(w, h2, m, n1, n2)
    BY <1>2, <2>2, <2>4, <2>7, <2>9, SplitIs
  <2>11. /\ n1.Start = n.Start /\ n1.End = e /\ n1.Region = n.Region /\ n1.term = t1
         /\ n2.Start = e /\ n2.Region = n.Region /\ n2.term = NoTerminator
    BY <2>1, <2>6, NodeFields
  <2>12. Follow(w.nodes[w.layout[m]], n1, n2)
    BY <1>12, <1>14, <2>2, <2>11 DEF Follow
  <2>13. Lay(h2) = Lay(w) \cup {Len(w.nodes) + 1}
    BY <2>2, <2>10, GrownShape
  <2>14. h2.nodes[f] = n2
    BY <2>3, <2>10 DEF Grown, TwoNodes
  <2>15. \A x \in Lay(h) : h2.nodes[x].Start = h.nodes[x].Start
    <3>1. \A x \in Lay(w) : x \in 1 .. Len(w.nodes)
      BY <1>14, LabelFacts
    <3>2. m \in 1 .. m /\ (m < m => n2.End = w.nodes[w.layout[m]].End)
      BY <1>4
    <3>3. \A x \in 1 .. Len(w.nodes) : h2.nodes[x].Start = w.nodes[x].Start
      BY <1>14, <2>10, <2>12, <3>2, GrownOK
    <3>4. QED
      BY <1>14, <1>16, <3>1, <3>3
  <2>16. LabelledIn(h, Lay(h2), h2.nodes)
    <3>1. Lay(h) \subseteq Lay(h2)
      BY <1>14, <2>13
    <3>2. QED
      BY <1>17, <2>15, <3>1
  <2>17. TermGoes(t1, i, e, Lay(h2), h2.nodes)
    <3>1. f \in Lay(h2) /\ h2.nodes[f].Start = e
      BY <2>3, <2>11, <2>13, <2>14
    <3>2. QED
      BY <1>2, <1>3, <1>5, <1>10, <2>1, <2>3, <2>16, <3>1, TerminatorGoes
  <2>18. NodeOK(n1, Lay(h2), h2.nodes, rs)
    BY <1>18, <1>19, <2>11, <2>17 DEF NodeOK, NodeFlow, TermGoes
  <2>19. GoesOn(w, h2, m, rs, n2)
    <3>1. GraphOK(w, m) /\ w.layout[1] = 1 /\ Done(w, rs, w.layout[m]) /\ n2.term = NoTerminator
      BY <1>7, <1>14, <1>15, <2>11
    <3>2. QED
      BY <2>10, <2>12, <2>18, <3>1, NextBlock
  <2>20. QED
    BY <1>5, <1>21, <2>8, <2>11, <2>19
<1>22. QED
  BY <1>20, <1>21

\* The graph when instruction i, a ret or jmp, of block b, up to offset e, ends it.
Returns(g, b, i, e, w, g2) ==
  /\ e = CurrentOffset + 1 /\ i = code[e]
  /\ w = withNode(g, b, node(g.nodes[b].Start, e, g.nodes[b].Region,
                             IF i.Op = "ret" THEN terminator(g, i) ELSE g.nodes[b].term))
  /\ g2 = IF e < CodeSize THEN makeFlowGraphNode(w, e, b) ELSE w

(* A ret or jmp ends the block. *)
LEMMA Returned ==
  ASSUME CodeOK, CurrentOffset \in Offsets,
         NEW g, NEW m, NEW rs, NEW b, Reading(g, m, rs, b, CurrentOffset), RegionFor(rs, g.nodes[b].Region, CurrentOffset),
         NEW i, i.Op \in {"ret", "jmp"}, NEW e, NEW w, NEW g2, Returns(g, b, i, e, w, g2)
  PROVE  IF e = CodeSize THEN Linking(g2, m, rs, 1)
         ELSE \E n2 : GoesOn(w, g2, m, rs, n2) /\ n2.Start = e /\ n2.Region = 0
<1>1. /\ GraphOK(g, m) /\ g.layout[1] = 1 /\ b = g.layout[m] /\ Done(g, rs, b) /\ Open(g.nodes[b], rs, CurrentOffset)
  BY DEF Reading
<1>2. InstrOK(i, CurrentOffset) /\ CurrentOffset \in Nat /\ e \in Nat /\ e = CurrentOffset + 1 /\ e <= CodeSize /\ code[e] = i
  BY SizeAssumption DEF CodeOK, Offsets, Returns
<1>3. m \in Nat /\ m \in 1 .. Len(g.layout) /\ Shape(g)
  BY <1>1, LabelFacts DEF GraphOK
<1>4. PICK n, t : n = g.nodes[b] /\ t = IF i.Op = "ret" THEN terminator(g, i) ELSE n.term
  OBVIOUS
<1>5. n \in NodeRecords
  BY <1>1, <1>3, <1>4, ShapeFacts
<1>6. t \in NodeTerms /\ t.succ = <<>>
  <2>1. CASE i.Op = "ret"
    <3>1. t = [kind |-> "unreachable", succ |-> <<>>]
      BY <1>4, <2>1 DEF terminator
    <3>2. QED
      BY <3>1 DEF NodeTerms
  <2>2. CASE i.Op = "jmp"
    <3>1. t = NoTerminator
      BY <1>1, <1>4, <2>2 DEF Open
    <3>2. QED
      BY <3>1 DEF NodeTerms, NoTerminator
  <2>3. QED
    BY <2>1, <2>2
<1>7. PICK n0 : n0 = node(n.Start, e, n.Region, t)
  OBVIOUS
<1>8. n0 \in NodeRecords /\ n0.Start = n.Start /\ n0.End = e /\ n0.Region = n.Region /\ n0.term = t
  <2>1. n.Start \in Nat /\ n.Region \in Nat
    BY <1>5 DEF NodeRecords
  <2>2. QED
    BY <1>2, <1>6, <1>7, <2>1, NodeFields
<1>9. w = withNode(g, g.layout[m], n0) /\ n0.Start = g.nodes[g.layout[m]].Start
  <2>1. w = withNode(g, b, node(n.Start, e, n.Region, t))
    BY <1>4, Zenon DEF Returns
  <2>2. QED
    BY <1>1, <1>4, <1>7, <1>8, <2>1
<1>10. GraphOK(w, m) /\ w.layout = g.layout /\ w.nodes[b] = n0
  BY <1>1, <1>8, <1>9, ChangedOK
<1>11. Done(w, rs, b)
  BY <1>1, <1>8, <1>9, DoneChanged
<1>12. NodeRange(n0, rs)
  BY <1>1, <1>2, <1>4, <1>5, <1>8, RangeEnds
<1>13. ASSUME NEW L, NEW ns PROVE NodeOK(n0, L, ns, rs)
  <2>1. GoesTo(code[n0.End], n0.End) = <<>>
    BY <1>2, <1>8 DEF GoesTo, InstrOK
  <2>2. StartsIn(ns, n0.term.succ) = <<>>
    BY <1>6, <1>8, StartsOf
  <2>3. \A k \in 1 .. Len(n0.term.succ) : n0.term.succ[k] \in L
    BY <1>6, <1>8
  <2>4. QED
    BY <1>12, <2>1, <2>2, <2>3 DEF NodeOK, NodeFlow
<1>14. CASE e = CodeSize
  <2>1. g2 = w
    BY <1>2, <1>14 DEF Returns
  <2>2. n0.End = CodeSize /\ Done(g, rs, g.layout[m])
    BY <1>1, <1>8, <1>14
  <2>3. Linking(w, m, rs, 1)
    BY <1>1, <1>8, <1>9, <1>13, <2>2, LastBlock
  <2>4. QED
    BY <1>14, <2>1, <2>3
<1>15. CASE e # CodeSize
  <2>1. PICK h, n2 : h = g2 /\ n2 = node(e, 0, 0, NoTerminator)
    OBVIOUS
  <2>2. h = makeFlowGraphNode(w, e, w.layout[m])
    <3>1. e < CodeSize /\ w.layout[m] = b
      BY <1>1, <1>2, <1>10, <1>15, SizeAssumption
    <3>2. QED
      BY <2>1, <3>1 DEF Returns
  <2>3. Shape(w) /\ m \in 1 .. Len(w.layout)
    BY <1>3, <1>10 DEF GraphOK
  <2>4. n2 \in NodeRecords /\ Grown(w, h, m, w.nodes[w.layout[m]], n2)
    BY <1>2, <2>1, <2>2, <2>3, MakeGrown
  <2>5. w.nodes[w.layout[m]] = n0
    BY <1>1, <1>10
  <2>6. n2.Start = e /\ n2.Region = 0 /\ n2.term = NoTerminator
    BY <2>1, NodeFields
  <2>7. Follow(w.nodes[w.layout[m]], n0, n2)
    BY <1>8, <2>5, <2>6 DEF Follow
  <2>8. GoesOn(w, h, m, rs, n2)
    <3>1. /\ GraphOK(w, m) /\ w.layout[1] = 1 /\ Done(w, rs, w.layout[m])
          /\ Grown(w, h, m, n0, n2) /\ NodeOK(n0, Lay(h), h.nodes, rs)
      BY <1>1, <1>10, <1>11, <1>13, <2>4, <2>5
    <3>2. QED
      BY <1>8, <2>4, <2>6, <2>7, <3>1, NextBlock
  <2>9. QED
    BY <1>15, <2>1, <2>6, <2>8
<1>16. QED
  BY <1>14, <1>15

\* What an instruction leaves: the second pass starts from the first block, or the first goes on.
Left(g2, rs, b, e, r) ==
  IF e = CodeSize THEN (\E m \in Nat : Linking(g2, m, rs, 1)) /\ b = 1
  ELSE \E m \in Nat : Reading(g2, m, rs, b, e) /\ RegionIs(g2.nodes[b], r)

(* What the first pass leaves is the invariant. *)
LEMMA LeftNext ==
  ASSUME IInv, FlowInv, nextInstruction, code' = code,
         Left(graph', regions, Block', CurrentOffset + 1, CurrentRegion)
  PROVE  FlowInv'
<1>1. /\ EIT' = EIT /\ regions' = regions /\ CurrentRegion' = CurrentRegion /\ CurrentOffset' = CurrentOffset + 1
      /\ phase' = IF CurrentOffset' = CodeSize THEN "done"
                  ELSE IF CurrentOffset' = NextRegionTransitionOffset THEN "switch" ELSE "instruction"
  BY DEF nextInstruction
<1>2. CodeOK'
  BY <1>1, CodeKept DEF FlowInv
<1>3. PICK h, rs, b, e, r : h = graph' /\ rs = regions' /\ b = Block' /\ e = CurrentOffset' /\ r = CurrentRegion'
  OBVIOUS
<1>4. Left(h, rs, b, e, r)
  BY <1>1, <1>3
<1>5. CASE e = CodeSize
  <2>1. phase' = "done"
    BY <1>1, <1>3, <1>5
  <2>2. PICK m \in Nat : Linking(h, m, rs, 1)
    BY <1>4, <1>5 DEF Left
  <2>3. b = 1
    BY <1>4, <1>5 DEF Left
  <2>4. Linking(h, m, rs, b)
    BY <2>2, <2>3
  <2>5. Linking(graph, m, regions, Block)'
    BY <1>3, <2>4, LinkingNext
  <2>6. QED
    BY <1>2, <2>1, <2>5 DEF FlowInv, Building
<1>6. CASE e # CodeSize
  <2>1. phase' \in {"switch", "instruction"}
    BY <1>1, <1>3, <1>6
  <2>2. PICK m \in Nat : Reading(h, m, rs, b, e) /\ RegionIs(h.nodes[b], r)
    BY <1>4, <1>6 DEF Left
  <2>3. Reading(graph, m, regions, Block, CurrentOffset)'
    BY <1>3, <2>2, ReadingNext
  <2>4. h.nodes = nodes'
    BY <1>3, GraphFields DEF graph
  <2>5. RegionIs(nodes[Block], CurrentRegion)'
    BY <1>3, <2>2, <2>4 DEF RegionIs
  <2>6. QED
    BY <1>2, <2>1, <2>3, <2>5 DEF FlowInv, Building
<1>7. QED
  BY <1>5, <1>6

\* The graph that an instruction makes of g: w is g with its block ended.
After(g, b, i, e, g2) ==
  \E h, w : \/ i.Op = "other" /\ e # CodeSize /\ g2 = g
            \/ i.Op \in {"ret", "jmp"} /\ Returns(g, b, i, e, w, g2)
            \/ i.Op \notin {"other", "ret", "jmp"} /\ Branches(g, b, i, e, h, w, g2)

(* An instruction is read. *)
LEMMA InstructionFlow ==
  ASSUME IInv, FlowInv, instruction
  PROVE  FlowInv'
<1>1. nextInstruction /\ code' = code /\ phase = "instruction"
  BY DEF instruction, nextInstruction
<1>2. /\ CodeOK /\ RegionIs(nodes[Block], CurrentRegion)
      /\ \E m \in Nat : Reading(graph, m, regions, Block, CurrentOffset)
  BY <1>1 DEF FlowInv
<1>3. /\ CurrentOffset \in Nat /\ CurrentOffset \in Offsets
      /\ InnerAt(regions, CurrentRegion, CurrentOffset)
  <2>1. CurrentOffset \in Nat /\ CurrentOffset < CodeSize
    BY <1>1 DEF IInv, WalkOK
  <2>2. CurrentOffset \in Offsets
    BY <2>1, SizeAssumption DEF Offsets
  <2>3. InnerAt(regions, CurrentRegion, CurrentOffset)
    BY <1>1, AtInstruction DEF IInv, TreeInv, WalkOK, InnerAt
  <2>4. QED
    BY <2>1, <2>2, <2>3
<1>4. PICK g, b, o, e, r, rs, i : /\ g = graph /\ b = Block /\ o = CurrentOffset /\ e = CurrentOffset + 1
                                  /\ r = CurrentRegion /\ rs = regions /\ i = code[CurrentOffset + 1]
  OBVIOUS
<1>5. g.nodes = nodes
  BY <1>4, GraphFields DEF graph
<1>6. InstrOK(i, o) /\ e \in Nat /\ e <= CodeSize
  BY <1>2, <1>3, <1>4, SizeAssumption DEF CodeOK, Offsets
<1>7. PICK m \in Nat : Reading(g, m, rs, b, o)
  BY <1>2, <1>4
<1>8. RegionFor(rs, g.nodes[b].Region, o) /\ RegionIs(g.nodes[b], r)
  BY <1>2, <1>3, <1>4, <1>5 DEF RegionFor, RegionIs
<1>9. PICK g2 : /\ nodes' = g2.nodes /\ layout' = g2.layout /\ labels' = g2.labels
                /\ Block' = IF e = CodeSize THEN 1 ELSE IF i.Op = "other" THEN Block ELSE Len(g2.nodes)
                /\ After(g, b, i, e, g2)
  <2>1. PICK h, w, last : /\ h = fgAddTargets(graph, i)
                          /\ w = withNode(h, Block, node(nodes[Block].Start, e, nodes[Block].Region, terminator(h, i)))
                          /\ last = withNode(graph, Block, node(nodes[Block].Start, e, nodes[Block].Region,
                                       IF i.Op = "ret" THEN terminator(graph, i) ELSE nodes[Block].term))
    OBVIOUS
  <2>2. PICK g2 : /\ g2 = CASE i.Op = "other" -> IF e = CodeSize THEN last ELSE graph
                            [] i.Op \in {"ret", "jmp"} ->
                                 IF e < CodeSize THEN makeFlowGraphNode(last, e, Block) ELSE last
                            [] OTHER -> fgSplitBlock(w, Block, e, FALSE)
                  /\ nodes' = g2.nodes /\ layout' = g2.layout /\ labels' = g2.labels
                  /\ Block' = IF e = CodeSize THEN 1 ELSE IF i.Op = "other" THEN Block ELSE Len(g2.nodes)
    BY <1>4, <2>1, Zenon DEF instruction
  <2>3. CASE i.Op = "other"
    <3>1. e # CodeSize
      BY <1>4, <1>6, <2>3 DEF InstrOK
    <3>2. g2 = g
      BY <1>4, <2>2, <2>3, <3>1
    <3>3. After(g, b, i, e, g2)
      BY <2>3, <3>1, <3>2 DEF After
    <3>4. QED
      BY <2>2, <3>3
  <2>4. CASE i.Op \in {"ret", "jmp"}
    <3>1. g2 = IF e < CodeSize THEN makeFlowGraphNode(last, e, b) ELSE last
      BY <1>4, <2>2, <2>4
    <3>2. last = withNode(g, b, node(g.nodes[b].Start, e, g.nodes[b].Region,
                                     IF i.Op = "ret" THEN terminator(g, i) ELSE g.nodes[b].term))
      BY <1>4, <1>5, <2>1
    <3>3. Returns(g, b, i, e, last, g2)
      BY <1>4, <3>1, <3>2, Zenon DEF Returns
    <3>4. After(g, b, i, e, g2)
      BY <2>4, <3>3, Zenon DEF After
    <3>5. QED
      BY <2>2, <3>4
  <2>5. CASE i.Op \notin {"other", "ret", "jmp"}
    <3>1. g2 = fgSplitBlock(w, b, e, FALSE)
      BY <1>4, <2>2, <2>5
    <3>2. h = fgAddTargets(g, i) /\ w = withNode(h, b, node(g.nodes[b].Start, e, g.nodes[b].Region, terminator(h, i)))
      BY <1>4, <1>5, <2>1
    <3>3. Branches(g, b, i, e, h, w, g2)
      BY <1>4, <3>1, <3>2, Zenon DEF Branches
    <3>4. After(g, b, i, e, g2)
      BY <2>5, <3>3, Zenon DEF After
    <3>5. QED
      BY <2>2, <3>4
  <2>6. QED
    BY <2>3, <2>4, <2>5
<1>10. /\ o = CurrentOffset /\ RegionFor(rs, g.nodes[b].Region, CurrentOffset)
       /\ Reading(g, m, rs, b, CurrentOffset)
  BY <1>4, <1>7, <1>8
<1>11. ASSUME NEW w, e # CodeSize, NEW n2, GoesOn(w, g2, m, rs, n2), n2.Start = e, RegionIs(n2, r),
              Block' = Len(g2.nodes)
       PROVE  Left(g2, rs, Block', e, r)
  <2>1. Len(g2.nodes) = Len(w.nodes) + 1 /\ g2.nodes[Len(w.nodes) + 1] = n2 /\ m + 1 \in Nat
        /\ Reading(g2, m + 1, rs, Len(w.nodes) + 1, n2.Start)
    BY <1>11 DEF GoesOn
  <2>2. Reading(g2, m + 1, rs, Block', e) /\ RegionIs(g2.nodes[Block'], r)
    BY <1>11, <2>1
  <2>3. QED
    BY <1>11, <2>1, <2>2 DEF Left
<1>12. Left(g2, rs, Block', e, r) /\ \E k \in Nat : GraphOK(g2, k)
  <2>1. CASE i.Op = "other"
    <3>1. g2 = g /\ e # CodeSize /\ Block' = b
      BY <1>4, <1>9, <2>1 DEF After
    <3>2. GraphOK(g, m) /\ Shape(g) /\ g.layout[1] = 1 /\ b = g.layout[m] /\ Done(g, rs, b) /\ Open(g.nodes[b], rs, o)
      BY <1>7 DEF Reading, GraphOK
    <3>3. g.nodes[b] \in NodeRecords
      BY <3>2, LabelFacts, ShapeFacts
    <3>4. Open(g.nodes[b], rs, o + 1)
      <4>1. o \in Nat /\ code[o + 1].Op = "other"
        BY <1>3, <1>4, <2>1
      <4>2. QED
        BY <1>8, <3>2, <3>3, <4>1, OpenLonger
    <3>5. Reading(g, m, rs, b, e)
      <4>1. e = o + 1
        BY <1>4
      <4>2. QED
        BY <3>2, <3>4, <4>1 DEF Reading
    <3>6. QED
      BY <1>8, <3>1, <3>2, <3>5 DEF Left
  <2>2. CASE i.Op \in {"ret", "jmp"}
    <3>1. PICK w : Returns(g, b, i, e, w, g2)
      BY <1>9, <2>2 DEF After
    <3>2. IF e = CodeSize THEN Linking(g2, m, rs, 1)
          ELSE \E n2 : GoesOn(w, g2, m, rs, n2) /\ n2.Start = e /\ n2.Region = 0
      BY <1>2, <1>3, <1>10, <2>2, <3>1, Returned
    <3>3. CASE e = CodeSize
      BY <1>9, <3>2, <3>3 DEF Left, Linking, Covered
    <3>4. CASE e # CodeSize
      <4>1. PICK n2 : GoesOn(w, g2, m, rs, n2) /\ n2.Start = e /\ n2.Region = 0
        BY <3>2, <3>4
      <4>2. r = 1
        <5>1. Outside(o)
          BY <1>6, <2>2 DEF InstrOK
        <5>2. QED
          BY <1>1, <1>4, <5>1, AtRoot
      <4>3. RegionIs(n2, r) /\ Block' = Len(g2.nodes)
        BY <1>9, <2>2, <3>4, <4>1, <4>2 DEF RegionIs
      <4>4. GraphOK(g2, m + 1) /\ m + 1 \in Nat
        BY <4>1 DEF GoesOn, Reading
      <4>5. QED
        BY <1>11, <3>4, <4>1, <4>3, <4>4
    <3>5. QED
      BY <3>3, <3>4
  <2>3. CASE i.Op \notin {"other", "ret", "jmp"}
    <3>1. PICK h, w : Branches(g, b, i, e, h, w, g2)
      BY <1>9, <2>3 DEF After
    <3>2. IF e = CodeSize THEN Linking(g2, m, rs, 1)
          ELSE \E n2 : GoesOn(w, g2, m, rs, n2) /\ n2.Start = e /\ n2.Region = g.nodes[b].Region
      BY <1>2, <1>3, <1>10, <2>3, <3>1, Branched
    <3>3. CASE e = CodeSize
      BY <1>9, <3>2, <3>3 DEF Left, Linking, Covered
    <3>4. CASE e # CodeSize
      <4>1. PICK n2 : GoesOn(w, g2, m, rs, n2) /\ n2.Start = e /\ n2.Region = g.nodes[b].Region
        BY <3>2, <3>4
      <4>2. RegionIs(n2, r) /\ Block' = Len(g2.nodes)
        BY <1>8, <1>9, <2>3, <3>4, <4>1 DEF RegionIs
      <4>3. GraphOK(g2, m + 1) /\ m + 1 \in Nat
        BY <4>1 DEF GoesOn, Reading
      <4>4. QED
        BY <1>11, <3>4, <4>1, <4>2, <4>3
    <3>5. QED
      BY <3>3, <3>4
  <2>4. QED
    BY <2>1, <2>2, <2>3
<1>13. g2 = graph'
  <2>1. g2 = Graph(g2.nodes, g2.layout, g2.labels)
    BY <1>12 DEF GraphOK, Shape
  <2>2. graph' = Graph(nodes', layout', labels')
    BY DEF graph
  <2>3. QED
    BY <1>9, <2>1, <2>2
<1>14. Left(graph', regions, Block', CurrentOffset + 1, CurrentRegion)
  BY <1>4, <1>12, <1>13
<1>15. QED
  BY <1>1, <1>14, LeftNext

-----------------------------------------------------------------------------
(* The second pass. *)

(* The block that has an offset is found from any block that starts before it. *)
LEMMA BlockFound ==
  ASSUME NEW g, NEW m, NEW rs, Covered(g, m, rs), NEW q \in 1 .. m, NEW o \in Nat, o < CodeSize,
         g.nodes[g.layout[q]].Start <= o
  PROVE  \E p \in q .. m : Holds(g, g.layout[p], o)
<1>1. GraphOK(g, m) /\ Tiled(g, m) /\ g.nodes[g.layout[m]].End = CodeSize
  BY DEF Covered, GraphOK
<1>2. m \in Nat /\ q \in Nat /\ q <= m /\ q >= 1 /\ m \in 1 .. Len(g.layout)
  <2>1. m \in Nat /\ m \in 1 .. Len(g.layout)
    BY <1>1, LabelFacts
  <2>2. QED
    BY <2>1
<1>3. \A k \in 1 .. m : g.nodes[g.layout[k]].Start \in Nat
  <2>1. Shape(g) /\ Len(g.layout) \in Nat
    BY <1>1, ShapeFacts DEF GraphOK
  <2>2. \A k \in 1 .. m : k \in 1 .. Len(g.layout)
    BY <1>2, <2>1
  <2>3. \A k \in 1 .. m : g.nodes[g.layout[k]] \in NodeRecords
    BY <2>1, <2>2, ShapeFacts
  <2>4. QED
    BY <2>3 DEF NodeRecords
<1>4. PICK T : T = {k \in q .. m : g.nodes[g.layout[k]].Start <= o}
  OBVIOUS
<1>5. T \in SUBSET (0 .. m) /\ q \in T
  BY <1>2, <1>4
<1>6. PICK p \in T : \A y \in T : y <= p
  BY <1>2, <1>5, Greatest
<1>7. p \in q .. m /\ g.nodes[g.layout[p]].Start <= o
  BY <1>4
<1>8. o < g.nodes[g.layout[p]].End
  <2>1. CASE p = m
    BY <1>1, <2>1
  <2>2. CASE p # m
    <3>1. p + 1 \in q .. m /\ p \in 1 .. m - 1 /\ ~(p + 1 <= p) /\ p + 1 \in 1 .. m
      BY <1>2, <1>7, <2>2
    <3>2. p + 1 \notin T
      BY <1>6, <3>1
    <3>3. ~(g.nodes[g.layout[p + 1]].Start <= o)
      BY <1>4, <3>1, <3>2
    <3>4. g.nodes[g.layout[p]].End = g.nodes[g.layout[p + 1]].Start
      BY <1>1, <3>1 DEF Tiled
    <3>5. g.nodes[g.layout[p + 1]].Start \in Nat
      BY <1>3, <3>1
    <3>6. QED
      BY <3>3, <3>4, <3>5
  <2>3. QED
    BY <2>1, <2>2
<1>9. QED
  BY <1>7, <1>8 DEF Holds

(* Only a block of the code has an offset. *)
LEMMA HoldsInCode ==
  ASSUME NEW g, NEW m, GraphOK(g, m), NEW o \in Nat, NEW k \in 1 .. Len(g.layout), Holds(g, g.layout[k], o)
  PROVE  k \in 1 .. m
<1>1. m \in Nat /\ m \in 1 .. Len(g.layout) /\ Len(g.layout) \in Nat
  BY LabelFacts, ShapeFacts DEF GraphOK
<1>2. SUFFICES ASSUME k \in m + 1 .. Len(g.layout) PROVE FALSE
  BY <1>1
<1>3. PICK p \in DOMAIN g.labels : g.layout[k] = g.labels[p]
  BY <1>2 DEF GraphOK, LabelsOK, Temps
<1>4. g.nodes[g.layout[k]].End = 0
  BY <1>3 DEF GraphOK, LabelsOK
<1>5. QED
  BY <1>4 DEF Holds

\* Block c of the code starts at offset o.
StartsAt(g, c, o) == c \in Lay(g) /\ c \notin Temps(g) /\ g.nodes[c].Start = o
SplitsTo(g, b, o, s, c) == s = splitAt(g, b, o) /\ c = Newest(s, g, b)

(* The halves of a block are blocks. *)
LEMMA HalvesOK ==
  ASSUME NEW n \in NodeRecords, NEW L, NEW ns, NEW rs, NodeOK(n, L, ns, rs), NEW o \in Nat, n.Start < o, o < n.End,
         NEW f \in L, ns[f].Start = o, NEW n1, NEW n2,
         Halves(n, o, [kind |-> "br", succ |-> <<f>>], n.term, n1, n2)
  PROVE  NodeOK(n1, L, ns, rs) /\ NodeOK(n2, L, ns, rs)
<1>1. n.Start \in Nat /\ n.End \in Nat
  BY DEF NodeRecords
<1>2. /\ n.End <= CodeSize
      /\ \A p \in n.Start .. n.End - 2 : code[p + 1].Op = "other"
      /\ \A p \in n.Start .. n.End - 1 : RegionFor(rs, n.Region, p)
  BY DEF NodeOK, NodeRange
<1>3. PICK t : t = [kind |-> "br", succ |-> <<f>>]
  OBVIOUS
<1>4. /\ n1.Start = n.Start /\ n1.End = o /\ n1.Region = n.Region /\ n1.term = t
      /\ n2.Start = o /\ n2.End = n.End /\ n2.Region = n.Region /\ n2.term = n.term
  <2>1. n1 = node(n.Start, o, n.Region, t) /\ n2 = node(o, n.End, n.Region, n.term)
    BY <1>3, Zenon DEF Halves
  <2>2. QED
    BY <2>1, NodeFields
<1>5. NodeOK(n1, L, ns, rs)
  <2>1. NodeRange(n1, rs)
    <3>1. /\ \A p \in n.Start .. o - 2 : p \in n.Start .. n.End - 2
          /\ \A p \in n.Start .. o - 1 : p \in n.Start .. n.End - 1
      BY <1>1
    <3>2. \A p \in n1.Start .. n1.End - 2 : code[p + 1].Op = "other"
      BY <1>2, <1>4, <3>1
    <3>3. \A p \in n1.Start .. n1.End - 1 : RegionFor(rs, n1.Region, p)
      BY <1>2, <1>4, <3>1
    <3>4. n1.Start < n1.End /\ n1.End <= CodeSize
      BY <1>1, <1>2, <1>4, SizeAssumption
    <3>5. QED
      BY <3>2, <3>3, <3>4 DEF NodeRange
  <2>2. code[o].Op = "other"
    <3>1. o - 1 \in n.Start .. n.End - 2 /\ (o - 1) + 1 = o
      BY <1>1
    <3>2. code[(o - 1) + 1].Op = "other"
      BY <1>2, <3>1
    <3>3. QED
      BY <3>1, <3>2
  <2>3. n1.term.succ[1] = f /\ n1.term = [kind |-> "br", succ |-> <<n1.term.succ[1]>>]
    BY <1>3, <1>4
  <2>4. NodeFlow(n1, L, ns)
    <3>1. n1.term.succ[1] \in L /\ ns[n1.term.succ[1]].Start = n1.End /\ code[n1.End].Op = "other"
      BY <1>4, <2>2, <2>3
    <3>2. QED
      BY <2>3, <3>1, BranchFlow
  <2>5. QED
    BY <2>1, <2>4 DEF NodeOK
<1>6. NodeOK(n2, L, ns, rs)
  <2>1. NodeRange(n2, rs)
    <3>1. /\ \A p \in o .. n.End - 2 : p \in n.Start .. n.End - 2
          /\ \A p \in o .. n.End - 1 : p \in n.Start .. n.End - 1
      BY <1>1
    <3>2. \A p \in n2.Start .. n2.End - 2 : code[p + 1].Op = "other"
      BY <1>2, <1>4, <3>1
    <3>3. \A p \in n2.Start .. n2.End - 1 : RegionFor(rs, n2.Region, p)
      BY <1>2, <1>4, <3>1
    <3>4. n2.Start < n2.End /\ n2.End <= CodeSize
      BY <1>2, <1>4
    <3>5. QED
      BY <3>2, <3>3, <3>4 DEF NodeRange
  <2>2. NodeFlow(n, L, ns)
    BY DEF NodeOK
  <2>3. NodeFlow(n2, L, ns)
    BY <1>4, <2>2 DEF NodeFlow
  <2>4. QED
    BY <2>1, <2>3 DEF NodeOK
<1>7. QED
  BY <1>5, <1>6

(* The block that has offset o is split there; one of the blocks then starts there. *)
LEMMA SplitCovered ==
  ASSUME NEW g, NEW m, NEW rs, Covered(g, m, rs), NEW p \in 1 .. m, NEW o \in Nat, Holds(g, g.layout[p], o),
         o < CodeSize, NEW s, NEW c, SplitsTo(g, g.layout[p], o, s, c)
  PROVE  \E k \in Nat : Covered(s, k, rs) /\ StartsAt(s, c, o) /\ s.labels = g.labels
<1>1. GraphOK(g, m) /\ Shape(g) /\ Done(g, rs, 0) /\ g.nodes[g.layout[m]].End = CodeSize
  BY DEF Covered, GraphOK
<1>2. /\ m \in Nat /\ m \in 1 .. Len(g.layout) /\ Len(g.layout) \in Nat /\ p \in 1 .. Len(g.layout) /\ p \in Nat /\ p <= m
      /\ Len(g.nodes) \in Nat
  <2>1. m \in Nat /\ m \in 1 .. Len(g.layout) /\ Len(g.layout) \in Nat /\ Len(g.nodes) \in Nat
    BY <1>1, LabelFacts, ShapeFacts
  <2>2. QED
    BY <2>1
<1>3. PICK b, n, f : b = g.layout[p] /\ n = g.nodes[b] /\ f = Len(g.nodes) + 1
  OBVIOUS
<1>4. /\ b \in Lay(g) /\ b \notin Temps(g) /\ b \in 1 .. Len(g.nodes) /\ n \in NodeRecords /\ f \in Nat /\ Fresh(g) = f
      /\ n.Start \in Nat /\ n.Start <= o /\ o < n.End /\ b # 0
  <2>1. b \in Lay(g) /\ b \notin Temps(g) /\ b \in 1 .. Len(g.nodes)
    BY <1>1, <1>3, LabelFacts
  <2>2. n \in NodeRecords /\ Fresh(g) = f
    BY <1>1, <1>3, <2>1, ShapeFacts
  <2>3. n.Start <= o /\ o < n.End
    BY <1>3 DEF Holds
  <2>4. QED
    BY <1>2, <1>3, <2>1, <2>2, <2>3 DEF NodeRecords
<1>5. CASE n.Start = o
  <2>1. s = g /\ c = b
    BY <1>3, <1>5 DEF SplitsTo, splitAt, Newest
  <2>2. QED
    BY <1>2, <1>3, <1>4, <1>5, <2>1 DEF StartsAt
<1>6. CASE n.Start # o
  <2>1. PICK h, at : h = s /\ at = (g.nodes[b].term # NoTerminator)
    OBVIOUS
  <2>2. h = fgSplitBlock(g, b, o, at) /\ c = Newest(h, g, b)
    BY <1>3, <1>6, <2>1, Zenon DEF SplitsTo, splitAt
  <2>3. PICK t1, t2 : t1 = [kind |-> "br", succ |-> <<f>>] /\ t2 = n.term
    OBVIOUS
  <2>4. t1 \in NodeTerms /\ t2 \in NodeTerms
    BY <1>4, <2>3 DEF NodeTerms, NodeRecords
  <2>5. SplitTerms(g.nodes[b].term, Fresh(g), at, t1, t2)
    <3>1. CASE n.term # NoTerminator
      BY <1>3, <1>4, <2>1, <2>3, <3>1 DEF SplitTerms
    <3>2. CASE n.term = NoTerminator
      <4>1. fallThrough(NoTerminator, f) = [kind |-> "br", succ |-> <<f>>]
        BY DEF fallThrough, NoTerminator
      <4>2. QED
        BY <1>3, <1>4, <2>1, <2>3, <3>2, <4>1 DEF SplitTerms
    <3>3. QED
      BY <3>1, <3>2
  <2>6. PICK n1, n2 : n1 = node(n.Start, o, n.Region, t1) /\ n2 = node(o, n.End, n.Region, t2)
    OBVIOUS
  <2>7. Halves(g.nodes[g.layout[p]], o, t1, t2, n1, n2)
    BY <1>3, <2>6 DEF Halves
  <2>8. SplitAt(g, h, g.layout[p], o, n1, n2)
    <3>1. at \/ o # CodeSize
      OBVIOUS
    <3>2. fgSplitBlock(g, b, o, at) =
            withNode(withNode(makeFlowGraphNode(g, o, b), b, node(g.nodes[b].Start, o, g.nodes[b].Region, t1)),
                     Fresh(g), node(o, g.nodes[b].End, g.nodes[b].Region, t2))
      BY <2>5, <3>1, SplitOf
    <3>3. h = withNode(withNode(makeFlowGraphNode(g, o, b), b, n1), Fresh(g), n2)
      BY <1>3, <2>2, <2>6, <3>2
    <3>4. QED
      BY <1>3, <3>3 DEF SplitAt
  <2>9. n1 \in NodeRecords /\ n2 \in NodeRecords /\ Grown(g, h, p, n1, n2)
    BY <1>1, <1>2, <2>4, <2>7, <2>8, SplitIs
  <2>10. /\ n1.Start = n.Start /\ n1.End = o /\ n2.Start = o /\ n2.End = n.End
    BY <2>6, NodeFields
  <2>11. Follow(g.nodes[g.layout[p]], n1, n2) /\ (p < m => n2.End = g.nodes[g.layout[p]].End)
    BY <1>3, <2>10 DEF Follow
  <2>12. /\ GraphOK(h, m + 1) /\ h.layout[p + 1] = f
         /\ \A x \in 1 .. Len(g.nodes) : h.nodes[x].Start = g.nodes[x].Start
    BY <1>1, <1>3, <2>9, <2>11, GrownOK
  <2>13. Lay(h) = Lay(g) \cup {f} /\ f \notin Lay(g) /\ h.labels = g.labels /\ Temps(h) = Temps(g)
    BY <1>1, <1>2, <1>3, <2>9, GrownShape
  <2>14. h.nodes[f] = n2 /\ Len(h.nodes) = f /\ \A x \in 1 .. Len(g.nodes) : x # b => h.nodes[x] = g.nodes[x]
    BY <1>3, <2>9 DEF Grown, TwoNodes
  <2>15. NodeOK(n, Lay(h), h.nodes, rs)
    <3>1. NodeOK(n, Lay(g), g.nodes, rs)
      BY <1>1, <1>3, <1>4 DEF Done
    <3>2. \A x \in Lay(g) : h.nodes[x].Start = g.nodes[x].Start
      BY <1>1, <2>12, LabelFacts
    <3>3. Lay(g) \subseteq Lay(h)
      BY <2>13
    <3>4. QED
      BY <3>1, <3>2, <3>3, NodeKept
  <2>16. NodeOK(n1, Lay(h), h.nodes, rs) /\ NodeOK(n2, Lay(h), h.nodes, rs)
    <3>1. f \in Lay(h) /\ h.nodes[f].Start = o /\ n.Start < o
      BY <1>4, <1>6, <2>10, <2>13, <2>14
    <3>2. Halves(n, o, [kind |-> "br", succ |-> <<f>>], n.term, n1, n2)
      BY <1>3, <2>3, <2>7
    <3>3. QED
      BY <1>4, <2>15, <3>1, <3>2, HalvesOK
  <2>17. Done(h, rs, 0)
    <3>1. \A x \in Lay(g) : x # g.layout[p] => x # 0
      BY <1>1, LabelFacts
    <3>2. QED
      BY <1>1, <2>9, <2>11, <2>16, <3>1, DoneGrown
  <2>18. h.nodes[h.layout[m + 1]].End = CodeSize
    <3>1. CASE p = m
      BY <1>1, <1>3, <2>10, <2>12, <2>14, <3>1
    <3>2. CASE p # m
      <4>1. m \in p + 1 .. Len(g.layout)
        BY <1>2, <3>2
      <4>2. h.layout[m + 1] = g.layout[m]
        BY <2>9, <4>1 DEF Grown, IsInserted
      <4>3. g.layout[m] # b /\ g.layout[m] \in 1 .. Len(g.nodes)
        BY <1>1, <1>2, <1>3, <3>2 DEF Shape
      <4>4. QED
        BY <1>1, <2>14, <4>2, <4>3
    <3>3. QED
      BY <3>1, <3>2
  <2>19. Covered(h, m + 1, rs) /\ m + 1 \in Nat
    BY <1>2, <2>12, <2>17, <2>18 DEF Covered
  <2>20. c = f
    BY <1>2, <1>3, <2>2, <2>14 DEF Newest
  <2>21. f \notin Temps(h)
    <3>1. \A x \in DOMAIN g.labels : g.labels[x] \in Lay(g)
      BY <1>1, LabelFacts
    <3>2. QED
      BY <2>13, <3>1 DEF Temps
  <2>22. StartsAt(h, c, o)
    BY <2>10, <2>13, <2>14, <2>20, <2>21 DEF StartsAt
  <2>23. QED
    BY <2>1, <2>13, <2>19, <2>22
<1>7. QED
  BY <1>5, <1>6

\* The graph without label o, the temporary block of which is replaced by c
Renamed(old, new, succ) == [k \in 1 .. Len(succ) |-> IF succ[k] = old THEN new ELSE succ[k]]
SameUses(n, n2, old, new) ==
  /\ n2.Start = n.Start /\ n2.End = n.End /\ n2.Region = n.Region
  /\ n2.term.succ = Renamed(old, new, n.term.succ) /\ n2 \in NodeRecords
Replaces(g, c, o, r, g2) ==
  /\ r = replaceFlowGraphNodeUses(g, g.labels[o], c)
  /\ g2 = Graph(r.nodes, r.layout, [p \in DOMAIN g.labels \ {o} |-> g.labels[p]])
\* What that says of the graph: old is at position q of the layout.
Replaced(g, c, o, q, g2) ==
  /\ g2 = Graph(g2.nodes, g2.layout, g2.labels)
  /\ g2.nodes \in Seq(NodeRecords) /\ Len(g2.nodes) = Len(g.nodes)
  /\ \A x \in 1 .. Len(g.nodes) : SameUses(g.nodes[x], g2.nodes[x], g.labels[o], c)
  /\ g.layout[q] = g.labels[o] /\ IsRemoved(g2.layout, g.layout, q)
  /\ DOMAIN g2.labels = DOMAIN g.labels \ {o} /\ \A p \in DOMAIN g2.labels : g2.labels[p] = g.labels[p]

\* The blocks and the labels are the others.
Without(g, g2, m, old, c) ==
  /\ GraphOK(g2, m) /\ Lay(g2) = Lay(g) \ {old} /\ Temps(g2) = Temps(g) \ {old}
  /\ \A k \in 1 .. m : g2.layout[k] = g.layout[k]
  /\ \A x \in 1 .. Len(g.nodes) : SameUses(g.nodes[x], g2.nodes[x], old, c)

(* What replaceFlowGraphNodeUses gives. *)
LEMMA ReplacedBy ==
  ASSUME NEW g, NEW m, GraphOK(g, m), NEW o \in DOMAIN g.labels, NEW c \in Nat, NEW r, NEW g2, Replaces(g, c, o, r, g2)
  PROVE  \E q \in m + 1 .. Len(g.layout) : Replaced(g, c, o, q, g2)
<1>1. Shape(g) /\ g.nodes \in Seq(NodeRecords) /\ g.layout \in Seq(Nat)
  BY DEF GraphOK, Shape
<1>2. PICK old, ns : old = g.labels[o] /\ ns = g.nodes
  OBVIOUS
<1>3. PICK q \in m + 1 .. Len(g.layout) : g.layout[q] = old
  BY <1>2 DEF GraphOK, LabelsOK
<1>4. m \in Nat /\ Len(g.layout) \in Nat /\ q \in 1 .. Len(g.layout)
  <2>1. m \in Nat /\ Len(g.layout) \in Nat
    BY <1>1, LabelFacts, ShapeFacts
  <2>2. QED
    BY <2>1
<1>5. Position(g, old) = q
  BY <1>1, <1>3, <1>4, ShapeFacts
<1>6. PICK u : u = [x \in 1 .. Len(ns) |-> node(ns[x].Start, ns[x].End, ns[x].Region,
                      [kind |-> ns[x].term.kind, succ |-> Renamed(old, c, ns[x].term.succ)])]
  OBVIOUS
<1>7. PICK l, lab : l = Seqs!RemoveAt(g.layout, q) /\ lab = [p \in DOMAIN g.labels \ {o} |-> g.labels[p]]
  OBVIOUS
<1>8. r = Graph(u, l, g.labels)
  BY <1>2, <1>5, <1>6, <1>7, Zenon DEF Replaces, replaceFlowGraphNodeUses, Renamed
<1>9. r.nodes = u /\ r.layout = l
  BY <1>8, GraphFields
<1>10. g2 = Graph(u, l, lab)
  BY <1>7, <1>9, Zenon DEF Replaces
<1>11. g2.nodes = u /\ g2.layout = l /\ g2.labels = lab
  BY <1>10, GraphFields
<1>12. IsRemoved(l, g.layout, q)
  BY <1>1, <1>4, <1>7, Removed
<1>13. ASSUME NEW x \in 1 .. Len(ns) PROVE SameUses(ns[x], u[x], old, c)
  <2>1. PICK n, t : n = ns[x] /\ t = [kind |-> n.term.kind, succ |-> Renamed(old, c, n.term.succ)]
    OBVIOUS
  <2>2. n \in NodeRecords
    BY <1>1, <1>2, <2>1
  <2>3. n.Start \in Nat /\ n.End \in Nat /\ n.Region \in Nat /\ n.term \in NodeTerms
    BY <2>2 DEF NodeRecords
  <2>4. n.term.succ \in Seq(Nat) /\ n.term.kind \in {"none", "br", "brtrue", "switch", "unreachable"}
    BY <2>3 DEF NodeTerms
  <2>5. Renamed(old, c, n.term.succ) \in Seq(Nat)
    <3>1. PICK v : v = n.term.succ
      OBVIOUS
    <3>2. v \in Seq(Nat) /\ Len(v) \in Nat
      BY <2>4, <3>1
    <3>3. \A k \in 1 .. Len(v) : (IF v[k] = old THEN c ELSE v[k]) \in Nat
      BY <3>2
    <3>4. [k \in 1 .. Len(v) |-> IF v[k] = old THEN c ELSE v[k]] \in Seq(Nat)
      BY <3>2, <3>3
    <3>5. QED
      BY <3>1, <3>4, Zenon DEF Renamed
  <2>6. t \in NodeTerms
    BY <2>1, <2>4, <2>5 DEF NodeTerms
  <2>7. u[x] = node(n.Start, n.End, n.Region, t)
    BY <1>6, <2>1
  <2>8. /\ u[x].Start = n.Start /\ u[x].End = n.End /\ u[x].Region = n.Region /\ u[x].term = t /\ u[x] \in NodeRecords
    BY <2>3, <2>6, <2>7, NodeFields
  <2>9. t.succ = Renamed(old, c, n.term.succ)
    BY <2>1
  <2>10. QED
    BY <2>1, <2>8, <2>9 DEF SameUses
<1>14. u \in Seq(NodeRecords) /\ Len(u) = Len(ns)
  <2>1. Len(ns) \in Nat
    BY <1>1, <1>2
  <2>2. \A x \in 1 .. Len(ns) : u[x] \in NodeRecords
    BY <1>13 DEF SameUses
  <2>3. u = [x \in 1 .. Len(ns) |-> u[x]]
    BY <1>6
  <2>4. QED
    BY <2>1, <2>2, <2>3
<1>15. DOMAIN lab = DOMAIN g.labels \ {o} /\ \A p \in DOMAIN lab : lab[p] = g.labels[p]
  BY <1>7
<1>16. Replaced(g, c, o, q, g2)
  BY <1>2, <1>3, <1>10, <1>11, <1>12, <1>13, <1>14, <1>15 DEF Replaced
<1>17. QED
  BY <1>16

(* The blocks and the labels that are left. *)
LEMMA ReplacedShape ==
  ASSUME NEW g, NEW m, GraphOK(g, m), NEW o \in DOMAIN g.labels, NEW c, NEW q \in m + 1 .. Len(g.layout),
         NEW g2, Replaced(g, c, o, q, g2)
  PROVE  Without(g, g2, m, g.labels[o], c)
<1>1. Shape(g) /\ LabelsOK(g, m) /\ Tiled(g, m)
  BY DEF GraphOK
<1>2. /\ m \in Nat /\ Len(g.layout) \in Nat /\ m \in 1 .. Len(g.layout) /\ Len(g.nodes) \in Nat
      /\ q \in Nat /\ m < q /\ q <= Len(g.layout) /\ q \in 1 .. Len(g.layout)
  <2>1. m \in Nat /\ Len(g.layout) \in Nat /\ m \in 1 .. Len(g.layout) /\ Len(g.nodes) \in Nat
    BY <1>1, LabelFacts, ShapeFacts
  <2>2. QED
    BY <2>1
<1>3. PICK old : old = g.labels[o]
  OBVIOUS
<1>4. /\ g2 = Graph(g2.nodes, g2.layout, g2.labels)
      /\ g2.nodes \in Seq(NodeRecords) /\ Len(g2.nodes) = Len(g.nodes)
      /\ \A x \in 1 .. Len(g.nodes) : SameUses(g.nodes[x], g2.nodes[x], old, c)
      /\ g.layout[q] = old /\ IsRemoved(g2.layout, g.layout, q)
      /\ DOMAIN g2.labels = DOMAIN g.labels \ {o} /\ \A p \in DOMAIN g2.labels : g2.labels[p] = g.labels[p]
  BY <1>3 DEF Replaced
<1>5. /\ g2.layout \in Seq(Nat) /\ Len(g2.layout) = Len(g.layout) - 1
      /\ \A k \in 1 .. q - 1 : g2.layout[k] = g.layout[k]
      /\ \A k \in q .. Len(g.layout) - 1 : g2.layout[k] = g.layout[k + 1]
  BY <1>4 DEF IsRemoved
<1>6. ASSUME NEW k \in 1 .. Len(g2.layout)
      PROVE  \E l \in 1 .. Len(g.layout) : l # q /\ g2.layout[k] = g.layout[l] /\ l = IF k < q THEN k ELSE k + 1
  <2>1. CASE k < q
    <3>1. k \in 1 .. q - 1 /\ k \in 1 .. Len(g.layout) /\ k # q
      BY <1>2, <1>5, <2>1
    <3>2. QED
      BY <1>5, <2>1, <3>1
  <2>2. CASE ~(k < q)
    <3>1. k \in q .. Len(g.layout) - 1 /\ k + 1 \in 1 .. Len(g.layout) /\ k + 1 # q
      BY <1>2, <1>5, <2>2
    <3>2. QED
      BY <1>5, <2>2, <3>1
  <2>3. QED
    BY <2>1, <2>2
<1>7. ASSUME NEW l \in 1 .. Len(g.layout), l # q
      PROVE  \E k \in 1 .. Len(g2.layout) : g2.layout[k] = g.layout[l] /\ (l > m => k > m)
  <2>1. CASE l < q
    <3>1. l \in 1 .. q - 1 /\ l \in 1 .. Len(g2.layout)
      BY <1>2, <1>5, <2>1
    <3>2. QED
      BY <1>5, <3>1
  <2>2. CASE ~(l < q)
    <3>1. l - 1 \in q .. Len(g.layout) - 1 /\ l - 1 \in 1 .. Len(g2.layout) /\ (l - 1) + 1 = l /\ l - 1 > m
      BY <1>2, <1>5, <1>7, <2>2
    <3>2. g2.layout[l - 1] = g.layout[(l - 1) + 1]
      BY <1>5, <3>1
    <3>3. QED
      BY <3>1, <3>2
  <2>3. QED
    BY <2>1, <2>2
<1>8. \A k, l \in 1 .. Len(g.layout) : g.layout[k] = g.layout[l] => k = l
  BY <1>1 DEF Shape
<1>9. Shape(g2)
  <2>1. \A k \in 1 .. Len(g2.layout) : g2.layout[k] \in 1 .. Len(g2.nodes)
    BY <1>1, <1>4, <1>6 DEF Shape
  <2>2. ASSUME NEW k \in 1 .. Len(g2.layout), NEW l \in 1 .. Len(g2.layout), g2.layout[k] = g2.layout[l]
        PROVE  k = l
    <3>1. PICK k1 \in 1 .. Len(g.layout) : g2.layout[k] = g.layout[k1] /\ k1 = IF k < q THEN k ELSE k + 1
      BY <1>6
    <3>2. PICK l1 \in 1 .. Len(g.layout) : g2.layout[l] = g.layout[l1] /\ l1 = IF l < q THEN l ELSE l + 1
      BY <1>6
    <3>3. k1 = l1
      BY <1>8, <2>2, <3>1, <3>2
    <3>4. QED
      BY <1>2, <1>5, <3>1, <3>2, <3>3
  <2>3. QED
    BY <1>4, <1>5, <2>1, <2>2 DEF Shape
<1>10. \A p \in DOMAIN g.labels : p # o => g.labels[p] # old
  BY <1>1, <1>3 DEF LabelsOK
<1>11. Temps(g2) = Temps(g) \ {old}
  BY <1>3, <1>4, <1>10 DEF Temps
<1>12. Lay(g2) = Lay(g) \ {old}
  <2>1. ASSUME NEW x \in Lay(g2) PROVE x \in Lay(g) /\ x # old
    <3>1. PICK k \in 1 .. Len(g2.layout) : x = g2.layout[k]
      BY DEF Lay
    <3>2. PICK l \in 1 .. Len(g.layout) : l # q /\ x = g.layout[l]
      BY <1>6, <3>1
    <3>3. QED
      BY <1>2, <1>4, <1>8, <3>2 DEF Lay
  <2>2. ASSUME NEW x \in Lay(g), x # old PROVE x \in Lay(g2)
    <3>1. PICK l \in 1 .. Len(g.layout) : x = g.layout[l]
      BY DEF Lay
    <3>2. l # q
      BY <1>4, <2>2, <3>1
    <3>3. QED
      BY <1>7, <3>1, <3>2 DEF Lay
  <2>3. QED
    BY <2>1, <2>2
<1>13. LabelsOK(g2, m)
  <2>1. m \in 1 .. Len(g2.layout) /\ DOMAIN g2.labels \subseteq Offsets
    BY <1>1, <1>2, <1>4, <1>5 DEF LabelsOK
  <2>2. ASSUME NEW k \in m + 1 .. Len(g2.layout) PROVE g2.layout[k] \in Temps(g2)
    <3>1. k \in 1 .. Len(g2.layout) /\ k > m
      BY <1>2
    <3>2. PICK l \in 1 .. Len(g.layout) : l # q /\ g2.layout[k] = g.layout[l] /\ l = IF k < q THEN k ELSE k + 1
      BY <1>6, <3>1
    <3>3. l \in m + 1 .. Len(g.layout)
      BY <1>2, <3>1, <3>2
    <3>4. g.layout[l] \in Temps(g) /\ g.layout[l] # old
      BY <1>1, <1>2, <1>4, <1>8, <3>2, <3>3 DEF LabelsOK
    <3>5. QED
      BY <1>11, <3>2, <3>4
  <2>3. ASSUME NEW p \in DOMAIN g2.labels
        PROVE  /\ \E k \in m + 1 .. Len(g2.layout) : g2.layout[k] = g2.labels[p]
               /\ g2.nodes[g2.labels[p]].Start = p /\ g2.nodes[g2.labels[p]].End = 0
    <3>1. p \in DOMAIN g.labels /\ p # o /\ g2.labels[p] = g.labels[p]
      BY <1>4
    <3>2. PICK l \in m + 1 .. Len(g.layout) : g.layout[l] = g.labels[p]
      BY <1>1, <3>1 DEF LabelsOK
    <3>3. l # q /\ l \in 1 .. Len(g.layout) /\ l > m
      BY <1>2, <1>4, <1>10, <3>1, <3>2
    <3>4. PICK k \in 1 .. Len(g2.layout) : g2.layout[k] = g.layout[l] /\ k > m
      BY <1>7, <3>3
    <3>5. k \in m + 1 .. Len(g2.layout) /\ g2.layout[k] = g2.labels[p]
      <4>1. k \in m + 1 .. Len(g2.layout)
        BY <1>2, <1>5, <3>4
      <4>2. QED
        BY <3>1, <3>2, <3>4, <4>1
    <3>6. g.labels[p] \in 1 .. Len(g.nodes) /\ g.nodes[g.labels[p]].Start = p /\ g.nodes[g.labels[p]].End = 0
      BY <1>1, <3>1, LabelFacts DEF LabelsOK
    <3>7. g2.nodes[g.labels[p]].Start = p /\ g2.nodes[g.labels[p]].End = 0
      BY <1>4, <3>6 DEF SameUses
    <3>8. QED
      BY <3>1, <3>5, <3>7
  <2>4. QED
    BY <2>1, <2>2, <2>3, Zenon DEF LabelsOK
<1>14. \A k \in 1 .. m : g2.layout[k] = g.layout[k]
  BY <1>2, <1>5
<1>15. Tiled(g2, m)
  <2>1. \A x \in 1 .. Len(g.nodes) : g2.nodes[x].Start = g.nodes[x].Start /\ g2.nodes[x].End = g.nodes[x].End
    BY <1>4 DEF SameUses
  <2>2. \A k \in 1 .. m : g.layout[k] \in 1 .. Len(g.nodes)
    BY <1>1, <1>2 DEF Shape
  <2>3. g2.nodes[g2.layout[1]].Start = 0
    <3>1. 1 \in 1 .. m
      BY <1>2
    <3>2. QED
      BY <1>1, <1>14, <2>1, <2>2, <3>1 DEF Tiled
  <2>4. ASSUME NEW k \in 1 .. m - 1 PROVE g2.nodes[g2.layout[k]].End = g2.nodes[g2.layout[k + 1]].Start
    <3>1. k \in 1 .. m /\ k + 1 \in 1 .. m
      BY <1>2
    <3>2. g.nodes[g.layout[k]].End = g.nodes[g.layout[k + 1]].Start
      BY <1>1 DEF Tiled
    <3>3. g2.layout[k] = g.layout[k] /\ g2.layout[k + 1] = g.layout[k + 1]
      BY <1>14, <3>1
    <3>4. g2.nodes[g.layout[k]].End = g.nodes[g.layout[k]].End
      BY <2>1, <2>2, <3>1
    <3>5. g2.nodes[g.layout[k + 1]].Start = g.nodes[g.layout[k + 1]].Start
      BY <2>1, <2>2, <3>1
    <3>6. QED
      BY <3>2, <3>3, <3>4, <3>5
  <2>5. QED
    BY <2>3, <2>4 DEF Tiled
<1>16. QED
  BY <1>3, <1>4, <1>9, <1>11, <1>12, <1>13, <1>14, <1>15 DEF GraphOK, Without

(* The temporary block of label o is replaced by the block that starts there. *)
LEMMA UsesReplaced ==
  ASSUME NEW g, NEW m, NEW rs, Covered(g, m, rs), NEW o \in DOMAIN g.labels, \A p \in DOMAIN g.labels : o <= p,
         NEW c, StartsAt(g, c, o), NEW r, NEW g2, Replaces(g, c, o, r, g2)
  PROVE  Linking(g2, m, rs, c)
<1>1. /\ GraphOK(g, m) /\ Done(g, rs, 0) /\ g.nodes[g.layout[m]].End = CodeSize
      /\ c \in Lay(g) /\ c \notin Temps(g) /\ g.nodes[c].Start = o
  BY DEF Covered, StartsAt
<1>2. PICK h, old : h = g2 /\ old = g.labels[o]
  OBVIOUS
<1>3. c \in 1 .. Len(g.nodes) /\ c \in Nat /\ \A x \in Lay(g) : x \in 1 .. Len(g.nodes)
  <2>1. c \in 1 .. Len(g.nodes) /\ \A x \in Lay(g) : x \in 1 .. Len(g.nodes)
    BY <1>1, LabelFacts
  <2>2. QED
    BY <2>1
<1>4. PICK q \in m + 1 .. Len(g.layout) : Replaced(g, c, o, q, h)
  BY <1>1, <1>2, <1>3, ReplacedBy
<1>5. /\ GraphOK(h, m) /\ Lay(h) = Lay(g) \ {old} /\ Temps(h) = Temps(g) \ {old}
      /\ \A k \in 1 .. m : h.layout[k] = g.layout[k]
      /\ \A x \in 1 .. Len(g.nodes) : SameUses(g.nodes[x], h.nodes[x], old, c)
  <2>1. Without(g, h, m, g.labels[o], c)
    BY <1>1, <1>4, ReplacedShape
  <2>2. QED
    BY <1>2, <2>1, Zenon DEF Without
<1>6. old \in Temps(g) /\ g.nodes[old].Start = o
  BY <1>1, <1>2 DEF Temps, GraphOK, LabelsOK
<1>7. c # old /\ c \in Lay(h) /\ c \notin Temps(h)
  BY <1>1, <1>5, <1>6
<1>8. \A x \in Lay(g) : h.nodes[x].Start = g.nodes[x].Start
  BY <1>3, <1>5 DEF SameUses
<1>9. Done(h, rs, 0)
  <2> SUFFICES ASSUME NEW x \in Lay(h), x \notin Temps(h), x # 0
               PROVE  NodeOK(h.nodes[x], Lay(h), h.nodes, rs)
    BY DEF Done
  <2>1. x \in Lay(g) /\ x \notin Temps(g)
    BY <1>5
  <2>2. PICK n, n2 : n = g.nodes[x] /\ n2 = h.nodes[x]
    OBVIOUS
  <2>3. NodeOK(n, Lay(g), g.nodes, rs) /\ SameUses(n, n2, old, c)
    BY <1>1, <1>3, <1>5, <2>1, <2>2 DEF Done
  <2>4. n2.Start = n.Start /\ n2.End = n.End /\ n2.Region = n.Region /\ n2.term.succ = Renamed(old, c, n.term.succ)
    BY <2>3 DEF SameUses
  <2>5. NodeRange(n2, rs)
    BY <2>3, <2>4 DEF NodeOK, NodeRange
  <2>6. PICK u, v : u = n.term.succ /\ v = n2.term.succ
    OBVIOUS
  <2>7. u \in Seq(Nat)
    <3>1. n \in NodeRecords
      <4>1. Shape(g)
        BY <1>1 DEF GraphOK
      <4>2. QED
        BY <1>3, <2>1, <2>2, <4>1, ShapeFacts
    <3>2. QED
      BY <2>6, <3>1 DEF NodeRecords, NodeTerms
  <2>8. /\ Len(v) = Len(u)
        /\ \A k \in 1 .. Len(u) : v[k] = IF u[k] = old THEN c ELSE u[k]
    BY <2>4, <2>6, <2>7 DEF Renamed
  <2>9. /\ \A k \in 1 .. Len(u) : u[k] \in Lay(g)
        /\ StartsIn(g.nodes, u) = GoesTo(code[n.End], n.End)
    BY <2>3, <2>6 DEF NodeOK, NodeFlow
  <2>10. \A k \in 1 .. Len(u) : v[k] \in Lay(h) /\ h.nodes[v[k]].Start = g.nodes[u[k]].Start
    <3>1. TAKE k \in 1 .. Len(u)
    <3>2. CASE u[k] = old
      BY <1>1, <1>6, <1>7, <1>8, <2>8, <3>2
    <3>3. CASE u[k] # old
      BY <1>5, <1>8, <2>8, <2>9, <3>3
    <3>4. QED
      BY <3>2, <3>3
  <2>11. StartsIn(h.nodes, v) = StartsIn(g.nodes, u)
    BY <2>8, <2>10 DEF StartsIn
  <2>12. NodeFlow(n2, Lay(h), h.nodes)
    BY <2>4, <2>6, <2>8, <2>9, <2>10, <2>11 DEF NodeFlow
  <2>13. QED
    BY <2>2, <2>5, <2>12 DEF NodeOK
<1>10. h.nodes[h.layout[m]].End = CodeSize
  <2>1. m \in 1 .. m /\ g.layout[m] \in Lay(g)
    <3>1. m \in Nat /\ m \in 1 .. Len(g.layout)
      BY <1>1, LabelFacts
    <3>2. m \in 1 .. m
      BY <3>1
    <3>3. QED
      BY <1>1, <3>2, LabelFacts
  <2>2. QED
    BY <1>1, <1>3, <1>5, <2>1 DEF SameUses
<1>11. \A p \in DOMAIN h.labels : h.nodes[c].Start <= p
  <2>1. DOMAIN h.labels \subseteq DOMAIN g.labels /\ h.nodes[c].Start = o
    BY <1>1, <1>4, <1>8 DEF Replaced
  <2>2. QED
    BY <2>1
<1>12. Linking(h, m, rs, c)
  BY <1>5, <1>7, <1>9, <1>10, <1>11 DEF Linking, Covered
<1>13. QED
  BY <1>2, <1>12

(* A branch target is found, and its temporary block is replaced. *)
LEMMA ReplaceFlow ==
  ASSUME FlowInv, fgReplaceBranchTarget
  PROVE  FlowInv'
<1>1. phase = "done" /\ DOMAIN labels # {} /\ EIT' = EIT /\ regions' = regions /\ code' = code
  BY DEF fgReplaceBranchTarget
<1>2. PICK g, b, rs : g = graph /\ b = Block /\ rs = regions
  OBVIOUS
<1>3. g.nodes = nodes /\ g.layout = layout /\ g.labels = labels
  BY <1>2, GraphFields DEF graph
<1>4. PICK m \in Nat : Linking(g, m, rs, b)
  BY <1>1, <1>2 DEF FlowInv
<1>5. /\ Covered(g, m, rs) /\ GraphOK(g, m) /\ b \in Lay(g) /\ b \notin Temps(g) /\ Shape(g)
      /\ \A p \in DOMAIN g.labels : g.nodes[b].Start <= p
  BY <1>4 DEF Linking, Covered, GraphOK
<1>6. \A p \in DOMAIN g.labels : p \in Nat /\ p < CodeSize
  BY <1>5, LabelFacts
<1>7. PICK o : o = CHOOSE x \in DOMAIN labels : \A p \in DOMAIN labels : x <= p
  OBVIOUS
<1>8. o \in DOMAIN g.labels /\ (\A p \in DOMAIN g.labels : o <= p) /\ o \in Nat /\ o < CodeSize
  <2>1. \E p \in DOMAIN labels : \A y \in DOMAIN labels : p <= y
    <3>1. DOMAIN labels \in SUBSET Nat
      BY <1>3, <1>6
    <3>2. QED
      BY <1>1, <3>1, Least
  <2>2. o \in DOMAIN labels /\ \A p \in DOMAIN labels : o <= p
    BY <1>7, <2>1, Zenon
  <2>3. QED
    BY <1>3, <1>6, <2>2
<1>9. PICK q \in 1 .. m : b = g.layout[q]
  BY <1>5, LabelFacts
<1>10. m \in 1 .. Len(g.layout) /\ Len(g.layout) \in Nat /\ q \in 1 .. Len(g.layout) /\ Position(g, b) = q
  <2>1. m \in 1 .. Len(g.layout) /\ Len(g.layout) \in Nat
    BY <1>5, LabelFacts, ShapeFacts
  <2>2. q \in 1 .. Len(g.layout)
    BY <1>4, <2>1
  <2>3. QED
    BY <1>5, <1>9, <2>1, <2>2, ShapeFacts
<1>11. PICK found : found = {k \in Position(graph, Block) .. Len(layout) : Holds(graph, layout[k], o)}
  OBVIOUS
<1>12. found = {k \in q .. Len(g.layout) : Holds(g, g.layout[k], o)}
  BY <1>2, <1>3, <1>10, <1>11
<1>13. found # {} /\ found \in SUBSET Nat
  <2>1. PICK p \in q .. m : Holds(g, g.layout[p], o)
    BY <1>5, <1>8, <1>9, BlockFound
  <2>2. p \in q .. Len(g.layout)
    BY <1>4, <1>10, <2>1
  <2>3. found # {}
    BY <1>12, <2>1, <2>2
  <2>4. \A k \in q .. Len(g.layout) : k \in Nat
    BY <1>10
  <2>5. QED
    BY <1>12, <2>3, <2>4
<1>14. PICK p : p = CHOOSE k \in found : \A l \in found : k <= l
  OBVIOUS
<1>15. p \in 1 .. m /\ Holds(g, g.layout[p], o)
  <2>1. \E k \in found : \A l \in found : k <= l
    BY <1>13, Least
  <2>2. p \in found
    BY <1>14, <2>1, Zenon
  <2>3. p \in 1 .. Len(g.layout) /\ Holds(g, g.layout[p], o)
    BY <1>10, <1>12, <2>2
  <2>4. QED
    BY <1>5, <1>8, <2>3, HoldsInCode
<1>16. PICK s, c, r : /\ s = splitAt(g, g.layout[p], o) /\ c = Newest(s, g, g.layout[p])
                      /\ r = replaceFlowGraphNodeUses(s, g.labels[o], c)
  OBVIOUS
<1>17. /\ phase' = phase /\ Block' = c /\ nodes' = r.nodes /\ layout' = r.layout
       /\ labels' = [x \in DOMAIN labels \ {o} |-> labels[x]]
  <2>1. \E d \in {layout[p]} : \E split \in {splitAt(graph, d, o)} :
          /\ Block' = Newest(split, graph, d)
          /\ \E g2 \in {replaceFlowGraphNodeUses(split, labels[o], Block')} : nodes' = g2.nodes /\ layout' = g2.layout
          /\ labels' = [x \in DOMAIN labels \ {o} |-> labels[x]]
          /\ UNCHANGED phase
    BY <1>7, <1>11, <1>13, <1>14, Zenon DEF fgReplaceBranchTarget
  <2>2. /\ Block' = Newest(splitAt(graph, layout[p], o), graph, layout[p])
        /\ nodes' = replaceFlowGraphNodeUses(splitAt(graph, layout[p], o), labels[o], Block').nodes
        /\ layout' = replaceFlowGraphNodeUses(splitAt(graph, layout[p], o), labels[o], Block').layout
        /\ labels' = [x \in DOMAIN labels \ {o} |-> labels[x]] /\ phase' = phase
    BY <2>1, Zenon
  <2>3. QED
    BY <1>2, <1>3, <1>16, <2>2, Zenon
<1>18. SplitsTo(g, g.layout[p], o, s, c)
  BY <1>16, Zenon DEF SplitsTo
<1>19. PICK k \in Nat : Covered(s, k, rs) /\ StartsAt(s, c, o) /\ s.labels = g.labels
  BY <1>5, <1>8, <1>15, <1>18, SplitCovered
<1>20. PICK h : h = graph'
  OBVIOUS
<1>21. Replaces(s, c, o, r, h)
  <2>1. r = replaceFlowGraphNodeUses(s, s.labels[o], c)
    BY <1>16, <1>19
  <2>2. h = Graph(nodes', layout', labels')
    BY <1>20 DEF graph
  <2>3. h = Graph(r.nodes, r.layout, [x \in DOMAIN s.labels \ {o} |-> s.labels[x]])
    BY <1>3, <1>17, <1>19, <2>2
  <2>4. QED
    BY <2>1, <2>3, Zenon DEF Replaces
<1>22. Linking(h, k, rs, c)
  <2>1. o \in DOMAIN s.labels /\ \A x \in DOMAIN s.labels : o <= x
    BY <1>8, <1>19
  <2>2. QED
    BY <1>19, <1>21, <2>1, UsesReplaced
<1>23. Linking(graph, k, regions, Block)'
  <2>1. h = graph' /\ rs = regions' /\ c = Block'
    BY <1>1, <1>2, <1>17, <1>20
  <2>2. QED
    BY <1>1, <1>22, <2>1, LinkingNext
<1>24. CodeOK'
  BY <1>1, CodeKept DEF FlowInv
<1>25. QED
  BY <1>1, <1>17, <1>23, <1>24 DEF FlowInv, Building

-----------------------------------------------------------------------------
(* All steps together. *)

FInv == IInv /\ FlowInv

(* No variable changes. *)
LEMMA FlowStutters ==
  ASSUME FlowInv, UNCHANGED vars
  PROVE  FlowInv'
<1>1. UNCHANGED <<treeVars, code, blockVars>>
  BY Zenon DEF vars
<1>2. /\ EIT' = EIT /\ regions' = regions /\ phase' = phase /\ CurrentOffset' = CurrentOffset
      /\ CurrentRegion' = CurrentRegion /\ code' = code /\ nodes' = nodes /\ layout' = layout /\ Block' = Block
      /\ labels' = labels /\ graph' = graph
  BY <1>1 DEF treeVars, blockVars, graph
<1>3. CodeOK'
  BY <1>2, CodeKept DEF FlowInv
<1>4. PICK g, rs, b, o : g = graph' /\ rs = regions' /\ b = Block' /\ o = CurrentOffset'
  OBVIOUS
<1>5. ASSUME NEW m \in Nat, Reading(graph, m, regions, Block, CurrentOffset)
      PROVE  Reading(graph, m, regions, Block, CurrentOffset)'
  <2>1. Reading(g, m, rs, b, o)
    BY <1>2, <1>4, <1>5
  <2>2. QED
    BY <1>2, <1>4, <2>1, ReadingNext
<1>6. ASSUME NEW m \in Nat, Linking(graph, m, regions, Block)
      PROVE  Linking(graph, m, regions, Block)'
  <2>1. Linking(g, m, rs, b)
    BY <1>2, <1>4, <1>6
  <2>2. QED
    BY <1>2, <1>4, <2>1, LinkingNext
<1>7. phase' # "done" => \E m \in Nat : Reading(graph, m, regions, Block, CurrentOffset)'
  BY <1>2, <1>5 DEF FlowInv
<1>8. phase' = "done" => \E m \in Nat : Linking(graph, m, regions, Block)'
  BY <1>2, <1>6 DEF FlowInv
<1>9. phase' = "instruction" => RegionIs(nodes[Block], CurrentRegion)'
  BY <1>2 DEF FlowInv, RegionIs
<1>10. QED
  BY <1>2, <1>3, <1>7, <1>8, <1>9 DEF FlowInv

(* A target is replaced while the second pass goes on. *)
LEMMA ReplaceTree ==
  ASSUME IInv, FlowInv, fgReplaceBranchTarget
  PROVE  IInv'
<1>1. FlowInv'
  BY ReplaceFlow
<1>2. phase' # "assert"
  BY <1>1 DEF FlowInv
<1>3. UNCHANGED treeVars
  <2>1. UNCHANGED <<EIT, ClauseList, J, I, regions, search, CurrentOffset, CurrentRegion,
                    NextRegionTransitionOffset, entered, code>>
    BY Zenon DEF fgReplaceBranchTarget
  <2>2. phase' = phase
    BY <1>2, Zenon DEF fgReplaceBranchTarget
  <2>3. QED
    BY <2>1, <2>2 DEF treeVars
<1>4. QED
  BY <1>3, TreeStutters

(* Together with the invariant of the tree, the invariant of the graph, which says what the blocks *)
(* read so far are and where they go, holds of every behaviour of fgBuildBasicBlocksFromBytes. *)
THEOREM FlowInvariance == Spec => []FInv
<1>1. Init => FInv
  <2>1. Init => TreeInit
    BY DEF Init
  <2>2. QED
    BY <2>1, InitInv, FlowInit DEF FInv
<1>2. FInv /\ [Next]_vars => FInv'
  <2> SUFFICES ASSUME IInv, FlowInv, [Next]_vars PROVE IInv' /\ FlowInv'
    BY Zenon DEF FInv
  <2>1. CASE buildTree /\ UNCHANGED <<code, blockVars>>
    <3>1. IInv'
      BY <2>1, SortKeeps, FindKeeps, InsertKeeps DEF buildTree
    <3>2. FlowInv'
      BY <2>1, BuildFlow
    <3>3. QED
      BY <3>1, <3>2
  <2>2. CASE (exitRegion \/ enterRegion) /\ UNCHANGED <<code, blockVars>>
    <3>1. IInv'
      BY <2>2, ExitKeeps, EnterKeeps
    <3>2. FlowInv'
      BY <2>2, SwitchFlow
    <3>3. QED
      BY <3>1, <3>2
  <2>3. CASE switchRegion
    <3>1. stayInRegion
      BY <2>3, Zenon DEF switchRegion
    <3>2. IInv'
      BY <3>1, StayKeeps
    <3>3. FlowInv'
      BY <2>3, EdgeFlow
    <3>4. QED
      BY <3>2, <3>3
  <2>4. CASE instruction
    <3>1. nextInstruction
      BY <2>4, Zenon DEF instruction
    <3>2. IInv'
      BY <3>1, InstructionKeeps
    <3>3. FlowInv'
      BY <2>4, InstructionFlow
    <3>4. QED
      BY <3>2, <3>3
  <2>5. CASE fgReplaceBranchTarget
    BY <2>5, ReplaceFlow, ReplaceTree
  <2>6. CASE UNCHANGED vars
    <3>1. UNCHANGED treeVars
      BY <2>6, Zenon DEF vars
    <3>2. QED
      BY <2>6, <3>1, TreeStutters, FlowStutters
  <2>7. QED
    BY <2>1, <2>2, <2>3, <2>4, <2>5, <2>6, Zenon DEF Next
<1>3. QED
  BY <1>1, <1>2, PTL DEF Spec

-----------------------------------------------------------------------------
(* What the invariant says of the finished graph. *)

(* When no label is left, all blocks are blocks of the code. *)
LEMMA AllBlocks ==
  ASSUME FlowInv, Built
  PROVE  /\ Len(layout) \in Nat /\ Len(layout) >= 1
         /\ nodes[layout[1]].Start = 0 /\ nodes[layout[Len(layout)]].End = CodeSize
         /\ \A k \in 1 .. Len(layout) - 1 : nodes[layout[k]].End = nodes[layout[k + 1]].Start
         /\ \A k \in 1 .. Len(layout) : NodeOK(nodes[layout[k]], Lay(graph), nodes, regions)
         /\ Lay(graph) = {layout[l] : l \in 1 .. Len(layout)}
<1>1. phase = "done" /\ DOMAIN labels = {}
  BY DEF Built
<1>2. PICK g : g = graph
  OBVIOUS
<1>3. g.nodes = nodes /\ g.layout = layout /\ g.labels = labels
  BY <1>2, GraphFields DEF graph
<1>4. PICK m \in Nat : Linking(g, m, regions, Block)
  BY <1>1, <1>2 DEF FlowInv
<1>5. GraphOK(g, m) /\ Done(g, regions, 0) /\ g.nodes[g.layout[m]].End = CodeSize
  BY <1>4 DEF Linking, Covered
<1>6. m \in 1 .. Len(g.layout) /\ Len(g.layout) \in Nat /\ 0 \notin Lay(g)
  BY <1>5, LabelFacts, ShapeFacts DEF GraphOK
<1>7. Temps(g) = {}
  BY <1>1, <1>3 DEF Temps
<1>8. m = Len(g.layout)
  <2>1. \A k \in m + 1 .. Len(g.layout) : FALSE
    BY <1>5, <1>7 DEF GraphOK, LabelsOK
  <2>2. QED
    BY <1>6, <2>1
<1>9. /\ g.nodes[g.layout[1]].Start = 0
      /\ \A k \in 1 .. m - 1 : g.nodes[g.layout[k]].End = g.nodes[g.layout[k + 1]].Start
  BY <1>5 DEF GraphOK, Tiled
<1>10. \A x \in Lay(g) : NodeOK(g.nodes[x], Lay(g), g.nodes, regions)
  BY <1>5, <1>6, <1>7 DEF Done
<1>11. \A k \in 1 .. Len(g.layout) : NodeOK(g.nodes[g.layout[k]], Lay(g), g.nodes, regions)
  BY <1>10 DEF Lay
<1>12. Len(layout) \in Nat /\ Len(layout) >= 1 /\ m = Len(layout)
  BY <1>3, <1>6, <1>8
<1>13. Lay(g) = {layout[l] : l \in 1 .. Len(layout)}
  BY <1>3 DEF Lay
<1>14. QED
  BY <1>2, <1>3, <1>5, <1>9, <1>11, <1>12, <1>13

(* The graph is the code's. *)
LEMMA FlowIs == FlowInv => FlowAsInIL
<1> SUFFICES ASSUME FlowInv PROVE FlowAsInIL
  OBVIOUS
<1>1. phase # "assert"
  BY DEF FlowInv
<1>2. ASSUME Built, NEW k \in 1 .. Len(layout), NEW b, b = nodes[layout[k]], NEW last, last = code[b.End]
      PROVE  /\ b.Start < b.End
             /\ \A o \in b.Start .. b.End - 2 : code[o + 1].Op = "other"
             /\ \A n \in 1 .. Len(b.term.succ) : b.term.succ[n] \in {layout[l] : l \in 1 .. Len(layout)}
             /\ Starts(b.term.succ) =
                  CASE last.Op = "other" -> <<b.End>>
                    [] last.Op = "brtrue" -> last.targets \o <<b.End>>
                    [] last.Op = "switch" -> <<b.End>> \o last.targets
                    [] OTHER -> last.targets
  <2>1. NodeOK(nodes[layout[k]], Lay(graph), nodes, regions) /\ Lay(graph) = {layout[l] : l \in 1 .. Len(layout)}
    BY <1>2, AllBlocks
  <2>2. NodeRange(b, regions) /\ NodeFlow(b, Lay(graph), nodes)
    BY <1>2, <2>1 DEF NodeOK
  <2>3. Starts(b.term.succ) = GoesTo(last, b.End)
    BY <1>2, <2>2 DEF NodeFlow, Starts, StartsIn
  <2>4. b.Start < b.End /\ \A o \in b.Start .. b.End - 2 : code[o + 1].Op = "other"
    BY <2>2 DEF NodeRange
  <2>5. \A n \in 1 .. Len(b.term.succ) : b.term.succ[n] \in {layout[l] : l \in 1 .. Len(layout)}
    BY <2>1, <2>2 DEF NodeFlow
  <2>6. QED
    BY <2>3, <2>4, <2>5, Zenon DEF GoesTo
<1>3. Built => /\ nodes[layout[1]].Start = 0 /\ nodes[layout[Len(layout)]].End = CodeSize
               /\ \A k \in 1 .. Len(layout) - 1 : nodes[layout[k]].End = nodes[layout[k + 1]].Start
  BY AllBlocks
<1>4. QED
  BY <1>1, <1>2, <1>3, Zenon DEF FlowAsInIL

(* A block is in the region of its instructions. *)
LEMMA RegionsOfBlocks == FInv => BlocksInOneRegion
<1> SUFFICES ASSUME FInv, Built, NEW k \in 1 .. Len(layout), NEW o \in nodes[layout[k]].Start .. nodes[layout[k]].End - 1
             PROVE  \/ nodes[layout[k]].Region = Innermost(Around(o))
                    \/ nodes[layout[k]].Region = 0 /\ Innermost(Around(o)) = 1
  BY Zenon DEF BlocksInOneRegion
<1>1. FlowInv /\ TreeOK(regions)
  BY DEF FInv, IInv, TreeInv
<1>2. NodeOK(nodes[layout[k]], Lay(graph), nodes, regions)
  BY <1>1, AllBlocks
<1>3. RegionFor(regions, nodes[layout[k]].Region, o)
  BY <1>2 DEF NodeOK, NodeRange
<1>4. ASSUME NEW r, InnerAt(regions, r, o) PROVE Innermost(Around(o)) = r
  <2>1. r \in Ids(regions) /\ \A s \in Ids(regions) : Around2(regions, s, o) <=> In2(regions, r, s)
    BY <1>4 DEF InnerAt
  <2>2. PICK A : A = Around(o)
    OBVIOUS
  <2>3. \A s : s \in A <=> s \in Ids(regions) /\ Around2(regions, s, o)
    BY <2>2 DEF Around, Regions, Ids, Contains, Around2
  <2>4. In2(regions, r, r)
    BY <1>1, <2>1, In2Facts
  <2>5. r \in A /\ (\A s \in A : s \in Ids(regions)) /\ \A s \in A : In2(regions, r, s)
    BY <2>1, <2>3, <2>4
  <2>6. Innermost(A) = r
    BY <1>1, <2>5, InnermostIs
  <2>7. QED
    BY <2>2, <2>6
<1>5. QED
  BY <1>3, <1>4 DEF RegionFor

(* The blocks that fgBuildBasicBlocksFromBytes makes, fgReplaceBranchTarget included, are the code: *)
(* they follow one another, a branch ends its block and goes where the IL says, no temporary block *)
(* is left, and every target is found in some block. *)
THEOREM FlowAsInILHolds == Spec => []FlowAsInIL
<1>1. FInv => FlowAsInIL
  BY FlowIs DEF FInv
<1>2. QED
  BY <1>1, FlowInvariance, PTL

(* The region that fgBuildPhase1 gives a block is the innermost one around each of its *)
(* instructions; only after a ret or jmp outside all clauses may a block have none. *)
THEOREM BlocksInOneRegionHolds == Spec => []BlocksInOneRegion
  BY RegionsOfBlocks, FlowInvariance, PTL
=============================================================================
