----------------------------- MODULE RegionTree -----------------------------
(***************************************************************************)
(* The tree of exception regions that the reader builds from a method's EH *)
(* clauses (rgnCreateRegionTree, lib/Reader/reader.cpp), and the first     *)
(* pass over the code, which follows the tree from offset to offset        *)
(* (fgBuildPhase1, fgSwitchRegion) and makes the EH pads of a try region   *)
(* when it comes to it (fgEnterRegion, lib/Reader/readerir.cpp).           *)
(*                                                                         *)
(* Recursive functions run one call per step.  An instruction has length   *)
(* one.  Regions are numbered in the order they are made; 1 is the root    *)
(* and 0 the null pointer.  A handler is a child of its try region in the  *)
(* tree but lies outside it in the code.                                   *)
(***************************************************************************)
EXTENDS Integers, Sequences, FiniteSets

CONSTANTS
  CodeSize,     \* MethodInfo->ILCodeSize
  MaxClauses,   \* bound on MethodInfo->EHcount
  ClauseKinds,  \* subset of {"Catch", "Filter", "Finally", "Fault"}
  ThreeKinds    \* the kinds that three clauses may have together

ASSUME SizeAssumption == CodeSize \in Nat /\ MaxClauses \in Nat \ {0}
ASSUME KindsAssumption == ClauseKinds \subseteq {"Catch", "Filter", "Finally", "Fault"}

VARIABLES
  EIT,          \* the clauses as the runtime gives them
  ClauseList,   \* indices into EIT, sorted inner clauses first
  J,            \* ClauseList is sorted before this position
  I,            \* clauses of ClauseList not yet in the tree
  regions,      \* the regions made so far
  search,       \* the region rgnFindLowestEnclosingRegion has come to
  phase,        \* where in all this the reader is
  CurrentOffset, CurrentRegion, NextRegionTransitionOffset,
  entered       \* history: the try regions entered, in order

treeVars == <<EIT, ClauseList, J, I, regions, search, phase, CurrentOffset,
              CurrentRegion, NextRegionTransitionOffset, entered>>

-----------------------------------------------------------------------------
(* The clauses. *)
Try(c) == <<c.TryOffset, c.TryOffset + c.TryLength>>
Handler(c) == <<c.HandlerOffset, c.HandlerOffset + c.HandlerLength>>
Filter(c) == <<c.FilterOffset, c.HandlerOffset>>
Handlers(c) == {Handler(c)} \union (IF c.Kind = "Filter" THEN {Filter(c)} ELSE {})
Ranges(c) == {Try(c)} \union Handlers(c)

Inside(x, y) == y[1] <= x[1] /\ x[2] <= y[2]
Disjoint(x, y) == x[2] <= y[1] \/ y[2] <= x[1]

\* Rule 3 of the comment above rgnCreateRegionTree: a try is apart from its handlers.
Clauses ==
  {c \in [Kind : ClauseKinds, TryOffset : 0 .. CodeSize - 1, TryLength : 1 .. CodeSize,
          HandlerOffset : 0 .. CodeSize - 1, HandlerLength : 1 .. CodeSize,
          FilterOffset : 0 .. CodeSize - 1] :
     /\ \A x \in Ranges(c) : x[1] < x[2] /\ x[2] <= CodeSize
     /\ \A x \in Handlers(c) : Disjoint(x, Try(c))
     /\ c.Kind # "Filter" => c.FilterOffset = 0}

\* Rules 2 and 4: clauses are apart, or one lies wholly in one range of the other;
\* clauses of one try have handlers that are apart, and catch.
Nest(c, d) ==
  IF Try(c) = Try(d)
  THEN /\ {c.Kind, d.Kind} \subseteq {"Catch", "Filter"}
       /\ \A x \in Handlers(c), y \in Handlers(d) : Disjoint(x, y)
  ELSE \A x \in Ranges(c), y \in Ranges(d) :
         \/ Disjoint(x, y)
         \/ x # y /\ \A z \in Ranges(c) : Inside(z, y)
         \/ x # y /\ \A z \in Ranges(d) : Inside(z, x)

\* Rule 1 asks for inner clauses first.  The reader sorts them, but for a try in a
\* filter, where it relies on the rule.
InFilterOf(c, d) == d.Kind = "Filter" /\ Inside(Try(c), Filter(d))

Extends(eit, c) == \A k \in 1 .. Len(eit) : Nest(c, eit[k]) /\ ~InFilterOf(c, eit[k])

\* The tables of clauses, one clause after the other.
ThreeClauses == {c \in Clauses : c.Kind \in ThreeKinds}
Allowed(eit) ==
  IF Len(eit) < 2 THEN Clauses
  ELSE IF \A k \in 1 .. Len(eit) : eit[k] \in ThreeClauses THEN ThreeClauses ELSE {}
Extensions(eits) ==
  UNION {{Append(eit, c) : c \in {x \in Allowed(eit) : Extends(eit, x)}} : eit \in eits}
Tables(n) ==
  LET upTo[m \in 0 .. n] == IF m = 0 THEN {<<>>} ELSE Extensions(upTo[m - 1])
  IN  upTo[n]

-----------------------------------------------------------------------------
(* Regions and their lists. *)
Contains(r, offset) == regions[r].Start <= offset /\ offset < regions[r].End
Children(r) == regions[r].Children
ChildSet(r) == {Children(r)[k] : k \in 1 .. Len(Children(r))}
IsTry(r) == regions[r].Kind = "Try"

rgnIsOutsideParent(r) == regions[r].Kind \notin {"Root", "Try"}
rgnGetEnclosingAncestor(r) ==
  LET outer == regions[r].Parent
  IN  IF rgnIsOutsideParent(r) THEN regions[outer].Parent ELSE outer

\* The first element of a list of regions that is in a set, or 0
FirstOf(list, S) ==
  LET hits == {k \in 1 .. Len(list) : list[k] \in S}
  IN  IF hits = {} THEN 0 ELSE list[CHOOSE k \in hits : \A l \in hits : k <= l]

\* What a loop over the children of r finds first: a child in Hit, or, for a try
\* among them that is not in Hit, a child of it in Hit.
FirstInFamily(r, Hit) ==
  LET found(c) == IF c \in Hit THEN c
                  ELSE IF IsTry(c) THEN FirstOf(Children(c), Hit) ELSE 0
      c == FirstOf(Children(r), {x \in ChildSet(r) : found(x) # 0})
  IN  IF c = 0 THEN 0 ELSE found(c)

(* getInnerEnclosingRegion *)
getInnerEnclosingRegion(r, offset) ==
  FirstInFamily(r, {x \in 1 .. Len(regions) : Contains(x, offset)})

\* rgnMakeRegion and rgnSetStart/EndMSILOffset, before it is pushed on its parent
newRegion(kind, parent, range) ==
  [Kind |-> kind, Parent |-> parent, Start |-> range[1], End |-> range[2],
   Children |-> <<>>, EntryRegion |-> 0, HandlerRegion |-> 0, HandlerEHPad |-> 0,
   Pad |-> 0, ParentPad |-> 0]

\* rgnPushRegionChild: the last region made becomes the first child
push(rs, new) ==
  Append([rs EXCEPT ![new.Parent].Children = <<Len(rs) + 1>> \o @], new)

-----------------------------------------------------------------------------
TreeInit ==
  /\ \E n \in 1 .. MaxClauses : EIT \in Tables(n)
  /\ ClauseList = [k \in 1 .. Len(EIT) |-> k]
  /\ J = 2
  /\ I = Len(EIT)
  /\ regions = <<newRegion("Root", 0, <<0, CodeSize>>)>>
  /\ search = 1
  /\ phase = "sort"
  /\ CurrentOffset = 0 /\ CurrentRegion = 1 /\ NextRegionTransitionOffset = 0
  /\ entered = <<>>

clauseXInsideY(X, Y) ==
  \/ Inside(Try(X), Try(Y)) /\ X.TryLength # Y.TryLength
  \/ Inside(Try(X), Handler(Y)) /\ X.TryLength # Y.HandlerLength

(* rgnCreateRegionTree: one clause is inserted before the first it is inside of. *)
sortClause ==
  /\ phase = "sort"
  /\ IF J > Len(EIT)
     THEN phase' = "find" /\ UNCHANGED <<ClauseList, J>>
     ELSE LET key == ClauseList[J]
              stop == {k \in 1 .. J - 1 : clauseXInsideY(EIT[key], EIT[ClauseList[k]])}
              at == IF stop = {} THEN J ELSE CHOOSE k \in stop : \A l \in stop : k <= l
          IN  /\ ClauseList' = SubSeq(ClauseList, 1, at - 1) \o <<key>>
                               \o SubSeq(ClauseList, at, J - 1)
                               \o SubSeq(ClauseList, J + 1, Len(EIT))
              /\ J' = J + 1
              /\ UNCHANGED phase
  /\ UNCHANGED <<EIT, I, regions, search, CurrentOffset, CurrentRegion,
                 NextRegionTransitionOffset, entered>>

Clause == EIT[ClauseList[I]]

(* rgnFindLowestEnclosingRegion, one call: a try child that encloses the clause's
   try, or else the last try child with a handler that does, and its first such. *)
rgnFindLowestEnclosingRegion ==
  LET encloses == {r \in 2 .. Len(regions) :
                     Inside(Try(Clause), <<regions[r].Start, regions[r].End>>)}
      tries == {r \in ChildSet(search) : IsTry(r)}
      handler(t) == FirstOf(Children(t), {r \in encloses : ~IsTry(r)})
      last == {k \in 1 .. Len(Children(search)) :
                 Children(search)[k] \in tries /\ handler(Children(search)[k]) # 0}
      next == IF tries \intersect encloses # {}
              THEN FirstOf(Children(search), tries \intersect encloses)
              ELSE IF last = {} THEN 0
              ELSE handler(Children(search)[CHOOSE k \in last : \A l \in last : l <= k])
  IN  /\ phase = "find"
      /\ IF next = 0 THEN phase' = "insert" /\ UNCHANGED search
                     ELSE search' = next /\ UNCHANGED phase
      /\ UNCHANGED <<EIT, ClauseList, J, I, regions, CurrentOffset, CurrentRegion,
                     NextRegionTransitionOffset, entered>>

(* The try region of the clause: the one found, if it has the clause's range.
   Mistake: a new one for every clause. *)
tryRegion_AlwaysNew ==
  [rs |-> [push(regions, newRegion("Try", search, Try(Clause)))
             EXCEPT ![Len(regions) + 1].EntryRegion = Len(regions) + 1],
   try |-> Len(regions) + 1]
tryRegion ==
  IF IsTry(search) /\ <<regions[search].Start, regions[search].End>> = Try(Clause)
  THEN [rs |-> regions, try |-> search]
  ELSE [rs |-> [push(regions, newRegion("Try", search, Try(Clause)))
                  EXCEPT ![Len(regions) + 1].EntryRegion = Len(regions) + 1],
        try |-> Len(regions) + 1]

HandlerKind ==
  CASE Clause.Kind = "Filter" -> "MExcept" [] Clause.Kind = "Catch" -> "MCatch"
    [] OTHER -> Clause.Kind

(* rgnCreateRegionTree: the regions of one clause, and the try's entry region *)
insertClause ==
  LET t == tryRegion.try
      withHandler == push(tryRegion.rs, newRegion(HandlerKind, t, Handler(Clause)))
      h == Len(withHandler)
      filter == [newRegion("Filter", t, Filter(Clause)) EXCEPT !.HandlerRegion = h]
      made == IF Clause.Kind = "Filter" THEN push(withHandler, filter) ELSE withHandler
  IN  /\ phase = "insert"
      /\ \E rs \in {made} :
           regions' = IF rs[Len(rs)].Start < rs[rs[t].EntryRegion].Start
                      THEN [rs EXCEPT ![t].EntryRegion = Len(rs)] ELSE rs
      /\ I' = I - 1
      /\ search' = 1
      /\ phase' = IF I' = 0 THEN "switch" ELSE "find"
      /\ UNCHANGED <<EIT, ClauseList, J, CurrentOffset, CurrentRegion,
                     NextRegionTransitionOffset, entered>>

-----------------------------------------------------------------------------
(* fgEnterRegion and createEHPad: entering a try makes the pads of its handlers.
   An exception in a handler unwinds to where one around the try would; the parent
   pad is that of the innermost handler around the try.  A pad is named by the
   handler it is made for, and what a try unwinds to by the try itself. *)
EnclosingPad(t) ==
  LET up[n \in 0 .. Len(regions)] ==
        IF n = 0 THEN t ELSE IF IsTry(up[n - 1]) THEN regions[up[n - 1]].Parent ELSE up[n - 1]
      h == up[Len(regions)]
  IN  IF regions[h].Kind = "Filter" THEN regions[regions[h].HandlerRegion].Pad
      ELSE regions[h].Pad

(* Handlers unwind to where the try around their own does. *)
unwindsTo(t) == regions[regions[t].Parent].HandlerEHPad

fgEnterRegion(t) ==
  LET padded(r, pad) == [regions[r] EXCEPT !.HandlerEHPad = unwindsTo(t), !.Pad = pad,
                                           !.ParentPad = EnclosingPad(t)]
      filterOf(r) == CHOOSE f \in ChildSet(t) : regions[f].HandlerRegion = r
  IN  [r \in 1 .. Len(regions) |->
         IF r = t THEN [regions[t] EXCEPT !.HandlerEHPad = t]
         ELSE IF r \notin ChildSet(t) \/ IsTry(r) THEN regions[r]
         ELSE IF regions[r].Kind = "MExcept" THEN padded(r, filterOf(r))
         ELSE padded(r, r)]

(* Mistake: a try is entered at its own start even if a handler of it came first. *)
EntersAt_Always(t, r) == t = r \/ regions[t].EntryRegion = r

\* Is t entered when the reader comes to region r of it?
EntersAt(t, r) == regions[t].EntryRegion = r

(* Mistake: a region is left one instruction late. *)
exitRegion_Late ==
  /\ phase = "switch"
  /\ CurrentOffset > regions[CurrentRegion].End
  /\ CurrentRegion' = rgnGetEnclosingAncestor(CurrentRegion)
  /\ UNCHANGED <<EIT, ClauseList, J, I, regions, search, phase, CurrentOffset,
                 NextRegionTransitionOffset, entered>>

(* fgSwitchRegion, one call: leave a region at its end for the one around it; enter
   a child, or a handler of a try child, that the offset is in; or stay, and look
   for the next offset to stop at. *)
exitRegion ==
  /\ phase = "switch"
  /\ CurrentOffset >= regions[CurrentRegion].End
  /\ CurrentRegion' = rgnGetEnclosingAncestor(CurrentRegion)
  /\ UNCHANGED <<EIT, ClauseList, J, I, regions, search, phase, CurrentOffset,
                 NextRegionTransitionOffset, entered>>

NextRegion == getInnerEnclosingRegion(CurrentRegion, CurrentOffset)

enterRegion ==
  /\ phase = "switch"
  /\ CurrentOffset < regions[CurrentRegion].End
  /\ NextRegion # 0
  /\ CurrentRegion' = NextRegion
  /\ \E t \in {IF CurrentRegion' \in ChildSet(CurrentRegion) THEN CurrentRegion'
               ELSE regions[CurrentRegion'].Parent} :
       IF EntersAt(t, CurrentRegion')
       THEN regions' = fgEnterRegion(t) /\ entered' = Append(entered, t)
       ELSE UNCHANGED <<regions, entered>>
  /\ UNCHANGED <<EIT, ClauseList, J, I, search, phase, CurrentOffset,
                 NextRegionTransitionOffset>>

(* Mistake: only the children of the region are looked at. *)
Ahead_Children ==
  {regions[r].Start : r \in {x \in ChildSet(CurrentRegion) : CurrentOffset < regions[x].Start}}
Ahead ==
  LET family == ChildSet(CurrentRegion)
                \union UNION {ChildSet(c) : c \in {x \in ChildSet(CurrentRegion) : IsTry(x)}}
  IN  {regions[r].Start : r \in {x \in family : CurrentOffset < regions[x].Start}}

stayInRegion ==
  LET stops == {regions[CurrentRegion].End} \union Ahead
  IN  /\ phase = "switch"
      /\ CurrentOffset < regions[CurrentRegion].End
      /\ NextRegion = 0
      /\ NextRegionTransitionOffset' = CHOOSE o \in stops : \A p \in stops : o <= p
      /\ phase' = "instruction"
      /\ UNCHANGED <<EIT, ClauseList, J, I, regions, search, CurrentOffset,
                     CurrentRegion, entered>>

(* fgBuildPhase1: past one instruction, and on to the next or to a region's edge *)
nextInstruction ==
  /\ phase = "instruction"
  /\ CurrentOffset' = CurrentOffset + 1
  /\ phase' = IF CurrentOffset' = CodeSize THEN "done"
              ELSE IF CurrentOffset' = NextRegionTransitionOffset THEN "switch"
              ELSE "instruction"
  /\ UNCHANGED <<EIT, ClauseList, J, I, regions, search, CurrentRegion,
                 NextRegionTransitionOffset, entered>>

buildTree == sortClause \/ rgnFindLowestEnclosingRegion \/ insertClause
fgSwitchRegion == exitRegion \/ enterRegion \/ stayInRegion

TreeNext == buildTree \/ fgSwitchRegion \/ nextInstruction
TreeSpec == TreeInit /\ [][TreeNext]_treeVars /\ WF_treeVars(TreeNext)

-----------------------------------------------------------------------------
(* The ranges of a method, for the programs of the modules that extend this one. *)
AllRanges == UNION {Ranges(EIT[k]) : k \in 1 .. Len(EIT)}
CatchRanges == {Handler(EIT[k]) : k \in {x \in 1 .. Len(EIT) : EIT[x].Kind = "Catch"}}
FinallyRanges == {Handler(EIT[k]) : k \in {x \in 1 .. Len(EIT) : EIT[x].Kind = "Finally"}}
In(o, x) == x[1] <= o /\ o < x[2]

\* A leave may go from o to t: it exits no finally, and enters regions only where
\* they are tries that start at t.
LegalTarget(o, t) ==
  \A x \in AllRanges :
    /\ In(o, x) /\ ~In(t, x) => x \notin FinallyRanges
    /\ In(t, x) /\ ~In(o, x) => x \notin CatchRanges \union FinallyRanges /\ t = x[1]

-----------------------------------------------------------------------------
Regions == 1 .. Len(regions)
Around(offset) == {r \in Regions : Contains(r, offset)}
Within(r, s) == Inside(<<regions[r].Start, regions[r].End>>, <<regions[s].Start, regions[s].End>>)
Innermost(S) == CHOOSE r \in S : \A s \in S : Within(r, s)

\* The handlers of a try are tried in the order of the clauses: the list of the
\* children has them in that order.
HandlersInOrder(t) ==
  \A c, d \in 1 .. Len(EIT) : c < d /\ Try(EIT[c]) = Try(EIT[d])
                                    /\ <<regions[t].Start, regions[t].End>> = Try(EIT[c]) =>
    \A k, l \in 1 .. Len(Children(t)) :
      regions[Children(t)[k]].Start = EIT[c].HandlerOffset
      /\ regions[Children(t)[l]].Start = EIT[d].HandlerOffset => k < l

(* The tree says what the ranges and the clauses say, in whatever order the runtime
   gives the clauses: the region around a region, as the reader climbs to it, is the
   smallest that encloses it, one try has one region, and its handlers are in order. *)
TreeFollowsRanges ==
  phase \notin {"sort", "find", "insert"} =>
    /\ \A r \in 2 .. Len(regions) :
         rgnGetEnclosingAncestor(r) = Innermost({s \in Regions \ {r} : Within(r, s)})
    /\ \A r, s \in Regions : IsTry(r) /\ IsTry(s) /\ Within(r, s) /\ Within(s, r) => r = s
    /\ \A t \in Regions : IsTry(t) => HandlersInOrder(t)

\* getInnerEnclosingRegion from the root down, as getInnermostFaultOrFinallyRegion
\* and updateLeaveOffset walk
Walk(offset) ==
  LET down[n \in 0 .. Len(regions)] ==
        IF n = 0 THEN 1
        ELSE LET inner == getInnerEnclosingRegion(down[n - 1], offset)
             IN  IF inner = 0 THEN down[n - 1] ELSE inner
  IN  down[Len(regions)]

(* fgGetRegionFromMSILOffset: the smallest region around an offset *)
fgGetRegionFromMSILOffset(offset) ==
  LET size(r) == regions[r].End - regions[r].Start
  IN  CHOOSE r \in Around(offset) : \A s \in Around(offset) \ {r} :
        size(r) < size(s) \/ (size(r) = size(s) /\ r < s)

(* Three ways to find the region of an instruction agree: following the code from
   offset to offset, walking down the tree, and looking for the smallest range. *)
RegionsAgree ==
  phase = "instruction" =>
    /\ CurrentRegion = Innermost(Around(CurrentOffset))
    /\ CurrentRegion = Walk(CurrentOffset)
    /\ CurrentRegion = fgGetRegionFromMSILOffset(CurrentOffset)

(* An exception at an instruction unwinds to the innermost try around it, and the
   pad it unwinds to has as its parent the pad of the innermost handler around the
   try, also where a handler lies before its try.  No try is entered twice. *)
Tries(offset) == {r \in Around(offset) : IsTry(r)}
HandlersAround(r) == {h \in Regions : rgnIsOutsideParent(h) /\ Within(r, h)}
PadOf(h) == IF regions[h].Kind = "MExcept"
            THEN CHOOSE f \in Regions : regions[f].HandlerRegion = h ELSE h
UnwindsInnermost ==
  phase = "instruction" =>
    /\ regions[CurrentRegion].HandlerEHPad =
         (IF Tries(CurrentOffset) = {} THEN 0 ELSE Innermost(Tries(CurrentOffset)))
    /\ \A t \in Tries(CurrentOffset) : \A h \in ChildSet(t) : ~IsTry(h) =>
         regions[h].ParentPad =
           (IF HandlersAround(t) = {} THEN 0 ELSE PadOf(Innermost(HandlersAround(t))))
    /\ \A k, l \in 1 .. Len(entered) : entered[k] = entered[l] => k = l

(* The first pass ends: fgSwitchRegion neither climbs nor descends for ever, and
   no transition offset is passed over. *)
ScanEnds == <>(phase = "done" /\ \A r \in Regions : IsTry(r) => \E k \in 1 .. Len(entered) : entered[k] = r)
=============================================================================
