-------------------------- MODULE FinallyDispatch ---------------------------
(***************************************************************************)
(* What becomes of leave and endfinally instructions: the selector         *)
(* variables, switches and stores the first pass makes (updateLeaveOffset, *)
(* fgMakeEndFinally, lib/Reader/readerir.cpp) on the tree of RegionTree,   *)
(* and the execution of the code that results, with exceptions.            *)
(*                                                                         *)
(* The program is chosen at the start: clauses, leaves with their targets, *)
(* endfinallys.  A region falls through into none: its last instruction    *)
(* leaves it; a finally ends in an endfinally (one that ends in a throw    *)
(* has no cleanupret, and cloneFinallyBody asserts that there is one) and  *)
(* may have others, which a branch may go around.  Any other               *)
(* instruction may throw, so every way through the code is executed.       *)
(* Handlers are executed, as with the option ExecuteHandlers; filters and  *)
(* faults are left out, since an endfault becomes `unreachable'.           *)
(***************************************************************************)
EXTENDS RegionTree

VARIABLES
  Leaves,         \* the leave instructions: offset -> target
  EndFinallys,    \* the offsets of the endfinally instructions
  cases,          \* finally region -> the cases of its EndFinallySwitch
  placed,         \* the finally regions whose switch is in a block
  stores,         \* offset of a leave -> the selector stores before its branch
  branch,         \* offset of a leave -> its immediate target
  mode,           \* of the execution: "not started", "run", "unwind", or how it ended
  pc,             \* offset, or the try region whose pad is unwound to
  selector,       \* finally region -> the value of its selector variable
  copy,           \* finally region -> the copy of its body that is executed
  pads,           \* the catch pads entered and not returned from
  pending         \* history: finally region -> where execution has to go after it

passVars == <<cases, placed, stores, branch>>
execVars == <<mode, pc, selector, copy, pads, pending>>
program == <<Leaves, EndFinallys>>
vars == <<treeVars, program, passVars, execVars>>

Ids == 1 .. 1 + 2 * MaxClauses
Exn == -1         \* the continuation of a finally entered by an exception
Unreachable == -2 \* the block UnreachableContinuationBlock

-----------------------------------------------------------------------------
(* The programs. *)
RangeAt(o) ==
  LET around == {x \in AllRanges : In(o, x)} \union {<<0, CodeSize>>}
  IN  CHOOSE x \in around : \A y \in around : Inside(x, y)
LastOf(o) == RangeAt(o)[2] = o + 1 /\ RangeAt(o) \in AllRanges
InFinally(o) == RangeAt(o) \in FinallyRanges
MayLeave(o) == RangeAt(o) \in AllRanges \ FinallyRanges

\* No instruction falls through into a handler, and no other region starts with one.
NoFallIntoHandler ==
  \A x \in CatchRanges \union FinallyRanges :
    /\ x[1] > 0 /\ RangeAt(x[1] - 1)[2] = x[1]
    /\ \A y \in AllRanges : Inside(x, y) /\ x # y => y[1] < x[1]

\* Rule 1: inner clauses first, as compilers write them; others in code order.
InnerFirst ==
  \A k, l \in 1 .. Len(EIT) : k < l =>
    /\ ~clauseXInsideY(EIT[l], EIT[k])
    /\ ~clauseXInsideY(EIT[k], EIT[l]) => EIT[k].HandlerOffset < EIT[l].HandlerOffset

Init ==
  /\ TreeInit
  /\ InnerFirst
  /\ NoFallIntoHandler
  /\ RangeAt(CodeSize - 1) = <<0, CodeSize>>
  /\ \E at \in SUBSET {o \in 0 .. CodeSize - 1 : MayLeave(o)} :
       /\ \A o \in 0 .. CodeSize - 1 : MayLeave(o) /\ LastOf(o) => o \in at
       /\ Leaves \in [at -> 0 .. CodeSize - 1]
       /\ \A o \in at : LegalTarget(o, Leaves[o])
  /\ \E early \in SUBSET {o \in 0 .. CodeSize - 1 : InFinally(o) /\ ~LastOf(o)} :
       EndFinallys = early \union {o \in 0 .. CodeSize - 1 : InFinally(o) /\ LastOf(o)}
  /\ cases = [r \in Ids |-> <<>>]
  /\ placed = {}
  /\ stores = [o \in DOMAIN Leaves |-> <<>>]
  /\ branch = Leaves
  /\ mode = "not started" /\ pc = 0
  /\ selector = [r \in Ids |-> Unreachable]
  /\ copy = [r \in Ids |-> "none"]
  /\ pads = {}
  /\ pending = [r \in Ids |-> <<>>]

-----------------------------------------------------------------------------
(* updateLeaveOffset.  path is the chain of regions from the root to the leave. *)
path(o) ==
  LET down[n \in 1 .. Len(regions)] ==
        IF n = 1 THEN <<1>>
        ELSE LET p == down[n - 1]
                 inner == getInnerEnclosingRegion(p[Len(p)], o)
             IN  IF inner = 0 THEN p ELSE Append(p, inner)
  IN  down[Len(regions)]

(* getFinallyRegion: the first child that is a finally, or 0 *)
getFinallyRegion(t) == FirstOf(Children(t), {r \in Regions : regions[r].Kind = "Finally"})

\* The finally a leave to target runs when it exits r, or 0
FinallyOf(r, target) ==
  IF IsTry(r) /\ ~Contains(r, target) THEN getFinallyRegion(r) ELSE 0

\* The targets the regions of the path are processed with, from the outermost in;
\* the last is the immediate target of the leave.
targets(p, target) ==
  LET t[k \in 1 .. Len(p) + 1] ==
        IF k = 1 THEN target
        ELSE LET f == FinallyOf(p[k - 1], t[k - 1])
             IN  IF f = 0 THEN t[k - 1] ELSE regions[f].Start
  IN  t

(* SwitchInst::findCaseDest *)
findCaseDest(cs, dest) == {c.value : c \in {cs[k] : k \in {x \in 1 .. Len(cs) : cs[x].dest = dest}}}

(* A selector value for dest: 0 is that of the exception. *)
newCase(cs, dest) == [value |-> Len(cs) + 1, dest |-> dest]

withCase(cs, dest) == IF findCaseDest(cs, dest) = {} THEN Append(cs, newCase(cs, dest)) ELSE cs

(* Mistake: the switch of every finally goes straight to the leave's own target. *)
contFor_Final(p, target, k) == target
contFor(p, target, k) == targets(p, target)[k]

leaveInstruction(o) ==
  LET p == path(o)
      t == targets(p, Leaves[o])
      ks == {k \in 1 .. Len(p) : FinallyOf(p[k], t[k]) # 0}
      after == [r \in Ids |->
                  IF \E k \in ks : FinallyOf(p[k], t[k]) = r
                  THEN withCase(cases[r], contFor(p, Leaves[o], CHOOSE k \in ks : FinallyOf(p[k], t[k]) = r))
                  ELSE cases[r]]
      storeOf(k) == LET f == FinallyOf(p[k], t[k])
                    IN  [finally |-> f,
                         value |-> CHOOSE v \in findCaseDest(after[f], contFor(p, Leaves[o], k)) : TRUE]
      inward[n \in 0 .. Len(p)] ==
        IF n = 0 THEN <<>>
        ELSE IF n \in ks THEN <<storeOf(n)>> \o inward[n - 1] ELSE inward[n - 1]
  IN  /\ cases' = after
      /\ stores' = [stores EXCEPT ![o] = inward[Len(p)]]
      /\ branch' = [branch EXCEPT ![o] = t[Len(p) + 1]]
      /\ UNCHANGED placed

(* getInnermostFaultOrFinallyRegion *)
FinallyAt(o) ==
  LET p == path(o)
      ks == {k \in 1 .. Len(p) : regions[p[k]].Kind = "Finally"}
  IN  p[CHOOSE k \in ks : \A l \in ks : l <= k]

(* fgMakeEndFinally: the first endfinally of a finally places its switch, with a
   case 0 for the exceptional continuation and the store of 0 in the pad; the
   others branch to it. *)
fgMakeEndFinally(o) ==
  LET f == FinallyAt(o)
  IN  /\ placed' = placed \union {f}
      /\ cases' = IF f \in placed THEN cases
                  ELSE [cases EXCEPT ![f] = Append(@, [value |-> 0, dest |-> Exn])]
      /\ UNCHANGED <<stores, branch>>

instruction ==
  /\ nextInstruction
  /\ IF CurrentOffset \in DOMAIN Leaves THEN leaveInstruction(CurrentOffset)
     ELSE IF CurrentOffset \in EndFinallys THEN fgMakeEndFinally(CurrentOffset)
     ELSE UNCHANGED passVars
  /\ UNCHANGED <<program, execVars>>

readRegions == (buildTree \/ fgSwitchRegion) /\ UNCHANGED <<program, passVars, execVars>>

-----------------------------------------------------------------------------
(* The execution.  External: the semantics of the IR, as LLVM and the runtime
   give it: switch, catchpad, catchret, cleanupret. *)
RegionOf(o) == Innermost(Around(o))

start ==
  /\ phase = "done" /\ mode = "not started"
  /\ mode' = "run" /\ pc' = 0
  /\ UNCHANGED <<treeVars, program, passVars, selector, copy, pads, pending>>

\* By the meaning of leave: the finallies whose try is exited, the inner ones
\* first, and then the target.
Itinerary(o, t) ==
  LET exited == {c \in {EIT[k] : k \in 1 .. Len(EIT)} :
                   c.Kind = "Finally" /\ In(o, Try(c)) /\ ~In(t, Try(c))}
      rank(c) == Cardinality({d \in exited : Inside(Try(d), Try(c))})
  IN  [n \in 1 .. Cardinality(exited) + 1 |->
         IF n > Cardinality(exited) THEN t
         ELSE (CHOOSE c \in exited : rank(c) = n).HandlerOffset]

FinallyStartingAt(o) == {r \in Regions : regions[r].Kind = "Finally" /\ regions[r].Start = o}

\* cloneFinallyBody: branches to the head of a finally from outside go to the clone.
copyAfter(dest) ==
  [r \in Ids |-> IF r \in FinallyStartingAt(dest) /\ ~Contains(r, pc) THEN "non-exn" ELSE copy[r]]

\* Control arrives at the first offset of a journey, the rest is to come.
Arrive(journey) ==
  pending' = [r \in Ids |-> IF Len(journey) > 1 /\ r \in FinallyStartingAt(journey[1])
                            THEN Tail(journey) ELSE pending[r]]

(* GenIR::leave: the catch handlers between the region of the leave and the common
   ancestor with the region of its branch target are returned from, the inner ones
   first (getCommonAncestor).  Mistake: only the innermost. *)
ancestors(r) ==
  LET up[n \in 1 .. Len(regions)] == IF n = 1 THEN {r} ELSE up[n - 1] \union
                                       ({regions[x].Parent : x \in up[n - 1]} \ {0})
  IN  up[Len(regions)]
exitedPads_Innermost(from, to) ==
  {r \in ancestors(from) \ ancestors(to) : regions[r].Kind \in {"MCatch", "MExcept"} /\ r = from}
exitedPads(from, to) ==
  {r \in ancestors(from) \ ancestors(to) : regions[r].Kind \in {"MCatch", "MExcept"}}

leave ==
  /\ mode = "run" /\ pc \in DOMAIN Leaves
  /\ selector' = [r \in Ids |->
       IF \E k \in 1 .. Len(stores[pc]) : stores[pc][k].finally = r
       THEN stores[pc][CHOOSE k \in 1 .. Len(stores[pc]) : stores[pc][k].finally = r].value
       ELSE selector[r]]
  /\ pads' = pads \ exitedPads(RegionOf(pc), RegionOf(branch[pc]))
  /\ pc' = branch[pc]
  /\ copy' = copyAfter(branch[pc])
  /\ Arrive(Itinerary(pc, Leaves[pc]))
  /\ UNCHANGED <<treeVars, program, passVars, mode>>

\* The next instruction (past an endfinally that is branched around), or the end
\* of the method
proceed ==
  /\ mode = "run" /\ ~LastOf(pc)
  /\ IF pc = CodeSize - 1 THEN mode' = "returned" /\ UNCHANGED pc
                          ELSE pc' = pc + 1 /\ UNCHANGED mode
  /\ UNCHANGED <<treeVars, program, passVars, selector, copy, pads, pending>>

(* An instruction throws: control goes to the pad of its region's innermost try. *)
throw ==
  /\ mode = "run" /\ pc \notin EndFinallys
  /\ mode' = "unwind"
  /\ pc' = regions[RegionOf(pc)].HandlerEHPad
  /\ UNCHANGED <<treeVars, program, passVars, selector, copy, pads, pending>>

\* No pad is left: the exception leaves the method.
propagate ==
  /\ mode = "unwind" /\ pc = 0
  /\ mode' = "threw"
  /\ UNCHANGED <<treeVars, program, passVars, pc, selector, copy, pads, pending>>

\* Unwinding to handler h ends the catches that h is not in.
unwound(h) == {p \in pads : Contains(p, regions[h].Start)}

(* A catchswitch: one of the catches, or on to the next pad. *)
dispatch ==
  /\ mode = "unwind" /\ pc # 0
  /\ \/ \E h \in ChildSet(pc) :
          /\ regions[h].Kind = "MCatch"
          /\ mode' = "run" /\ pc' = regions[h].Start
          /\ pads' = unwound(h) \union {h}
     \/ /\ \E h \in ChildSet(pc) : regions[h].Kind = "MCatch"
        /\ pc' = unwindsTo(pc) /\ UNCHANGED <<mode, pads>>
  /\ UNCHANGED <<treeVars, program, passVars, selector, copy, pending>>

(* The store in the cleanup pad, made with the switch.  Mistake: it is missing. *)
padSelector_Kept(f) == selector[f]
padSelector(f) == IF f \in placed THEN 0 ELSE selector[f]

(* A cleanup pad: the finally is entered by the exception. *)
cleanup ==
  /\ mode = "unwind" /\ pc # 0
  /\ \E f \in ChildSet(pc) :
       /\ regions[f].Kind = "Finally"
       /\ mode' = "run" /\ pc' = regions[f].Start
       /\ selector' = [selector EXCEPT ![f] = padSelector(f)]
       /\ copy' = [copy EXCEPT ![f] = "exn"]
       /\ pending' = [pending EXCEPT ![f] = <<Exn>>]
       /\ pads' = unwound(f)
  /\ UNCHANGED <<treeVars, program, passVars>>

(* Where the switch of finally f goes. *)
switchDest(f) ==
  LET cs == {cases[f][k] : k \in 1 .. Len(cases[f])}
      hit == {c.dest : c \in {x \in cs : x.value = selector[f]}}
  IN  IF Cardinality(hit) = 1 THEN CHOOSE d \in hit : TRUE ELSE Unreachable

(* cloneFinallyBody: in the original, reached by exceptions, the switch is replaced
   by a branch to the cleanupret; in the clone its case 0 is `unreachable'. *)
clonedDest(f) == IF copy[f] = "exn" THEN Exn
                 ELSE IF switchDest(f) = Exn THEN Unreachable ELSE switchDest(f)

endfinally ==
  LET f == FinallyAt(pc)
      dest == clonedDest(f)
  IN  /\ mode = "run" /\ pc \in EndFinallys
      /\ mode' = IF dest = Exn THEN "unwind" ELSE IF dest = Unreachable THEN "undefined" ELSE "run"
      /\ pc' = IF dest = Exn THEN regions[f].HandlerEHPad
               ELSE IF dest = Unreachable THEN pc ELSE dest
      /\ copy' = copyAfter(dest)
      /\ Arrive(pending[f])
      /\ UNCHANGED <<treeVars, program, passVars, selector, pads>>

Execute == start \/ leave \/ proceed \/ throw \/ propagate \/ dispatch \/ cleanup \/ endfinally
Next == readRegions \/ instruction \/ Execute
Spec == Init /\ [][Next]_vars

-----------------------------------------------------------------------------

(* A leave runs the finallies it exits, the inner ones first, and then goes to its
   target, whatever exceptions came in between: at a leave the branch, and at an
   endfinally the switch, go where the meaning of leave says. *)
LeavesRunFinallies ==
  mode = "run" =>
    /\ pc \in DOMAIN Leaves => branch[pc] = Itinerary(pc, Leaves[pc])[1]
    /\ pc \in EndFinallys => clonedDest(FinallyAt(pc)) = Head(pending[FinallyAt(pc)])

(* Cloning a finally keeps its meaning: the copy that is executed continues as the
   single body with its switch would have. *)
ClonesAgree ==
  mode = "run" /\ pc \in EndFinallys => clonedDest(FinallyAt(pc)) = switchDest(FinallyAt(pc))

(* What a leave itself branches across is returned from properly: after its branch
   no catch it was in, and its immediate target is not, is still open, and none
   around the target is closed. *)
LeaveClosesCatches ==
  mode = "run" /\ pc \in DOMAIN Leaves =>
    exitedPads(RegionOf(pc), RegionOf(branch[pc])) =
      {r \in Regions : regions[r].Kind = "MCatch" /\ Contains(r, pc) /\ ~Contains(r, branch[pc])}
=============================================================================
