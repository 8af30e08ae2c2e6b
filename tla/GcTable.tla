------------------------------ MODULE GcTable -------------------------------
(***************************************************************************)
(* What the GC information of a function promises the runtime: at every    *)
(* safepoint, the locations the table reports as live are exactly the ones *)
(* LLVM's stack map records there; a safepoint once described is never     *)
(* redescribed; and the call sites defined in the end are as many as the   *)
(* safepoints described, after which none is added.  GcInfoEmitter, which  *)
(* only writes births and deaths, implements this specification.           *)
(***************************************************************************)
EXTENDS Integers, Sequences

CONSTANT Locations   \* the stack locations a GC pointer may be spilled to

VARIABLES
  stackMap,  \* LLVM's records so far: a sequence of sets of locations
  table,     \* the live locations the runtime decodes, safepoint by safepoint
  callSites  \* the call sites defined; 0 while the table is open

tableVars == <<stackMap, table, callSites>>

TableInit == stackMap = <<>> /\ table = <<>> /\ callSites = 0

\* One more safepoint, with live locations L, is described.
Describe(L) ==
  /\ callSites = 0
  /\ stackMap' = Append(stackMap, L)
  /\ table' = Append(table, L)
  /\ UNCHANGED callSites

\* The call sites of a function that has some are defined.
DefineCallSites ==
  /\ callSites = 0
  /\ table # <<>>
  /\ callSites' = Len(table)
  /\ UNCHANGED <<stackMap, table>>

TableNext == DefineCallSites \/ \E L \in SUBSET Locations : Describe(L)

TableSpec == TableInit /\ [][TableNext]_tableVars
=============================================================================
