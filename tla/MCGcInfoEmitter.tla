-------------------------- MODULE MCGcInfoEmitter ---------------------------
(* Instances of GcInfoEmitter for TLC. *)
EXTENDS GcInfoEmitter

\* p and q hold one GC pointer, g is a three-word struct with pointers in its
\* first and last word, n is an integer home.
MCAllocType == [p |-> "GcPointer", q |-> "GcPointer", g |-> "GcAggregate", n |-> "NonGc"]
MCSize == [p |-> 1, q |-> 1, g |-> 3, n |-> 1]
MCGcPtrOffsets == [p |-> {0}, q |-> {0}, g |-> {0, 2}, n |-> {}]
Restricted(f) == [a \in Allocas |-> f[a]]
MCType == Restricted(MCAllocType)
MCSz == Restricted(MCSize)
MCPtr == Restricted(MCGcPtrOffsets)
=============================================================================
