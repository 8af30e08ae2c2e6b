----------------------------- MODULE GcFuncInfo -----------------------------
(***************************************************************************)
(* The per-function GC record (class GcFuncInfo, lib/GcInfo/GcInfo.cpp):   *)
(* which stack allocations of a jitted function hold GC values, how they   *)
(* are annotated, and where the frame places them.                         *)
(*                                                                         *)
(* The reader writes it while it produces IR (createAlloca, recordPinned,  *)
(* recordSecurityObject, recordGenericsContext), its post-pass frame-      *)
(* escapes every recorded allocation (getEscapingLocations), and the       *)
(* machine-function pass GcInfoRecorder fills in the offsets once LLVM has *)
(* laid out the frame.  GcInfoEmitter extends this module with the         *)
(* consumer.  Offsets are counted in pointer-sized words.                  *)
(***************************************************************************)
EXTENDS Integers, FiniteSets

CONSTANTS
  Allocas,      \* the alloca instructions a function may contain
  AllocType,    \* Allocas -> "GcPointer", "GcAggregate" or "NonGc"
  Size,         \* Allocas -> its size in words
  GcPtrOffsets, \* Allocas -> where in it the GC pointers are (getGcPointers)
  StackSize     \* MachineFrameInfo::getStackSize, in words

Types == {"GcPointer", "GcAggregate", "NonGc"}
AllocaFlags == {"GcPointer", "GcAggregate", "Pinned", "SecurityObject",
                "GenericsContext"}

ASSUME FrameAssumption ==
  /\ AllocType \in [Allocas -> Types]
  /\ Size \in [Allocas -> Nat \ {0}]
  /\ GcPtrOffsets \in [Allocas -> SUBSET Nat]
  /\ \A a \in Allocas : GcPtrOffsets[a] \subseteq 0 .. (Size[a] - 1)
  /\ \A a \in Allocas : AllocType[a] = "GcPointer" => GcPtrOffsets[a] = {0}
  /\ StackSize \in Nat

VARIABLES
  phase,      \* where the compilation of the function is
  created,    \* the allocas the reader has created so far
  AllocaMap,  \* the recorded allocas -> [Offset, Flags]
  escaped,    \* the allocas passed to llvm.localescape by the post-pass
  HasFunclets \* the frame has a PSPSym, whose offset encodeHeader reports

funcInfoVars == <<created, AllocaMap, escaped, HasFunclets>>

InvalidPointerOffset == -1
StackPointerSize == 1

\* The offsets a frame object may have once rebased on the callee's SP.
FrameOffsets == 0 .. (StackSize + StackPointerSize - 1)

AllocaInfo == [Offset : FrameOffsets \union {InvalidPointerOffset},
               Flags  : SUBSET AllocaFlags]

isGcType(a) == AllocType[a] \in {"GcPointer", "GcAggregate"}
isPinned(a) == "Pinned" \in AllocaMap[a].Flags

\* The words of the frame that alloca a covers when placed at offset o, and the
\* ones among them that hold GC pointers.
Words(a, o) == o .. (o + Size[a] - 1)
PointerWords_Unbased(a) == GcPtrOffsets[a]  \* mistake: the base is forgotten
PointerWords(a) == {AllocaMap[a].Offset + r : r \in GcPtrOffsets[a]}

FuncInfoInit ==
  /\ created = {}
  /\ AllocaMap = [a \in {} |-> 0]
  /\ escaped = {}
  /\ HasFunclets = FALSE

-----------------------------------------------------------------------------
(* recordAlloca: the flags come from the allocated type. *)
recordAlloca(map, a) ==
  [x \in DOMAIN map \union {a} |->
     IF x = a THEN [Offset |-> InvalidPointerOffset,
                    Flags  |-> {AllocType[a]} \ {"NonGc"}]
              ELSE map[x]]

(* markGcAlloca / markNonGcAlloca: add an annotation to a recorded alloca. *)
markAlloca(map, a, flag) ==
  [map EXCEPT ![a] = [Offset |-> map[a].Offset,
                      Flags  |-> map[a].Flags \union {flag}]]

(* GenIR::createAlloca, and createSym around it: an alloca of GC type is recorded
   as it is created, and marked at once when the local is pinned.  A pinned
   local is a GC value: every GC pointer in it is then pinned. *)
createSym(a, IsPinned) ==
  /\ phase = "reading"
  /\ a \notin created
  /\ IsPinned => isGcType(a)
  /\ created' = created \union {a}
  /\ AllocaMap' = IF ~isGcType(a) THEN AllocaMap
                  ELSE LET map == recordAlloca(AllocaMap, a)
                       IN  IF IsPinned THEN markAlloca(map, a, "Pinned") ELSE map
  /\ UNCHANGED <<phase, escaped, HasFunclets>>

(* readerPostVisit, then insertIRToKeepGenericContextAlive.  A context taken from
   `this' is kept in a fresh GC pointer temporary, which createAlloca records;
   one taken from the type argument stays in that argument's home, an integer
   alloca recorded only now.  recordGenericsContext then marks it. *)
recordGenericsContext(a) ==
  /\ phase = "reading"
  /\ \/ AllocType[a] = "GcPointer" /\ a \notin created
     \/ ~isGcType(a) /\ a \in created
  /\ created' = created \union {a}
  /\ AllocaMap' = markAlloca(recordAlloca(AllocaMap, a), a, "GenericsContext")
  /\ phase' = "contextKept"
  /\ UNCHANGED <<escaped, HasFunclets>>

(* readerPostVisit, then insertIRForSecurityObject: a fresh GC pointer temporary
   is created, recorded and marked. *)
recordSecurityObject(a) ==
  /\ phase \in {"reading", "contextKept"}
  /\ a \notin created /\ AllocType[a] = "GcPointer"
  /\ created' = created \union {a}
  /\ AllocaMap' = markAlloca(recordAlloca(AllocaMap, a), a, "SecurityObject")
  /\ phase' = "secured"
  /\ UNCHANGED <<escaped, HasFunclets>>

(* readerPostPass: every recorded alloca escapes, so LLVM keeps it in the frame. *)
readerPostPass ==
  /\ phase \in {"reading", "contextKept", "secured"}
  /\ escaped' = DOMAIN AllocaMap
  /\ phase' = "codegen"
  /\ UNCHANGED <<created, AllocaMap, HasFunclets>>

-----------------------------------------------------------------------------
(* LLVM's frame: object offsets from the caller's SP (negative), pairwise
   disjoint.  Escaped allocas are all there; others may be optimised away. *)
FrameLayouts ==
  {layout \in UNION {[D -> (-(StackSize + StackPointerSize)) .. -1] :
                       D \in {E \in SUBSET created : escaped \subseteq E}} :
     /\ \A a \in DOMAIN layout : layout[a] + Size[a] <= 0
     /\ \A a, b \in DOMAIN layout :
          a # b => Words(a, layout[a]) \intersect Words(b, layout[b]) = {}}

(* The offset of a frame object rebased from the caller's to the callee's SP. *)
SlotOffset_NoReturnAddress(objectOffset) == StackSize + objectOffset  \* mistake
SlotOffset(objectOffset) == StackSize + StackPointerSize + objectOffset

(* GcInfoRecorder::runOnMachineFunction *)
runOnMachineFunction(layout, hasPSPSym) ==
  /\ phase = "codegen"
  /\ AllocaMap' = [a \in DOMAIN AllocaMap |->
                     IF a \in DOMAIN layout
                     THEN [Offset |-> SlotOffset(layout[a]), Flags |-> AllocaMap[a].Flags]
                     ELSE AllocaMap[a]]
  /\ HasFunclets' = hasPSPSym
  /\ phase' = "header"
  /\ UNCHANGED <<created, escaped>>

FuncInfoNext ==
  \/ \E a \in Allocas : \/ \E IsPinned \in BOOLEAN : createSym(a, IsPinned)
                        \/ recordGenericsContext(a)
                        \/ recordSecurityObject(a)
  \/ readerPostPass
  \/ \E layout \in FrameLayouts, hasPSPSym \in BOOLEAN :
       runOnMachineFunction(layout, hasPSPSym)
=============================================================================
