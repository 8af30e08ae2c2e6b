--------------------------- MODULE GcInfoEmitter ----------------------------
(***************************************************************************)
(* GcInfoEmitter (lib/GcInfo/GcInfo.cpp): the translation of LLVM's stack  *)
(* map, which lists the live locations of every safepoint, into CoreCLR's  *)
(* GC table, which lists the births and deaths of numbered slots, and of   *)
(* the recorded stack allocations into untracked slots.                    *)
(*                                                                         *)
(* The stack map is read one location at a time, so a step is one turn of  *)
(* a loop of the code.  `stackMap' and `current' are history: what LLVM    *)
(* recorded at the safepoints already passed and in the record being read. *)
(* GcInfoEncoder belongs to CoreCLR; it is modelled by the calls the code  *)
(* makes: slots are numbered from 0 in the order they are requested, and a *)
(* slot has at a safepoint the state last set at or before it.             *)
(***************************************************************************)
EXTENDS GcFuncInfo, Sequences

CONSTANTS
  InitialBitSetSize,  \* size of the two live sets before they grow (25)
  MaxRecords          \* bound on the number of stack-map records

ASSUME EmitterAssumption ==
  /\ InitialBitSetSize \in Nat \ {0}
  /\ MaxRecords \in Nat \ {0}

VARIABLES
  reporting,      \* needsPointerReporting: statepoints on and a stack map found
  header,         \* encodeHeader reported a PSPSym slot and report-only-leaf
  slots,          \* Encoder: the slots requested, [Offset, Flags]; id = index - 1
  SlotMap,        \* stack offset -> slot id
  FirstTrackedSlot, NumTrackedSlots,
  LiveBitSetSize, \* capacity of the two live sets
  OldLiveSet,     \* slots live at the previous safepoint
  NewLiveSet,     \* slots live at the safepoint being read
  transitions,    \* Encoder: <<record, slot, state>> set by SetSlotState
  callSites,      \* Encoder: the number of call sites defined
  pending,        \* allocas encodeUntrackedPointers has still to visit
  todo, todoFlags,\* pointers of the visited alloca still without slot; their flags
  stackMap, current

trackedVars == <<FirstTrackedSlot, NumTrackedSlots, LiveBitSetSize, OldLiveSet,
                 NewLiveSet, transitions, stackMap, current>>
workVars == <<pending, todo, todoFlags>>
emitterVars == <<reporting, header, slots, SlotMap, FirstTrackedSlot,
                 NumTrackedSlots, LiveBitSetSize, OldLiveSet, NewLiveSet,
                 transitions, callSites, pending, todo, todoFlags, stackMap,
                 current>>
vars == <<phase, funcInfoVars, emitterVars>>

SlotFlags == {"Interior", "Untracked", "Pinned"}
States == {"LIVE", "DEAD"}

\* The words LLVM may spill a GC pointer to: those of no recorded alloca.
SpillOffsets ==
  {o \in FrameOffsets :
     \A a \in DOMAIN AllocaMap : o \notin Words(a, AllocaMap[a].Offset)}

EmitterInit ==
  /\ reporting \in BOOLEAN
  /\ header = FALSE
  /\ slots = <<>>
  /\ SlotMap = [o \in {} |-> 0]
  /\ FirstTrackedSlot = 0
  /\ NumTrackedSlots = 0
  /\ LiveBitSetSize = InitialBitSetSize
  /\ OldLiveSet = {}
  /\ NewLiveSet = {}
  /\ transitions = {}
  /\ callSites = 0
  /\ pending = {}
  /\ todo = {}
  /\ todoFlags = {}
  /\ stackMap = <<>>
  /\ current = {}

Init == phase = "reading" /\ FuncInfoInit /\ EmitterInit

-----------------------------------------------------------------------------
SlotMapSize == Cardinality(DOMAIN SlotMap)

(* getSlot: ask the encoder for the next slot and note its id under the offset. *)
getSlot(offset, flags) ==
  /\ slots' = Append(slots, [Offset |-> offset, Flags |-> flags])
  /\ SlotMap' = [o \in DOMAIN SlotMap \union {offset} |->
                   IF o = offset THEN Len(slots) ELSE SlotMap[o]]

isTrackedSlot(id) ==
  /\ NumTrackedSlots > 0
  /\ id >= FirstTrackedSlot
  /\ id < FirstTrackedSlot + NumTrackedSlots

(* encodeHeader: code length, base register and vararg flag are left out. *)
encodeHeader ==
  /\ phase = "header"
  /\ header' = HasFunclets
  /\ phase' = IF reporting THEN "tracked" ELSE "emit"
  /\ UNCHANGED <<funcInfoVars, reporting, slots, SlotMap, callSites, workVars,
                 trackedVars>>

(* The size of the live sets once the slot map holds n slots. *)
grow_TooLate(n) ==  \* mistake: grown one slot too late
  IF n > LiveBitSetSize + 1 THEN LiveBitSetSize + LiveBitSetSize ELSE LiveBitSetSize
grow(n) ==
  IF n > LiveBitSetSize THEN LiveBitSetSize + LiveBitSetSize ELSE LiveBitSetSize

(* getTrackedSlot and the growth of the live sets: a location not seen before *)
newTrackedSlot(offset) ==
  /\ getSlot(offset, {"Interior"})
  /\ NumTrackedSlots' = NumTrackedSlots + 1
  /\ FirstTrackedSlot' =
       IF NumTrackedSlots' = 1 THEN SlotMap'[offset] ELSE FirstTrackedSlot
  /\ LiveBitSetSize' = grow(Cardinality(DOMAIN SlotMap'))

(* encodeTrackedPointers, inner loop: an Indirect location of the record.
   Constant locations are skipped; Register ones do not occur. *)
readLocation(offset) ==
  /\ phase = "tracked"
  /\ Len(stackMap) < MaxRecords
  /\ current' = current \union {offset}
  /\ IF offset \in DOMAIN SlotMap
     THEN UNCHANGED <<slots, SlotMap, NumTrackedSlots, FirstTrackedSlot,
                      LiveBitSetSize>>
     ELSE newTrackedSlot(offset)
  /\ NewLiveSet' = NewLiveSet \union {SlotMap'[offset]}
  /\ UNCHANGED <<phase, funcInfoVars, reporting, header, callSites, workVars,
                 OldLiveSet, transitions, stackMap>>

(* The births and deaths reported for record r. *)
Births(r) == {<<r, id, "LIVE">> : id \in (NewLiveSet \ OldLiveSet)}
Deaths_Unreported(r) == {}  \* mistake: only births are reported
Deaths(r) == {<<r, id, "DEAD">> : id \in (OldLiveSet \ NewLiveSet)}

(* encodeTrackedPointers, end of a record: SetSlotState for every slot whose
   state differs from the previous record's, then the sets are rolled over.
   The loop visits the slots 0 .. SlotMap.size() - 1. *)
endRecord ==
  LET r == Len(stackMap) + 1
      ids == 0 .. (SlotMapSize - 1)
  IN  /\ phase = "tracked"
      /\ Len(stackMap) < MaxRecords
      /\ transitions' =
           transitions \union {t \in Births(r) \union Deaths(r) : t[2] \in ids}
      /\ OldLiveSet' = (OldLiveSet \ ids) \union (NewLiveSet \intersect ids)
      /\ NewLiveSet' = NewLiveSet \ ids
      /\ stackMap' = Append(stackMap, current)
      /\ current' = {}
      /\ UNCHANGED <<phase, funcInfoVars, reporting, header, callSites, workVars,
                     slots, SlotMap, NumTrackedSlots, FirstTrackedSlot,
                     LiveBitSetSize>>

(* The last record was read (a stack map that exists has at least one). *)
endTracked ==
  /\ phase = "tracked"
  /\ stackMap # <<>> /\ current = {}
  /\ phase' = "untracked"
  /\ pending' = DOMAIN AllocaMap
  /\ UNCHANGED <<todo, todoFlags, funcInfoVars, reporting, header, callSites, slots, SlotMap,
                 trackedVars>>

-----------------------------------------------------------------------------
(* getUntrackedSlot's flags: an object reference is not interior, and a pinned
   pointer is always an object reference. *)
untrackedFlags_PinnedLast(IsPinned, IsObjectRef) ==  \* mistake: wrong test order
  IF ~IsObjectRef THEN {"Untracked", "Interior"}
  ELSE IF IsPinned THEN {"Untracked", "Pinned"} ELSE {"Untracked"}
untrackedFlags(IsPinned, IsObjectRef) ==
  IF IsPinned THEN {"Untracked", "Pinned"}
  ELSE IF ~IsObjectRef THEN {"Untracked", "Interior"} ELSE {"Untracked"}

(* encodeUntrackedPointers, one alloca: the pointer itself, or the pointers of an
   aggregate (encodeGcAggregate), are to be given slots; the special integer
   allocas have none.  The map is hashed: the allocas come in no set order. *)
visitAlloca(a) ==
  LET flags == AllocaMap[a].Flags
  IN  /\ phase = "untracked"
      /\ todo = {}
      /\ a \in pending
      /\ pending' = pending \ {a}
      /\ todo' = IF flags \intersect {"GcPointer", "GcAggregate"} # {}
                 THEN PointerWords(a) ELSE {}
      /\ todoFlags' = untrackedFlags("Pinned" \in flags, "GcAggregate" \in flags)
      /\ UNCHANGED <<phase, funcInfoVars, reporting, header, callSites, slots,
                     SlotMap, trackedVars>>

(* getUntrackedSlot, for the pointers of an aggregate in ascending order *)
getUntrackedSlot(offset) ==
  /\ phase = "untracked"
  /\ offset \in todo /\ \A o \in todo : offset <= o
  /\ getSlot(offset, todoFlags)
  /\ todo' = todo \ {offset}
  /\ UNCHANGED <<phase, funcInfoVars, reporting, header, callSites, pending,
                 todoFlags, trackedVars>>

(* finalizeEncoding, with the index of the last record taken for their number *)
finalizeEncoding_LastIndex ==
  /\ phase = "untracked" /\ pending = {} /\ todo = {}
  /\ callSites' = Len(stackMap) - 1
  /\ phase' = "emit"
  /\ UNCHANGED <<funcInfoVars, reporting, header, slots, SlotMap, workVars, trackedVars>>

(* finalizeEncoding: the call sites noted while reading the records *)
finalizeEncoding ==
  /\ phase = "untracked" /\ pending = {} /\ todo = {}
  /\ callSites' = Len(stackMap)
  /\ phase' = "emit"
  /\ UNCHANGED <<funcInfoVars, reporting, header, slots, SlotMap, workVars, trackedVars>>

emitEncoding ==
  /\ phase = "emit"
  /\ phase' = "emitted"
  /\ UNCHANGED <<funcInfoVars, emitterVars>>

EmitterNext ==
  \/ encodeHeader
  \/ \E offset \in SpillOffsets : readLocation(offset)
  \/ endRecord
  \/ endTracked
  \/ \E a \in pending : visitAlloca(a)
  \/ \E offset \in todo : getUntrackedSlot(offset)
  \/ finalizeEncoding
  \/ emitEncoding

Next == \/ FuncInfoNext /\ UNCHANGED emitterVars
        \/ EmitterNext

Spec == Init /\ [][Next]_vars

-----------------------------------------------------------------------------
(* What the runtime reads back from the table. *)

\* Slot id is live at safepoint r: born at or before it, and not dead since.
LiveAt(r, id) ==
  \E b \in 1 .. r : /\ <<b, id, "LIVE">> \in transitions
                    /\ \A d \in (b + 1) .. r : <<d, id, "DEAD">> \notin transitions

\* The locations the table reports as live at safepoint r.
Decoded(r) == {o \in DOMAIN SlotMap : LiveAt(r, SlotMap[o])}

-----------------------------------------------------------------------------
FuncInfoTypeOK ==
  /\ created \subseteq Allocas
  /\ DOMAIN AllocaMap \subseteq created
  /\ AllocaMap \in [DOMAIN AllocaMap -> AllocaInfo]
  /\ escaped \subseteq created
EmitterTypeOK ==
  /\ slots \in Seq([Offset : Int, Flags : SUBSET SlotFlags])
  /\ DOMAIN SlotMap \subseteq FrameOffsets
  /\ SlotMap \in [DOMAIN SlotMap -> Nat]
  /\ FirstTrackedSlot \in Nat
  /\ NumTrackedSlots \in Nat
  /\ LiveBitSetSize \in Nat
  /\ OldLiveSet \subseteq Nat
  /\ NewLiveSet \subseteq Nat
  /\ transitions \subseteq (1 .. MaxRecords) \X Nat \X States
  /\ callSites \in 0 .. MaxRecords
  /\ pending \subseteq Allocas
  /\ todo \subseteq FrameOffsets
  /\ todoFlags \subseteq SlotFlags
  /\ stackMap \in Seq(SUBSET FrameOffsets)
  /\ Len(stackMap) <= MaxRecords
  /\ current \subseteq FrameOffsets
SwitchesTypeOK ==
  /\ phase \in {"reading", "contextKept", "secured", "codegen", "header",
                "tracked", "untracked", "emit", "emitted"}
  /\ HasFunclets \in BOOLEAN
  /\ reporting \in BOOLEAN
  /\ header \in BOOLEAN

(* Every value has its type; in particular the emitter never asks for a slot at
   an offset outside the frame. *)
TypeOK == FuncInfoTypeOK /\ EmitterTypeOK /\ SwitchesTypeOK

(* The births and deaths that encodeTrackedPointers reports, replayed by the
   runtime, give back at every safepoint exactly the live set LLVM recorded
   there: none missed (a dangling object) and none left over (a stale one). *)
LivenessPreserved ==
  \A r \in 1 .. Len(stackMap) : Decoded(r) = stackMap[r]

(* getSlot's assertions: no offset is ever given a second slot, and the ids are
   dense, so that a loop up to SlotMap.size() visits every slot. *)
SlotIdsDense ==
  /\ SlotMapSize = Len(slots)
  /\ \A i \in 1 .. Len(slots) : /\ slots[i].Offset \in DOMAIN SlotMap
                                /\ SlotMap[slots[i].Offset] = i - 1

(* The live sets hold tracked slots only and are indexed within their size,
   however many slots there are; and isTrackedSlot, which only compares ids, tells
   tracked slots from untracked ones, whatever order the slots are made in. *)
LiveSetsInBounds ==
  /\ \A id \in OldLiveSet \union NewLiveSet : id < LiveBitSetSize /\ isTrackedSlot(id)
  /\ \A i \in 1 .. Len(slots) : isTrackedSlot(i - 1) <=> "Untracked" \notin slots[i].Flags

(* When the table is emitted, every GC pointer of every GC allocation the reader
   recorded has an untracked slot at its place in the frame, pinned exactly if
   the local was. *)
AllocasReported ==
  phase = "emitted" /\ reporting =>
    \A a \in created : isGcType(a) =>
      \A r \in GcPtrOffsets[a] :
        LET o == AllocaMap[a].Offset + r
        IN  /\ a \in DOMAIN AllocaMap
            /\ o \in DOMAIN SlotMap
            /\ "Untracked" \in slots[SlotMap[o] + 1].Flags
            /\ isPinned(a) <=> "Pinned" \in slots[SlotMap[o] + 1].Flags

(* The emitter implements the table the runtime is promised: its births and
   deaths, decoded, describe one safepoint after the other and never change
   what an earlier safepoint was described as, and finalizeEncoding defines as
   many call sites as there are safepoints. *)
Table == INSTANCE GcTable WITH
           Locations <- FrameOffsets,
           table <- [r \in 1 .. Len(stackMap) |-> Decoded(r)]
ImplementsTable == Table!TableSpec

-----------------------------------------------------------------------------
(* The inductive strengthening used by the proofs. *)

\* Once the recorder has run, the recorded allocas are in the frame and disjoint.
PlacedPhases == {"header", "tracked", "untracked", "emit", "emitted"}
RecordedEscape ==
  phase \in {"codegen"} \union PlacedPhases => DOMAIN AllocaMap \subseteq escaped
AllocasPlaced ==
  phase \in PlacedPhases =>
    /\ \A a \in DOMAIN AllocaMap : /\ AllocaMap[a].Offset \in FrameOffsets
                                   /\ AllocaMap[a].Offset + Size[a] - 1 \in FrameOffsets
    /\ \A a, b \in DOMAIN AllocaMap :
         a # b => Words(a, AllocaMap[a].Offset)
                    \intersect Words(b, AllocaMap[b].Offset) = {}

\* Slots are requested only while encoding: first for words outside the allocas,
\* then for the words of the allocas visited.
NoSlotsBefore ==
  phase \notin PlacedPhases \/ phase = "header" => SlotMap = [o \in {} |-> 0] /\ todo = {}
UnvisitedFree ==
  /\ phase = "tracked" =>
       /\ DOMAIN SlotMap \subseteq SpillOffsets
       /\ todo = {}
  /\ phase = "untracked" =>
       /\ pending \subseteq DOMAIN AllocaMap
       /\ todo \intersect DOMAIN SlotMap = {}
       /\ \A a \in pending : /\ PointerWords(a) \intersect DOMAIN SlotMap = {}
                             /\ PointerWords(a) \intersect todo = {}

\* The slot noted under an offset is the one the encoder placed there.
SlotMapExact ==
  \A o \in DOMAIN SlotMap : SlotMap[o] < Len(slots) /\ slots[SlotMap[o] + 1].Offset = o

\* The live sets hold the slots of the previous record and of the one being read.
LiveSets ==
  /\ current \subseteq DOMAIN SlotMap
  /\ NewLiveSet = {SlotMap[o] : o \in current}
  /\ \A r \in 1 .. Len(stackMap) : stackMap[r] \subseteq DOMAIN SlotMap
  /\ Len(stackMap) = 0 => OldLiveSet = {}
  /\ Len(stackMap) > 0 => OldLiveSet = {SlotMap[o] : o \in stackMap[Len(stackMap)]}
  /\ \A id \in 0 .. (Len(slots) - 1) : LiveAt(Len(stackMap), id) <=> id \in OldLiveSet
  /\ \A t \in transitions : t[1] <= Len(stackMap) /\ t[2] < Len(slots)

IInv == /\ TypeOK
        /\ RecordedEscape
        /\ AllocasPlaced
        /\ NoSlotsBefore
        /\ UnvisitedFree
        /\ SlotIdsDense
        /\ SlotMapExact
        /\ LiveSets
        /\ LivenessPreserved

\* The call sites are defined once, when at least one record was read.
TableOpen ==
  /\ phase \notin {"emit", "emitted"} => callSites = 0
  /\ phase = "untracked" => stackMap # <<>>
=============================================================================
