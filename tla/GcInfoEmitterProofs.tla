------------------------ MODULE GcInfoEmitterProofs -------------------------
(***************************************************************************)
(* Proofs about GcInfoEmitter, for every set of allocas, every frame, every*)
(* initial size of the live sets and every number of stack-map records.    *)
(***************************************************************************)
EXTENDS GcInfoEmitter, FiniteSetTheorems, TLAPS

(* The initial state satisfies the inductive invariant: nothing is recorded,
   no slot is requested and no safepoint is described yet. *)
LEMMA IInvInit == Init => IInv
<1> SUFFICES ASSUME Init PROVE IInv
  OBVIOUS
<1> USE DEF Init, FuncInfoInit, EmitterInit
<1>1. TypeOK
  <2>1. DOMAIN AllocaMap = {} /\ AllocaMap \in [DOMAIN AllocaMap -> AllocaInfo]
    OBVIOUS
  <2>2. DOMAIN SlotMap = {} /\ SlotMap \in [DOMAIN SlotMap -> Nat]
    OBVIOUS
  <2>3. stackMap \in Seq(SUBSET FrameOffsets) /\ Len(stackMap) = 0
    OBVIOUS
  <2>4. slots \in Seq([Offset : Int, Flags : SUBSET SlotFlags])
    OBVIOUS
  <2>5. HasFunclets \in BOOLEAN /\ reporting \in BOOLEAN /\ header \in BOOLEAN
    BY Zenon
  <2>6. /\ LiveBitSetSize \in Nat
        /\ callSites \in 0 .. MaxRecords
        /\ Len(stackMap) <= MaxRecords
    BY <2>3, EmitterAssumption DEF EmitterAssumption
  <2>7. QED
    BY <2>1, <2>2, <2>3, <2>4, <2>5, <2>6, Zenon
    DEF TypeOK, FuncInfoTypeOK, EmitterTypeOK, SwitchesTypeOK
<1>2. RecordedEscape /\ AllocasPlaced /\ NoSlotsBefore /\ UnvisitedFree
  BY DEF RecordedEscape, AllocasPlaced, NoSlotsBefore, UnvisitedFree, PlacedPhases
<1>3. SlotIdsDense /\ SlotMapExact
  BY FS_EmptySet DEF SlotIdsDense, SlotMapSize, SlotMapExact
<1>4. LiveSets /\ LivenessPreserved
  BY DEF LiveSets, LivenessPreserved, LiveAt
<1>5. QED
  BY <1>1, <1>2, <1>3, <1>4 DEF IInv

-----------------------------------------------------------------------------
(* The steps of the reader and of the recorder leave the emitter alone. *)

(* createSym, recordGenericsContext and recordSecurityObject keep the map of
   allocas well typed, and touch nothing else the invariant speaks of. *)
LEMMA RecordTyped ==
  ASSUME FuncInfoTypeOK, NEW a \in Allocas, NEW flag \in AllocaFlags
  PROVE  LET map == recordAlloca(AllocaMap, a)
         IN  /\ DOMAIN map = DOMAIN AllocaMap \union {a}
             /\ map \in [DOMAIN map -> AllocaInfo]
             /\ DOMAIN markAlloca(map, a, flag) = DOMAIN map
             /\ markAlloca(map, a, flag) \in [DOMAIN map -> AllocaInfo]
<1> DEFINE map == recordAlloca(AllocaMap, a)
<1>1. DOMAIN map = DOMAIN AllocaMap \union {a}
  BY DEF recordAlloca
<1>2. [Offset |-> InvalidPointerOffset, Flags |-> {AllocType[a]} \ {"NonGc"}] \in AllocaInfo
  BY FrameAssumption DEF FrameAssumption, AllocaInfo, AllocaFlags, Types
<1>3. map \in [DOMAIN map -> AllocaInfo]
  BY <1>1, <1>2 DEF recordAlloca, FuncInfoTypeOK
<1>4. [Offset |-> map[a].Offset, Flags |-> map[a].Flags \union {flag}] \in AllocaInfo
  BY <1>1, <1>3 DEF AllocaInfo
<1>5. markAlloca(map, a, flag) \in [DOMAIN map -> AllocaInfo]
  BY <1>1, <1>3, <1>4 DEF markAlloca
<1>6. QED
  BY <1>1, <1>3, <1>5

(* An emitter step is not taken while the reader runs: only the map of allocas
   and the phase change, and no slot exists yet. *)
LEMMA EmitterUntouched ==
  ASSUME IInv, UNCHANGED emitterVars, FuncInfoTypeOK', SwitchesTypeOK',
         RecordedEscape', AllocasPlaced',
         phase \notin PlacedPhases, phase' \in {"header"} \/ phase' \notin PlacedPhases
  PROVE  IInv'
<1> USE DEF emitterVars
<1>1. EmitterTypeOK'
  BY DEF IInv, TypeOK, EmitterTypeOK
<1>2. NoSlotsBefore' /\ UnvisitedFree'
  BY DEF IInv, NoSlotsBefore, UnvisitedFree, PlacedPhases
<1>3. SlotIdsDense' /\ SlotMapExact'
  BY DEF IInv, SlotIdsDense, SlotMapSize, SlotMapExact
<1>3a. LiveSets' /\ LivenessPreserved'
  BY Zenon DEF IInv, LiveSets, LivenessPreserved, Decoded, LiveAt
<1>4. QED
  BY <1>1, <1>2, <1>3, <1>3a DEF IInv, TypeOK

(* The reader's and the recorder's steps preserve the invariant: the offsets that
   runOnMachineFunction stores put the escaped allocas apart within the frame. *)
LEMMA FuncInfoStep == IInv /\ FuncInfoNext /\ UNCHANGED emitterVars => IInv'
<1> SUFFICES ASSUME IInv, FuncInfoNext, UNCHANGED emitterVars PROVE IInv'
  OBVIOUS
<1>0. FuncInfoTypeOK /\ SwitchesTypeOK
  BY DEF IInv, TypeOK
<1>1. ASSUME NEW a \in Allocas, NEW IsPinned \in BOOLEAN, createSym(a, IsPinned)
      PROVE  IInv'
  <2>1. FuncInfoTypeOK'
    BY <1>0, <1>1, RecordTyped, "Pinned" \in AllocaFlags
       DEF createSym, FuncInfoTypeOK, AllocaFlags
  <2>2. SwitchesTypeOK'
    BY <1>0, <1>1, Zenon DEF createSym, SwitchesTypeOK, emitterVars
  <2>3. RecordedEscape' /\ AllocasPlaced' /\ phase \notin PlacedPhases /\ phase' = phase
    BY <1>1 DEF createSym, RecordedEscape, AllocasPlaced, PlacedPhases
  <2>4. QED
    BY <2>1, <2>2, <2>3, EmitterUntouched
<1>2. ASSUME NEW a \in Allocas, recordGenericsContext(a)
      PROVE  IInv'
  <2>1. FuncInfoTypeOK'
    BY <1>0, <1>2, RecordTyped, "GenericsContext" \in AllocaFlags
       DEF recordGenericsContext, FuncInfoTypeOK, AllocaFlags
  <2>2. SwitchesTypeOK'
    BY <1>0, <1>2, Zenon DEF recordGenericsContext, SwitchesTypeOK, emitterVars
  <2>3. RecordedEscape' /\ AllocasPlaced' /\ phase \notin PlacedPhases
        /\ phase' \notin PlacedPhases
    BY <1>2 DEF recordGenericsContext, RecordedEscape, AllocasPlaced, PlacedPhases
  <2>4. QED
    BY <2>1, <2>2, <2>3, EmitterUntouched
<1>3. ASSUME NEW a \in Allocas, recordSecurityObject(a)
      PROVE  IInv'
  <2>1. FuncInfoTypeOK'
    BY <1>0, <1>3, RecordTyped, "SecurityObject" \in AllocaFlags
       DEF recordSecurityObject, FuncInfoTypeOK, AllocaFlags
  <2>2. SwitchesTypeOK'
    BY <1>0, <1>3, Zenon DEF recordSecurityObject, SwitchesTypeOK, emitterVars
  <2>3. RecordedEscape' /\ AllocasPlaced' /\ phase \notin PlacedPhases
        /\ phase' \notin PlacedPhases
    BY <1>3 DEF recordSecurityObject, RecordedEscape, AllocasPlaced, PlacedPhases
  <2>4. QED
    BY <2>1, <2>2, <2>3, EmitterUntouched
<1>4. ASSUME readerPostPass
      PROVE  IInv'
  <2>1. FuncInfoTypeOK'
    BY <1>0, <1>4 DEF readerPostPass, FuncInfoTypeOK
  <2>2. SwitchesTypeOK'
    BY <1>0, <1>4, Zenon DEF readerPostPass, SwitchesTypeOK, emitterVars
  <2>3. RecordedEscape' /\ AllocasPlaced' /\ phase \notin PlacedPhases
        /\ phase' \notin PlacedPhases
    BY <1>4 DEF readerPostPass, RecordedEscape, AllocasPlaced, PlacedPhases
  <2>4. QED
    BY <2>1, <2>2, <2>3, EmitterUntouched
<1>5. ASSUME NEW layout \in FrameLayouts, NEW hasPSPSym \in BOOLEAN,
             runOnMachineFunction(layout, hasPSPSym)
      PROVE  IInv'
  <2> USE FrameAssumption DEF FrameAssumption
  <2>1. DOMAIN AllocaMap \subseteq DOMAIN layout
    BY <1>5 DEF runOnMachineFunction, FrameLayouts, IInv, RecordedEscape
  <2>2. \A a \in DOMAIN layout :
          /\ a \in Allocas
          /\ layout[a] \in (-(StackSize + StackPointerSize)) .. -1
          /\ layout[a] + Size[a] <= 0
    BY <1>0 DEF FrameLayouts, FuncInfoTypeOK
  <2>3. \A a, b \in DOMAIN layout :
          a # b => Words(a, layout[a]) \intersect Words(b, layout[b]) = {}
    BY DEF FrameLayouts
  <2>4. /\ DOMAIN AllocaMap' = DOMAIN AllocaMap
        /\ \A a \in DOMAIN AllocaMap :
             AllocaMap'[a] = [Offset |-> SlotOffset(layout[a]), Flags |-> AllocaMap[a].Flags]
    BY <1>5, <2>1 DEF runOnMachineFunction
  <2>5. \A a \in DOMAIN AllocaMap :
          /\ SlotOffset(layout[a]) \in FrameOffsets
          /\ SlotOffset(layout[a]) + Size[a] - 1 \in FrameOffsets
    BY <2>1, <2>2 DEF SlotOffset, FrameOffsets, StackPointerSize
  <2>6. \A a, b \in DOMAIN AllocaMap :
          a # b => Words(a, SlotOffset(layout[a]))
                     \intersect Words(b, SlotOffset(layout[b])) = {}
    <3> SUFFICES ASSUME NEW a \in DOMAIN AllocaMap, NEW b \in DOMAIN AllocaMap, a # b,
                        NEW w \in Words(a, SlotOffset(layout[a])),
                        w \in Words(b, SlotOffset(layout[b]))
                 PROVE  FALSE
      OBVIOUS
    <3> DEFINE v == w - (StackSize + StackPointerSize)
    <3>1. v \in Words(a, layout[a]) /\ v \in Words(b, layout[b])
      BY <2>1, <2>2 DEF Words, SlotOffset, StackPointerSize
    <3>2. QED
      BY <2>1, <2>3, <3>1
  <2>7. FuncInfoTypeOK'
    BY <1>0, <1>5, <2>4, <2>5 DEF runOnMachineFunction, FuncInfoTypeOK, AllocaInfo
  <2>8. SwitchesTypeOK'
    BY <1>0, <1>5, Zenon DEF runOnMachineFunction, SwitchesTypeOK, emitterVars
  <2>9. RecordedEscape' /\ AllocasPlaced'
    <3>1. RecordedEscape'
      BY <1>5, <2>4 DEF runOnMachineFunction, IInv, RecordedEscape
    <3>2. \A a \in DOMAIN AllocaMap' : AllocaMap'[a].Offset = SlotOffset(layout[a])
      BY <2>4
    <3>3. QED
      BY <2>4, <2>5, <2>6, <3>1, <3>2 DEF AllocasPlaced
  <2>10. phase \notin PlacedPhases /\ phase' = "header"
    BY <1>5 DEF runOnMachineFunction, PlacedPhases
  <2>11. QED
    BY <2>7, <2>8, <2>9, <2>10, EmitterUntouched
<1>6. QED
  BY <1>1, <1>2, <1>3, <1>4, <1>5 DEF FuncInfoNext

-----------------------------------------------------------------------------
(* getSlot on a fresh offset: the next id is used, nothing else moves. *)
LEMMA GetSlot ==
  ASSUME EmitterTypeOK, SlotIdsDense, SlotMapExact,
         NEW offset \in FrameOffsets, offset \notin DOMAIN SlotMap,
         NEW flags \in SUBSET SlotFlags, getSlot(offset, flags)
  PROVE  /\ slots' \in Seq([Offset : Int, Flags : SUBSET SlotFlags])
         /\ Len(slots') = Len(slots) + 1
         /\ DOMAIN SlotMap' = DOMAIN SlotMap \union {offset}
         /\ DOMAIN SlotMap' \subseteq FrameOffsets
         /\ SlotMap' \in [DOMAIN SlotMap' -> Nat]
         /\ SlotMap'[offset] = Len(slots)
         /\ \A o \in DOMAIN SlotMap : SlotMap'[o] = SlotMap[o]
         /\ SlotIdsDense'
         /\ SlotMapExact'
<1> USE DEF EmitterTypeOK, getSlot
<1> DEFINE Slot == [Offset : Int, Flags : SUBSET SlotFlags]
<1>1. [Offset |-> offset, Flags |-> flags] \in Slot
  BY DEF FrameOffsets
<1>2. /\ slots' \in Seq(Slot)
      /\ Len(slots') = Len(slots) + 1
      /\ \A i \in 1 .. Len(slots) : slots'[i] = slots[i]
      /\ slots'[Len(slots) + 1].Offset = offset
  BY <1>1
<1>3. /\ DOMAIN SlotMap' = DOMAIN SlotMap \union {offset}
      /\ SlotMap'[offset] = Len(slots)
      /\ \A o \in DOMAIN SlotMap : SlotMap'[o] = SlotMap[o]
  OBVIOUS
<1>4. SlotMap' \in [DOMAIN SlotMap' -> Nat]
  BY <1>3
<1>5. SlotMapSize' = SlotMapSize + 1
  <2>0. StackSize + StackPointerSize - 1 \in Int
    BY FrameAssumption DEF FrameAssumption, StackPointerSize
  <2>1. IsFiniteSet(FrameOffsets)
    BY <2>0, FS_Interval, 0 \in Int, Zenon DEF FrameOffsets
  <2>2. IsFiniteSet(DOMAIN SlotMap)
    BY <2>1, FS_Subset
  <2>3. Cardinality(DOMAIN SlotMap \union {offset}) = Cardinality(DOMAIN SlotMap) + 1
    BY <2>2, FS_AddElement, Zenon
  <2>4. QED
    BY <1>3, <2>3 DEF SlotMapSize
<1>6. SlotIdsDense'
  <2>1. SlotMapSize' = Len(slots')
    BY <1>2, <1>5 DEF SlotIdsDense
  <2>2. ASSUME NEW i \in 1 .. Len(slots')
        PROVE  slots'[i].Offset \in DOMAIN SlotMap' /\ SlotMap'[slots'[i].Offset] = i - 1
    BY <1>2, <1>3 DEF SlotIdsDense
  <2>3. QED
    BY <2>1, <2>2 DEF SlotIdsDense
<1>7. SlotMapExact'
  BY <1>2, <1>3 DEF SlotMapExact
<1>8. QED
  BY <1>2, <1>3, <1>4, <1>6, <1>7

(* A fresh slot changes nothing about the safepoints already described: it has
   no transition yet, so it is live at none of them. *)
LEMMA FreshSlot ==
  ASSUME IInv, NEW offset \in FrameOffsets, offset \notin DOMAIN SlotMap,
         Len(slots') = Len(slots) + 1,
         DOMAIN SlotMap' = DOMAIN SlotMap \union {offset},
         SlotMap'[offset] = Len(slots),
         \A o \in DOMAIN SlotMap : SlotMap'[o] = SlotMap[o],
         UNCHANGED <<transitions, stackMap, OldLiveSet>>
  PROVE  /\ \A r \in 1 .. Len(stackMap) : stackMap[r] \subseteq DOMAIN SlotMap'
         /\ Len(stackMap) > 0 => OldLiveSet = {SlotMap'[o] : o \in stackMap[Len(stackMap)]}
         /\ \A id \in 0 .. (Len(slots') - 1) :
              LiveAt(Len(stackMap), id) <=> id \in OldLiveSet
         /\ LivenessPreserved'
<1>0. /\ stackMap \in Seq(SUBSET FrameOffsets) /\ Len(stackMap) \in Nat
      /\ slots \in Seq([Offset : Int, Flags : SUBSET SlotFlags]) /\ Len(slots) \in Nat
      /\ SlotMap \in [DOMAIN SlotMap -> Nat]
  BY DEF IInv, TypeOK, EmitterTypeOK
<1>1. \A r \in Nat : ~LiveAt(r, Len(slots))
  <2>1. \A t \in transitions : t[2] < Len(slots)
    BY DEF IInv, LiveSets
  <2>2. \A b : <<b, Len(slots), "LIVE">> \notin transitions
    BY <1>0, <2>1
  <2>3. QED
    BY <2>2 DEF LiveAt
<1>2. \A r \in 1 .. Len(stackMap) : stackMap[r] \subseteq DOMAIN SlotMap
  BY DEF IInv, LiveSets
<1>3. \A r, id : LiveAt(r, id)' <=> LiveAt(r, id)
  BY DEF LiveAt
<1>4. Len(stackMap) > 0 => OldLiveSet = {SlotMap'[o] : o \in stackMap[Len(stackMap)]}
  BY <1>0, <1>2 DEF IInv, LiveSets
<1>5. Len(slots) \notin OldLiveSet
  <2>1. CASE Len(stackMap) = 0
    BY <2>1 DEF IInv, LiveSets
  <2>2. CASE Len(stackMap) > 0
    <3>1. OldLiveSet = {SlotMap[o] : o \in stackMap[Len(stackMap)]}
      BY <2>2 DEF IInv, LiveSets
    <3>2. stackMap[Len(stackMap)] \subseteq DOMAIN SlotMap
      BY <1>0, <1>2, <2>2
    <3>3. \A o \in DOMAIN SlotMap : SlotMap[o] < Len(slots)
      BY DEF IInv, SlotMapExact
    <3>4. QED
      BY <1>0, <3>1, <3>2, <3>3
  <2>3. QED
    BY <1>0, <2>1, <2>2
<1>6. \A id \in 0 .. (Len(slots') - 1) : LiveAt(Len(stackMap), id) <=> id \in OldLiveSet
  <2>1. \A id \in 0 .. (Len(slots) - 1) : LiveAt(Len(stackMap), id) <=> id \in OldLiveSet
    BY DEF IInv, LiveSets
  <2>2. QED
    BY <1>0, <1>1, <1>5, <2>1
<1>7. LivenessPreserved'
  <2> SUFFICES ASSUME NEW r \in 1 .. Len(stackMap)
               PROVE  Decoded(r)' = stackMap[r]
    BY DEF LivenessPreserved
  <2>1. Decoded(r) = stackMap[r]
    BY DEF IInv, LivenessPreserved
  <2>2. \A o \in DOMAIN SlotMap : LiveAt(r, SlotMap[o])' <=> LiveAt(r, SlotMap[o])
    BY <1>3
  <2>3. ~LiveAt(r, SlotMap[offset])'
    BY <1>1, <1>3
  <2>4. QED
    BY <2>1, <2>2, <2>3 DEF Decoded
<1>8. QED
  BY <1>2, <1>4, <1>6, <1>7

(* Steps that request no slot and describe no safepoint keep what the invariant
   says of slots and safepoints. *)
LEMMA SlotsUntouched ==
  ASSUME IInv,
         UNCHANGED <<slots, SlotMap, transitions, stackMap, OldLiveSet, NewLiveSet, current>>
  PROVE  SlotIdsDense' /\ SlotMapExact' /\ LiveSets' /\ LivenessPreserved'
<1>1. SlotIdsDense' /\ SlotMapExact'
  BY DEF IInv, SlotIdsDense, SlotMapSize, SlotMapExact
<1>2. LiveSets' /\ LivenessPreserved'
  BY Zenon DEF IInv, LiveSets, LivenessPreserved, Decoded, LiveAt
<1>3. QED
  BY <1>1, <1>2

(* No step of the emitter changes the record of the allocas. *)
LEMMA AllocasUntouched ==
  ASSUME IInv, UNCHANGED funcInfoVars, phase \in PlacedPhases, phase' \in PlacedPhases
  PROVE  FuncInfoTypeOK' /\ RecordedEscape' /\ AllocasPlaced'
<1>1. FuncInfoTypeOK' /\ RecordedEscape'
  BY DEF IInv, TypeOK, FuncInfoTypeOK, funcInfoVars, RecordedEscape
<1>2. AllocasPlaced'
  BY DEF IInv, AllocasPlaced, funcInfoVars, Words
<1>3. QED
  BY <1>1, <1>2

(* encodeHeader preserves the invariant: no slot exists when encoding starts. *)
LEMMA encodeHeaderStep == IInv /\ encodeHeader => IInv'
<1> SUFFICES ASSUME IInv, encodeHeader PROVE IInv'
  OBVIOUS
<1>1. phase = "header" /\ phase' \in {"tracked", "emit"}
  BY DEF encodeHeader
<1>2. FuncInfoTypeOK' /\ RecordedEscape' /\ AllocasPlaced'
  BY <1>1, AllocasUntouched DEF encodeHeader, PlacedPhases
<1>3. SwitchesTypeOK'
  BY <1>1, Zenon DEF encodeHeader, IInv, TypeOK, SwitchesTypeOK, funcInfoVars
<1>4. EmitterTypeOK'
  BY DEF encodeHeader, IInv, TypeOK, EmitterTypeOK, workVars, trackedVars
<1>5. SlotIdsDense' /\ SlotMapExact' /\ LiveSets' /\ LivenessPreserved'
  BY SlotsUntouched DEF encodeHeader, trackedVars
<1>6. NoSlotsBefore' /\ UnvisitedFree'
  <2>1. DOMAIN SlotMap' = {} /\ todo' = {}
    BY <1>1 DEF IInv, NoSlotsBefore, encodeHeader, workVars
  <2>2. QED
    BY <1>1, <2>1 DEF NoSlotsBefore, UnvisitedFree, PlacedPhases
<1>7. QED
  BY <1>2, <1>3, <1>4, <1>5, <1>6 DEF IInv, TypeOK

(* Reading a location of a record preserves the invariant, whether its offset has
   a slot already or is given the next one. *)
LEMMA readLocationStep ==
  ASSUME IInv, NEW offset \in SpillOffsets, readLocation(offset)
  PROVE  IInv'
<1>1. phase = "tracked" /\ phase' = "tracked" /\ offset \in FrameOffsets
  BY DEF readLocation, SpillOffsets
<1>2. FuncInfoTypeOK' /\ RecordedEscape' /\ AllocasPlaced'
  BY <1>1, AllocasUntouched DEF readLocation, PlacedPhases
<1>3. SwitchesTypeOK'
  BY <1>1, Zenon DEF readLocation, IInv, TypeOK, SwitchesTypeOK, funcInfoVars
<1>4. EmitterTypeOK /\ SlotIdsDense /\ SlotMapExact /\ LiveSets
  BY DEF IInv, TypeOK
<1>5. /\ current' = current \union {offset}
      /\ NewLiveSet' = NewLiveSet \union {SlotMap'[offset]}
      /\ UNCHANGED <<OldLiveSet, transitions, stackMap, pending, todo, todoFlags, callSites>>
      /\ SpillOffsets' = SpillOffsets
  BY DEF readLocation, workVars, funcInfoVars, SpillOffsets
<1>6. CASE offset \in DOMAIN SlotMap
  <2>1. UNCHANGED <<slots, SlotMap, NumTrackedSlots, FirstTrackedSlot, LiveBitSetSize>>
    BY <1>6 DEF readLocation
  <2>2. EmitterTypeOK'
    BY <1>1, <1>4, <1>5, <1>6, <2>1 DEF EmitterTypeOK
  <2>3. SlotIdsDense' /\ SlotMapExact'
    BY <1>4, <2>1 DEF SlotIdsDense, SlotMapSize, SlotMapExact
  <2>4. LivenessPreserved'
    BY <1>5, <2>1, Zenon DEF IInv, LivenessPreserved, Decoded, LiveAt
  <2>5. LiveSets'
    <3>1. current' \subseteq DOMAIN SlotMap' /\ NewLiveSet' = {SlotMap'[o] : o \in current'}
      BY <1>4, <1>5, <1>6, <2>1 DEF LiveSets
    <3>2. QED
      BY <1>4, <1>5, <2>1, <3>1, Zenon DEF LiveSets, LiveAt
  <2>6. NoSlotsBefore' /\ UnvisitedFree'
    BY <1>1, <1>5, <2>1 DEF IInv, NoSlotsBefore, UnvisitedFree, PlacedPhases
  <2>7. QED
    BY <1>2, <1>3, <2>2, <2>3, <2>4, <2>5, <2>6 DEF IInv, TypeOK
<1>7. CASE offset \notin DOMAIN SlotMap
  <2>1. newTrackedSlot(offset)
    BY <1>7 DEF readLocation
  <2>2. {"Interior"} \in SUBSET SlotFlags
    BY DEF SlotFlags
  <2>3. getSlot(offset, {"Interior"})
    BY <2>1 DEF newTrackedSlot
  <2>4. /\ slots' \in Seq([Offset : Int, Flags : SUBSET SlotFlags])
        /\ Len(slots') = Len(slots) + 1
        /\ DOMAIN SlotMap' = DOMAIN SlotMap \union {offset}
        /\ DOMAIN SlotMap' \subseteq FrameOffsets
        /\ SlotMap' \in [DOMAIN SlotMap' -> Nat]
        /\ SlotMap'[offset] = Len(slots)
        /\ \A o \in DOMAIN SlotMap : SlotMap'[o] = SlotMap[o]
        /\ SlotIdsDense'
        /\ SlotMapExact'
    BY <1>1, <1>4, <1>7, <2>2, <2>3, GetSlot
  <2>5. /\ \A r \in 1 .. Len(stackMap) : stackMap[r] \subseteq DOMAIN SlotMap'
        /\ Len(stackMap) > 0 => OldLiveSet = {SlotMap'[o] : o \in stackMap[Len(stackMap)]}
        /\ \A id \in 0 .. (Len(slots') - 1) :
             LiveAt(Len(stackMap), id) <=> id \in OldLiveSet
        /\ LivenessPreserved'
    BY <1>1, <1>5, <1>7, <2>4, FreshSlot
  <2>6. EmitterTypeOK'
    <3>1. SlotMapSize' \in Nat
      BY <2>4 DEF SlotIdsDense
    <3>2. FirstTrackedSlot' \in Nat /\ NumTrackedSlots' \in Nat /\ LiveBitSetSize' \in Nat
      BY <1>4, <2>1, <2>4 DEF newTrackedSlot, EmitterTypeOK, grow
    <3>3. QED
      BY <1>1, <1>4, <1>5, <2>4, <3>2 DEF EmitterTypeOK
  <2>7. LiveSets'
    <3>1. current' \subseteq DOMAIN SlotMap' /\ NewLiveSet' = {SlotMap'[o] : o \in current'}
      BY <1>4, <1>5, <2>4 DEF LiveSets
    <3>2. \A t \in transitions' : t[1] <= Len(stackMap)' /\ t[2] < Len(slots')
      BY <1>4, <1>5, <2>4 DEF LiveSets, EmitterTypeOK
    <3>3. \A id \in 0 .. (Len(slots') - 1) : LiveAt(Len(stackMap), id)' <=> id \in OldLiveSet'
      BY <1>5, <2>5, Zenon DEF LiveAt
    <3>4. QED
      BY <1>4, <1>5, <2>5, <3>1, <3>2, <3>3 DEF LiveSets
  <2>8. NoSlotsBefore' /\ UnvisitedFree'
    BY <1>1, <1>5, <2>4 DEF IInv, NoSlotsBefore, UnvisitedFree, PlacedPhases
  <2>9. QED
    BY <1>2, <1>3, <2>4, <2>5, <2>6, <2>7, <2>8 DEF IInv, TypeOK
<1>8. QED
  BY <1>6, <1>7

(* The heart of the translation: after the births and deaths of record n + 1
   are added, the runtime decodes the same liveness as before at the earlier
   safepoints and exactly the new live set at safepoint n + 1. *)
LEMMA BirthsAndDeaths ==
  ASSUME NEW n \in Nat, NEW id \in Nat, OldLiveSet \subseteq Nat, NewLiveSet \subseteq Nat,
         \A t \in transitions : t[1] <= n,
         transitions' = transitions \union {<<n + 1, i, "LIVE">> : i \in NewLiveSet \ OldLiveSet}
                        \union {<<n + 1, i, "DEAD">> : i \in OldLiveSet \ NewLiveSet},
         (\E b \in 1 .. n : /\ <<b, id, "LIVE">> \in transitions
                            /\ \A d \in (b + 1) .. n : <<d, id, "DEAD">> \notin transitions)
           <=> id \in OldLiveSet
  PROVE  /\ \A b \in 0 .. n, st \in States :
              <<b, id, st>> \in transitions' <=> <<b, id, st>> \in transitions
         /\ (\E b \in 1 .. (n + 1) :
                /\ <<b, id, "LIVE">> \in transitions'
                /\ \A d \in (b + 1) .. (n + 1) : <<d, id, "DEAD">> \notin transitions')
              <=> id \in NewLiveSet
<1>1. \A b, st : b \in 0 .. n => (<<b, id, st>> \in transitions' <=> <<b, id, st>> \in transitions)
  OBVIOUS
<1>2. \A st : <<n + 1, id, st>> \notin transitions
  OBVIOUS
<1>3. <<n + 1, id, "LIVE">> \in transitions' <=> id \in NewLiveSet \ OldLiveSet
  BY <1>2
<1>4. <<n + 1, id, "DEAD">> \in transitions' <=> id \in OldLiveSet \ NewLiveSet
  BY <1>2
<1>5. CASE id \in NewLiveSet \ OldLiveSet
  BY <1>3, <1>5
<1>6. CASE id \in NewLiveSet /\ id \in OldLiveSet
  <2>1. PICK b \in 1 .. n : /\ <<b, id, "LIVE">> \in transitions
                            /\ \A d \in (b + 1) .. n : <<d, id, "DEAD">> \notin transitions
    BY <1>6
  <2>2. <<b, id, "LIVE">> \in transitions'
    BY <1>1, <2>1
  <2>3. \A d \in (b + 1) .. (n + 1) : <<d, id, "DEAD">> \notin transitions'
    BY <1>1, <1>4, <1>6, <2>1
  <2>4. QED
    BY <1>1, <1>6, <2>2, <2>3
<1>7. CASE id \notin NewLiveSet
  <2> SUFFICES ASSUME NEW b \in 1 .. (n + 1), <<b, id, "LIVE">> \in transitions',
                      \A d \in (b + 1) .. (n + 1) : <<d, id, "DEAD">> \notin transitions'
               PROVE  FALSE
    BY <1>1, <1>7
  <2>1. b \in 1 .. n
    BY <1>3, <1>7
  <2>2. id \notin OldLiveSet
    BY <1>4, <1>7, <2>1
  <2>3. \A d \in (b + 1) .. n : <<d, id, "DEAD">> \notin transitions
    BY <1>1, <2>1
  <2>4. <<b, id, "LIVE">> \in transitions
    BY <1>1, <2>1
  <2>5. QED
    BY <2>1, <2>2, <2>3, <2>4
<1>8. QED
  BY <1>1, <1>5, <1>6, <1>7

(* The end of a record preserves the invariant: one more safepoint is described,
   exactly, and the earlier ones are described as before. *)
LEMMA endRecordStep == IInv /\ endRecord => IInv'
<1> SUFFICES ASSUME IInv, endRecord PROVE IInv'
  OBVIOUS
<1>0. PICK n \in Nat : n = Len(stackMap)
  BY DEF IInv, TypeOK, EmitterTypeOK
<1> DEFINE ids == 0 .. (SlotMapSize - 1)
<1>1. phase = "tracked" /\ phase' = "tracked"
  BY DEF endRecord
<1>2. FuncInfoTypeOK' /\ RecordedEscape' /\ AllocasPlaced'
  BY <1>1, AllocasUntouched DEF endRecord, PlacedPhases
<1>3. SwitchesTypeOK'
  BY <1>1, Zenon DEF endRecord, IInv, TypeOK, SwitchesTypeOK, funcInfoVars
<1>4. EmitterTypeOK /\ SlotIdsDense /\ SlotMapExact /\ LiveSets /\ LivenessPreserved
  BY DEF IInv, TypeOK
<1>5. /\ n = Len(stackMap) /\ n < MaxRecords /\ MaxRecords \in Nat
      /\ Len(slots) \in Nat /\ SlotMapSize = Len(slots)
      /\ SlotMap \in [DOMAIN SlotMap -> Nat]
      /\ current \subseteq DOMAIN SlotMap
  BY <1>0, <1>4, EmitterAssumption
     DEF EmitterTypeOK, SlotIdsDense, LiveSets, endRecord, EmitterAssumption
<1>6. OldLiveSet \subseteq ids /\ NewLiveSet \subseteq ids
  <2>1. \A o \in DOMAIN SlotMap : SlotMap[o] \in ids
    BY <1>4, <1>5 DEF SlotMapExact
  <2>2. NewLiveSet \subseteq ids
    BY <1>4, <1>5, <2>1 DEF LiveSets
  <2>3. OldLiveSet \subseteq ids
    BY <1>4, <1>5, <2>1 DEF LiveSets
  <2>4. QED
    BY <2>2, <2>3
<1>7. transitions' = transitions \union {<<n + 1, i, "LIVE">> : i \in NewLiveSet \ OldLiveSet}
                                 \union {<<n + 1, i, "DEAD">> : i \in OldLiveSet \ NewLiveSet}
  <2>1. \A t \in Births(n + 1) \union Deaths(n + 1) : t[2] \in ids
    BY <1>6 DEF Births, Deaths
  <2>2. {t \in Births(n + 1) \union Deaths(n + 1) : t[2] \in ids}
          = Births(n + 1) \union Deaths(n + 1)
    BY <2>1
  <2>3. transitions' = transitions \union {t \in Births(n + 1) \union Deaths(n + 1) : t[2] \in ids}
    BY <1>0 DEF endRecord
  <2>4. QED
    BY <2>2, <2>3 DEF Births, Deaths
<1>8. /\ OldLiveSet' = NewLiveSet
      /\ NewLiveSet' = {}
      /\ stackMap' = Append(stackMap, current)
      /\ current' = {}
      /\ UNCHANGED <<slots, SlotMap, callSites, pending, todo, todoFlags, NumTrackedSlots,
                     FirstTrackedSlot, LiveBitSetSize>>
      /\ SpillOffsets' = SpillOffsets
  BY <1>6 DEF endRecord, workVars, funcInfoVars, SpillOffsets
<1>9. /\ Len(stackMap') = n + 1
      /\ stackMap' \in Seq(SUBSET FrameOffsets)
      /\ \A r \in 1 .. n : stackMap'[r] = stackMap[r]
      /\ stackMap'[n + 1] = current
  BY <1>0, <1>4, <1>8 DEF EmitterTypeOK
<1>10. EmitterTypeOK'
  <2>1. transitions' \subseteq (1 .. MaxRecords) \X Nat \X States
    BY <1>4, <1>5, <1>6, <1>7 DEF EmitterTypeOK, States
  <2>2. QED
    BY <1>4, <1>5, <1>8, <1>9, <2>1 DEF EmitterTypeOK
<1>11. SlotIdsDense' /\ SlotMapExact'
  BY <1>4, <1>8 DEF SlotIdsDense, SlotMapSize, SlotMapExact
<1>12. ASSUME NEW id \in ids
       PROVE  /\ \A r \in 1 .. n : LiveAt(r, id)' <=> LiveAt(r, id)
              /\ LiveAt(n + 1, id)' <=> id \in NewLiveSet
  <2>1. /\ OldLiveSet \in SUBSET Nat /\ NewLiveSet \in SUBSET Nat /\ id \in Nat
        /\ \A t \in transitions : t[1] <= n
        /\ LiveAt(n, id) <=> id \in OldLiveSet
    BY <1>4, <1>5 DEF EmitterTypeOK, LiveSets
  <2>2. /\ \A b \in 0 .. n, st \in States :
             <<b, id, st>> \in transitions' <=> <<b, id, st>> \in transitions
        /\ (\E b \in 1 .. (n + 1) :
               /\ <<b, id, "LIVE">> \in transitions'
               /\ \A d \in (b + 1) .. (n + 1) : <<d, id, "DEAD">> \notin transitions')
             <=> id \in NewLiveSet
    <3>1. (\E b \in 1 .. n : /\ <<b, id, "LIVE">> \in transitions
                             /\ \A d \in (b + 1) .. n : <<d, id, "DEAD">> \notin transitions)
             <=> id \in OldLiveSet
      BY <2>1, Zenon DEF LiveAt
    <3>2. QED
      BY <1>7, <2>1, <3>1, BirthsAndDeaths
  <2>2a. \A b \in 0 .. n : \A st \in {"LIVE", "DEAD"} :
           <<b, id, st>> \in transitions' <=> <<b, id, st>> \in transitions
    BY <2>2, Zenon DEF States
  <2>3. \A r \in 1 .. n : LiveAt(r, id)' <=> LiveAt(r, id)
    <3> SUFFICES ASSUME NEW r \in 1 .. n PROVE LiveAt(r, id)' <=> LiveAt(r, id)
      OBVIOUS
    <3>1. \A b \in 1 .. r : <<b, id, "LIVE">> \in transitions' <=> <<b, id, "LIVE">> \in transitions
      <4>1. \A b \in 1 .. r : b \in 0 .. n
        OBVIOUS
      <4>2. QED
        BY <2>2a, <4>1, Zenon
    <3>2. \A b \in 1 .. r : \A d \in (b + 1) .. r :
            <<d, id, "DEAD">> \in transitions' <=> <<d, id, "DEAD">> \in transitions
      <4>1. \A b \in 1 .. r : \A d \in (b + 1) .. r : d \in 0 .. n
        OBVIOUS
      <4>2. QED
        BY <2>2a, <4>1, Zenon
    <3>3. QED
      BY <3>1, <3>2, Zenon DEF LiveAt
  <2>4. QED
    BY <2>2, <2>3 DEF LiveAt
<1>13. \A o \in DOMAIN SlotMap : SlotMap[o] \in ids
  BY <1>4, <1>5 DEF SlotMapExact
<1>14. LivenessPreserved'
  <2> SUFFICES ASSUME NEW r \in 1 .. (n + 1) PROVE Decoded(r)' = stackMap'[r]
    BY <1>9 DEF LivenessPreserved
  <2>1. CASE r \in 1 .. n
    <3>1. Decoded(r) = stackMap[r]
      BY <1>0, <1>4, <2>1 DEF LivenessPreserved
    <3>2. \A o \in DOMAIN SlotMap : LiveAt(r, SlotMap[o])' <=> LiveAt(r, SlotMap[o])
      BY <1>8, <1>12, <1>13, <2>1
    <3>3. QED
      BY <1>8, <1>9, <2>1, <3>1, <3>2 DEF Decoded
  <2>2. CASE r = n + 1
    <3>1. \A o \in DOMAIN SlotMap : LiveAt(r, SlotMap[o])' <=> SlotMap[o] \in NewLiveSet
      BY <1>8, <1>12, <1>13, <2>2
    <3>2. \A o \in DOMAIN SlotMap : SlotMap[o] \in NewLiveSet <=> o \in current
      BY <1>4, <1>5 DEF LiveSets, SlotMapExact
    <3>3. QED
      BY <1>5, <1>8, <1>9, <2>2, <3>1, <3>2 DEF Decoded
  <2>3. QED
    BY <1>5, <2>1, <2>2
<1>15. LiveSets'
  <2>1. \A r \in 1 .. (n + 1) : stackMap'[r] \subseteq DOMAIN SlotMap
    BY <1>4, <1>5, <1>9 DEF LiveSets
  <2>2. OldLiveSet' = {SlotMap[o] : o \in stackMap'[n + 1]}
    BY <1>4, <1>8, <1>9 DEF LiveSets
  <2>3. \A t \in transitions' : t[1] <= n + 1 /\ t[2] < Len(slots)
    <3>1. \A t \in transitions : t[1] <= n + 1 /\ t[2] < Len(slots)
      <4>1. \A t \in transitions : t[1] <= n /\ t[2] < Len(slots) /\ t[1] \in Nat
        BY <1>4, <1>5 DEF LiveSets, EmitterTypeOK
      <4>2. QED
        BY <4>1
    <3>2. \A i \in OldLiveSet \union NewLiveSet, st \in States :
            <<n + 1, i, st>>[1] <= n + 1 /\ <<n + 1, i, st>>[2] < Len(slots)
      BY <1>5, <1>6
    <3>3. QED
      BY <1>7, <3>1, <3>2 DEF States
  <2>4. \A id \in 0 .. (Len(slots) - 1) : LiveAt(n + 1, id)' <=> id \in OldLiveSet'
    BY <1>5, <1>8, <1>12
  <2>5. QED
    BY <1>5, <1>8, <1>9, <2>1, <2>2, <2>3, <2>4 DEF LiveSets
<1>16. NoSlotsBefore' /\ UnvisitedFree'
  BY <1>1, <1>8 DEF IInv, NoSlotsBefore, UnvisitedFree, PlacedPhases
<1>17. QED
  BY <1>2, <1>3, <1>10, <1>11, <1>14, <1>15, <1>16 DEF IInv, TypeOK

-----------------------------------------------------------------------------
(* The GC pointers of a placed alloca lie in the words it covers, in the frame. *)
LEMMA PointersInWords ==
  ASSUME IInv, phase \in PlacedPhases, NEW a \in DOMAIN AllocaMap
  PROVE  /\ PointerWords(a) \subseteq Words(a, AllocaMap[a].Offset)
         /\ PointerWords(a) \subseteq FrameOffsets
<1>1. /\ a \in Allocas
      /\ AllocaMap[a].Offset \in FrameOffsets
      /\ AllocaMap[a].Offset + Size[a] - 1 \in FrameOffsets
  BY DEF IInv, TypeOK, FuncInfoTypeOK, AllocasPlaced
<1>2. /\ Size[a] \in Nat /\ StackSize \in Nat
      /\ GcPtrOffsets[a] \subseteq 0 .. (Size[a] - 1)
  BY <1>1, FrameAssumption DEF FrameAssumption
<1>3. QED
  BY <1>1, <1>2 DEF PointerWords, Words, FrameOffsets, StackPointerSize

(* The end of the stack map preserves the invariant: the words of the allocas, to
   be visited now, are none of those the tracked slots were given for. *)
LEMMA endTrackedStep == IInv /\ endTracked => IInv'
<1> SUFFICES ASSUME IInv, endTracked PROVE IInv'
  OBVIOUS
<1>1. phase = "tracked" /\ phase' = "untracked" /\ phase \in PlacedPhases
  BY DEF endTracked, PlacedPhases
<1>2. FuncInfoTypeOK' /\ RecordedEscape' /\ AllocasPlaced'
  BY <1>1, AllocasUntouched DEF endTracked, PlacedPhases
<1>3. SwitchesTypeOK'
  BY <1>1, Zenon DEF endTracked, IInv, TypeOK, SwitchesTypeOK, funcInfoVars
<1>4. EmitterTypeOK'
  BY DEF endTracked, IInv, TypeOK, EmitterTypeOK, FuncInfoTypeOK, trackedVars
<1>5. SlotIdsDense' /\ SlotMapExact' /\ LiveSets' /\ LivenessPreserved'
  BY SlotsUntouched DEF endTracked, trackedVars
<1>6. UnvisitedFree'
  <2>1. /\ pending' = DOMAIN AllocaMap' /\ AllocaMap' = AllocaMap
        /\ SlotMap' = SlotMap /\ todo' = {}
    BY <1>1 DEF endTracked, funcInfoVars, IInv, UnvisitedFree
  <2>2. ASSUME NEW a \in DOMAIN AllocaMap
        PROVE  PointerWords(a) \intersect DOMAIN SlotMap = {}
    <3>1. PointerWords(a) \subseteq Words(a, AllocaMap[a].Offset)
      BY <1>1, PointersInWords
    <3>2. DOMAIN SlotMap \subseteq SpillOffsets
      BY <1>1 DEF IInv, UnvisitedFree
    <3>3. QED
      BY <3>1, <3>2 DEF SpillOffsets
  <2>3. \A a : PointerWords(a)' = PointerWords(a)
    BY <2>1 DEF PointerWords
  <2>4. QED
    BY <1>1, <2>1, <2>2, <2>3 DEF UnvisitedFree
<1>7. NoSlotsBefore'
  BY <1>1 DEF NoSlotsBefore, PlacedPhases
<1>8. QED
  BY <1>2, <1>3, <1>4, <1>5, <1>6, <1>7 DEF IInv, TypeOK

(* Visiting an alloca preserves the invariant: its pointers have no slot yet, and
   none of them belongs to an alloca still to be visited. *)
LEMMA visitAllocaStep ==
  ASSUME IInv, NEW a \in pending, visitAlloca(a)
  PROVE  IInv'
<1>1. phase = "untracked" /\ phase' = "untracked" /\ phase \in PlacedPhases
  BY DEF visitAlloca, PlacedPhases
<1>2. FuncInfoTypeOK' /\ RecordedEscape' /\ AllocasPlaced'
  BY <1>1, AllocasUntouched DEF visitAlloca, PlacedPhases
<1>3. SwitchesTypeOK'
  BY <1>1, Zenon DEF visitAlloca, IInv, TypeOK, SwitchesTypeOK, funcInfoVars
<1>4. /\ todo' \subseteq PointerWords(a) /\ pending' = pending \ {a}
      /\ AllocaMap' = AllocaMap /\ SlotMap' = SlotMap
  BY DEF visitAlloca, funcInfoVars
<1>5. pending \subseteq DOMAIN AllocaMap
  BY <1>1 DEF IInv, UnvisitedFree
<1>6. \A b \in pending : /\ PointerWords(b) \subseteq Words(b, AllocaMap[b].Offset)
                         /\ PointerWords(b) \subseteq FrameOffsets
  BY <1>1, <1>5, PointersInWords
<1>7. EmitterTypeOK'
  <2>1. todoFlags' \subseteq SlotFlags
    BY DEF visitAlloca, untrackedFlags, SlotFlags
  <2>2. todo' \subseteq FrameOffsets
    BY <1>4, <1>6
  <2>3. QED
    BY <1>4, <2>1, <2>2 DEF visitAlloca, IInv, TypeOK, EmitterTypeOK, trackedVars
<1>8. SlotIdsDense' /\ SlotMapExact' /\ LiveSets' /\ LivenessPreserved'
  BY SlotsUntouched DEF visitAlloca, trackedVars
<1>9. UnvisitedFree'
  <2>1. \A b \in pending : PointerWords(b) \intersect DOMAIN SlotMap = {}
    BY <1>1 DEF IInv, UnvisitedFree
  <2>2. \A b \in pending' : PointerWords(b) \intersect todo' = {}
    <3>1. \A b \in pending \ {a} :
            Words(a, AllocaMap[a].Offset) \intersect Words(b, AllocaMap[b].Offset) = {}
      BY <1>1, <1>5 DEF IInv, AllocasPlaced
    <3>2. QED
      BY <1>4, <1>6, <3>1
  <2>3. \A b : PointerWords(b)' = PointerWords(b)
    BY <1>4 DEF PointerWords
  <2>4. todo' \intersect DOMAIN SlotMap = {}
    BY <1>4, <2>1
  <2>5. QED
    BY <1>1, <1>4, <1>5, <2>1, <2>2, <2>3, <2>4 DEF UnvisitedFree
<1>10. NoSlotsBefore'
  BY <1>1 DEF NoSlotsBefore, PlacedPhases
<1>11. QED
  BY <1>2, <1>3, <1>7, <1>8, <1>9, <1>10 DEF IInv, TypeOK

(* Giving a slot to a pointer of an alloca preserves the invariant; in particular
   the safepoints stay described as they were. *)
LEMMA getUntrackedSlotStep ==
  ASSUME IInv, NEW offset \in todo, getUntrackedSlot(offset)
  PROVE  IInv'
<1>1. phase = "untracked" /\ phase' = "untracked" /\ phase \in PlacedPhases
  BY DEF getUntrackedSlot, PlacedPhases
<1>2. FuncInfoTypeOK' /\ RecordedEscape' /\ AllocasPlaced'
  BY <1>1, AllocasUntouched DEF getUntrackedSlot, PlacedPhases
<1>3. SwitchesTypeOK'
  BY <1>1, Zenon DEF getUntrackedSlot, IInv, TypeOK, SwitchesTypeOK, funcInfoVars
<1>4. EmitterTypeOK /\ SlotIdsDense /\ SlotMapExact /\ LiveSets
  BY DEF IInv, TypeOK
<1>5. offset \in FrameOffsets /\ offset \notin DOMAIN SlotMap /\ todoFlags \in SUBSET SlotFlags
  BY <1>1, <1>4 DEF IInv, UnvisitedFree, EmitterTypeOK
<1>6. getSlot(offset, todoFlags)
  BY DEF getUntrackedSlot
<1>7. /\ slots' \in Seq([Offset : Int, Flags : SUBSET SlotFlags])
      /\ Len(slots') = Len(slots) + 1
      /\ DOMAIN SlotMap' = DOMAIN SlotMap \union {offset}
      /\ DOMAIN SlotMap' \subseteq FrameOffsets
      /\ SlotMap' \in [DOMAIN SlotMap' -> Nat]
      /\ SlotMap'[offset] = Len(slots)
      /\ \A o \in DOMAIN SlotMap : SlotMap'[o] = SlotMap[o]
      /\ SlotIdsDense'
      /\ SlotMapExact'
  BY <1>4, <1>5, <1>6, GetSlot
<1>8. /\ UNCHANGED <<transitions, stackMap, OldLiveSet, NewLiveSet, current, callSites,
                     FirstTrackedSlot, NumTrackedSlots, LiveBitSetSize, pending, todoFlags,
                     AllocaMap>>
      /\ todo' = todo \ {offset}
  BY DEF getUntrackedSlot, trackedVars, funcInfoVars
<1>9. /\ \A r \in 1 .. Len(stackMap) : stackMap[r] \subseteq DOMAIN SlotMap'
      /\ Len(stackMap) > 0 => OldLiveSet = {SlotMap'[o] : o \in stackMap[Len(stackMap)]}
      /\ \A id \in 0 .. (Len(slots') - 1) :
           LiveAt(Len(stackMap), id) <=> id \in OldLiveSet
      /\ LivenessPreserved'
  BY <1>5, <1>7, <1>8, FreshSlot
<1>10. EmitterTypeOK'
  BY <1>4, <1>7, <1>8 DEF EmitterTypeOK
<1>11. LiveSets'
  <2>1. current' \subseteq DOMAIN SlotMap' /\ NewLiveSet' = {SlotMap'[o] : o \in current'}
    BY <1>4, <1>7, <1>8 DEF LiveSets
  <2>2. \A t \in transitions' : t[1] <= Len(stackMap)' /\ t[2] < Len(slots')
    BY <1>4, <1>7, <1>8 DEF LiveSets, EmitterTypeOK
  <2>3. \A id \in 0 .. (Len(slots') - 1) : LiveAt(Len(stackMap), id)' <=> id \in OldLiveSet'
    BY <1>8, <1>9, Zenon DEF LiveAt
  <2>4. QED
    BY <1>4, <1>8, <1>9, <2>1, <2>2, <2>3 DEF LiveSets
<1>12. UnvisitedFree'
  <2>1. \A b : PointerWords(b)' = PointerWords(b)
    BY <1>8 DEF PointerWords
  <2>2. QED
    BY <1>1, <1>7, <1>8, <2>1 DEF IInv, UnvisitedFree
<1>13. NoSlotsBefore'
  BY <1>1 DEF NoSlotsBefore, PlacedPhases
<1>14. QED
  BY <1>2, <1>3, <1>7, <1>9, <1>10, <1>11, <1>12, <1>13 DEF IInv, TypeOK

(* finalizeEncoding and emitEncoding preserve the invariant: no slot and no
   safepoint is touched any more. *)
LEMMA FinishStep == IInv /\ (finalizeEncoding \/ emitEncoding) => IInv'
<1> SUFFICES ASSUME IInv, finalizeEncoding \/ emitEncoding PROVE IInv'
  OBVIOUS
<1>1. phase \in {"untracked", "emit"} /\ phase' \in {"emit", "emitted"} /\ UNCHANGED funcInfoVars
  BY DEF finalizeEncoding, emitEncoding
<1>2. FuncInfoTypeOK' /\ RecordedEscape' /\ AllocasPlaced'
  BY <1>1, AllocasUntouched DEF PlacedPhases
<1>3. SwitchesTypeOK'
  <2>1. UNCHANGED <<HasFunclets, reporting, header>>
    BY DEF finalizeEncoding, emitEncoding, funcInfoVars, emitterVars
  <2>2. QED
    BY <1>1, <2>1, Zenon DEF IInv, TypeOK, SwitchesTypeOK
<1>4. EmitterTypeOK'
  BY DEF finalizeEncoding, emitEncoding, IInv, TypeOK, EmitterTypeOK, trackedVars, workVars,
         emitterVars
<1>5. SlotIdsDense' /\ SlotMapExact' /\ LiveSets' /\ LivenessPreserved'
  <2>1. UNCHANGED <<slots, SlotMap, transitions, stackMap, OldLiveSet, NewLiveSet, current>>
    BY DEF finalizeEncoding, emitEncoding, trackedVars, emitterVars
  <2>2. QED
    BY <2>1, SlotsUntouched
<1>6. NoSlotsBefore' /\ UnvisitedFree'
  BY <1>1 DEF NoSlotsBefore, UnvisitedFree, PlacedPhases
<1>7. QED
  BY <1>2, <1>3, <1>4, <1>5, <1>6 DEF IInv, TypeOK

(* A step that changes nothing preserves the invariant. *)
LEMMA StutterStep == IInv /\ UNCHANGED vars => IInv'
<1> SUFFICES ASSUME IInv, UNCHANGED vars PROVE IInv'
  OBVIOUS
<1> USE DEF vars, funcInfoVars, emitterVars
<1>1. FuncInfoTypeOK' /\ EmitterTypeOK'
  BY DEF IInv, TypeOK, FuncInfoTypeOK, EmitterTypeOK
<1>2. SwitchesTypeOK'
  BY Zenon DEF IInv, TypeOK, SwitchesTypeOK
<1>3. RecordedEscape' /\ AllocasPlaced'
  BY DEF IInv, RecordedEscape, AllocasPlaced, Words
<1>4. NoSlotsBefore' /\ UnvisitedFree'
  BY DEF IInv, NoSlotsBefore, UnvisitedFree, SpillOffsets, Words, PointerWords
<1>5. SlotIdsDense' /\ SlotMapExact' /\ LiveSets' /\ LivenessPreserved'
  BY SlotsUntouched
<1>6. QED
  BY <1>1, <1>2, <1>3, <1>4, <1>5 DEF IInv, TypeOK

-----------------------------------------------------------------------------
(* The invariant holds of the compilation of every function. *)
THEOREM Invariance == Spec => []IInv
<1>1. IInv /\ [Next]_vars => IInv'
  <2> SUFFICES ASSUME IInv, [Next]_vars PROVE IInv'
    OBVIOUS
  <2>1. CASE FuncInfoNext /\ UNCHANGED emitterVars
    BY <2>1, FuncInfoStep
  <2>2. CASE EmitterNext
    BY <2>2, encodeHeaderStep, readLocationStep, endRecordStep, endTrackedStep,
       visitAllocaStep, getUntrackedSlotStep, FinishStep DEF EmitterNext
  <2>3. CASE UNCHANGED vars
    BY <2>3, StutterStep
  <2>4. QED
    BY <2>1, <2>2, <2>3 DEF Next
<1>2. QED
  BY <1>1, IInvInit, PTL DEF Spec

(* Every value keeps its type: in particular encodeTrackedPointers and
   encodeUntrackedPointers ask for slots at frame offsets only. *)
THEOREM TypeCorrect == Spec => []TypeOK
<1>1. IInv => TypeOK
  BY DEF IInv
<1>2. QED
  BY <1>1, Invariance, PTL

(* Whatever the frame, the allocas and the records, the births and deaths that
   encodeTrackedPointers reports decode, at every safepoint, to exactly the
   locations LLVM recorded as live there. *)
THEOREM LivenessPreservation == Spec => []LivenessPreserved
<1>1. IInv => LivenessPreserved
  BY DEF IInv
<1>2. QED
  BY <1>1, Invariance, PTL

(* getSlot never gives an offset two slots, and the ids it returns are dense. *)
THEOREM SlotDensity == Spec => []SlotIdsDense
<1>1. IInv => SlotIdsDense
  BY DEF IInv
<1>2. QED
  BY <1>1, Invariance, PTL

(* What the runtime decodes is, safepoint by safepoint, what LLVM recorded. *)
LEMMA DecodedTable ==
  ASSUME IInv
  PROVE  /\ stackMap \in Seq(SUBSET FrameOffsets)
         /\ [r \in 1 .. Len(stackMap) |-> Decoded(r)] = stackMap
<1>1. stackMap \in Seq(SUBSET FrameOffsets)
  BY DEF IInv, TypeOK, EmitterTypeOK
<1>2. \A r \in 1 .. Len(stackMap) : Decoded(r) = stackMap[r]
  BY DEF IInv, LivenessPreserved
<1>3. QED
  BY <1>1, <1>2

(* Nothing is defined as a call site before finalizeEncoding, which is reached
   from the untracked slots, and these only after a record. *)
LEMMA TableStaysOpen == TableOpen /\ [Next]_vars => TableOpen'
<1> SUFFICES ASSUME TableOpen, [Next]_vars PROVE TableOpen'
  OBVIOUS
<1> USE DEF TableOpen
<1>1. CASE FuncInfoNext /\ UNCHANGED emitterVars
  BY <1>1 DEF FuncInfoNext, createSym, recordGenericsContext, recordSecurityObject,
              readerPostPass, runOnMachineFunction, emitterVars
<1>2. CASE encodeHeader
  BY <1>2 DEF encodeHeader
<1>3. CASE endRecord
  BY <1>3 DEF endRecord
<1>4. CASE endTracked
  BY <1>4 DEF endTracked, trackedVars
<1>5. CASE EmitterNext /\ ~encodeHeader /\ ~endRecord /\ ~endTracked
  BY <1>5 DEF EmitterNext, readLocation, visitAlloca, getUntrackedSlot,
              finalizeEncoding, emitEncoding, emitterVars, trackedVars
<1>6. CASE UNCHANGED vars
  BY <1>6 DEF vars, emitterVars
<1>7. QED
  BY <1>1, <1>2, <1>3, <1>4, <1>5, <1>6 DEF Next

(* Only the end of a record describes a safepoint, and it describes one more;
   only finalizeEncoding defines call sites, one for each record. *)
LEMMA StackMapGrows ==
  ASSUME IInv, TableOpen, [Next]_vars
  PROVE  \/ UNCHANGED <<stackMap, callSites>>
         \/ /\ current \in SUBSET FrameOffsets /\ stackMap' = Append(stackMap, current)
            /\ callSites = 0 /\ UNCHANGED callSites
         \/ /\ stackMap # <<>> /\ UNCHANGED stackMap
            /\ callSites = 0 /\ callSites' = Len(stackMap)
<1> USE DEF emitterVars, trackedVars
<1>1. CASE FuncInfoNext /\ UNCHANGED emitterVars
  BY <1>1
<1>2. CASE endRecord
  BY <1>2 DEF endRecord, IInv, TypeOK, EmitterTypeOK, TableOpen
<1>3. CASE finalizeEncoding
  BY <1>3 DEF finalizeEncoding, TableOpen
<1>4. CASE EmitterNext /\ ~endRecord /\ ~finalizeEncoding
  BY <1>4 DEF EmitterNext, encodeHeader, readLocation, endTracked, visitAlloca,
              getUntrackedSlot, emitEncoding
<1>5. CASE UNCHANGED vars
  BY <1>5 DEF vars
<1>6. QED
  BY <1>1, <1>2, <1>3, <1>4, <1>5 DEF Next

(* The emitter implements GcTable: decoded, its births and deaths describe one
   safepoint after the other and never redescribe an earlier one, and the call
   sites that finalizeEncoding defines are as many as the safepoints. *)
THEOREM TableImplementation == Spec => ImplementsTable
<1>1. Init => Table!TableInit /\ TableOpen
  <2> SUFFICES ASSUME Init PROVE Table!TableInit /\ TableOpen
    OBVIOUS
  <2>1. stackMap = <<>> /\ callSites = 0 /\ phase = "reading"
    BY DEF Init, EmitterInit
  <2>2. QED
    BY <2>1 DEF Table!TableInit, TableOpen
<1>2. IInv /\ IInv' /\ TableOpen /\ [Next]_vars => [Table!TableNext]_(Table!tableVars)
  <2> SUFFICES ASSUME IInv, IInv', TableOpen, [Next]_vars
               PROVE  [Table!TableNext]_(Table!tableVars)
    OBVIOUS
  <2> DEFINE table == [r \in 1 .. Len(stackMap) |-> Decoded(r)]
  <2>1. table = stackMap
    BY DecodedTable
  <2>2. (table = stackMap)'
    BY DecodedTable, PTL
  <2>3. CASE UNCHANGED <<stackMap, callSites>>
    BY <2>1, <2>2, <2>3 DEF Table!tableVars
  <2>4. CASE /\ current \in SUBSET FrameOffsets /\ stackMap' = Append(stackMap, current)
             /\ callSites = 0 /\ UNCHANGED callSites
    BY <2>1, <2>2, <2>4 DEF Table!TableNext, Table!Describe
  <2>5. CASE /\ stackMap # <<>> /\ UNCHANGED stackMap
             /\ callSites = 0 /\ callSites' = Len(stackMap)
    BY <2>1, <2>2, <2>5 DEF Table!TableNext, Table!DefineCallSites
  <2>6. QED
    BY <2>3, <2>4, <2>5, StackMapGrows
<1>3. QED
  BY <1>1, <1>2, TableStaysOpen, Invariance, PTL DEF Spec, ImplementsTable, Table!TableSpec

-----------------------------------------------------------------------------
(* The tracked slots are the first ones: the invariant that isTrackedSlot, which
   only compares ids, depends on.  The live sets grow before they are too small. *)

Untracking == {"untracked", "emit", "emitted"}
TrackedInv ==
  /\ FirstTrackedSlot = 0
  /\ NumTrackedSlots <= Len(slots)
  /\ NumTrackedSlots <= LiveBitSetSize /\ LiveBitSetSize >= 1
  /\ phase \notin Untracking => NumTrackedSlots = Len(slots)
  /\ \A i \in 1 .. Len(slots) : "Untracked" \notin slots[i].Flags <=> i <= NumTrackedSlots
  /\ \A id \in OldLiveSet \union NewLiveSet : id < NumTrackedSlots
  /\ todo # {} => "Untracked" \in todoFlags

(* The GC allocas are recorded as they are created, and each pointer of those that
   were visited has its slot or is about to get it. *)
FlagsOf(a) == untrackedFlags("Pinned" \in AllocaMap[a].Flags, "GcAggregate" \in AllocaMap[a].Flags)
GcRecorded ==
  \A a \in created : isGcType(a) => a \in DOMAIN AllocaMap /\ AllocType[a] \in AllocaMap[a].Flags
VisitedHaveSlots ==
  phase \in Untracking /\ reporting =>
    \A a \in DOMAIN AllocaMap \ pending :
      AllocaMap[a].Flags \intersect {"GcPointer", "GcAggregate"} # {} =>
        \A o \in PointerWords(a) :
          \/ o \in todo /\ todoFlags = FlagsOf(a)
          \/ o \in DOMAIN SlotMap /\ slots[SlotMap[o] + 1].Flags = FlagsOf(a)
AllVisited == phase \in {"emit", "emitted"} /\ reporting => pending = {} /\ todo = {}
ReportInv == GcRecorded /\ VisitedHaveSlots /\ AllVisited

(* A step that requests no slot and reads no location keeps the tracked slots. *)
LEMMA TrackedUntouched ==
  ASSUME TrackedInv,
         UNCHANGED <<slots, FirstTrackedSlot, NumTrackedSlots, LiveBitSetSize, OldLiveSet, NewLiveSet>>,
         todo' # {} => "Untracked" \in todoFlags',
         phase' \notin Untracking => phase \notin Untracking
  PROVE  TrackedInv'
BY DEF TrackedInv

(* Reading a location keeps the tracked slots first, and its slot within bounds. *)
LEMMA readLocationTracked ==
  ASSUME IInv, IInv', TrackedInv, NEW offset \in SpillOffsets, readLocation(offset)
  PROVE  TrackedInv'
<1>1. /\ phase = "tracked" /\ phase' = phase /\ NumTrackedSlots = Len(slots)
      /\ UNCHANGED <<OldLiveSet, todo, todoFlags>>
      /\ NewLiveSet' = NewLiveSet \union {SlotMap'[offset]}
  BY DEF readLocation, workVars, TrackedInv, Untracking
<1>2. /\ slots \in Seq([Offset : Int, Flags : SUBSET SlotFlags]) /\ Len(slots) \in Nat
      /\ LiveBitSetSize \in Nat /\ NumTrackedSlots \in Nat /\ SlotMap \in [DOMAIN SlotMap -> Nat]
      /\ OldLiveSet \subseteq Nat /\ NewLiveSet \subseteq Nat
  BY DEF IInv, TypeOK, EmitterTypeOK
<1>3. CASE offset \in DOMAIN SlotMap
  <2>1. UNCHANGED <<slots, SlotMap, NumTrackedSlots, FirstTrackedSlot, LiveBitSetSize>>
    BY <1>3 DEF readLocation
  <2>2. SlotMap[offset] < Len(slots)
    BY <1>3 DEF IInv, SlotMapExact
  <2>3. QED
    BY <1>1, <1>2, <2>1, <2>2 DEF TrackedInv
<1>4. CASE offset \notin DOMAIN SlotMap
  <2>1. newTrackedSlot(offset) /\ getSlot(offset, {"Interior"})
    BY <1>4 DEF readLocation, newTrackedSlot
  <2>2. /\ Len(slots') = Len(slots) + 1
        /\ \A i \in 1 .. Len(slots) : slots'[i] = slots[i]
        /\ slots'[Len(slots) + 1].Flags = {"Interior"}
    BY <1>2, <2>1 DEF getSlot
  <2>3. SlotMap'[offset] = Len(slots)
    BY <2>1 DEF getSlot
  <2>4. NumTrackedSlots' = Len(slots') /\ FirstTrackedSlot' = 0
    BY <1>1, <1>2, <2>1, <2>2, <2>3 DEF newTrackedSlot, TrackedInv
  <2>5. LiveBitSetSize' >= Len(slots') /\ LiveBitSetSize' >= 1
    <3>1. Cardinality(DOMAIN SlotMap') = Len(slots')
      BY DEF IInv, SlotIdsDense, SlotMapSize
    <3>2. LiveBitSetSize' = IF Len(slots') > LiveBitSetSize THEN LiveBitSetSize + LiveBitSetSize
                            ELSE LiveBitSetSize
      BY <2>1, <3>1 DEF newTrackedSlot, grow
    <3>3. LiveBitSetSize >= Len(slots) /\ LiveBitSetSize >= 1
      BY <1>1 DEF TrackedInv
    <3>4. QED
      BY <1>2, <2>2, <3>2, <3>3
  <2>6. \A i \in 1 .. Len(slots') : "Untracked" \notin slots'[i].Flags
    <3>1. \A i \in 1 .. Len(slots) : "Untracked" \notin slots[i].Flags
      BY <1>1, <1>2 DEF TrackedInv
    <3>2. \A i \in 1 .. Len(slots') : i \in 1 .. Len(slots) \/ i = Len(slots) + 1
      BY <1>2, <2>2
    <3>3. QED
      BY <2>2, <3>1, <3>2
  <2>7. \A id \in OldLiveSet' \union NewLiveSet' : id < Len(slots')
    BY <1>1, <1>2, <2>2, <2>3 DEF TrackedInv
  <2>8. QED
    BY <1>1, <1>2, <2>2, <2>4, <2>5, <2>6, <2>7 DEF TrackedInv
<1>5. QED
  BY <1>3, <1>4

(* An untracked slot comes after all tracked ones. *)
LEMMA getUntrackedSlotTracked ==
  ASSUME IInv, TrackedInv, NEW offset \in todo, getUntrackedSlot(offset)
  PROVE  TrackedInv'
<1>1. /\ phase = "untracked" /\ phase' = phase /\ "Untracked" \in todoFlags
      /\ UNCHANGED <<OldLiveSet, NewLiveSet, todoFlags, FirstTrackedSlot, NumTrackedSlots, LiveBitSetSize>>
      /\ getSlot(offset, todoFlags)
  BY DEF getUntrackedSlot, trackedVars, TrackedInv
<1>2. /\ slots \in Seq([Offset : Int, Flags : SUBSET SlotFlags]) /\ Len(slots) \in Nat
      /\ NumTrackedSlots \in Nat
  BY DEF IInv, TypeOK, EmitterTypeOK
<1>3. /\ Len(slots') = Len(slots) + 1
      /\ \A i \in 1 .. Len(slots) : slots'[i] = slots[i]
      /\ slots'[Len(slots) + 1].Flags = todoFlags
  BY <1>1, <1>2 DEF getSlot
<1>4. ASSUME NEW i \in 1 .. Len(slots') PROVE "Untracked" \notin slots'[i].Flags <=> i <= NumTrackedSlots
  <2>1. CASE i = Len(slots) + 1
    BY <1>1, <1>2, <1>3, <2>1 DEF TrackedInv
  <2>2. CASE i # Len(slots) + 1
    <3>1. i \in 1 .. Len(slots)
      BY <1>2, <1>3, <2>2
    <3>2. QED
      BY <1>3, <3>1 DEF TrackedInv
  <2>3. QED
    BY <2>1, <2>2
<1>5. QED
  BY <1>1, <1>2, <1>3, <1>4 DEF TrackedInv, Untracking

(* The tracked slots stay the first ones. *)
LEMMA SpecTrackedInv == Spec => []TrackedInv
<1>1. Init => TrackedInv
  BY EmitterAssumption DEF Init, EmitterInit, TrackedInv, EmitterAssumption, Untracking
<1>2. IInv /\ IInv' /\ TrackedInv /\ [Next]_vars => TrackedInv'
  <2> SUFFICES ASSUME IInv, IInv', TrackedInv, [Next]_vars PROVE TrackedInv'
    OBVIOUS
  <2>1. CASE FuncInfoNext /\ UNCHANGED emitterVars
    <3>1. UNCHANGED <<slots, FirstTrackedSlot, NumTrackedSlots, LiveBitSetSize, OldLiveSet, NewLiveSet,
                      todo, todoFlags>>
      BY <2>1 DEF emitterVars
    <3>2. phase \notin Untracking
      BY <2>1 DEF FuncInfoNext, createSym, recordGenericsContext, recordSecurityObject, readerPostPass,
                  runOnMachineFunction, Untracking
    <3>3. QED
      BY <3>1, <3>2, TrackedUntouched DEF TrackedInv
  <2>2. CASE encodeHeader
    <3>1. UNCHANGED <<slots, FirstTrackedSlot, NumTrackedSlots, LiveBitSetSize, OldLiveSet, NewLiveSet,
                      todo, todoFlags>> /\ phase = "header"
      BY <2>2 DEF encodeHeader, workVars, trackedVars
    <3>2. QED
      BY <3>1, TrackedUntouched DEF TrackedInv, Untracking
  <2>3. CASE \E offset \in SpillOffsets : readLocation(offset)
    BY <2>3, readLocationTracked
  <2>4. CASE endRecord
    <3>1. /\ UNCHANGED <<phase, slots, FirstTrackedSlot, NumTrackedSlots, LiveBitSetSize, todo, todoFlags>>
          /\ OldLiveSet' \subseteq OldLiveSet \union NewLiveSet /\ NewLiveSet' \subseteq NewLiveSet
      BY <2>4 DEF endRecord, workVars
    <3>2. QED
      BY <3>1 DEF TrackedInv
  <2>5. CASE endTracked
    <3>1. UNCHANGED <<slots, FirstTrackedSlot, NumTrackedSlots, LiveBitSetSize, OldLiveSet, NewLiveSet,
                      todo, todoFlags>> /\ phase' = "untracked"
      BY <2>5 DEF endTracked, trackedVars
    <3>2. QED
      BY <3>1, TrackedUntouched DEF TrackedInv, Untracking
  <2>6. CASE \E a \in pending : visitAlloca(a)
    <3>1. UNCHANGED <<slots, FirstTrackedSlot, NumTrackedSlots, LiveBitSetSize, OldLiveSet, NewLiveSet, phase>>
          /\ "Untracked" \in todoFlags'
      BY <2>6 DEF visitAlloca, trackedVars, untrackedFlags
    <3>2. QED
      BY <3>1, TrackedUntouched
  <2>7. CASE \E offset \in todo : getUntrackedSlot(offset)
    BY <2>7, getUntrackedSlotTracked
  <2>8. CASE finalizeEncoding \/ emitEncoding
    <3>1. UNCHANGED <<slots, FirstTrackedSlot, NumTrackedSlots, LiveBitSetSize, OldLiveSet, NewLiveSet,
                      todo, todoFlags>> /\ phase' \in Untracking
      BY <2>8 DEF finalizeEncoding, emitEncoding, trackedVars, workVars, emitterVars, Untracking
    <3>2. QED
      BY <3>1, TrackedUntouched DEF TrackedInv
  <2>9. CASE UNCHANGED vars
    BY <2>9, TrackedUntouched DEF vars, emitterVars, TrackedInv
  <2>10. QED
    BY <2>1, <2>2, <2>3, <2>4, <2>5, <2>6, <2>7, <2>8, <2>9 DEF Next, EmitterNext
<1>3. QED
  BY <1>1, <1>2, Invariance, PTL DEF Spec

(* encodeTrackedPointers never indexes its live sets outside their size, from any
   initial size, and isTrackedSlot is right about every slot. *)
THEOREM LiveSetsBounded == Spec => []LiveSetsInBounds
<1>1. IInv /\ TrackedInv => LiveSetsInBounds
  <2> SUFFICES ASSUME IInv, TrackedInv PROVE LiveSetsInBounds
    OBVIOUS
  <2>1. /\ OldLiveSet \subseteq Nat /\ NewLiveSet \subseteq Nat /\ NumTrackedSlots \in Nat
        /\ LiveBitSetSize \in Nat
    BY DEF IInv, TypeOK, EmitterTypeOK
  <2>2. QED
    BY <2>1 DEF LiveSetsInBounds, TrackedInv, isTrackedSlot
<1>2. QED
  BY <1>1, Invariance, SpecTrackedInv, PTL

(* The reader and the recorder keep the GC allocas recorded. *)
LEMMA FuncInfoReports ==
  ASSUME IInv, ReportInv, FuncInfoNext, UNCHANGED emitterVars
  PROVE  ReportInv'
<1>0. FuncInfoTypeOK /\ GcRecorded
  BY DEF IInv, TypeOK, ReportInv
<1>1. phase' \notin Untracking
  BY DEF FuncInfoNext, createSym, recordGenericsContext, recordSecurityObject, readerPostPass,
         runOnMachineFunction, Untracking
<1>2. ASSUME NEW a \in Allocas, NEW flag, created' = created \union {a},
             \/ AllocaMap' = recordAlloca(AllocaMap, a)
             \/ AllocaMap' = markAlloca(recordAlloca(AllocaMap, a), a, flag)
      PROVE  GcRecorded'
  <2> DEFINE map == recordAlloca(AllocaMap, a)
  <2>1. /\ DOMAIN map = DOMAIN AllocaMap \union {a}
        /\ map[a].Flags = {AllocType[a]} \ {"NonGc"}
        /\ \A b \in DOMAIN AllocaMap : b # a => map[b] = AllocaMap[b]
    BY DEF recordAlloca
  <2>2. AllocaMap' = map \/ AllocaMap' = markAlloca(map, a, flag)
    BY <1>2
  <2> HIDE DEF map
  <2>3. /\ DOMAIN AllocaMap' = DOMAIN AllocaMap \union {a}
        /\ map[a].Flags \subseteq AllocaMap'[a].Flags
        /\ \A b \in DOMAIN AllocaMap : b # a => AllocaMap'[b] = AllocaMap[b]
    <3>1. CASE AllocaMap' = map
      BY <2>1, <3>1
    <3>2. CASE AllocaMap' = markAlloca(map, a, flag)
      BY <2>1, <3>2 DEF markAlloca
    <3>3. QED
      BY <2>2, <3>1, <3>2
  <2>4. isGcType(a) => AllocType[a] \in AllocaMap'[a].Flags
    <3>1. isGcType(a) => AllocType[a] \in {AllocType[a]} \ {"NonGc"}
      BY DEF isGcType
    <3>2. QED
      BY <2>1, <2>3, <3>1
  <2>5. QED
    BY <1>0, <1>2, <2>3, <2>4 DEF GcRecorded, isGcType
<1>3. GcRecorded'
  <2>1. ASSUME NEW a \in Allocas, NEW IsPinned \in BOOLEAN, createSym(a, IsPinned)
        PROVE  GcRecorded'
    <3>1. CASE ~isGcType(a)
      BY <1>0, <2>1, <3>1 DEF createSym, GcRecorded, isGcType
    <3>2. CASE isGcType(a)
      <4>1. /\ created' = created \union {a}
            /\ AllocaMap' \in {recordAlloca(AllocaMap, a), markAlloca(recordAlloca(AllocaMap, a), a, "Pinned")}
        BY <2>1, <3>2 DEF createSym
      <4>2. QED
        BY <1>2, <4>1
    <3>3. QED
      BY <3>1, <3>2
  <2>2. ASSUME NEW a \in Allocas, recordGenericsContext(a) \/ recordSecurityObject(a)
        PROVE  GcRecorded'
    <3>1. PICK flag : /\ created' = created \union {a}
                      /\ AllocaMap' = markAlloca(recordAlloca(AllocaMap, a), a, flag)
      BY <2>2 DEF recordGenericsContext, recordSecurityObject
    <3>2. QED
      BY <1>2, <3>1
  <2>3. CASE readerPostPass
    BY <1>0, <2>3 DEF readerPostPass, GcRecorded, isGcType
  <2>4. ASSUME NEW layout \in FrameLayouts, NEW hasPSPSym \in BOOLEAN,
               runOnMachineFunction(layout, hasPSPSym)
        PROVE  GcRecorded'
    <3>1. DOMAIN AllocaMap' = DOMAIN AllocaMap /\ created' = created
          /\ \A a \in DOMAIN AllocaMap : AllocaMap'[a].Flags = AllocaMap[a].Flags
      BY <2>4 DEF runOnMachineFunction
    <3>2. QED
      BY <1>0, <3>1 DEF GcRecorded, isGcType
  <2>5. QED
    BY <2>1, <2>2, <2>3, <2>4 DEF FuncInfoNext
<1>4. QED
  BY <1>1, <1>3 DEF ReportInv, VisitedHaveSlots, AllVisited, Untracking

(* Visiting an alloca puts all its pointers on the list. *)
LEMMA visitAllocaReports ==
  ASSUME IInv, ReportInv, NEW a \in pending, visitAlloca(a)
  PROVE  ReportInv'
<1>1. /\ UNCHANGED <<phase, reporting, created, AllocaMap, SlotMap, slots>>
      /\ phase = "untracked" /\ todo = {} /\ pending' = pending \ {a}
      /\ todo' = IF AllocaMap[a].Flags \intersect {"GcPointer", "GcAggregate"} # {} THEN PointerWords(a) ELSE {}
      /\ todoFlags' = FlagsOf(a)
  BY DEF visitAlloca, funcInfoVars, FlagsOf
<1>2. (\A b : PointerWords(b)' = PointerWords(b)) /\ (\A b : FlagsOf(b)' = FlagsOf(b))
  BY <1>1 DEF PointerWords, FlagsOf, untrackedFlags
<1>3. GcRecorded' /\ AllVisited'
  BY <1>1 DEF ReportInv, GcRecorded, isGcType, AllVisited
<1>4. VisitedHaveSlots'
  <2> SUFFICES ASSUME reporting, NEW b \in DOMAIN AllocaMap, b \notin pending \/ b = a,
                      AllocaMap[b].Flags \intersect {"GcPointer", "GcAggregate"} # {},
                      NEW o \in PointerWords(b)
               PROVE  \/ o \in todo' /\ todoFlags' = FlagsOf(b)
                      \/ o \in DOMAIN SlotMap /\ slots[SlotMap[o] + 1].Flags = FlagsOf(b)
    BY <1>1, <1>2 DEF VisitedHaveSlots
  <2>1. CASE b = a
    BY <1>1, <2>1
  <2>2. CASE b # a
    BY <1>1, <2>2 DEF ReportInv, VisitedHaveSlots, Untracking
  <2>3. QED
    BY <2>1, <2>2
<1>5. QED
  BY <1>3, <1>4 DEF ReportInv

(* A pointer that leaves the list has its slot, with the flags of its alloca. *)
LEMMA getUntrackedSlotReports ==
  ASSUME IInv, ReportInv, NEW offset \in todo, getUntrackedSlot(offset)
  PROVE  ReportInv'
<1>1. /\ UNCHANGED <<phase, reporting, created, AllocaMap, pending, todoFlags>>
      /\ phase = "untracked" /\ todo' = todo \ {offset} /\ getSlot(offset, todoFlags)
  BY DEF getUntrackedSlot, funcInfoVars
<1>2. (\A b : PointerWords(b)' = PointerWords(b)) /\ (\A b : FlagsOf(b)' = FlagsOf(b))
  BY <1>1 DEF PointerWords, FlagsOf, untrackedFlags
<1>3. GcRecorded' /\ AllVisited'
  BY <1>1 DEF ReportInv, GcRecorded, isGcType, AllVisited
<1>4. /\ slots \in Seq([Offset : Int, Flags : SUBSET SlotFlags]) /\ Len(slots) \in Nat
      /\ \A o \in DOMAIN SlotMap : SlotMap[o] \in Nat /\ SlotMap[o] < Len(slots)
      /\ offset \notin DOMAIN SlotMap
  BY <1>1 DEF IInv, TypeOK, EmitterTypeOK, SlotMapExact, UnvisitedFree
<1>5. /\ \A i \in 1 .. Len(slots) : slots'[i] = slots[i]
      /\ slots'[Len(slots) + 1].Flags = todoFlags
      /\ DOMAIN SlotMap' = DOMAIN SlotMap \union {offset} /\ SlotMap'[offset] = Len(slots)
      /\ \A o \in DOMAIN SlotMap : SlotMap'[o] = SlotMap[o]
  BY <1>1, <1>4 DEF getSlot
<1>6. VisitedHaveSlots'
  <2> SUFFICES ASSUME reporting, NEW b \in DOMAIN AllocaMap \ pending,
                      AllocaMap[b].Flags \intersect {"GcPointer", "GcAggregate"} # {},
                      NEW o \in PointerWords(b)
               PROVE  \/ o \in todo' /\ todoFlags' = FlagsOf(b)
                      \/ o \in DOMAIN SlotMap' /\ slots'[SlotMap'[o] + 1].Flags = FlagsOf(b)
    BY <1>1, <1>2 DEF VisitedHaveSlots
  <2>1. \/ o \in todo /\ todoFlags = FlagsOf(b)
        \/ o \in DOMAIN SlotMap /\ slots[SlotMap[o] + 1].Flags = FlagsOf(b)
    BY <1>1 DEF ReportInv, VisitedHaveSlots, Untracking
  <2>2. CASE o = offset
    BY <1>4, <1>5, <2>1, <2>2
  <2>3. CASE o # offset /\ o \in DOMAIN SlotMap /\ slots[SlotMap[o] + 1].Flags = FlagsOf(b)
    <3>1. SlotMap[o] + 1 \in 1 .. Len(slots)
      BY <1>4, <2>3
    <3>2. QED
      BY <1>5, <2>3, <3>1
  <2>4. CASE o # offset /\ o \in todo /\ todoFlags = FlagsOf(b)
    BY <1>1, <2>4
  <2>5. QED
    BY <2>1, <2>2, <2>3, <2>4
<1>7. QED
  BY <1>3, <1>6 DEF ReportInv

(* The allocas are recorded, and the pointers of the visited ones have slots. *)
LEMMA SpecReportInv == Spec => []ReportInv
<1>1. Init => ReportInv
  BY DEF Init, FuncInfoInit, EmitterInit, ReportInv, GcRecorded, VisitedHaveSlots, AllVisited, Untracking
<1>2. IInv /\ ReportInv /\ [Next]_vars => ReportInv'
  <2> SUFFICES ASSUME IInv, ReportInv, [Next]_vars PROVE ReportInv'
    OBVIOUS
  <2>1. CASE FuncInfoNext /\ UNCHANGED emitterVars
    BY <2>1, FuncInfoReports
  <2>2. CASE \E a \in pending : visitAlloca(a)
    BY <2>2, visitAllocaReports
  <2>3. CASE \E offset \in todo : getUntrackedSlot(offset)
    BY <2>3, getUntrackedSlotReports
  <2>4. CASE encodeHeader \/ (\E offset \in SpillOffsets : readLocation(offset)) \/ endRecord
    <3>1. UNCHANGED <<created, AllocaMap, reporting>> /\ (phase' \in Untracking => ~reporting)
      BY <2>4 DEF encodeHeader, readLocation, endRecord, funcInfoVars, Untracking
    <3>2. QED
      BY <3>1 DEF ReportInv, GcRecorded, isGcType, VisitedHaveSlots, AllVisited, Untracking
  <2>5. CASE endTracked
    <3>1. UNCHANGED <<created, AllocaMap, reporting>> /\ pending' = DOMAIN AllocaMap /\ phase' = "untracked"
      BY <2>5 DEF endTracked, funcInfoVars
    <3>2. QED
      BY <3>1 DEF ReportInv, GcRecorded, isGcType, VisitedHaveSlots, AllVisited, Untracking
  <2>6. CASE finalizeEncoding \/ emitEncoding \/ UNCHANGED vars
    <3>1. /\ UNCHANGED <<created, AllocaMap, reporting, pending, todo, todoFlags, SlotMap, slots>>
          /\ phase' \in Untracking => phase \in Untracking
          /\ phase' \in {"emit", "emitted"} => \/ phase \in {"emit", "emitted"}
                                               \/ pending = {} /\ todo = {}
      BY <2>6 DEF finalizeEncoding, emitEncoding, funcInfoVars, workVars, trackedVars, emitterVars, vars, Untracking
    <3>2. (\A b : PointerWords(b)' = PointerWords(b)) /\ (\A b : FlagsOf(b)' = FlagsOf(b))
      BY <3>1 DEF PointerWords, FlagsOf, untrackedFlags
    <3>3. VisitedHaveSlots'
      BY <3>1, <3>2 DEF ReportInv, VisitedHaveSlots
    <3>4. QED
      BY <3>1, <3>3 DEF ReportInv, GcRecorded, isGcType, AllVisited
  <2>7. QED
    BY <2>1, <2>2, <2>3, <2>4, <2>5, <2>6 DEF Next, EmitterNext
<1>3. QED
  BY <1>1, <1>2, Invariance, PTL DEF Spec

(* Every GC pointer of every GC alloca the reader ever created has an untracked slot
   when the table is emitted, pinned exactly if the local was: whatever the order in
   which the hashed map hands the allocas out, and wherever the frame put them. *)
THEOREM AllocasReportedHolds == Spec => []AllocasReported
<1>1. IInv /\ ReportInv => AllocasReported
  <2> SUFFICES ASSUME IInv, ReportInv, phase = "emitted", reporting,
                      NEW a \in created, isGcType(a), NEW r \in GcPtrOffsets[a]
               PROVE  LET o == AllocaMap[a].Offset + r
                      IN  /\ a \in DOMAIN AllocaMap
                          /\ o \in DOMAIN SlotMap
                          /\ "Untracked" \in slots[SlotMap[o] + 1].Flags
                          /\ isPinned(a) <=> "Pinned" \in slots[SlotMap[o] + 1].Flags
    BY DEF AllocasReported
  <2> DEFINE o == AllocaMap[a].Offset + r
  <2>1. a \in DOMAIN AllocaMap /\ AllocaMap[a].Flags \intersect {"GcPointer", "GcAggregate"} # {}
    BY DEF ReportInv, GcRecorded, isGcType
  <2>2. pending = {} /\ todo = {}
    BY DEF ReportInv, AllVisited
  <2>3. o \in PointerWords(a)
    BY DEF PointerWords
  <2>4. o \in DOMAIN SlotMap /\ slots[SlotMap[o] + 1].Flags = FlagsOf(a)
    BY <2>1, <2>2, <2>3 DEF ReportInv, VisitedHaveSlots, Untracking
  <2>5. "Untracked" \in FlagsOf(a) /\ ("Pinned" \in FlagsOf(a) <=> isPinned(a))
    BY DEF FlagsOf, untrackedFlags, isPinned
  <2>6. QED
    BY <2>1, <2>4, <2>5
<1>2. QED
  BY <1>1, Invariance, SpecReportInv, PTL
=============================================================================
