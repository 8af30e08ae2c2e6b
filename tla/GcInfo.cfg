SPECIFICATION Spec
CONSTANTS
  Allocas = {"p", "g"}
  AllocType <- MCType
  Size <- MCSz
  GcPtrOffsets <- MCPtr
  StackSize = 3
  InitialBitSetSize = 1
  MaxRecords = 3
INVARIANTS
  TypeOK SlotIdsDense LivenessPreserved LiveSetsInBounds
  AllocasReported
PROPERTY ImplementsTable
CHECK_DEADLOCK FALSE
