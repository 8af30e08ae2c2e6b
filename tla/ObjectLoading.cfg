SPECIFICATION Spec
CONSTANTS
  MaxSections = 3
  Sizes = {5}
  Alignments = {4, 16}
  MaxFunclets = 2
  MaxCodes = 1
  MaxClauses = 2
  EntryKinds = {"plain", "handler"}
  Word32 = 256
  Word64 = 65536
  CodeAddress = 96
  Handle = 40
  MaxRows = 3
  Addresses = {0, 1, 2}
  ILOffsets = {0, 1}
  MaxEntries = 2
INVARIANTS SectionsFit UnwindAsReserved RelocationsReach DebugInfoAgrees
CHECK_DEADLOCK FALSE
