SPECIFICATION Spec
CONSTANTS
  Names = {"a", "b"}
  Digits <- MCDigits
  MaxPatterns = 1
  MaxTrailing = 1
  Threads = {"t1", "t2"}
  AltJitSets = {"AltJit", "AltJitNgen"}
  Queries <- MCRaceQueries
INVARIANT ContainsInitialized
CHECK_DEADLOCK FALSE
