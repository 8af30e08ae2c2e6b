SPECIFICATION Spec
CONSTANTS
  Names = {"a", "b"}
  Digits <- MCDigits
  MaxPatterns = 2
  MaxTrailing = 1
  Threads = {"t1", "t2"}
  AltJitSets = {"AltJit"}
  Queries <- MCQueries
INVARIANTS OneListSurvives SelectsWhatIsWritten
PROPERTY QueriesEnd
CHECK_DEADLOCK FALSE
