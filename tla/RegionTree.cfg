SPECIFICATION TreeSpec
CONSTANTS
  CodeSize = 5
  MaxClauses = 3
  ClauseKinds = {"Catch", "Filter", "Finally", "Fault"}
  ThreeKinds = {"Catch"}
INVARIANTS TreeFollowsRanges RegionsAgree UnwindsInnermost
PROPERTY ScanEnds
CHECK_DEADLOCK FALSE
