SPECIFICATION Spec
CONSTANTS
  CodeSize = 5
  MaxClauses = 1
  ClauseKinds = {"Catch"}
  ThreeKinds = {}
  MaxBranches = 2
INVARIANTS FlowAsInIL BlocksInOneRegion
CHECK_DEADLOCK FALSE
