SPECIFICATION Spec
CONSTANTS
  CodeSize = 5
  MaxClauses = 3
  ClauseKinds = {"Catch", "Finally"}
  ThreeKinds = {"Catch", "Finally"}
INVARIANTS LeavesRunFinallies ClonesAgree LeaveClosesCatches
CHECK_DEADLOCK FALSE
