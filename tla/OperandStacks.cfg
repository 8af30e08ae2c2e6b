SPECIFICATION Spec
CONSTANTS
  N = 3
  Types = {"Derived", "Other"}
  MaxBody = 1
  MaxDepth = 2
  MaxSplits = 1
  BackEdges = TRUE
  SharedTargets = TRUE
  Pads = TRUE
INVARIANTS
  ReadsReachableOnce EntryStackAsInIL PhisComplete PhisClosestSuperclass
PROPERTY EntrySettled
