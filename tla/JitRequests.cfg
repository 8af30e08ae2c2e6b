SPECIFICATION Spec
CONSTANTS
  Classes = {"A"}
  MaxRequests = 3
INVARIANTS ObjectsOwned UnrecordedOnlyAfterFailure TransitionsLowered
PROPERTY AllAnswered
CHECK_DEADLOCK FALSE
