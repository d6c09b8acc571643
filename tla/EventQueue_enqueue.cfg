SPECIFICATION Spec
CONSTANTS
  Event = {e1, e2, e3}
  Kind = {"response", "cycle", "command"}
  Never = 4
  Horizon = 3
  MaxSteps = 2
  EnqueueFrom = {"response"}
INVARIANT NoEventIsLost
CHECK_DEADLOCK FALSE
