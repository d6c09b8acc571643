SPECIFICATION FairSpec
CONSTANTS
  Request = {1, 2, 3}
  QueueSize = 2
  PrefetchBufferSize = 1
  PrefetchDegree = 1
  LastLine = 1
  Invalid = Invalid
  numSets = 1
  DRCQueueSize = 1
  PerfectFills = {FALSE, TRUE}
  Predictors = {"none", "perfect", "variable"}
INVARIANTS TypeOK UnansweredRequestsAreInOnePlace
PROPERTIES RequestsAreAnswered
CHECK_DEADLOCK FALSE
