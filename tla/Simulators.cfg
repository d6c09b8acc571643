SPECIFICATION Spec
CONSTANTS
  Requests = 3
  Systems = 2
  Period <- MCPeriod
  Latency = {2}
  QueueSize = 1
  Never = Never
  Trace <- MCTrace
  SimulateCycles = {0, 3}
  Instance = {"cpu0", "cpu1"}
  Master = "cpu0"
  Packets <- MCPackets
  LastArrival = 1
  MaxDumps = 1
INVARIANTS TypeOK TraceAgreesWithMemory WaitersAreWoken PacketsOutliveTheirRequests
PROPERTIES WorkEnds
CHECK_DEADLOCK FALSE
