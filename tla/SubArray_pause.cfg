SPECIFICATION HistorySpec
CONSTANTS
  Row = {r1, r2}
  NoRow = NoRow
  Request = {w1, w2}
  NoRequest = NoRequest
  Configurations <- Modes
  PauseThreshold = 4
  MaxCancellations = 2
  tRCD = 1
  tRAS = 1
  tRP = 1
  tAL = 0
  tCAS = 1
  tCWD = 1
  tBURST = 1
  tCCD = 1
  tWTR = 1
  tWR = 1
  tRTP = 1
  tRTRS = 1
  tRFC = 2
  tWP = 4
  WriteIterations = 2
  CycleModulus = 1000
  Horizon = 12
SYMMETRY Symmetry
CHECK_DEADLOCK FALSE
INVARIANTS TypeOK OneResponsePerWrite CompletedWriteIsWritten
PROPERTIES ResponsesFindTheirState InterruptionsRunOut PauseForgetsNoConstraint
