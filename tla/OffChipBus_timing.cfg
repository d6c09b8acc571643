SPECIFICATION HistorySpec
CONSTANTS
  Configurations <- Channels
  tCMD = 1
  tRCD = 3
  tRAS = 5
  tRP = 2
  tAL = 0
  tCAS = 3
  tCWD = 2
  tBURST = 2
  tCCD = 2
  tWTR = 1
  tWR = 2
  tRTP = 1
  tRTRS = 1
  tOST = 1
  tRFC = 4
  tRRDR = 2
  tPPD = 0
  tRAW = 7
  RAW = 2
INVARIANTS TypeOK BurstsNeverCollide ActivationsAreSpread BanksKnowTheirOpenRows StandbyMeansIdle
