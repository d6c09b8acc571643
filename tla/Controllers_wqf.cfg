SPECIFICATION FairSpec
CONSTANTS
  r1 = r1
  r2 = r2
  t1 = t1
  t2 = t2
  t3 = t3
  s0 = s0
  s1 = s1
  Transaction = {t1, t2, t3}
  NoTransaction = NoTransaction
  Row = {r1, r2}
  NoRow = NoRow
  NoQueue = NoQueue
  BANKS = 1
  SubArray = {s0}
  FirstSubArray = s0
  Configurations <- WriteQueues
  BanksPerRefresh = 1
  MaxPulses = 0
  StarvationThreshold = 2
  queueSize = 3
  readQueueSize = 2
  writeQueueSize = 2
PROPERTIES DrainsStop
