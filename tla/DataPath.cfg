SPECIFICATION Spec
CONSTANTS
  OffsetBits = 1
  WordBytes = 2
  ByteBits = 2
  GroupBytes = 2
  fpSize = 2
  COLS = 2
  Mean = 2
  Address = {0, 2, 6}
  Data <- MCData
  NoData = NoData
  Configurations <- MCConfigurations
  MaxWrites = 4
INVARIANTS PlacesAreDistinct DataSurvivesEncoding LifeCountsTheWear
CHECK_DEADLOCK FALSE
