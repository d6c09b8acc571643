SPECIFICATION HookedSpec
CONSTANTS
  f1 = f1
  f2 = f2
  s1 = s1
  s2 = s2
  Page = {f1, f2, s1, s2}
  FastPage = {f1, f2}
  None = None
  VictimOrder <- MCVictimOrder
  Set = {1}
  SetOf <- MCSetOf
  Ways = 2
  Index = {1}
  HashOf <- MCHashOf
  InitialWeight <- MCInitialWeight
  WeightLimit = 1
  Theta = 1
  Cost = 3
  WriteBenefit = 2
  Tbypass = 0
  Layers <- MCLayers
  HookList <- MCHookList
  HookType <- MCHookType
INVARIANTS TypeOK PagesHaveTheirOwnFrames InvertedTableFindsTheOccupant VictimsTakeTurns STCHoldsTheLatestPages HooksMeetARequestOnce
CHECK_DEADLOCK FALSE
