SPECIFICATION FairSpec
CONSTANTS
  DayLength = 4
  Slots <- TwoSlots
  LastDay = 2
  NestedRun = TRUE
  MaxRaises = 0
  MaxSetBacks = 0
  MaxCrashes = 0
PROPERTY SlotsRun
CHECK_DEADLOCK FALSE
