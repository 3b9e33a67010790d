SPECIFICATION Spec
CONSTANTS
  DayLength = 4
  Slots <- EdgeSlots
  LastDay = 2
  NestedRun = FALSE
  MaxRaises = 1
  MaxSetBacks = 1
  MaxCrashes = 1
INVARIANTS TypeOK FiredOnce NeverEarly SleepsThroughNone
CHECK_DEADLOCK FALSE
