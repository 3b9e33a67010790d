SPECIFICATION FairSpec
CONSTANTS
  w1 = w1
  w2 = w2
  Workers <- Two
  Serves <- TwoServe
  Publications <- OnePub
  Platforms <- Both
  Platform <- OnInstagram
  Arms <- OneArm
  Arm <- SameArm
  GoalKnown <- OnePub
  Rewards <- OneRatio
  MinBaseline = 0
  MaxCrashes = 1
INVARIANT StatsMatchRewards
PROPERTIES HistoryKept LedgerSpec AllJudged
