SPECIFICATION FairSpec
CONSTANTS
  w1 = w1
  w2 = w2
  Workers <- One
  Mode <- OneAuto
  Sandboxed <- One
  MaxCycles = 1
  AgentClaims = FALSE
  MaxFailures = 1
  MaxCrashes = 0
PROPERTY CyclesClose
