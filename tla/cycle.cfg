SPECIFICATION Spec
CONSTANTS
  w1 = w1
  w2 = w2
  Workers <- Two
  Mode <- BothHybrid
  Sandboxed <- Two
  MaxCycles = 2
  AgentClaims = TRUE
  MaxFailures = 1
  MaxCrashes = 1
INVARIANTS TypeOK HeldForReview ClosedIsWhole EventsTellStory
PROPERTY LandedStays
SYMMETRY WorkersAlike
