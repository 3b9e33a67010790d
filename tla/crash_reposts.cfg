SPECIFICATION Spec
CONSTANTS
  w1 = w1
  w2 = w2
  Publications <- OnePub
  Platform <- OneIG
  Format <- OneReel
  Workers <- One
  Channel <- IGHybrid1
  ContainerSingleUse = TRUE
  AgentClaims = FALSE
  MaxAssets = 1
  MaxContainers = 2
  MaxPosts = 2
  MaxFaults = 1
INVARIANT AtMostOnePost
