SPECIFICATION Spec
CONSTANTS
  w1 = w1
  w2 = w2
  Publications <- OnePub
  Platform <- OneIG
  Format <- OneReel
  Workers <- Two
  Channel <- OneEach
  ContainerSingleUse = FALSE
  AgentClaims = TRUE
  MaxAssets = 2
  MaxContainers = 1
  MaxPosts = 2
  MaxFaults = 1
INVARIANTS NothingUngated PublishedIsLive
