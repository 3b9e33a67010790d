SPECIFICATION FairSpec
CONSTANTS
  w1 = w1
  w2 = w2
  Publications <- TwoPubs
  Platform <- AllInstagram
  Format <- CardAndReel
  Workers <- One
  Channel <- IGHybrid1
  ContainerSingleUse = TRUE
  AgentClaims = FALSE
  MaxAssets = 2
  MaxContainers = 2
  MaxPosts = 2
  MaxFaults = 0
INVARIANT TypeOK
PROPERTIES OnceSpec Settles
