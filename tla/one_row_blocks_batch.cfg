SPECIFICATION FairSpec
CONSTANTS
  w1 = w1
  w2 = w2
  Publications <- TwoPubs
  Platform <- AllYouTube
  Format <- CardAndShort
  Workers <- One
  Channel <- YTHybrid1
  ContainerSingleUse = TRUE
  AgentClaims = FALSE
  MaxAssets = 1
  MaxContainers = 1
  MaxPosts = 1
  MaxFaults = 0
PROPERTY Settles
