SPECIFICATION SystemSpec
CONSTANTS
  w1 = w1
  w2 = w2
  Publications <- TwoPubs
  Platform <- AllInstagram
  Format <- CardAndReel
  Workers <- Two
  Channel <- HybridAndAuto
  ContainerSingleUse = FALSE
  AgentClaims = FALSE
  MaxAssets = 1
  MaxContainers = 2
  MaxPosts = 2
  MaxFaults = 1
  MaxCycles = 2
  Returned <- Full
  MaxEnds = 1
INVARIANTS LedgerAgreement HeldOffPlatform
PROPERTIES TerminalIsSilent ContainerKept CyclesSpec
