SPECIFICATION FeedbackSpec
CONSTANTS
  cli = cli
  metrics = metrics
  Publications <- TwoPubs
  Platform <- AllInstagram
  Format <- Cards
  Workers = {cli}
  Channel <- AutoChannel
  ContainerSingleUse = FALSE
  AgentClaims = FALSE
  MaxAssets = 1
  MaxContainers = 1
  MaxPosts = 2
  MaxFaults = 1
  MaxCycles = 2
  Returned <- Full
  MaxEnds = 0
  Pollers = {metrics}
  Serves <- PollsIt
  Arms = {"topic"}
  Arm <- OneArm
  GoalKnown = {1, 2}
  Rewards = {2}
  MinBaseline = 1
  MaxDeaths = 1
INVARIANTS MeasuredIsRecorded TrialsHavePosts RewardsEarned
PROPERTY LoopSpec
