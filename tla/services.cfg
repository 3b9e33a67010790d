SPECIFICATION SmallSpec
CONSTANTS
  Sources = {"a", "b", "nobody"}
  Registered = {"a", "b"}
  Timeout = 2
  MaxAsked = 3
  Horizon = 6
  oldRunner = oldRunner
  newRunner = newRunner
  Runners = {oldRunner, newRunner}
  Release <- Releases
  MaxBroken = 1
  MaxKilled = 1
  Paragraphs <- CardParagraphs
  LineWidth = 4
  SpaceWidth = 1
  Heights <- CardHeights
  LineHeights <- CardLineHeights
  BlockGap = 1
  Colors <- CardColors
  Sides = {0, 1, 2, 3, 4, 5, 6, 7, 8}
  MaxSide = 7
  MinSide = 6
  FontDivs <- CardFontDivs
  PerFrame = 8
  PerCenti = 3
  MaxTotal = 56
  MaxSlides = 3
  LongestSide = 32
  Smallest <- SmallestVideo
  Shapes <- VideoShapes
  Lengths = {0, 3, 4, 12, 20, 23, 40}
  WavFormats = {1, 2}
  TextLengths = {5, 5000}
  ClassLengths = {17}
  Label = 4
  MaxValues = 6
  CauseMax = 200
  RawMax = 600
  ValueMax = 600
  DescMax = 4000
  Counts = {0, 1, 3}
  Divisors = {0, 1, 2}
  Scale = 2
  MinBaseline = 2
  MaxOthers = 3
  oldKey = oldKey
  newKey = newKey
  Keys = {oldKey, newKey}
  Version <- KeyVersions
  Commands = {c1, c2}
  Grants = {g1, g2}
  MaxWrites = 1
  Writers = {n1, n2, n3}
  Lineages = {global, reels}
  Referenced = {reels}
  MaxWritten = 4
  reel = reel
  Processes = {n1, n2}
  Media = {reel}
  MediaKind <- OneReel
  youtubeChannel = youtubeChannel
  Shells = {n1}
  Accounts = {a1, a2, youtubeChannel}
  AccountPlatform <- ChannelPlatform
  MaxStarted = 3
  MaxEdits = 1
INVARIANT ServicesTypeOK
INVARIANT DelayContained
INVARIANT SchemaSound
INVARIANT WrapFaithful
INVARIANT ReportTrue
INVARIANT KeepsInStep
INVARIANT AlertTold
INVARIANT VerdictEarned
INVARIANT AdviceHelps
INVARIANT VersionsAdvance
INVARIANT ServedAsRendered
INVARIANT CommandsInOrder
PROPERTY UsableStays
SYMMETRY CommandsAlike
CHECK_DEADLOCK FALSE
