\* Two calls at a time on two seedlings.
CONSTANTS
  a = a
  b = b
  c1 = c1
  c2 = c2
  Tasks <- Connections
  Names <- Seedlings
  Ids <- TwoIds
  Versions <- FourVersions
  Paths <- TwoPaths
  MountOf <- Mounts
  MaxFailCount = 2
  There = There
  NoTask = NoTask
  NoId = NoId
  NoName = NoName
  NoFile = NoFile
  NoMount = NoMount
  Torn = Torn
  MaxCalls = 4
  MaxFaults = 1
  MaxCrashes = 1
SPECIFICATION Spec
SYMMETRY Symmetry
INVARIANTS TypeOK IdsUnique StrikesAreEarned
PROPERTIES CallsAreAtomic
\* Nothing is left to do once the calls are answered.
CHECK_DEADLOCK FALSE
