SPECIFICATION MCSpec
CHECK_DEADLOCK FALSE
CONSTANTS
  p0 = p0
  p1 = p1
  p2 = p2
  Package = {p0, p1, p2}
  NoPackage = NoPackage
  FactoryImage = p0
  Version <- MCVersion
  CrashPoints <- MCCrashAnywhere
  Faults = {"http", "flash", "stall", "diagnostic"}
  MaxOffers = 4
  MaxRequests = 2
  MaxResets = 3
  MaxQueue = 2
  Intervals = {0, 1, 2, 3}
  Floor = 2
  DefaultInterval = 3
  A = A
  B = B
  R = R
  Old = Old
  Blocks = 3
  Chunks = 2
  Attempts = 2
  MaxFaults = 2
  Conversion <- MCLowConversion
  VrefMv = 3300
  NoReading = NoReading
INVARIANTS
  ProgramsTypeOK
  TokensHold
  ImagesHold
  ToldIsTrue
  MicrovoltsExact
  MillivoltsExact
PROPERTIES
  ImplementsTrialUpdate
  NoAutomaticRetry
  ConfirmsOwn
  SessionHolds
  UpdatesArrive
  ProgramsGoOn
