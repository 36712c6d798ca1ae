SPECIFICATION MCSpec
CHECK_DEADLOCK FALSE
CONSTANTS
  p0 = p0
  p1 = p1
  p2 = p2
  Package = {p0, p1, p2}
  NoPackage = NoPackage
  FactoryImage = p0
  Version <- MCVersion
  NoVersion = "none"
  Offers <- MCOffers
  CrashPoints <- MCCrashAnywhere
  Faults = {"lose", "http", "flash", "memory", "reboot"}
  MaxChanges = 3
  MaxQueue = 2
  Hub = {"hubA", "hubB"}
  DeviceId = {"dev1", "dev2"}
  None = "none"
  MaxTicks = 3
  Intervals = {0, 1, 2, 3}
  MinInterval = 1
  DefaultInterval = 2
  MaxInt = 4
  DstSizes = {1, 2, 3, 4, 5, 8, 9, 10, 11, 12, 13, 14}
  MaxChars = 5
INVARIANTS
  PartsTypeOK
  AlwaysBootable
  CredentialsHold
  HubServed
  InsideBuffer
  WholeIfRoom
PROPERTIES
  ImplementsTrialUpdate
  KeysHold
  PartsGoOn
