SPECIFICATION Spec
CONSTANTS
  p0 = p0
  p1 = p1
  p2 = p2
  Package = {p0, p1, p2}
  NoPackage = NoPackage
  FactoryImage = p0
  Version <- MCVersion
  Compiled <- MCCompiled
  Bytes <- MCBytes
  Sha256 <- MCSha256
  ChunkSize = 2
  NoVersion = "none"
  CrashPoints <- MCCrashAnywhere
  Faults = {"lose", "dup", "flash", "provision", "reassign", "reboot"}
  MaxAssigns = 2
  MaxInFlight = 2
INVARIANTS TypeOK AlwaysBootable UpdatedIsTrue
PROPERTY ImplementsTrialUpdate
