SPECIFICATION Spec
CONSTANTS
  p0 = p0
  p1 = p1
  p2 = p2
  Package = {p0, p1, p2}
  NoPackage = NoPackage
  FactoryImage = p0
  Version <- MCVersion
  Compiled <- MCCompiled
  Bytes <- MCBytes
  Sha256 <- MCSha256
  ChunkSize = 2
  NoVersion = "none"
  CrashPoints = {"reconcile"}
  Faults = {"reassign"}
  MaxAssigns = 2
  MaxInFlight = 2
PROPERTY NoAutomaticRetry
