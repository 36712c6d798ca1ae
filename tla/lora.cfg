SPECIFICATION MCSpec
CHECK_DEADLOCK FALSE
CONSTANTS
  Threads = {t1, t2}
  MaxPackets = 3
  MaxLate = 1
  QueueSize = 2
  Faults = {"slow", "refuse"}
  MaxSends = 3
INVARIANTS
  DriversTypeOK
  SharedHolds
  RnAnswersAreOwn
PROPERTIES
  AnswersAreOwn
  OperationsEnd
