SPECIFICATION FairSpec
CHECK_DEADLOCK FALSE
CONSTANTS
  Threads = {t1, t2}
  Nobody = nobody
INVARIANTS
  TypeOK
  ReleasedOnce
  SignalValid
  Exclusive
  ParamsValid
  SentIsTrue
PROPERTY
  CallsReturn
