SPECIFICATION Spec
CHECK_DEADLOCK FALSE
CONSTANTS
  Threads = {t1, t2}
  Nobody = nobody
INVARIANT ReaderStays
