SPECIFICATION FairSpec
CONSTANTS
  Threads = {t1, t2, t3, t4}
INVARIANTS
  TypeOK
  MutualExclusion
  NoLostWakeup
PROPERTIES
  NoReaderOvertakes
  Progress
  LockImplemented
