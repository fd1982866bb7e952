SPECIFICATION FairSpec
CONSTANTS
  t1 = t1
  t2 = t2
  e1 = e1
  e2 = e2
  Triads = {t1, t2}
  Entities = {e1, e2}
  EntityOf <- MCEntityOf
  m_bufferSize = 2
  CheckpointEvery = 2
  MaxLog = 3
  MaxCrashes = 1
INVARIANTS
  TypeOK
  EachEntryOnce
  ChangesPublished
PROPERTIES
  DrainsOrSticks
  ReaderImplemented
CHECK_DEADLOCK FALSE
