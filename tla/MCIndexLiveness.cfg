SPECIFICATION FairSpec
CONSTANTS
  Entities = {e1}
  Stores = {hb, es}
  Dispatchers = {d1, d2}
  Workers = {w1, w2}
  Operations = {"upsert", "delete", "other"}
  DispatcherLimit = 0
  m_capacity = 0
  Patchy = {1}
  Garbled = {2}
  MaxLog = 2
  MaxCrashes = 1
PROPERTIES
  Drains
  PoolAndReaderImplemented
CHECK_DEADLOCK FALSE
