SPECIFICATION Spec
CONSTANTS
  Entities = {e1, e2}
  Stores = {hb, es}
  Dispatchers = {d1, d2}
  Workers = {w1, w2}
  Operations = {"upsert", "delete", "other", "malformed"}
  DispatcherLimit = 0
  m_capacity = 0
  Patchy = {3}
  Garbled = {2}
  MaxLog = 3
  MaxCrashes = 1
SYMMETRY Symmetric
INVARIANTS
  TypeOK
  QueuesBounded
  Converged
  NothingSkipped
PROPERTIES
  CurrentStaysCurrent
CHECK_DEADLOCK FALSE
