SPECIFICATION Spec
CONSTANTS
  Keys = {k1, k2, k3, k4}
  Values = {v1, v2}
  m_capacity = 3
  m_lifetime = 2
  MaxTime = 3
SYMMETRY KeySymmetry
INVARIANTS
  TypeOK
  MapMatchesList
PROPERTIES
  EvictsDeadFirst
  CacheImplemented
