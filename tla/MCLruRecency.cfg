SPECIFICATION Spec
CONSTANTS
  Keys = {k1, k2, k3}
  Values = {v1}
  m_capacity = 2
  m_lifetime = 2
  MaxTime = 1
PROPERTIES
  EvictsLeastRecentlyUsed
