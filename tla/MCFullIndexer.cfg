SPECIFICATION FairSpec
CONSTANTS
  ta1 = ta1
  ta2 = ta2
  tb = tb
  a = a
  b = b
  p1 = p1
  p2 = p2
  Workers = {w1, w2}
  Stores = {hb, es}
  Triads = {ta1, ta2, tb}
  Entities = {a, b}
  EntityOf <- MCEntityOf
  Garbage = {0, 1}
  Producers = {p1, p2}
  ProducerOf <- MCProducerOf
INVARIANTS
  TypeOK
  LoadComplete
PROPERTIES
  LoadEnds
  PoolImplemented
CHECK_DEADLOCK FALSE
