SPECIFICATION FairSpec
CONSTANTS
  Workers = {w1, w2}
  MaxCalls = 2
  Unparsable = {1}
INVARIANTS
  TypeOK
  OneOwner
PROPERTIES
  Settles
CHECK_DEADLOCK FALSE
