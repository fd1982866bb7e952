SPECIFICATION FairSpec
CONSTANTS
  Properties = {p1, p2, p3}
  MaxPages = 3
INVARIANTS
  TypeOK
  ReadyMeansLoaded
PROPERTIES
  LateOnlyBehindFailed
  BecomesReady
CHECK_DEADLOCK FALSE
