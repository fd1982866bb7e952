SPECIFICATION FairSpec
CONSTANTS
  Requests = {r1, r2}
  e1 = e1
  e2 = e2
  e3 = e3
  v1 = v1
  v2 = v2
  NoId = NoId
  Entities = {e1, e2, e3}
  Documents = {e1, e2}
  Facts <- MCFacts
  Query <- MCQuery
  Hits <- MCHits
  Arrivals <- MCDeep
  MaxVersion = 1
  MaxFaults = 2
PROPERTIES
  EventuallyAnswered
CHECK_DEADLOCK FALSE
