SPECIFICATION Spec
CONSTANTS
  Requests = {r1, r2}
  e1 = e1
  e2 = e2
  e3 = e3
  v1 = v1
  v2 = v2
  NoId = NoId
  Entities = {e1, e2, e3}
  Documents = {e1, e2}
  Facts <- MCFacts
  Query <- MCQuery
  Hits <- MCHits
  Arrivals <- MCArrivals
  MaxVersion = 2
  MaxFaults = 1
SYMMETRY Symmetric
INVARIANTS
  TypeOK
  AnswersRight
  AnsweredOnce
  ForcedAnswersFresh
CHECK_DEADLOCK FALSE
