SPECIFICATION Spec
CONSTANTS
  Entities <- MCEntities
  PropertyIds <- MCPropertyIds
  stop_terms <- MCStopTerms
  Lower <- MCLower
  IdWidth = 8
  Requests <- MCRequests
INVARIANTS
  WhereMeans
  SubTasksBracketed
CHECK_DEADLOCK FALSE
