CONSTANTS
  j1 = j1
  j2 = j2
  t1 = t1
  JsonRequests <- OneJson
  TextRequests <- OneText
  MaxActivations = 1
SPECIFICATION FairSpec
PROPERTY DeactivateReturns
CHECK_DEADLOCK FALSE
