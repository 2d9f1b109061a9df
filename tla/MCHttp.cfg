CONSTANTS
  j1 = j1
  j2 = j2
  t1 = t1
  JsonRequests <- TwoJson
  TextRequests <- OneText
  MaxActivations = 2
SPECIFICATION FairSpec
INVARIANTS TypeOK NoRequestSleptOn
PROPERTIES ImplementsService EveryRequestAnswered
CHECK_DEADLOCK FALSE
