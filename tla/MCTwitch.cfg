CONSTANTS
  Operations <- AllHops
  Users = {"user"}
  Tokens = {"token"}
  ApplicationIDs = {"game"}
  TwitchREST = TRUE
  MaxReceipts = 3
  MaxStops = 1
SPECIFICATION FairSpec
INVARIANTS TypeOK OneFatePerReceipt RequestsCarryCredentials OneApplicationID AnswersInOrder
PROPERTY EveryReceiptReported
CHECK_DEADLOCK FALSE
