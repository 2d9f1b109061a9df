CONSTANTS
  Operations <- AllHops
  Users = {"user"}
  Tokens = {"token"}
  ApplicationIDs = {"game"}
  TwitchREST = TRUE
  MaxReceipts = 2
  MaxStops = 0
SPECIFICATION Spec
INVARIANT NeedlessUpdateRefused
CHECK_DEADLOCK FALSE
