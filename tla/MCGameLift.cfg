CONSTANTS
  Tickets = {"t1", "t2"}
  NoTicket = NoTicket
  MaxCalls = 3
  Connections = {"c1", "c2"}
  PlayerSessions = {"t1", "t2"}
  NoSession = NoSession
  ServerThreads = {"w1", "w2"}
SPECIFICATION FairMatchSpec
CHECK_DEADLOCK FALSE
INVARIANTS TrackerTypeOK RunningIsTracked PollsKeepPeriod QuietOnceDeactivated SessionsAgree
PROPERTY CallsReturn
