CONSTANTS
  e1 = e1
  e2 = e2
  e3 = e3
  bad = bad
  Events <- TwoEvents
  ValidEvents <- TwoValid
  Priority <- MCPriority
  SizeOf <- UnitSize
  MaxQueueSize = 1
  MaxPayload = 2
  MaxBatch = 2
  MaxRetries = 1
  Faults = {"read", "open", "write", "remove"}
  MaxJobs = 4
  MaxToggles = 1
  MaxStarts = 0
SPECIFICATION Spec
INVARIANTS TypeOK NoEventLost NoEventDuplicated DroppedAccountedFor
PROPERTIES ImplementsDelivery
