CONSTANTS
  e1 = e1
  e2 = e2
  e3 = e3
  bad = bad
  Events <- TwoValid
  ValidEvents <- TwoValid
  Priority <- MCPriority
  SizeOf <- OneLarge
  MaxQueueSize = 2
  MaxPayload = 2
  MaxBatch = 2
  MaxRetries = 1
  Faults = {}
  MaxJobs = 3
  MaxToggles = 0
  MaxStarts = 1
SPECIFICATION FairSpec
PROPERTY AllBufferedMetricsSent
