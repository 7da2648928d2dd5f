SPECIFICATION Spec
CONSTANTS
  Jobs = {j1, j2}
  Runs = {r1, r2}
  NoRun = NoRun
  BatchSize = 2
  MaxBatch = 2
  Concurrency = 1
  SendTimeout = 1
  Margin = 1
  Pause = 1
  MaxAttempts = 1
  Delay <- MCDelay
  Prompt = TRUE
  MaxFaults = 1
  MaxRetries = 0
  MaxToggles = 0
SYMMETRY Symmetric
INVARIANTS LiveLeaseNeverStale NoDoubleSend

