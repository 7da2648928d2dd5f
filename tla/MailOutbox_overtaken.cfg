SPECIFICATION Spec
CONSTANTS
  Jobs = {j1}
  Runs = {r1, r2}
  NoRun = NoRun
  BatchSize = 1
  MaxBatch = 1
  Concurrency = 1
  SendTimeout = 1
  Margin = 1
  Pause = 1
  MaxAttempts = 1
  Delay <- MCDelay
  Prompt = TRUE
  MaxFaults = 0
  MaxRetries = 0
  MaxToggles = 0
PROPERTIES RevokedGetsNoMail
