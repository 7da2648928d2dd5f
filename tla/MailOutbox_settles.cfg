SPECIFICATION FairSpec
CONSTANTS
  Jobs = {j1}
  Runs = {r1, r2}
  NoRun = NoRun
  BatchSize = 2
  MaxBatch = 2
  Concurrency = 1
  SendTimeout = 1
  Margin = 2
  Pause = 1
  MaxAttempts = 2
  Delay <- MCDelay
  Prompt = TRUE
  MaxFaults = 1
  MaxRetries = 0
  MaxToggles = 2
INVARIANTS DuplicateOnlyAfterLostOutcome
PROPERTIES CommittedIsSettled
