SPECIFICATION Spec
CONSTANTS
  Jobs = {j1}
  Runs = {r1, r2}
  NoRun = NoRun
  BatchSize = 2
  MaxBatch = 2
  Concurrency = 1
  SendTimeout = 1
  Margin = 1
  Pause = 1
  MaxAttempts = 2
  Delay <- MCDelay
  Prompt = FALSE
  MaxFaults = 2
  MaxRetries = 1
  MaxToggles = 1
SYMMETRY RunSymmetry
INVARIANTS TypeOK SnapshotFresh OutcomeJustified
PROPERTIES ImplementsContract SendStartsEligible
