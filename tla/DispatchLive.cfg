SPECIFICATION FairSpec
CONSTANTS
  tf = tf
  j = j
  x = x
  k = k
  c = c
  e = e
  l = l
  v = v
  Step = {l, x, v}
  Run <- NoRuns
  Kind <- KindOfStep
  RunOf <- AllStandalone
  ChipOf <- ChipOfStep
  NoStep = NoStep
  NoRun = NoRun
  Task = {t1, t2}
  Permits = 2
  Limit = 1
  StorageFails = TRUE
  InputsVanish = TRUE
  MaxRequeues = 0
  MaxRestarts = 0
INVARIANTS PermitsBalance ExecutionFollowsStep
PROPERTIES QueuedStepEnds
