SPECIFICATION Spec
CONSTANTS
  tf = tf
  j = j
  x = x
  k = k
  c = c
  e = e
  l = l
  v = v
  Step = {c}
  Run <- NoRuns
  Kind <- KindOfStep
  RunOf <- AllStandalone
  ChipOf <- ChipOfStep
  NoStep = NoStep
  NoRun = NoRun
  Task = {t1}
  Permits = 1
  Limit = 2
  StorageFails = FALSE
  InputsVanish = FALSE
  MaxRequeues = 0
  MaxRestarts = 0
INVARIANT CancelIsRecorded
