SPECIFICATION FairSpec
CONSTANTS
  tf = tf
  j = j
  x = x
  k = k
  c = c
  e = e
  l = l
  v = v
  Step = {l}
  Run <- NoRuns
  Kind <- KindOfStep
  RunOf <- AllStandalone
  ChipOf <- ChipOfStep
  NoStep = NoStep
  NoRun = NoRun
  Task = {t1}
  Permits = 1
  Limit = 2
  StorageFails = FALSE
  InputsVanish = TRUE
  MaxRequeues = 0
  MaxRestarts = 0
PROPERTY LoadWithoutInputFails
