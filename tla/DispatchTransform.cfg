SPECIFICATION Spec
CONSTANTS
  tf = tf
  j = j
  x = x
  k = k
  c = c
  e = e
  l = l
  v = v
  Step = {tf, j, k}
  Run <- NoRuns
  Kind <- KindOfStep
  RunOf <- AllStandalone
  ChipOf <- ChipOfStep
  NoStep = NoStep
  NoRun = NoRun
  Task = {t1, t2, t3}
  Permits = 2
  Limit = 2
  StorageFails = FALSE
  InputsVanish = FALSE
  MaxRequeues = 2
  MaxRestarts = 1
SYMMETRY TaskSymmetry
INVARIANTS TypeOK SoleRunner  ChipSucceedsWithJob ExecutionFollowsStep
PROPERTIES EndIsFinal NoSuccessUnderEndedChip
