SPECIFICATION FairRunSpec
CONSTANTS
  a = a
  b = b
  c = c
  d = d
  f = f
  v = v
  w = w
  alone = alone
  r1 = r1
  r2 = r2
  Step = {a, w, b, v}
  Run = {r1}
  Kind <- KindOfStep
  RunOf <- RunOfStep
  ChipOf <- ChipOfStep
  NoStep = NoStep
  NoRun = NoRun
  Plan <- PlanOfRun
  Edges <- Canvas
  Producer <- Extractions
  MayFail = {b}
  Task = {t1}
  Permits = 1
  Limit = 2
  StorageFails = FALSE
  InputsVanish = FALSE
  MaxRequeues = 0
  MaxCancels = 1
  MaxRestarts = 1
INVARIANTS NoJobUnderEndedChip
PROPERTIES  ImplementsOrderedRun
