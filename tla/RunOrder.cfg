SPECIFICATION RunSpec
CONSTANTS
  a = a
  b = b
  c = c
  d = d
  f = f
  v = v
  w = w
  alone = alone
  r1 = r1
  r2 = r2
  Step = {a, b, f, v, c}
  Run = {r1}
  Kind <- KindOfStep
  RunOf <- RunOfStep
  ChipOf <- ChipOfStep
  NoStep = NoStep
  NoRun = NoRun
  Plan <- PlanOfRun
  Edges <- Canvas
  Producer <- Extractions
  MayFail = {a, b}
  Task = {t1, t2}
  Permits = 2
  Limit = 2
  StorageFails = FALSE
  InputsVanish = FALSE
  MaxRequeues = 0
  MaxCancels = 1
  MaxRestarts = 1
SYMMETRY TaskSymmetry
INVARIANTS RunTypeOK OneAtATime SuccessIsWhole ClosedRunIsQuiet RunHasKeeper
PROPERTIES StartsInTurn ImplementsOrderedRun
