SPECIFICATION PartsSpec
CONSTANTS
  w1 = w1
  w2 = w2
  a1 = a1
  m = m
  c1 = c1
  c2 = c2
  d1 = d1
  d2 = d2
  t1 = t1
  t2 = t2
  f1 = f1
  f2 = f2
  n1 = n1
  n2 = n2
  b1 = b1
  b2 = b2
  l1 = l1
  s1 = s1
  u1 = u1
  x1 = x1
  None = None
  Workspace = {w1, w2}
  First = w1
  Chip = {a1, m}
  Memo = {m}
  Placed <- PlacedOn
  Draft = {d1}
  Fresh = {n1}
  Link = {e1, e2}
  UndoLimit = 2
  MaxEdits = 2
  MaxEvents = 1
INVARIANTS
   PutIsWhole  RunnableCanvas AcceptedCanvas
  OwedOverlay WholeStream SettledQuestions EndingToasts LatestRun WatchedExtract
  TakenBackRecipe MeantSteps ShownIsCurrent  
  DueTimes SoundSlot
CHECK_DEADLOCK FALSE
