SPECIFICATION Spec
CONSTANTS
  w1 = w1
  w2 = w2
  a1 = a1
  m = m
  None = None
  Workspace = {w1}
  First = w1
  Chip = {a1, m}
  Memo = {m}
  Placed <- PlacedOn
  Draft = {d1}
  Fresh = {n1}
  Link = {e1, e2}
  UndoLimit = 2
  MaxEdits = 2
  MaxEvents = 2
INVARIANT SaveReplacesWhatItRead
CHECK_DEADLOCK FALSE
