SPECIFICATION Spec
CONSTANTS
  Run = {1, 2}
  MaxDeletes = 0
  MaxRestarts = 1
  MaxFaults = 1
  None = None
INVARIANT OnlySuccessReplaces
CHECK_DEADLOCK FALSE
