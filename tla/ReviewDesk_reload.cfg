SPECIFICATION Spec
CONSTANTS
  Trades = {t1, t2}
  Held = {t1}
  Directional = {t2}
  None = None
  Lots = 3
  Slots = 2
  Days = 2
  Horizon = 1
  MaxCrashes = 0
  t1 = t1
  t2 = t2
INVARIANTS RowsReadable
CHECK_DEADLOCK FALSE
