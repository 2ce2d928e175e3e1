\* Four single-leg intents, and the protection thread that closes trades.
CHECK_DEADLOCK FALSE
SPECIFICATION SteadySpec
CONSTANTS
  Intents = {a, b, c, d}
  a = a
  b = b
  c = c
  d = d
  Spreads = {}
  Recurring = {}
  MaxAttempts = 1
  Batch = 1
  Capital = 8
  GlobalCap = 2
  Profiles = {"STRICT"}
  Concurrent = TRUE
INVARIANT GlobalCapKept
