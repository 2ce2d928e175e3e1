\* One spread among the intents, one intent per cycle, no crash.
\* The intents run out: the session may stop.
SPECIFICATION SteadySpec
CONSTANTS
  Intents = {a, b, c}
  a = a
  b = b
  c = c
  Spreads = {b}
  Recurring = {}
  MaxAttempts = 1
  Batch = 1
  Capital = 3
  GlobalCap = 5
  Profiles = {"STRICT"}
  Concurrent = FALSE
CHECK_DEADLOCK FALSE
INVARIANT HealthyBookTrades
