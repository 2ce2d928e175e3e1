\* A carry approved on evidence of an earlier day is enough: the trace ends there.
CHECK_DEADLOCK FALSE
SPECIFICATION TradeLife
CONSTANTS
  Parts = {"holding"}
  Intents = {a, b, c}
  a = a
  b = b
  c = c
  Spreads = {a}
  Recurring = {a}
  MaxAttempts = 2
  Batch = 1
  Capital = 2
  GlobalCap = 5
  Profiles = {"STRICT"}
  Concurrent = TRUE
  None = None
  HeldTrades <- MCTrades
  Dtes = {0, 1, 2, 4}
  Gaps = {1, 3}
  Sure = {2, 6}
  MinDte = 2
  Sessions = 3
  \* Two trades, so that the second may replace the first, within 50 % of 20 open and
  \* 30 % of it a day.
  Books = {"one", "two"}
  Results <- MCResults
  Fees = {0, 2}
  Estimate = 1
  Risk = 6
  Funds = 20
  OpenPercent = 50
  DayPercent = 30
  Span = 2
  MaxCrashes = 1
  \* A fill within a tick of the plan, and every side of every strike.
  Structures <- MCStructures
  Slips <- MCSlips
  MaxLoss = 20
  StopTicks = 2
  TargetTicks = 3
  Confirm = 2
  Spots = {4, 10, 14, 18, 24, 32}
INVARIANT CarriedOnFreshThesis
