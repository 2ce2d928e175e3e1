SPECIFICATION Services
CONSTANTS
  Parts = {"exits", "evidence", "m1", "feed"}
  Threads = {session}
  Reviewer = session
  Prices = {0, 3, 6, 8, 12}
  Entry = 4
  None = None
  StopDistance = 3
  TargetDistance = 8
  Activation = 4
  TrailDistance = 2
  BreakEven = 2
  Required = 2
  MaxCrashes = 1
  session = session
  Requests <- MCEvidence
  Opening = 10
  Patience = 6
  StrictAge = 2
  HardAge = 4
  EventAge = 4
  Skew = 1
  IntentTtl = 4
  DecisionTtl = 2
  Scenes <- MCScenes
  Stamped = FALSE
  Gap = 1
  Watch = 2
  MaxAttempts = 3
  RetryLimit = 1
  Ttl <- MCTtl
  SessionTtl <- MCSessionTtl
  BackoffBase = 1
  BackoffMax = 2
  ChainMaxAge = 1
  BarMaxAge = 2
  Extras = {{"week"}, {"month"}}
  Answers = {"ok", "limited", "refused"}
  Slow = 1
  Faults = {{}, {"warmup"}}
  Horizon = 4
INVARIANTS BestStop EntryDataHeld AttemptsBounded PricesDated
CHECK_DEADLOCK FALSE
