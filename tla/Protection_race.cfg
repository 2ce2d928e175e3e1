\* The session thread and the scheduler thread tick one REST monitor.
SPECIFICATION Spec
CONSTANTS
  K = 2
  Tickers = {session, scheduler}
  session = session
  scheduler = scheduler
  Guarded = {scheduler}
  Sockets = {}
  Subscribed = {}
INVARIANT TickLives
