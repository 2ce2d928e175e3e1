\* The gate moves and Protection, of one symbol and no thread, rests.
SPECIFICATION GateSpec
CONSTANTS
  Trades = {t1, t2}
  Beside = {t1}
  MaxCrashes = 1
  K = 1
  Tickers = {}
  Guarded = {}
  Sockets = {}
  Subscribed = {}
PROPERTIES
  GateSeesVerdicts
  Reopens
