SPECIFICATION Spec
CONSTANTS
  None = None
  LotSize = 2
  Charges = 1
  SlippageParts = 4
  Requests <- MCRequests
  Accounts <- MCAccounts
  ShortFutures = FALSE
  MaxLots = 2
  Spots <- MCSpots
  MaxTrades = 2
  MaxRefusals = 1
  Policy <- MCPolicy
INVARIANT SlotsKept
CHECK_DEADLOCK FALSE
