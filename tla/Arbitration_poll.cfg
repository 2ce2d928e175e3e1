\* The poll beside the M1 quote handler.
CHECK_DEADLOCK FALSE
SPECIFICATION Spec
CONSTANTS
  Cap = 1
  Profiles = {"STRICT"}
  Threads = {"session", "protection"}
  Batch = 2
  MaxTrades = 2
  MaxDay = 1
CONSTANT Menu <- MCMenu
INVARIANTS PollLeavesM1
