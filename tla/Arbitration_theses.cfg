\* One thread: what two cycles of a STRICT session enter, one after the other.
CHECK_DEADLOCK FALSE
SPECIFICATION Spec
CONSTANTS
  Cap = 1
  Profiles = {"STRICT"}
  Threads = {"session"}
  Batch = 2
  MaxTrades = 2
  MaxDay = 1
CONSTANT Menu <- MCMenu
INVARIANTS OneThesis
