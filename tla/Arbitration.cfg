\* Both profiles, the poll loop and the M1 quote handler, crashes, two days.
\* Every trade may be entered and closed: the session may stop.
CHECK_DEADLOCK FALSE
SPECIFICATION Spec
CONSTANTS
  Cap = 1
  Profiles = {"STRICT", "DISCOVERY"}
  Threads = {"session", "protection"}
  Batch = 2
  MaxTrades = 2
  MaxDay = 2
CONSTANT Menu <- MCMenu
INVARIANTS DuplicateFree
