\* Two callers of one order of the paper broker.
SPECIFICATION Oms
CONSTANTS
  N = 2
  Threads = {t1}
  Plans = {p1, p2}
  BrokerRemembers = FALSE
CONSTANT Outcomes <- AnyOutcome
INVARIANT BothSubmitOnce
