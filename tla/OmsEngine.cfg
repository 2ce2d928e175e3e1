\* One caller of a broker that forgets its duplicate check in a crash, and two of one
\* that does not.
SPECIFICATION Oms
CONSTANTS
  N = 2
  Threads = {t1}
  Plans = {p1, p2}
  BrokerRemembers = FALSE
CONSTANT Outcomes <- AnyOutcome
INVARIANTS SubmitOnce LocalOutcomeIsBrokers BothWriteFirst
PROPERTY ImplementsPromise
