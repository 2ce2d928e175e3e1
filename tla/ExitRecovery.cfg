\* A spread with its long leg first in the plan of the entry, the session's two
\* threads, and an operator with quotes for both legs or for the long one.  Every
\* process may die between two steps.  A command that is done waits for the next start.
SPECIFICATION RecoverySpec
CONSTANTS
  Legs = {1, 2}
  Shorts = {2}
  Outcomes = {"FILLED", "REJECTED"}
  Threads = {t1, t2}
  Books = {{1, 2}, {1}}
INVARIANTS ExitedOnce RetryCloses ResetIsFlat
