\* A vertical spread whose exit is cut by a crash and retried.
SPECIFICATION Spec
CONSTANTS
  Legs = {1, 2}
  Shorts = {2}
  Outcomes = {"FILLED"}
  Threads = {t1}
INVARIANTS Covered
