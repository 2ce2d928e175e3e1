\* A condor in a process that may die between any two steps, and quotes that
\* keep coming back.  FairSpec is Spec with fairness.
SPECIFICATION FairSpec
CONSTANTS
  Legs = {1, 2, 3, 4}
  Shorts = {2, 3}
  Outcomes = {"FILLED", "REJECTED"}
  Threads = {t1}
INVARIANTS CoveredUnlessCut ClosedRowFreesCapital ReleasedOnFills
PROPERTIES ExitSettles
