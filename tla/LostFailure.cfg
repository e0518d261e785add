\* One undisturbed run of two independent steps.
CONSTANTS
  c1 = c1
  c2 = c2
  N = 2
  Deps <- Pair
  Reopenable = {}
  Decisions = {}
  Calls = {c1}
  Cap = 2
  RetryCap = 1
  MaxRetries = 1
  Events = {}
  MaxEvents = 0
SPECIFICATION Spec
CHECK_DEADLOCK FALSE
INVARIANT FailureConsidered
