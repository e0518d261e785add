\* A run and a call of POST /execute beside it, two outside events.
CONSTANTS
  c1 = c1
  c2 = c2
  N = 3
  Deps <- Fork
  Reopenable = {2}
  Decisions = {1}
  Calls = {c1, c2}
  Cap = 2
  RetryCap = 1
  MaxRetries = 1
  Events = {"solo", "cancel", "resume", "budget", "stale_reap", "skip", "disconnect", "stale_tests", "shortcut", "reask"}
  MaxEvents = 2
SPECIFICATION Spec
CHECK_DEADLOCK FALSE
INVARIANT OneWorker
PROPERTY FreshWriter
PROPERTY DagSpec
SYMMETRY Symmetric
