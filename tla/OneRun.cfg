\* One run of a three-step plan, with one thing going wrong anywhere.
CONSTANTS
  c1 = c1
  c2 = c2
  N = 3
  Deps <- Fork
  Reopenable = {1}
  Decisions = {}
  Calls = {c1}
  Cap = 2
  RetryCap = 2
  MaxRetries = 1
  Events = {"disconnect", "exception", "quota", "retry", "slow_reap", "hands_on", "worker_error", "cancel", "reset", "skip", "shortcut", "look_error"}
  MaxEvents = 1
SPECIFICATION FairSpec
CHECK_DEADLOCK FALSE
INVARIANT ExecutionInv
INVARIANT BlockedIsQuiet
INVARIANT NothingLeftRunning
INVARIANT CompletedIsCompiled
INVARIANT RetryBound
PROPERTY RunEnds
