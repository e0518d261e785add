\* Two mishaps over a plan of two steps, one of them a decision.
CONSTANTS
  c1 = c1
  c2 = c2
  N = 2
  Deps <- Two
  Reopenable = {1}
  Decisions = {2}
  Calls = {c1, c2}
  Cap = 2
  RetryCap = 0
  MaxRetries = 0
  Events = {"disconnect", "look_error", "stale_tests", "reset", "reask"}
  MaxEvents = 1
  Resumer = c2
  MaxResume = 1
  MaxMishaps = 2
SPECIFICATION FairRestartSpec
CHECK_DEADLOCK FALSE
INVARIANT RestartInv
INVARIANT CrashLoopCut
INVARIANT ParkedIsAnswerable
PROPERTY CutOnlyWhenStuck
PROPERTY NeverUnasked
PROPERTY DagSpec
PROPERTY StepEnds
PROPERTY JobEnds
