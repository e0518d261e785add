\* Hands-on steps: every outside event but a block that kept an earlier started_at.
SPECIFICATION SupSpec

CONSTANTS
  N = 4
  Deps <- Plan
  Hands <- MachineSteps
  Reopenable = {2}
  Requests = {r1, r2}
  Events = {"reask", "cancel", "reset", "interrupt", "disconnect", "crash", "look_error"}

SYMMETRY RequestSymmetry

INVARIANT SupervisedInv
INVARIANT NotStranded
INVARIANT NeverPassedOver
PROPERTY NotFaked
PROPERTY DagSpec
