\* A restart of the process, and a block whose claim kept an earlier started_at.
SPECIFICATION SupSpec

CONSTANTS
  N = 4
  Deps <- Plan
  Hands <- MachineSteps
  Reopenable = {}
  Requests = {r1, r2}
  Events = {"crash", "kept_start"}

SYMMETRY RequestSymmetry

INVARIANT OneBlock

CHECK_DEADLOCK FALSE
