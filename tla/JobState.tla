------------------------------ MODULE JobState ------------------------------
(***************************************************************************)
(* The status vocabulary every component shares (app/modules/job_state.py) *)
(* and the guard of its one guarded write, transition().  A status is      *)
(* moved only when the guard evaluated under the row lock allows it; a     *)
(* refused transition changes nothing.                                     *)
(***************************************************************************)

JobStatuses ==
  { "pending", "refining", "awaiting_confirmation", "researching", "planning",
    "executing", "running", "completed", "failed", "cancelled", "blocked",
    "assisted_executing", "assisted_running", "assisted_paused",
    "aggregating", "awaiting_assist", "awaiting_decision" }

\* "A job in one of these never moves again on its own."
TerminalStatuses == { "completed", "failed", "cancelled" }

NodeStatuses == { "pending", "running", "done", "failed", "skipped" }

\* A dependency is satisfied, and a plan finished, by these two.
SettledStatuses == { "done", "skipped" }

\* transition(expected_from = S): the row moves only out of S.  Without
\* expected_from the default guard refuses a terminal row.
MayMoveFrom(status, expected) == status \in expected
MayMoveByDefault(status) == status \notin TerminalStatuses

\* The statuses a node body may run under (execute_next_node, Phase 1).
ExecutableStatuses == { "running", "executing", "planning" }
=============================================================================
