------------------------------- MODULE StepFsm -------------------------------
(***************************************************************************)
(* What assist mode promises about one session: the state machine of its   *)
(* steps, declared in app/modules/assist_step_fsm.py, and how the step and *)
(* the plan's node that it mirrors move together.  Assist.tla implements   *)
(* it, with every request, hand-off and engine run that touches them.      *)
(*                                                                         *)
(* The code falls short of the declaration in places it names itself; each *)
(* is written out below as the one exception it is.                        *)
(***************************************************************************)
EXTENDS JobState

CONSTANT Nodes

VARIABLES step,     \* assist_steps.status; "absent" before the step is seeded
          st,       \* dag_nodes.status
          cursor    \* assist_sessions.current_node_key

\* awaiting_input and escalated are declared, but nothing ever writes them;
\* restore (undoing a reopen from the notes) is not modelled.
StepStatuses == { "absent", "pending", "presented", "committed", "skipped", "handed_off" }
Open     == { "pending", "presented" }
Finished == { "committed", "skipped", "handed_off" }

-----------------------------------------------------------------------------
(* TRANSITIONS, trigger by trigger.                                         *)

Claim   == {"pending"} \X {"presented"}
Goto    == Open \X {"presented"}
Commit  == {"presented"} \X {"committed"}
Skip    == Open \X {"skipped"}
Handoff == Open \X {"handed_off"}
Reopen  == Finished \X {"pending"}
Unclaim == {"presented"} \X {"pending"}

Legal == Claim \cup Goto \cup Commit \cup Skip \cup Handoff \cup Reopen \cup Unclaim

(* Two triggers in one transaction, and the seeding of a step: no commit    *)
(* without a claim, unless the session already points at the step, for "the *)
(* pointer IS the claim"; a reopened step may be presented at once.         *)
Moves(n) ==
  LET move == <<step[n], step'[n]>>
  IN  \/ move \in Legal
      \/ move = <<"absent", "pending">>
      \/ move \in Finished \X {"presented"}
      \/ cursor = n /\ move = <<"pending", "committed">>

Keeps(n) == step'[n] = step[n]

-----------------------------------------------------------------------------
(* MIRROR, where the two rows are written.                                  *)

(* A committed step sits beside a done node and a skipped one beside a      *)
(* skipped node; only a node that was done already stays so under a skip    *)
(* (mirror_divergence).                                                     *)
Recorded(n) ==
  /\ step'[n] = "committed" => st'[n] = "done"
  /\ step'[n] = "skipped" => st'[n] = "skipped" \/ (st[n] = "done" /\ st'[n] = "done")
  /\ st'[n] = "skipped" /\ st[n] # "skipped" => step'[n] = "skipped"

(* An open step sits beside a pending node when it is seeded or reopened;   *)
(* a node the executor has is left to it.  What the executor does to the    *)
(* node of a step that is open already is not the table's to say.           *)
Reopened(n) ==
  /\ step[n] = "absent" /\ step'[n] # "absent" => st'[n] \notin SettledStatuses
  /\ step[n] \in Finished /\ step'[n] \in Open
       => st'[n] = "pending" \/ (st[n] = "running" /\ st'[n] = "running")
  /\ st[n] \in SettledStatuses /\ st'[n] \notin SettledStatuses => step'[n] \in Open

\* Beside a step that was handed off the node may be all but skipped.
HandedOff(n) == step'[n] = "handed_off" => st'[n] \in {"pending", "running", "done", "failed"}

Mirrored(n) == Recorded(n) /\ Reopened(n) /\ HandedOff(n)

-----------------------------------------------------------------------------
StepFsmInit == step = [n \in Nodes |-> "absent"] /\ st \in [Nodes -> NodeStatuses]
StepFsmNext == \A n \in Nodes : (Keeps(n) \/ Moves(n)) /\ Mirrored(n)
StepFsmSpec == StepFsmInit /\ [][StepFsmNext]_<<step, st>>
=============================================================================
