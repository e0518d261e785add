------------------------------- MODULE DagJob -------------------------------
(***************************************************************************)
(* What execution promises about one job and its plan, whoever runs it:    *)
(* the abstract specification that the executor (Execution.tla) implements.*)
(* Only the two stored facts are visible here, the job's status and the    *)
(* status of every step.                                                   *)
(***************************************************************************)
EXTENDS Naturals, JobState

CONSTANTS N,           \* number of steps in the plan
          Deps,        \* depends_on: the steps each step waits for
          Reopenable   \* the steps that may be put back to work after they settled: tests
                       \* the delivery check finds stale, steps somebody resets

Nodes == 1..N     \* steps, numbered by execution_order

ASSUME PlanAssumption ==
  /\ N \in Nat \ {0}
  /\ Deps \in [Nodes -> SUBSET Nodes]
  /\ \A n \in Nodes : \A d \in Deps[n] : d < n    \* generated plans are acyclic
  /\ Reopenable \subseteq Nodes

VARIABLES job,    \* jobs.status
          st      \* dag_nodes.status

dagVars == <<job, st>>

\* The statuses a planned job can have while it is the executor's.
ExecutionStatuses ==
  { "executing", "running", "blocked", "completed", "failed", "cancelled",
    "awaiting_decision", "awaiting_assist" }

Settled(n) == st[n] \in SettledStatuses
DepsMet(n) == \A d \in Deps[n] : Settled(d)
AllDone == \A n \in Nodes : Settled(n)
Ready == { n \in Nodes : st[n] = "pending" /\ DepsMet(n) }

\* What stays true of a step's dependencies, and of a finished plan, while others
\* may put a reopenable step back to work.
DepsHeld(n) == \A d \in Deps[n] \ Reopenable : Settled(d)
AllHeld == \A n \in Nodes \ Reopenable : Settled(n)

DagInit ==
  /\ job = "executing"
  /\ st = [n \in Nodes |-> "pending"]

-----------------------------------------------------------------------------
(* A step keeps its status or takes one legal edge.  It is started or answered *)
(* over dependencies that were settled when somebody looked, and only a         *)
(* reopenable one can have been put back since.                                 *)

StartsStep(n)  == st[n] = "pending" /\ st'[n] = "running" /\ DepsHeld(n)
EndsStep(n)    == st[n] = "running" /\ st'[n] \in {"done", "failed", "pending"}
RetriesStep(n) == st[n] = "failed" /\ st'[n] = "pending"
SkipsStep(n)   == st[n] \in {"pending", "running", "failed"} /\ st'[n] = "skipped"
AnswersStep(n) == st[n] = "pending" /\ st'[n] \in {"done", "failed"} /\ DepsHeld(n)
ReopensStep(n) == n \in Reopenable /\ Settled(n) /\ st'[n] = "pending"

StepMoves(n) ==
  \/ st'[n] = st[n]
  \/ StartsStep(n) \/ EndsStep(n) \/ RetriesStep(n) \/ SkipsStep(n) \/ AnswersStep(n)
  \/ ReopensStep(n)

(* The job completes only over a settled plan and then does not move, unless a *)
(* step is reopened.  A failed or cancelled one is left only for more work.    *)
JobMoves ==
  \/ job' = job
  \/ /\ job \notin TerminalStatuses
     /\ job' \in ExecutionStatuses
     /\ job' = "completed" => AllHeld
  \/ job \in {"failed", "cancelled"} /\ job' \in {"running", "executing"}
  \/ job = "completed" /\ job' = "executing" /\ Reopenable # {}

DagNext ==
  /\ st' \in [Nodes -> NodeStatuses]
  /\ \A n \in Nodes : StepMoves(n)
  /\ JobMoves

DagSpec == DagInit /\ [][DagNext]_dagVars

-----------------------------------------------------------------------------
DagTypeOK ==
  /\ job \in ExecutionStatuses
  /\ st \in [Nodes -> NodeStatuses]

\* No step has been started ahead of a dependency: a step that is running, or
\* that ran, has only settled dependencies, reopened ones apart
\* (_claim_ready_nodes_sql folds the test into the claim; every other writer must
\* keep it true).
DependencyOrder ==
  \A n \in Nodes : st[n] \in {"running", "done", "failed"} => DepsHeld(n)

\* A completed job has no unfinished step but a reopened one, whichever of the
\* three writers (a node body, the terminal call, the detached cleanup) completed it.
CompletedIsWhole == job = "completed" => AllHeld

\* The inductive invariant both are read from.
DagInv == DagTypeOK /\ DependencyOrder /\ CompletedIsWhole
=============================================================================
