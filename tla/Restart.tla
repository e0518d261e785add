------------------------------- MODULE Restart -------------------------------
(***************************************************************************)
(* Execution under a process that dies and is started again: what a crash  *)
(* loses (every call, every body, every pending write), what it keeps (the *)
(* rows), and the start-up steps that act on those rows before a request   *)
(* is served (app/main.py lifespan, app/modules/execution_resume.py,       *)
(* run_broker.reconcile_on_startup).                                       *)
(***************************************************************************)
EXTENDS Execution

CONSTANTS Resumer,      \* the call a start-up makes; the others are the operator's
          MaxResume,    \* execution_max_resume_attempts
          MaxMishaps    \* bound: crashes, start-up steps that raise, drains that time out

ASSUME RestartAssumption ==
  /\ Resumer \in Calls
  /\ MaxResume \in Nat \ {0}
  /\ MaxMishaps \in Nat

VARIABLES
  boot,       \* the start-up step that comes next, or "up": requests are served
  attempts,   \* jobs.resume_attempts
  marker,     \* jobs.resume_done_marker
  resumed,    \* the job is in the list of this start-up's claims
  drain,      \* a drain was spawned and waits for its execution slot
  fruitless,  \* history: launches since a step was last settled
  mishaps     \* mishaps left

bootVars    == <<boot, attempts, marker, resumed, drain>>
restartVars == <<vars, bootVars, fruitless, mishaps>>

BootSteps == { "sweep", "claim", "reconcile", "spawn", "up" }

SettledSteps == { n \in Nodes : Settled(n) }

Mishap == mishaps > 0 /\ mishaps' = mishaps - 1

-----------------------------------------------------------------------------
(* Only the stored columns survive.                                         *)

Crash ==
  /\ Mishap
  /\ phase' = [c \in Calls |-> "idle"]
  /\ why' = [c \in Calls |-> "clean"]
  /\ retries' = [c \in Calls |-> RetryCap]
  /\ inflight' = [c \in Calls |-> {}]
  /\ results' = [c \in Calls |-> <<>>]
  /\ target' = [c \in Calls |-> NoStep]
  /\ down' = [c \in Calls |-> {}]
  /\ held' = [c \in Calls |-> {}]
  /\ opRetry' = NoRetry
  /\ boot' = "sweep"
  /\ resumed' = FALSE
  /\ drain' = FALSE
  /\ UNCHANGED <<jobVars, nodeVars, events, attempts, marker, fruitless>>

-----------------------------------------------------------------------------
(* Start-up, in the order of the lifespan.  A step that raises is logged    *)
(* and the start-up goes on.                                                *)

\* _pre_migration_sweep, stage 2: no executor exists yet, so every running step
\* is an orphan.
Sweep ==
  /\ boot = "sweep"
  /\ st' = [n \in Nodes |-> IF st[n] = "running" THEN "pending" ELSE st[n]]
  /\ boot' = "claim"
  /\ UNCHANGED <<jobVars, tries, claims, callVars, opRetry, events, attempts, marker,
                 resumed, drain, fruitless, mishaps>>

SweepRaises ==
  /\ boot = "sweep"
  /\ Mishap
  /\ boot' = "claim"
  /\ UNCHANGED <<vars, attempts, marker, resumed, drain, fruitless>>

MadeProgress_Attempted == Cardinality({ n \in Nodes : st[n] # "pending" }) > marker
MadeProgress == Cardinality(SettledSteps) > marker

\* The streak of launches, were the job launched now.
NextAttempt_NoReset == attempts + 1
NextAttempt == IF MadeProgress THEN 1 ELSE attempts + 1

OverCap_OneMore == NextAttempt > MaxResume + 1
OverCap == NextAttempt > MaxResume

\* resume_orphaned_executions: a job still running is claimed for a relaunch,
\* or failed when its streak would pass the cap.  One transaction.
Claim ==
  /\ boot = "claim"
  /\ IF job # "running"
       THEN UNCHANGED <<job, attempts, marker, resumed, fruitless>>
     ELSE IF OverCap
       THEN job' = "failed" /\ UNCHANGED <<attempts, marker, resumed, fruitless>>
     ELSE /\ job' = "executing"
          /\ attempts' = NextAttempt
          /\ marker' = Cardinality(SettledSteps)
          /\ resumed' = TRUE
          /\ fruitless' = fruitless + 1
  /\ boot' = "reconcile"
  /\ UNCHANGED <<asked, delegated, output, nodeVars, callVars, opRetry, events, drain, mishaps>>

\* execution_resume_on_startup_enabled is off in this start-up.
ValveOff ==
  /\ boot = "claim"
  /\ boot' = "reconcile"
  /\ UNCHANGED <<vars, attempts, marker, resumed, drain, fruitless, mishaps>>

\* The claim raises: neither the reconcile nor the spawn behind it is reached.
ClaimRaises ==
  /\ boot = "claim"
  /\ Mishap
  /\ boot' = "up"
  /\ UNCHANGED <<vars, attempts, marker, resumed, drain, fruitless>>

\* Every step that was started is failed, one that ended well too.
Reconcile_Started ==
  /\ boot = "reconcile"
  /\ IF job = "running" /\ ~resumed
       THEN /\ job' = "failed"
            /\ st' = [n \in Nodes |-> IF st[n] = "pending" THEN st[n] ELSE "failed"]
       ELSE UNCHANGED <<job, st>>
  /\ boot' = "spawn"
  /\ UNCHANGED <<asked, delegated, output, tries, claims, callVars, opRetry, events,
                 attempts, marker, resumed, drain, fruitless, mishaps>>

\* reconcile_on_startup: what the claim did not take is settled.
Reconcile ==
  /\ boot = "reconcile"
  /\ IF job = "running" /\ ~resumed
       THEN /\ job' = "failed"
            /\ st' = [n \in Nodes |-> IF st[n] = "running" THEN "failed" ELSE st[n]]
       ELSE UNCHANGED <<job, st>>
  /\ boot' = "spawn"
  /\ UNCHANGED <<asked, delegated, output, tries, claims, callVars, opRetry, events,
                 attempts, marker, resumed, drain, fruitless, mishaps>>

\* It catches its own failures.
ReconcileRaises ==
  /\ boot = "reconcile"
  /\ Mishap
  /\ boot' = "spawn"
  /\ UNCHANGED <<vars, attempts, marker, resumed, drain, fruitless>>

\* The drains of the claimed jobs are spawned; requests are served from here on.
Spawn ==
  /\ boot = "spawn"
  /\ boot' = "up"
  /\ drain' = resumed
  /\ resumed' = FALSE
  /\ UNCHANGED <<vars, attempts, marker, fruitless, mishaps>>

-----------------------------------------------------------------------------
(* The process is up.                                                       *)

\* What the executor does, with the launches since the last settled step counted.
Up(A) ==
  /\ boot = "up"
  /\ A
  /\ fruitless' = IF SettledSteps' = SettledSteps THEN fruitless ELSE 0
  /\ UNCHANGED <<bootVars, mishaps>>

\* The drain has its slot: it is admitted, or refused because another run owns
\* the job or completed it.
DrainStarts ==
  /\ boot = "up"
  /\ drain
  /\ \/ Admit(Resumer)
     \/ job \in {"running", "completed"} /\ UNCHANGED vars
  /\ drain' = FALSE
  /\ UNCHANGED <<boot, attempts, marker, resumed, fruitless, mishaps>>

\* The reaper's rule for a running job, when no run is left to touch it: the job
\* fails once it is older than the threshold.
Abandoned == \A c \in Calls : phase[c] \in {"idle", "over"}

ReapAbandoned_NoOpenStep ==
  /\ job = "running"
  /\ Abandoned
  /\ ~drain
  /\ AllDone
  /\ job' = "failed"
  /\ UNCHANGED <<asked, delegated, output, nodeVars, callVars, opRetry, events>>

ReapAbandoned ==
  /\ job = "running"
  /\ Abandoned
  /\ ~drain
  /\ \A n \in Nodes : st[n] # "running"
  /\ job' = "failed"
  /\ UNCHANGED <<asked, delegated, output, nodeVars, callVars, opRetry, events>>

\* execution_queue_timeout_seconds passed while the drain waited for its slot.
DrainTimesOut ==
  /\ boot = "up"
  /\ drain
  /\ Mishap
  /\ drain' = FALSE
  /\ UNCHANGED <<vars, boot, attempts, marker, resumed, fruitless>>

-----------------------------------------------------------------------------
RestartInit ==
  /\ Init
  /\ boot = "up"
  /\ attempts = 0
  /\ marker = 0
  /\ resumed = FALSE
  /\ drain = FALSE
  /\ fruitless = 0
  /\ mishaps = MaxMishaps

BootNext ==
  \/ Crash
  \/ Sweep \/ SweepRaises
  \/ Claim \/ ValveOff \/ ClaimRaises
  \/ Reconcile \/ ReconcileRaises
  \/ Spawn \/ DrainStarts \/ DrainTimesOut

\* The operator makes every call but the resumer's.
UpNext ==
  \/ \E c \in Calls \ {Resumer} : Up(Admit(c) \/ Solo(c))
  \/ \E c \in Calls :
       Up(RunStep(c)) \/ Up(BodyStep(c)) \/ Up(RunUpset(c))
  \/ Up(StepNext \/ JobNext \/ ReapAbandoned)

RestartNext == BootNext \/ UpNext

\* A start-up goes through, a spawned drain is scheduled, and the rest is as in
\* Execution.  The process need not crash and nobody need act.
RestartFairness ==
  /\ WF_restartVars(Sweep) /\ WF_restartVars(Claim \/ ValveOff)
  /\ WF_restartVars(Reconcile) /\ WF_restartVars(Spawn) /\ WF_restartVars(DrainStarts)
  /\ \A c \in Calls : WF_restartVars(Up(RunStep(c))) /\ WF_restartVars(Up(BodyStep(c)))
  /\ WF_restartVars(Up(OperatorRetryResets))
  /\ \A n \in Nodes : WF_restartVars(Up(ReapOrphan(n)))
  /\ WF_restartVars(Up(ReapAbandoned))

RestartSpec == RestartInit /\ [][RestartNext]_restartVars
FairRestartSpec == RestartSpec /\ RestartFairness

-----------------------------------------------------------------------------
\* The type invariant, start-up included: one start-up's claim is pending only
\* until its drain is spawned.
RestartTypeOK ==
  /\ TypeOK
  /\ boot \in BootSteps
  /\ attempts \in 0..MaxResume
  /\ marker \in 0..N
  /\ resumed \in BOOLEAN
  /\ drain \in BOOLEAN
  /\ fruitless \in Nat
  /\ mishaps \in Nat

\* A crash loop is cut: between two settled steps a job is launched by a start-up
\* at most execution_max_resume_attempts times.
CrashLoopCut == fruitless <= MaxResume

\* A settled step may have been put back: the marker counts the settled steps only.
Reopened == Happened("reset") \/ Happened("stale_tests")

\* "A restart that DOES make progress resets the counter": a start-up fails a job
\* only after that many launches in a row that settled nothing, or when it did not
\* claim it at all.  A step that was put back and settled again counts as nothing.
CutOnlyWhenStuck ==
  [][boot # "up" /\ job # "failed" /\ job' = "failed" =>
       \/ boot = "claim" /\ (fruitless = MaxResume \/ Reopened)
       \/ boot = "reconcile" /\ ~resumed]_restartVars

\* What the two rest on: the launches since a step was last settled are never more
\* than the stored streak, the stored marker is not ahead of the settled steps, and
\* while they agree the stored streak is the true one.
StreakKept ==
  /\ fruitless <= attempts
  /\ fruitless > 0 => marker = Cardinality(SettledSteps)
  /\ Reopened \/ marker <= Cardinality(SettledSteps)
  /\ Reopened \/ (marker = Cardinality(SettledSteps) => attempts = fruitless)

\* While the process starts there is no call, no body and no request under way.
BootIsQuiet ==
  boot # "up" =>
    /\ \A c \in Calls : phase[c] = "idle" /\ inflight[c] = {}
    /\ opRetry = NoRetry

\* The inductive invariant.
RestartInv == RestartTypeOK /\ ExecutionInv /\ BootIsQuiet /\ StreakKept

\* "A startup pass re-drives execute_all_nodes for every such job": a job claimed
\* for a relaunch is taken up by a run, or is no longer waiting for one.
Redriven == resumed ~> (phase[Resumer] # "idle" \/ job # "executing")
=============================================================================
