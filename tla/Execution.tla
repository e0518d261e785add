------------------------------ MODULE Execution ------------------------------
(***************************************************************************)
(* The executor of one job (app/modules/execution_agent.py): calls of      *)
(* execute_all_nodes running the parallel frontier, calls of               *)
(* execute_next_node made on their own (POST /execute), the node bodies    *)
(* they start, automatic and operator retries, the operator's cancel,      *)
(* skip, reset, resume and decision, the detached cleanup of a run that    *)
(* ended and the periodic reaper.  A database transaction is one step; everything    *)
(* between two transactions (a model call, an await) is where the others   *)
(* move.                                                                   *)
(*                                                                         *)
(* A definition named X_Slip (Claimable_Running) is X with one plausible   *)
(* mistake in it.  Nothing uses it: in the place of X it makes a run fail. *)
(***************************************************************************)
EXTENDS DagJob, FiniteSets, Sequences

CONSTANTS Decisions,    \* steps of node_type 'decision'
          Calls,        \* the execution calls made during a behaviour
          Cap,          \* parallel_execution_max_inflight
          RetryCap,     \* execution_global_retry_cap
          MaxRetries,   \* dag_nodes.max_retries
          Events,       \* the kinds of outside event the environment may cause
          MaxEvents     \* bound: how many outside events a behaviour has

EventKinds ==
  { "solo", "skip", "cancel", "resume", "retry", "disconnect", "exception",
    "slow_reap", "stale_reap", "budget", "quota", "worker_error", "hands_on", "reask",
    "shortcut", "reset", "look_error", "stale_tests" }

ASSUME ExecutionAssumption ==
  /\ Decisions \subseteq Nodes
  /\ Cap \in Nat \ {0}
  /\ RetryCap \in Nat
  /\ MaxRetries \in Nat
  /\ Events \subseteq EventKinds
  /\ MaxEvents \in Nat

NoStep == 0            \* a call that has not claimed a step yet

VARIABLES
  asked,      \* jobs.metadata.awaiting_decision: the parked step, or NoStep
  delegated,  \* decisions the operator handed to the engine
  output,     \* jobs.compiled_output: none, the plan, a partial or the final text
  tries,      \* dag_nodes.retry_count
  phase,      \* where each call is
  why,        \* its exit_reason; "finished" once the cleanup counted no open step
  retries,    \* its remaining automatic retries
  inflight,   \* the node bodies it started
  results,    \* its results_q
  target,     \* the step it is framing a decision for, or retrying
  down,       \* the downstream steps a retry read for its cascade
  held,       \* the steps of the bodies it cancelled when it left
  opRetry,    \* an operator's retry between its read and its reset
  claims,     \* history: how many times each step has been claimed
  events      \* history: the outside events so far

jobVars  == <<job, asked, delegated, output>>
nodeVars == <<st, tries, claims>>
callVars == <<phase, why, retries, inflight, results, target, down, held>>
vars     == <<jobVars, nodeVars, callVars, opRetry, events>>

Phases == { "idle", "gate", "claim", "settle", "frame", "ask", "sum", "final", "drain",
            "quota", "retry", "reset", "release", "count", "cleanup", "solo", "over" }
BodyPcs == { "enter", "frame", "ask", "claim", "take", "work", "tail", "compile", "partial",
             "ended" }
Outcomes == { "none", "done", "failed", "stale", "error", "complete", "blocked",
              "budget_exhausted", "awaiting_decision", "cached", "fresh" }
Reasons == { "clean", "finished", "exception", "cancelled" }
Outputs == { "none", "plan", "partial", "final" }

Body == [node : Nodes \cup {NoStep}, claim : Nat, pc : BodyPcs, res : Outcomes]
Result == [node : Nodes \cup {NoStep}, status : Outcomes]
RetryRead == [node : Nodes \cup {NoStep}, down : SUBSET Nodes]

FreshCall == [node |-> NoStep, claim |-> 0, pc |-> "enter", res |-> "none"]
NoRetry == [node |-> NoStep, down |-> {}]

-----------------------------------------------------------------------------
Live(c) == { w \in inflight[c] : w.pc # "ended" }

\* Steps the frontier may claim, and decisions it must ask about instead.
Undelegated == Decisions \ delegated

Claimable_AheadOfDeps == { n \in Nodes : st[n] = "pending" } \ Undelegated
Claimable_Running == { n \in Nodes : st[n] \in {"pending", "running"} /\ DepsMet(n) } \ Undelegated
Claimable_Decisions == Ready
Claimable == Ready \ Undelegated

MustAsk_Delegated == Ready \cap Decisions
MustAsk == Ready \cap Undelegated

First(S) == CHOOSE n \in S : \A m \in S : n <= m
FirstOf(S, k) == { n \in S : Cardinality({ m \in S : m < n }) < k }

Outside(kind) ==
  /\ kind \in Events
  /\ Len(events) < MaxEvents
  /\ events' = Append(events, kind)

Happened(kind) == \E i \in DOMAIN events : events[i] = kind

Goto(c, p) == phase' = [phase EXCEPT ![c] = p]

\* A body goes on, or ends by handing its result to the call that started it.
Steps(c, w, v) == inflight' = [inflight EXCEPT ![c] = (@ \ {w}) \cup {v}]
Puts(c, w, s) ==
  /\ Steps(c, w, [w EXCEPT !.pc = "ended"])
  /\ results' = [results EXCEPT ![c] = Append(@, [node |-> w.node, status |-> s])]

\* The detached cleanup first counts the open steps, unless it knows its verdict.
Spawned(reason) == IF reason = "clean" THEN "count" ELSE "cleanup"

\* The bodies are not cancelled.
Leaves_BodiesGoOn(c, reason) ==
  LET cut == IF phase[c] = "final" THEN {} ELSE { w.node : w \in Live(c) }
  IN  /\ Goto(c, IF cut = {} THEN Spawned(reason) ELSE "release")
      /\ held' = [held EXCEPT ![c] = cut]
      /\ why' = [why EXCEPT ![c] = reason]
      /\ UNCHANGED <<retries, inflight, results, target, down>>

(* Every way out of a run: the bodies still going are cancelled, their steps *)
(* are held for release, and the detached cleanup is spawned after that.     *)
(* The terminal call (phase final) runs inline, so no task of it is tracked. *)
Leaves(c, reason) ==
  LET cut == IF phase[c] = "final" THEN {} ELSE { w.node : w \in Live(c) }
  IN  /\ Goto(c, IF cut = {} THEN Spawned(reason) ELSE "release")
      /\ held' = [held EXCEPT ![c] = cut]
      /\ why' = [why EXCEPT ![c] = reason]
      /\ inflight' = [inflight EXCEPT ![c] = {}]
      /\ results' = [results EXCEPT ![c] = <<>>]
      /\ UNCHANGED <<retries, target, down>>

-----------------------------------------------------------------------------
(* execute_all_nodes: admission, gates, the frontier loop.                  *)

\* Session 1, the check-and-set that admits a run.
Admit(c) ==
  /\ phase[c] = "idle"
  /\ job \notin {"running", "completed"}
  /\ job' = "running"
  /\ Goto(c, "gate")
  /\ UNCHANGED <<asked, delegated, output, nodeVars, why, retries, inflight, results,
                 target, down, held, opRetry, events>>

\* Session 2: the job is read again before anything runs.
Validate(c) ==
  /\ phase[c] = "gate"
  /\ IF job \in {"running", "executing"}
       THEN Goto(c, "claim") /\ UNCHANGED <<why, retries, inflight, results, target, down, held>>
       ELSE Leaves(c, "clean")
  /\ UNCHANGED <<jobVars, nodeVars, opRetry, events>>

\* The hands-on gate: the plan is parked for assist, or the job blocks because
\* the machine that would run its steps does not answer.
HandsOnGate(c) ==
  /\ phase[c] = "gate"
  /\ Outside("hands_on")
  /\ MayMoveFrom(job, {"running", "executing"})
  /\ \/ job' = "awaiting_assist" /\ output' = "plan"
     \/ job' = "blocked" /\ UNCHANGED output
  /\ Leaves(c, "clean")
  /\ UNCHANGED <<asked, delegated, nodeVars, opRetry>>

\* The loop waits for a result whether or not a body is going.
ClaimFrontier_Waits(c) ==
  /\ phase[c] = "claim"
  /\ LET free == IF Cardinality(inflight[c]) < Cap THEN Cap - Cardinality(inflight[c]) ELSE 0
         S == FirstOf(Claimable, free)
     IN  /\ st' = [n \in Nodes |-> IF n \in S THEN "running" ELSE st[n]]
         /\ claims' = [n \in Nodes |-> IF n \in S THEN claims[n] + 1 ELSE claims[n]]
         /\ inflight' = [inflight EXCEPT ![c] =
              @ \cup { [node |-> n, claim |-> claims[n] + 1, pc |-> "enter", res |-> "none"] : n \in S }]
         /\ Goto(c, "drain")
  /\ UNCHANGED <<jobVars, tries, why, retries, results, target, down, held, opRetry, events>>

\* Refill: the first ready steps, up to the free slots, in one statement.
ClaimFrontier(c) ==
  /\ phase[c] = "claim"
  /\ LET free == IF Cardinality(inflight[c]) < Cap THEN Cap - Cardinality(inflight[c]) ELSE 0
         S == FirstOf(Claimable, free)
         started == { [node |-> n, claim |-> claims[n] + 1, pc |-> "enter", res |-> "none"] : n \in S }
     IN  /\ st' = [n \in Nodes |-> IF n \in S THEN "running" ELSE st[n]]
         /\ claims' = [n \in Nodes |-> IF n \in S THEN claims[n] + 1 ELSE claims[n]]
         /\ inflight' = [inflight EXCEPT ![c] = @ \cup started]
         /\ Goto(c, IF inflight[c] \cup started = {} THEN "settle" ELSE "drain")
  /\ UNCHANGED <<jobVars, tries, why, retries, results, target, down, held, opRetry, events>>

\* A database error the loop does not handle (a claim that failed three times):
\* the run leaves with an exception.
RunFails(c) ==
  /\ phase[c] \in { "gate", "claim", "sum", "final" }
  /\ Outside("exception")
  /\ Leaves(c, "exception")
  /\ UNCHANGED <<jobVars, nodeVars, opRetry>>

\* Nothing running and nothing claimable: is the next step the operator's?
Settle(c) ==
  /\ phase[c] = "settle"
  /\ IF MustAsk = {}
       THEN Goto(c, "sum") /\ UNCHANGED target
       ELSE Goto(c, "frame") /\ target' = [target EXCEPT ![c] = First(MustAsk)]
  /\ UNCHANGED <<jobVars, nodeVars, why, retries, inflight, results, down, held, opRetry, events>>

\* The look-up raises: it is logged, and taken for "nothing to ask".
LookFails(c) ==
  /\ phase[c] = "settle"
  /\ Outside("look_error")
  /\ Goto(c, "sum")
  /\ UNCHANGED <<jobVars, nodeVars, why, retries, inflight, results, target, down, held, opRetry>>

\* The steps of R are read again: back to pending, with their retries back.
PutBack(R) ==
  /\ st' = [n \in Nodes |-> IF n \in R THEN "pending" ELSE st[n]]
  /\ tries' = [n \in Nodes |-> IF n \in R THEN 0 ELSE tries[n]]

\* Before the delivery question the job's tests run together (stale_test_steps): the
\* steps whose test files fail are put back, whatever they have become meanwhile,
\* and the loop goes round to claim them (take_reset).
StaleTests ==
  /\ Outside("stale_tests")
  /\ \E R \in SUBSET Reopenable \ {{}} : PutBack(R)

Reread(c) ==
  /\ phase[c] = "frame"
  /\ StaleTests
  /\ Goto(c, "claim")
  /\ UNCHANGED <<jobVars, claims, why, retries, inflight, results, target, down, held, opRetry>>

\* The question was drafted for a minute: the dependencies are read again.  If one
\* was put back, the look-up is made anew, six times at most.
Recheck(c) ==
  /\ phase[c] = "frame"
  /\ IF DepsMet(target[c]) THEN Goto(c, "ask") ELSE Goto(c, "settle") \/ Goto(c, "sum")
  /\ UNCHANGED <<jobVars, nodeVars, why, retries, inflight, results, target, down, held, opRetry, events>>

\* park_awaiting_decision, in a session of its own; refused, it writes nothing.
Park(c) ==
  /\ phase[c] = "ask"
  /\ IF MayMoveFrom(job, {"running", "executing"})
       THEN /\ job' = "awaiting_decision"
            /\ asked' = target[c]
            /\ Leaves(c, "clean")
       ELSE /\ Goto(c, "sum")
            /\ UNCHANGED <<job, asked, why, retries, inflight, results, target, down, held>>
  /\ UNCHANGED <<delegated, output, nodeVars, opRetry, events>>

\* All done: the run reports completion and returns.  Otherwise the terminal
\* call of execute_next_node decides what the job is.
Sum(c) ==
  /\ phase[c] = "sum"
  /\ IF AllDone
       THEN Leaves(c, "clean")
       ELSE /\ Goto(c, "final")
            /\ inflight' = [inflight EXCEPT ![c] = {FreshCall}]
            /\ UNCHANGED <<why, retries, results, target, down, held>>
  /\ UNCHANGED <<jobVars, nodeVars, opRetry, events>>

\* The terminal call returned: whatever it did, the run returns.
FinalReturns(c) ==
  /\ phase[c] = "final"
  /\ Live(c) = {}
  /\ Leaves(c, "clean")
  /\ UNCHANGED <<jobVars, nodeVars, opRetry, events>>

\* One result is taken; every body that has ended is forgotten (_reap).
Drain(c) ==
  /\ phase[c] = "drain"
  /\ results[c] # <<>>
  /\ LET r == Head(results[c])
     IN  /\ r.status # "budget_exhausted"
         /\ inflight' = [inflight EXCEPT ![c] = Live(c)]
         /\ results' = [results EXCEPT ![c] = Tail(@)]
         /\ IF r.status = "failed" /\ retries[c] > 0
              THEN Goto(c, "retry") /\ target' = [target EXCEPT ![c] = r.node]
              ELSE Goto(c, "claim") /\ UNCHANGED target
  /\ UNCHANGED <<jobVars, nodeVars, why, retries, down, held, opRetry, events>>

\* No result for sse_keepalive_seconds: the loop goes round, and may claim what has
\* become ready meanwhile.
Keepalive(c) ==
  /\ phase[c] = "drain"
  /\ results[c] = <<>>
  /\ inflight' = [inflight EXCEPT ![c] = Live(c)]
  /\ Goto(c, "claim")
  /\ UNCHANGED <<jobVars, nodeVars, why, retries, results, target, down, held, opRetry, events>>

\* A body hit the budget: the run stops.
DrainBudget(c) ==
  /\ phase[c] = "drain"
  /\ results[c] # <<>>
  /\ Head(results[c]).status = "budget_exhausted"
  /\ Leaves(c, "clean")
  /\ UNCHANGED <<jobVars, nodeVars, opRetry, events>>

\* A failed result was the model account's limit: the job blocks and the operator is
\* told, while the other bodies still work.
DrainQuota(c) ==
  /\ phase[c] = "drain"
  /\ results[c] # <<>>
  /\ Head(results[c]).status = "failed"
  /\ Outside("quota")
  /\ job' = IF MayMoveFrom(job, {"running", "executing"}) THEN "blocked" ELSE job
  /\ inflight' = [inflight EXCEPT ![c] = Live(c)]
  /\ results' = [results EXCEPT ![c] = Tail(@)]
  /\ Goto(c, "quota")
  /\ UNCHANGED <<asked, delegated, output, nodeVars, why, retries, target, down, held, opRetry>>

\* The warning was taken by the stream: the run returns.
QuotaStops(c) ==
  /\ phase[c] = "quota"
  /\ Leaves(c, "clean")
  /\ UNCHANGED <<jobVars, nodeVars, opRetry, events>>

-----------------------------------------------------------------------------
(* retry_failed_node: a read (status, count, cascade), then a guarded reset. *)

Downstream(n) ==
  LET reach[k \in 0..N] ==
        IF k = 0 THEN {}
        ELSE IF k > n /\ \E d \in Deps[k] : d = n \/ d \in reach[k - 1]
          THEN reach[k - 1] \cup {k} ELSE reach[k - 1]
  IN  reach[N]

MayRetry_NoCount(n) == st[n] = "failed"
MayRetry(n) == st[n] = "failed" /\ tries[n] < MaxRetries
Cascade(n) == { k \in Nodes : k \in Downstream(n) /\ st[k] \in {"pending", "failed"} }

Resets(n, D) ==
  /\ st' = [k \in Nodes |->
              IF k = n \/ (k \in D /\ st[k] = "failed") THEN "pending" ELSE st[k]]
  /\ tries' = [tries EXCEPT ![n] = @ + 1]
  /\ IF job \in {"failed", "blocked"}
       THEN job' = "executing" /\ output' = "none"
       ELSE UNCHANGED <<job, output>>

\* The run's automatic retry of the result it drained.
AutoRetryReads(c) ==
  /\ phase[c] = "retry"
  /\ IF MayRetry(target[c])
       THEN Goto(c, "reset") /\ down' = [down EXCEPT ![c] = Cascade(target[c])]
       ELSE Goto(c, "claim") /\ UNCHANGED down
  /\ UNCHANGED <<jobVars, nodeVars, why, retries, inflight, results, target, held, opRetry, events>>

AutoRetryResets(c) ==
  /\ phase[c] = "reset"
  /\ IF st[target[c]] = "failed"
       THEN /\ Resets(target[c], down[c])
            /\ retries' = [retries EXCEPT ![c] = @ - 1]
       ELSE UNCHANGED <<job, output, st, tries, retries>>
  /\ Goto(c, "claim")
  /\ UNCHANGED <<asked, delegated, claims, why, inflight, results, target, down, held, opRetry, events>>

\* POST /exec/retry.
OperatorRetryReads(n) ==
  /\ opRetry = NoRetry
  /\ MayRetry(n)
  /\ Outside("retry")
  /\ opRetry' = [node |-> n, down |-> Cascade(n)]
  /\ UNCHANGED <<jobVars, nodeVars, callVars>>

OperatorRetryResets ==
  /\ opRetry # NoRetry
  /\ IF st[opRetry.node] = "failed"
       THEN Resets(opRetry.node, opRetry.down)
       ELSE UNCHANGED <<job, output, st, tries>>
  /\ opRetry' = NoRetry
  /\ UNCHANGED <<asked, delegated, claims, callVars, events>>

-----------------------------------------------------------------------------
(* execute_next_node: one body, w, started by call c.                       *)

Executable == job \in ExecutableStatuses
SomeDone == \E n \in Nodes : st[n] = "done"
At(c, w, p) == w \in inflight[c] /\ w.pc = p
GoesTo(c, w, p) == Steps(c, w, [w EXCEPT !.pc = p]) /\ UNCHANGED results

\* Phase 1: the job's status.  A body given its step goes to work; one that
\* must claim its own first asks whether the next step is the operator's.
Enter(c, w) ==
  /\ At(c, w, "enter")
  /\ IF ~Executable THEN Puts(c, w, "error")
     ELSE IF w.node # NoStep THEN GoesTo(c, w, "work")
     ELSE IF Ready # {} /\ First(Ready) \in Decisions /\ MustAsk # {}
       THEN /\ Steps(c, w, [w EXCEPT !.pc = "frame", !.node = First(MustAsk)])
            /\ UNCHANGED results
     ELSE GoesTo(c, w, "claim")
  /\ UNCHANGED <<jobVars, nodeVars, phase, why, retries, target, down, held, opRetry, events>>

\* The peek or its look-up raises: the body goes on to claim without asking.
PeekFails(c, w) ==
  /\ At(c, w, "enter")
  /\ Executable
  /\ w.node = NoStep
  /\ Outside("look_error")
  /\ GoesTo(c, w, "claim")
  /\ UNCHANGED <<jobVars, nodeVars, phase, why, retries, target, down, held, opRetry>>

\* enforce_job_budget: the spend passed the cap, the job fails.
OverBudget(c, w) ==
  /\ At(c, w, "enter")
  /\ Executable
  /\ Outside("budget")
  /\ job' = "failed"
  /\ Puts(c, w, "budget_exhausted")
  /\ UNCHANGED <<asked, delegated, output, nodeVars, phase, why, retries, target, down, held, opRetry>>

\* A body that asks nothing after all goes on to claim.
ClaimsInstead(c, w) ==
  /\ Steps(c, w, [w EXCEPT !.pc = "claim", !.node = NoStep])
  /\ UNCHANGED results

\* What the loop does between its look-up and the parking, done by a body.
RereadAlone(c, w) ==
  /\ At(c, w, "frame")
  /\ StaleTests
  /\ ClaimsInstead(c, w)
  /\ UNCHANGED <<jobVars, claims, phase, why, retries, target, down, held, opRetry>>

RecheckAlone(c, w) ==
  /\ At(c, w, "frame")
  /\ IF DepsMet(w.node) THEN GoesTo(c, w, "ask")
     ELSE \/ ClaimsInstead(c, w)
          \/ /\ MustAsk # {}
             /\ Steps(c, w, [w EXCEPT !.node = First(MustAsk)])
             /\ UNCHANGED results
  /\ UNCHANGED <<jobVars, nodeVars, phase, why, retries, target, down, held, opRetry, events>>

\* The question is framed: park the job, or go on to claim when that is refused.
ParkAlone(c, w) ==
  /\ At(c, w, "ask")
  /\ IF MayMoveFrom(job, {"running", "executing"})
       THEN /\ job' = "awaiting_decision"
            /\ asked' = w.node
            /\ Puts(c, w, "awaiting_decision")
       ELSE ClaimsInstead(c, w) /\ UNCHANGED <<job, asked>>
  /\ UNCHANGED <<delegated, output, nodeVars, phase, why, retries, target, down, held, opRetry, events>>

\* _get_next_node, "two statements, not one": the first ready step, whatever its
\* kind, is chosen...
Pick(c, w) ==
  /\ At(c, w, "claim")
  /\ IF Ready = {}
       THEN GoesTo(c, w, "tail")
       ELSE /\ Steps(c, w, [w EXCEPT !.node = First(Ready), !.pc = "take"])
            /\ UNCHANGED results
  /\ UNCHANGED <<jobVars, nodeVars, phase, why, retries, target, down, held, opRetry, events>>

\* ... and claimed if it is still pending; whoever lost the race has no step.
Take(c, w) ==
  /\ At(c, w, "take")
  /\ IF st[w.node] = "pending"
       THEN /\ st' = [st EXCEPT ![w.node] = "running"]
            /\ claims' = [claims EXCEPT ![w.node] = @ + 1]
            /\ Steps(c, w, [w EXCEPT !.claim = claims[w.node] + 1, !.pc = "work"])
       ELSE /\ Steps(c, w, [w EXCEPT !.pc = "tail", !.node = NoStep])
            /\ UNCHANGED <<st, claims>>
  /\ UNCHANGED <<jobVars, tries, phase, why, retries, results, target, down, held, opRetry, events>>

\* Phase 3: the outcome is written only over 'running'; refused, it is stale.
Persist(c, w, s) ==
  /\ At(c, w, "work")
  /\ IF st[w.node] = "running"
       THEN /\ st' = [st EXCEPT ![w.node] = s]
            /\ Steps(c, w, [w EXCEPT !.pc = "tail", !.res = s])
            /\ UNCHANGED results
       ELSE Puts(c, w, "stale") /\ UNCHANGED st
  /\ UNCHANGED <<jobVars, tries, claims, phase, why, retries, target, down, held, opRetry, events>>

\* The same guarded write, but the body reports s whether or not the write was
\* accepted, and does not look whether the plan is finished.
EndsAtOnce(c, w, s) ==
  /\ At(c, w, "work")
  /\ st' = [st EXCEPT ![w.node] = IF @ = "running" THEN s ELSE @]
  /\ Puts(c, w, s)
  /\ UNCHANGED <<jobVars, tries, claims, phase, why, retries, target, down, held, opRetry>>

\* A fetch, a prompt, a timeout or a model error.
GivesUp(c, w) == EndsAtOnce(c, w, "failed") /\ UNCHANGED events

\* A step for a human, or one that is a call of an external tool.
Shortcut(c, w) == EndsAtOnce(c, w, "done") /\ Outside("shortcut")

\* An exception outside those handlers, at work or after the outcome was written:
\* _worker reports a failure, and what was still to be written is not.
WorkerError(c, w) ==
  /\ w \in inflight[c]
  /\ w.pc \in { "work", "tail", "compile" }
  /\ phase[c] # "final"
  /\ Outside("worker_error")
  /\ Puts(c, w, IF w.node = NoStep THEN "error" ELSE "failed")
  /\ UNCHANGED <<jobVars, nodeVars, phase, why, retries, target, down, held, opRetry>>

\* The job is completed but the text is left to somebody else.
Finish_NoCompile(c, w) ==
  /\ At(c, w, "tail")
  /\ IF AllDone /\ job \notin TerminalStatuses
       THEN job' = "completed" /\ asked' = NoStep
       ELSE UNCHANGED <<job, asked>>
  /\ Puts(c, w, IF w.node = NoStep THEN "blocked" ELSE w.res)
  /\ UNCHANGED <<delegated, output, nodeVars, phase, why, retries, target, down, held, opRetry, events>>

\* Whoever finds every step settled completes the job, if it is not terminal,
\* and compiles; a body that found no step and a plan not settled compiles a
\* partial text, reading first whether there is one already.
Finish(c, w) ==
  /\ At(c, w, "tail")
  /\ IF AllDone /\ job \notin TerminalStatuses
       THEN job' = "completed" /\ asked' = NoStep /\ GoesTo(c, w, "compile")
       ELSE /\ UNCHANGED <<job, asked>>
            /\ IF AllDone \/ w.node # NoStep
                 THEN Puts(c, w, IF w.node = NoStep THEN "complete" ELSE w.res)
                 ELSE /\ Steps(c, w, [w EXCEPT !.pc = "partial",
                                               !.res = IF output = "none" THEN "fresh" ELSE "cached"])
                      /\ UNCHANGED results
  /\ UNCHANGED <<delegated, output, nodeVars, phase, why, retries, target, down, held, opRetry, events>>

\* The deliverable is stored by a transaction of its own.
Compile(c, w) ==
  /\ At(c, w, "compile")
  /\ output' = IF SomeDone THEN "final" ELSE IF w.node = NoStep THEN output ELSE "none"
  /\ Puts(c, w, IF w.node = NoStep THEN "complete" ELSE w.res)
  /\ UNCHANGED <<job, asked, delegated, nodeVars, phase, why, retries, target, down, held, opRetry, events>>

\* The partial deliverable, then the guarded flip to blocked.
Partial(c, w) ==
  /\ At(c, w, "partial")
  /\ output' = IF w.res = "fresh" /\ SomeDone THEN "partial" ELSE output
  /\ job' = IF job \in TerminalStatuses \/ \E n \in Nodes : st[n] = "running" THEN job ELSE "blocked"
  /\ Puts(c, w, "blocked")
  /\ UNCHANGED <<asked, delegated, nodeVars, phase, why, retries, target, down, held, opRetry, events>>

BodyStep(c) ==
  \E w \in inflight[c] :
    \/ Enter(c, w) \/ PeekFails(c, w) \/ OverBudget(c, w)
    \/ RereadAlone(c, w) \/ RecheckAlone(c, w) \/ ParkAlone(c, w)
    \/ Pick(c, w) \/ Take(c, w)
    \/ Persist(c, w, "done") \/ Persist(c, w, "failed")
    \/ GivesUp(c, w) \/ Shortcut(c, w) \/ WorkerError(c, w)
    \/ Finish(c, w) \/ Compile(c, w) \/ Partial(c, w)

-----------------------------------------------------------------------------
(* Leaving a run: release, then the detached cleanup.                       *)

\* The claims are not given back.
Release_Nothing(c) ==
  /\ phase[c] = "release"
  /\ Goto(c, Spawned(why[c]))
  /\ UNCHANGED <<jobVars, nodeVars, why, retries, inflight, results, target, down, held, opRetry, events>>

\* _release_claims.  A cancellation of a run that is leaving, or a second one, can
\* interrupt it (why = cancelled).
Release(c) ==
  /\ phase[c] = "release"
  /\ \/ st' = [n \in Nodes |-> IF n \in held[c] /\ st[n] = "running" THEN "pending" ELSE st[n]]
     \/ why[c] = "cancelled" /\ UNCHANGED st
  /\ Goto(c, Spawned(why[c]))
  /\ UNCHANGED <<jobVars, tries, claims, why, retries, inflight, results, target, down, held, opRetry, events>>

\* _cleanup_stuck_running_job reads whether the plan is finished, outside the
\* lock it then writes under.
Count(c) ==
  /\ phase[c] = "count"
  /\ why' = [why EXCEPT ![c] = IF AllDone THEN "finished" ELSE @]
  /\ Goto(c, "cleanup")
  /\ UNCHANGED <<jobVars, nodeVars, retries, inflight, results, target, down, held, opRetry, events>>

\* Its write, guarded on the job still being 'running'.
Cleanup(c) ==
  /\ phase[c] = "cleanup"
  /\ IF MayMoveFrom(job, {"running"})
       THEN /\ job' = CASE why[c] = "cancelled" -> "cancelled"
                        [] why[c] = "finished" -> "completed"
                        [] OTHER -> "failed"
            /\ st' = [n \in Nodes |-> IF st[n] = "running" THEN "failed" ELSE st[n]]
       ELSE UNCHANGED <<job, st>>
  /\ Goto(c, "over")
  /\ UNCHANGED <<asked, delegated, output, tries, claims, why, retries, inflight, results,
                 target, down, held, opRetry, events>>

-----------------------------------------------------------------------------
(* What happens to a run from outside.                                      *)

InLoop(c) ==
  phase[c] \in { "gate", "claim", "settle", "frame", "ask", "sum", "final", "drain", "quota",
                 "retry", "reset" }

\* The stream that drives the run is dropped, or run_broker.cancel stops it: in the
\* loop, or while a run that is leaving awaits its bodies and gives back their steps.
Disconnect(c) ==
  /\ Outside("disconnect")
  /\ \/ InLoop(c) /\ Leaves(c, "cancelled")
     \/ /\ phase[c] = "release"
        /\ why[c] # "cancelled"
        /\ why' = [why EXCEPT ![c] = "cancelled"]
        /\ UNCHANGED <<phase, retries, inflight, results, target, down, held>>
  /\ UNCHANGED <<jobVars, nodeVars, opRetry>>

\* POST /execute: one body on its own, neither admitted nor cleaned up after.
Solo(c) ==
  /\ phase[c] = "idle"
  /\ Outside("solo")
  /\ Goto(c, "solo")
  /\ inflight' = [inflight EXCEPT ![c] = {FreshCall}]
  /\ UNCHANGED <<jobVars, nodeVars, why, retries, results, target, down, held, opRetry>>

SoloReturns(c) ==
  /\ phase[c] = "solo"
  /\ Live(c) = {}
  /\ Goto(c, "over")
  /\ inflight' = [inflight EXCEPT ![c] = {}]
  /\ results' = [results EXCEPT ![c] = <<>>]
  /\ UNCHANGED <<jobVars, nodeVars, why, retries, target, down, held, opRetry, events>>

\* The cancel is written over whatever the job has become.
CancelJob_Unguarded ==
  /\ Outside("cancel")
  /\ job' = "cancelled"
  /\ UNCHANGED <<asked, delegated, output, nodeVars, callVars, opRetry>>

\* cancel_active_job and resume_cancelled_job.
CancelJob ==
  /\ MayMoveByDefault(job)
  /\ Outside("cancel")
  /\ job' = "cancelled"
  /\ UNCHANGED <<asked, delegated, output, nodeVars, callVars, opRetry>>

Resume ==
  /\ job = "cancelled"
  /\ Outside("resume")
  /\ job' = "executing"
  /\ UNCHANGED <<asked, delegated, output, nodeVars, callVars, opRetry>>

\* skip_node: a done step is never skipped over; a running one may be.
Skip(n) ==
  /\ st[n] \in {"pending", "running", "failed"}
  /\ Outside("skip")
  /\ st' = [st EXCEPT ![n] = "skipped"]
  /\ UNCHANGED <<jobVars, tries, claims, callVars, opRetry>>

\* reset_node: a step of any status, with what stands on it if the caller says so, goes
\* back to pending.  A parked question about it goes too, and an ended job reopens.
Reset(n) ==
  /\ Outside("reset")
  /\ \E K \in { {n}, {n} \cup Downstream(n) } :
       /\ \A k \in K : Settled(k) => k \in Reopenable
       /\ PutBack(K)
       /\ asked' = IF asked \in K THEN NoStep ELSE asked
       /\ job' = CASE job = "awaiting_decision" /\ asked \in K -> "blocked"
                   [] job \in TerminalStatuses -> "executing"
                   [] OTHER -> job
       /\ output' = IF job \in TerminalStatuses THEN "none" ELSE output
  /\ UNCHANGED <<delegated, claims, callVars, opRetry>>

\* resolve_decision: the step is answered (refused when it is no longer
\* pending) or handed to the engine; the job goes back to executing.
Decide ==
  /\ job = "awaiting_decision"
  /\ \/ /\ st[asked] = "pending"
        /\ st' = [st EXCEPT ![asked] = "done"]
        /\ UNCHANGED delegated
     \/ /\ delegated' = delegated \cup {asked}
        /\ UNCHANGED st
  /\ job' = "executing"
  /\ asked' = NoStep
  /\ UNCHANGED <<output, tries, claims, callVars, opRetry, events>>

\* reask: the question is thrown away; no step is touched.
Reask ==
  /\ job = "awaiting_decision"
  /\ Outside("reask")
  /\ job' = "executing"
  /\ asked' = NoStep
  /\ UNCHANGED <<delegated, output, nodeVars, callVars, opRetry>>

-----------------------------------------------------------------------------
(* reap_stale_jobs.  The reaper sees times only: a step claimed more than   *)
(* node_orphan_threshold_minutes ago goes back to pending.                  *)

HasWorker(n) ==
  \E c \in Calls : \E w \in Live(c) : w.node = n /\ w.claim = claims[n]

\* A run whose job is no longer executable ends within one node_timeout, and a
\* cleanup within seconds, well inside the threshold: until then the steps they
\* left are too young to be reaped.
Unwinding ==
  \E c \in Calls : phase[c] \in { "release", "count", "cleanup" } \/ (InLoop(c) /\ ~Executable)

Reap(n) == st' = [st EXCEPT ![n] = "pending"]

\* Only the steps of a job that is running are looked at.
ReapOrphan_LiveJob(n) ==
  /\ st[n] = "running"
  /\ job \in {"running", "executing"}
  /\ ~HasWorker(n)
  /\ ~Unwinding
  /\ Reap(n)
  /\ UNCHANGED <<jobVars, tries, claims, callVars, opRetry, events>>

\* A step nobody works on any more.
ReapOrphan(n) ==
  /\ st[n] = "running"
  /\ ~HasWorker(n)
  /\ ~Unwinding
  /\ Reap(n)
  /\ UNCHANGED <<jobVars, tries, claims, callVars, opRetry, events>>

\* A step whose body is slower than the threshold.
ReapSlow(n) ==
  /\ st[n] = "running"
  /\ HasWorker(n)
  /\ Outside("slow_reap")
  /\ Reap(n)
  /\ UNCHANGED <<jobVars, tries, claims, callVars, opRetry>>

\* A running job, untouched for stale_threshold_minutes, with no running step.
\* A run touches its job more often than that unless a body keeps it waiting.
Untouched ==
  \A c \in Calls : phase[c] \in { "idle", "over" } \/ \E w \in Live(c) : w.pc = "work"

ReapStaleJob ==
  /\ job = "running"
  /\ Untouched
  /\ \A n \in Nodes : st[n] # "running"
  /\ Outside("stale_reap")
  /\ job' = "failed"
  /\ UNCHANGED <<asked, delegated, output, nodeVars, callVars, opRetry>>

-----------------------------------------------------------------------------
Init ==
  /\ DagInit
  /\ asked = NoStep
  /\ delegated = {}
  /\ output = "none"
  /\ tries = [n \in Nodes |-> 0]
  /\ claims = [n \in Nodes |-> 0]
  /\ phase = [c \in Calls |-> "idle"]
  /\ why = [c \in Calls |-> "clean"]
  /\ retries = [c \in Calls |-> RetryCap]
  /\ inflight = [c \in Calls |-> {}]
  /\ results = [c \in Calls |-> <<>>]
  /\ target = [c \in Calls |-> NoStep]
  /\ down = [c \in Calls |-> {}]
  /\ held = [c \in Calls |-> {}]
  /\ opRetry = NoRetry
  /\ events = <<>>

\* What a call does on its own once it was made.
RunStep(c) ==
  \/ Validate(c) \/ ClaimFrontier(c) \/ Settle(c) \/ Recheck(c) \/ Park(c) \/ Sum(c) \/ FinalReturns(c)
  \/ Drain(c) \/ Keepalive(c) \/ DrainBudget(c) \/ QuotaStops(c)
  \/ AutoRetryReads(c) \/ AutoRetryResets(c)
  \/ Release(c) \/ Count(c) \/ Cleanup(c) \/ SoloReturns(c)

\* What is done to it.
RunUpset(c) ==
  \/ HandsOnGate(c) \/ RunFails(c) \/ LookFails(c) \/ Reread(c) \/ DrainQuota(c) \/ Disconnect(c)

CallNext == \E c \in Calls : Admit(c) \/ Solo(c) \/ RunStep(c) \/ BodyStep(c) \/ RunUpset(c)

StepNext ==
  \E n \in Nodes : OperatorRetryReads(n) \/ Skip(n) \/ Reset(n) \/ ReapOrphan(n) \/ ReapSlow(n)

JobNext == OperatorRetryResets \/ CancelJob \/ Resume \/ Decide \/ Reask \/ ReapStaleJob

Next == CallNext \/ StepNext \/ JobNext

(* A made call is scheduled (one event loop), every body ends within its    *)
(* node_timeout, a read retry is written, and the reaper runs every cycle.  *)
(* Nothing makes an operator act.                                           *)
Fairness ==
  /\ \A c \in Calls : WF_vars(RunStep(c)) /\ WF_vars(BodyStep(c))
  /\ WF_vars(OperatorRetryResets)
  /\ \A n \in Nodes : WF_vars(ReapOrphan(n))

Spec == Init /\ [][Next]_vars
FairSpec == Spec /\ Fairness

-----------------------------------------------------------------------------
(* Properties that hold.                                                     *)

StoredTypeOK ==
  /\ asked \in Nodes \cup {NoStep}
  /\ delegated \subseteq Nodes
  /\ output \in Outputs
  /\ tries \in [Nodes -> Nat]
  /\ claims \in [Nodes -> Nat]
  /\ opRetry \in RetryRead
  /\ events \in Seq(EventKinds)

CallTypeOK ==
  /\ phase \in [Calls -> Phases]
  /\ why \in [Calls -> Reasons]
  /\ retries \in [Calls -> 0..RetryCap]
  /\ inflight \in [Calls -> SUBSET Body]
  /\ results \in [Calls -> Seq(Result)]
  /\ target \in [Calls -> Nodes \cup {NoStep}]
  /\ down \in [Calls -> SUBSET Nodes]
  /\ held \in [Calls -> SUBSET (Nodes \cup {NoStep})]

\* The type invariant: every stored column and every call-local of the executor.
\* The retry budget of a run never goes below zero.
TypeOK == DagTypeOK /\ StoredTypeOK /\ CallTypeOK

\* What was read before an await and is used after it still holds then, but for
\* reopened steps: a step being framed, parked or taken has its dependencies, a step
\* being retried is a step of the plan and the run had a retry left, a plan counted as
\* finished is finished.
CallRemembers(c) ==
  /\ phase[c] \in {"frame", "ask"} => target[c] \in Nodes /\ DepsHeld(target[c])
  /\ phase[c] \in {"retry", "reset"} => target[c] \in Nodes /\ retries[c] > 0
  /\ why[c] = "finished" => AllHeld

BodyRemembers(w) ==
  /\ w.pc \in {"frame", "ask", "take"} => w.node \in Nodes /\ DepsHeld(w.node)
  /\ w.pc = "work" => w.node \in Nodes

ResultsNameSteps(c) ==
  \A i \in DOMAIN results[c] : results[c][i].status = "failed" => results[c][i].node \in Nodes

StoredRemembers ==
  /\ job = "awaiting_decision" => asked \in Nodes /\ DepsHeld(asked)
  /\ opRetry = NoRetry \/ opRetry.node \in Nodes

\* The inductive invariant.
ExecutionInv ==
  /\ TypeOK
  /\ DependencyOrder
  /\ CompletedIsWhole
  /\ StoredRemembers
  /\ \A c \in Calls : CallRemembers(c) /\ ResultsNameSteps(c)
  /\ \A c \in Calls : \A w \in inflight[c] : BodyRemembers(w)

\* Two bodies never work on the same step at once: the guarded claim
\* (UPDATE ... WHERE status = 'pending') hands a step to one of the run and the
\* calls of POST /execute beside it.  Outside this one are the age-based reaper, a
\* reset of a step that is being worked on and, when calls overlap, a skip, a retry
\* or an exception outside the body's handlers: what one call gives back on its way
\* out may then be claimed again by another.  Stale tests found beside another call
\* do the same.
SoleWorker ==
  \A c, d \in Calls : \A v \in inflight[c], w \in inflight[d] :
    (v.pc = "work" /\ w.pc = "work" /\ v.node = w.node) => c = d /\ v = w

OneWorker == Happened("stale_tests") \/ SoleWorker

\* The outcome a body writes is written by the step's current claim, never by a
\* body whose step was taken back and claimed again (_set_node_status,
\* expected_status = 'running').  Outside it is what is outside OneWorker.
WritesItsClaim ==
  \A c \in Calls : \A w \in inflight[c] :
    (w.pc = "work" /\ w \notin inflight'[c] /\ st'[w.node] # st[w.node]) => w.claim = claims[w.node]

FreshWriter == [][Happened("stale_tests") \/ WritesItsClaim]_vars

\* A step is retried at most max_retries times, plus once for every retry whose
\* count was read before another one's reset landed (retry_failed_node reads in
\* Stage 1 and writes in Stage 5).
RetryBound == \A n \in Nodes : tries[n] <= MaxRetries + Cardinality(Calls)

\* While the job is blocked no body is at work, but for those of the run that hit the
\* account's limit and is about to cancel them: the terminal call, the hands-on gate
\* and the release leave nothing going.
BlockedIsQuiet ==
  job = "blocked" =>
    \A c \in Calls : \A w \in inflight[c] : w.pc = "work" => phase[c] = "quota"

\* A job waiting for the operator asks about a step that can still be answered:
\* an undelegated decision, its dependencies settled (or put back since), nobody
\* working on it.
ParkedIsAnswerable ==
  job = "awaiting_decision" =>
    /\ asked \in Undelegated
    /\ st[asked] \in {"pending", "skipped"}
    /\ DepsHeld(asked)

\* A decision the operator did not delegate is started by the engine only after a
\* look-up failed ("a silent miss here means the model decides for the operator").
NeverUnasked ==
  [][\A n \in Undelegated :
       st'[n] = "running" => st[n] = "running" \/ Happened("look_error")]_vars

\* What a run's bodies were at work on when it left is given back before its cleanup,
\* unless the release was interrupted.
GivenBack(c) ==
  phase[c] \in {"count", "cleanup"} /\ why[c] # "cancelled" =>
    \A n \in held[c] : n \in Nodes => st[n] # "running"

\* When every call is over, no step is left 'running' ("a step left running with
\* no worker is invisible to every later run"): release and cleanup between them
\* take back what the run had claimed.  The operator's cancel and the account's limit
\* are exceptions: they are written while bodies are going, and one that starts just
\* then finds the job not executable and is neither a failure nor given back.
NothingLeftRunning ==
  /\ \A c \in Calls : GivenBack(c)
  /\ (~Happened("cancel") /\ ~Happened("quota") /\ \A c \in Calls : phase[c] = "over") =>
       \A n \in Nodes : st[n] # "running"

\* A job that was completed by runs that were not cut off has its deliverable, unless
\* its last step was settled by something that does not look whether the plan is finished
\* (a skip, a shortcut) or the body that had to compile it was lost.
CompletedIsCompiled ==
  ( /\ job = "completed"
    /\ SomeDone
    /\ \A c \in Calls : why[c] \in {"clean", "finished"} /\ phase[c] \in {"idle", "over"}
    /\ ~Happened("skip") /\ ~Happened("shortcut") /\ ~Happened("worker_error") )
  => output = "final"

\* Every call that was made ends, cleanup included.
RunEnds == \A c \in Calls : (phase[c] # "idle") ~> (phase[c] = "over")

\* No step stays 'running' for ever: its body, the cleanup or the reaper ends it.
StepEnds == \A n \in Nodes : (st[n] = "running") ~> (st[n] # "running")

\* A job does not stay 'running' for ever, which would refuse every later run.
JobEnds == (job = "running") ~> (job # "running")

-----------------------------------------------------------------------------
(* What comments of the code say of it and an interleaving refutes.          *)

\* When the frontier goes to its terminal path, no failed result it could still
\* retry is waiting to be looked at.
FailureConsidered ==
  \A c \in Calls : phase[c] = "settle" /\ retries[c] > 0 =>
    \A i \in DOMAIN results[c] : results[c][i].status = "failed" => ~MayRetry(results[c][i].node)

\* A call of POST /execute does not block the job under a live run.
LiveRunNotBlocked ==
  [][\A d \in Calls : job = "running" /\ InLoop(d) /\ phase[d] # "final" /\ phase'[d] = phase[d]
       => job' # "blocked"]_vars
=============================================================================
