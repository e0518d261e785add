------------------------------- MODULE Assist -------------------------------
(***************************************************************************)
(* Assist mode (app/modules/assist_agent.py, assist_handoff.py): one job   *)
(* whose plan the operator walks through by hand.  A session hands out one *)
(* step at a time; every step mirrors a node of the plan; a step, or all   *)
(* that are left, can be handed to the executor, which works on the nodes  *)
(* beside the walk.  The executor appears only as far as it moves the job  *)
(* and its nodes; Execution.tla is the whole of it.                        *)
(*                                                                         *)
(* A request reads in one statement and writes in a later one: everybody   *)
(* else moves in between.  What the operator is shown, and what a model    *)
(* judges (evidence, divergence, replanning), is left out.                 *)
(* A definition named X_Slip (Submittable_Unclaimed) is X with one plausible slip: it *)
(* shows what the properties catch, and nothing uses it.                   *)
(***************************************************************************)
EXTENDS DagJob, FiniteSets

CONSTANTS Requests,    \* requests the operator may have open at one time
          StartFrom,   \* statuses the job can have before it is first walked
          MaxEvents    \* bound: requests beyond /next and /submit, and mishaps

NoNode == 0

ASSUME AssistAssumption == StartFrom \subseteq JobStatuses /\ MaxEvents \in Nat

VARIABLES
  session,   \* assist_sessions.status; "none" before the first start
  cursor,    \* assist_sessions.current_node_key
  step,      \* assist_steps.status of each node's step
  req,       \* an open request between its read and its write
  hand,      \* the stream of a hand-off: where it is, and its node
  run,       \* whether a run of execute_all_nodes is going
  drawn,     \* the nodes that run is working on
  events     \* events left

planVars == <<job, st>>
walkVars == <<session, cursor, step>>
execVars == <<hand, run, drawn>>
vars     == <<planVars, walkVars, req, execVars, events>>

Idle == [op |-> "idle", node |-> NoNode]
Off  == [at |-> "off", node |-> NoNode]

Walked      == { "assisted_executing", "assisted_running", "assisted_paused" }
Startable   == { "planning", "executing", "blocked", "failed", "awaiting_assist",
                "awaiting_decision" } \cup Walked
Restartable == { "completed", "cancelled" }
Open        == { "pending", "presented" }
Finished    == { "committed", "skipped", "handed_off" }

Fsm == INSTANCE StepFsm

SessionLive == session \in {"active", "paused"}
InFlight == { n \in Nodes : step[n] = "presented" }
Earliest(S) == CHOOSE n \in S : \A m \in S : n <= m

Event == events > 0 /\ events' = events - 1
Opens(r, op, n) == req[r] = Idle /\ req' = [req EXCEPT ![r] = [op |-> op, node |-> n]]
Closes(r) == req' = [req EXCEPT ![r] = Idle]
Serves(r, op) == req[r].op = op

-----------------------------------------------------------------------------
(* start_assist_session: one transaction.                                   *)

\* The job and session columns of _maybe_finalize_session, given the steps.
Finalizable(steps) == \A n \in Nodes : steps[n] \notin Open
WalkOver == IF AllDone /\ job \in Walked THEN "completed" ELSE job

Seeded(nodes) ==
  [n \in Nodes |-> IF step[n] = "absent" /\ nodes[n] \notin SettledStatuses THEN "pending" ELSE step[n]]

\* A finished job is walked again from the start; a node the executor still
\* runs is left to it.
Reopen(r) ==
  /\ job \in Restartable /\ req[r] = Idle /\ Event
  /\ job' = "assisted_executing"
  /\ st' = [n \in Nodes |-> IF st[n] = "running" THEN "running" ELSE "pending"]
  /\ step' = [n \in Nodes |-> "pending"]
  /\ session' = "active"
  /\ UNCHANGED <<cursor, req, execVars>>

\* Steps that were finished but whose node is to do again.
Revivable(steps) == { n \in Nodes : steps[n] \in Finished /\ st[n] = "pending" }

\* The first start, a reconnection, a resumption: steps are seeded, finished
\* ones whose node is pending are reopened, and a walk with nothing left ends.
Start(r) ==
  /\ job \in Startable /\ req[r] = Idle /\ Event
  /\ LET moved   == IF job \in Startable \ {"awaiting_decision", "assisted_executing", "assisted_running"}
                      THEN "assisted_executing" ELSE job
         reached == IF session = "none" \/ (session = "paused" /\ job = "assisted_paused")
                      THEN "active" ELSE session
         seeded  == Seeded(st)
         revived == Revivable(seeded)
         live    == IF revived # {} THEN "active" ELSE reached
         steps   == [n \in Nodes |->
                       IF n \in revived \/ (revived # {} /\ seeded[n] = "presented")
                         THEN "pending" ELSE seeded[n]]
         over    == /\ live \in {"active", "paused"}
                    /\ \E n \in Nodes : steps[n] # "absent"
                    /\ Finalizable(steps)
     IN  /\ step' = steps
         /\ session' = IF over THEN "completed" ELSE live
         /\ cursor' = IF revived # {} THEN Earliest(revived) ELSE cursor
         /\ job' = IF over /\ AllDone /\ moved \in Walked THEN "completed" ELSE moved
  /\ UNCHANGED <<st, req, execVars>>

-----------------------------------------------------------------------------
(* get_next_step.                                                           *)

\* A step in flight is shown again, and the cursor healed.
Represent(r) ==
  /\ req[r] = Idle /\ session = "active"
  /\ InFlight # {}
  /\ cursor' = Earliest(InFlight)
  /\ UNCHANGED <<planVars, session, step, req, execVars, events>>

\* None is in flight: a claim follows.
NextLooks(r) ==
  /\ session = "active"
  /\ InFlight = {}
  /\ Opens(r, "next", NoNode)
  /\ UNCHANGED <<planVars, walkVars, execVars, events>>

Waiting == { n \in Nodes : step[n] = "pending" /\ DepsMet(n) }

NextClaims(r) ==
  /\ Serves(r, "next")
  /\ IF Waiting = {}
       THEN UNCHANGED <<job, cursor, step>>
       ELSE /\ step' = [step EXCEPT ![Earliest(Waiting)] = "presented"]
            /\ cursor' = Earliest(Waiting)
            /\ job' = IF job = "assisted_executing" THEN "assisted_running" ELSE job
  /\ Closes(r)
  /\ UNCHANGED <<st, session, execVars, events>>

-----------------------------------------------------------------------------
(* submit_step: the step and its node in one transaction; the cursor, or    *)
(* the end of the walk, in a second one after the replanning check.         *)

\* Any open step can be submitted, claimed or not.
Submittable_Unclaimed(n) ==
  /\ SessionLive
  /\ step[n] \in Open

\* "The pointer is the claim": a pending step that is the cursor is presented
\* on the way.
Submittable(n) ==
  /\ SessionLive
  /\ step[n] = "presented" \/ (step[n] = "pending" /\ cursor = n)

\* A node already settled by somebody else keeps what it has.
Submit(r, n, s) ==
  /\ Submittable(n)
  /\ Opens(r, "tail", n)
  /\ step' = [step EXCEPT ![n] = s]
  /\ st' = [st EXCEPT ![n] = IF @ \in SettledStatuses THEN @
                             ELSE IF s = "committed" THEN "done" ELSE "skipped"]
  /\ UNCHANGED <<job, session, cursor, execVars, events>>

\* The walk is over whatever the plan says.
Finalize_StepsOnly ==
  /\ session' = "completed"
  /\ job' = IF job \in Walked THEN "completed" ELSE job

\* _maybe_finalize_session: the session ends with its steps, the job only with
\* its plan.
Finalize ==
  /\ session' = "completed"
  /\ job' = WalkOver

Advance(r) ==
  /\ Serves(r, "tail")
  /\ LET left == { n \in Nodes : step[n] \in Open }
     IN  IF left = {} /\ SessionLive
           THEN Finalize /\ UNCHANGED cursor
           ELSE /\ cursor' = IF left # {} /\ SessionLive THEN Earliest(left) ELSE cursor
                /\ UNCHANGED <<job, session>>
  /\ Closes(r)
  /\ UNCHANGED <<st, step, execVars, events>>

-----------------------------------------------------------------------------
(* Moving about: goto_step, step_back, reopen_denied_step.                  *)

\* The step that was left stays presented.
Shows_KeepsOthers(n, s) ==
  /\ step' = [step EXCEPT ![n] = s]
  /\ cursor' = IF SessionLive THEN n ELSE cursor

\* _unclaim_other_presented, then the target.
Shows(n, s) ==
  /\ step' = [m \in Nodes |-> IF m = n THEN s
                              ELSE IF step[m] = "presented" THEN "pending" ELSE step[m]]
  /\ cursor' = IF SessionLive THEN n ELSE cursor

GotoReads(r, n) ==
  /\ SessionLive
  /\ st[n] # "running"
  /\ step[n] \in Open
  /\ Opens(r, "goto", n) /\ Event
  /\ UNCHANGED <<planVars, walkVars, execVars>>

GotoWrites(r) ==
  /\ Serves(r, "goto")
  /\ Shows(req[r].node, "presented")
  /\ Closes(r)
  /\ UNCHANGED <<planVars, session, execVars, events>>

\* Back to any finished step, unless the executor is running it.
BackReads(r, n) ==
  /\ SessionLive
  /\ step[n] \in Finished
  /\ ~(step[n] = "handed_off" /\ st[n] = "running")
  /\ Opens(r, "back", n) /\ Event
  /\ UNCHANGED <<planVars, walkVars, execVars>>

\* The operator says a committed step was not done.  (The code looks at the
\* last one committed, within minutes; any is allowed here.)
DenyReads(r, n) ==
  /\ SessionLive
  /\ step[n] = "committed"
  /\ Opens(r, "deny", n) /\ Event
  /\ UNCHANGED <<planVars, walkVars, execVars>>

\* _reopen_step_mirrored: the node too, unless the executor has it by now.
Reopens(r) ==
  /\ req[r].op \in {"back", "deny"}
  /\ LET n == req[r].node
     IN  /\ st' = [st EXCEPT ![n] = IF @ = "running" THEN @ ELSE "pending"]
         /\ Shows(n, IF Serves(r, "back") THEN "presented" ELSE "pending")
  /\ Closes(r)
  /\ UNCHANGED <<job, session, execVars, events>>

-----------------------------------------------------------------------------
(* pause_session, resume_session; abandon_session, which the idle reaper    *)
(* also does; cancel_active_job.                                            *)

Pause ==
  /\ session = "active" /\ Event
  /\ session' = "paused"
  /\ job' = IF job \in {"assisted_executing", "assisted_running"} THEN "assisted_paused" ELSE job
  /\ UNCHANGED <<st, cursor, step, req, execVars>>

Resume ==
  /\ session = "paused" /\ Event
  /\ session' = "active"
  /\ job' = IF job = "assisted_paused" THEN "assisted_executing" ELSE job
  /\ UNCHANGED <<st, cursor, step, req, execVars>>

Abandon ==
  /\ SessionLive /\ Event
  /\ session' = "abandoned"
  /\ job' = IF job \in Walked THEN "cancelled" ELSE job
  /\ UNCHANGED <<st, cursor, step, req, execVars>>

CancelJob ==
  /\ MayMoveByDefault(job) /\ Event
  /\ job' = "cancelled"
  /\ UNCHANGED <<st, walkVars, req, execVars>>

-----------------------------------------------------------------------------
(* handoff_step and start_all_remaining.                                    *)

Marked(S) == [n \in Nodes |-> IF n \in S /\ step[n] \in Open THEN "handed_off" ELSE step[n]]

Goes(at) == hand' = [hand EXCEPT !.at = at]

\* 'single' names one step; 'all_remaining' takes every one, as a stream that
\* follows the run or, from the walkthrough's own button, detached.
HandOver(r, n) ==
  /\ session = "active" /\ hand = Off /\ req[r] = Idle /\ Event
  /\ \/ step' = Marked({n}) /\ hand' = [at |-> "one", node |-> n]
     \/ step' = Marked(Nodes) /\ hand' \in { [at |-> a, node |-> NoNode] : a \in {"rest", "detached"} }
  /\ UNCHANGED <<planVars, session, cursor, req, run, drawn>>

\* The job is taken out of the walk, unless it has ended.
Switch ==
  /\ hand.at \in {"one", "rest", "detached"}
  /\ job' = IF MayMoveByDefault(job) THEN "executing" ELSE job
  /\ Goes(CASE hand.at = "one" -> "claim" [] hand.at = "rest" -> "launch" [] OTHER -> "begin")
  /\ UNCHANGED <<st, walkVars, req, run, drawn, events>>

\* execute_all_nodes is admitted or refused; the broker, through which the
\* detached one goes, attaches to a run that is going.  Runs that overlap count
\* as one here.
Launch ==
  /\ hand.at \in {"launch", "begin"}
  /\ IF job \in {"running", "completed"} \/ (hand.at = "begin" /\ run)
       THEN UNCHANGED <<job, run>>
       ELSE job' = "running" /\ run' = TRUE
  /\ hand' = IF hand.at = "begin" THEN Off ELSE [hand EXCEPT !.at = "follow"]
  /\ UNCHANGED <<st, walkVars, req, drawn, events>>

\* One node: claimed, then run by execute_next_node.
ClaimOne ==
  /\ hand.at = "claim"
  /\ IF st[hand.node] = "pending"
       THEN st' = [st EXCEPT ![hand.node] = "running"] /\ Goes("enter")
       ELSE Goes("restore") /\ UNCHANGED st
  /\ UNCHANGED <<job, walkVars, req, run, drawn, events>>

\* A job that is not executable is refused and the node stays claimed; one
\* still at an assist status whose session is over is taken back first.
Enter ==
  /\ hand.at = "enter"
  /\ LET taken == IF job \in Walked /\ session = "completed" THEN "executing" ELSE job
     IN  /\ job' = taken
         /\ Goes(IF taken \in ExecutableStatuses THEN "work" ELSE "restore")
  /\ UNCHANGED <<st, walkVars, req, run, drawn, events>>

\* Verified, failed, or handed back for approval; a result for a node that is no
\* longer 'running' is thrown away.
Work ==
  /\ hand.at = "work"
  /\ IF st[hand.node] = "running"
       THEN /\ \E s \in {"done", "failed", "pending"} : st' = [st EXCEPT ![hand.node] = s]
            /\ Goes("tail")
       ELSE Goes("restore") /\ UNCHANGED st
  /\ UNCHANGED <<job, walkVars, req, run, drawn, events>>

\* The client is gone.  From the claim on the body is cancelled and the rest of
\* the stream is shielded; before it, up to the first frame, nothing guards the
\* restore, and the job stays out of the walk.
Cut ==
  /\ Event
  /\ \/ /\ hand.at \in {"claim", "enter", "work", "tail", "follow"}
        /\ Goes(IF hand.at = "follow" THEN "settle" ELSE "restore")
     \/ /\ hand.at \in {"one", "rest", "claim", "launch"}
        /\ hand' = Off
  /\ UNCHANGED <<planVars, walkVars, req, run, drawn>>

\* Whoever finds the plan settled completes a job that has not ended.
Completed == IF AllDone /\ MayMoveByDefault(job) THEN "completed" ELSE job

Tail1 ==
  /\ hand.at = "tail"
  /\ job' = Completed
  /\ Goes("restore")
  /\ UNCHANGED <<st, walkVars, req, run, drawn, events>>

\* The job goes back to the walk if the session is still active.
Restore ==
  /\ hand.at = "restore"
  /\ job' = IF session = "active" /\ MayMoveByDefault(job) THEN "assisted_executing" ELSE job
  /\ Goes("settle")
  /\ UNCHANGED <<st, walkVars, req, run, drawn, events>>

\* A completed job ends the session; a followed run is over first.
Settle ==
  /\ hand.at = "settle" \/ (hand.at = "follow" /\ ~run)
  /\ session' = IF job = "completed" /\ SessionLive THEN "completed" ELSE session
  /\ hand' = Off
  /\ UNCHANGED <<planVars, cursor, step, req, run, drawn, events>>

-----------------------------------------------------------------------------
(* The executor beside the walk.                                            *)

\* The Run button, or the broker, on whatever status admits it.
RunAll ==
  /\ ~run /\ job \notin {"running", "completed"} /\ Event
  /\ job' = "running"
  /\ run' = TRUE
  /\ UNCHANGED <<st, walkVars, req, hand, drawn>>

RunClaims(n) ==
  /\ run
  /\ n \in Ready
  /\ st' = [st EXCEPT ![n] = "running"]
  /\ drawn' = drawn \cup {n}
  /\ UNCHANGED <<job, walkVars, req, hand, run, events>>

RunEndsStep(n) ==
  /\ n \in drawn
  /\ \E s \in {"done", "failed", "pending"} :
       st' = [st EXCEPT ![n] = IF @ = "running" THEN s ELSE @]
  /\ drawn' = drawn \ {n}
  /\ UNCHANGED <<job, walkVars, req, hand, run, events>>

\* A run ends with a verdict on the job it still owns, and gives back the nodes
\* of the bodies it cut off.
RunEnds ==
  /\ run
  /\ st' = [n \in Nodes |-> IF n \in drawn /\ st[n] = "running" THEN "pending" ELSE st[n]]
  /\ IF job = "running"
       THEN job' \in { s \in { "completed", "blocked", "failed", "cancelled",
                               "awaiting_assist", "awaiting_decision" } :
                       s = "completed" => AllDone }
       ELSE UNCHANGED job
  /\ run' = FALSE
  /\ drawn' = {}
  /\ UNCHANGED <<walkVars, req, hand, events>>

\* reap_stale_jobs: a node nobody runs any more goes back to pending.
Reap(n) ==
  /\ st[n] = "running"
  /\ n \notin drawn /\ ~(hand.at \in {"enter", "work"} /\ hand.node = n)
  /\ st' = [st EXCEPT ![n] = "pending"]
  /\ UNCHANGED <<job, walkVars, req, execVars, events>>

-----------------------------------------------------------------------------
Init ==
  /\ job \in StartFrom
  /\ st = [n \in Nodes |-> "pending"]
  /\ session = "none"
  /\ cursor = NoNode
  /\ step = [n \in Nodes |-> "absent"]
  /\ req = [r \in Requests |-> Idle]
  /\ hand = Off
  /\ run = FALSE
  /\ drawn = {}
  /\ events = MaxEvents

Request(r) ==
  \/ Reopen(r) \/ Start(r)
  \/ Represent(r) \/ NextLooks(r) \/ NextClaims(r) \/ Advance(r)
  \/ GotoWrites(r) \/ Reopens(r)
  \/ \E n \in Nodes :
       \/ Submit(r, n, "committed") \/ Submit(r, n, "skipped")
       \/ GotoReads(r, n) \/ BackReads(r, n) \/ DenyReads(r, n) \/ HandOver(r, n)

Stream == Switch \/ Launch \/ ClaimOne \/ Enter \/ Work \/ Cut \/ Tail1 \/ Restore \/ Settle

Executor == RunAll \/ RunEnds \/ \E n \in Nodes : RunClaims(n) \/ RunEndsStep(n) \/ Reap(n)

Next ==
  \/ \E r \in Requests : Request(r)
  \/ Pause \/ Resume \/ Abandon \/ CancelJob
  \/ Stream \/ Executor

Spec == Init /\ [][Next]_vars

-----------------------------------------------------------------------------
(* Properties.                                                              *)

AssistTypeOK ==
  /\ job \in JobStatuses
  /\ st \in [Nodes -> NodeStatuses]
  /\ session \in { "none", "active", "paused", "completed", "abandoned" }
  /\ cursor \in Nodes \cup {NoNode}
  /\ step \in [Nodes -> Fsm!StepStatuses]
  /\ req \in [Requests -> [op : { "idle", "next", "tail", "goto", "back", "deny" }, node : Nodes \cup {NoNode}]]
  /\ hand \in [at : { "off", "one", "rest", "detached", "claim", "launch", "begin", "follow", "enter",
                      "work", "tail", "restore", "settle" }, node : Nodes \cup {NoNode}]
  /\ run \in BOOLEAN
  /\ drawn \subseteq Nodes
  /\ events \in 0..MaxEvents

\* "ONE step in flight at a time", and it is the one the cursor points at.
\* (Holds for an operator who has one request open at a time.)
OneInFlight ==
  /\ \A m, n \in InFlight : m = n
  /\ SessionLive => InFlight \subseteq {cursor}

\* Work recorded on a step is recorded on its node.
SettledMirrored ==
  \A n \in Nodes : step[n] \in {"committed", "skipped"} => Settled(n)

\* And as what it was: a committed step is no skipped node, and a skipped node
\* no open step.  (Holds for an operator who has one request open at a time.)
OutcomesAgree ==
  \A n \in Nodes : /\ step[n] = "committed" => st[n] = "done"
                   /\ st[n] = "skipped" => step[n] = "skipped"

\* Everything left to do has a step of the session.
EverythingSeeded ==
  session # "none" => \A n \in Nodes : Settled(n) \/ step[n] # "absent"

\* An operator who asks for the next step of an unfinished walk gets one, or
\* something that was handed off stands in the way.
NeverAtALoss ==
  session # "none" /\ InFlight = {} /\ (\E n \in Nodes : step[n] = "pending" /\ ~Settled(n))
    => Waiting # {} \/ \E n \in Nodes : step[n] = "handed_off" /\ ~Settled(n)

AssistInv ==
  AssistTypeOK /\ OneInFlight /\ SettledMirrored /\ OutcomesAgree /\ EverythingSeeded /\ NeverAtALoss

\* The declared machine, and both tables moving together.
ImplementsFsm == Fsm!StepFsmSpec

\* Nobody, the walk, a hand-off or a run, completes a job whose plan is not
\* settled: "the SESSION being finished is not the JOB being finished".
CompletesWhole == [][job' = "completed" /\ job # "completed" => AllDone']_vars

Quiet == hand = Off /\ ~run /\ \A r \in Requests : req[r] = Idle

\* VIOLATED: a walk that is over, over a settled plan, has completed its job.
WalkCompletesJob == Quiet /\ session = "completed" /\ AllDone => job = "completed"

\* VIOLATED: the operator is not shown a step whose node the executor has.
OperatorOwnsPresented == \A n \in InFlight : SessionLive => st[n] = "pending"
=============================================================================
