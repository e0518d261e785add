---------------------------- MODULE Supervised ----------------------------
(***************************************************************************)
(* Hands-on steps: a step that changes a machine is not run by the model.  *)
(* The run claims it, hands it back, drafts a block of commands and parks  *)
(* the job on it (awaiting_decision); the operator's approval runs the     *)
(* block inside the request, minutes long, and then records what it did    *)
(* (supervised_runs.py, decision_pause.py, operator_steps.py).             *)
(*                                                                         *)
(* The request commits the claim, lets go of the job's row while the block *)
(* runs, and writes the job again at the end from what it read before.  In *)
(* between the frame is still on screen: the operator can answer it again, *)
(* ask it anew, cancel the job or retry a step, and a new run can work on  *)
(* the same plan.  The executor is taken here as the few moves it makes on *)
(* the plan; Execution.tla has the whole of it.                            *)
(***************************************************************************)
EXTENDS DagJob, FiniteSets

CONSTANTS Hands,      \* the steps that change a machine (step_is_hands_on)
          Requests,   \* the approvals that can be in progress at once
          Events      \* what the environment may do besides answering

EventKinds ==
  { "reask", "cancel", "reset", "interrupt", "disconnect", "crash", "kept_start", "look_error" }

ASSUME SupervisedAssumption ==
  /\ Hands \subseteq Nodes
  /\ Events \subseteq EventKinds

NoStep == 0

VARIABLES
  asked,    \* metadata.awaiting_decision: the step the parked frame asks about
  kind,     \* what the frame asks: approve a block, or report the operator's part
  fresh,    \* steps whose entry in metadata.decisions is younger than their last write
  half,     \* steps whose entry says the engine did its half (ENGINE_HALF_DONE)
  started,  \* dag_nodes.started_at: none, recent, or past the orphan threshold
  run,      \* the run of the broker: off, or where its frontier loop is
  target,   \* the step it drafts a block for
  works,    \* the steps its bodies hold
  held,     \* the steps they handed back in this run
  block,    \* per request: the step its block works on, the decisions it read, and
            \* (history) that the step was reset under it, or under one beside it
  due       \* a restart of the run was asked for and not carried out yet

frameVars == <<asked, kind>>
entryVars == <<fresh, half>>
runVars   == <<run, target, works, held>>
supVars   == <<job, st, frameVars, entryVars, started, runVars, block, due>>

Kinds == { "run", "yours" }
RunPcs == { "off", "loop", "settle", "draft", "ask", "final" }
Ages == { "none", "recent", "old" }
Idle == [node |-> NoStep, fresh |-> {}, half |-> {}, torn |-> FALSE]

On(kindOf) == kindOf \in Events

\* What a run remembers ends with it; a frame is one entry of the job's metadata, and
\* what is left of it on a job that no longer waits is not read again.
RunEnds == run' = "off" /\ target' = NoStep /\ held' = {}
FrameGone == asked' = NoStep /\ kind' = "run"

Working(n) == \E r \in Requests : block[r].node = n
InRun == { "loop", "settle", "draft", "ask" }

\* The decisions that the requests hold, once the steps of S have been written.
Stripped(S) == [r \in Requests |-> [block[r] EXCEPT !.fresh = @ \ S]]

\* updated_at is not kept: an answer never goes stale.
Written_Never(S) == UNCHANGED <<fresh, block>>

\* A write to a step moves its updated_at (a trigger does it for every UPDATE),
\* which makes its entry stale, in the row and in every copy a request holds.
Written(S) ==
  /\ fresh' = fresh \ S
  /\ block' = Stripped(S)

-----------------------------------------------------------------------------
(* The run.                                                                  *)

\* run_broker.start, then the admission of execute_all_nodes: a live run is
\* attached to, a running or completed job refuses another.
Starts ==
  /\ run = "off"
  /\ job \notin {"running", "completed"}
  /\ job' = "running"
  /\ run' = "loop"
  /\ FrameGone

\* The restart that an answer asked for.
Restart ==
  /\ due
  /\ due' = FALSE
  /\ \/ Starts
     \/ (run # "off" \/ job \in {"running", "completed"}) /\ UNCHANGED <<job, run, frameVars>>
  /\ UNCHANGED <<st, entryVars, started, target, works, held, block>>

\* The operator presses Run.
Press ==
  /\ Starts
  /\ UNCHANGED <<st, entryVars, started, target, works, held, block, due>>

\* The refill: a ready step that was not handed back in this run.
Claim(n) ==
  /\ run = "loop"
  /\ n \in Ready \ held
  /\ st' = [st EXCEPT ![n] = "running"]
  /\ started' = [started EXCEPT ![n] = "recent"]
  /\ works' = works \cup {n}
  /\ Written({n})
  /\ UNCHANGED <<job, frameVars, half, run, target, held, due>>

\* _hand_back_for_operator and _hand_back_for_approval: a recorded answer stands
\* in for an approval only while it is younger than the step's last write.
HandsBack(n) == n \in half \/ (n \in Hands /\ n \notin fresh)

HandBack(n) ==
  /\ n \in works
  /\ HandsBack(n)
  /\ IF st[n] = "running"
       THEN /\ st' = [st EXCEPT ![n] = "pending"]
            /\ started' = [started EXCEPT ![n] = "none"]
            /\ Written({n})
       ELSE UNCHANGED <<st, started, fresh, block>>
  /\ works' = works \ {n}
  /\ held' = held \cup {n}
  /\ UNCHANGED <<job, frameVars, half, run, target, due>>

\* The body of any other step, or of one that the run takes for approved: its
\* outcome is written while the step is still running.
Work(n) ==
  /\ n \in works
  /\ ~HandsBack(n)
  /\ IF st[n] = "running"
       THEN (\E s \in {"done", "failed"} : st' = [st EXCEPT ![n] = s]) /\ Written({n})
       ELSE UNCHANGED <<st, fresh, block>>
  /\ works' = works \ {n}
  /\ UNCHANGED <<job, frameVars, half, started, run, target, held, due>>

\* Nothing in flight and nothing claimable.
Drained ==
  /\ run = "loop"
  /\ works = {}
  /\ Ready \ held = {}
  /\ run' = "settle"
  /\ UNCHANGED <<job, st, frameVars, entryVars, started, target, works, held, block, due>>

\* Nobody asks for the operator's part of a step the engine did its half of.
Askable_NotHalf == { n \in Ready \cap Hands : n \notin fresh /\ n \notin half }

\* pending_hands_on and pending_operator_step: the ready steps that are asked
\* about; one with a fresh entry is not.
Askable == { n \in Ready : n \in half \/ (n \in Hands /\ n \notin fresh) }

\* _pause_for_decision begins to draft the first of them.
Look ==
  /\ run = "settle"
  /\ \/ Askable = {} /\ run' = "final" /\ UNCHANGED target
     \/ /\ run' = "draft"
        /\ target' \in { n \in Askable : \A m \in Askable : n <= m }
  /\ UNCHANGED <<job, st, frameVars, entryVars, started, works, held, block, due>>

\* The look-up raises; the error is logged and the run goes to its terminal path.
LookFails ==
  /\ On("look_error")
  /\ run = "settle"
  /\ run' = "final"
  /\ UNCHANGED <<job, st, frameVars, entryVars, started, target, works, held, block, due>>

\* It looks again, or has looked its six times and gives up.
LooksAgain == run' \in {"settle", "final"} /\ target' = NoStep

\* A hands-on step's own checks, read off the machine, say it is done already, or what
\* it was to mend is not broken: it is recorded done or skipped, with an entry of the
\* engine's, if it is still pending.
AlreadyMet ==
  /\ run = "draft"
  /\ target \in Hands \ half
  /\ st[target] = "pending"
  /\ \/ /\ st' = [st EXCEPT ![target] = "done"]
        /\ started' = [started EXCEPT ![target] = IF @ = "none" THEN "recent" ELSE @]
     \/ st' = [st EXCEPT ![target] = "skipped"] /\ UNCHANGED started
  /\ fresh' = fresh \cup {target}
  /\ block' = Stripped({target})
  /\ run' = "settle"
  /\ target' = NoStep
  /\ UNCHANGED <<job, frameVars, half, works, held, due>>

\* A check step is drafted into nothing to run: it fails, if it is still pending.
EmptyVerify ==
  /\ run = "draft"
  /\ target \in Hands \ half
  /\ IF st[target] = "pending"
       THEN /\ st' = [st EXCEPT ![target] = "failed"]
            /\ started' = [started EXCEPT ![target] = IF @ = "none" THEN "recent" ELSE @]
            /\ Written({target})
       ELSE UNCHANGED <<st, started, fresh, block>>
  /\ LooksAgain
  /\ UNCHANGED <<job, frameVars, half, works, held, due>>

\* The draft took minutes: the dependencies are read again.  It looks again also when
\* it corrected the plan by what it measured (a step reopened is a Reset).
Recheck ==
  /\ run = "draft"
  /\ \/ DepsMet(target) /\ run' = "ask" /\ UNCHANGED target
     \/ ~DepsMet(target) /\ LooksAgain
     \/ target \in Hands \ half /\ run' = "settle" /\ target' = NoStep
  /\ UNCHANGED <<job, st, frameVars, entryVars, started, works, held, block, due>>

\* In a session of its own the job is parked if it is still the run's, and the run
\* is over.
Park ==
  /\ run = "ask"
  /\ IF MayMoveFrom(job, {"running", "executing"})
       THEN /\ job' = "awaiting_decision"
            /\ asked' = target
            /\ kind' = IF target \in half THEN "yours" ELSE "run"
            /\ RunEnds
       ELSE run' = "final" /\ target' = NoStep /\ UNCHANGED <<job, frameVars, held>>
  /\ UNCHANGED <<st, entryVars, started, works, block, due>>

\* What a run's cleanup does to a job that is still 'running': every running
\* step fails, a block's as well.
FailRunning == [n \in Nodes |-> IF st[n] = "running" THEN "failed" ELSE st[n]]
RunningSteps == { n \in Nodes : st[n] = "running" }

\* The terminal path: completed, blocked when no step runs, or failed by the
\* cleanup when one does.
Final ==
  /\ run = "final"
  /\ RunEnds
  /\ \/ /\ AllDone
        /\ job' = IF job = "running" THEN "completed" ELSE job
        /\ UNCHANGED <<st, fresh, block>>
     \/ /\ ~AllDone
        /\ RunningSteps = {} \/ job # "running"
        /\ job' = IF RunningSteps = {} /\ job \in {"running", "executing"} THEN "blocked" ELSE job
        /\ UNCHANGED <<st, fresh, block>>
     \/ /\ RunningSteps # {} /\ job = "running"
        /\ job' = "failed"
        /\ st' = FailRunning
        /\ Written(RunningSteps)
  /\ UNCHANGED <<frameVars, half, started, works, due>>

\* The run is cut (its stream dropped, a database error): its claims are
\* released and the cleanup writes the job.
Cut ==
  /\ On("disconnect")
  /\ run \in InRun
  /\ RunEnds
  /\ works' = {}
  /\ job' \in IF job = "running" THEN {"cancelled", "failed"} ELSE {job}
  /\ st' = [n \in Nodes |-> IF st[n] # "running" THEN st[n]
                            ELSE IF n \in works THEN "pending"
                            ELSE IF job = "running" THEN "failed" ELSE "running"]
  /\ Written(IF job = "running" THEN RunningSteps ELSE works \cap RunningSteps)
  /\ UNCHANGED <<frameVars, half, started, due>>

\* The job is no longer the run's: its bodies end, and a step whose body found
\* that out is left 'running' (the reaper's), the others are released.
Stop ==
  /\ run \in InRun
  /\ job \notin {"running", "executing"}
  /\ RunEnds
  /\ works' = {}
  /\ \E S \in SUBSET (works \cap RunningSteps) :
       /\ st' = [n \in Nodes |-> IF n \in S THEN "pending" ELSE st[n]]
       /\ Written(S)
  /\ UNCHANGED <<job, frameVars, half, started, due>>

-----------------------------------------------------------------------------
(* The operator's answer to the frame.                                       *)

Idling(r) == block[r].node = NoStep

\* An earlier block still works on the step, from before it was reset.
Torn(n) == \E r \in Requests : block[r].node = n /\ block[r].torn

\* The claim takes a step whatever its status.
Approve_NoGuard(r) ==
  /\ job = "awaiting_decision"
  /\ kind = "run"
  /\ Idling(r)
  /\ asked \in Nodes
  /\ DepsMet(asked)
  /\ st' = [st EXCEPT ![asked] = "running"]
  /\ started' = [started EXCEPT ![asked] = IF @ = "none" THEN "recent" ELSE @]
  /\ fresh' = fresh \ {asked}
  /\ block' = [Stripped({asked}) EXCEPT ![r] =
                 [node |-> asked, fresh |-> fresh \ {asked}, half |-> half, torn |-> Torn(asked)]]
  /\ UNCHANGED <<job, frameVars, half, runVars, due>>

\* "run": under the job's row lock the dependencies are read again and the step
\* is claimed, started_at kept if it has one; the commit releases the lock while
\* the frame stays and the block starts.
Approve(r) ==
  /\ job = "awaiting_decision"
  /\ kind = "run"
  /\ Idling(r)
  /\ asked \in Nodes
  /\ DepsMet(asked)
  /\ st[asked] = "pending"
  /\ st' = [st EXCEPT ![asked] = "running"]
  /\ started' = [started EXCEPT ![asked] = IF @ = "none" THEN "recent" ELSE @]
  /\ fresh' = fresh \ {asked}
  /\ block' = [Stripped({asked}) EXCEPT ![r] =
                 [node |-> asked, fresh |-> fresh \ {asked}, half |-> half, torn |-> Torn(asked)]]
  /\ UNCHANGED <<job, frameVars, half, runVars, due>>

\* How a block ends: its checks confirm it, or not, or the rest is the operator's.
Ends == { "done", "failed", "half" }

\* One transaction writes what the block did, if the step is still the request's,
\* puts back the decisions the request read with its own entry (older than the
\* claim, hence spent), clears whatever frame is parked and restarts the run.
Finish(r) ==
  \E e \in Ends :
    LET n == block[r].node
        moved == st[n] = "running" \/ (e = "half" /\ st[n] = "failed")
    IN  /\ n \in Nodes
        /\ st' = IF moved THEN [st EXCEPT ![n] = IF e = "half" THEN "pending" ELSE e] ELSE st
        /\ fresh' = block[r].fresh \ {n}
        /\ half' = IF e = "half" /\ moved THEN block[r].half \cup {n} ELSE block[r].half \ {n}
        /\ block' = [Stripped(IF moved THEN {n} ELSE {}) EXCEPT ![r] = Idle]
        /\ FrameGone
        /\ job' = IF job = "awaiting_decision" THEN "executing" ELSE job
        /\ due' = TRUE
        /\ UNCHANGED <<started, runVars>>

\* The request dies with its block (the client is gone, the runner raises):
\* nothing is recorded about the step.
Interrupt_Stranded(r) ==
  /\ On("interrupt")
  /\ block[r].node \in Nodes
  /\ block' = [block EXCEPT ![r] = Idle]
  /\ UNCHANGED <<job, st, frameVars, entryVars, started, runVars, due>>

\* settle_interrupted: a session of its own fails the step; the frame stays and
\* no decision is recorded.
Interrupt(r) ==
  /\ On("interrupt")
  /\ LET n == block[r].node
         hit == {n} \cap RunningSteps
     IN  /\ n \in Nodes
         /\ st' = [m \in Nodes |-> IF m \in hit THEN "failed" ELSE st[m]]
         /\ fresh' = fresh \ hit
         /\ block' = [Stripped(hit) EXCEPT ![r] = Idle]
  /\ UNCHANGED <<job, frameVars, half, started, runVars, due>>

\* The frame is answered: the entry is younger than the step's last write, the
\* job goes back to executing and the run is restarted.
Answered ==
  /\ job = "awaiting_decision"
  /\ asked \in Nodes
  /\ fresh' = fresh \cup {asked}
  /\ half' = half \ {asked}
  /\ FrameGone
  /\ job' = "executing"
  /\ due' = TRUE

\* The answer is written without looking at the step.
AnswerOneself_Late ==
  /\ Answered
  /\ st' = [st EXCEPT ![asked] = "done"]
  /\ UNCHANGED <<started, runVars, block>>

\* "myself" and "skip", or the operator's part reported done: refused when the
\* step is no longer pending.
AnswerOneself ==
  /\ Answered
  /\ st[asked] = "pending"
  /\ \/ /\ st' = [st EXCEPT ![asked] = "done"]
        /\ started' = [started EXCEPT ![asked] = IF @ = "none" THEN "recent" ELSE @]
     \/ /\ st' = [st EXCEPT ![asked] = "skipped"]
        /\ UNCHANGED started
  /\ UNCHANGED <<runVars, block>>

\* "redraft": a review joins the step's text and the run drafts it again.
Redraft ==
  /\ kind = "run"
  /\ Answered
  /\ UNCHANGED <<st, started, runVars, block>>

\* reask: the frame is thrown away, no step is touched.
Reask ==
  /\ On("reask")
  /\ job = "awaiting_decision"
  /\ FrameGone
  /\ job' = "executing"
  /\ due' = TRUE
  /\ UNCHANGED <<st, entryVars, started, runVars, block>>

-----------------------------------------------------------------------------
(* What else happens to the job and its steps.                               *)

CancelJob ==
  /\ On("cancel")
  /\ MayMoveByDefault(job)
  /\ job' = "cancelled"
  /\ FrameGone
  /\ UNCHANGED <<st, entryVars, started, runVars, block, due>>

\* reset_node, called by the operator or by a run whose measurements contradict a done
\* step: a step of any status, whoever works on it; its parked frame goes with it, a
\* terminal job reopens.
Reset(n) ==
  /\ On("reset")
  /\ Settled(n) => n \in Reopenable
  /\ st' = [st EXCEPT ![n] = "pending"]
  /\ started' = [started EXCEPT ![n] = "none"]
  /\ half' = half \ {n}
  /\ fresh' = fresh \ {n}
  /\ block' = [r \in Requests |-> [Stripped({n})[r] EXCEPT !.torn = @ \/ block[r].node = n]]
  /\ IF asked = n THEN FrameGone ELSE UNCHANGED frameVars
  /\ job' = CASE job = "awaiting_decision" /\ asked = n -> "blocked"
              [] job \in TerminalStatuses -> "executing"
              [] OTHER -> job
  /\ UNCHANGED <<runVars, due>>

\* Time passes: a claim outlives the orphan threshold once nobody works on it (which
\* matters while the step is open).
Age(n) ==
  /\ started[n] = "recent"
  /\ st[n] \in {"pending", "running"}
  /\ n \notin works
  /\ ~Working(n)
  /\ started' = [started EXCEPT ![n] = "old"]
  /\ UNCHANGED <<job, st, frameVars, entryVars, runVars, block, due>>

\* reap_stale_jobs, Stage 0: the step goes back to pending, started_at stays.  A
\* block is on it only when its claim kept the started_at of an earlier one.
Reap(n) ==
  /\ st[n] = "running"
  /\ started[n] = "old"
  /\ Working(n) => On("kept_start")
  /\ st' = [st EXCEPT ![n] = "pending"]
  /\ Written({n})
  /\ UNCHANGED <<job, frameVars, half, started, runVars, due>>

\* The process dies and starts again: requests and run are gone, the start-up
\* sweep resets the running steps, an interrupted run is relaunched.
Crash ==
  /\ On("crash")
  /\ RunEnds
  /\ works' = {}
  /\ block' = [r \in Requests |-> Idle]
  /\ st' = [n \in Nodes |-> IF st[n] = "running" THEN "pending" ELSE st[n]]
  /\ fresh' = fresh \ RunningSteps
  /\ IF job = "running" THEN job' = "executing" /\ due' = TRUE ELSE job' = job /\ due' = FALSE
  /\ UNCHANGED <<frameVars, half, started>>

-----------------------------------------------------------------------------
SupInit ==
  /\ DagInit
  /\ asked = NoStep
  /\ kind = "run"
  /\ fresh = {}
  /\ half = {}
  /\ started = [n \in Nodes |-> "none"]
  /\ run = "off"
  /\ target = NoStep
  /\ works = {}
  /\ held = {}
  /\ block = [r \in Requests |-> Idle]
  /\ due = FALSE

RunNext ==
  \/ Restart \/ Press \/ Drained \/ Look \/ LookFails \/ AlreadyMet \/ EmptyVerify
  \/ Recheck \/ Park \/ Final \/ Cut \/ Stop
  \/ \E n \in Nodes : Claim(n) \/ HandBack(n) \/ Work(n)

AnswerNext ==
  \/ \E r \in Requests : Approve(r) \/ Finish(r) \/ Interrupt(r)
  \/ AnswerOneself \/ Redraft \/ Reask

OtherNext ==
  \/ CancelJob \/ Crash
  \/ \E n \in Nodes : Reset(n) \/ Age(n) \/ Reap(n)

SupNext == RunNext \/ AnswerNext \/ OtherNext

SupSpec == SupInit /\ [][SupNext]_supVars

-----------------------------------------------------------------------------
(* Properties.                                                               *)

SupTypeOK ==
  /\ DagTypeOK
  /\ asked \in Nodes \cup {NoStep}
  /\ kind \in Kinds
  /\ fresh \subseteq Nodes
  /\ half \subseteq Nodes
  /\ started \in [Nodes -> Ages]
  /\ run \in RunPcs
  /\ target \in Nodes \cup {NoStep}
  /\ works \subseteq Nodes
  /\ held \subseteq Nodes
  /\ block \in [Requests -> [node : Nodes \cup {NoStep}, fresh : SUBSET Nodes, half : SUBSET Nodes,
                         torn : BOOLEAN]]
  /\ due \in BOOLEAN

\* No step has two blocks on the machine at once: the claim is committed "before
\* anything reaches the machine, so that a second "run" cannot double-write".  Only a
\* reset of the step under its block lets another one beside it.
OneBlock ==
  \A q, r \in Requests :
    block[q].node = block[r].node /\ block[q].node # NoStep =>
      q = r \/ (block[q].torn /\ block[r].torn)

\* While the job waits on a frame there is a step it asks about, and if that step
\* is running a request is at work on it: an interrupted approval never leaves it
\* 'running' under a frame whose every answer is then refused.
NotStranded ==
  job = "awaiting_decision" =>
    asked \in Nodes /\ (st[asked] = "running" => Working(asked))

\* No decision anyone holds stands for step n's next attempt.
Stale(n) == n \notin fresh /\ \A r \in Requests : n \notin block[r].fresh

\* The run and the frame exclude each other, its bodies work only in its loop, what it
\* handed back ends with it, and nothing it claimed or handed back has a decision that
\* could stand in for asking.
RunInv ==
  /\ run # "off" => job # "awaiting_decision"
  /\ run # "loop" => works = {}
  /\ run = "off" => held = {}
  /\ run \in {"draft", "ask"} => target \in Nodes /\ DepsHeld(target) /\ st[target] # "running"
  /\ run # "off" => \A n \in works \cup held : Settled(n) \/ Stale(n)
  /\ run \in {"settle", "draft"} =>
       \A n \in Nodes : st[n] = "pending" /\ Deps[n] \cap Reopenable = {} => Stale(n)

\* A block's step has not been given back, nor is a body of the run on it, unless it
\* was reset under the block.
BlockInv ==
  \A r \in Requests : block[r].node # NoStep /\ ~block[r].torn =>
    st[block[r].node] # "pending" /\ block[r].node \notin works

\* A step that is asked about, or was answered, has its dependencies, reopened ones
\* apart.
AskedInv ==
  /\ job = "awaiting_decision" => asked \in Nodes /\ DepsHeld(asked)
  /\ \A n \in Nodes : ~Stale(n) => DepsHeld(n)

\* Whenever the run looks for a question, every ready hands-on step is one, those apart
\* that wait for a step that may be reopened: the answer to an attempt that failed does
\* not silence the question for ever.
NeverPassedOver ==
  run = "settle" =>
    \A n \in Ready \cap Hands : Deps[n] \cap Reopenable = {} => n \in Askable

\* The inductive invariant.
SupervisedInv ==
  /\ SupTypeOK
  /\ DependencyOrder
  /\ CompletedIsWhole
  /\ OneBlock
  /\ NotStranded
  /\ RunInv
  /\ BlockInv
  /\ AskedInv

\* A hands-on step becomes done from running only when its block did it: no body
\* of the run writes it up as done because of an answer to an earlier attempt.
NotFaked ==
  [][\A n \in Hands : st[n] = "running" /\ st'[n] = "done" => Working(n)]_supVars
=============================================================================
