------------------------------ MODULE Workflow ------------------------------
(***************************************************************************)
(* A job from its first draft to a plan that runs, and a request split     *)
(* into components: the background drafts and the approval gate, those     *)
(* who carry an approved job on (the detached chain, the /advance stream,  *)
(* a component's own pipeline), planning under the row lock, the reaper,   *)
(* the loop that resumes stranded planning, and the umbrella that gathers  *)
(* its components (app/modules/ideation_workflow.py, idea_refinement.py,   *)
(* advance_chain.py, decomposition.py, dag_generator.py, cleanup.py,       *)
(* app/routers/workflow.py).  How a run works inside is Execution's.       *)
(***************************************************************************)
EXTENDS Naturals, FiniteSets

CONSTANTS Jobs,
          Components,    \* the jobs that are children of the umbrella; each is also
                         \* the name of the pipeline that drives it
          Chains,        \* tasks of advance_chain._run_chain
          Requests,      \* /jobs/{id}/advance streams, runs an operator starts, assist walks
          Slots,         \* decompose_component_max_concurrent
          MaxRevisions,  \* bound: how often the operator sends the brief back
          MaxEvents,     \* bound: cancels, crashes, failures, operator's runs and walks
          Nobody

ASSUME WorkflowAssumption ==
  /\ Jobs # {} /\ Components \subseteq Jobs
  /\ Jobs \cap (Chains \cup Requests) = {} /\ Chains \cap Requests = {}
  /\ Nobody \notin Chains
  /\ Slots \in Nat \ {0} /\ MaxRevisions \in Nat /\ MaxEvents \in Nat

VARIABLES
  job,       \* jobs: status; text, the revision input_text is at; brief and stash, the
             \* revisions refined_brief and research_data.brief stem from (0: NULL);
             \* planned (it has dag_nodes); quiet (updated_at is past the
             \* threshold that applies to its status)
  drafts,    \* the phase-1 tasks in flight
  walker,    \* where each pipeline, chain and request stands
  chain,     \* _CHAINS: the chain registered last for a job
  umbrella,  \* the umbrella's jobs.status
  events     \* events left

workflowVars == <<job, drafts, walker, chain, umbrella, events>>

Walkers == Components \cup Chains \cup Requests

Ended  == { "completed", "failed", "cancelled" }
Status == Ended \cup
          { "refining", "awaiting_confirmation", "researching", "planning", "executing",
            "running", "blocked", "awaiting_assist", "awaiting_decision", "assisted" }

Texts == 1 .. MaxRevisions + 1
Job   == [status : Status, text : Texts, brief : Texts \cup {0}, stash : Texts \cup {0},
          planned : BOOLEAN, quiet : BOOLEAN]
Draft == [job : Jobs, text : Texts, pc : { "refine", "assess" }]
Labels == { "idle", "queued", "draft", "starting", "choose", "chose", "tail", "confirm",
            "research", "plan", "planning", "run", "work", "rollup", "close", "gone" }
Walker == [pc : Labels, job : Jobs, runs : BOOLEAN, admitted : BOOLEAN,
           brief : Texts \cup {0},
           note : { "none", "awaiting_assist", "completed", "failed" }]

At(w, l)  == walker[w].pc = l
JobOf(w)  == walker[w].job
Is(j, s)  == job[j].status = s
Event     == events > 0 /\ events' = events - 1

\* Whoever plans a job holds its row until it commits.
Planners(j) == { w \in Walkers : At(w, "planning") /\ JobOf(w) = j }
Unlocked(j) == Planners(j) = {}

Researchers(j) == { w \in Walkers : At(w, "research") /\ JobOf(w) = j }
Drafting(j)    == { d \in drafts : d.job = j /\ d.pc = "refine" }

Somewhere == CHOOSE j \in Jobs : TRUE
Idle == [pc |-> "idle", job |-> Somewhere, runs |-> FALSE, admitted |-> FALSE,
         brief |-> 0, note |-> "none"]

WorkflowInit ==
  /\ job = [j \in Jobs |-> [status |-> "refining", text |-> 1, brief |-> 0, stash |-> 0,
                            planned |-> FALSE, quiet |-> FALSE]]
  /\ drafts = [job : Jobs \ Components, text : {1}, pc : {"refine"}]
  /\ walker = [w \in Walkers |-> IF w \in Components
                                   THEN [Idle EXCEPT !.pc = "queued", !.job = w] ELSE Idle]
  /\ chain = [j \in Jobs |-> Nobody]
  /\ umbrella = "aggregating"
  /\ events = MaxEvents

-----------------------------------------------------------------------------
(* Writes to a job.                                                         *)

\* Any UPDATE of the row sets updated_at (a trigger), and waits for its lock.
Touched(j, r) == Unlocked(j) /\ job' = [job EXCEPT ![j] = [r EXCEPT !.quiet = FALSE]]

Set(j, v) == Touched(j, [job[j] EXCEPT !.status = v])

\* job_state.transition with its default guard: refused, it leaves the row as it is.
Refused_Never(j) == FALSE
Refused(j) == job[j].status \in Ended

Transition(j, r) == Unlocked(j) /\ IF Refused(j) THEN UNCHANGED job ELSE Touched(j, r)
MoveTo(j, v)     == Transition(j, [job[j] EXCEPT !.status = v])

Goto(w, l) == walker' = [walker EXCEPT ![w].pc = l]

\* A pipeline ends by rolling its umbrella up; others are free again.
Finish(w) ==
  walker' = [walker EXCEPT ![w] = IF w \in Components
                                    THEN [Idle EXCEPT !.pc = "rollup", !.job = w] ELSE Idle]

-----------------------------------------------------------------------------
(* Phase 1: drafting, and the gate.                                         *)

\* refine_idea returns a brief: the gate opens, the feasibility call is still to come.
Refined(d) ==
  /\ d.pc = "refine"
  /\ Transition(d.job, [job[d.job] EXCEPT !.status = "awaiting_confirmation", !.brief = d.text])
  /\ drafts' = (drafts \ {d}) \cup { [d EXCEPT !.pc = "assess"] }
  /\ UNCHANGED <<walker, chain, umbrella, events>>

\* The model fails the refinement, or an exception ends either call.
DraftFails(d) ==
  /\ Event
  /\ MoveTo(d.job, "failed")
  /\ drafts' = drafts \ {d}
  /\ UNCHANGED <<walker, chain, umbrella>>

\* The assessment is stored with the brief it is about, whatever the job is by now.
Assessed(d) ==
  /\ d.pc = "assess"
  /\ Touched(d.job, [job[d.job] EXCEPT !.stash = d.text])
  /\ drafts' = drafts \ {d}
  /\ UNCHANGED <<walker, chain, umbrella, events>>

\* /ideate/revise takes the assessment out of research_data and leaves the brief in.
Revise(j) ==
  /\ Is(j, "awaiting_confirmation") /\ job[j].text <= MaxRevisions
  /\ Touched(j, [job[j] EXCEPT !.status = "refining", !.text = @ + 1, !.brief = 0])
  /\ drafts' = drafts \cup { [job |-> j, text |-> job[j].text + 1, pc |-> "refine"] }
  /\ UNCHANGED <<walker, chain, umbrella, events>>

-----------------------------------------------------------------------------
(* A component's pipeline: a slot, its draft, then the steps all walkers share. *)

Enter(w) ==
  /\ At(w, "queued")
  /\ Cardinality({ v \in Components : walker[v].pc \notin { "queued", "gone" } }) < Slots
  /\ Goto(w, "draft")
  /\ drafts' = drafts \cup { [job |-> w, text |-> 1, pc |-> "refine"] }
  /\ UNCHANGED <<job, chain, umbrella, events>>

\* A failed draft left the job failed: the claim of Confirm is then lost, as the early return.
Drafted(w) ==
  /\ At(w, "draft") /\ \A d \in drafts : d.job = w => d.text # 1
  /\ Goto(w, "confirm")
  /\ UNCHANGED <<job, drafts, chain, umbrella, events>>

-----------------------------------------------------------------------------
(* The detached chain, its registry and the loop that resumes stranded jobs. *)

Live(j) == chain[j] # Nobody /\ walker[chain[j]].pc \notin { "idle", "starting" }
Unplanned(j) == Is(j, "planning") /\ ~job[j].planned

Needs(j, runs) ==
  \/ Is(j, "awaiting_confirmation")
  \/ Unplanned(j)
  \/ runs /\ job[j].planned /\ Is(j, "executing")

Asked(w, j, runs) ==
  /\ At(w, "idle") /\ ~Live(j) /\ Needs(j, runs)
  /\ walker' = [walker EXCEPT ![w] = [Idle EXCEPT !.pc = "starting", !.job = j, !.runs = runs]]
  /\ UNCHANGED <<job, drafts, chain, umbrella>>

Approve(w, j, runs) == Asked(w, j, runs) /\ Event

\* The marker says what the operator chose; a job no chain ever carried has none.
ResumeStranded(w, j, runs) == Unplanned(j) /\ job[j].quiet /\ Asked(w, j, runs) /\ UNCHANGED events

\* The marker, the task and its registration: the checks of Asked are old by now.
StartChain(w) ==
  /\ At(w, "starting")
  /\ Touched(JobOf(w), job[JobOf(w)])
  /\ Goto(w, "choose")
  /\ chain' = [chain EXCEPT ![JobOf(w)] = w]
  /\ UNCHANGED <<drafts, umbrella, events>>

\* Each phase starts with a marker in the row; what the row says then decides.
Choose(w) ==
  LET j == JobOf(w) IN
  /\ walker[w].pc \in { "choose", "chose", "tail" }
  /\ Touched(j, job[j])
  /\ \/ /\ At(w, "choose") /\ Is(j, "awaiting_confirmation")
        /\ Goto(w, "confirm")
     \/ /\ ~(At(w, "choose") /\ Is(j, "awaiting_confirmation"))
        /\ ~At(w, "tail") /\ Unplanned(j)
        /\ Goto(w, "plan")
     \/ /\ ~(At(w, "choose") /\ Is(j, "awaiting_confirmation"))
        /\ At(w, "tail") \/ ~Unplanned(j)
        /\ IF walker[w].runs /\ job[j].planned /\ Is(j, "executing")
             THEN Goto(w, "run") ELSE Finish(w)
  /\ UNCHANGED <<drafts, chain, umbrella, events>>

-----------------------------------------------------------------------------
(* Phase 2: research_and_compile, called by all three.                      *)

\* POST /jobs/{id}/advance, which starts with research, and POST /dag, which plans.
Advance(w, j, first, runs) ==
  /\ Event /\ At(w, "idle")
  /\ walker' = [walker EXCEPT ![w] = [Idle EXCEPT !.pc = first, !.job = j, !.runs = runs]]
  /\ UNCHANGED <<job, drafts, chain, umbrella>>

Confirmable_Again(j) == job[j].status \in { "awaiting_confirmation", "researching" }
Confirmable(j) == Is(j, "awaiting_confirmation")

\* The brief to work from is the stashed one, when there is one.
BriefToUse(j) == IF job[j].stash # 0 THEN job[j].stash ELSE job[j].brief

Confirm(w) ==
  LET j == JobOf(w) IN
  /\ At(w, "confirm") /\ Unlocked(j)
  /\ IF Confirmable(j)
       THEN /\ Set(j, "researching")
            /\ walker' = [walker EXCEPT ![w].pc = "research", ![w].brief = BriefToUse(j)]
       ELSE Finish(w) /\ UNCHANGED job
  /\ UNCHANGED <<drafts, chain, umbrella, events>>

\* Nothing was compiled, an exception, or the request was cancelled.
ResearchFails(w) ==
  /\ Event /\ At(w, "research")
  /\ \E v \in { "failed", "cancelled" } : MoveTo(JobOf(w), v)
  /\ Finish(w)
  /\ UNCHANGED <<drafts, chain, umbrella>>

\* The write may be refused; the caller is told "planning" all the same.
Researched(w) ==
  LET j == JobOf(w)  b == walker[w].brief IN
  /\ At(w, "research")
  /\ Transition(j, [job[j] EXCEPT !.status = "planning", !.brief = b, !.stash = b])
  /\ Goto(w, IF w \in Chains THEN "chose" ELSE IF w \in Components THEN "run" ELSE "plan")
  /\ UNCHANGED <<drafts, chain, umbrella, events>>

\* The client of a stream goes between research and the run: a planner's
\* transaction is rolled back with its task.
TabClosed(w) ==
  /\ Event /\ walker[w].pc \in { "plan", "planning", "run" } /\ ~walker[w].admitted
  /\ Finish(w)
  /\ UNCHANGED <<job, drafts, chain, umbrella>>

-----------------------------------------------------------------------------
(* Planning: generate_dag.  A plan is made from a brief that does not change here. *)

Plannable_Unlocked(j) == job[j].status \in { "planning", "running" } /\ ~job[j].planned
Plannable(j) == Plannable_Unlocked(j) /\ Unlocked(j) /\ job[j].brief # 0

AfterPlan(w) == IF walker[w].admitted THEN Goto(w, "work")
                ELSE IF w \in Chains THEN Goto(w, "tail")
                ELSE IF walker[w].runs THEN Goto(w, "run") ELSE Finish(w)

\* SELECT ... FOR UPDATE; the executor goes on even when it is refused a plan.  A
\* job that has one is refused: that a plan nobody has started yet is thrown away
\* for a brief that changed, under the same lock, is left out.
LockToPlan(w) ==
  LET j == JobOf(w) IN
  /\ At(w, "plan")
  /\ \/ Plannable(j) /\ Goto(w, "planning")
     \/ /\ ~Plannable(j) /\ Unlocked(j)
        /\ IF walker[w].admitted THEN Goto(w, "work") ELSE Finish(w)
  /\ UNCHANGED <<job, drafts, chain, umbrella, events>>

\* The planner's own writes, under its lock.
Committed(w, r) == job' = [job EXCEPT ![JobOf(w)] = [r EXCEPT !.quiet = FALSE]]

Planned(w) ==
  /\ At(w, "planning")
  /\ Committed(w, [job[JobOf(w)] EXCEPT !.planned = TRUE, !.status = "executing"])
  /\ AfterPlan(w)
  /\ UNCHANGED <<drafts, chain, umbrella, events>>

\* A failure says "error", and the callers stop; or "errors" (validation), which none of them reads.
PlanFails(w) ==
  /\ Event /\ At(w, "planning")
  /\ Committed(w, [job[JobOf(w)] EXCEPT !.status = "failed"])
  /\ IF walker[w].admitted THEN AfterPlan(w) ELSE Finish(w) \/ AfterPlan(w)
  /\ UNCHANGED <<drafts, chain, umbrella>>

-----------------------------------------------------------------------------
(* A run: admission, a plan when there is none, and what it leaves.         *)

\* POST /execute/all, or the resume of a cancelled job, which reopens it first.
Run(w, j) ==
  /\ Event /\ At(w, "idle")
  /\ IF Is(j, "cancelled") THEN Set(j, "executing") ELSE UNCHANGED job
  /\ walker' = [walker EXCEPT ![w] = [Idle EXCEPT !.pc = "run", !.job = j]]
  /\ UNCHANGED <<drafts, chain, umbrella>>

\* Whatever is not running or completed is admitted, at the end of the wait for a run slot.
Admit(w) ==
  LET j == JobOf(w) IN
  /\ At(w, "run") /\ Unlocked(j)
  /\ IF job[j].status \notin { "running", "completed" }
       THEN /\ Set(j, "running")
            /\ walker' = [walker EXCEPT ![w].pc = IF job[j].planned THEN "work" ELSE "plan",
                                        ![w].admitted = TRUE]
       ELSE Finish(w) /\ UNCHANGED job
  /\ UNCHANGED <<drafts, chain, umbrella, events>>

\* A planned job that nobody stopped ends one way or another, or waits for the
\* operator; the run's cleanup fails what is still running, and not what a plan
\* made on the way put to executing.
Outcomes(j) ==
  IF ~job[j].planned THEN { "failed" }
  ELSE { "completed", "failed", "blocked", "awaiting_assist", "awaiting_decision" }
         \cup ({ job[j].status } \ {"running"})

RunEnds(w) ==
  LET j == JobOf(w) IN
  /\ At(w, "work") /\ Unlocked(j)
  /\ IF job[j].status \in { "running", "executing" }
       THEN \E v \in Outcomes(j) : Set(j, v)
       ELSE UNCHANGED job
  /\ Finish(w)
  /\ UNCHANGED <<drafts, chain, umbrella, events>>

-----------------------------------------------------------------------------
(* The assist walk a parked job waits for.                                  *)

TakeUp(j) ==
  /\ Event /\ job[j].planned
  /\ job[j].status \in Ended \cup { "planning", "executing", "blocked", "awaiting_assist" }
  /\ Set(j, "assisted")
  /\ UNCHANGED <<drafts, walker, chain, umbrella>>

\* The last step is settled: the walk completes the job, unless a step handed to
\* the engine is open, and rolls the umbrella up.
WalkEnds(w, j) ==
  /\ At(w, "idle") /\ Is(j, "assisted")
  /\ Set(j, "completed") \/ UNCHANGED job
  /\ IF j \in Components THEN Goto(w, "rollup") ELSE UNCHANGED walker
  /\ UNCHANGED <<drafts, chain, umbrella, events>>

\* The operator abandons it, or the reaper does after days; nobody rolls up.
Abandon(j) ==
  /\ Is(j, "assisted")
  /\ Set(j, "cancelled")
  /\ UNCHANGED <<drafts, walker, chain, umbrella, events>>

-----------------------------------------------------------------------------
(* The umbrella.                                                            *)

Over == { "completed", "failed", "cancelled", "blocked" }
Resting == Over \cup { "awaiting_assist" }

Verdict ==
  IF \E c \in Components : Is(c, "awaiting_assist") THEN "awaiting_assist"
  ELSE IF \E c \in Components : Is(c, "completed") THEN "completed" ELSE "failed"

Leave(w) == walker' = [walker EXCEPT ![w] = IF w \in Components
                                              THEN [Idle EXCEPT !.pc = "gone", !.job = w]
                                              ELSE Idle]

Countable_AnyOver == \E c \in Components : job[c].status \in Resting
Countable == \A c \in Components : job[c].status \in Resting

\* _rollup_umbrella counts the children ...
Count(w) ==
  /\ At(w, "rollup")
  /\ IF Countable
       THEN walker' = [walker EXCEPT ![w].pc = "close", ![w].note = Verdict]
       ELSE Leave(w)
  /\ UNCHANGED <<job, drafts, chain, umbrella, events>>

Gatherable == umbrella \in { "aggregating", "awaiting_assist" }

\* ... compiles what they made, and writes what it counted.
Close(w) ==
  /\ At(w, "close")
  /\ umbrella' = IF Gatherable THEN walker[w].note ELSE umbrella
  /\ Leave(w)
  /\ UNCHANGED <<job, drafts, chain, events>>

\* An exception on the way is logged, and that is all.
RollupLost(w) ==
  /\ Event /\ walker[w].pc \in { "rollup", "close" }
  /\ Leave(w)
  /\ UNCHANGED <<job, drafts, chain, umbrella>>

-----------------------------------------------------------------------------
(* Those who act from outside.                                              *)

Cancel(j) ==
  /\ Event /\ job[j].status \notin Ended
  /\ Set(j, "cancelled")
  /\ UNCHANGED <<drafts, walker, chain, umbrella>>

CancelUmbrella ==
  /\ Event /\ Gatherable /\ Components # {}
  /\ umbrella' = "cancelled"
  /\ UNCHANGED <<job, drafts, walker, chain>>

\* A status keeps its threshold; a run keeps touching its job.
GrowQuiet(j) ==
  /\ ~job[j].quiet
  /\ job[j].status \in { "refining", "awaiting_confirmation", "researching", "planning", "running" }
  /\ Is(j, "running") => \A w \in Walkers : ~(At(w, "work") /\ JobOf(w) = j)
  /\ job' = [job EXCEPT ![j].quiet = TRUE]
  /\ UNCHANGED <<drafts, walker, chain, umbrella, events>>

\* What one pass of reap_stale_jobs makes of a job.
LongPhase_Researching == { "researching" }
LongPhase == { "researching", "refining" }

Reaped(j) ==
  CASE ~job[j].quiet -> job[j].status
    [] job[j].status \in LongPhase \cup {"running"} -> "failed"
    [] Is(j, "planning") -> "cancelled"
    [] Is(j, "awaiting_confirmation") -> IF j \in Components THEN "failed" ELSE "cancelled"
    [] OTHER -> job[j].status

Sweepable_Done(s) == umbrella = "aggregating" /\ \A c \in Components : s[c] \in Over \ {"cancelled"}
Sweepable(s) == umbrella = "aggregating" /\ \A c \in Components : s[c] \in Over

\* One transaction: the jobs first, then the umbrella whose children all ended.
Reap ==
  LET s == [j \in Jobs |-> Reaped(j)]
      hit == { j \in Jobs : s[j] # job[j].status } IN
  /\ \A j \in hit : Unlocked(j)
  /\ hit # {} \/ (Components # {} /\ Sweepable(s))
  /\ job' = [j \in Jobs |-> IF j \in hit THEN [job[j] EXCEPT !.status = s[j], !.quiet = FALSE]
                            ELSE job[j]]
  /\ umbrella' = IF Components # {} /\ Sweepable(s)
                   THEN IF \E c \in Components : s[c] = "completed" THEN "completed" ELSE "failed"
                   ELSE umbrella
  /\ UNCHANGED <<drafts, walker, chain, events>>

\* The process dies and starts again: tasks, registry and locks are gone.
Crash ==
  /\ Event
  /\ drafts' = {}
  /\ walker' = [w \in Walkers |-> IF w \in Components
                                    THEN [Idle EXCEPT !.pc = "gone", !.job = w] ELSE Idle]
  /\ chain' = [j \in Jobs |-> Nobody]
  /\ UNCHANGED <<job, umbrella>>

-----------------------------------------------------------------------------
ChainNext(w) ==
  \/ \E j \in Jobs, runs \in BOOLEAN : Approve(w, j, runs) \/ ResumeStranded(w, j, runs)
  \/ StartChain(w) \/ Choose(w)

RequestNext(w) ==
  \/ \E j \in Jobs : \/ \E first \in { "confirm", "plan" }, runs \in BOOLEAN : Advance(w, j, first, runs)
                     \/ Run(w, j) \/ WalkEnds(w, j)
  \/ TabClosed(w)

WalkerNext(w) ==
  \/ Confirm(w) \/ Researched(w) \/ ResearchFails(w)
  \/ LockToPlan(w) \/ Planned(w) \/ PlanFails(w)
  \/ Admit(w) \/ RunEnds(w) \/ Count(w) \/ Close(w) \/ RollupLost(w)

WorkflowNext ==
  \/ \E d \in drafts : Refined(d) \/ DraftFails(d) \/ Assessed(d)
  \/ \E w \in Components : Enter(w) \/ Drafted(w)
  \/ \E w \in Chains : ChainNext(w)
  \/ \E w \in Requests : RequestNext(w)
  \/ \E w \in Walkers : WalkerNext(w)
  \/ \E j \in Jobs : Revise(j) \/ TakeUp(j) \/ Abandon(j) \/ Cancel(j) \/ GrowQuiet(j)
  \/ CancelUmbrella \/ Reap \/ Crash

WorkflowSpec == WorkflowInit /\ [][WorkflowNext]_workflowVars

\* Model calls return, tasks run, time passes, the two loops turn.  The operator
\* owes nothing, and no failure has to happen.
WorkflowFairness ==
  /\ \A d \in Draft : WF_workflowVars(d \in drafts /\ (Refined(d) \/ Assessed(d)))
  /\ \A w \in Components : WF_workflowVars(Enter(w) \/ Drafted(w))
  /\ \A w \in Chains : WF_workflowVars(StartChain(w) \/ Choose(w))
  /\ \A w \in Walkers :
       WF_workflowVars(Confirm(w) \/ Researched(w) \/ LockToPlan(w) \/ Planned(w)
                         \/ Admit(w) \/ RunEnds(w) \/ Count(w) \/ Close(w))
  /\ \A j \in Jobs : WF_workflowVars(GrowQuiet(j))
  /\ WF_workflowVars(Reap)
  /\ WF_workflowVars(\E w \in Chains, j \in Jobs, runs \in BOOLEAN : ResumeStranded(w, j, runs))

FairWorkflowSpec == WorkflowSpec /\ WorkflowFairness

-----------------------------------------------------------------------------
(* What the workflow guarantees.                                            *)

WorkflowTypeOK ==
  /\ job \in [Jobs -> Job] /\ drafts \subseteq Draft /\ walker \in [Walkers -> Walker]
  /\ chain \in [Jobs -> Chains \cup {Nobody}]
  /\ umbrella \in { "aggregating", "awaiting_assist" } \cup Ended
  /\ events \in 0 .. MaxEvents

\* However many chains, streams, pipelines and runs carry a job, one of them at a
\* time plans it, and only while it has no plan, and one of them researches it
\* (generate_dag's lock and second look, research_and_compile's claim, under the
\* racing starts of start_advance_chain and the drafts that reopen the gate).
OneAtATime ==
  \A j \in Jobs :
    /\ \A v, w \in Planners(j) : v = w
    /\ job[j].planned => Unlocked(j)
    /\ \A v, w \in Researchers(j) : v = w

\* Why: a draft that can still open the gate is the only one, and nobody is past
\* the gate then; whoever plans a job has it in a status no late write finds
\* ended; a verdict is noted while it is being written, and only then.
GateHeld ==
  \A j \in Jobs :
    /\ \A d, e \in Drafting(j) : d = e
    /\ Drafting(j) # {} => Researchers(j) = {} /\ ~Is(j, "awaiting_confirmation")
    /\ Is(j, "awaiting_confirmation") => Researchers(j) = {}
    /\ j \in Components /\ At(j, "queued") =>
         Drafting(j) = {} /\ Researchers(j) = {} /\ ~Is(j, "awaiting_confirmation")

PlannerHolds ==
  \A w \in Walkers : At(w, "planning") => job[JobOf(w)].status \in { "planning", "running" }

NoteKept == \A w \in Walkers : (walker[w].note # "none") <=> At(w, "close")

OwnJob == \A c \in Components : JobOf(c) = c

WorkflowInv == WorkflowTypeOK /\ OwnJob /\ NoteKept /\ PlannerHolds /\ GateHeld /\ OneAtATime

\* The late write of a draft, of research or of a failure never brings a failed
\* or cancelled job back: what leaves them is a run, its resume or an assist walk.
NotResurrected ==
  [][\A j \in Jobs : job[j].status \in Ended /\ ~Is(j, job'[j].status)
                       => job'[j].status \in { "running", "executing", "assisted" }]_job

\* The umbrella's outcome is the promise of Rollup, and the Python count and the
\* SQL sweep draw the same verdict.
Kind(s) == CASE s \in Over \ {"completed"} -> "over" [] s = "completed" -> "done"
             [] s = "awaiting_assist" -> "parked" [] OTHER -> "busy"

Promise == INSTANCE Rollup WITH
  Parts <- Components, Gatherers <- Walkers,
  kid <- [c \in Components |-> Kind(job[c].status)],
  outcome <- umbrella,
  note <- [w \in Walkers |-> walker[w].note]

ImplementsRollup == Promise!RollupSpec

\* No job stays in a phase only the engine can end: the task ends it, the loop
\* resumes it or the reaper does, over any crash.
NoneStranded ==
  \A j \in Jobs :
    (job[j].status \in { "refining", "researching" } \/ Unplanned(j))
      ~> ~(job[j].status \in { "refining", "researching" } \/ Unplanned(j))

\* An umbrella whose children have all ended is ended, whoever ended them.
SweptUp ==
  LET allOver == \A c \in Components : job[c].status \in Over
  IN (umbrella = "aggregating" /\ allOver) ~> (umbrella # "aggregating" \/ ~allOver)

-----------------------------------------------------------------------------
(* What comments say and the code does not keep.                            *)

\* job_state.py: "A job in one of these never moves again on its own".  A cancelled
\* job runs again when the operator runs it, never because a chain or a
\* component's pipeline had got as far as its run.
CancelStands ==
  [][\A w \in Chains \cup Components :
       At(w, "run") /\ walker'[w].admitted => ~Is(JobOf(w), "cancelled")]_workflowVars

\* decomposition.py, cleanup.py: the sweep is the safety net for a child the reaper
\* ended, and a parked umbrella is carried on.
UmbrellaGathered ==
  LET allRest == \A c \in Components : job[c].status \in Resting
  IN (umbrella = "aggregating" /\ allRest) ~> (umbrella # "aggregating" \/ ~allRest)

\* routers/workflow.py: a revision builds on the ask, and the approved brief is the one worked from.
ApprovedBriefUsed ==
  [][\A w \in Walkers, j \in Jobs :
       At(w, "confirm") /\ walker'[w].pc = "research" /\ JobOf(w) = j
         => walker'[w].brief = job[j].brief]_workflowVars
=============================================================================
