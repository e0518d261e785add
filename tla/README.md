# Verification of the scaffold-engine job pipeline

TLA+ models of the part of scaffold-engine that decides what happens to a job:
drafting, approval, research and planning; the executor of its plan and
everything that writes to the same rows beside it; the approval of steps that change
a machine; the operator's walk through the plan; the broker that runs it detached from the HTTP responses that watch
it; research sessions; and what a crash and a restart do to all this. TLC checks
the models on small instances; TLAPS proves the main safety properties for
every plan, any number of calls and any bound.

All source paths are relative to the repository (`src/` in `PROJECT.json`).

## 1. Inventory

### The system

A user's request becomes a **job** (one row of `jobs`), or an umbrella over several.
A job is refined, confirmed, researched, planned into a DAG of **steps**
(`dag_nodes`, with `depends_on`), executed step by step by language models and tools
or walked through by the operator, verified, and compiled into a deliverable. The
process is one asyncio event loop. What is durable is in PostgreSQL (jobs, steps,
schedules, sessions) and mirrored in Redis (stream logs, caches). Three things make
it hard:

* every `await` is a point where any other task runs; one step takes minutes of
  model time, during which the operator may cancel, skip, retry, answer, or
  start the job again from another tab or another entry point;
* facts are read in one transaction and used in another, after a model call;
* a run can be cut off anywhere (stream dropped, cancel, exception, process
  restart), leaving rows that say `running` with nobody working on them.

### Components

| component | state it keeps | operations | what makes it correct | status |
|---|---|---|---|---|
| Plan executor, `app/modules/execution_agent.py` | `jobs.status`, `metadata.awaiting_decision`, `compiled_output`, `dag_nodes.status`; per run: in-flight tasks, results queue, retry budget | admission, frontier claim, body, persist, terminal call, release, detached cleanup | no step ahead of a dependency; one worker per step; no stale result; a completed job is whole; a run ends and leaves no step running | in part |
| Status vocabulary, `job_state.py` | none (guards) | `transition`, `touch` | a terminal job is not overwritten | modelled |
| Step retry, `execution_retry.py` | `dag_nodes.retry_count` | read, escalate, guarded reset with cascade | the count is bounded; the cascade touches failed steps only | in part |
| Reaper, `cleanup.py` | none (reads times) | orphaned steps, stale jobs and phases, research sessions, abandoned walks, umbrellas | nothing is left for ever; nothing is taken from a live owner below its threshold | modelled |
| Cancel, resume, skip, `execution_handler.py` | `jobs.status`, `dag_nodes.status` | guarded writes beside the run | the run ends; the plan stays ordered | in part |
| Decision pause, `decision_pause.py` | `metadata.awaiting_decision` | park, answer, delegate, re-ask | the engine does not start a decision unasked; what is asked can be answered | in part |
| Per-job budget, `cost_budget.py` | spend | `enforce_job_budget` | the run stops when it fails the job | its verdict only |
| Run broker, `run_broker.py` | `_runs`, per run: task, done flag, frames, subscriber queues | start, subscribe, publish, cancel, evict | one run per job; replay and tail meet; nobody stalls a run; streams end | in part |
| Crash resume and start-up, `execution_resume.py`, `main.py` | `resume_attempts`, `resume_done_marker` | sweep, claim, reconcile, spawn of drains | work is resumed; a crash loop is cut, and only then | modelled |
| Research sessions, `research_agent.py`, `research_state.py` | `research_sessions` row, pipeline state | start, iterate, pause, resume, complete, finalise | one pipeline at work; newest snapshot; every session ends | in part |
| Scheduler, `scheduler.py` | `scheduled_jobs.last_status` | fire, time out, drain, report | a fired run ends | in part |
| Ideation and workflow phases, `ideation_workflow.py`, `idea_refinement.py`, `advance_chain.py`, `routers/workflow.py` | job status before planning, brief and stash, `_CHAINS` | draft, approve, revise, research, carry on, resume stranded planning | one carrier researches and plans; an ended job is not revived; no phase is left for ever | in part |
| Decomposition, `decomposition.py` | umbrella and children | component pipelines, roll-up, sweep | one final outcome, drawn when no child is busy | in part |
| DAG generation, `dag_generator.py` | row lock on the job | lock, plan, commit | one planner; the output is an acyclic numbered plan | as a writer of the job |
| Assist mode, `assist_agent.py`, `assist_handoff.py`, `assist_step_fsm.py` | `assist_sessions`, `assist_steps`, and the nodes they mirror | start, next, submit, goto, back, deny, pause, abandon, hand-off | the declared machine; step and node agree; a job is completed only whole | in part |
| Supervised hands-on runs, `supervised_runs.py`, `operator_steps.py`, `decision_pause.py` | the frame in `metadata.awaiting_decision`, the entries of `metadata.decisions`, `dag_nodes.started_at` | hand back, ask, approve and run the block, answer, redraft, interrupt | one block on a step; an answer serves one attempt; every step is asked about; a refusable frame is never left | in part |
| Plan editor, `node_editor.py` | `depends_on`, `dag_nodes` | insert, remove, re-wire, reset | the plan stays acyclic under a running executor; a reset takes the frame and the spent answer with it | reset only |
| Inference queue, host pool, caches | slots, cool-downs, entries | admission with timeout, failover, invalidation | bounds kept; nothing stale served | left out |

`PROJECT.json` lists the rest too (routers, retrieval, verification of steps, MCP,
sandbox, clients, observability, simulated modules) with the reason each is left
out: they are network calls, judgement by models, parsing or rendering, and reach
a job only through the operations above.

### How they interact

```
 HTTP / chat / CLI / scheduler
   | draft, approve, revise     | run, POST /execute      | walk, hand off    | cancel, skip, retry, decide
   v                            v                         v                   v
 phase tasks, chains,    run_broker --task-->      assist sessions            |
 component pipelines            |                     |  |                    |
   |  generate_dag              v                     |  v                    |
   +--------------------> execute_all_nodes <---------+ assist_steps          |
   |                            | claim, drain           | mirror             |
   v                            v                        v                    v
 PostgreSQL: jobs, dag_nodes <- node bodies        ----------------------------
   ^                                                        ^
   +-- roll-up of umbrellas   release, detached cleanup ----+---- reaper, start-up sweep and resume
```

Nothing but `generate_dag` holds a lock across a model call. Every other protection
is a guard in the `WHERE` clause of a write, or a status read under the row lock;
whether those guards are enough is what the models are about.

## 2. Modules

| module | what it is |
|---|---|
| `JobState` | the status vocabulary and the two guards of `job_state.transition` |
| `DagJob` | **abstract specification**: one job and its plan, and the legal moves of each, whoever makes them |
| `Execution` | the executor and everything beside it; implements `DagJob` |
| `Restart` | extends `Execution` by crashes and the start-up steps; still implements `DagJob` |
| `RunBroker` | the broker, for one job |
| `Research` | sessions, the pipelines that work on them, the scheduler, the reaper, the start-up |
| `Rollup` | **abstract specification**: the outcome of a request split into parts |
| `Workflow` | jobs from the draft to a plan that runs, and the umbrella over them; implements `Rollup` |
| `StepFsm` | **abstract specification**: the declared machine of an assist step and the mirror to its node |
| `Assist` | one walk, its hand-offs and the executor beside it; implements `StepFsm` |
| `Supervised` | approvals of hands-on steps and their blocks, beside a run; implements `DagJob` |
| `DagJobProofs`, `ExecutionProofs`, `RestartProofs`, `RunBrokerProofs`, `ResearchProofs`, `WorkflowProofs`, `AssistProofs`, `SupervisedProofs` | theorems |
| `MCExecution`, `MCRestart`, `MCRunBroker`, `MCResearch`, `MCWorkflow`, `MCAssist`, `MCSupervised` | the instances |

A definition named `X_Slip` (`Claimable_Running`, `Press_Anew`) is `X` with a
plausible mistake. No specification uses it; put in the place of `X` it breaks
the property that watches `X`.

The models meet in the rows they share. `Execution` starts from a planned job;
`Workflow` ends with its run, seen from outside (`Admit`, `RunEnds` with any verdict
`Execution` can leave); `Assist` has the executor as far as `DagJob` lets it move a
plan, `Supervised` as the loop, the bodies and the terminal path of one run; `Restart` composes the executor with the start-up. One walk is `TakeUp`,
`WalkEnds` and `Abandon` in `Workflow`, with the three assisted statuses folded into
one.

### Execution: state

| variable | in the code |
|---|---|
| `job`, `asked`, `output` | `jobs.status`, `jobs.metadata.awaiting_decision`, `jobs.compiled_output` (none, the parked plan, a partial text, the final text) |
| `st`, `tries` | `dag_nodes.status`, `retry_count` |
| `delegated` | decisions the operator handed to the engine |
| `phase`, `why` | where a call of `execute_all_nodes` is between two awaits, and the `exit_reason` its cleanup is given |
| `inflight`, `results` | the tasks of `_worker` and `results_q`; a body is a record of its step, the number of the claim it holds, where it is and what it will report |
| `retries`, `target`, `down`, `held` | `retries_remaining`; locals kept across an await |
| `opRetry` | `POST /exec/retry` between its read and its write |
| `claims` | history: how often a step was claimed, so that a stale body is told from the current one |
| `events` | history: what the environment did, which also bounds it |

### Execution: actions

A database transaction is one step. Between two of them anything may happen.

| action | code |
|---|---|
| `Admit`, `Validate`, `HandsOnGate` | sessions 1 and 2 of `execute_all_nodes`, the hands-on gate (merged with the read before it) |
| `ClaimFrontier` | refill: the first ready steps, up to the free slots, `_claim_ready_nodes_sql` |
| `Drain`, `DrainBudget`, `Keepalive` | one item of `results_q`, or the timeout; `_reap` forgets every ended task |
| `DrainQuota`, `QuotaStops` | the account's limit: the job is committed `blocked` and a frame is yielded; then the run returns and its `finally` cancels the bodies, which have worked on in between |
| `Settle`, `LookFails` | nothing going and nothing claimable: is the next step a decision? The look-up may raise, which is logged and taken for "no" |
| `Reread`, `Recheck`, `Park` | while the question is framed: stale tests put settled steps back and the loop goes round (`take_reset`); the dependencies are read again; the job is parked |
| `Sum`, `FinalReturns` | all done, or the terminal call |
| `AutoRetryReads`, `AutoRetryResets`, `OperatorRetryReads`, `OperatorRetryResets` | stages 1 and 5 of `retry_failed_node` |
| `Enter`, `OverBudget`, `PeekFails` | phase 1 of `execute_next_node` (the peek for a decision is part of `Enter`; when it raises the body claims without asking) |
| `RereadAlone`, `RecheckAlone`, `ParkAlone` | the same question framed by a body of its own |
| `Pick`, `Take` | the two statements of `_get_next_node`, with the lost race |
| `Persist`, `GivesUp`, `Shortcut`, `WorkerError` | the ways a body ends: a verified outcome, a failure before it, a human or external-tool step, an exception only `_worker` sees, at work or after the outcome (or the completed job) was committed |
| `Finish`, `Compile`, `Partial` | the completion test and flip, the two compilations, `_flip_job_blocked` |
| `Leaves`, `Release`, `Count`, `Cleanup` | `finally` of the run, `_release_claims`, `_cleanup_stuck_running_job` |
| `Disconnect`, `RunFails` | the stream is dropped or the run is cancelled, in its loop or in its `finally`, where it interrupts the release; an exception |
| `Solo`, `SoloReturns` | `POST /execute` |
| `CancelJob`, `Resume`, `Skip`, `Reset`, `Decide`, `Reask` | the operator; `Reset` takes a step of any status, alone or with what stands on it |
| `ReapOrphan`, `ReapSlow`, `ReapStaleJob` | the reaper's two rules for a running job |

### Execution: decisions of modelling

* The parallel frontier is what `PARALLEL_EXECUTION_ENABLED` gives by default; one
  compose file turns it off, and the serial loop that then runs is not modelled.
* `CancelJob` (a database write) and `Disconnect` (the task is cancelled) are two
  events. They come together for a run of the broker; runs started elsewhere
  (`routers/jobs.py:136`, `workflow.py:497`, `advance_chain.py:164`,
  `mcp_server.py:110`, `decomposition.py:454`, `execution_resume.py:74`) are
  cancelled in the database only, and the frontier loop does not read the status.
* The terminal call runs inline: it is not in the tracked tasks, so it is neither
  cancelled separately nor are its steps released.
* The last completion test of a body and the flip it leads to are one step. Between the two only a
  reset of a settled step could make a difference; the detached cleanup, whose test and flip lie further apart
  (`Count`, `Cleanup`), has that difference.
* `Reopenable` are the steps that can be put back to work after they settled: those whose tests the delivery
  check finds stale, and those an operator resets. Every fact about settled steps that is read before an
  await is stated for the others (`DepsHeld`, `AllHeld`), and for all steps when `Reopenable` is empty.
* The budget's read and its flip are one step. What is spent is not modelled.
* A decision whose framing turns out to ask nothing is demoted to an ordinary task
  by the code; it is simply not in `Decisions`.
* One check may put several steps back in transactions of their own; they are one step here. `stale_test_steps` also
  makes the delivery question wait for each step it puts back (`depends_on`); `Deps` is fixed here, which leaves the
  question fewer dependencies than the code gives it. The look-up that is
  made again after a re-read gives up at depth six: here it may give up at any time.
* The reaper sees ages. `Unwinding` and `Untouched` say in which states a step or a
  job can be old enough: `node_orphan_threshold_minutes` and `stale_threshold` are
  30 minutes, `node_timeout` is 600 s, a run that finds its job stopped ends
  within one body and its cleanup in seconds. A body slower than the threshold is
  the separate event `slow_reap`.
* Left out: the automatic generation of a missing DAG (it is in `Workflow`), the
  execution-slot semaphore, token streaming, the hand-back of hands-on steps (it is in
  `Supervised`), the handler of a
  partial compilation that raises, the extra round the loop makes for a `_JUST_RESET` left over from an earlier look-up.
* Left out as well, since the plan is fixed here: the steps that `lint_fix_steps`, `_add_review_fixes` and
  `split_step` insert, `mark_satisfied`, and edits of the plan.
* Left out too: the escalations when `max_retries` is reached, which start the count anew. `RetryBound` is about the
  retries between two of them.

### RunBroker: state and actions

`current` is `_runs[job_id]`; per run `task`, `done`, `sent` (the frames published,
of which the last `MaxFrames` are `run.frames`) and `subs`; per stream its place in
`subscribe` (`view`), the run it follows, what it has still to replay, its queue,
the last frame it yielded. `missed` records that a put found its queue full.
`Press` is `start` and the response that follows; `Subscribe` is the beginning of the
generator's body, which runs some time later; `Replay`, `GoLive`, `Get` its loop;
`Leave` a client going away; `Publish`, `PumpEnds`, `Unwound` are `_pump`, the last one
with the two outcomes of cancelling a task (one that never took its first step
does not run its `finally`); `CancelAsks` and `CancelReturns` are `cancel` around its
bounded wait; `Evict` is `_evict_stale`.

A generator yields nothing after it was cancelled (`execution_agent.py:5477-5485`).
`reconcile_on_startup` is in `Restart`; the Redis mirror, replay from Redis and
`shutdown_all` are not modelled.

### Restart: state and actions

`boot` is the start-up step that comes next; `attempts` and `marker` are
`jobs.resume_attempts` and `resume_done_marker`; `resumed` says that this start-up
claimed the job, `drain` that its `_drain_execution` waits for a slot. `Crash` may
come between any two steps of `Execution` or of the start-up and keeps the rows
only. `Sweep` is stage 2 of `_pre_migration_sweep`, `Claim` and `ValveOff` are
`resume_orphaned_executions` (one transaction per job: `NextAttempt`, `OverCap`,
`MadeProgress`), `Reconcile` is `run_broker.reconcile_on_startup`, `Spawn` and
`DrainStarts` relaunch the job, and each has the failure the lifespan logs and goes
past (`SweepRaises`, `ClaimRaises`, `ReconcileRaises`, `DrainTimesOut`).
`ReapAbandoned` is the reaper's rule for a running job without an open step.
Requests are served from `boot = "up"` on. `fruitless` is a history variable: launches
since a step was last settled.

### Research: state and actions

`row` holds a session's status, its saved iterations (with the snapshot), whether it
is past the reaper's threshold and past `pause_expires_at`; `pipe` is a pipeline (one
call of `run_research` or `resume_research`), `lastStatus` what a scheduled run
reports. `Start` is the guarded insert, `Load`, `CancelExpired` and `Claim` are
`resume_research` with its gap between read and claim, `Iterate`, `Continue`, `Pause`,
`Complete` the loop and its ends, `Raise`, `Leave`, `Close`, `Settle` the lifecycle
wrapper (an exception; the reader gone or the run cancelled; the shielded write; the
scheduler's own `_finalize_cancel`; an iteration without results ends the loop with nothing saved), `TimeOut` and `Report` the scheduler, `ReapSilent`
and `ReapPaused` the reaper, `Boot` the start-up sweep.

`url` and `file` modes are the case `MaxIter = 1`. A client that leaves while a
heartbeat is yielded is not told apart from one that leaves at any await. The drain
of a fired pipeline is `Leave` of that pipeline; a detached run's cancel too.

### Workflow: state and actions

`job` has the status, the revision of the text, of the stored brief and of the
stashed one, whether it is planned, and `quiet`; `drafts` are the phase-1 tasks in
flight; `walker` is everybody who carries a job on (a component's pipeline, a chain, an
`/advance` stream or an operator's run); `chain` is `_CHAINS`; `umbrella` the parent's
status.

| action | code |
|---|---|
| `Refined`, `DraftFails`, `Assessed`, `Revise` | `refine_idea`, `run_phase1_in_background`, `analyze_and_confirm`, `/ideate/revise` |
| `Approve`, `StartChain`, `Choose`, `ResumeStranded` | `start_advance_chain`, `_run_chain`, `resume_stranded` |
| `Advance`, `TabClosed` | `/jobs/{id}/advance` and the stream that is dropped |
| `Confirm`, `Researched`, `ResearchFails` | `research_and_compile`: claim, late write, failure |
| `LockToPlan`, `Planned`, `PlanFails` | `generate_dag`: lock and second look, commit, failure |
| `Admit`, `RunEnds`, `Run` | `execute_all_nodes` from outside; the operator's run |
| `Enter`, `Drafted`, `Count`, `Close`, `RollupLost` | `run_component_pipeline`, `_rollup_umbrella` as a count and a write |
| `TakeUp`, `WalkEnds`, `Abandon` | an assist walk |
| `Cancel`, `CancelUmbrella`, `GrowQuiet`, `Reap`, `Crash` | the operator, time, the reaper, the process |

* `quiet` is one flag: `updated_at` is past the threshold of the job's status
  (3 minutes for the resume of planning, 45, 60 and 180 minutes for the phases,
  72 hours for an approval). A task that works writes within its threshold.
* `WalkEnds` starts at the walk's first write to the job. `POST /ideate/confirm` alone is
  `Advance` cut by `TabClosed`. A draft that fails after another was started loses its
  claim, which is the early return of the code.
* Left out: clarifying questions inside a draft, the chain's assist mode, edits of the
  brief that are not revisions, publication, and the plan that `generate_dag` makes anew when nobody has started the
  existing one and its inputs have changed (`dag_generator.py:1871-1878`, under the same row lock).

### Assist: state and actions

`session`, `cursor` and `step` are `assist_sessions.status`, `current_node_key` and
`assist_steps.status`; `job` and `st` are the plan's; `req` is a request between its read
and its write; `hand` is the stream of a hand-off and where it is; `run` and `drawn` say
that a run of `execute_all_nodes` is going and which nodes it works on.

| action | code |
|---|---|
| `Start`, `Reopen` | `start_assist_session`: seeding, revival, a walk left unfinished; a finished job done again |
| `Represent`, `NextLooks`, `NextClaims` | `get_next_step`: the step in flight again, or look and claim |
| `Submit`, `Advance` | the two transactions of `submit_step`, the second with `_maybe_finalize_session` |
| `GotoReads`/`GotoWrites`, `BackReads`, `DenyReads`, `Reopens` | `goto_step`, `step_back`, `reopen_denied_step`, `_reopen_step_mirrored` |
| `Pause`, `Resume`, `Abandon`, `CancelJob` | the four writes; `Abandon` is also the idle reaper's |
| `HandOver`, `Switch`, `Launch`, `ClaimOne`, `Enter`, `Work`, `Tail1`, `Cut`, `Restore`, `Settle` | `handoff_step` in both modes, and `start_all_remaining`; `Cut` is the client leaving, after which the shielded tail still runs, unless it leaves before the first frame, outside the `try`, where the restore is lost |
| `RunAll`, `RunClaims`, `RunEndsStep`, `RunEnds`, `Reap` | the executor and the reaper, as `DagJob` allows |

* One hand-off stream at a time; runs that overlap count as one (`Execution` with two
  calls is about those). Starting, submitting and finishing are one step each: the
  compilation inside the finishing transaction is not split from it, and a revival's
  commits, one per step, are taken together.
* `DenyReads` admits every committed step; the code looks at the last one, for half an
  hour.
* `StepFsm` has the triggers of `TRANSITIONS` one by one, and of `MIRROR` what a write to either row must leave in
  both. Where the code departs from the tables it says so, and the exception is written out: a step the session points
  at may be committed from `pending` ("the pointer IS the claim"), a reopened step may be presented in the same
  transaction, a skip leaves a `done` node `done` (`mirror_divergence`).
* The plan page's `skip_node` and `reset_node` beside a walk are left out. They write the node only, so a skip would leave a
  skipped node under an open step, and a reset a committed step over an open node.
* Left out: evidence that commits another step than the one shown, replanning and steps
  it adds, restore of a reopened step, guidance, verification, notes, the tracker. The
  roll-up of an umbrella after a walk is in `Workflow`.

### Supervised: state and actions

`asked` and `kind` are the parked frame; `fresh` and `half` are the entries of
`metadata.decisions` that matter (one younger than its step's `updated_at`, one marked
`engine_half_done`); `started` is `dag_nodes.started_at` as the reaper sees it; `run`,
`target`, `works`, `held` are a run of `execute_all_nodes`: where its loop is, the step it
drafts for, what its bodies hold, what they handed back; `block[r]` is a `POST /decide`
whose block is at work, with the decisions it read at its start; `due` is a restart
of the run that was asked for.

| action | code |
|---|---|
| `Restart`, `Press` | `run_broker.start` and the admission; the operator's Run |
| `Claim`, `HandBack`, `Work` | the refill; `_hand_back_for_approval`, `_hand_back_for_operator`; any other body |
| `Drained`, `Look`, `LookFails` | nothing in flight; `pending_hands_on` and `pending_operator_step`; the look-up that raises and is taken for "nothing to ask" |
| `AlreadyMet`, `EmptyVerify`, `Recheck`, `Park` | while the block is drafted: the step's checks hold already, or it has nothing to mend, and it is recorded done or skipped; a check step with nothing to run fails; the dependencies are read again; `park_awaiting_decision` |
| `Final`, `Cut`, `Stop` | the terminal path with the cleanup; a run cut off; a job that is no longer the run's |
| `Approve`, `Finish`, `Interrupt` | the two transactions of `resolve_decision` around `resolve_run`'s block, and `settle_interrupted` |
| `AnswerOneself`, `Redraft`, `Reask` | the answers that run nothing, `decision_pause.reask` |
| `CancelJob`, `Reset`, `Age`, `Reap`, `Crash` | the operator, `reset_node` (the operator's, and the run's own when the machine contradicts a step recorded done), time, the reaper, a crash with the start-up sweep and relaunch |

* A trigger sets `dag_nodes.updated_at` on every UPDATE (`db/init.sql:229`), so any write to a
  step spends its entry; `Written` takes the step out of `fresh` and out of the copy each
  request holds. The entry of an approval is stamped before the claim it authorises
  (`decision_pause.py:353`), so it is spent when it is stored.
* `Approve` is the first transaction up to the commit that releases the job's row;
  `Finish` is what the request writes after the block, from the rows it read before it.
  What the block did, and what its checks say, is the choice of `Ends`.
* The channel is taken as registered, with a runner that answers. Blocks a step names as
  done on the same trip, `mark_satisfied`, `split_step` and cascading resets are left out, and so are steps
  that are wholly the operator's and decisions (the latter are in `Execution`).
* A look-up that is made again gives up at depth six: here it may give up at any time (`LooksAgain`). A
  step that is reset under a body and claimed again by the same run has one entry in `works`.
* `Reset` takes a step of any status, also under its own block, and is not seen by the request that runs it. `torn`
  is history: the block was under way when its step was reset, or was started beside such a one.
* `kept_start` lets the reaper take a step whose block carries an earlier attempt's
  `started_at`. It is kept out of `Approvals` and assumed away by the theorems, since with it
  two blocks do meet (`DoubleWrite`); a block itself ends within the threshold.

## 3. Runs

| run | instance | checks | states |
|---|---|---|---|
| `OneRun` | one run, steps 1 and 2 then 3, one event of twelve kinds, step 1 reopenable | `ExecutionInv` (types, order, a completed job is whole, the memories of section 4), `BlockedIsQuiet`, `NothingLeftRunning`, `CompletedIsCompiled`, `RetryBound`; `RunEnds` | 188,381 |
| `TwoCalls` | two calls, the same plan with step 1 a decision and step 2 reopenable, two events of ten kinds | `OneWorker`, `FreshWriter`, refinement `DagSpec` | 2,598,779 |
| `Restarts` | two calls, a step and a decision after it, the step reopenable; two mishaps and one event of five kinds, no retries | `RestartInv`, `CrashLoopCut`, `ParkedIsAnswerable`, `CutOnlyWhenStuck`, `NeverUnasked`, refinement `DagSpec`; `StepEnds`, `JobEnds` | 310,802 |
| `Broker` | two runs of three frames, queues of two, two streams, one cancel | `BrokerInv` (types, bounded queues, one uncancelled run), `Consecutive`, `EndsWithTheRun`; `StreamsEnd` | 165,695 |
| `Research` | two sessions, two readers, a scheduled run, two iterations, one upset | `ResearchInv` (types, one pipeline on each session), `OneAtWork`, `FreshSnapshot`; `SessionEnds`, `FiredEnds` | 562,185 |
| `Gate` | one job, one revision, two chains, a client, two events | `WorkflowInv`, `OneAtATime`, `NotResurrected`; `NoneStranded` | 199,134 |
| `Components` | an umbrella of two, two slots, a client, two events | refinement `ImplementsRollup`; `SweptUp` | 900,274 |
| `Walk` | three steps, one request open at a time, four events | `AssistInv`, refinement `ImplementsFsm`, `CompletesWhole` | 1,347,905 |
| `Approvals` | four steps, two of them hands-on, one of these after two of the model's of which one is reopenable; two requests, any number of outside events | `SupervisedInv`, `NotStranded`, `NeverPassedOver`, `NotFaked`, refinement `DagSpec` | 2,297,725 |
| `LostFailure`, `SlowReader`, `DoubleWrite` | the smallest instance that shows it | one statement of the code's own comments, refuted (section 5) | |

What the passing runs show, in the terms of the code:

* `OneRun`: whatever one thing happens, and wherever (dropped stream, database
  exception, exhausted account, operator's retry, slow body, unreachable hands-on
  machine, worker exception, cancel, a reset, a skip, a shortcut), the run ends. Unless it was cancelled or
  hit the account's limit it leaves no step `running`; what it had in work when it left is given back before its cleanup
  in every case but an interrupted release. A job is not blocked over working bodies but for those of the run at the
  account's limit, between the commit of `blocked` and its `finally`. A completed job is whole, and has its text unless
  its runs were cut off, a body was lost, or its last step was settled by something that does not look whether the plan is
  finished; the property names these exceptions, and section 5 says what becomes of such a job.
* `TwoCalls`: the guarded claim gives a step to one body even with two runs, or a
  run and `POST /execute`, on the job; a body whose step was taken back cannot
  write its result over the new claim's, as long as no stale tests were found beside another call; every step
  of the executor is a legal move of `DagJob`: a settled step goes back to `pending` only if it is reopenable, and
  nothing else undoes one.
* `Restarts`: the process may die anywhere, a start-up step may raise, and still no step
  and no job stays `running` for ever; a job is relaunched by start-ups at most
  `execution_max_resume_attempts` times between two settled steps, and failed by one
  only then or when it was not claimed (until a step was put back, after which the stored marker no longer tells); the
  engine starts no decision unasked until a look-up has failed; and a parked job asks about a step that can be
  answered, whose dependencies are settled but for reopened ones.
* `Broker`: at most one uncancelled run, no gap or repetition where the replay
  meets the live tail, no subscriber holds a run back, and a reader's stream ends,
  also when the run was cancelled before its first step.
* `Research`: however replies, a scheduled run, timeouts, the reaper and a crash
  interleave, one pipeline is at work (unless a session was ended under a silent one),
  one on each session, from the newest snapshot, and every session and scheduled run
  ends.
* `Gate`: two chains, a stream and the resume loop may all carry one job; one
  researches and one plans it, no late write revives a failed or cancelled job, and no
  phase that only the engine can end is left for ever.
* `Components`: the umbrella's outcome is drawn from a moment at which no child was
  busy, the Python roll-up and the SQL sweep agree, and it ends once its children have.
* `Walk`: the operator's requests, hand-offs, runs, pauses, a cancel and the reaper
  leave one step in flight under the cursor, what is recorded on a step is recorded on
  its node and as what it was, everything left to do has a step, `/next` finds one unless the engine was
  given something earlier, the declared machine and its mirror are kept but for the exceptions that the code names
  itself (section 2), and nobody completes a job whose plan is not settled.
* `Approvals`: two requests, a run, resets of any step, reasks, cancels, interruptions, look-ups that fail and
  crashes interleave at will. A step has one block at work, and a second one only after a reset under the first; an
  interrupted block leaves no step `running` under a parked frame; no run takes a recorded answer for the approval of a later
  attempt; a run that looks for a question has every ready hands-on step on its list, those apart that wait for
  a reopenable one; and what they all write is legal in `DagJob`.

**Bounds.** Two calls are enough for each pair of writers to meet; a third one can
only repeat what one of them does, since a call knows of the others only through
the rows. Three steps with a join give two bodies at once and a step that becomes
ready in the middle; `Cap = 2` is the configured `parallel_execution_max_inflight`,
and is filled. `RetryCap` 1 or 2 and `MaxRetries` 1 (20 and 3 in the settings) are
both reached in `OneRun` and `TwoCalls`; `Restarts` has no retries (`RetryCap` and `MaxRetries` 0), which are the
other runs' matter. One reopenable step in the instances with a fixed dependency on it is enough for a fact read before an
await to be false after it. `MaxEvents` is the number of outside events in a behaviour: one where
liveness is checked on the executor, two where only safety is, which lets a cancel be
followed by a resume and a skip by a cancel. Answering a question is not counted. In
`Restarts`, `MaxResume` 1 (3 in the settings) with two mishaps lets a second crash meet a
used-up count. In the broker `MaxFrames` 2 (2000 in the code) is below `Length` 3, so the
backlog is trimmed and queues do fill; two runs suffice for a cancelled run to unwind
beside its successor. Two research sessions and three pipelines let a slot be taken
over and a reply come twice; two iterations let one be saved and one not. One revision
gives two drafts and two briefs. Four events of `Walk` let a hand-off be followed by
Back, a pause and a run; `/next` and `/submit` are free. `Approvals` has no bound on events, as
its state is finite: a hands-on step that waits for nothing and one that waits for two of the model's let a block of one
work beside the question of the other, beside a body, and beside the reset of a dependency under a draft.

`slow_reap` and `reset` are kept out of `TwoCalls`: a body slower than the reaper's threshold is
by design replaced by another one, a step reset in work is claimed anew beside its body, and `OneWorker` is about everything else.
`CHECK_DEADLOCK FALSE` everywhere but in `Approvals`: a run, a stream, a session and a job
legitimately stop (in `Approvals` the operator can always press Run). **Symmetry** of the calls is
used in `TwoCalls`, of the requests in `Approvals` and `DoubleWrite`, which check no liveness.

**Fairness.** `Execution`: weak fairness of what a call does once it was made and of
its bodies (one event loop, no step of it waits on another task without a timeout;
a body ends within `node_timeout`), of the write of a retry already read, and of
the reaper for a step without a worker (it is scheduled periodically). `Restart`: a
start-up goes through, a spawned drain is scheduled, and the same. `RunBroker`: weak
fairness of the pump and of a cancel's return (`CANCEL_WAIT_S`, 10 s), and of reading
only for the clients in `Readers`. `Research`: the clock, the reaper and the start-up go on,
the scheduler's timer fires and what follows a stop is a finite run of short writes;
a pipeline may hang in a call for ever. `Workflow`: model calls return, tasks run, time
passes, the cleanup loop and the resume loop turn. Nowhere is an operator's action
fair: nobody must answer, approve, resume or retry. `Assist` and `Supervised` state no liveness: what
ends a walk or a parked question is the operator's to do.

## 4. Proofs

`tlapm` proves, for every value of the constants:

| theorem | statement |
|---|---|
| `DagSafety` | `DagSpec => []DagInv`: types, dependency order, a completed job is whole |
| `ExecutionKeepsWork`, `RestartsKeepWork` | `Spec => PutBackOnly`, `RestartSpec => PutBackOnly`: a settled step keeps its status, or it is reopenable and goes to `pending` with a reset or stale tests on record |
| `SupervisedKeepsWork` | without `kept_start`: `SupSpec => ResetsOnly`, a settled step changes by a reset of it only |
| `ExecutionSafety` | `Spec => []ExecutionInv` |
| `TypeCorrect`, `OrderKept`, `WholeWhenCompleted` | its three named parts |
| `ImplementsDag` | `Spec => DagSpec`: the executor, its stale tests and resets included, implements the abstract plan |
| `ClaimsAreOwned`, `StepsHaveOneWorker`, `WritersHoldTheClaim` | under `Undisturbed`, calls overlapping at will: `[]ClaimInv`; `SoleWorker` and `WritesItsClaim` always, hence `[]OneWorker`, `FreshWriter` |
| `AloneOneWorker`, `AloneWritersHoldTheClaim` | under `NotTaken`, one call at a time: the same two, also with stale tests |
| `AloneNeverUnasked` | under `QuestionsHold`, one call at a time: `NeverUnasked` |
| `AloneGivesBack` | any events, one call at a time: `[]GivenBack(c)` for every call |
| `AloneLeavesNothing` | under `Unharmed`, one call at a time: `[]NothingLeftRunning` |
| `AloneCompletedIsCompiled` | under `Compiles`, one call at a time, and without `quota` or under `Undisturbed`: `[]CompletedIsCompiled` |
| `AloneLiveRunNotBlocked` | any events, one call at a time: `LiveRunNotBlocked` |
| `OneCallIsSafe` | for a job given a single call, all that is proved of calls one at a time, outright |
| `RetriesAreBounded` | for finitely many calls, any events and any overlap: `[]RetryBound` |
| `AloneIsQuiet`, `BlockedMeansQuiet`, `ParkedMeansAnswerable` | any events, one call at a time: `[](ShapeInv /\ QuietInv)`, `[]BlockedIsQuiet`, `[]ParkedIsAnswerable` |
| `RestartSafety` | `RestartSpec => []RestartInv` |
| `LoopIsCut`, `OnlyTheStuckAreCut` | `[]CrashLoopCut`; `CutOnlyWhenStuck` |
| `RestartsImplementDag` | `RestartSpec => DagSpec`: crashes and start-ups are invisible to the plan |
| `RestartsKeepClaims`, `RestartsHaveOneWorker`, `RestartsWriteByTheClaim` | under `Undisturbed`, any overlap, any number of crashes: the same as without restarts |
| `RestartsBoundRetries` | for finitely many calls: `[]RetryBound`, the bound does not grow with the restarts |
| `RestartsBlockedMeansQuiet`, `RestartsParkedMeansAnswerable` | one call at a time: `[]BlockedIsQuiet`, `[]ParkedIsAnswerable` |
| `RestartsAloneOneWorker`, `RestartsNeverUnasked` | one call at a time, under `NotTaken`: `[]OneWorker`; under `QuestionsHold`: `NeverUnasked` |
| `RestartsGiveBack` | one call at a time: `[]GivenBack(c)` |
| `RestartsLeaveNothing` | under `Unharmed`, one call at a time, no start-up sweep that raises: `[]NothingLeftRunning` |
| `RegistrySafety` | `Spec => []BrokerInv` |
| `NeverTwoRuns`, `QueuesBounded` | `OneRun`; the types with `Len(queue) <= MAX_FRAMES` |
| `StreamSafety` | `Spec => []StreamInv` |
| `StreamsAreConsecutive`, `StreamsEndWithTheRun` | `[]Consecutive`, `[]EndsWithTheRun` |
| `SlotSafety` | `ResearchSpec => []SlotInv` |
| `SessionsHaveOneWorker`, `OneWorksAtATime`, `SnapshotsAreFresh` | `[]ResearchInv`, `[]OneAtWork`, `[]FreshSnapshot` |
| `WorkflowInvariant` | `WorkflowSpec => []WorkflowInv` |
| `OneCarrier` | `OneAtATime`: one researches and one plans a job |
| `NoLateWrite` | `NotResurrected` |
| `KeepsPromise`, `OutcomeStands` | `WorkflowSpec => ImplementsRollup`; `OutcomeIsFinal`: an umbrella's final outcome is never overwritten |
| `WalkSafety`, `ImplementsStepFsm` | with one request open at a time: `Spec => []AssistInv`; `Spec => ImplementsFsm` |
| `WalkKept`, `OnlyWhole` | with any number: recorded steps have settled nodes, what is left to do has a step, `/next` is never at a loss; `CompletesWhole` |
| `SupervisedSafety`, `OneBlockEver`, `NeverStranded` | without `kept_start`: `SupSpec => []SupervisedInv`, `[]OneBlock`, `[]NotStranded` |
| `NeverFaked`, `EveryStepAsked`, `SupervisedImplementsDag` | without `kept_start`: `NotFaked`, `NeverPassedOver`, `SupSpec => DagSpec` |

Assumptions: `PlanAssumption` (a dependency has a smaller number: steps are numbered along
an acyclic plan, which generation gives but for the slip noted in section 5),
`ExecutionAssumption`, `RestartAssumption`, `BrokerAssumption`, `ResearchAssumption`,
`WorkflowAssumption`, `AssistAssumption`, `SupervisedAssumption` (kinds and signs of the bounds, the carriers' names apart). TLC
evaluates them in the runs. The theorems about `Supervised` have one more premise,
`~On("kept_start")`: the reaper takes no step from under its block. `Approvals` is an instance of it,
`DoubleWrite` shows that it is needed.

Some theorems on the executor have a premise on the *events*, some one on the
*calls*.

| premise | leaves out | and |
|---|---|---|
| `Undisturbed` | `slow_reap`, `retry`, `skip`, `worker_error`, `reset`, `stale_tests` | `Reopenable = {}` |
| `NotTaken` | `slow_reap`, `reset` | |
| `QuestionsHold` | `skip`, `cancel`, `reset`, `stale_tests` | |
| `Unharmed` | `cancel`, `budget`, `stale_reap`, `worker_error`, `reset`, `stale_tests` | `Reopenable = {}` |
| `Compiles` | `cancel`, `budget`, `stale_reap`, `reset`, `stale_tests` | `Decisions = {}`, `Reopenable = {}` |

`Reopenable = {}` says in the constants what the absence of the two events says of the behaviours. With two
calls and a retry, a skip, a worker's exception, a reset or stale tests a call gives back what it no longer owns, and TLC finds two
bodies on a step (section 5); `slow_reap` replaces a body by design. `NoOverlap` says that
at any time at most one call of `execute_all_nodes` or `POST /execute` is between its beginning and the end of
its cleanup; the broker gives that to the runs it starts, not to the other entry points.
Under it every event but the two of `NotTaken` is allowed for `OneWorker`, and every event for `BlockedIsQuiet`,
`ParkedIsAnswerable` and `GivenBack`; the first two TLC refutes when calls overlap. `NeverUnasked` then needs that nothing changes what
is ready between a body's question and its claim (a skip, a reset, stale tests) and that the parking is not refused (a
cancel); a look-up that fails is an exception in the property itself. `Unharmed` leaves out what takes the job from a run, so that its cleanup
refuses to write, or a body from its step; a cancel and the account's limit are exceptions in the property as well.
`Compiles` leaves out what settles the last step by an answer, takes the job from the body that looks, or reopens a step behind it;
`skip`, `shortcut` and `worker_error` are exceptions in the property. `quota` beside an
operator's retry or a slow body's reaping drops the body that was to compile, which is why it needs `Undisturbed`.

**The argument for the executor.** Dependency order is not inductive alone: a step
answered by the operator, or parked by a run, was found ready some time ago. Three
kinds of memory carry the fact over the gap: a call that frames a question or
retries a step (`CallRemembers`), a body that frames one or works (`BodyRemembers`),
the row that holds the parked question and the pending operator's retry
(`StoredRemembers`). They survive because a settled step stays settled unless it is reopenable, which is a
fact of `DagJob`; what is remembered is therefore `DepsHeld` and `AllHeld`, which leave the reopenable steps
out and are `DepsMet` and `AllDone` when there are none. So the proof goes in
three layers: every action is a move of `DagJob` (`NextRefines`, from the memories);
every action keeps the types (`NextTypes`); every action keeps the memories
(`NextKeeps`, using the first layer). `ExecutionInv` is the conjunction, and
`why = "finished" => AllHeld` is the memory that justifies the completion written by
the detached cleanup, which counts the open steps in a read of its own.

**The argument for one worker.** A claim number is what links a running step to its one body. `ClaimInv`
says that a call *owns* a step while a body of it holds the claim, while a failure that the body reported is still in
`results` or being retried, or while the step waits to be released; a step has one owner, which owns it
in one way, and a pending step has none. The claim of a step needs `pending`, so it
cannot make a second owner. What puts a step back to pending (a retry's reset, the release, the orphan rule
of the reaper) is done by its owner, which then owns it no more, or to a step nobody
owns; the cleanup of another call may fail the step but not make it pending (`StepStands`). The premise keeps
out exactly the writers that put back a step they do not own. When calls do not overlap, `HeldInv` does
the same work with less: a body's step carries its current claim or is no longer running, and a writer from
outside leaves nobody to claim it but the one call.

**The argument for what the status says.** `ShapeInv` says in which phase of a call there
can be which bodies (none in the gate, at a settlement or after the loop; one for the terminal call), and
`QuietInv` what follows for the job: whoever writes `blocked` or `awaiting_decision` has no other body at work, or is
in phase `quota`, where the frame about the account's limit is yielded and the bodies go on until `finally` cancels them;
no body is started while the job has either status. A status guard is read and used in one step, so the job can leave
these statuses only by the operator's own write.

**The argument for asking first.** A call of `POST /execute` looks whether the first ready step is the
operator's in one transaction and claims the first ready step in another. `AskedInv` says that a body that goes
to claim will find a step of the engine first (`NextIsOurs`), that a framed question will be accepted, and that
a decision nobody delegated was never in work. What reaches `pending` in between comes back from `running` or
`failed`, so it is not such a decision, and the first of a set that only grew by steps of the engine is the old
first or one of them (`NextStaysOurs`).

**The argument for what a run leaves.** `LeftInv` says that every running step is looked after: a body has it, or
the run that left holds it for release, or the cleanup is still to come and the job is `running`, so that the
cleanup's guarded write will be accepted, until the account's limit is hit. The last part is the delicate one, as an interrupted release gives
nothing back, and a cancellation may interrupt the release of a run that was leaving on its own: `Drives` says that the job is `running`, or completed, as long as a run drives it and from a
disconnection until the release. A body that is refused because the job is not executable has then no step. At the account's limit it may
have one: the job is `blocked` while bodies still enter. `GivenBack` needs none of this: release comes before cleanup.

**The argument for the deliverable.** `CompiledInv` follows a finished plan to its text: either some run was cut off
by a disconnection or an exception, or the job is completed and stored its text or has a body at `compile`, or the job is
not completed and has a body at `tail`, on its way to look (`Delivers`). Whoever writes the last outcome is that body.
What could break it is a body dropped on its way, so `Uncut` says of every call that nothing stops it
early with the reason "clean": its results hold no budget stop, no body at work finds the job failed or cancelled,
and a body that goes to write a partial text does so over an unfinished plan. A quota stop does drop bodies, but the failure that it drained still stands
in the plan then (`QuotaStands`, from `ClaimInv`), so the plan is not finished. A new call finds nobody on the way,
hence a finished plan that is completed, and is refused.

**The argument for the retries.** A count read below `max_retries` is used later. `RetryInv` therefore
counts a reset from the moment it is decided: the count plus the calls in `reset` for the step plus the operator's pending
one is at most `MaxRetries + |Calls|`. A reset turns a pending one into a made one; a read adds at most
one, when the count is still below the limit, and at most one per call is pending.

**The argument for restarts.** A crash keeps every row and forgets every call, so what remains of
`ExecutionInv` is what the rows alone remember (`RowsKeepInv`, `CrashKeepsInv`); the start-up writes rows only while no call is
under way (`BootIsQuiet`). That the cap counts the right thing is `StreakKept`: the stored marker never passes
the number of settled steps, and while they are equal the stored attempts are the true streak. The number can only
grow until a step is put back, so a streak once broken is
never taken for an unbroken one. Once a reset or stale tests have put a step back (`Reopened`) the marker may pass the
number: work that is done again hides from it, and a job that makes progress may be cut. `CrashLoopCut` does not depend on it,
`CutOnlyWhenStuck` has it as its exception.

**The argument across restarts.** What is proved of the executor's calls is carried over to the process that dies
by one observation: a step of `Restart` that is not a step of `Execution` is *afresh* (`RestartKinds`). It leaves all calls
at rest with nothing in flight, and of the rows it moves running steps only, to `pending` or `failed`. So a claim
that had an owner has lost it with the call (`AfreshOwns`), a retry that was read and not made is forgotten and the made ones stay counted
(`AfreshRetries`), and a parked question and a blocked job are left as they were (`AfreshIsQuiet`). Nothing of this
needs to know which sweep ran or whether it failed, except `NothingLeftRunning`: a start-up sweep that raises leaves
the dead run's step running; the next run then finds a decision beside it and parks the job, no call is under way, and the step waits for the
reaper. TLC finds this under `RestartSpec`, and `RestartsLeaveNothing` therefore assumes `[][~SweepRaises]_restartVars`.

**The argument for the broker.** `OneRun` needs that the registry's run is the last
one made, that runs not yet made have no task, and that a cancel that returns
after its timeout marks as over only a task it has already cancelled:
`CancelReturns` sets `done` while the task may still be unwinding, and the next
`Press` makes a run beside it. What is proved is therefore that two runs that
nobody has cancelled are never side by side.

**The argument for the streams.** `Joined(s, c, k)` describes a stream by two numbers: it has
still to replay the frames from `c + 1`, its queue goes on where the replay will stop, with `k` frames and then only
sentinels, and while the run puts frames into the queue the last of them is the last published. Subscribing
makes it true because the copy of `run.frames` and the registration of the queue are one step (nothing is awaited
between them); every put, replay and get moves `c` or `k` by one. A full queue loses its subscription and keeps
what it has, so it holds something, and the stream cannot end at the bottom of its
backlog (`FullHolds`). A sentinel is queued only for a run that is over, which no longer publishes (`OneRun`), so a stream that
reads one has read everything.

**The argument for research.** One row is `running` at a time, by the partial unique index. `SlotInv` ties a
pipeline to it: whoever works has a session that is running, or that was ended under it (`HasSlot`); a session that waits for a
reply is nobody's (`PausedIsQuiet`), so the reply that claims it is alone; and two pipelines at work are at work on two
sessions. A reply that was loaded and not yet claimed holds the row's snapshot as long as the session
waits, and from the moment another reply claims it no pipeline can pause it again (`HasSnapshot`): the loaded one is
refused by the guard, never let through with an old snapshot.

**The argument for the workflow.** Nobody locks a job while a draft is written, so that
one carrier researches it rests on the gate. `GateHeld` says why it is enough: a draft
that can still open the gate is the only one of its job, and while it is, nobody is past
the gate; a confirmation closes the gate in the transaction that claims the job, and a
revision reopens drafting only from the gate. `PlannerHolds` says that whoever is inside
`generate_dag` has the job at a status no guarded write finds ended, because the row lock
keeps the others out until it commits; with `planned` read again under the lock this gives
one planner. Both are inductive together with the types and `OwnJob`. Most actions
touch neither: they are shown calm (nobody enters or leaves a critical place), and only
the rest are split. `KeepsPromise` needs one more memory, `NoteKept`: a verdict is noted
exactly while it is being written, so the write gives what the count drew; every
other step maps to a move of the parts or to a stutter.

**The argument for the walk.** `Kept` holds with any number of open requests: every committed,
skipped or handed-off step lies over a settled node, and every node that is not settled has a step
while a session is on. From it, `NeverAtALoss` follows for the least unsettled node: what it
depends on is settled, so its step is eligible unless it was given to the engine. One step in
flight needs `OneRequest` (nobody has two requests open): `Held` then says that what a request
has read still holds when it writes (nothing in flight for `/next` and the tail of a commit, the
node open for a goto, settled for Back and a denial), because everybody else only ends a session,
settles a node or takes a node of no step in flight (`Beside`). The declared machine and its mirror follow from the same and from
`OutcomesAgree`, that a committed step lies over a `done` node and a skipped node under a skipped step.

**The argument for approvals.** Three facts carry it. *Decisions are only spent except by
answering*: `Claim`, `HandBack`, `Finish` and the rest only take steps out of `fresh` and of the
requests' copies (`OnlySpends`, `SpendingKeeps`); the one action that adds to `fresh` is an answer,
and an answer needs a parked frame, hence no run. *A step put back has no block*: `BlockInv` says
that a block's step is not `pending` and no body is on it, which every writer but a reset keeps because it
writes `pending` only over a step it owns (this is where the reaper must respect a block); a reset tears the blocks on its step,
and a block that starts beside a torn one counts as torn. *A run
past its loop has only spent entries*: whatever was ready and answered was claimed, so an entry
that survived belongs to a step that is settled, that the bodies handed back (`DrainedStale`), or that waits for a
reopenable one and was not ready when the run drained. From the
first and third no body takes an answer for an approval (`NeverFaked`) and nothing ready is off the list
(`EveryStepAsked`); from the second there is one block. Dependency order needs `AskedInv`: what is asked
about, or was answered, had its dependencies, and only a reset undoes a settled step (`UndoneByReset`).

**Only model-checked**: all liveness (`RunEnds`, `StepEnds`, `JobEnds`, `StreamsEnd`, `SessionEnds`, `FiredEnds`,
`NoneStranded`, `SweptUp`), which the provers cannot do under fairness. Every invariant and every action property of a passing run
is the property of a theorem. Some theorems are narrower than a run in one respect. `OneRun` has a reset and a reopenable step
beside `NothingLeftRunning` and `CompletedIsCompiled`, and one `cancel` or `quota` beside the latter, which needs the bound of one event; the
theorems have no such bound and leave them out. `TwoCalls` has a `skip` and `stale_tests` beside two overlapping calls, and
`Restarts` a reset and stale tests, and two calls that may overlap with a decision in the plan: within their bounds TLC finds no harm to
`OneWorker` and `FreshWriter`, and to `ParkedIsAnswerable` and `NeverUnasked`, but there is some beyond them (above, and section 5), so the
theorems leave out the one and want calls one at a time for the other. The other way round, the runs have no event for one branch of
`RecheckAlone`, a dependency put back under a body that frames a question, which the theorems cover.

## 5. Where a comment and the code part

Refuted by a run:

| run | what happens |
|---|---|
| `LostFailure` | Two bodies end before the loop takes one result. `_reap` forgets both tasks, so with one result read and one still queued `inflight` is empty; nothing is claimable, and the loop goes to its terminal call with a retryable failure unread. The comment says a failed step is retried. |
| `SlowReader` | A queue that is full when a frame is put loses its subscription, and one that is full at the end does not take the sentinel; neither is told. A client that goes on reading waits in `queue.get()` for ever. The comments say subscribers are released. |
| `DoubleWrite` | The claim of an approved block keeps an earlier `started_at`; the start-up sweep and the reaper put a step back to `pending` without clearing it. After a restart during a block, the step's next approval starts out as old as the first one was: the reaper takes the step while its block works, the frame still offers "run", and a further approval runs the block beside it. `settle_interrupted`'s docstring says that a second "run" cannot double-write. |

Met while modelling, with the property in its module (violated when TLC is given it),
but in no run:

* `ApprovedBriefUsed` (`Workflow`): the gate opens with the new brief before the new
  assessment is stored; an approval in between works from the stash of the brief that
  was sent back, and writes it over the new one.
* `WalkCompletesJob` (`Assist`): a walk may start on a job at `awaiting_decision`, but the write
  that moves the job into the walk (`assist_agent.py:262-273`) does not list that status. The walk goes to its
  end, the session is completed, and the job waits for its decision for ever.
* `CancelStands` (`Workflow`): `research_and_compile` answers "planning" whether or not its
  guarded write was refused, and the component's pipeline stops only on "failed" and
  "conflict" (`decomposition.py:449`): a component cancelled while it is researched is run.
* `CompletedIsCompiled` beyond `OneRun` (`Execution`): the last open step is skipped, or settled by a shortcut,
  or it is a decision the operator answers, or a body settles it under a job that was cancelled and is
  then run again. No body makes the completion test, the run finds every step settled, its detached cleanup completes
  the job and nothing compiles the deliverable.
* `NothingLeftRunning` beyond `OneRun` (`Execution`): a body that enters after the job was failed by the budget or
  reaped as stale, or cancelled, is refused as an `error` and its step stays `running`; the cleanup of the run acts on a
  `running` job only, so the step waits for the reaper. Likewise the step of a worker that was lost, and, with the job
  `blocked` at the account's limit, that of a body that entered before `finally` cancelled it. A reset that reopens a
  step and the job behind the last write, with a disconnection after it, leaves one too.
* The detached cleanup asks whether the job is `running`, not whose run it is (`Execution`, two calls). A run that
  leaves with the job `blocked` (quota, hands-on gate) is over for the operator before its cleanup has written; a run admitted in between
  makes the job `running`, and the late cleanup fails that job and its running steps. The new run goes on claiming under a
  failed job, its bodies are refused, and the step it claimed last stays `running`: `NothingLeftRunning` is refuted by one
  `quota` or one `hands_on` and a second run, so it is proved for calls that do not overlap only.
* `LiveRunNotBlocked` (`Execution`): between a body's write and the loop's next claim no step is
  `running`; a `POST /execute` that finds nothing ready just then blocks the live run's job.
* A look-up that raises is taken for "nothing to ask" (`execution_agent.py:3468-3473`, `1740-1745`), and the next statement claims the
  first ready step, a decision as well: "a silent miss here means the model decides for the operator" is what happens
  then, with an error in the log. In `Supervised` the run goes to its terminal path over a hands-on step it did not ask about.
* `NeverUnasked` with a reset or stale tests (`Execution`): a body of `POST /execute` that looked, or whose look-up put steps
  back, claims the first ready step whatever it is by then.
* A plan whose settled steps are put back while a question is parked (`Execution`, `Supervised`): the re-read of the dependencies is
  made before the parking only, and again for the answers that run something; `Decide` and `AnswerOneself` are accepted over
  a dependency that is open again. `DepsHeld` and `ParkedIsAnswerable` leave such a step out.
* `NeverUnasked` with `POST /execute` (`Execution`): it frames a decision's question, the job is
  cancelled meanwhile, the park is refused, and the same call takes the decision itself.
* `Redriven` (`Restart`): a job claimed for a relaunch whose drain times out or dies waits
  at `executing` with no run, until the operator or the next restart
  (`config.py:1894-1896` says every such job is re-driven).
* `SuccessIsCompleted`, `PauseKept` (`Research`): a scheduled run that paused for a reply is
  reported a success; a reply that read an expired pause cancels the session without a
  guard, also one resumed since.
* `UmbrellaGathered` (`Workflow`): the sweep counts no child at `awaiting_assist`, so an
  umbrella whose roll-up was lost stays `aggregating`.
* `generate_dag` returns failures under the key `errors`, which the chain and `/advance` do not
  read (`dag_generator.py:1968`, `2107`); a component planned by the resume loop after a
  crash stays at `executing`, as its pipeline is gone; a late draft can pull a job that
  was cancelled and resumed back to the gate; the CLI's stream stops at the first
  `convergence` frame (`cli/scaffold_cli/main.py:1594`).
* `OperatorOwnsPresented` (`Assist`): an engine run claims the node of the step the operator
  is shown, or Back is pressed between a hand-off and its claim: `MIRROR` wants a
  presented step beside a pending node, and both work on it.
* `OneWorker` with two calls (`Execution`): a call that leaves its loop gives back every step it had in flight
  that is `running` (`_release_claims`), also one whose body has already failed and that a retry put back
  and the other call claimed again. It is claimed a third time, and two bodies work on it. A run stopped by the
  budget, a new run admitted before the first has released, and an operator's retry are enough; a skip does it too (past a skipped
  step the retry of an earlier one resets a later one), and so does an exception in a worker, where the other
  call's cleanup fails the claimed step while an earlier failure of it is still to be read and retried. Stale tests that one call finds
  reset a step that another has claimed meanwhile (`_reset_keys` has no guard on the status), which is why `OneWorker` ends with them.
* `reset_node` takes a step of any status and looks at no block (`Supervised`): reset while its block works, asked about anew and approved,
  a step has two blocks on the machine, which is the exception of `OneBlock`. A block that was torn that way and ends with the
  operator's half to do puts the step back to `pending` under the second one.
* A redrafted step whose dependency is reopened before the run claims it is off the list once (`Supervised`): its entry is fresh still when the run has drained, and
  the dependency may be settled again by then. This is the exception of `NeverPassedOver`; the next run claims it and spends the entry.
* With two requests open, `OneInFlight`, `OutcomesAgree` and `ImplementsFsm` fail: two `/next` that both saw
  nothing in flight present two steps, and a goto that read its step before a
  commit puts the committed step back in flight over a done node.
* A pause during a single hand-off leaves the job at `executing`; a resume lifts only
  `assisted_paused`, and the walk then ends without completing the job. The hand-off's
  restore writes `assisted_executing` over whatever another run has set.
* `step_back` takes a committed step to `presented`; the declared machine has a reopen
  end at `pending` only (in `StepFsm` an exception of its own).
* `start_all_remaining` never settles its session, which the comment in
  `assist_handoff.py:198` says of both modes.
* A hand-off ignores that its transition was refused: it claims a node of a cancelled
  job, whose body is then refused, and the node is `running` until the reaper.
* A reask, a Run or an answer while a block works starts a run that finds nothing claimable, and
  its cleanup fails the block's `running` step and the job (`Final` of `Supervised`); the block's success
  is then not recorded. `reask` says that no node is touched (`decision_pause.py:514`).
* `Finish` writes back the decisions read before the block, so entries made meanwhile are lost,
  and removes whatever frame is parked, also the question about another step.
* A job cancelled while a block works is admitted again by the restart that follows the answer,
  though a terminal job "never moves again on its own" (`job_state.py:46-48`).
* `wire_decisions_to_implementers` is called cycle-safe and tests one edge at a time against
  the plan as it was read, so two edges together can close a cycle; two concurrent plan edits can do the
  same. `revise_decision` looks for a `node_type` that `_load_nodes` does not select.
* An insertion between a run's completion test and the flip leaves a completed job with a
  `pending` step (`PlanAssumption` and the models take the plan as given); a reset between the count and the write of the detached
  cleanup does so too, and `CompletedIsWhole` leaves out the reopenable steps for it.

## 6. Not modelled, and the plan

The models cover the control of a job; most of the repository is what surrounds it.
Of its lines the largest part judges, parses, renders or talks to the network
(most of `supervised_runs.py` and `assist_guide.py` drafts and reads text, `engine_contracts.py` checks
generated programs, the pipelines, the CLI and the SDK are clients), and what such
code decides reaches a job as one of the verdicts the models choose freely.

What could be modelled next, in order of importance:

1. **Plan editing** under a running executor and inside a walk (steps that a check, a review or a split inserts, replanning,
   restore), and the **pure operators** of DAG generation (cycle removal,
   `execution_order`), on which `PlanAssumption` rests, checked against a reference
   definition over all small graphs.
2. **Serial loop**, as a second implementation of `DagJob`.
3. **Redis mirror** of the broker: order of the stored log, replay after restart.
4. **Inference queue, host pool**: bounded admission with a timeout, cool-down.

Of the safety properties that the runs check none is left without a theorem. What could be proved beyond them is
the property of two calls that overlap under weaker premises than `Undisturbed`: the counterexamples of section 5 say that
it would need the release and the cleanup of a run to name the claims they take back, which the code does not.
