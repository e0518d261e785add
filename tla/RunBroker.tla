------------------------------ MODULE RunBroker ------------------------------
(***************************************************************************)
(* The run broker (app/modules/run_broker.py), for one job: runs detached  *)
(* from the responses that started them, the streams that follow a run,    *)
(* and the cancel that stops one.  Everything between two awaits of the    *)
(* event loop is one step.  A definition named X_Slip is X with a mistake  *)
(* in it and is used by nothing.                                           *)
(***************************************************************************)
EXTENDS Naturals, Sequences

CONSTANTS MaxRuns,    \* bound: the runs started for the job in a behaviour
          Length,     \* bound: the frames one run yields
          MaxFrames,  \* MAX_FRAMES: of the replayed backlog and of every queue
          Streams,    \* the responses that subscribe
          Readers,    \* those whose client reads all it is sent
          Cancels     \* the calls of cancel

ASSUME BrokerAssumption ==
  /\ MaxRuns \in Nat
  /\ Length \in Nat
  /\ MaxFrames \in Nat \ {0}
  /\ Readers \subseteq Streams

Runs == 1..MaxRuns
NoRun == 0
Over == 0              \* the sentinel None; frames are numbered from 1

VARIABLES
  current,   \* _runs[job_id]
  made,      \* how many runs there have been
  task,      \* run.task of each run
  done,      \* run.done
  sent,      \* how many frames the run has published
  subs,      \* run.subscribers
  view,      \* where each stream is
  at,        \* the run it follows
  backlog,   \* frames it has still to replay
  queue,     \* its queue
  last,      \* the last frame it yielded
  missed,    \* history: its queue was full when something was put
  waits      \* the run each cancel waits for

runVars    == <<current, made, task, done, sent>>
streamVars == <<view, at, backlog, last>>
vars       == <<runVars, streamVars, subs, queue, missed, waits>>

TaskStates == { "none", "going", "stopping", "ended" }
Views == { "away", "opened", "backlog", "live", "over", "left" }

Live(r) == r # NoRun /\ ~done[r]

\* run.frames: the last MaxFrames of what was published.
Kept(r) ==
  LET first == IF sent[r] > MaxFrames THEN sent[r] - MaxFrames ELSE 0
  IN  [i \in 1..(sent[r] - first) |-> first + i]

Room(s) == Len(queue[s]) < MaxFrames

\* put_nowait to every subscriber; a full queue refuses.
Puts(r, x) ==
  /\ queue' = [s \in Streams |-> IF s \in subs[r] /\ Room(s) THEN Append(queue[s], x) ELSE queue[s]]
  /\ missed' = [s \in Streams |-> missed[s] \/ (s \in subs[r] /\ ~Room(s))]

\* finish: the sentinel, which a full queue does not take.
Finishes(r) ==
  /\ done' = [done EXCEPT ![r] = TRUE]
  /\ Puts(r, Over)

-----------------------------------------------------------------------------
(* Starting and following a run.                                             *)

\* Whatever is in flight, a new run is made.
Press_Anew(s) ==
  /\ view[s] = "away"
  /\ view' = [view EXCEPT ![s] = "opened"]
  /\ made < MaxRuns
  /\ made' = made + 1
  /\ current' = made'
  /\ task' = [task EXCEPT ![made'] = "going"]
  /\ at' = [at EXCEPT ![s] = made']
  /\ UNCHANGED <<done, sent, backlog, last, subs, queue, missed, waits>>

\* start: attach to the run in flight or make one.  The response follows it.
Press(s) ==
  /\ view[s] = "away"
  /\ view' = [view EXCEPT ![s] = "opened"]
  /\ IF Live(current)
       THEN /\ at' = [at EXCEPT ![s] = current]
            /\ UNCHANGED <<current, made, task>>
       ELSE /\ made < MaxRuns
            /\ made' = made + 1
            /\ current' = made'
            /\ task' = [task EXCEPT ![made'] = "going"]
            /\ at' = [at EXCEPT ![s] = made']
  /\ UNCHANGED <<done, sent, backlog, last, subs, queue, missed, waits>>

\* _evict_stale, run by the start of any job: an ended run past its retention.
Evict ==
  /\ current # NoRun
  /\ done[current]
  /\ current' = NoRun
  /\ UNCHANGED <<made, task, done, sent, streamVars, subs, queue, missed, waits>>

\* The queue is registered, and the backlog copied later.
Subscribe_Apart(s) ==
  /\ view[s] = "opened"
  /\ IF s \notin subs[at[s]]
       THEN subs' = [subs EXCEPT ![at[s]] = @ \cup {s}] /\ UNCHANGED <<view, backlog>>
       ELSE /\ view' = [view EXCEPT ![s] = "backlog"]
            /\ backlog' = [backlog EXCEPT ![s] = Kept(at[s])]
            /\ UNCHANGED subs
  /\ UNCHANGED <<runVars, at, last, queue, missed, waits>>

\* The body of subscribe begins, some time after start returned: the backlog is
\* copied and the queue registered in one step.
Subscribe(s) ==
  /\ view[s] = "opened"
  /\ view' = [view EXCEPT ![s] = "backlog"]
  /\ backlog' = [backlog EXCEPT ![s] = Kept(at[s])]
  /\ subs' = [subs EXCEPT ![at[s]] = @ \cup {s}]
  /\ UNCHANGED <<runVars, at, last, queue, missed, waits>>

Replay(s) ==
  /\ view[s] = "backlog"
  /\ backlog[s] # <<>>
  /\ last' = [last EXCEPT ![s] = Head(backlog[s])]
  /\ backlog' = [backlog EXCEPT ![s] = Tail(@)]
  /\ UNCHANGED <<runVars, view, at, subs, queue, missed, waits>>

Unsubscribes(s, how) ==
  /\ view' = [view EXCEPT ![s] = how]
  /\ subs' = [subs EXCEPT ![at[s]] = @ \ {s}]

\* An ended run is left here whatever is still queued.
GoLive_DropsQueue(s) ==
  /\ view[s] = "backlog"
  /\ backlog[s] = <<>>
  /\ IF done[at[s]]
       THEN Unsubscribes(s, "over")
       ELSE view' = [view EXCEPT ![s] = "live"] /\ UNCHANGED subs
  /\ UNCHANGED <<runVars, at, backlog, last, queue, missed, waits>>

\* The backlog is replayed: return, if the run is over and nothing came since.
GoLive(s) ==
  /\ view[s] = "backlog"
  /\ backlog[s] = <<>>
  /\ IF done[at[s]] /\ queue[s] = <<>>
       THEN Unsubscribes(s, "over")
       ELSE view' = [view EXCEPT ![s] = "live"] /\ UNCHANGED subs
  /\ UNCHANGED <<runVars, at, backlog, last, queue, missed, waits>>

\* queue.get(): a frame is yielded, the sentinel ends the stream.
Get(s) ==
  /\ view[s] = "live"
  /\ queue[s] # <<>>
  /\ queue' = [queue EXCEPT ![s] = Tail(@)]
  /\ IF Head(queue[s]) = Over
       THEN Unsubscribes(s, "over") /\ UNCHANGED last
       ELSE last' = [last EXCEPT ![s] = Head(queue[s])] /\ UNCHANGED <<view, subs>>
  /\ UNCHANGED <<runVars, at, backlog, missed, waits>>

\* The client goes away, and with it the generator and its queue.
Leave(s) ==
  /\ view[s] \in { "opened", "backlog", "live" }
  /\ Unsubscribes(s, "left")
  /\ backlog' = [backlog EXCEPT ![s] = <<>>]
  /\ queue' = [queue EXCEPT ![s] = <<>>]
  /\ last' = [last EXCEPT ![s] = 0]
  /\ missed' = [missed EXCEPT ![s] = FALSE]
  /\ UNCHANGED <<runVars, at, waits>>

-----------------------------------------------------------------------------
(* The run and its cancel.                                                   *)

\* _pump: one more frame.  A subscriber whose queue is full is dropped.
Publish(r) ==
  /\ task[r] = "going"
  /\ sent[r] < Length
  /\ sent' = [sent EXCEPT ![r] = @ + 1]
  /\ Puts(r, sent'[r])
  /\ subs' = [subs EXCEPT ![r] = { s \in @ : Room(s) }]
  /\ UNCHANGED <<current, made, task, done, streamVars, waits>>

\* The generator returned or raised.  (Bound: it does so after Length frames.)
PumpEnds(r) ==
  /\ task[r] = "going"
  /\ task' = [task EXCEPT ![r] = "ended"]
  /\ Finishes(r)
  /\ UNCHANGED <<current, made, sent, streamVars, subs, waits>>

\* The cancellation has unwound the generator, which yields no more.  A task
\* cancelled before its first step never enters _pump, whose finally then does
\* not run.
Unwound(r) ==
  /\ task[r] = "stopping"
  /\ task' = [task EXCEPT ![r] = "ended"]
  /\ \/ Finishes(r)
     \/ sent[r] = 0 /\ UNCHANGED <<done, queue, missed>>
  /\ UNCHANGED <<current, made, sent, streamVars, subs, waits>>

\* cancel, up to its wait.
CancelAsks(k) ==
  /\ waits[k] = NoRun
  /\ Live(current)
  /\ task' = [task EXCEPT ![current] = IF @ = "going" THEN "stopping" ELSE @]
  /\ waits' = [waits EXCEPT ![k] = current]
  /\ UNCHANGED <<current, made, done, sent, streamVars, subs, queue, missed>>

\* The pump's own finish is relied on.
CancelReturns_NoFinish(k) ==
  /\ waits[k] # NoRun
  /\ waits' = [waits EXCEPT ![k] = NoRun]
  /\ UNCHANGED <<runVars, streamVars, subs, queue, missed>>

\* The task has ended, or CANCEL_WAIT_S has passed while it is still unwinding.
CancelReturns(k) ==
  /\ waits[k] # NoRun
  /\ Finishes(waits[k])
  /\ waits' = [waits EXCEPT ![k] = NoRun]
  /\ UNCHANGED <<current, made, task, sent, streamVars, subs>>

-----------------------------------------------------------------------------
Init ==
  /\ current = NoRun
  /\ made = 0
  /\ task = [r \in Runs |-> "none"]
  /\ done = [r \in Runs |-> FALSE]
  /\ sent = [r \in Runs |-> 0]
  /\ subs = [r \in Runs |-> {}]
  /\ view = [s \in Streams |-> "away"]
  /\ at = [s \in Streams |-> NoRun]
  /\ backlog = [s \in Streams |-> <<>>]
  /\ queue = [s \in Streams |-> <<>>]
  /\ last = [s \in Streams |-> 0]
  /\ missed = [s \in Streams |-> FALSE]
  /\ waits = [k \in Cancels |-> NoRun]

Pump(r) == Publish(r) \/ PumpEnds(r) \/ Unwound(r)
Reads(s) == Subscribe(s) \/ Replay(s) \/ GoLive(s) \/ Get(s)

Next ==
  \/ \E r \in Runs : Pump(r)
  \/ \E s \in Streams : Press(s) \/ Reads(s) \/ Leave(s)
  \/ \E k \in Cancels : CancelAsks(k) \/ CancelReturns(k)
  \/ Evict

(* The event loop runs every task that can go on, and a cancel's wait is    *)
(* bounded; only the clients in Readers are trusted to read.                *)
Fairness ==
  /\ \A r \in Runs : WF_vars(Pump(r))
  /\ \A k \in Cancels : WF_vars(CancelReturns(k))
  /\ \A s \in Readers : WF_vars(Reads(s))

Spec == Init /\ [][Next]_vars
FairSpec == Spec /\ Fairness

-----------------------------------------------------------------------------
(* Properties that hold.                                                     *)

RunTypeOK ==
  /\ current \in 0..MaxRuns
  /\ made \in 0..MaxRuns
  /\ task \in [Runs -> TaskStates]
  /\ done \in [Runs -> BOOLEAN]
  /\ sent \in [Runs -> 0..Length]
  /\ subs \in [Runs -> SUBSET Streams]
  /\ waits \in [Cancels -> 0..MaxRuns]

StreamTypeOK ==
  /\ view \in [Streams -> Views]
  /\ at \in [Streams -> 0..MaxRuns]
  /\ backlog \in [Streams -> Seq(1..Length)]
  /\ queue \in [Streams -> Seq(0..Length)]
  /\ \A s \in Streams : Len(queue[s]) <= MaxFrames
  /\ last \in [Streams -> 0..Length]
  /\ missed \in [Streams -> BOOLEAN]

\* The type invariant.  No queue ever holds more than MAX_FRAMES.
TypeOK == RunTypeOK /\ StreamTypeOK

\* At most one run of the job executes that nobody has cancelled ("must attach to
\* one run rather than execute the DAG twice"), and it is the one the registry
\* holds, so that cancel and a second response can still find it.
OneRun ==
  \A r \in Runs : task[r] = "going" => current = r /\ ~done[r]

\* The inductive invariant of the registry: exactly the runs made have a task, only
\* those are ever over, a cancel waits only for a task it has cancelled or that had
\* ended, and a stream that began follows a run.
BrokerInv ==
  /\ TypeOK
  /\ OneRun
  /\ current <= made
  /\ \A r \in Runs : task[r] = "none" <=> r > made
  /\ \A r \in Runs : done[r] => r <= made
  /\ \A k \in Cancels : waits[k] # NoRun => task[waits[k]] \in { "stopping", "ended" }
  /\ \A s \in Streams : view[s] # "away" => at[s] \in Runs

\* What a stream has yielded, has still to replay and has queued are consecutive
\* frames of its run, and no frame is queued behind the sentinel: the replay and the
\* live tail meet without a gap and without a repetition, wherever in the run it
\* attached.
Consecutive ==
  \A s \in Streams : view[s] \in { "backlog", "live" } =>
    LET ahead == backlog[s] \o queue[s]
    IN  \A i \in DOMAIN ahead : ahead[i] # Over =>
          /\ i > 1 => ahead[i - 1] # Over /\ ahead[i] = ahead[i - 1] + 1
          /\ i = 1 /\ last[s] # 0 => ahead[i] = last[s] + 1

\* A stream that ended by itself has yielded the last frame of its run, which is
\* the one that tells the client how the run ended.
EndsWithTheRun ==
  \A s \in Streams : view[s] = "over" => done[at[s]] /\ last[s] = sent[at[s]]

\* The stream of a client that reads ends, if its queue was never found full: other
\* clients that stop reading do not hold the run back, and it ends also when the run
\* was cancelled before its first step.
StreamsEnd ==
  \A s \in Readers :
    view[s] \in { "backlog", "live" } ~> (view[s] \in { "over", "left" } \/ missed[s])

-----------------------------------------------------------------------------
(* What a comment says and a full queue refutes.                             *)

\* Every subscriber is released when its run is over ("sentinel: stream over",
\* "release subscribers even if the task is still unwinding").
StreamsReleased ==
  \A s \in Readers :
    (view[s] \in { "backlog", "live" } /\ done[at[s]]) ~> (view[s] \in { "over", "left" })
=============================================================================
