--------------------------- MODULE RunBrokerProofs ---------------------------
(***************************************************************************)
(* Proofs about RunBroker, for any number of runs, streams and cancels and *)
(* any MAX_FRAMES: the types, with the bound on every queue; that two runs *)
(* of a job never execute side by side; and that the frames of a stream    *)
(* are consecutive and end with the run.                                   *)
(***************************************************************************)
EXTENDS RunBroker, SequenceTheorems, TLAPS

-----------------------------------------------------------------------------
(* The sequences.                                                            *)

\* The n numbers after a, none above top, are a sequence of such numbers.
LEMMA Shifted ==
  ASSUME NEW a \in Nat, NEW n \in Nat, NEW top \in Nat, a + n <= top
  PROVE  [i \in 1..n |-> a + i] \in Seq(1..top)
<1>1. \A i \in 1..n : a + i \in 1..top
  OBVIOUS
<1>2. [i \in 1..n |-> a + i] \in [1..n -> 1..top]
  BY <1>1
<1> QED
  BY <1>2, SeqDef

\* What is kept of a run's frames is a sequence of its frames.
LEMMA KeptType ==
  ASSUME RunTypeOK, NEW r \in Runs
  PROVE  Kept(r) \in Seq(1..Length)
<1>1. sent[r] \in Nat /\ sent[r] <= Length /\ Length \in Nat /\ MaxFrames \in Nat
  BY BrokerAssumption DEF RunTypeOK
<1>2. CASE sent[r] > MaxFrames
  <2>1. PICK m \in Nat : m = sent[r] - MaxFrames
    BY <1>1, <1>2
  <2>2. PICK n \in Nat : n = sent[r] - m /\ m + n <= Length
    BY <1>1, <1>2, <2>1
  <2> QED
    BY <1>1, <1>2, <2>1, <2>2, Shifted DEF Kept
<1>3. CASE ~(sent[r] > MaxFrames)
  <2>1. sent[r] - 0 \in Nat /\ 0 + (sent[r] - 0) <= Length /\ 0 \in Nat
    BY <1>1
  <2> QED
    BY <1>1, <1>3, <2>1, Shifted DEF Kept
<1> QED
  BY <1>2, <1>3

\* Putting a frame or the sentinel keeps the queues typed and within MAX_FRAMES.
LEMMA PutsType ==
  ASSUME StreamTypeOK, NEW r \in Runs, NEW x \in 0..Length, Puts(r, x)
  PROVE  /\ queue' \in [Streams -> Seq(0..Length)]
         /\ \A s \in Streams : Len(queue'[s]) <= MaxFrames
         /\ missed' \in [Streams -> BOOLEAN]
<1> DEFINE put(s) == IF s \in subs[r] /\ Room(s) THEN Append(queue[s], x) ELSE queue[s]
<1>1. ASSUME NEW s \in Streams
      PROVE  put(s) \in Seq(0..Length) /\ Len(put(s)) <= MaxFrames
  <2>1. queue[s] \in Seq(0..Length) /\ Len(queue[s]) <= MaxFrames
    BY DEF StreamTypeOK
  <2>2. Len(queue[s]) \in Nat /\ MaxFrames \in Nat
    BY <2>1, BrokerAssumption
  <2>3. Append(queue[s], x) \in Seq(0..Length) /\ Len(Append(queue[s], x)) = Len(queue[s]) + 1
    BY <2>1, AppendProperties
  <2>4. CASE s \in subs[r] /\ Room(s)
    <3>1. put(s) = Append(queue[s], x)
      BY <2>4
    <3>2. Len(queue[s]) < MaxFrames
      BY <2>4 DEF Room
    <3> HIDE DEF put
    <3> QED
      BY <2>2, <2>3, <3>1, <3>2
  <2>5. CASE ~(s \in subs[r] /\ Room(s))
    BY <2>1, <2>5
  <2> QED
    BY <2>4, <2>5
<1>2. queue' = [s \in Streams |-> put(s)]
  BY DEF Puts
<1>3. missed' \in [Streams -> BOOLEAN]
  BY DEF Puts
<1> HIDE DEF put
<1> QED
  BY <1>1, <1>2, <1>3

\* The same, for finish.
LEMMA FinishesType ==
  ASSUME RunTypeOK, StreamTypeOK, NEW r \in Runs, Finishes(r)
  PROVE  /\ done' \in [Runs -> BOOLEAN]
         /\ queue' \in [Streams -> Seq(0..Length)]
         /\ \A s \in Streams : Len(queue'[s]) <= MaxFrames
         /\ missed' \in [Streams -> BOOLEAN]
<1>1. Over \in 0..Length
  BY BrokerAssumption DEF Over
<1>2. Puts(r, Over)
  BY DEF Finishes
<1>3. done' \in [Runs -> BOOLEAN]
  BY DEF Finishes, RunTypeOK
<1> QED
  BY <1>1, <1>2, <1>3, PutsType

-----------------------------------------------------------------------------
(* The initial state and the steps of the registry.                          *)

\* Nothing has been started.
LEMMA InitInv == Init => BrokerInv
<1> SUFFICES ASSUME Init PROVE BrokerInv
  OBVIOUS
<1>1. RunTypeOK
  BY BrokerAssumption DEF Init, RunTypeOK, TaskStates, NoRun
<1>2. StreamTypeOK
  BY BrokerAssumption DEF Init, StreamTypeOK, Views, NoRun
<1>3. OneRun
  BY DEF Init, OneRun
<1> QED
  BY <1>1, <1>2, <1>3, BrokerAssumption DEF Init, BrokerInv, TypeOK, NoRun, Runs

\* A response that presses Run: a new run is made only when none is in flight.
LEMMA PressKeeps ==
  ASSUME BrokerInv, NEW s \in Streams, Press(s)
  PROVE  BrokerInv'
<1> USE DEF BrokerInv, TypeOK
<1>1. CASE Live(current)
  <2>1. current \in Runs
    BY <1>1, BrokerAssumption DEF Live, RunTypeOK, Runs, NoRun
  <2>2. RunTypeOK'
    BY <1>1 DEF Press, RunTypeOK
  <2>3. StreamTypeOK'
    BY <1>1, <2>1 DEF Press, StreamTypeOK, RunTypeOK, Views
  <2>4. OneRun'
    BY <1>1 DEF Press, OneRun
  <2>5. \A k \in Streams : view'[k] # "away" => at'[k] \in Runs
    BY <1>1, <2>1 DEF Press, StreamTypeOK
  <2> QED
    BY <1>1, <2>2, <2>3, <2>4, <2>5 DEF Press
<1>2. CASE ~Live(current)
  <2> DEFINE m == made + 1
  <2>1. m \in Runs /\ m > made /\ m \in 0..MaxRuns /\ m # NoRun
    BY <1>2, BrokerAssumption DEF Press, RunTypeOK, Runs, NoRun
  <2>2. /\ made' = m /\ current' = m
        /\ task' = [task EXCEPT ![m] = "going"]
        /\ at' = [at EXCEPT ![s] = m]
        /\ view' = [view EXCEPT ![s] = "opened"]
        /\ UNCHANGED <<done, sent, backlog, last, subs, queue, missed, waits>>
    BY <1>2 DEF Press
  <2>3. RunTypeOK'
    BY <2>1, <2>2 DEF RunTypeOK, TaskStates
  <2>4. StreamTypeOK'
    BY <2>1, <2>2 DEF StreamTypeOK, Views
  <2>5. \A r \in Runs : task[r] # "going"
    BY <1>2 DEF Live, OneRun, NoRun, Runs
  <2>6. OneRun'
    BY <2>1, <2>2, <2>5 DEF OneRun, RunTypeOK
  <2>7. \A r \in Runs : task'[r] = "none" <=> r > made'
    BY <2>1, <2>2, BrokerAssumption DEF RunTypeOK, Runs
  <2>8. \A r \in Runs : done'[r] => r <= made'
    BY <2>1, <2>2, BrokerAssumption DEF RunTypeOK, Runs
  <2>9. \A k \in Cancels : waits'[k] # NoRun => task'[waits'[k]] \in { "stopping", "ended" }
    <3> SUFFICES ASSUME NEW k \in Cancels, waits[k] # NoRun
                 PROVE  task'[waits[k]] \in { "stopping", "ended" }
      BY <2>2
    <3>1. waits[k] \in Runs /\ task[waits[k]] \in { "stopping", "ended" }
      BY BrokerAssumption DEF RunTypeOK, Runs, NoRun
    <3>2. task[m] = "none"
      BY <2>1
    <3> QED
      BY <3>1, <3>2, <2>1, <2>2 DEF RunTypeOK
  <2>10. \A k \in Streams : view'[k] # "away" => at'[k] \in Runs
    BY <2>1, <2>2 DEF StreamTypeOK
  <2>11. current' <= made'
    BY <2>1, <2>2
  <2> QED
    BY <2>3, <2>4, <2>6, <2>7, <2>8, <2>9, <2>10, <2>11
<1> QED
  BY <1>1, <1>2

\* An ended run is forgotten: no run was going.
LEMMA EvictKeeps ==
  ASSUME BrokerInv, Evict
  PROVE  BrokerInv'
<1> USE DEF BrokerInv, TypeOK
<1>1. RunTypeOK'
  BY BrokerAssumption DEF Evict, RunTypeOK, NoRun
<1>2. StreamTypeOK'
  BY DEF Evict, StreamTypeOK, streamVars
<1>3. OneRun'
  BY DEF Evict, OneRun, streamVars
<1>4. current' <= made'
  BY DEF Evict, RunTypeOK, NoRun
<1> QED
  BY <1>1, <1>2, <1>3, <1>4 DEF Evict, streamVars

-----------------------------------------------------------------------------
(* The steps of a stream leave the registry and the tasks alone.             *)

\* So they keep the invariant if they keep the types and start at no run.
LEMMA StreamStep ==
  ASSUME BrokerInv, UNCHANGED <<runVars, at, waits>>,
         subs' \in [Runs -> SUBSET Streams], StreamTypeOK',
         \A s \in Streams : view'[s] # "away" => view[s] # "away"
  PROVE  BrokerInv'
<1> USE DEF BrokerInv, TypeOK, runVars
<1>1. RunTypeOK'
  BY DEF RunTypeOK
<1>2. OneRun'
  BY DEF OneRun
<1> QED
  BY <1>1, <1>2

\* The run a stream follows drops its queue, or keeps it.
LEMMA UnsubscribesType ==
  ASSUME BrokerInv, NEW s \in Streams, NEW how \in Views \ { "away" },
         view[s] # "away", Unsubscribes(s, how)
  PROVE  /\ subs' \in [Runs -> SUBSET Streams]
         /\ view' \in [Streams -> Views]
         /\ \A k \in Streams : view'[k] # "away" => view[k] # "away"
BY DEF BrokerInv, TypeOK, RunTypeOK, StreamTypeOK, Unsubscribes

\* Copying the backlog, replaying it, going live, reading and leaving.
LEMMA StreamKeeps ==
  ASSUME BrokerInv, NEW s \in Streams, Reads(s) \/ Leave(s)
  PROVE  BrokerInv'
<1>1. /\ StreamTypeOK /\ RunTypeOK /\ subs \in [Runs -> SUBSET Streams]
      /\ queue[s] \in Seq(0..Length) /\ backlog[s] \in Seq(1..Length)
      /\ Len(queue[s]) <= MaxFrames
  BY DEF BrokerInv, TypeOK, RunTypeOK, StreamTypeOK
<1>2. CASE Subscribe(s)
  <2>1. at[s] \in Runs
    BY <1>2 DEF Subscribe, BrokerInv
  <2>2. Kept(at[s]) \in Seq(1..Length)
    BY <1>1, <2>1, KeptType
  <2>3. StreamTypeOK'
    BY <1>1, <1>2, <2>2 DEF Subscribe, StreamTypeOK, Views
  <2>4. subs' \in [Runs -> SUBSET Streams]
    BY <1>1, <1>2, <2>1 DEF Subscribe
  <2>5. \A k \in Streams : view'[k] # "away" => view[k] # "away"
    BY <1>1, <1>2 DEF Subscribe, StreamTypeOK
  <2> QED
    BY <1>2, <2>3, <2>4, <2>5, StreamStep DEF Subscribe
<1>3. CASE Replay(s)
  <2>1. Head(backlog[s]) \in 1..Length /\ Tail(backlog[s]) \in Seq(1..Length)
    BY <1>1, <1>3, HeadTailProperties DEF Replay
  <2>2. StreamTypeOK'
    BY <1>1, <1>3, <2>1 DEF Replay, StreamTypeOK
  <2> QED
    BY <1>1, <1>3, <2>2, StreamStep DEF Replay
<1>4. CASE GoLive(s)
  <2>1. /\ subs' \in [Runs -> SUBSET Streams]
        /\ view' \in [Streams -> Views]
        /\ \A k \in Streams : view'[k] # "away" => view[k] # "away"
    <3>1. CASE Unsubscribes(s, "over")
      BY <1>4, <3>1, UnsubscribesType DEF GoLive, Views
    <3>2. CASE view' = [view EXCEPT ![s] = "live"] /\ UNCHANGED subs
      BY <1>1, <1>4, <3>2 DEF GoLive, StreamTypeOK, Views
    <3> QED
      BY <1>4, <3>1, <3>2 DEF GoLive
  <2>2. StreamTypeOK'
    BY <1>1, <1>4, <2>1 DEF GoLive, StreamTypeOK
  <2> QED
    BY <1>4, <2>1, <2>2, StreamStep DEF GoLive
<1>5. CASE Get(s)
  <2>1. /\ Head(queue[s]) \in 0..Length /\ Tail(queue[s]) \in Seq(0..Length)
        /\ Len(Tail(queue[s])) <= MaxFrames
    <3>1. /\ Head(queue[s]) \in 0..Length /\ Tail(queue[s]) \in Seq(0..Length)
          /\ Len(Tail(queue[s])) = Len(queue[s]) - 1
      BY <1>1, <1>5, HeadTailProperties DEF Get
    <3> QED
      BY <1>1, <3>1, BrokerAssumption
  <2>2. /\ subs' \in [Runs -> SUBSET Streams]
        /\ view' \in [Streams -> Views]
        /\ \A k \in Streams : view'[k] # "away" => view[k] # "away"
    <3>1. CASE Unsubscribes(s, "over")
      BY <1>5, <3>1, UnsubscribesType DEF Get, Views
    <3>2. CASE UNCHANGED <<view, subs>>
      BY <1>1, <3>2 DEF StreamTypeOK
    <3> QED
      BY <1>5, <3>1, <3>2 DEF Get
  <2>3. last' \in [Streams -> 0..Length]
    BY <1>1, <1>5, <2>1 DEF Get, StreamTypeOK
  <2>4. /\ queue' \in [Streams -> Seq(0..Length)]
        /\ \A k \in Streams : Len(queue'[k]) <= MaxFrames
    BY <1>1, <1>5, <2>1 DEF Get, StreamTypeOK
  <2>5. UNCHANGED <<runVars, at, backlog, missed, waits>>
    BY <1>5 DEF Get
  <2>6. StreamTypeOK'
    BY <1>1, <2>2, <2>3, <2>4, <2>5 DEF StreamTypeOK
  <2> QED
    BY <2>2, <2>5, <2>6, StreamStep
<1>6. CASE Leave(s)
  <2>1. /\ subs' \in [Runs -> SUBSET Streams]
        /\ view' \in [Streams -> Views]
        /\ \A k \in Streams : view'[k] # "away" => view[k] # "away"
    BY <1>6, UnsubscribesType DEF Leave, Views
  <2>2. <<>> \in Seq(0..Length) /\ <<>> \in Seq(1..Length) /\ Len(<<>>) <= MaxFrames
    BY EmptySeq, BrokerAssumption
  <2>3. /\ queue' \in [Streams -> Seq(0..Length)]
        /\ \A k \in Streams : Len(queue'[k]) <= MaxFrames
        /\ backlog' \in [Streams -> Seq(1..Length)]
    BY <1>1, <1>6, <2>2 DEF Leave, StreamTypeOK
  <2>4. last' \in [Streams -> 0..Length] /\ missed' \in [Streams -> BOOLEAN]
    BY <1>1, <1>6, BrokerAssumption DEF Leave, StreamTypeOK
  <2>5. UNCHANGED <<runVars, at, waits>>
    BY <1>6 DEF Leave
  <2>6. StreamTypeOK'
    BY <1>1, <2>1, <2>3, <2>4, <2>5 DEF StreamTypeOK
  <2> QED
    BY <2>1, <2>5, <2>6, StreamStep
<1> QED
  BY <1>2, <1>3, <1>4, <1>5, <1>6 DEF Reads

-----------------------------------------------------------------------------
(* The steps of a run and of a cancel.                                       *)

\* A run goes on, ends or is unwound: it is still the registry's if it goes on.
LEMMA PumpKeeps ==
  ASSUME BrokerInv, NEW r \in Runs, Pump(r)
  PROVE  BrokerInv'
<1> USE DEF BrokerInv, TypeOK
<1>1. CASE Publish(r)
  <2>1. sent[r] + 1 \in 0..Length /\ sent'[r] = sent[r] + 1 /\ sent' \in [Runs -> 0..Length]
    BY <1>1, BrokerAssumption DEF Publish, RunTypeOK
  <2>2. Puts(r, sent'[r])
    BY <1>1 DEF Publish
  <2>3. /\ queue' \in [Streams -> Seq(0..Length)]
        /\ \A s \in Streams : Len(queue'[s]) <= MaxFrames
        /\ missed' \in [Streams -> BOOLEAN]
    BY <2>1, <2>2, PutsType
  <2>4. subs' \in [Runs -> SUBSET Streams]
    BY <1>1 DEF Publish, RunTypeOK
  <2>5. UNCHANGED <<current, made, task, done, streamVars, waits>>
    BY <1>1 DEF Publish
  <2>6. RunTypeOK'
    BY <2>1, <2>4, <2>5 DEF RunTypeOK
  <2>7. StreamTypeOK'
    BY <2>3, <2>5 DEF StreamTypeOK, streamVars
  <2>8. OneRun'
    BY <2>5 DEF OneRun
  <2> QED
    BY <2>5, <2>6, <2>7, <2>8 DEF streamVars
<1>2. CASE PumpEnds(r) \/ Unwound(r)
  <2>1. /\ task' = [task EXCEPT ![r] = "ended"]
        /\ task[r] \in { "going", "stopping" }
        /\ UNCHANGED <<current, made, sent, streamVars, subs, waits>>
        /\ Finishes(r) \/ UNCHANGED <<done, queue, missed>>
    BY <1>2 DEF PumpEnds, Unwound
  <2>2. /\ done' \in [Runs -> BOOLEAN]
        /\ queue' \in [Streams -> Seq(0..Length)]
        /\ \A s \in Streams : Len(queue'[s]) <= MaxFrames
        /\ missed' \in [Streams -> BOOLEAN]
    <3>1. CASE Finishes(r)
      BY <3>1, FinishesType
    <3>2. CASE UNCHANGED <<done, queue, missed>>
      BY <3>2 DEF RunTypeOK, StreamTypeOK
    <3> QED
      BY <2>1, <3>1, <3>2
  <2>3. RunTypeOK'
    BY <2>1, <2>2 DEF RunTypeOK, TaskStates
  <2>4. StreamTypeOK'
    BY <2>1, <2>2 DEF StreamTypeOK, streamVars
  <2>5. \A q \in Runs : q # r => done'[q] = done[q] /\ task'[q] = task[q]
    BY <2>1 DEF Finishes, RunTypeOK
  <2>6. task'[r] = "ended"
    BY <2>1 DEF RunTypeOK
  <2>7. OneRun'
    BY <2>1, <2>5, <2>6 DEF OneRun
  <2>8. \A q \in Runs : task'[q] = "none" <=> q > made'
    BY <2>1, <2>5, <2>6
  <2>9. r <= made
    BY <2>1, BrokerAssumption DEF RunTypeOK, Runs
  <2>10. \A q \in Runs : done'[q] => q <= made'
    BY <2>1, <2>5, <2>9
  <2>11. \A k \in Cancels : waits'[k] # NoRun => task'[waits'[k]] \in { "stopping", "ended" }
    <3> SUFFICES ASSUME NEW k \in Cancels, waits[k] # NoRun
                 PROVE  task'[waits[k]] \in { "stopping", "ended" }
      BY <2>1
    <3>1. waits[k] \in Runs
      BY BrokerAssumption DEF RunTypeOK, Runs, NoRun
    <3> QED
      BY <2>5, <2>6, <3>1
  <2> QED
    BY <2>1, <2>3, <2>4, <2>7, <2>8, <2>10, <2>11 DEF streamVars
<1> QED
  BY <1>1, <1>2 DEF Pump

\* A cancel marks a run that is not over, and finishes it when it stops waiting.
LEMMA CancelKeeps ==
  ASSUME BrokerInv, NEW k \in Cancels, CancelAsks(k) \/ CancelReturns(k)
  PROVE  BrokerInv'
<1> USE DEF BrokerInv, TypeOK
<1>1. CASE CancelAsks(k)
  <2>1. current \in Runs /\ task[current] \in { "going", "stopping", "ended" }
    BY <1>1, BrokerAssumption DEF CancelAsks, Live, RunTypeOK, Runs, NoRun, TaskStates
  <2> DEFINE to == IF task[current] = "going" THEN "stopping" ELSE task[current]
  <2>2. /\ task' = [task EXCEPT ![current] = to]
        /\ waits' = [waits EXCEPT ![k] = current]
        /\ UNCHANGED <<current, made, done, sent, streamVars, subs, queue, missed>>
    BY <1>1 DEF CancelAsks
  <2>3. to \in { "stopping", "ended" }
    BY <2>1
  <2> HIDE DEF to
  <2>4. RunTypeOK'
    BY <2>1, <2>2, <2>3 DEF RunTypeOK, TaskStates
  <2>5. StreamTypeOK'
    BY <2>2 DEF StreamTypeOK, streamVars
  <2>6. \A q \in Runs : IF q = current THEN task'[q] = to ELSE task'[q] = task[q]
    BY <2>2 DEF RunTypeOK
  <2>7. OneRun'
    BY <2>2, <2>3, <2>6 DEF OneRun
  <2>8. \A q \in Runs : task'[q] = "none" <=> q > made'
    BY <2>1, <2>2, <2>3, <2>6
  <2>9. \A j \in Cancels : waits'[j] # NoRun => task'[waits'[j]] \in { "stopping", "ended" }
    <3> SUFFICES ASSUME NEW j \in Cancels, waits'[j] # NoRun
                 PROVE  task'[waits'[j]] \in { "stopping", "ended" }
      OBVIOUS
    <3>1. CASE j = k
      BY <2>1, <2>2, <2>3, <2>6, <3>1 DEF RunTypeOK
    <3>2. CASE j # k
      <4>1. waits'[j] = waits[j] /\ waits[j] \in Runs
        BY <2>2, <3>2, BrokerAssumption DEF RunTypeOK, Runs, NoRun
      <4> QED
        BY <2>3, <2>6, <4>1
    <3> QED
      BY <3>1, <3>2
  <2> QED
    BY <2>2, <2>4, <2>5, <2>7, <2>8, <2>9 DEF streamVars
<1>2. CASE CancelReturns(k)
  <2> DEFINE r == waits[k]
  <2>1. r \in Runs /\ task[r] \in { "stopping", "ended" }
    BY <1>2, BrokerAssumption DEF CancelReturns, RunTypeOK, Runs, NoRun
  <2>2. /\ Finishes(r)
        /\ waits' = [waits EXCEPT ![k] = NoRun]
        /\ UNCHANGED <<current, made, task, sent, streamVars, subs>>
    BY <1>2 DEF CancelReturns
  <2> HIDE DEF r
  <2>3. /\ done' \in [Runs -> BOOLEAN]
        /\ queue' \in [Streams -> Seq(0..Length)]
        /\ \A s \in Streams : Len(queue'[s]) <= MaxFrames
        /\ missed' \in [Streams -> BOOLEAN]
    BY <2>1, <2>2, FinishesType
  <2>4. RunTypeOK'
    BY <2>2, <2>3, BrokerAssumption DEF RunTypeOK, NoRun
  <2>5. StreamTypeOK'
    BY <2>2, <2>3 DEF StreamTypeOK, streamVars
  <2>6. \A q \in Runs : q # r => done'[q] = done[q]
    BY <2>2 DEF Finishes, RunTypeOK
  <2>7. OneRun'
    BY <2>1, <2>2, <2>6 DEF OneRun
  <2>8. r <= made
    BY <2>1, BrokerAssumption DEF RunTypeOK, Runs
  <2>9. \A q \in Runs : done'[q] => q <= made'
    BY <2>2, <2>6, <2>8
  <2>10. \A j \in Cancels : waits'[j] # NoRun => task'[waits'[j]] \in { "stopping", "ended" }
    BY <2>2 DEF RunTypeOK
  <2> QED
    BY <2>2, <2>4, <2>5, <2>7, <2>9, <2>10 DEF streamVars
<1> QED
  BY <1>1, <1>2

-----------------------------------------------------------------------------
(* The theorems.                                                             *)

\* Every step keeps the invariant.
LEMMA NextKeeps == BrokerInv /\ [Next]_vars => BrokerInv'
<1> SUFFICES ASSUME BrokerInv, [Next]_vars PROVE BrokerInv'
  OBVIOUS
<1>1. CASE Next
  BY <1>1, PumpKeeps, PressKeeps, StreamKeeps, CancelKeeps, EvictKeeps DEF Next
<1>2. CASE UNCHANGED vars
  BY <1>2 DEF vars, runVars, streamVars, BrokerInv, TypeOK, RunTypeOK, StreamTypeOK, OneRun
<1> QED
  BY <1>1, <1>2

\* The inductive invariant of the registry holds throughout.
THEOREM RegistrySafety == Spec => []BrokerInv
<1> QED
  BY InitInv, NextKeeps, PTL DEF Spec

\* Two runs of a job never execute side by side unless one has been cancelled, and
\* the run that executes is the one start and cancel find in _runs.
THEOREM NeverTwoRuns == Spec => []OneRun
<1>1. BrokerInv => OneRun
  BY DEF BrokerInv
<1> QED
  BY <1>1, RegistrySafety, PTL

\* The types, and with them the bound MAX_FRAMES on every subscriber's queue.
THEOREM QueuesBounded == Spec => []TypeOK
<1>1. BrokerInv => TypeOK
  BY DEF BrokerInv
<1> QED
  BY <1>1, RegistrySafety, PTL

-----------------------------------------------------------------------------
(* The streams.                                                              *)

Follows(s) == view[s] \in { "backlog", "live" }

\* The stream has yielded frame c, or attached before frame c + 1.  It has still to
\* replay the frames from c + 1; its queue goes on where the replay will stop, with k
\* frames and then sentinels only.  While the run puts frames into the queue, and
\* once it has put a sentinel there, the k-th is the last the run has published.
Joined(s, c, k) ==
  /\ \A i \in 1..Len(backlog[s]) : backlog[s][i] = c + i
  /\ (last[s] # 0 \/ backlog[s] = <<>>) => c = last[s]
  /\ k <= Len(queue[s])
  /\ \A i \in 1..Len(queue[s]) :
       queue[s][i] = IF i <= k THEN c + Len(backlog[s]) + i ELSE Over
  /\ (s \in subs[at[s]] \/ k < Len(queue[s])) => c + Len(backlog[s]) + k = sent[at[s]]
  /\ k < Len(queue[s]) => done[at[s]]

\* A subscriber is a stream that follows that run, and one that was dropped while it
\* replayed has a queue to drain.
StreamOK(s) ==
  /\ \A r \in Runs : s \in subs[r] => r = at[s] /\ Follows(s)
  /\ view[s] \in { "away", "opened" } => backlog[s] = <<>> /\ queue[s] = <<>> /\ last[s] = 0
  /\ view[s] = "over" => done[at[s]] /\ last[s] = sent[at[s]]
  /\ view[s] = "live" => backlog[s] = <<>>
  /\ (view[s] = "backlog" /\ s \notin subs[at[s]]) => queue[s] # <<>>
  /\ Follows(s) => \E c, k \in Nat : Joined(s, c, k)

\* The inductive invariant of the streams.
StreamInv == \A s \in Streams : StreamOK(s)

\* What a stream holds is typed, and it follows a run once it has begun.
LEMMA StreamTypes ==
  ASSUME BrokerInv, NEW s \in Streams
  PROVE  /\ backlog[s] \in Seq(1..Length) /\ queue[s] \in Seq(0..Length)
         /\ Len(backlog[s]) \in Nat /\ Len(queue[s]) \in Nat
         /\ Len(queue[s]) <= MaxFrames
         /\ last[s] \in Nat /\ view[s] \in Views
         /\ (view[s] # "away" => at[s] \in Runs)
         /\ \A r \in Runs : sent[r] \in Nat /\ done[r] \in BOOLEAN
<1>1. /\ backlog[s] \in Seq(1..Length) /\ queue[s] \in Seq(0..Length)
      /\ Len(queue[s]) <= MaxFrames /\ last[s] \in 0..Length /\ view[s] \in Views
      /\ (view[s] # "away" => at[s] \in Runs)
  BY DEF BrokerInv, TypeOK, StreamTypeOK
<1>2. \A r \in Runs : sent[r] \in 0..Length /\ done[r] \in BOOLEAN
  BY DEF BrokerInv, TypeOK, RunTypeOK
<1>3. Len(backlog[s]) \in Nat /\ Len(queue[s]) \in Nat
  BY <1>1, LenProperties
<1> QED
  BY <1>1, <1>2, <1>3, BrokerAssumption

\* A step that leaves a stream and its subscription alone keeps its part, if the run
\* it follows neither publishes nor ceases to be over.
LEMMA Aside ==
  ASSUME NEW s \in Streams, StreamOK(s),
         view'[s] = view[s], at'[s] = at[s], backlog'[s] = backlog[s],
         queue'[s] = queue[s], last'[s] = last[s],
         \A r \in Runs : s \in subs'[r] <=> s \in subs[r],
         view[s] # "away" =>
           at[s] \in Runs /\ sent'[at[s]] = sent[at[s]] /\ (done[at[s]] => done'[at[s]])
  PROVE  StreamOK(s)'
<1>1. Follows(s)' <=> Follows(s)
  BY DEF Follows
<1>2. Follows(s) => view[s] # "away"
  BY DEF Follows
<1>3. \A c, k \in Nat : Follows(s) /\ Joined(s, c, k) => Joined(s, c, k)'
  BY <1>2 DEF Joined
<1>4. (Follows(s) => \E c, k \in Nat : Joined(s, c, k))'
  BY <1>1, <1>3 DEF StreamOK
<1>5. (view[s] = "backlog" /\ s \notin subs[at[s]])' => queue'[s] # <<>>
  BY DEF StreamOK
<1>6. (view[s] = "over" => done[at[s]] /\ last[s] = sent[at[s]])'
  BY DEF StreamOK
<1>7. \A r \in Runs : s \in subs'[r] => r = at'[s] /\ Follows(s)'
  BY <1>1 DEF StreamOK
<1> QED
  BY <1>4, <1>5, <1>6, <1>7 DEF StreamOK

\* A step of one stream leaves the others alone.
LEMMA Others ==
  ASSUME BrokerInv, StreamInv, NEW s \in Streams,
         UNCHANGED <<sent, done>>,
         \A t \in Streams \ { s } :
           /\ view'[t] = view[t] /\ at'[t] = at[t] /\ backlog'[t] = backlog[t]
           /\ queue'[t] = queue[t] /\ last'[t] = last[t]
           /\ \A r \in Runs : t \in subs'[r] <=> t \in subs[r],
         StreamOK(s)'
  PROVE  StreamInv'
<1> SUFFICES ASSUME NEW t \in Streams, t # s PROVE StreamOK(t)'
  BY DEF StreamInv
<1>1. StreamOK(t) /\ (view[t] # "away" => at[t] \in Runs)
  BY StreamTypes DEF StreamInv
<1> QED
  BY <1>1, Aside

\* Nobody has come.
LEMMA StreamsInit == Init => StreamInv
BY DEF Init, StreamInv, StreamOK, Follows

\* The kept frames are consecutive, they end with the last one published, and there
\* are none only if there was none.
LEMMA KeptFrames ==
  ASSUME BrokerInv, NEW r \in Runs
  PROVE  \E c \in Nat : /\ c + Len(Kept(r)) = sent[r]
                        /\ \A i \in 1..Len(Kept(r)) : Kept(r)[i] = c + i
                        /\ Len(Kept(r)) \in Nat
                        /\ (Kept(r) = <<>> => c = 0)
<1>1. sent[r] \in Nat /\ MaxFrames \in Nat \ {0}
  BY BrokerAssumption DEF BrokerInv, TypeOK, RunTypeOK
<1>2. PICK c \in Nat : /\ c = IF sent[r] > MaxFrames THEN sent[r] - MaxFrames ELSE 0
                       /\ sent[r] - c \in Nat
                       /\ (c # 0 => sent[r] - c = MaxFrames)
  BY <1>1
<1>3. PICK n \in Nat : n = sent[r] - c
  BY <1>2
<1>4. Kept(r) = [i \in 1..n |-> c + i]
  BY <1>2, <1>3 DEF Kept
<1>5. Len(Kept(r)) = n
  BY <1>4
<1>6. \A i \in 1..n : Kept(r)[i] = c + i
  BY <1>4
<1>7. Kept(r) = <<>> => c = 0
  <2> SUFFICES ASSUME Kept(r) = <<>> PROVE c = 0
    OBVIOUS
  <2>1. n = 0
    BY <1>5
  <2> QED
    BY <1>1, <1>2, <1>3, <2>1
<1>8. c + n = sent[r]
  BY <1>1, <1>2, <1>3
<1> QED
  BY <1>5, <1>6, <1>7, <1>8

\* A response attaches to a run in flight or to a new one; it follows nothing yet.
LEMMA PressJoins ==
  ASSUME BrokerInv, StreamInv, NEW s \in Streams, Press(s)
  PROVE  StreamInv'
<1>1. /\ view \in [Streams -> Views] /\ at \in [Streams -> 0..MaxRuns]
  BY DEF BrokerInv, TypeOK, StreamTypeOK
<1>2. \E r \in 0..MaxRuns + 1 : at' = [at EXCEPT ![s] = r]
  BY BrokerAssumption DEF Press, BrokerInv, TypeOK, RunTypeOK
<1>3. /\ view[s] = "away" /\ view' = [view EXCEPT ![s] = "opened"]
      /\ UNCHANGED <<done, sent, backlog, last, subs, queue>>
  BY DEF Press
<1>4. StreamOK(s)'
  <2>1. /\ \A r \in Runs : s \notin subs[r]
        /\ backlog[s] = <<>> /\ queue[s] = <<>> /\ last[s] = 0
    BY <1>3 DEF StreamInv, StreamOK, Follows
  <2>2. view'[s] = "opened"
    BY <1>1, <1>3
  <2> QED
    BY <1>3, <2>1, <2>2 DEF StreamOK, Follows
<1> QED
  BY <1>1, <1>2, <1>3, <1>4, Others

\* The backlog is copied and the queue registered in one step: the replay ends with
\* the last frame published, and the queue, empty yet, will go on from there.
LEMMA SubscribeJoins ==
  ASSUME BrokerInv, StreamInv, NEW s \in Streams, Subscribe(s)
  PROVE  StreamInv'
<1>1. PICK r \in Runs : r = at[s]
  BY DEF Subscribe, BrokerInv
<1>2. /\ view \in [Streams -> Views] /\ backlog \in [Streams -> Seq(1..Length)]
      /\ subs \in [Runs -> SUBSET Streams]
  BY DEF BrokerInv, TypeOK, StreamTypeOK, RunTypeOK
<1>3. /\ view[s] = "opened" /\ view' = [view EXCEPT ![s] = "backlog"]
      /\ backlog' = [backlog EXCEPT ![s] = Kept(r)]
      /\ subs' = [subs EXCEPT ![r] = @ \cup {s}]
      /\ UNCHANGED <<sent, done, at, last, queue>>
  BY <1>1 DEF Subscribe, runVars
<1>4. /\ \A q \in Runs : s \notin subs[q]
      /\ queue[s] = <<>> /\ last[s] = 0
  BY <1>3 DEF StreamInv, StreamOK, Follows
<1>5. /\ view'[s] = "backlog" /\ backlog'[s] = Kept(r) /\ s \in subs'[r]
      /\ \A q \in Runs : s \in subs'[q] => q = r
      /\ at'[s] = r /\ queue'[s] = <<>> /\ last'[s] = 0 /\ sent'[r] = sent[r]
  BY <1>1, <1>2, <1>3, <1>4
<1>6. PICK c \in Nat : /\ c + Len(Kept(r)) = sent[r]
                       /\ \A i \in 1..Len(Kept(r)) : Kept(r)[i] = c + i
                       /\ Len(Kept(r)) \in Nat
                       /\ (Kept(r) = <<>> => c = 0)
  BY KeptFrames
<1>7. Joined(s, c, 0)'
  BY <1>5, <1>6 DEF Joined
<1>8. StreamOK(s)'
  <2>1. (\E a, b \in Nat : Joined(s, a, b))'
    BY <1>7
  <2> QED
    BY <1>5, <2>1 DEF StreamOK, Follows
<1> QED
  BY <1>2, <1>3, <1>8, Others

\* The first frame of the backlog is yielded.
LEMMA ReplayJoins ==
  ASSUME BrokerInv, StreamInv, NEW s \in Streams, Replay(s)
  PROVE  StreamInv'
<1>1. /\ last \in [Streams -> 0..Length] /\ backlog \in [Streams -> Seq(1..Length)]
  BY DEF BrokerInv, TypeOK, StreamTypeOK
<1>2. /\ view[s] = "backlog" /\ backlog[s] # <<>>
      /\ last' = [last EXCEPT ![s] = Head(backlog[s])]
      /\ backlog' = [backlog EXCEPT ![s] = Tail(backlog[s])]
      /\ UNCHANGED <<sent, done, view, at, subs, queue>>
  BY DEF Replay, runVars
<1>3. StreamOK(s) /\ Follows(s)
  BY <1>2 DEF StreamInv, Follows
<1>4. PICK c, k \in Nat : Joined(s, c, k)
  BY <1>3 DEF StreamOK
<1>5. PICK n \in Nat : n = Len(backlog[s]) /\ n > 0
  BY <1>1, <1>2, StreamTypes, EmptySeq
<1>6. /\ Head(backlog[s]) = c + 1
      /\ Len(Tail(backlog[s])) = n - 1
      /\ \A i \in 1..n - 1 : Tail(backlog[s])[i] = (c + 1) + i
  <2>1. \A i \in 1..n : backlog[s][i] = c + i
    BY <1>4, <1>5 DEF Joined
  <2>2. /\ Head(backlog[s]) = backlog[s][1] /\ Len(Tail(backlog[s])) = n - 1
        /\ \A i \in 1..n - 1 : Tail(backlog[s])[i] = backlog[s][i + 1]
    BY <1>1, <1>2, <1>5, HeadTailProperties
  <2>3. 1 \in 1..n /\ \A i \in 1..n - 1 : i + 1 \in 1..n /\ c + (i + 1) = (c + 1) + i
    BY <1>5
  <2> QED
    BY <2>1, <2>2, <2>3
<1>7. /\ last'[s] = c + 1 /\ backlog'[s] = Tail(backlog[s])
      /\ queue'[s] = queue[s] /\ at'[s] = at[s]
  BY <1>1, <1>2, <1>6
<1>8. Joined(s, c + 1, k)'
  <2>1. PICK m \in Nat : m = n - 1 /\ (c + 1) + m = c + n
    BY <1>5
  <2>2. Len(Tail(backlog[s])) = m
    BY <1>6, <2>1
  <2>3. Len(backlog'[s]) = m
    BY <1>7, <2>2, Zenon
  <2>4. \A i \in 1..Len(backlog'[s]) : backlog'[s][i] = (c + 1) + i
    <3>1. PICK b : b = Tail(backlog[s])
      OBVIOUS
    <3>2. b = backlog'[s] /\ Len(b) = m
      BY <1>7, <2>2, <3>1, Zenon
    <3>3. \A i \in 1..m : b[i] = (c + 1) + i
      BY <1>6, <2>1, <3>1
    <3> QED
      BY <3>2, <3>3
  <2>5. \A i \in 1..Len(queue'[s]) :
          queue'[s][i] = IF i <= k THEN (c + 1) + Len(backlog'[s]) + i ELSE Over
    <3>1. PICK d \in Nat : d = c + n /\ d = (c + 1) + m
      BY <2>1
    <3>2. \A i \in 1..Len(queue[s]) : queue[s][i] = IF i <= k THEN d + i ELSE Over
      BY <1>4, <1>5, <3>1 DEF Joined
    <3>3. (c + 1) + Len(backlog'[s]) = d
      BY <2>3, <3>1
    <3> QED
      BY <1>7, <3>2, <3>3
  <2>6. (s \in subs'[at'[s]] \/ k < Len(queue'[s])) =>
          (c + 1) + Len(backlog'[s]) + k = sent'[at'[s]]
    BY <1>2, <1>4, <1>5, <1>7, <2>1, <2>3 DEF Joined
  <2>7. k <= Len(queue'[s]) /\ (k < Len(queue'[s]) => done'[at'[s]])
    BY <1>2, <1>4, <1>7 DEF Joined
  <2>8. last'[s] = c + 1
    BY <1>7
  <2> QED
    BY <2>4, <2>5, <2>6, <2>7, <2>8 DEF Joined
<1>9. StreamOK(s)'
  <2>1. c + 1 \in Nat
    OBVIOUS
  <2>2. (\E a, b \in Nat : Joined(s, a, b))'
    BY <1>8, <2>1
  <2> QED
    BY <1>2, <1>3, <1>7, <2>2 DEF StreamOK, Follows
<1> QED
  BY <1>1, <1>2, <1>9, Others

\* A stream that unsubscribes is a subscriber of nothing.
LEMMA Unsubscribed ==
  ASSUME BrokerInv, StreamInv, NEW s \in Streams, NEW how \in Views,
         view[s] # "away", Unsubscribes(s, how)
  PROVE  /\ view' = [view EXCEPT ![s] = how] /\ view'[s] = how
         /\ \A r \in Runs : s \notin subs'[r]
         /\ \A t \in Streams \ { s } : \A r \in Runs : t \in subs'[r] <=> t \in subs[r]
<1>1. at[s] \in Runs
  BY DEF BrokerInv
<1>2. \A r \in Runs : s \in subs[r] => r = at[s]
  BY DEF StreamInv, StreamOK
<1> QED
  BY <1>1, <1>2 DEF Unsubscribes, BrokerInv, TypeOK, RunTypeOK, StreamTypeOK

\* The replay is done.  An ended run with nothing queued has been yielded to the end;
\* otherwise what is queued is still to come.
LEMMA GoLiveJoins ==
  ASSUME BrokerInv, StreamInv, NEW s \in Streams, GoLive(s)
  PROVE  StreamInv'
<1>1. /\ view[s] = "backlog" /\ backlog[s] = <<>>
      /\ UNCHANGED <<sent, done, at, backlog, last, queue>>
  BY DEF GoLive, runVars
<1>2. StreamOK(s) /\ Follows(s)
  BY <1>1 DEF StreamInv, Follows
<1>3. PICK c, k \in Nat : Joined(s, c, k)
  BY <1>2 DEF StreamOK
<1>4. /\ view \in [Streams -> Views] /\ last[s] \in Nat /\ at[s] \in Runs
  BY <1>1, StreamTypes DEF BrokerInv, TypeOK, StreamTypeOK
<1>5. CASE done[at[s]] /\ queue[s] = <<>>
  <2>1. Unsubscribes(s, "over")
    BY <1>5 DEF GoLive
  <2>2. /\ view' = [view EXCEPT ![s] = "over"] /\ view'[s] = "over"
        /\ \A r \in Runs : s \notin subs'[r]
        /\ \A t \in Streams \ { s } : \A r \in Runs : t \in subs'[r] <=> t \in subs[r]
    BY <1>1, <2>1, Unsubscribed DEF Views
  <2>3. s \in subs[at[s]]
    BY <1>1, <1>2, <1>5 DEF StreamOK
  <2>4. Len(backlog[s]) = 0 /\ Len(queue[s]) = 0
    BY <1>1, <1>5
  <2>5. c = last[s] /\ k = 0
    BY <1>1, <1>3, <2>4 DEF Joined
  <2>6. last[s] = sent[at[s]]
    BY <1>3, <1>4, <2>3, <2>4, <2>5 DEF Joined
  <2>7. StreamOK(s)'
    BY <1>1, <1>5, <2>2, <2>6 DEF StreamOK, Follows
  <2> QED
    BY <1>1, <2>2, <2>7, Others
<1>6. CASE ~(done[at[s]] /\ queue[s] = <<>>)
  <2>1. view' = [view EXCEPT ![s] = "live"] /\ UNCHANGED subs
    BY <1>6 DEF GoLive
  <2>2. view'[s] = "live"
    BY <1>4, <2>1
  <2>3. Joined(s, c, k)'
    BY <1>1, <1>3, <2>1 DEF Joined
  <2>4. (\E a, b \in Nat : Joined(s, a, b))'
    BY <2>3
  <2>5. StreamOK(s)'
    BY <1>1, <1>2, <2>1, <2>2, <2>4 DEF StreamOK, Follows
  <2> QED
    BY <1>1, <2>1, <2>5, Others
<1> QED
  BY <1>5, <1>6

\* A frame is the one after the last yielded; the sentinel comes when all were.
LEMMA GetJoins ==
  ASSUME BrokerInv, StreamInv, NEW s \in Streams, Get(s)
  PROVE  StreamInv'
<1>1. /\ view[s] = "live" /\ queue[s] # <<>>
      /\ queue' = [queue EXCEPT ![s] = Tail(queue[s])]
      /\ UNCHANGED <<sent, done, at, backlog>>
  BY DEF Get, runVars
<1>2. StreamOK(s) /\ Follows(s) /\ backlog[s] = <<>> /\ Len(backlog[s]) = 0
  BY <1>1 DEF StreamInv, StreamOK, Follows
<1>3. PICK c, k \in Nat : Joined(s, c, k)
  BY <1>2 DEF StreamOK
<1>4. /\ view \in [Streams -> Views] /\ last \in [Streams -> 0..Length] /\ at[s] \in Runs
      /\ queue \in [Streams -> Seq(0..Length)] /\ last[s] \in Nat /\ Len(queue[s]) \in Nat
  BY <1>1, StreamTypes DEF BrokerInv, TypeOK, StreamTypeOK
<1>5. PICK n \in Nat : Len(queue[s]) = n + 1
  <2>1. Len(queue[s]) # 0
    BY <1>1, <1>4, EmptySeq
  <2>2. Len(queue[s]) - 1 \in Nat /\ Len(queue[s]) = (Len(queue[s]) - 1) + 1
    BY <1>4, <2>1
  <2> QED
    BY <2>2
<1>6. PICK q : q = queue[s]
  OBVIOUS
<1>7. PICK t : t = Tail(queue[s])
  OBVIOUS
<1>8. /\ Head(queue[s]) = q[1] /\ Len(t) = n
      /\ \A i \in 1..n : t[i] = q[i + 1]
  BY <1>1, <1>4, <1>5, <1>6, <1>7, HeadTailProperties
<1>9. /\ c = last[s] /\ k <= n + 1
      /\ \A i \in 1..n + 1 : q[i] = IF i <= k THEN c + i ELSE Over
      /\ (s \in subs[at[s]] \/ k < n + 1) => c + k = sent[at[s]]
      /\ k < n + 1 => done[at[s]]
  <2>1. /\ c = last[s] /\ k <= n + 1
        /\ \A i \in 1..n + 1 : q[i] = IF i <= k THEN c + 0 + i ELSE Over
        /\ (s \in subs[at[s]] \/ k < n + 1) => c + 0 + k = sent[at[s]]
        /\ k < n + 1 => done[at[s]]
    BY <1>2, <1>3, <1>5, <1>6 DEF Joined
  <2> QED
    BY <2>1
<1>10. q[1] = IF 1 <= k THEN c + 1 ELSE Over
  BY <1>9
<1>11. CASE Head(queue[s]) = Over
  <2>1. Unsubscribes(s, "over") /\ UNCHANGED last
    BY <1>11 DEF Get
  <2>2. /\ view' = [view EXCEPT ![s] = "over"] /\ view'[s] = "over"
        /\ \A r \in Runs : s \notin subs'[r]
        /\ \A u \in Streams \ { s } : \A r \in Runs : u \in subs'[r] <=> u \in subs[r]
    BY <1>1, <2>1, Unsubscribed DEF Views
  <2>3. k = 0
    BY <1>8, <1>10, <1>11 DEF Over
  <2>4. last[s] = sent[at[s]] /\ done[at[s]]
    BY <1>4, <1>9, <2>3
  <2>5. StreamOK(s)'
    BY <1>1, <2>1, <2>2, <2>4 DEF StreamOK, Follows
  <2> QED
    BY <1>1, <2>1, <2>2, <2>5, Others
<1>12. CASE Head(queue[s]) # Over
  <2>1. last' = [last EXCEPT ![s] = Head(queue[s])] /\ UNCHANGED <<view, subs>>
    BY <1>12 DEF Get
  <2>2. PICK j \in Nat : k = j + 1
    BY <1>8, <1>10, <1>12
  <2>3. Head(queue[s]) = c + 1
    BY <1>8, <1>10, <1>12
  <2>4. /\ last'[s] = c + 1 /\ queue'[s] = t /\ backlog'[s] = <<>> /\ Len(backlog'[s]) = 0
        /\ at'[s] = at[s] /\ sent' = sent /\ done' = done /\ subs' = subs
    BY <1>1, <1>2, <1>4, <1>7, <2>1, <2>3
  <2>5. \A i \in 1..n : t[i] = IF i <= j THEN (c + 1) + 0 + i ELSE Over
    <3> SUFFICES ASSUME NEW i \in 1..n
                 PROVE  t[i] = IF i <= j THEN (c + 1) + 0 + i ELSE Over
      OBVIOUS
    <3>1. t[i] = q[i + 1] /\ i + 1 \in 1..n + 1
      BY <1>8
    <3>2. q[i + 1] = IF i + 1 <= k THEN c + (i + 1) ELSE Over
      BY <1>9, <3>1
    <3> QED
      BY <2>2, <3>1, <3>2
  <2>6. /\ j <= n
        /\ (s \in subs[at[s]] \/ j < n) => (c + 1) + 0 + j = sent[at[s]]
        /\ j < n => done[at[s]]
    BY <1>9, <2>2
  <2>7. Joined(s, c + 1, j)'
    BY <1>8, <2>4, <2>5, <2>6 DEF Joined
  <2>8. (\E a, b \in Nat : Joined(s, a, b))'
    <3>1. c + 1 \in Nat
      OBVIOUS
    <3> QED
      BY <2>7, <3>1
  <2>9. StreamOK(s)'
    BY <1>1, <1>2, <2>1, <2>4, <2>8 DEF StreamOK, Follows
  <2> QED
    BY <1>1, <2>1, <2>9, Others
<1> QED
  BY <1>11, <1>12

\* The client goes away: nothing is promised to it any more.
LEMMA LeaveJoins ==
  ASSUME BrokerInv, StreamInv, NEW s \in Streams, Leave(s)
  PROVE  StreamInv'
<1>1. /\ view[s] # "away" /\ Unsubscribes(s, "left")
      /\ backlog' = [backlog EXCEPT ![s] = <<>>] /\ queue' = [queue EXCEPT ![s] = <<>>]
      /\ last' = [last EXCEPT ![s] = 0] /\ UNCHANGED <<sent, done, at>>
  BY DEF Leave, runVars
<1>2. /\ view' = [view EXCEPT ![s] = "left"] /\ view'[s] = "left"
      /\ \A r \in Runs : s \notin subs'[r]
      /\ \A t \in Streams \ { s } : \A r \in Runs : t \in subs'[r] <=> t \in subs[r]
  BY <1>1, Unsubscribed DEF Views
<1>3. StreamOK(s)'
  BY <1>2 DEF StreamOK, Follows
<1> QED
  BY <1>1, <1>2, <1>3, Others

\* A stream whose queue takes x, while the rest of it stays: its frames go on from
\* where they were.
LEMMA AppendJoins ==
  ASSUME BrokerInv, NEW s \in Streams, NEW c \in Nat, NEW k \in Nat, Joined(s, c, k),
         NEW x \in 0..Length, NEW j \in Nat, s \in subs[at[s]],
         queue'[s] = Append(queue[s], x), UNCHANGED <<backlog, last, at>>,
         IF x = Over THEN j = k ELSE j = k + 1 /\ k = Len(queue[s]) /\ x = sent'[at[s]],
         sent'[at[s]] = c + Len(backlog[s]) + j, x = Over => done'[at[s]]
  PROVE  Joined(s, c, j)'
<1>1. PICK n \in Nat : n = Len(queue[s])
  BY StreamTypes
<1>2. PICK b \in Nat : b = Len(backlog[s])
  BY StreamTypes
<1>3. PICK q : q = queue[s]
  OBVIOUS
<1>4. PICK a : a = Append(queue[s], x)
  OBVIOUS
<1>5. Len(a) = n + 1 /\ a[n + 1] = x /\ \A i \in 1..n : a[i] = q[i]
  <2>1. queue[s] \in Seq(0..Length)
    BY StreamTypes
  <2> QED
    BY <1>1, <1>3, <1>4, <2>1, AppendProperties
<1>6. k <= n /\ \A i \in 1..n : q[i] = IF i <= k THEN c + b + i ELSE Over
  BY <1>1, <1>2, <1>3 DEF Joined
<1>7. \A i \in 1..n + 1 : a[i] = IF i <= j THEN c + b + i ELSE Over
  <2> SUFFICES ASSUME NEW i \in 1..n + 1
               PROVE  a[i] = IF i <= j THEN c + b + i ELSE Over
    OBVIOUS
  <2>1. CASE i = n + 1
    <3>1. CASE x = Over
      BY <1>5, <1>6, <2>1, <3>1
    <3>2. CASE x # Over
      <4>1. j = n + 1
        BY <1>1, <3>2
      <4>2. x = c + b + j
        BY <1>2, <3>2
      <4> QED
        BY <1>5, <2>1, <4>1, <4>2
    <3> QED
      BY <3>1, <3>2
  <2>2. CASE i # n + 1
    <3>1. i \in 1..n
      BY <2>2
    <3>2. a[i] = IF i <= k THEN c + b + i ELSE Over
      BY <1>5, <1>6, <3>1
    <3>3. i <= j <=> i <= k
      BY <1>1, <3>1
    <3> QED
      BY <3>2, <3>3
  <2> QED
    BY <2>1, <2>2
<1>8. queue'[s] = a /\ Len(queue'[s]) = n + 1 /\ Len(backlog'[s]) = b
  BY <1>2, <1>4, <1>5
<1>9. j <= n + 1
  BY <1>1, <1>6
<1>10. sent'[at[s]] = c + b + j
  BY <1>2
<1>11. j < n + 1 => done'[at[s]]
  BY <1>1
<1> QED
  BY <1>2, <1>7, <1>8, <1>9, <1>10, <1>11 DEF Joined

\* A subscriber's queue that takes no more holds something.
LEMMA FullHolds ==
  ASSUME BrokerInv, NEW s \in Streams, ~Room(s)
  PROVE  queue[s] # <<>>
<1>1. Len(queue[s]) \in Nat /\ MaxFrames \in Nat \ {0}
  BY StreamTypes, BrokerAssumption
<1>2. Len(queue[s]) # 0
  BY <1>1 DEF Room
<1> QED
  BY <1>2, EmptySeq

\* The sentinel follows the last frame.
LEMMA FinishesJoins ==
  ASSUME BrokerInv, StreamInv, NEW r \in Runs, Finishes(r),
         UNCHANGED <<sent, subs, streamVars>>
  PROVE  StreamInv'
<1> SUFFICES ASSUME NEW s \in Streams PROVE StreamOK(s)'
  BY DEF StreamInv
<1>1. /\ UNCHANGED <<sent, subs, view, at, backlog, last>>
      /\ queue'[s] = IF s \in subs[r] /\ Room(s) THEN Append(queue[s], Over) ELSE queue[s]
  BY DEF streamVars, Finishes, Puts
<1>2. \A q \in Runs : done[q] => done'[q]
  BY DEF Finishes, BrokerInv, TypeOK, RunTypeOK
<1>3. StreamOK(s) /\ (view[s] # "away" => at[s] \in Runs)
  BY StreamTypes DEF StreamInv
<1>4. CASE s \in subs[r] /\ Room(s)
  <2>1. r = at[s] /\ Follows(s)
    BY <1>3, <1>4 DEF StreamOK
  <2>2. PICK c, k \in Nat : Joined(s, c, k)
    BY <1>3, <2>1 DEF StreamOK
  <2>3. queue'[s] = Append(queue[s], Over)
    BY <1>1, <1>4
  <2>4. done'[at[s]]
    BY <2>1 DEF Finishes, BrokerInv, TypeOK, RunTypeOK
  <2>5. sent'[at[s]] = c + Len(backlog[s]) + k
    BY <1>1, <1>4, <2>1, <2>2 DEF Joined
  <2>6. Over \in 0..Length
    BY BrokerAssumption DEF Over
  <2>7. Joined(s, c, k)'
    BY <1>1, <1>4, <2>1, <2>2, <2>3, <2>4, <2>5, <2>6, AppendJoins
  <2>8. (\E a, b \in Nat : Joined(s, a, b))'
    BY <2>7
  <2>9. view[s] \in { "backlog", "live" } /\ (view[s] = "live" => backlog[s] = <<>>)
    BY <1>3, <2>1 DEF StreamOK, Follows
  <2>10. \A q \in Runs : s \in subs[q] => q = at[s]
    BY <1>3 DEF StreamOK
  <2> QED
    BY <1>1, <1>4, <2>1, <2>8, <2>9, <2>10 DEF StreamOK, Follows
<1>5. CASE ~(s \in subs[r] /\ Room(s))
  <2>1. queue'[s] = queue[s]
    BY <1>1, <1>5
  <2> QED
    BY <1>1, <1>2, <1>3, <2>1, Aside
<1> QED
  BY <1>4, <1>5

\* A frame follows the frame before it, for every subscriber with room; one without
\* is dropped, with what its queue holds still to come.
LEMMA PublishJoins ==
  ASSUME BrokerInv, StreamInv, NEW r \in Runs, Publish(r)
  PROVE  StreamInv'
<1> SUFFICES ASSUME NEW s \in Streams PROVE StreamOK(s)'
  BY DEF StreamInv
<1>1. /\ UNCHANGED <<done, view, at, backlog, last>>
      /\ subs' = [subs EXCEPT ![r] = { t \in subs[r] : Room(t) }]
      /\ queue'[s] = IF s \in subs[r] /\ Room(s) THEN Append(queue[s], sent'[r]) ELSE queue[s]
  BY DEF streamVars, Publish, Puts
<1>2. /\ sent[r] \in Nat /\ sent'[r] = sent[r] + 1 /\ sent'[r] \in 0..Length
      /\ \A q \in Runs : q # r => sent'[q] = sent[q]
  BY BrokerAssumption DEF Publish, BrokerInv, TypeOK, RunTypeOK
<1>3. ~done[r]
  BY DEF Publish, BrokerInv, OneRun
<1>4. StreamOK(s) /\ (view[s] # "away" => at[s] \in Runs)
  BY StreamTypes DEF StreamInv
<1>5. /\ \A q \in Runs : s \in subs'[q] <=> (s \in subs[q] /\ (q = r => Room(s)))
  BY <1>1 DEF BrokerInv, TypeOK, RunTypeOK
<1>6. CASE s \in subs[r]
  <2>1. r = at[s] /\ Follows(s)
    BY <1>4, <1>6 DEF StreamOK
  <2>2. PICK c, k \in Nat : Joined(s, c, k)
    BY <1>4, <2>1 DEF StreamOK
  <2>3. k = Len(queue[s]) /\ Len(queue[s]) \in Nat /\ Len(backlog[s]) \in Nat
    BY <1>3, <2>1, <2>2, StreamTypes DEF Joined
  <2>4. sent[r] = c + Len(backlog[s]) + k
    BY <1>6, <2>1, <2>2 DEF Joined
  <2>5. view[s] \in { "backlog", "live" } /\ (view[s] = "live" => backlog[s] = <<>>)
    BY <1>4, <2>1 DEF StreamOK, Follows
  <2>6. \A q \in Runs : s \in subs[q] => q = at[s]
    BY <1>4 DEF StreamOK
  <2>7. CASE Room(s)
    <3>1. queue'[s] = Append(queue[s], sent'[r])
      BY <1>1, <1>6, <2>7
    <3>2. sent'[r] # Over /\ sent'[at[s]] = c + Len(backlog[s]) + (k + 1)
      <4>1. PICK b \in Nat : b = Len(backlog[s])
        BY <2>3
      <4>2. sent'[at[s]] = sent[r] + 1
        BY <1>2, <2>1
      <4>3. sent[r] = c + b + k
        BY <2>4, <4>1
      <4>4. sent[r] + 1 = c + b + (k + 1)
        BY <4>3
      <4>5. sent'[r] # Over
        BY <1>2 DEF Over
      <4>6. sent'[at[s]] = c + b + (k + 1)
        BY <4>2, <4>4
      <4> QED
        BY <4>1, <4>5, <4>6
    <3>3. PICK x \in 0..Length : x = sent'[r] /\ x # Over
      BY <1>2, <3>2
    <3>4. PICK j \in Nat : j = k + 1
      OBVIOUS
    <3>5. Joined(s, c, j)'
      BY <1>1, <1>6, <2>1, <2>2, <2>3, <3>1, <3>2, <3>3, <3>4, AppendJoins
    <3>6. (\E a, b \in Nat : Joined(s, a, b))'
      BY <3>5
    <3>7. s \in subs'[r]
      BY <1>5, <1>6, <2>7
    <3> QED
      BY <1>1, <1>5, <2>1, <2>5, <2>6, <3>6, <3>7 DEF StreamOK, Follows
  <2>8. CASE ~Room(s)
    <3>1. queue'[s] = queue[s] /\ queue'[s] # <<>>
      BY <1>1, <2>8, FullHolds
    <3>2. s \notin subs'[at[s]]
      BY <1>5, <2>1, <2>8
    <3>3. Joined(s, c, k)'
      <4>1. at'[s] = at[s] /\ backlog'[s] = backlog[s] /\ last'[s] = last[s]
        BY <1>1
      <4>2. k = Len(queue'[s]) /\ Len(queue'[s]) \in Nat
        BY <2>3, <3>1, Zenon
      <4>3. s \notin subs'[at'[s]]
        BY <3>2, <4>1, Zenon
      <4>4. ~(k < Len(queue'[s]))
        BY <4>2
      <4> QED
        BY <2>2, <3>1, <4>1, <4>3, <4>4 DEF Joined
    <3>4. (\E a, b \in Nat : Joined(s, a, b))'
      BY <3>3
    <3> QED
      BY <1>1, <1>5, <2>1, <2>5, <2>6, <3>1, <3>4 DEF StreamOK, Follows
  <2> QED
    BY <2>7, <2>8
<1>7. CASE s \notin subs[r]
  <2>1. queue'[s] = queue[s] /\ \A q \in Runs : s \in subs'[q] <=> s \in subs[q]
    BY <1>1, <1>5, <1>7
  <2>2. CASE view[s] # "away" /\ at[s] = r
    <3>1. view[s] # "over"
      BY <1>3, <1>4, <2>2 DEF StreamOK
    <3>2. ASSUME Follows(s) PROVE (\E a, b \in Nat : Joined(s, a, b))'
      <4>1. PICK c, k \in Nat : Joined(s, c, k)
        BY <1>4, <3>2 DEF StreamOK
      <4>2. ~(k < Len(queue[s]))
        BY <1>3, <2>2, <4>1 DEF Joined
      <4>3. Joined(s, c, k)'
        BY <1>1, <1>7, <2>1, <2>2, <4>1, <4>2 DEF Joined
      <4> QED
        BY <4>3
    <3>3. (Follows(s) => \E a, b \in Nat : Joined(s, a, b))'
      BY <1>1, <3>2 DEF Follows
    <3>4. \A q \in Runs : s \in subs'[q] => q = at'[s] /\ Follows(s)'
      BY <1>1, <1>4, <2>1 DEF StreamOK, Follows
    <3> QED
      BY <1>1, <1>4, <1>7, <2>1, <2>2, <3>1, <3>3, <3>4 DEF StreamOK
  <2>3. CASE ~(view[s] # "away" /\ at[s] = r)
    BY <1>1, <1>2, <1>4, <2>1, <2>3, Aside
  <2> QED
    BY <2>2, <2>3
<1> QED
  BY <1>6, <1>7

\* Nothing a stream is made of changes: an ended run is forgotten, a cancel asks, or
\* a run is unwound that never began.
LEMMA NothingJoins ==
  ASSUME BrokerInv, StreamInv, UNCHANGED <<done, sent, subs, queue, streamVars>>
  PROVE  StreamInv'
<1> SUFFICES ASSUME NEW s \in Streams PROVE StreamOK(s)'
  BY DEF StreamInv
<1>1. StreamOK(s) /\ (view[s] # "away" => at[s] \in Runs)
  BY StreamTypes DEF StreamInv
<1>2. UNCHANGED <<done, sent, subs, queue, view, at, backlog, last>>
  BY DEF streamVars
<1> QED
  BY <1>1, <1>2, Aside

\* Every step keeps the streams' invariant.
LEMMA NextJoins == BrokerInv /\ StreamInv /\ [Next]_vars => StreamInv'
<1> SUFFICES ASSUME BrokerInv, StreamInv, [Next]_vars PROVE StreamInv'
  OBVIOUS
<1>1. CASE UNCHANGED vars
  BY <1>1, NothingJoins DEF vars, runVars
<1>2. ASSUME NEW r \in Runs, Pump(r) PROVE StreamInv'
  <2>1. CASE Publish(r)
    BY <2>1, PublishJoins
  <2>2. CASE PumpEnds(r)
    BY <2>2, FinishesJoins DEF PumpEnds
  <2>3. CASE Unwound(r)
    BY <2>3, FinishesJoins, NothingJoins DEF Unwound
  <2> QED
    BY <1>2, <2>1, <2>2, <2>3 DEF Pump
<1>3. ASSUME NEW s \in Streams, Press(s) \/ Reads(s) \/ Leave(s) PROVE StreamInv'
  BY <1>3, PressJoins, SubscribeJoins, ReplayJoins, GoLiveJoins, GetJoins, LeaveJoins DEF Reads
<1>4. ASSUME NEW k \in Cancels, CancelAsks(k) PROVE StreamInv'
  BY <1>4, NothingJoins DEF CancelAsks
<1>5. ASSUME NEW k \in Cancels, CancelReturns(k) PROVE StreamInv'
  <2>1. PICK r \in Runs : r = waits[k]
    BY <1>5, BrokerAssumption DEF CancelReturns, BrokerInv, TypeOK, RunTypeOK, Runs, NoRun
  <2> QED
    BY <1>5, <2>1, FinishesJoins DEF CancelReturns
<1>6. CASE Evict
  BY <1>6, NothingJoins DEF Evict
<1> QED
  BY <1>1, <1>2, <1>3, <1>4, <1>5, <1>6 DEF Next

\* The inductive invariant of the streams holds throughout.
THEOREM StreamSafety == Spec => []StreamInv
<1> QED
  BY StreamsInit, NextJoins, RegistrySafety, PTL DEF Spec

\* What a stream has yielded, has still to replay and has queued are consecutive
\* frames of its run: the copy of run.frames and the queue registered beside it meet
\* without a gap and without a repetition, wherever in the run it subscribed, and
\* also when a full queue has dropped it.
THEOREM StreamsAreConsecutive == Spec => []Consecutive
<1>1. BrokerInv /\ StreamInv => Consecutive
  <2> SUFFICES ASSUME BrokerInv, StreamInv, NEW s \in Streams,
                      view[s] \in { "backlog", "live" },
                      NEW i \in DOMAIN (backlog[s] \o queue[s]),
                      (backlog[s] \o queue[s])[i] # Over
               PROVE  /\ i > 1 => /\ (backlog[s] \o queue[s])[i - 1] # Over
                                  /\ (backlog[s] \o queue[s])[i]
                                       = (backlog[s] \o queue[s])[i - 1] + 1
                      /\ i = 1 /\ last[s] # 0 => (backlog[s] \o queue[s])[i] = last[s] + 1
    BY DEF Consecutive
  <2>1. PICK c, k \in Nat : Joined(s, c, k)
    BY DEF StreamInv, StreamOK, Follows
  <2>2. PICK a : a = backlog[s] \o queue[s]
    OBVIOUS
  <2>3. PICK b \in Nat : b = Len(backlog[s])
    BY StreamTypes
  <2>4. PICK n \in Nat : n = Len(queue[s])
    BY StreamTypes
  <2>5. /\ DOMAIN a = 1..b + n
        /\ \A j \in 1..b + n : a[j] = IF j <= b THEN backlog[s][j] ELSE queue[s][j - b]
    <3>1. backlog[s] \in Seq(0..Length)
      <4>1. backlog[s] \in Seq(1..Length)
        BY StreamTypes
      <4>2. 1..Length \subseteq 0..Length
        BY BrokerAssumption
      <4> QED
        BY <4>1, <4>2, SeqMonotonic
    <3>2. queue[s] \in Seq(0..Length)
      BY StreamTypes
    <3>3. /\ a \in Seq(0..Length) /\ Len(a) = b + n
          /\ \A j \in 1..b + n : a[j] = IF j <= b THEN backlog[s][j] ELSE queue[s][j - b]
      BY <2>2, <2>3, <2>4, <3>1, <3>2, ConcatProperties
    <3> QED
      BY <3>3
  <2>6. /\ \A j \in 1..b : backlog[s][j] = c + j
        /\ k <= n
        /\ \A j \in 1..n : queue[s][j] = IF j <= k THEN c + b + j ELSE Over
        /\ (last[s] # 0 => c = last[s])
    BY <2>1, <2>3, <2>4 DEF Joined
  <2>7. \A j \in 1..b + n : a[j] = IF j <= b + k THEN c + j ELSE Over
    <3> SUFFICES ASSUME NEW j \in 1..b + n
                 PROVE  a[j] = IF j <= b + k THEN c + j ELSE Over
      OBVIOUS
    <3>1. CASE j <= b
      <4>1. j \in 1..b /\ a[j] = backlog[s][j]
        BY <2>5, <3>1
      <4>2. a[j] = c + j
        BY <2>6, <4>1
      <4>3. j <= b + k
        BY <3>1
      <4> QED
        BY <4>2, <4>3
    <3>2. CASE ~(j <= b)
      <4>1. PICK m \in 1..n : j = b + m
        <5>1. j - b \in 1..n /\ j = b + (j - b)
          BY <3>2
        <5> QED
          BY <5>1
      <4>2. a[j] = queue[s][m]
        <5>1. a[j] = queue[s][j - b] /\ j - b = m
          BY <2>5, <3>2, <4>1
        <5> QED
          BY <5>1
      <4>3. a[j] = IF m <= k THEN c + b + m ELSE Over
        BY <2>6, <4>2
      <4> QED
        BY <4>1, <4>3
    <3> QED
      BY <3>1, <3>2
  <2>8. i \in 1..b + n /\ a[i] # Over /\ i <= b + k /\ a[i] = c + i
    BY <2>2, <2>5, <2>7
  <2>9. i > 1 => a[i - 1] = c + (i - 1) /\ a[i - 1] # Over
    <3> SUFFICES ASSUME i > 1 PROVE a[i - 1] = c + (i - 1) /\ a[i - 1] # Over
      OBVIOUS
    <3>1. PICK j \in 1..b + n : j = i - 1 /\ j <= b + k
      BY <2>8
    <3>2. a[j] = c + j
      BY <2>7, <3>1
    <3>3. c + j # Over
      BY <3>1 DEF Over
    <3> QED
      BY <3>1, <3>2, <3>3
  <2>10. /\ i > 1 => a[i - 1] # Over /\ a[i] = a[i - 1] + 1
         /\ i = 1 /\ last[s] # 0 => a[i] = last[s] + 1
    BY <2>6, <2>8, <2>9
  <2> QED
    BY <2>2, <2>10
<1> QED
  BY <1>1, StreamSafety, RegistrySafety, PTL

\* A stream that ended by itself has yielded the last frame of its run, and the run
\* is over: no end is taken for one that is not.
THEOREM StreamsEndWithTheRun == Spec => []EndsWithTheRun
<1>1. StreamInv => EndsWithTheRun
  BY DEF StreamInv, StreamOK, EndsWithTheRun
<1> QED
  BY <1>1, StreamSafety, PTL
=============================================================================
