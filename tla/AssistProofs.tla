---------------------------- MODULE AssistProofs ----------------------------
(***************************************************************************)
(* Proofs about Assist, for any plan, any statuses to start from and any   *)
(* number of events.  What is recorded on a step is recorded on its node,  *)
(* and nobody completes a job before its plan, however many requests are   *)
(* open; one step in flight, and the declared machine, for an operator who *)
(* has one request open at a time.                                         *)
(***************************************************************************)
EXTENDS Assist, TLAPS, WellFoundedInduction

\* The assumption the code makes of its operator.
OneRequest == \A r, s \in Requests : r = s

-----------------------------------------------------------------------------
(* Helpers.                                                                 *)

LEMMA NodeFacts == Nodes \subseteq Nat /\ NoNode \notin Nodes
BY PlanAssumption DEF Nodes, NoNode

\* Some steps have a first one.
LEMMA HasLeast ==
  ASSUME NEW S \in SUBSET Nodes, S # {}
  PROVE  \E n \in S : \A m \in S : n <= m
<1>1. Nodes \subseteq Nat
  BY NodeFacts
<1> DEFINE Less == { pair \in Nat \X Nat : pair[1] < pair[2] }
<1>2. IsWellFoundedOn(Less, Nat)
  BY NatLessThanWellFounded, Zenon DEF OpToRel
<1>3. \A a, b \in Nat : a < b => <<a, b>> \in Less
  <2> TAKE a, b \in Nat
  <2>1. <<a, b>> \in Nat \X Nat /\ <<a, b>>[1] = a /\ <<a, b>>[2] = b
    OBVIOUS
  <2> QED
    BY <2>1, Zenon
<1> HIDE DEF Less
<1>4. PICK n \in S : \A m \in S : <<m, n>> \notin Less
  BY <1>1, <1>2, WFMin, Zenon
<1>5. \A m \in S : n <= m
  <2> TAKE m \in S
  <2>1. m \in Nat /\ n \in Nat
    BY <1>1
  <2>2. ~(m < n)
    BY <2>1, <1>3, <1>4, Zenon
  <2> QED
    BY <2>1, <2>2
<1> QED
  BY <1>5

LEMMA EarliestIsIn ==
  ASSUME NEW S \in SUBSET Nodes, S # {}
  PROVE  Earliest(S) \in S
BY HasLeast DEF Earliest

-----------------------------------------------------------------------------
(* Types.                                                                   *)

LEMMA InitTypes ==
  ASSUME Init
  PROVE  AssistTypeOK
<1>1. job \in JobStatuses /\ events \in 0..MaxEvents
  BY AssistAssumption DEF Init
<1>2. st \in [Nodes -> NodeStatuses] /\ step \in [Nodes -> Fsm!StepStatuses]
  BY DEF Init, NodeStatuses, Fsm!StepStatuses
<1>3. req \in [Requests -> [op : { "idle", "next", "tail", "goto", "back", "deny" }, node : Nodes \cup {NoNode}]]
  BY DEF Init, Idle
<1>4. hand \in [at : { "off", "one", "rest", "detached", "claim", "launch", "begin", "follow", "enter",
                      "work", "tail", "restore", "settle" }, node : Nodes \cup {NoNode}]
  BY DEF Init, Off
<1> QED
  BY <1>1, <1>2, <1>3, <1>4 DEF Init, AssistTypeOK

LEMMA RequestTypes ==
  ASSUME AssistTypeOK, NEW r \in Requests, Request(r)
  PROVE  AssistTypeOK'
<1>1. CASE Reopen(r)
  BY <1>1, AssistAssumption
  DEF AssistTypeOK, Reopen, Event, execVars, JobStatuses, NodeStatuses, Fsm!StepStatuses
<1>2. CASE Start(r)
  <2> DEFINE moved   == IF job \in Startable \ {"awaiting_decision", "assisted_executing", "assisted_running"}
                          THEN "assisted_executing" ELSE job
             reached == IF session = "none" \/ (session = "paused" /\ job = "assisted_paused")
                          THEN "active" ELSE session
             seeded  == Seeded(st)
             revived == Revivable(seeded)
             live    == IF revived # {} THEN "active" ELSE reached
  <2>1. seeded \in [Nodes -> Fsm!StepStatuses]
    BY DEF Seeded, AssistTypeOK, Fsm!StepStatuses
  <2>2. step' \in [Nodes -> Fsm!StepStatuses]
    <3>1. step' = [n \in Nodes |->
                     IF n \in revived \/ (revived # {} /\ seeded[n] = "presented")
                       THEN "pending" ELSE seeded[n]]
      BY <1>2, Zenon DEF Start
    <3> HIDE DEF seeded, revived
    <3> QED
      BY <3>1, <2>1 DEF Fsm!StepStatuses
  <2>3. cursor' \in Nodes \cup {NoNode}
    <3>1. revived \in SUBSET Nodes
      BY DEF Revivable
    <3>2. cursor' = IF revived # {} THEN Earliest(revived) ELSE cursor
      BY <1>2, Zenon DEF Start
    <3> HIDE DEF revived
    <3> QED
      BY <3>1, <3>2, EarliestIsIn DEF AssistTypeOK
  <2>4. session' \in { "none", "active", "paused", "completed", "abandoned" }
    <3>1. session' \in {"completed", live}
      BY <1>2, Zenon DEF Start
    <3> QED
      BY <3>1 DEF AssistTypeOK
  <2>5. job' \in JobStatuses
    <3>1. job' \in {"completed", moved}
      BY <1>2, Zenon DEF Start
    <3> QED
      BY <3>1 DEF AssistTypeOK, JobStatuses
  <2>6. UNCHANGED <<st, req, hand, run, drawn>> /\ Event
    BY <1>2, Zenon DEF Start, execVars
  <2>7. events' \in 0..MaxEvents
    BY <2>6, AssistAssumption DEF AssistTypeOK, Event
  <2> QED
    BY <2>2, <2>3, <2>4, <2>5, <2>6, <2>7 DEF AssistTypeOK
<1>3. CASE Represent(r)
  <2>1. InFlight \in SUBSET Nodes
    BY DEF InFlight
  <2>2. Earliest(InFlight) \in Nodes
    BY <1>3, <2>1, EarliestIsIn DEF Represent
  <2> QED
    BY <1>3, <2>2 DEF AssistTypeOK, Represent, planVars, execVars
<1>4. CASE NextLooks(r)
  BY <1>4 DEF AssistTypeOK, NextLooks, Opens, planVars, walkVars, execVars
<1>5. CASE NextClaims(r)
  <2>1. Waiting \in SUBSET Nodes
    BY DEF Waiting
  <2>2. Waiting # {} => Earliest(Waiting) \in Nodes
    BY <2>1, EarliestIsIn
  <2> QED
    BY <1>5, <2>2
    DEF AssistTypeOK, NextClaims, Closes, Idle, execVars, Fsm!StepStatuses, JobStatuses
<1>6. CASE Advance(r)
  <2> DEFINE left == { n \in Nodes : step[n] \in Open }
  <2>1. left # {} => Earliest(left) \in Nodes
    BY EarliestIsIn
  <2> HIDE DEF left
  <2>2. cursor' \in {cursor, Earliest(left)} /\ (left = {} => cursor' = cursor)
    BY <1>6 DEF Advance, left
  <2>3. job' \in {job, "completed"} /\ session' \in {session, "completed"}
    BY <1>6 DEF Advance, Finalize, WalkOver
  <2> QED
    BY <1>6, <2>1, <2>2, <2>3
    DEF AssistTypeOK, Advance, Closes, Idle, execVars, JobStatuses
<1>7. CASE GotoWrites(r)
  BY <1>7
  DEF AssistTypeOK, GotoWrites, Shows, Closes, Idle, planVars, execVars, Fsm!StepStatuses
<1>8. CASE Reopens(r)
  BY <1>8
  DEF AssistTypeOK, Reopens, Shows, Closes, Idle, execVars, Fsm!StepStatuses, NodeStatuses
<1>9. ASSUME NEW n \in Nodes, NEW s \in {"committed", "skipped"}, Submit(r, n, s)
      PROVE  AssistTypeOK'
  BY <1>9
  DEF AssistTypeOK, Submit, Opens, execVars, Fsm!StepStatuses, NodeStatuses, SettledStatuses
<1>10. ASSUME NEW n \in Nodes, GotoReads(r, n) \/ BackReads(r, n) \/ DenyReads(r, n)
       PROVE  AssistTypeOK'
  BY <1>10, AssistAssumption
  DEF AssistTypeOK, GotoReads, BackReads, DenyReads, Opens, Event, planVars, walkVars, execVars
<1>11. ASSUME NEW n \in Nodes, HandOver(r, n)
       PROVE  AssistTypeOK'
  <2>1. step' \in [Nodes -> Fsm!StepStatuses]
    BY <1>11 DEF AssistTypeOK, HandOver, Marked, Fsm!StepStatuses
  <2> QED
    BY <1>11, <2>1, AssistAssumption DEF AssistTypeOK, HandOver, Event, planVars
<1> QED
  BY <1>1, <1>2, <1>3, <1>4, <1>5, <1>6, <1>7, <1>8, <1>9, <1>10, <1>11 DEF Request

LEMMA StreamTypes ==
  ASSUME AssistTypeOK, Stream
  PROVE  AssistTypeOK'
<1>1. CASE Switch
  <2>1. job' \in JobStatuses
    BY <1>1 DEF AssistTypeOK, Switch, JobStatuses
  <2>2. hand' \in { [hand EXCEPT !.at = a] : a \in {"claim", "launch", "begin"} }
    BY <1>1 DEF Switch, Goes
  <2> QED
    BY <1>1, <2>1, <2>2 DEF AssistTypeOK, Switch, walkVars
<1>2. CASE Launch
  BY <1>2, NodeFacts DEF AssistTypeOK, Launch, Off, walkVars, JobStatuses
<1>3. CASE ClaimOne
  BY <1>3 DEF AssistTypeOK, ClaimOne, Goes, walkVars, NodeStatuses
<1>4. CASE Enter
  <2>1. job' \in JobStatuses
    BY <1>4 DEF AssistTypeOK, Enter, JobStatuses
  <2>2. hand' \in { [hand EXCEPT !.at = a] : a \in {"work", "restore"} }
    BY <1>4 DEF Enter, Goes
  <2> QED
    BY <1>4, <2>1, <2>2 DEF AssistTypeOK, Enter, walkVars
<1>5. CASE Work
  BY <1>5 DEF AssistTypeOK, Work, Goes, walkVars, NodeStatuses
<1>6. CASE Cut
  <2>1. hand' \in { [hand EXCEPT !.at = a] : a \in {"settle", "restore"} } \cup {Off}
    BY <1>6 DEF Cut, Goes
  <2>2. hand' \in [at : { "off", "one", "rest", "detached", "claim", "launch", "begin", "follow", "enter",
                         "work", "tail", "restore", "settle" }, node : Nodes \cup {NoNode}]
    BY <2>1 DEF AssistTypeOK, Off
  <2> QED
    BY <1>6, <2>2, AssistAssumption DEF AssistTypeOK, Cut, Event, planVars, walkVars
<1>7. CASE Tail1
  BY <1>7 DEF AssistTypeOK, Tail1, Completed, Goes, walkVars, JobStatuses
<1>8. CASE Restore
  BY <1>8 DEF AssistTypeOK, Restore, Goes, walkVars, JobStatuses
<1>9. CASE Settle
  BY <1>9 DEF AssistTypeOK, Settle, Off, planVars
<1> QED
  BY <1>1, <1>2, <1>3, <1>4, <1>5, <1>6, <1>7, <1>8, <1>9 DEF Stream

LEMMA ExecutorTypes ==
  ASSUME AssistTypeOK, Executor
  PROVE  AssistTypeOK'
<1>1. CASE RunAll
  BY <1>1, AssistAssumption DEF AssistTypeOK, RunAll, Event, walkVars, JobStatuses
<1>2. CASE RunEnds
  <2>1. job' \in JobStatuses
    BY <1>2 DEF AssistTypeOK, RunEnds, JobStatuses
  <2> QED
    BY <1>2, <2>1 DEF AssistTypeOK, RunEnds, walkVars, NodeStatuses
<1>3. ASSUME NEW n \in Nodes, RunClaims(n)
      PROVE  AssistTypeOK'
  BY <1>3 DEF AssistTypeOK, RunClaims, walkVars, NodeStatuses
<1>4. ASSUME NEW n \in Nodes, RunEndsStep(n)
      PROVE  AssistTypeOK'
  BY <1>4 DEF AssistTypeOK, RunEndsStep, walkVars, NodeStatuses
<1>5. ASSUME NEW n \in Nodes, Reap(n)
      PROVE  AssistTypeOK'
  BY <1>5 DEF AssistTypeOK, Reap, walkVars, execVars, NodeStatuses
<1> QED
  BY <1>1, <1>2, <1>3, <1>4, <1>5 DEF Executor

LEMMA NextTypes ==
  ASSUME AssistTypeOK, Next \/ UNCHANGED vars
  PROVE  AssistTypeOK'
<1>1. CASE Pause \/ Resume \/ Abandon \/ CancelJob
  BY <1>1, AssistAssumption
  DEF AssistTypeOK, Pause, Resume, Abandon, CancelJob, Event, walkVars, execVars, JobStatuses
<1>2. CASE UNCHANGED vars
  BY <1>2 DEF AssistTypeOK, vars, planVars, walkVars, execVars
<1> QED
  BY <1>1, <1>2, RequestTypes, StreamTypes, ExecutorTypes DEF Next

-----------------------------------------------------------------------------
(* Everybody but the operator's requests moves beside the walk: the steps   *)
(* and the cursor stay, a session only ends, settled nodes stay as they     *)
(* are, and no node is skipped.                                             *)

Beside ==
  /\ UNCHANGED <<cursor, step, req>>
  /\ SessionLive' => SessionLive
  /\ session' = "none" <=> session = "none"
  /\ st' \in [Nodes -> NodeStatuses]
  /\ \A n \in Nodes : Settled(n) => st'[n] = st[n]
  /\ \A n \in Nodes : st'[n] = "skipped" => st[n] = "skipped"

LEMMA StreamBeside ==
  ASSUME AssistTypeOK, Stream
  PROVE  Beside
<1>1. CASE Switch \/ Launch \/ Enter \/ Cut \/ Tail1 \/ Restore
  BY <1>1
  DEF AssistTypeOK, Switch, Launch, Enter, Cut, Tail1, Restore, Beside, SessionLive, Settled, walkVars, planVars
<1>2. CASE ClaimOne
  BY <1>2 DEF AssistTypeOK, ClaimOne, Beside, SessionLive, Settled, SettledStatuses, NodeStatuses, walkVars
<1>3. CASE Work
  BY <1>3 DEF AssistTypeOK, Work, Beside, SessionLive, Settled, SettledStatuses, NodeStatuses, walkVars
<1>4. CASE Settle
  BY <1>4 DEF AssistTypeOK, Settle, Beside, SessionLive, Settled, planVars
<1> QED
  BY <1>1, <1>2, <1>3, <1>4 DEF Stream

LEMMA ExecutorBeside ==
  ASSUME AssistTypeOK, Executor
  PROVE  Beside
<1>1. CASE RunAll
  BY <1>1 DEF AssistTypeOK, RunAll, Beside, SessionLive, Settled, walkVars
<1>2. CASE RunEnds
  BY <1>2 DEF AssistTypeOK, RunEnds, Beside, SessionLive, Settled, SettledStatuses, NodeStatuses, walkVars
<1>3. ASSUME NEW n \in Nodes, RunClaims(n) \/ RunEndsStep(n) \/ Reap(n)
      PROVE  Beside
  BY <1>3
  DEF AssistTypeOK, RunClaims, RunEndsStep, Reap, Ready, Beside, SessionLive, Settled, SettledStatuses,
      NodeStatuses, walkVars
<1> QED
  BY <1>1, <1>2, <1>3 DEF Executor

LEMMA OthersBeside ==
  ASSUME AssistTypeOK, Next \/ UNCHANGED vars, ~\E r \in Requests : Request(r)
  PROVE  Beside
<1>1. CASE Pause \/ Resume \/ Abandon \/ CancelJob
  BY <1>1
  DEF AssistTypeOK, Pause, Resume, Abandon, CancelJob, Beside, SessionLive, Settled, walkVars, execVars
<1>2. CASE UNCHANGED vars
  BY <1>2 DEF AssistTypeOK, vars, planVars, walkVars, Beside, SessionLive, Settled
<1> QED
  BY <1>1, <1>2, StreamBeside, ExecutorBeside DEF Next

-----------------------------------------------------------------------------
(* However many requests are open: what is recorded on a step is recorded   *)
(* on its node, and everything left to do has a step.                       *)

Kept == AssistTypeOK /\ SettledMirrored /\ EverythingSeeded

LEMMA BesideKept ==
  ASSUME Kept, Beside
  PROVE  SettledMirrored' /\ EverythingSeeded'
BY DEF Kept, Beside, SettledMirrored, EverythingSeeded, Settled

\* A request that leaves the nodes alone gives no step an outcome and unseeds none.
LEMMA ShownKept ==
  ASSUME Kept, st' = st, session # "none",
         \A n \in Nodes : step'[n] \in {"committed", "skipped"} => step'[n] = step[n],
         \A n \in Nodes : step'[n] = "absent" => step[n] = "absent"
  PROVE  SettledMirrored' /\ EverythingSeeded'
BY DEF Kept, SettledMirrored, EverythingSeeded, Settled

\* What a request knows of the session from when it opened.
Begun == \A r \in Requests : req[r] # Idle => session # "none"

LEMMA RequestKept ==
  ASSUME Kept, Begun, NEW r \in Requests, Request(r)
  PROVE  SettledMirrored' /\ EverythingSeeded'
<1>1. CASE Reopen(r)
  BY <1>1 DEF Reopen, SettledMirrored, EverythingSeeded, Settled, SettledStatuses
<1>2. CASE Start(r)
  <2> DEFINE seeded  == Seeded(st)
             revived == Revivable(seeded)
  <2>1. st' = st
    BY <1>2, Zenon DEF Start
  <2>2. step' = [n \in Nodes |->
                   IF n \in revived \/ (revived # {} /\ seeded[n] = "presented")
                     THEN "pending" ELSE seeded[n]]
    BY <1>2, Zenon DEF Start
  <2>3. \A n \in Nodes : step'[n] \in {"pending", seeded[n]}
    <3> HIDE DEF seeded, revived
    <3> QED
      BY <2>2
  <2>4. \A n \in Nodes : /\ seeded[n] \in {"committed", "skipped"} => Settled(n)
                         /\ seeded[n] = "absent" => Settled(n)
    BY DEF Seeded, Kept, AssistTypeOK, SettledMirrored, Settled
  <2> QED
    BY <2>1, <2>3, <2>4 DEF SettledMirrored, EverythingSeeded, Settled
<1>3. CASE Represent(r) \/ NextLooks(r) \/ Advance(r)
  <2>1. st' = st /\ step' = step /\ (session' = session \/ (session # "none" /\ session' # "none"))
    BY <1>3 DEF Represent, NextLooks, Advance, Finalize, SessionLive, planVars, walkVars
  <2> QED
    BY <2>1 DEF Kept, SettledMirrored, EverythingSeeded, Settled
<1>4. CASE NextClaims(r)
  <2>1. session # "none"
    BY <1>4 DEF NextClaims, Serves, Begun, Idle
  <2> QED
    BY <1>4, <2>1, ShownKept DEF NextClaims, Kept, AssistTypeOK
<1>5. CASE GotoWrites(r)
  <2>1. session # "none"
    BY <1>5 DEF GotoWrites, Serves, Begun, Idle
  <2> QED
    BY <1>5, <2>1, ShownKept DEF GotoWrites, Shows, planVars
<1>6. CASE Reopens(r)
  BY <1>6
  DEF Reopens, Shows, Kept, AssistTypeOK, SettledMirrored, EverythingSeeded, Settled, SettledStatuses
<1>7. ASSUME NEW n \in Nodes, NEW s \in {"committed", "skipped"}, Submit(r, n, s)
      PROVE  SettledMirrored' /\ EverythingSeeded'
  BY <1>7
  DEF Submit, Kept, AssistTypeOK, SettledMirrored, EverythingSeeded, Settled, SettledStatuses
<1>8. ASSUME NEW n \in Nodes, GotoReads(r, n) \/ BackReads(r, n) \/ DenyReads(r, n)
      PROVE  SettledMirrored' /\ EverythingSeeded'
  <2>1. st' = st /\ step' = step /\ session' = session
    BY <1>8 DEF GotoReads, BackReads, DenyReads, planVars, walkVars
  <2> QED
    BY <2>1 DEF Kept, SettledMirrored, EverythingSeeded, Settled
<1>9. ASSUME NEW n \in Nodes, HandOver(r, n)
      PROVE  SettledMirrored' /\ EverythingSeeded'
  <2>1. st' = st /\ session # "none"
    BY <1>9 DEF HandOver, planVars
  <2>2. PICK S : step' = Marked(S)
    BY <1>9 DEF HandOver
  <2> QED
    BY <2>1, <2>2, ShownKept DEF Marked
<1> QED
  BY <1>1, <1>2, <1>3, <1>4, <1>5, <1>6, <1>7, <1>8, <1>9 DEF Request

LEMMA BegunKept ==
  ASSUME AssistTypeOK, Begun, Next \/ UNCHANGED vars
  PROVE  Begun'
<1>1. CASE ~\E r \in Requests : Request(r)
  BY <1>1, OthersBeside DEF Beside, Begun
<1>2. ASSUME NEW r \in Requests, Request(r)
      PROVE  Begun'
  <2>1. CASE Reopen(r)
    BY <2>1 DEF Reopen, Begun
  <2>2. CASE Start(r)
    <3>1. req' = req /\ (session' = "none" => session = "none")
      <4> DEFINE reached == IF session = "none" \/ (session = "paused" /\ job = "assisted_paused")
                              THEN "active" ELSE session
      <4>1. session' \in {"completed", "active", reached}
        BY <2>2, Zenon DEF Start
      <4>2. req' = req
        BY <2>2, Zenon DEF Start
      <4> QED
        BY <4>1, <4>2
    <3> QED
      BY <3>1 DEF Begun
  <2>3. CASE Represent(r) \/ NextLooks(r) \/ NextClaims(r) \/ GotoWrites(r) \/ Reopens(r)
    BY <2>3
    DEF Represent, NextLooks, NextClaims, GotoWrites, Reopens, Opens, Closes, AssistTypeOK, Begun, Serves,
        Idle, planVars, walkVars, execVars
  <2>4. CASE Advance(r)
    <3>1. session' \in {session, "completed"}
      BY <2>4 DEF Advance, Finalize
    <3> QED
      BY <2>4, <3>1 DEF Advance, Closes, AssistTypeOK, Begun, Idle
  <2>5. ASSUME NEW n \in Nodes, NEW s \in {"committed", "skipped"}, Submit(r, n, s)
        PROVE  Begun'
    BY <2>5 DEF Submit, Submittable, SessionLive, Opens, AssistTypeOK, Begun
  <2>6. ASSUME NEW n \in Nodes, GotoReads(r, n) \/ BackReads(r, n) \/ DenyReads(r, n)
        PROVE  Begun'
    BY <2>6 DEF GotoReads, BackReads, DenyReads, SessionLive, Opens, AssistTypeOK, Begun, walkVars
  <2>7. ASSUME NEW n \in Nodes, HandOver(r, n)
        PROVE  Begun'
    BY <2>7 DEF HandOver, Begun
  <2> QED
    BY <1>2, <2>1, <2>2, <2>3, <2>4, <2>5, <2>6, <2>7 DEF Request
<1> QED
  BY <1>1, <1>2

\* So nobody who walks is at a loss: the first node that is left is next, or it
\* was handed off.
LEMMA NotAtALoss ==
  ASSUME Kept
  PROVE  NeverAtALoss
<1> SUFFICES ASSUME session # "none", InFlight = {}, NEW k \in Nodes, ~Settled(k),
                    ~\E n \in Nodes : step[n] = "handed_off" /\ ~Settled(n)
             PROVE  Waiting # {}
  BY DEF NeverAtALoss
<1> DEFINE Left == { n \in Nodes : ~Settled(n) }
<1>1. PICK m \in Left : \A n \in Left : m <= n
  BY HasLeast
<1>2. step[m] = "pending"
  BY DEF Kept, AssistTypeOK, SettledMirrored, EverythingSeeded, InFlight, Fsm!StepStatuses
<1>3. DepsMet(m)
  <2> SUFFICES ASSUME NEW d \in Deps[m] PROVE Settled(d)
    BY DEF DepsMet
  <2>1. d \in Nodes /\ d < m /\ m \in Nat /\ d \in Nat
    BY PlanAssumption DEF Nodes
  <2> QED
    BY <1>1, <2>1
<1> QED
  BY <1>2, <1>3 DEF Waiting

\* Recorded on a step is recorded on its node (_mirror_node_committed, in the
\* transaction of the submission); what is left has a step; /next finds one.
THEOREM WalkKept == Spec => [](SettledMirrored /\ EverythingSeeded /\ NeverAtALoss)
<1>1. Init => Kept /\ Begun
  BY InitTypes DEF Init, Kept, Begun, SettledMirrored, EverythingSeeded
<1>2. Kept /\ Begun /\ [Next]_vars => Kept' /\ Begun'
  <2> SUFFICES ASSUME Kept, Begun, Next \/ UNCHANGED vars
               PROVE  Kept' /\ Begun'
    OBVIOUS
  <2>1. AssistTypeOK' /\ Begun'
    BY NextTypes, BegunKept DEF Kept
  <2>2. CASE \E r \in Requests : Request(r)
    BY <2>1, <2>2, RequestKept DEF Kept
  <2>3. CASE ~\E r \in Requests : Request(r)
    BY <2>1, <2>3, OthersBeside, BesideKept DEF Kept
  <2> QED
    BY <2>2, <2>3
<1>3. Kept => SettledMirrored /\ EverythingSeeded /\ NeverAtALoss
  BY NotAtALoss DEF Kept
<1> QED
  BY <1>1, <1>2, <1>3, PTL DEF Spec

-----------------------------------------------------------------------------
(* Who completes the job.                                                   *)

LEMMA CompletedWhole ==
  ASSUME AssistTypeOK, Next, job' = "completed", job # "completed"
  PROVE  AllDone'
<1>1. CASE \E r \in Requests : Request(r)
  <2> PICK r \in Requests : Request(r)
    BY <1>1
  <2>1. Start(r) \/ Advance(r)
    BY DEF Request, Reopen, Represent, NextLooks, NextClaims, GotoWrites, Reopens, Submit, GotoReads,
           BackReads, DenyReads, HandOver, planVars
  <2>2. CASE Start(r)
    <3>1. st' = st
      BY <2>2, Zenon DEF Start
    <3>2. AllDone
      BY <2>2 DEF Start
    <3> QED
      BY <3>1, <3>2 DEF AllDone, Settled
  <2>3. CASE Advance(r)
    BY <2>3 DEF Advance, Finalize, WalkOver, AllDone, Settled
  <2> QED
    BY <2>1, <2>2, <2>3
<1>2. CASE ~\E r \in Requests : Request(r)
  <2>1. AllDone
    <3>1. CASE Stream
      BY <3>1
      DEF Stream, Switch, Launch, ClaimOne, Enter, Work, Cut, Tail1, Restore, Settle, Completed, planVars
    <3>2. CASE Executor
      BY <3>2 DEF Executor, RunAll, RunEnds, RunClaims, RunEndsStep, Reap
    <3>3. CASE Pause \/ Resume \/ Abandon \/ CancelJob
      BY <3>3 DEF Pause, Resume, Abandon, CancelJob
    <3> QED
      BY <1>2, <3>1, <3>2, <3>3 DEF Next
  <2> QED
    BY <1>2, <2>1, OthersBeside DEF Beside, AllDone, Settled
<1> QED
  BY <1>1, <1>2

\* Neither the walk (_maybe_finalize_session), a hand-off (its completion test)
\* nor a run completes a job whose plan is not settled.
THEOREM OnlyWhole == Spec => CompletesWhole
<1>1. Init => AssistTypeOK
  BY InitTypes
<1>2. AssistTypeOK /\ [Next]_vars => AssistTypeOK'
  BY NextTypes
<1>3. AssistTypeOK /\ [Next]_vars => [job' = "completed" /\ job # "completed" => AllDone']_vars
  BY CompletedWhole
<1> QED
  BY <1>1, <1>2, <1>3, PTL DEF Spec, CompletesWhole

-----------------------------------------------------------------------------
(* One request at a time: what a request read still holds when it writes.   *)

Unseeded == session = "none" => \A n \in Nodes : step[n] = "absent"

Held(r) ==
  /\ req[r].op \in {"next", "tail"} => InFlight = {}
  /\ Serves(r, "goto") => step[req[r].node] \in Open
  /\ req[r].op \in {"back", "deny"} => step[req[r].node] \in Finished

WalkInv ==
  Kept /\ Begun /\ Unseeded /\ OneInFlight /\ OutcomesAgree /\ \A r \in Requests : Held(r)

LEMMA BesideWalk ==
  ASSUME WalkInv, Beside
  PROVE  Unseeded' /\ OneInFlight' /\ \A r \in Requests : Held(r)'
BY DEF WalkInv, Beside, Unseeded, OneInFlight, InFlight, Held, Serves

\* Nothing is left in flight, or one step under the cursor.
Alone == \A n \in InFlight : n = cursor

LEMMA AloneIsOne ==
  ASSUME Alone'
  PROVE  OneInFlight'
BY DEF Alone, OneInFlight

\* A request that is idle, or goes back to it, reads nothing; and it is the only one.
LEMMA IdleHolds ==
  ASSUME OneRequest, NEW r \in Requests, req'[r] = Idle
  PROVE  \A x \in Requests : Held(x)'
<1>1. Held(r)'
  BY DEF Held, Serves, Idle
<1>2. \A x \in Requests : x = r
  BY DEF OneRequest
<1> QED
  BY <1>1, <1>2

LEMMA RequestWalk ==
  ASSUME OneRequest, WalkInv, NEW r \in Requests, Request(r)
  PROVE  Unseeded' /\ OneInFlight' /\ \A x \in Requests : Held(x)'
<1> USE DEF WalkInv, Kept
<1>1. CASE Reopen(r)
  <2>1. Unseeded' /\ Alone'
    BY <1>1 DEF Reopen, Unseeded, Alone, InFlight
  <2>2. req'[r] = Idle
    BY <1>1 DEF Reopen
  <2> QED
    BY <2>1, <2>2, AloneIsOne, IdleHolds
<1>2. CASE Start(r)
  <2> DEFINE reached == IF session = "none" \/ (session = "paused" /\ job = "assisted_paused")
                          THEN "active" ELSE session
             seeded  == Seeded(st)
             revived == Revivable(seeded)
             live    == IF revived # {} THEN "active" ELSE reached
  <2>1. req'[r] = Idle
    BY <1>2 DEF Start
  <2>2. step' = [n \in Nodes |->
                   IF n \in revived \/ (revived # {} /\ seeded[n] = "presented")
                     THEN "pending" ELSE seeded[n]]
    BY <1>2, Zenon DEF Start
  <2>3. session' \in {"completed", live}
    BY <1>2, Zenon DEF Start
  <2>4. cursor' = IF revived # {} THEN Earliest(revived) ELSE cursor
    BY <1>2, Zenon DEF Start
  <2>5. \A n \in Nodes : seeded[n] = "presented" => step[n] = "presented"
    BY DEF Seeded, AssistTypeOK
  <2>6. Unseeded'
    <3>1. session' # "none"
      BY <2>3
    <3> QED
      BY <3>1 DEF Unseeded
  <2>7. CASE revived # {}
    <3>1. InFlight' = {}
      <4> HIDE DEF seeded, revived
      <4> QED
        BY <2>2, <2>7 DEF InFlight
    <3> QED
      BY <2>1, <2>6, <3>1, IdleHolds DEF OneInFlight
  <2>8. CASE revived = {}
    <3>1. InFlight' \subseteq InFlight
      <4> HIDE DEF seeded, revived
      <4> QED
        BY <2>2, <2>5, <2>8 DEF InFlight
    <3>2. cursor' = cursor /\ session' \in {"completed", reached}
      <4> HIDE DEF seeded, revived
      <4> QED
        BY <2>3, <2>4, <2>8
    <3>3. session = "none" => InFlight = {}
      BY DEF Unseeded, InFlight
    <3>4. SessionLive' => SessionLive \/ session = "none"
      BY <3>2 DEF SessionLive
    <3>5. OneInFlight'
      BY <3>1, <3>2, <3>3, <3>4 DEF OneInFlight
    <3> QED
      BY <2>1, <2>6, <3>5, IdleHolds
  <2> QED
    BY <2>7, <2>8
<1>3. CASE Represent(r)
  <2>1. InFlight \in SUBSET Nodes
    BY DEF InFlight
  <2>2. Earliest(InFlight) \in InFlight
    BY <1>3, <2>1, EarliestIsIn DEF Represent
  <2>3. step' = step /\ session' = session /\ req'[r] = Idle /\ cursor' = Earliest(InFlight)
    BY <1>3 DEF Represent
  <2>4. Unseeded' /\ Alone'
    BY <2>2, <2>3 DEF Unseeded, OneInFlight, Alone, InFlight
  <2> QED
    BY <2>3, <2>4, AloneIsOne, IdleHolds
<1>4. CASE NextLooks(r)
  <2>1. step' = step /\ session' = session /\ cursor' = cursor /\ InFlight = {}
    BY <1>4 DEF NextLooks, walkVars
  <2>2. Unseeded' /\ OneInFlight' /\ InFlight' = {}
    BY <2>1 DEF Unseeded, OneInFlight, InFlight
  <2>3. req'[r].op = "next"
    BY <1>4 DEF NextLooks, Opens, AssistTypeOK
  <2>4. Held(r)'
    BY <2>2, <2>3 DEF Held, Serves
  <2> QED
    BY <2>2, <2>4 DEF OneRequest
<1>5. CASE NextClaims(r)
  <2>1. InFlight = {} /\ session # "none" /\ session' = session
    BY <1>5 DEF NextClaims, Held, Serves, Begun, Idle
  <2>2. Waiting \in SUBSET Nodes
    BY DEF Waiting
  <2>3. Waiting # {} => Earliest(Waiting) \in Nodes
    BY <2>2, EarliestIsIn
  <2>4. Unseeded' /\ Alone'
    BY <1>5, <2>1, <2>3 DEF NextClaims, Unseeded, Alone, InFlight, AssistTypeOK
  <2>5. req'[r] = Idle
    BY <1>5 DEF NextClaims, Closes, AssistTypeOK
  <2> QED
    BY <2>4, <2>5, AloneIsOne, IdleHolds
<1>6. CASE Advance(r)
  <2>1. InFlight = {} /\ step' = step
    BY <1>6 DEF Advance, Held, Serves
  <2>2. session # "none" /\ session' # "none"
    BY <1>6 DEF Advance, Finalize, Serves, Begun, Idle
  <2>3. Unseeded' /\ Alone'
    BY <2>1, <2>2 DEF Unseeded, Alone, InFlight
  <2>4. req'[r] = Idle
    BY <1>6 DEF Advance, Closes, AssistTypeOK
  <2> QED
    BY <2>3, <2>4, AloneIsOne, IdleHolds
<1>7. CASE GotoWrites(r) \/ Reopens(r)
  <2>1. PICK s \in {"presented", "pending"} : Shows(req[r].node, s)
    BY <1>7 DEF GotoWrites, Reopens
  <2>2. session # "none" /\ session' = session
    BY <1>7 DEF GotoWrites, Reopens, Serves, Begun, Idle
  <2>3. \A n \in InFlight' : n = req[r].node
    BY <2>1 DEF Shows, InFlight
  <2>4. Unseeded' /\ OneInFlight'
    BY <2>1, <2>2, <2>3 DEF Shows, Unseeded, OneInFlight, SessionLive
  <2>5. req'[r] = Idle
    BY <1>7 DEF GotoWrites, Reopens, Closes, AssistTypeOK
  <2> QED
    BY <2>4, <2>5, IdleHolds
<1>8. ASSUME NEW n \in Nodes, NEW s \in {"committed", "skipped"}, Submit(r, n, s)
      PROVE  Unseeded' /\ OneInFlight' /\ \A x \in Requests : Held(x)'
  <2>1. InFlight \subseteq {n}
    BY <1>8 DEF Submit, Submittable, OneInFlight, InFlight
  <2>2. InFlight' = {}
    BY <1>8, <2>1 DEF Submit, InFlight, AssistTypeOK
  <2>3. session' = session /\ session # "none"
    BY <1>8 DEF Submit, Submittable, SessionLive
  <2>4. Unseeded' /\ OneInFlight'
    BY <2>2, <2>3 DEF Unseeded, OneInFlight
  <2>5. req'[r].op = "tail"
    BY <1>8 DEF Submit, Opens, AssistTypeOK
  <2>6. Held(r)'
    BY <2>2, <2>5 DEF Held, Serves
  <2> QED
    BY <2>4, <2>6 DEF OneRequest
<1>9. ASSUME NEW n \in Nodes, GotoReads(r, n) \/ BackReads(r, n) \/ DenyReads(r, n)
      PROVE  Unseeded' /\ OneInFlight' /\ \A x \in Requests : Held(x)'
  <2>1. step' = step /\ session' = session /\ cursor' = cursor
    BY <1>9 DEF GotoReads, BackReads, DenyReads, walkVars
  <2>2. Unseeded' /\ OneInFlight'
    BY <2>1 DEF Unseeded, OneInFlight, InFlight, SessionLive
  <2>3. Held(r)'
    BY <1>9, <2>1
    DEF GotoReads, BackReads, DenyReads, Opens, AssistTypeOK, Held, Serves, Open, Finished
  <2> QED
    BY <2>2, <2>3 DEF OneRequest
<1>10. ASSUME NEW n \in Nodes, HandOver(r, n)
       PROVE  Unseeded' /\ OneInFlight' /\ \A x \in Requests : Held(x)'
  <2>1. PICK S : step' = Marked(S)
    BY <1>10 DEF HandOver
  <2>2. session' = session /\ cursor' = cursor /\ session # "none" /\ req'[r] = Idle
    BY <1>10 DEF HandOver
  <2>3. InFlight' \subseteq InFlight
    BY <2>1 DEF Marked, InFlight
  <2>4. Unseeded' /\ OneInFlight'
    BY <2>2, <2>3 DEF Unseeded, OneInFlight, SessionLive
  <2> QED
    BY <2>2, <2>4, IdleHolds
<1> QED
  BY <1>1, <1>2, <1>3, <1>4, <1>5, <1>6, <1>7, <1>8, <1>9, <1>10 DEF Request

\* A node that was skipped is skipped for its step too; a step that is committed
\* finds its node not skipped.
LEMMA BesideAgrees ==
  ASSUME WalkInv, Beside
  PROVE  OutcomesAgree'
BY DEF WalkInv, Beside, OutcomesAgree, Settled, SettledStatuses

\* A request that leaves the nodes alone, commits nothing and reopens no skipped step.
LEMMA ShownAgrees ==
  ASSUME OutcomesAgree, st' = st,
         \A n \in Nodes : step'[n] = "committed" => step[n] = "committed",
         \A n \in Nodes : step[n] = "skipped" => step'[n] = "skipped" \/ st[n] = "pending"
  PROVE  OutcomesAgree'
BY DEF OutcomesAgree

LEMMA RequestAgrees ==
  ASSUME WalkInv, NEW r \in Requests, Request(r)
  PROVE  OutcomesAgree'
<1> USE DEF WalkInv, Kept
<1>1. CASE Reopen(r)
  BY <1>1 DEF Reopen, OutcomesAgree
<1>2. CASE Start(r)
  <2> DEFINE seeded  == Seeded(st)
             revived == Revivable(seeded)
  <2>1. st' = st
    BY <1>2, Zenon DEF Start
  <2>2. step' = [m \in Nodes |->
                   IF m \in revived \/ (revived # {} /\ seeded[m] = "presented")
                     THEN "pending" ELSE seeded[m]]
    BY <1>2, Zenon DEF Start
  <2>3. \A n \in Nodes : /\ seeded[n] = "committed" => step[n] = "committed"
                         /\ step[n] = "skipped" => seeded[n] = "skipped"
                         /\ n \in revived => st[n] = "pending"
    BY DEF Seeded, Revivable
  <2> HIDE DEF seeded, revived
  <2> QED
    BY <2>1, <2>2, <2>3, ShownAgrees
<1>3. CASE Represent(r) \/ NextLooks(r) \/ Advance(r)
  <2>1. st' = st /\ step' = step
    BY <1>3 DEF Represent, NextLooks, Advance, planVars, walkVars
  <2> QED
    BY <2>1, ShownAgrees
<1>4. CASE NextClaims(r)
  <2>1. Waiting \in SUBSET Nodes
    BY DEF Waiting
  <2>2. Waiting # {} => step[Earliest(Waiting)] = "pending"
    BY <2>1, EarliestIsIn DEF Waiting
  <2>3. \A n \in Nodes : step'[n] = step[n] \/ (step[n] = "pending" /\ step'[n] = "presented")
    BY <1>4, <2>2 DEF NextClaims, AssistTypeOK
  <2> QED
    BY <1>4, <2>3, ShownAgrees DEF NextClaims
<1>5. CASE GotoWrites(r)
  <2>1. step[req[r].node] \in Open
    BY <1>5 DEF GotoWrites, Held
  <2>2. \A n \in Nodes : step'[n] = IF n = req[r].node THEN "presented"
                                    ELSE IF step[n] = "presented" THEN "pending" ELSE step[n]
    BY <1>5 DEF GotoWrites, Shows
  <2> QED
    BY <1>5, <2>1, <2>2, ShownAgrees DEF GotoWrites, planVars, Open
<1>6. CASE Reopens(r)
  <2>1. PICK s \in {"presented", "pending"} : Shows(req[r].node, s)
    BY <1>6 DEF Reopens
  <2>2. \A n \in Nodes : step'[n] = IF n = req[r].node THEN s
                                    ELSE IF step[n] = "presented" THEN "pending" ELSE step[n]
    BY <2>1 DEF Shows
  <2>3. \A n \in Nodes : st'[n] = IF n = req[r].node THEN (IF st[n] = "running" THEN st[n] ELSE "pending")
                                                     ELSE st[n]
    BY <1>6 DEF Reopens, AssistTypeOK
  <2> QED
    BY <2>2, <2>3 DEF OutcomesAgree
<1>7. ASSUME NEW n \in Nodes, NEW s \in {"committed", "skipped"}, Submit(r, n, s)
      PROVE  OutcomesAgree'
  <2>1. step[n] \in Open
    BY <1>7 DEF Submit, Submittable, Open
  <2>2. st[n] # "skipped"
    BY <2>1 DEF OutcomesAgree, Open
  <2>3. \A m \in Nodes : step'[m] = IF m = n THEN s ELSE step[m]
    BY <1>7 DEF Submit, AssistTypeOK
  <2>4. \A m \in Nodes : st'[m] = IF m # n \/ st[m] \in SettledStatuses THEN st[m]
                                  ELSE IF s = "committed" THEN "done" ELSE "skipped"
    BY <1>7 DEF Submit, AssistTypeOK
  <2> QED
    BY <2>2, <2>3, <2>4 DEF OutcomesAgree, SettledStatuses
<1>8. ASSUME NEW n \in Nodes, GotoReads(r, n) \/ BackReads(r, n) \/ DenyReads(r, n)
      PROVE  OutcomesAgree'
  <2>1. st' = st /\ step' = step
    BY <1>8 DEF GotoReads, BackReads, DenyReads, planVars, walkVars
  <2> QED
    BY <2>1, ShownAgrees
<1>9. ASSUME NEW n \in Nodes, HandOver(r, n)
      PROVE  OutcomesAgree'
  <2>1. st' = st
    BY <1>9 DEF HandOver, planVars
  <2>2. PICK S : step' = Marked(S)
    BY <1>9 DEF HandOver
  <2> QED
    BY <2>1, <2>2, ShownAgrees DEF Marked, Open
<1> QED
  BY <1>1, <1>2, <1>3, <1>4, <1>5, <1>6, <1>7, <1>8, <1>9 DEF Request

LEMMA InitWalk ==
  ASSUME Init
  PROVE  WalkInv
<1>1. Kept /\ Begun
  BY InitTypes DEF Init, Kept, Begun, SettledMirrored, EverythingSeeded
<1>2. Unseeded /\ OneInFlight /\ OutcomesAgree
  BY DEF Init, Unseeded, OneInFlight, OutcomesAgree, InFlight, SessionLive
<1>3. \A r \in Requests : Held(r)
  BY DEF Init, Held, Serves, Idle
<1> QED
  BY <1>1, <1>2, <1>3 DEF WalkInv

LEMMA NextWalk ==
  ASSUME OneRequest, WalkInv, Next \/ UNCHANGED vars
  PROVE  WalkInv'
<1>1. AssistTypeOK' /\ Begun'
  BY NextTypes, BegunKept DEF WalkInv, Kept
<1>2. CASE \E r \in Requests : Request(r)
  BY <1>1, <1>2, RequestKept, RequestWalk, RequestAgrees DEF WalkInv, Kept
<1>3. CASE ~\E r \in Requests : Request(r)
  BY <1>1, <1>3, OthersBeside, BesideKept, BesideWalk, BesideAgrees DEF WalkInv, Kept
<1> QED
  BY <1>2, <1>3

\* All of AssistInv; that one step is in flight, under the cursor, is what
\* _unclaim_other_presented and the claim of get_next_step are there for.
THEOREM WalkSafety ==
  ASSUME OneRequest
  PROVE  Spec => []AssistInv
<1>1. WalkInv /\ [Next]_vars => WalkInv'
  BY NextWalk
<1>2. WalkInv => AssistInv
  BY NotAtALoss DEF WalkInv, Kept, AssistInv
<1> QED
  BY <1>1, <1>2, InitWalk, PTL DEF Spec

-----------------------------------------------------------------------------
(* The declared machine.                                                    *)

\* What a step of the machine must do to one step of the plan.
Sound(n) == (Fsm!Keeps(n) \/ Fsm!Moves(n)) /\ Fsm!Mirrored(n)

LEMMA SameNames ==
  /\ Fsm!SettledStatuses = SettledStatuses /\ Fsm!NodeStatuses = NodeStatuses
  /\ Fsm!Open = Open /\ Fsm!Finished = Finished
BY DEF Fsm!SettledStatuses, SettledStatuses, Fsm!NodeStatuses, NodeStatuses, Fsm!Open, Open,
       Fsm!Finished, Finished

\* The moves a request makes that leaves the nodes alone.
Shown(n) ==
  \/ step'[n] = step[n]
  \/ step[n] \in Open /\ step'[n] \in {"pending", "presented", "handed_off"}
  \/ step[n] = "absent" /\ step'[n] = "pending" /\ ~Settled(n)
  \/ step[n] \in Finished /\ step'[n] = "pending" /\ st[n] = "pending"

LEMMA ShownMoves ==
  ASSUME NEW n \in Nodes, Shown(n)
  PROVE  Fsm!Keeps(n) \/ Fsm!Moves(n)
<1>1. CASE step[n] \in Open /\ step'[n] \in {"pending", "presented", "handed_off"}
  <2>1. CASE step'[n] = step[n]
    BY <2>1 DEF Fsm!Keeps
  <2>2. CASE step'[n] # step[n]
    <3>1. <<step[n], step'[n]>> \in Fsm!Legal
      BY <1>1, <2>2, SameNames
      DEF Fsm!Legal, Fsm!Claim, Fsm!Unclaim, Fsm!Handoff, Open
    <3> QED
      BY <3>1 DEF Fsm!Moves
  <2> QED
    BY <2>1, <2>2
<1>2. CASE step[n] = "absent" /\ step'[n] = "pending"
  BY <1>2 DEF Fsm!Moves
<1>3. CASE step[n] \in Finished /\ step'[n] = "pending"
  <2>1. <<step[n], step'[n]>> \in Fsm!Legal
    BY <1>3, SameNames DEF Fsm!Legal, Fsm!Reopen
  <2> QED
    BY <2>1 DEF Fsm!Moves
<1> QED
  BY <1>1, <1>2, <1>3 DEF Shown, Fsm!Keeps

\* Steps that agree with their nodes before and after are written with them.
LEMMA AgreeingRecorded ==
  ASSUME SettledMirrored', OutcomesAgree', NEW n \in Nodes,
         step'[n] = "skipped" /\ st'[n] = "done" => st[n] = "done"
  PROVE  Fsm!Recorded(n)
BY DEF SettledMirrored, OutcomesAgree, Settled, SettledStatuses, Fsm!Recorded

LEMMA ShownSound ==
  ASSUME WalkInv, WalkInv', NEW n \in Nodes, st'[n] = st[n], Shown(n)
  PROVE  Sound(n)
<1>1. Fsm!Recorded(n)
  BY AgreeingRecorded DEF WalkInv, Kept
<1>2. Fsm!Reopened(n)
  BY SameNames DEF Shown, Fsm!Reopened, Settled, Open, Finished, SettledStatuses
<1>3. Fsm!HandedOff(n)
  <2>1. st'[n] \in NodeStatuses /\ (st'[n] = "skipped" => step'[n] = "skipped")
    BY DEF WalkInv, Kept, AssistTypeOK, OutcomesAgree
  <2> QED
    BY <2>1 DEF NodeStatuses, Fsm!HandedOff
<1> QED
  BY <1>1, <1>2, <1>3, ShownMoves DEF Sound, Fsm!Mirrored

LEMMA BesideSound ==
  ASSUME WalkInv, WalkInv', Beside, NEW n \in Nodes
  PROVE  Sound(n)
<1>1. step'[n] = step[n] /\ (Settled(n) => st'[n] = st[n]) /\ (st'[n] = "skipped" => st[n] = "skipped")
  BY DEF Beside
<1>2. Fsm!Recorded(n)
  <2>1. step[n] = "skipped" => Settled(n)
    BY DEF WalkInv, Kept, SettledMirrored
  <2> QED
    BY <1>1, <2>1, AgreeingRecorded DEF WalkInv, Kept
<1>3. Fsm!Reopened(n)
  BY <1>1, SameNames DEF Fsm!Reopened, Settled, Open, Finished, SettledStatuses
<1>4. Fsm!HandedOff(n)
  <2>1. st'[n] \in NodeStatuses /\ (st'[n] = "skipped" => step'[n] = "skipped")
    BY DEF WalkInv, Kept, AssistTypeOK, OutcomesAgree
  <2> QED
    BY <2>1 DEF NodeStatuses, Fsm!HandedOff
<1> QED
  BY <1>1, <1>2, <1>3, <1>4 DEF Sound, Fsm!Keeps, Fsm!Mirrored

LEMMA RequestSound ==
  ASSUME WalkInv, WalkInv', NEW r \in Requests, Request(r), NEW n \in Nodes
  PROVE  Sound(n)
<1> USE DEF WalkInv, Kept
<1>0. step[n] \in Fsm!StepStatuses /\ st[n] \in NodeStatuses
  BY DEF AssistTypeOK
<1>1. CASE Reopen(r)
  <2>1. step'[n] = "pending" /\ st'[n] = IF st[n] = "running" THEN "running" ELSE "pending"
    BY <1>1 DEF Reopen
  <2>2. Fsm!Keeps(n) \/ Fsm!Moves(n)
    BY <1>0, <2>1
    DEF Fsm!Keeps, Fsm!Moves, Fsm!Legal, Fsm!Reopen, Fsm!Unclaim, Fsm!Finished, Fsm!StepStatuses
  <2> QED
    BY <2>1, <2>2, SameNames
    DEF Sound, Fsm!Mirrored, Fsm!Recorded, Fsm!Reopened, Fsm!HandedOff, Open, SettledStatuses
<1>2. CASE Start(r)
  <2> DEFINE seeded  == Seeded(st)
             revived == Revivable(seeded)
  <2>1. st' = st
    BY <1>2, Zenon DEF Start
  <2>2. step' = [m \in Nodes |->
                   IF m \in revived \/ (revived # {} /\ seeded[m] = "presented")
                     THEN "pending" ELSE seeded[m]]
    BY <1>2, Zenon DEF Start
  <2>3. seeded[n] = step[n] \/ (step[n] = "absent" /\ seeded[n] = "pending" /\ ~Settled(n))
    BY DEF Seeded, Settled
  <2>4. n \in revived => seeded[n] \in Finished /\ st[n] = "pending"
    BY DEF Revivable
  <2> HIDE DEF seeded, revived
  <2>5. Shown(n)
    BY <2>2, <2>3, <2>4 DEF Shown, Open, Finished
  <2> QED
    BY <2>1, <2>5, ShownSound
<1>3. CASE Represent(r) \/ NextLooks(r) \/ Advance(r)
  <2>1. st' = st /\ step' = step
    BY <1>3 DEF Represent, NextLooks, Advance, planVars, walkVars
  <2> QED
    BY <2>1, ShownSound DEF Shown
<1>4. CASE NextClaims(r)
  <2>1. st' = st
    BY <1>4 DEF NextClaims
  <2>2. Waiting \in SUBSET Nodes
    BY DEF Waiting
  <2>3. Waiting # {} => step[Earliest(Waiting)] = "pending"
    BY <2>2, EarliestIsIn DEF Waiting
  <2>4. step'[n] = step[n] \/ (step[n] = "pending" /\ step'[n] = "presented")
    BY <1>4, <2>3 DEF NextClaims, AssistTypeOK
  <2> QED
    BY <2>1, <2>4, ShownSound DEF Shown, Open
<1>5. CASE GotoWrites(r)
  <2>1. st' = st
    BY <1>5 DEF GotoWrites, planVars
  <2>2. step[req[r].node] \in Open
    BY <1>5 DEF GotoWrites, Held
  <2>3. step'[n] = IF n = req[r].node THEN "presented"
                   ELSE IF step[n] = "presented" THEN "pending" ELSE step[n]
    BY <1>5 DEF GotoWrites, Shows
  <2> QED
    BY <2>1, <2>2, <2>3, ShownSound DEF Shown, Open
<1>6. CASE Reopens(r)
  <2>1. step[req[r].node] \in Finished
    BY <1>6 DEF Reopens, Held
  <2>2. PICK s \in {"presented", "pending"} :
          step'[n] = IF n = req[r].node THEN s
                     ELSE IF step[n] = "presented" THEN "pending" ELSE step[n]
    BY <1>6 DEF Reopens, Shows
  <2>3. st'[n] = IF n = req[r].node THEN (IF st[n] = "running" THEN st[n] ELSE "pending") ELSE st[n]
    BY <1>6 DEF Reopens, AssistTypeOK
  <2>4. CASE n = req[r].node
    <3>1. step[n] \in Finished /\ step'[n] = s
      BY <2>1, <2>2, <2>4
    <3>2. Fsm!Moves(n)
      BY <3>1, SameNames DEF Fsm!Moves, Fsm!Legal, Fsm!Reopen
    <3> QED
      BY <2>3, <2>4, <3>1, <3>2, SameNames
      DEF Sound, Fsm!Mirrored, Fsm!Recorded, Fsm!Reopened, Fsm!HandedOff, Open, Finished, SettledStatuses
  <2>5. CASE n # req[r].node
    BY <2>2, <2>3, <2>5, ShownSound DEF Shown, Open
  <2> QED
    BY <2>4, <2>5
<1>7. ASSUME NEW m \in Nodes, NEW s \in {"committed", "skipped"}, Submit(r, m, s)
      PROVE  Sound(n)
  <2>1. step[m] = "presented" \/ (step[m] = "pending" /\ cursor = m)
    BY <1>7 DEF Submit, Submittable
  <2>2. step'[n] = IF n = m THEN s ELSE step[n]
    BY <1>7 DEF Submit, AssistTypeOK
  <2>3. st'[n] = IF n # m \/ st[n] \in SettledStatuses THEN st[n]
                 ELSE IF s = "committed" THEN "done" ELSE "skipped"
    BY <1>7 DEF Submit, AssistTypeOK
  <2>4. CASE n = m
    <3>1. Fsm!Moves(n)
      BY <2>1, <2>2, <2>4, SameNames
      DEF Fsm!Moves, Fsm!Legal, Fsm!Commit, Fsm!Skip, Open
    <3>2. Fsm!Recorded(n)
      <4>1. st[n] # "skipped"
        BY <2>1, <2>4 DEF OutcomesAgree
      <4> QED
        BY <2>2, <2>3, <2>4, <4>1 DEF Fsm!Recorded, SettledStatuses
    <3> QED
      BY <2>1, <2>2, <2>3, <2>4, <3>1, <3>2, SameNames
      DEF Sound, Fsm!Mirrored, Fsm!Reopened, Fsm!HandedOff, Open, Finished, SettledStatuses
  <2>5. CASE n # m
    BY <2>2, <2>3, <2>5, ShownSound DEF Shown
  <2> QED
    BY <2>4, <2>5
<1>8. ASSUME NEW m \in Nodes, GotoReads(r, m) \/ BackReads(r, m) \/ DenyReads(r, m)
      PROVE  Sound(n)
  <2>1. st' = st /\ step' = step
    BY <1>8 DEF GotoReads, BackReads, DenyReads, planVars, walkVars
  <2> QED
    BY <2>1, ShownSound DEF Shown
<1>9. ASSUME NEW m \in Nodes, HandOver(r, m)
      PROVE  Sound(n)
  <2>1. st' = st
    BY <1>9 DEF HandOver, planVars
  <2>2. PICK S : step' = Marked(S)
    BY <1>9 DEF HandOver
  <2>3. step'[n] = step[n] \/ (step[n] \in Open /\ step'[n] = "handed_off")
    BY <2>2 DEF Marked
  <2> QED
    BY <2>1, <2>3, ShownSound DEF Shown
<1> QED
  BY <1>1, <1>2, <1>3, <1>4, <1>5, <1>6, <1>7, <1>8, <1>9 DEF Request

\* Every step of the walk, its hand-offs and the executor beside it is a move
\* of the machine declared in assist_step_fsm.py, or leaves the steps alone, and
\* leaves step and node as MIRROR wants them: no commit without a claim, nothing
\* committed over a node that is not done, no skipped node under another step.
THEOREM ImplementsStepFsm ==
  ASSUME OneRequest
  PROVE  Spec => ImplementsFsm
<1>1. Init => Fsm!StepFsmInit
  BY InitTypes, SameNames DEF Init, Fsm!StepFsmInit, AssistTypeOK
<1>2. WalkInv /\ WalkInv' /\ [Next]_vars => [Fsm!StepFsmNext]_<<step, st>>
  <2> SUFFICES ASSUME WalkInv, WalkInv', Next \/ UNCHANGED vars, NEW n \in Nodes
               PROVE  Sound(n)
    BY DEF Sound, Fsm!StepFsmNext
  <2>1. CASE \E r \in Requests : Request(r)
    BY <2>1, RequestSound DEF WalkInv, Kept
  <2>2. CASE ~\E r \in Requests : Request(r)
    BY <2>2, OthersBeside, BesideSound DEF WalkInv, Kept
  <2> QED
    BY <2>1, <2>2
<1>3. WalkInv /\ [Next]_vars => WalkInv'
  BY NextWalk
<1> QED
  BY <1>1, <1>2, <1>3, InitWalk, PTL DEF Spec, ImplementsFsm, Fsm!StepFsmSpec
=============================================================================
