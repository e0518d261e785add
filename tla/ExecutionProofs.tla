--------------------------- MODULE ExecutionProofs ---------------------------
(***************************************************************************)
(* The executor keeps its inductive invariant and implements DagJob, for   *)
(* every plan, every set of calls and every bound.                         *)
(***************************************************************************)
EXTENDS Execution, DagJobProofs, FiniteSetTheorems, WellFoundedInduction

-----------------------------------------------------------------------------
(* Helpers.                                                                  *)

\* Numbers, so also steps (execution_order is a number), have a first one.
LEMMA LeastOf ==
  ASSUME NEW S \in SUBSET Nat, S # {}
  PROVE  \E n \in S : \A m \in S : n <= m
<1> DEFINE Less == { pair \in Nat \X Nat : pair[1] < pair[2] }
<1>1. IsWellFoundedOn(Less, Nat)
  BY NatLessThanWellFounded, Zenon DEF OpToRel
<1>2. \A a, b \in Nat : a < b => <<a, b>> \in Less
  <2> TAKE a, b \in Nat
  <2>1. <<a, b>> \in Nat \X Nat /\ <<a, b>>[1] = a /\ <<a, b>>[2] = b
    OBVIOUS
  <2> QED
    BY <2>1, Zenon
<1> HIDE DEF Less
<1>3. PICK n \in S : \A m \in S : <<m, n>> \notin Less
  BY <1>1, WFMin, Zenon
<1>4. \A m \in S : n <= m
  <2> TAKE m \in S
  <2>1. m \in Nat /\ n \in Nat
    OBVIOUS
  <2>2. ~(m < n)
    BY <2>1, <1>2, <1>3, Zenon
  <2> QED
    BY <2>1, <2>2
<1> QED
  BY <1>4

LEMMA FirstIsIn ==
  ASSUME NEW S \in SUBSET Nodes, S # {}
  PROVE  First(S) \in S
<1>1. S \in SUBSET Nat
  BY PlanAssumption DEF Nodes
<1> QED
  BY <1>1, LeastOf DEF First

\* The recursion that collects the downstream steps has a solution.
LEMMA ReachExists ==
  ASSUME NEW n \in Nodes, NEW m \in Nat
  PROVE  \E f : f = [k \in 0..m |->
                       IF k = 0 THEN {}
                       ELSE IF k > n /\ \E d \in Deps[k] : d = n \/ d \in f[k - 1]
                         THEN f[k - 1] \cup {k} ELSE f[k - 1]]
<1> DEFINE Adds(k, R) == IF k > n /\ \E d \in Deps[k] : d = n \/ d \in R THEN R \cup {k} ELSE R
           Solves(f, j) == f = [k \in 0..j |-> IF k = 0 THEN {} ELSE Adds(k, f[k - 1])]
           Bad == { j \in Nat : ~ \E f : Solves(f, j) }
<1>1. ASSUME NEW j \in Bad, \A i \in Bad : j <= i
      PROVE  FALSE
  <2> HIDE DEF Adds
  <2>1. CASE j = 0
    <3> DEFINE f == [k \in 0..0 |-> {}]
    <3>1. Solves(f, 0)
      OBVIOUS
    <3> QED
      BY <2>1, <3>1
  <2>2. CASE j # 0
    <3>1. j \in Nat /\ j - 1 \in Nat
      BY <2>2
    <3>2. PICK g : Solves(g, j - 1)
      <4> HIDE DEF Solves
      <4>1. ~(j <= j - 1)
        BY <3>1
      <4> QED
        BY <1>1, <3>1, <4>1
    <3>3. \A k \in 0..(j - 1) : g[k] = IF k = 0 THEN {} ELSE Adds(k, g[k - 1])
      BY <3>2
    <3> DEFINE f == [k \in 0..j |-> IF k = j THEN Adds(j, g[j - 1]) ELSE g[k]]
    <3>4. \A k \in 0..(j - 1) : f[k] = g[k]
      BY <3>1
    <3>5. f[j] = Adds(j, g[j - 1])
      BY <3>1
    <3>6. f = [k \in 0..j |-> f[k]]
      OBVIOUS
    <3> HIDE DEF f
    <3>7. \A k \in 0..j : f[k] = IF k = 0 THEN {} ELSE Adds(k, f[k - 1])
      <4> TAKE k \in 0..j
      <4>1. CASE k = j
        <5>1. f[j - 1] = g[j - 1] /\ j # 0
          BY <2>2, <3>1, <3>4
        <5> QED
          BY <3>5, <4>1, <5>1
      <4>2. CASE k # j
        <5>1. k \in 0..(j - 1) /\ (k # 0 => k - 1 \in 0..(j - 1))
          BY <3>1, <4>2
        <5> QED
          BY <3>3, <3>4, <5>1
      <4> QED
        BY <4>1, <4>2
    <3>8. Solves(f, j)
      BY <3>6, <3>7
    <3> QED
      BY <3>8
  <2> QED
    BY <2>1, <2>2
<1>2. Bad = {}
  <2> HIDE DEF Bad
  <2>1. Bad \in SUBSET Nat
    BY DEF Bad
  <2> QED
    BY <1>1, <2>1, LeastOf
<1>3. \E f : Solves(f, m)
  BY <1>2
<1> QED
  BY <1>3

\* A step downstream of n waits for n, or for another step downstream of n.
LEMMA DownstreamIs ==
  ASSUME NEW n \in Nodes
  PROVE  \A k \in Downstream(n) :
           k \in Nodes /\ \E d \in Deps[k] : d = n \/ d \in Downstream(n)
<1> DEFINE reach == CHOOSE f : f = [k \in 0..N |->
                       IF k = 0 THEN {}
                       ELSE IF k > n /\ \E d \in Deps[k] : d = n \/ d \in f[k - 1]
                         THEN f[k - 1] \cup {k} ELSE f[k - 1]]
           Below(j) == \A k \in reach[j] : k \in Nodes /\ \E d \in Deps[k] : d = n \/ d \in reach[j]
           Bad == { j \in 0..N : ~ Below(j) }
<1>1. Downstream(n) = reach[N]
  BY DEF Downstream
<1>2. N \in Nat
  BY PlanAssumption
<1>3. reach = [k \in 0..N |->
                 IF k = 0 THEN {}
                 ELSE IF k > n /\ \E d \in Deps[k] : d = n \/ d \in reach[k - 1]
                   THEN reach[k - 1] \cup {k} ELSE reach[k - 1]]
  BY <1>2, ReachExists
<1> HIDE DEF reach
<1>4. ASSUME NEW j \in Bad, \A i \in Bad : j <= i
      PROVE  FALSE
  <2>1. CASE j = 0
    BY <1>2, <1>3, <2>1
  <2>2. CASE j # 0
    <3>1. j - 1 \in 0..N /\ j \in Nodes
      BY <1>2, <2>2 DEF Nodes
    <3>2. Below(j - 1)
      BY <1>4, <3>1
    <3>3. \/ reach[j] = reach[j - 1]
          \/ /\ reach[j] = reach[j - 1] \cup {j}
             /\ \E d \in Deps[j] : d = n \/ d \in reach[j - 1]
      BY <1>3, <2>2
    <3>4. Below(j)
      BY <3>1, <3>2, <3>3
    <3> QED
      BY <3>4
  <2> QED
    BY <2>1, <2>2
<1>5. Bad = {}
  <2> HIDE DEF Bad
  <2>1. Bad \in SUBSET Nat
    BY <1>2 DEF Bad
  <2> QED
    BY <1>4, <2>1, LeastOf
<1>6. Below(N)
  BY <1>2, <1>5
<1> QED
  BY <1>1, <1>6

\* What every step starts from: the types, and the assumptions on the constants.
LEMMA StepFacts ==
  /\ Nodes \subseteq Nat
  /\ NoStep \notin Nodes
  /\ FreshCall \in Body
  /\ NoRetry \in RetryRead
  BY PlanAssumption DEF Nodes, NoStep, FreshCall, Body, BodyPcs, Outcomes, NoRetry, RetryRead

\* A body that goes on leaves the calls' bodies well formed.
LEMMA StepsType ==
  ASSUME CallTypeOK, NEW c \in Calls, NEW w, NEW v \in Body, Steps(c, w, v)
  PROVE  inflight' \in [Calls -> SUBSET Body]
  BY DEF CallTypeOK, Steps

\* A body that ends also leaves the results well formed.
LEMMA PutsType ==
  ASSUME CallTypeOK, NEW c \in Calls, NEW w \in inflight[c], NEW s \in Outcomes, Puts(c, w, s)
  PROVE  /\ inflight' \in [Calls -> SUBSET Body]
         /\ results' \in [Calls -> Seq(Result)]
<1>1. w \in Body
  BY DEF CallTypeOK
<1>2. [w EXCEPT !.pc = "ended"] \in Body
  BY <1>1 DEF Body, BodyPcs
<1>3. [node |-> w.node, status |-> s] \in Result
  BY <1>1 DEF Body, Result
<1>4. inflight' \in [Calls -> SUBSET Body]
  BY <1>2, StepsType DEF Puts
<1>5. results[c] \in Seq(Result)
  BY DEF CallTypeOK
<1>6. Append(results[c], [node |-> w.node, status |-> s]) \in Seq(Result)
  BY <1>3, <1>5
<1>7. results' \in [Calls -> Seq(Result)]
  BY <1>6 DEF Puts, CallTypeOK
<1> QED
  BY <1>4, <1>7

\* A run that leaves keeps the types of everything a call remembers.
LEMMA LeavesType ==
  ASSUME CallTypeOK, NEW c \in Calls, NEW r \in Reasons, Leaves(c, r)
  PROVE  CallTypeOK'
<1> DEFINE cut == IF phase[c] = "final" THEN {} ELSE { w.node : w \in Live(c) }
<1>1. cut \subseteq Nodes \cup {NoStep}
  BY DEF CallTypeOK, Live, Body
<1>2. /\ phase' = [phase EXCEPT ![c] = IF cut = {} THEN Spawned(r) ELSE "release"]
      /\ held' = [held EXCEPT ![c] = cut]
  BY DEF Leaves, Goto
<1>3. Spawned(r) \in Phases /\ "release" \in Phases
  BY DEF Spawned, Phases
<1> HIDE DEF cut
<1>4. phase' \in [Calls -> Phases] /\ held' \in [Calls -> SUBSET (Nodes \cup {NoStep})]
  BY <1>1, <1>2, <1>3 DEF CallTypeOK
<1>5. /\ why' \in [Calls -> Reasons]
      /\ inflight' \in [Calls -> SUBSET Body]
      /\ results' \in [Calls -> Seq(Result)]
      /\ retries' = retries /\ target' = target /\ down' = down
  BY DEF Leaves, CallTypeOK
<1> QED
  BY <1>4, <1>5 DEF CallTypeOK

-----------------------------------------------------------------------------
(* Every step of the executor is a step of DagJob or changes neither the job  *)
(* nor a step of the plan.  One lemma for each place that writes both.        *)

\* What a step must show: it moves the steps and the job legally.
LEMMA MovesSuffice ==
  ASSUME DagTypeOK, st' \in [Nodes -> NodeStatuses],
         \A n \in Nodes : StepMoves(n), JobMoves
  PROVE  DagNext
  BY DEF DagNext

\* A step that changes only the job.
LEMMA JobStep ==
  ASSUME DagTypeOK, st' = st, JobMoves
  PROVE  DagNext
  BY DEF DagNext, DagTypeOK, StepMoves

\* A step that changes only one step of the plan.
LEMMA PlanStep ==
  ASSUME DagTypeOK, job' = job, NEW n \in Nodes, NEW s \in NodeStatuses,
         st' = [st EXCEPT ![n] = s], StepMoves(n)
  PROVE  DagNext
<1>1. st' \in [Nodes -> NodeStatuses]
  BY DEF DagTypeOK
<1>2. \A m \in Nodes : StepMoves(m)
  BY DEF DagTypeOK, StepMoves
<1> QED
  BY <1>1, <1>2, MovesSuffice DEF JobMoves

\* A retry's reset moves failed steps back to pending and reopens the job.
LEMMA ResetsRefines ==
  ASSUME DagTypeOK, NEW n \in Nodes, NEW D \in SUBSET Nodes, st[n] = "failed", Resets(n, D)
  PROVE  DagNext
<1>1. st' \in [Nodes -> NodeStatuses]
  BY DEF Resets, DagTypeOK, NodeStatuses
<1>2. \A k \in Nodes : StepMoves(k)
  BY DEF Resets, DagTypeOK, StepMoves, RetriesStep
<1>3. JobMoves
  BY DEF Resets, JobMoves, TerminalStatuses, ExecutionStatuses
<1> QED
  BY <1>1, <1>2, <1>3, MovesSuffice

\* The frontier claims only steps whose dependencies are settled.
LEMMA ClaimFrontierRefines ==
  ASSUME DagTypeOK, NEW c \in Calls, ClaimFrontier(c)
  PROVE  DagNext
<1>1. PICK S \in SUBSET Nodes :
        /\ S \subseteq Ready
        /\ st' = [n \in Nodes |-> IF n \in S THEN "running" ELSE st[n]]
  BY DEF ClaimFrontier, FirstOf, Claimable, Ready
<1>2. job' = job
  BY DEF ClaimFrontier, jobVars
<1>3. st' \in [Nodes -> NodeStatuses]
  BY <1>1 DEF DagTypeOK, NodeStatuses
<1>4. \A n \in Nodes : StepMoves(n)
  BY <1>1, MetIsHeld DEF Ready, StepMoves, StartsStep
<1> QED
  BY <1>2, <1>3, <1>4, MovesSuffice DEF JobMoves

\* Steps that are put back were settled and reopenable, or were not settled.
LEMMA PutBackMoves ==
  ASSUME DagTypeOK, NEW R \in SUBSET Nodes, \A n \in R : Settled(n) => n \in Reopenable, PutBack(R)
  PROVE  st' \in [Nodes -> NodeStatuses] /\ \A n \in Nodes : StepMoves(n)
<1>1. st' = [n \in Nodes |-> IF n \in R THEN "pending" ELSE st[n]]
  BY DEF PutBack
<1>2. st' \in [Nodes -> NodeStatuses]
  BY <1>1 DEF DagTypeOK, NodeStatuses
<1>3. ASSUME NEW n \in Nodes PROVE StepMoves(n)
  <2>1. CASE n \in R
    <3>1. st'[n] = "pending" /\ st[n] \in NodeStatuses
      BY <1>1, <2>1 DEF DagTypeOK
    <3> QED
      BY <2>1, <3>1 DEF StepMoves, EndsStep, RetriesStep, ReopensStep, Settled, SettledStatuses, NodeStatuses
  <2>2. CASE n \notin R
    BY <1>1, <2>2 DEF StepMoves
  <2> QED
    BY <2>1, <2>2
<1> QED
  BY <1>2, <1>3

LEMMA StaleTestsRefines ==
  ASSUME DagTypeOK, StaleTests, job' = job
  PROVE  DagNext
<1>1. PICK R \in SUBSET Nodes : R \subseteq Reopenable /\ PutBack(R)
  BY PlanAssumption DEF StaleTests
<1> QED
  BY <1>1, PutBackMoves, MovesSuffice DEF JobMoves

\* A body takes the step it picked only while that is pending.
LEMMA TakeRefines ==
  ASSUME DagTypeOK, NEW c \in Calls, NEW w \in inflight[c], BodyRemembers(w), Take(c, w)
  PROVE  DagNext \/ UNCHANGED dagVars
<1>1. w.node \in Nodes /\ DepsHeld(w.node)
  BY DEF Take, At, BodyRemembers
<1>2. CASE st[w.node] = "pending"
  <2>1. st' = [st EXCEPT ![w.node] = "running"] /\ job' = job
    BY <1>2 DEF Take, jobVars
  <2>2. StepMoves(w.node)
    BY <1>1, <1>2, <2>1 DEF DagTypeOK, StepMoves, StartsStep
  <2> QED
    BY <1>1, <2>1, <2>2, PlanStep DEF NodeStatuses
<1>3. CASE st[w.node] # "pending"
  BY <1>3 DEF Take, jobVars, dagVars
<1> QED
  BY <1>2, <1>3

\* Every other step of a body.
LEMMA BodyRefines ==
  ASSUME ExecutionInv, NEW c \in Calls, BodyStep(c)
  PROVE  DagNext \/ UNCHANGED dagVars
<1>1. DagTypeOK /\ \A w \in inflight[c] : BodyRemembers(w)
  BY DEF ExecutionInv, TypeOK
<1>2. PICK w \in inflight[c] :
        \/ Enter(c, w) \/ PeekFails(c, w) \/ OverBudget(c, w)
        \/ RereadAlone(c, w) \/ RecheckAlone(c, w) \/ ParkAlone(c, w)
        \/ Pick(c, w) \/ Take(c, w)
        \/ Persist(c, w, "done") \/ Persist(c, w, "failed")
        \/ GivesUp(c, w) \/ Shortcut(c, w) \/ WorkerError(c, w)
        \/ Finish(c, w) \/ Compile(c, w) \/ Partial(c, w)
  BY DEF BodyStep
<1>3. CASE Enter(c, w) \/ PeekFails(c, w) \/ RecheckAlone(c, w) \/ Pick(c, w) \/ WorkerError(c, w) \/ Compile(c, w)
  BY <1>3 DEF Enter, PeekFails, RecheckAlone, Pick, WorkerError, Compile, jobVars, nodeVars, dagVars
<1>4. CASE OverBudget(c, w)
  BY <1>1, <1>4, JobStep
     DEF OverBudget, Executable, ExecutableStatuses, JobMoves, TerminalStatuses,
         ExecutionStatuses, nodeVars
<1>5. CASE ParkAlone(c, w)
  <2>1. st' = st /\ (job' = job \/ (job \in {"running", "executing"} /\ job' = "awaiting_decision"))
    BY <1>5 DEF ParkAlone, MayMoveFrom, nodeVars
  <2> QED
    BY <1>1, <2>1, JobStep DEF JobMoves, TerminalStatuses, ExecutionStatuses
<1>6. CASE Take(c, w)
  BY <1>1, <1>6, TakeRefines
<1>11. CASE RereadAlone(c, w)
  BY <1>1, <1>11, StaleTestsRefines DEF RereadAlone, jobVars
<1>7. ASSUME NEW s \in {"done", "failed"}, Persist(c, w, s)
      PROVE  DagNext \/ UNCHANGED dagVars
  <2>1. w.node \in Nodes
    BY <1>1, <1>7 DEF Persist, At, BodyRemembers
  <2>2. CASE st[w.node] = "running"
    <3>1. st' = [st EXCEPT ![w.node] = s] /\ job' = job
      BY <1>7, <2>2 DEF Persist, jobVars
    <3>2. StepMoves(w.node)
      BY <1>1, <2>1, <2>2, <3>1 DEF DagTypeOK, StepMoves, EndsStep
    <3> QED
      BY <1>1, <2>1, <3>1, <3>2, PlanStep DEF NodeStatuses
  <2>3. CASE st[w.node] # "running"
    BY <1>7, <2>3 DEF Persist, jobVars, dagVars
  <2> QED
    BY <2>2, <2>3
<1>8. ASSUME NEW e \in {"done", "failed"}, EndsAtOnce(c, w, e)
      PROVE  DagNext \/ UNCHANGED dagVars
  <2>1. w.node \in Nodes
    BY <1>1, <1>8 DEF EndsAtOnce, At, BodyRemembers
  <2> DEFINE s == IF st[w.node] = "running" THEN e ELSE st[w.node]
  <2>2. st' = [st EXCEPT ![w.node] = s] /\ job' = job
    BY <1>8 DEF EndsAtOnce, jobVars
  <2>3. StepMoves(w.node) /\ s \in NodeStatuses
    BY <1>1, <2>1, <2>2 DEF DagTypeOK, StepMoves, EndsStep, NodeStatuses
  <2> HIDE DEF s
  <2> QED
    BY <1>1, <2>1, <2>2, <2>3, PlanStep
<1>9. CASE Finish(c, w)
  <2>1. st' = st /\ (job' = job \/ (AllHeld /\ job \notin TerminalStatuses /\ job' = "completed"))
    BY <1>9, DoneIsHeld DEF Finish, nodeVars
  <2> QED
    BY <1>1, <2>1, JobStep DEF JobMoves, ExecutionStatuses
<1>10. CASE Partial(c, w)
  <2>1. st' = st /\ (job' = job \/ (job \notin TerminalStatuses /\ job' = "blocked"))
    BY <1>10 DEF Partial, nodeVars
  <2> QED
    BY <1>1, <2>1, JobStep DEF JobMoves, ExecutionStatuses
<1> QED
  BY <1>2, <1>3, <1>4, <1>5, <1>6, <1>7, <1>8, <1>9, <1>10, <1>11 DEF GivesUp, Shortcut

\* The steps a call makes on its own.
LEMMA RunRefines ==
  ASSUME ExecutionInv, NEW c \in Calls, RunStep(c)
  PROVE  DagNext \/ UNCHANGED dagVars
<1>1. DagTypeOK /\ CallRemembers(c)
  BY DEF ExecutionInv, TypeOK
<1>2. CASE \/ Validate(c) \/ Settle(c) \/ Recheck(c) \/ Sum(c) \/ FinalReturns(c) \/ Drain(c)
           \/ Keepalive(c) \/ DrainBudget(c) \/ QuotaStops(c) \/ AutoRetryReads(c) \/ Count(c)
           \/ SoloReturns(c)
  BY <1>2 DEF Validate, Settle, Recheck, Sum, FinalReturns, Drain, Keepalive, DrainBudget, QuotaStops,
              AutoRetryReads, Count, SoloReturns, jobVars, nodeVars, dagVars
<1>3. CASE ClaimFrontier(c)
  BY <1>1, <1>3, ClaimFrontierRefines
<1>4. CASE Park(c)
  <2>1. st' = st /\ (job' = job \/ (job \in {"running", "executing"} /\ job' = "awaiting_decision"))
    BY <1>4 DEF Park, MayMoveFrom, nodeVars
  <2> QED
    BY <1>1, <2>1, JobStep DEF JobMoves, TerminalStatuses, ExecutionStatuses
<1>5. CASE AutoRetryResets(c)
  <2>1. target[c] \in Nodes /\ down[c] \in SUBSET Nodes
    BY <1>1, <1>5 DEF AutoRetryResets, CallRemembers, ExecutionInv, TypeOK, CallTypeOK
  <2>2. CASE st[target[c]] = "failed"
    BY <1>1, <1>5, <2>1, <2>2, ResetsRefines DEF AutoRetryResets
  <2>3. CASE st[target[c]] # "failed"
    BY <1>5, <2>3 DEF AutoRetryResets, dagVars
  <2> QED
    BY <2>2, <2>3
<1>6. CASE Release(c)
  <2>1. job' = job
    BY <1>6 DEF Release, jobVars
  <2>2. st' \in [Nodes -> NodeStatuses]
    BY <1>1, <1>6 DEF Release, DagTypeOK, NodeStatuses
  <2>3. \A n \in Nodes : StepMoves(n)
    BY <1>1, <1>6 DEF Release, DagTypeOK, StepMoves, EndsStep
  <2> QED
    BY <1>1, <2>1, <2>2, <2>3, MovesSuffice DEF JobMoves
<1>7. CASE Cleanup(c)
  <2>1. CASE job # "running"
    BY <1>7, <2>1 DEF Cleanup, MayMoveFrom, dagVars
  <2>2. CASE job = "running"
    <3>1. /\ job' \in {"cancelled", "completed", "failed"}
          /\ job' = "completed" => AllHeld
      BY <1>1, <1>7, <2>2 DEF Cleanup, MayMoveFrom, CallRemembers
    <3>2. JobMoves
      BY <2>2, <3>1 DEF JobMoves, TerminalStatuses, ExecutionStatuses
    <3>3. st' = [n \in Nodes |-> IF st[n] = "running" THEN "failed" ELSE st[n]]
      BY <1>7, <2>2 DEF Cleanup, MayMoveFrom
    <3>4. st' \in [Nodes -> NodeStatuses] /\ \A n \in Nodes : StepMoves(n)
      BY <1>1, <3>3 DEF DagTypeOK, NodeStatuses, StepMoves, EndsStep
    <3> QED
      BY <1>1, <3>2, <3>4, MovesSuffice
  <2> QED
    BY <2>1, <2>2
<1> QED
  BY <1>2, <1>3, <1>4, <1>5, <1>6, <1>7 DEF RunStep

\* What happens to a run from outside, and its admission.
LEMMA CallRefines ==
  ASSUME ExecutionInv, CallNext
  PROVE  DagNext \/ UNCHANGED dagVars
<1>1. DagTypeOK
  BY DEF ExecutionInv, TypeOK
<1>2. PICK c \in Calls :
        \/ Admit(c) \/ Solo(c) \/ RunStep(c) \/ BodyStep(c)
        \/ HandsOnGate(c) \/ RunFails(c) \/ LookFails(c) \/ Reread(c) \/ DrainQuota(c) \/ Disconnect(c)
  BY DEF CallNext, RunUpset
<1>3. CASE Admit(c)
  <2>1. st' = st /\ job \notin {"running", "completed"} /\ job' = "running"
    BY <1>3 DEF Admit, nodeVars
  <2> QED
    BY <1>1, <2>1, JobStep DEF JobMoves, TerminalStatuses, ExecutionStatuses
<1>4. CASE Solo(c) \/ RunFails(c) \/ LookFails(c) \/ Disconnect(c)
  BY <1>4 DEF Solo, RunFails, LookFails, Disconnect, jobVars, nodeVars, dagVars
<1>6. CASE Reread(c)
  BY <1>1, <1>6, StaleTestsRefines DEF Reread, jobVars
<1>5. CASE HandsOnGate(c) \/ DrainQuota(c)
  <2>1. /\ st' = st
        /\ \/ job' = job
           \/ job \in {"running", "executing"} /\ job' \in {"blocked", "awaiting_assist"}
    BY <1>5 DEF HandsOnGate, DrainQuota, MayMoveFrom, nodeVars
  <2> QED
    BY <1>1, <2>1, JobStep DEF JobMoves, TerminalStatuses, ExecutionStatuses
<1> QED
  BY <1>2, <1>3, <1>4, <1>5, <1>6, RunRefines, BodyRefines

\* What the operator and the reaper do.
LEMMA OutsideRefines ==
  ASSUME ExecutionInv, StepNext \/ JobNext
  PROVE  DagNext \/ UNCHANGED dagVars
<1>1. DagTypeOK /\ StoredRemembers
  BY DEF ExecutionInv, TypeOK
<1>2. ASSUME NEW n \in Nodes, OperatorRetryReads(n)
      PROVE  UNCHANGED dagVars
  BY <1>2 DEF OperatorRetryReads, jobVars, nodeVars, dagVars
<1>3. ASSUME NEW n \in Nodes, Skip(n)
      PROVE  DagNext
  <2>1. job' = job /\ st' = [st EXCEPT ![n] = "skipped"]
    BY <1>3 DEF Skip, jobVars
  <2>2. StepMoves(n)
    BY <1>1, <1>3, <2>1 DEF Skip, DagTypeOK, StepMoves, SkipsStep
  <2> QED
    BY <1>1, <2>1, <2>2, PlanStep DEF NodeStatuses
<1>4. ASSUME NEW n \in Nodes, ReapOrphan(n) \/ ReapSlow(n)
      PROVE  DagNext
  <2>1. job' = job /\ st[n] = "running" /\ st' = [st EXCEPT ![n] = "pending"]
    BY <1>4 DEF ReapOrphan, ReapSlow, Reap, jobVars
  <2>2. StepMoves(n)
    BY <1>1, <2>1 DEF DagTypeOK, StepMoves, EndsStep
  <2> QED
    BY <1>1, <2>1, <2>2, PlanStep DEF NodeStatuses
<1>8. ASSUME NEW n \in Nodes, Reset(n)
      PROVE  DagNext
  <2>1. PICK K \in { {n}, {n} \cup Downstream(n) } :
          /\ \A k \in K : Settled(k) => k \in Reopenable
          /\ PutBack(K)
          /\ job' = CASE job = "awaiting_decision" /\ asked \in K -> "blocked"
                      [] job \in TerminalStatuses -> "executing"
                      [] OTHER -> job
    BY <1>8 DEF Reset
  <2>2. K \in SUBSET Nodes /\ n \in K
    BY <2>1, DownstreamIs
  <2>3. st' \in [Nodes -> NodeStatuses] /\ \A k \in Nodes : StepMoves(k)
    BY <1>1, <2>1, <2>2, PutBackMoves
  <2>4. job = "completed" => Reopenable # {}
    BY <2>1, <2>2 DEF ExecutionInv, CompletedIsWhole, AllHeld
  <2>5. JobMoves
    BY <2>1, <2>4 DEF JobMoves, TerminalStatuses, ExecutionStatuses
  <2> QED
    BY <1>1, <2>3, <2>5, MovesSuffice
<1>5. CASE OperatorRetryResets
  <2>1. opRetry.node \in Nodes /\ opRetry.down \in SUBSET Nodes
    BY <1>1, <1>5 DEF OperatorRetryResets, StoredRemembers, ExecutionInv, TypeOK, StoredTypeOK, RetryRead
  <2>2. CASE st[opRetry.node] = "failed"
    BY <1>1, <1>5, <2>1, <2>2, ResetsRefines DEF OperatorRetryResets
  <2>3. CASE st[opRetry.node] # "failed"
    BY <1>5, <2>3 DEF OperatorRetryResets, dagVars
  <2> QED
    BY <2>2, <2>3
<1>6. CASE CancelJob \/ Resume \/ Reask \/ ReapStaleJob
  <2>1. st' = st /\ JobMoves
    BY <1>6 DEF CancelJob, Resume, Reask, ReapStaleJob, MayMoveByDefault, nodeVars,
                JobMoves, TerminalStatuses, ExecutionStatuses
  <2> QED
    BY <1>1, <2>1, JobStep
<1>7. CASE Decide
  <2>1. /\ job = "awaiting_decision" /\ job' = "executing"
        /\ asked \in Nodes /\ DepsHeld(asked)
    BY <1>1, <1>7 DEF Decide, StoredRemembers
  <2>2. JobMoves
    BY <2>1 DEF JobMoves, TerminalStatuses, ExecutionStatuses
  <2>3. CASE st' = st
    BY <1>1, <2>2, <2>3, JobStep
  <2>4. CASE st[asked] = "pending" /\ st' = [st EXCEPT ![asked] = "done"]
    <3>1. st' \in [Nodes -> NodeStatuses]
      BY <1>1, <2>4 DEF DagTypeOK, NodeStatuses
    <3>2. \A n \in Nodes : StepMoves(n)
      BY <1>1, <2>1, <2>4 DEF DagTypeOK, StepMoves, AnswersStep
    <3> QED
      BY <1>1, <2>2, <3>1, <3>2, MovesSuffice
  <2> QED
    BY <1>7, <2>3, <2>4 DEF Decide
<1> QED
  BY <1>2, <1>3, <1>4, <1>5, <1>6, <1>7, <1>8 DEF StepNext, JobNext

\* So every step of the executor is a legal move of the abstract job.
LEMMA NextRefines ==
  ASSUME ExecutionInv, [Next]_vars
  PROVE  DagNext \/ UNCHANGED dagVars
<1>1. CASE Next
  BY <1>1, CallRefines, OutsideRefines DEF Next
<1>2. CASE UNCHANGED vars
  BY <1>2 DEF vars, jobVars, nodeVars, dagVars
<1> QED
  BY <1>1, <1>2

-----------------------------------------------------------------------------
(* Every step keeps the types.                                               *)

\* What happens outside is put on record.
LEMMA EventsType ==
  ASSUME events \in Seq(EventKinds), NEW kind \in EventKinds, Outside(kind)
  PROVE  events' \in Seq(EventKinds)
  BY DEF Outside

LEMMA PutBackTypes ==
  ASSUME tries \in [Nodes -> Nat], NEW R, PutBack(R)
  PROVE  tries' \in [Nodes -> Nat]
  BY DEF PutBack

\* A body's step: its new form is a body, its result a result.
LEMMA BodyTypes ==
  ASSUME ExecutionInv, NEW c \in Calls, BodyStep(c)
  PROVE  StoredTypeOK' /\ CallTypeOK'
<1>1. DagTypeOK /\ StoredTypeOK /\ CallTypeOK /\ \A w \in inflight[c] : BodyRemembers(w)
  BY DEF ExecutionInv, TypeOK
<1>2. PICK w \in inflight[c] :
        \/ Enter(c, w) \/ PeekFails(c, w) \/ OverBudget(c, w)
        \/ RereadAlone(c, w) \/ RecheckAlone(c, w) \/ ParkAlone(c, w)
        \/ Pick(c, w) \/ Take(c, w)
        \/ Persist(c, w, "done") \/ Persist(c, w, "failed")
        \/ GivesUp(c, w) \/ Shortcut(c, w) \/ WorkerError(c, w)
        \/ Finish(c, w) \/ Compile(c, w) \/ Partial(c, w)
  BY DEF BodyStep
<1>3. w \in Body
  BY <1>1 DEF CallTypeOK
<1>4. /\ w.node \in Nodes \cup {NoStep} /\ w.claim \in Nat
      /\ w.pc \in BodyPcs /\ w.res \in Outcomes
  BY <1>3 DEF Body
<1>5. ASSUME NEW p \in BodyPcs, NEW n \in Nodes \cup {NoStep}, NEW k \in Nat, NEW r \in Outcomes
      PROVE  /\ [w EXCEPT !.pc = p] \in Body
             /\ [w EXCEPT !.pc = p, !.res = r] \in Body
             /\ [w EXCEPT !.node = n] \in Body
             /\ [w EXCEPT !.pc = p, !.node = n] \in Body
             /\ [w EXCEPT !.node = n, !.pc = p] \in Body
             /\ [w EXCEPT !.claim = k, !.pc = p] \in Body
  BY <1>3 DEF Body
<1>6. /\ phase' = phase /\ why' = why /\ retries' = retries
      /\ target' = target /\ down' = down /\ held' = held /\ opRetry' = opRetry
      /\ delegated' = delegated
  BY <1>2 DEF Enter, PeekFails, OverBudget, RereadAlone, RecheckAlone, ParkAlone, Pick, Take, Persist, GivesUp,
              Shortcut, EndsAtOnce, WorkerError, Finish, Compile, Partial, jobVars, nodeVars
<1>7. events' \in Seq(EventKinds)
  <2>1. events' = events \/ \E k \in EventKinds : Outside(k)
    BY <1>2 DEF Enter, PeekFails, OverBudget, RereadAlone, StaleTests, RecheckAlone, ParkAlone, Pick, Take,
                Persist, GivesUp, Shortcut, EndsAtOnce, WorkerError, Finish, Compile, Partial, EventKinds
  <2> QED
    BY <1>1, <2>1, EventsType DEF StoredTypeOK
<1>16. tries' \in [Nodes -> Nat]
  <2>1. tries' = tries \/ StaleTests
    BY <1>2 DEF Enter, PeekFails, OverBudget, RereadAlone, RecheckAlone, ParkAlone, Pick, Take, Persist, GivesUp,
                Shortcut, EndsAtOnce, WorkerError, Finish, Compile, Partial, nodeVars
  <2> QED
    BY <1>1, <2>1, PutBackTypes DEF StaleTests, StoredTypeOK
<1>8. output' \in Outputs
  BY <1>1, <1>2 DEF Enter, PeekFails, OverBudget, RereadAlone, RecheckAlone, ParkAlone, Pick, Take, Persist,
                    GivesUp, Shortcut, EndsAtOnce, WorkerError, Finish, Compile, Partial, jobVars,
                    StoredTypeOK, Outputs
<1>9. First(Ready) \in Nodes \/ Ready = {}
  BY FirstIsIn DEF Ready
<1>10. First(MustAsk) \in Nodes \/ MustAsk = {}
  BY FirstIsIn DEF MustAsk, Ready
<1>11. asked' \in Nodes \cup {NoStep}
  BY <1>1, <1>2, <1>4 DEF Enter, PeekFails, OverBudget, RereadAlone, RecheckAlone, ParkAlone, Pick, Take,
                          Persist, GivesUp, Shortcut, EndsAtOnce, WorkerError, Finish, Compile, Partial,
                          jobVars, StoredTypeOK
<1>12. claims' \in [Nodes -> Nat]
  <2>1. CASE Take(c, w)
    BY <1>1, <2>1 DEF Take, At, BodyRemembers, StoredTypeOK
  <2>2. CASE claims' = claims
    BY <1>1, <2>2 DEF StoredTypeOK
  <2> QED
    BY <1>2, <2>1, <2>2 DEF Enter, PeekFails, OverBudget, RereadAlone, RecheckAlone, ParkAlone, Pick,
                            Persist, GivesUp, Shortcut, EndsAtOnce, WorkerError, Finish, Compile, Partial, nodeVars
<1>13. \A s \in Outcomes : Puts(c, w, s) =>
          inflight' \in [Calls -> SUBSET Body] /\ results' \in [Calls -> Seq(Result)]
  BY <1>1, PutsType
<1>14. \A v \in Body : Steps(c, w, v) /\ results' = results =>
          inflight' \in [Calls -> SUBSET Body] /\ results' \in [Calls -> Seq(Result)]
  BY <1>1, StepsType DEF CallTypeOK
<1>15. inflight' \in [Calls -> SUBSET Body] /\ results' \in [Calls -> Seq(Result)]
  <2>1. CASE Enter(c, w)
    <3>1. CASE Puts(c, w, "error")
      BY <3>1, <1>13 DEF Outcomes
    <3>2. CASE GoesTo(c, w, "work") \/ GoesTo(c, w, "claim")
      BY <3>2, <1>4, <1>5, <1>14 DEF GoesTo, BodyPcs
    <3>3. CASE /\ MustAsk # {}
               /\ Steps(c, w, [w EXCEPT !.pc = "frame", !.node = First(MustAsk)])
               /\ results' = results
      <4> DEFINE v == [w EXCEPT !.pc = "frame", !.node = First(MustAsk)]
      <4>1. v \in Body
        BY <3>3, <1>3, <1>10 DEF Body, BodyPcs
      <4> HIDE DEF v
      <4> QED
        BY <3>3, <4>1, <1>14 DEF v
    <3> QED
      BY <2>1, <3>1, <3>2, <3>3 DEF Enter
  <2>8. CASE PeekFails(c, w)
    BY <2>8, <1>4, <1>5, <1>14 DEF PeekFails, GoesTo, BodyPcs
  <2>9. ASSUME ClaimsInstead(c, w)
        PROVE  inflight' \in [Calls -> SUBSET Body] /\ results' \in [Calls -> Seq(Result)]
    <3>1. [w EXCEPT !.pc = "claim", !.node = NoStep] \in Body
      BY <1>3 DEF Body, BodyPcs
    <3> QED
      BY <2>9, <3>1, <1>14 DEF ClaimsInstead
  <2>10. CASE RecheckAlone(c, w)
    <3>1. CASE GoesTo(c, w, "ask")
      BY <3>1, <1>4, <1>5, <1>14 DEF GoesTo, BodyPcs
    <3>2. CASE /\ MustAsk # {}
               /\ Steps(c, w, [w EXCEPT !.node = First(MustAsk)])
               /\ results' = results
      <4> DEFINE v == [w EXCEPT !.node = First(MustAsk)]
      <4>1. v \in Body
        BY <3>2, <1>3, <1>10 DEF Body, BodyPcs
      <4> HIDE DEF v
      <4> QED
        BY <3>2, <4>1, <1>14 DEF v
    <3> QED
      BY <2>10, <2>9, <3>1, <3>2 DEF RecheckAlone
  <2>2. CASE OverBudget(c, w) \/ GivesUp(c, w) \/ Shortcut(c, w) \/ WorkerError(c, w) \/ Partial(c, w)
    BY <2>2, <1>13 DEF OverBudget, GivesUp, Shortcut, EndsAtOnce, WorkerError, Partial, Outcomes
  <2>3. CASE ParkAlone(c, w)
    <3>1. CASE Puts(c, w, "awaiting_decision")
      BY <3>1, <1>13 DEF Outcomes
    <3> QED
      BY <2>3, <2>9, <3>1 DEF ParkAlone
  <2>4. CASE Pick(c, w)
    <3>1. CASE Ready = {}
      BY <2>4, <3>1, <1>4, <1>5, <1>14 DEF Pick, GoesTo, BodyPcs
    <3>2. CASE Ready # {}
      <4> DEFINE n == First(Ready)
      <4>1. Steps(c, w, [w EXCEPT !.node = n, !.pc = "take"]) /\ results' = results
        BY <2>4, <3>2 DEF Pick
      <4>2. n \in Nodes
        BY <1>9, <3>2
      <4> HIDE DEF n
      <4>3. [w EXCEPT !.node = n, !.pc = "take"] \in Body
        BY <4>2, <1>3 DEF Body, BodyPcs
      <4> QED
        BY <4>1, <4>3, <1>14
    <3> QED
      BY <3>1, <3>2
  <2>11. CASE Take(c, w)
    <3>1. CASE st[w.node] = "pending"
      <4>1. claims[w.node] + 1 \in Nat
        BY <1>1, <2>11 DEF Take, At, BodyRemembers, StoredTypeOK
      <4>2. [w EXCEPT !.claim = claims[w.node] + 1, !.pc = "work"] \in Body
        BY <4>1, <1>3 DEF Body, BodyPcs
      <4> QED
        BY <2>11, <3>1, <4>2, <1>14 DEF Take
    <3>2. CASE st[w.node] # "pending"
      <4>1. [w EXCEPT !.pc = "tail", !.node = NoStep] \in Body
        BY <1>3 DEF Body, BodyPcs
      <4> QED
        BY <2>11, <3>2, <4>1, <1>14 DEF Take
    <3> QED
      BY <3>1, <3>2
  <2>5. ASSUME NEW s \in {"done", "failed"}, Persist(c, w, s)
        PROVE  inflight' \in [Calls -> SUBSET Body] /\ results' \in [Calls -> Seq(Result)]
    <3>1. CASE Puts(c, w, "stale")
      BY <3>1, <1>13 DEF Outcomes
    <3>2. CASE Steps(c, w, [w EXCEPT !.pc = "tail", !.res = s]) /\ results' = results
      BY <3>2, <1>4, <1>5, <1>14 DEF BodyPcs, Outcomes
    <3> QED
      BY <2>5, <3>1, <3>2 DEF Persist
  <2>6. CASE Finish(c, w)
    <3>1. CASE Puts(c, w, IF w.node = NoStep THEN "complete" ELSE w.res)
      BY <3>1, <1>4, <1>13 DEF Outcomes
    <3>2. CASE GoesTo(c, w, "compile")
      BY <3>2, <1>4, <1>5, <1>14 DEF GoesTo, BodyPcs
    <3>3. CASE /\ Steps(c, w, [w EXCEPT !.pc = "partial",
                                       !.res = IF output = "none" THEN "fresh" ELSE "cached"])
               /\ results' = results
      BY <3>3, <1>4, <1>5, <1>14 DEF BodyPcs, Outcomes
    <3> QED
      BY <2>6, <3>1, <3>2, <3>3 DEF Finish
  <2>7. CASE Compile(c, w)
    BY <2>7, <1>4, <1>13 DEF Compile, Outcomes
  <2> QED
    BY <1>2, <2>1, <2>2, <2>3, <2>4, <2>5, <2>6, <2>7, <2>8, <2>9, <2>10, <2>11 DEF RereadAlone
<1> QED
  BY <1>1, <1>6, <1>7, <1>8, <1>11, <1>12, <1>15, <1>16 DEF StoredTypeOK, CallTypeOK

\* A reset counts the retry and may clear the deliverable.
LEMMA ResetsTypes ==
  ASSUME StoredTypeOK, NEW n \in Nodes, NEW D, Resets(n, D)
  PROVE  tries' \in [Nodes -> Nat] /\ output' \in Outputs
  BY DEF Resets, StoredTypeOK, Outputs

\* What the frontier starts is a set of bodies; what it drains is a result.
LEMMA ClaimFrontierTypes ==
  ASSUME StoredTypeOK, CallTypeOK, NEW c \in Calls, ClaimFrontier(c)
  PROVE  StoredTypeOK' /\ CallTypeOK'
<1>1. PICK S \in SUBSET Nodes :
        LET started == { [node |-> n, claim |-> claims[n] + 1, pc |-> "enter", res |-> "none"] : n \in S }
        IN  /\ claims' = [n \in Nodes |-> IF n \in S THEN claims[n] + 1 ELSE claims[n]]
            /\ inflight' = [inflight EXCEPT ![c] = @ \cup started]
            /\ Goto(c, IF inflight[c] \cup started = {} THEN "settle" ELSE "drain")
  <2> DEFINE free == IF Cardinality(inflight[c]) < Cap THEN Cap - Cardinality(inflight[c]) ELSE 0
             S == FirstOf(Claimable, free)
  <2>1. S \in SUBSET Nodes
    BY DEF FirstOf, Claimable, Ready
  <2> QED
    BY <2>1 DEF ClaimFrontier
<1> DEFINE started == { [node |-> n, claim |-> claims[n] + 1, pc |-> "enter", res |-> "none"] : n \in S }
<1>2. claims' \in [Nodes -> Nat]
  BY <1>1 DEF StoredTypeOK
<1>3. started \in SUBSET Body
  BY DEF StoredTypeOK, Body, BodyPcs, Outcomes
<1>4. /\ inflight' = [inflight EXCEPT ![c] = @ \cup started]
      /\ Goto(c, IF inflight[c] \cup started = {} THEN "settle" ELSE "drain")
  BY <1>1
<1> HIDE DEF started
<1>5. inflight' \in [Calls -> SUBSET Body] /\ phase' \in [Calls -> Phases]
  BY <1>3, <1>4 DEF CallTypeOK, Goto, Phases
<1>6. /\ UNCHANGED <<jobVars, tries, opRetry, events>>
      /\ UNCHANGED <<why, retries, results, target, down, held>>
  BY DEF ClaimFrontier
<1> QED
  BY <1>2, <1>5, <1>6 DEF StoredTypeOK, CallTypeOK, jobVars

\* Draining a result shortens the queue and may name a step to retry.
LEMMA DrainTypes ==
  ASSUME CallTypeOK, NEW c \in Calls, Drain(c)
  PROVE  CallTypeOK'
<1>1. results[c] \in Seq(Result) /\ results[c] # <<>>
  BY DEF Drain, CallTypeOK
<1>2. Head(results[c]) \in Result /\ Tail(results[c]) \in Seq(Result)
  BY <1>1
<1>3. results' \in [Calls -> Seq(Result)]
  BY <1>2 DEF Drain, CallTypeOK
<1>4. inflight' \in [Calls -> SUBSET Body]
  BY DEF Drain, Live, CallTypeOK
<1>5. /\ phase' \in [Calls -> Phases]
      /\ target' \in [Calls -> Nodes \cup {NoStep}]
  BY <1>2 DEF Drain, Goto, CallTypeOK, Phases, Result
<1> QED
  BY <1>3, <1>4, <1>5 DEF Drain, CallTypeOK

\* A call's own steps.
LEMMA RunTypes ==
  ASSUME ExecutionInv, NEW c \in Calls, RunStep(c)
  PROVE  StoredTypeOK' /\ CallTypeOK'
<1>1. StoredTypeOK /\ CallTypeOK /\ CallRemembers(c)
  BY DEF ExecutionInv, TypeOK
<1>2. {"clean", "exception", "cancelled", "finished"} \subseteq Reasons
  BY DEF Reasons
<1>3. CASE Validate(c)
  <2>1. CASE Leaves(c, "clean")
    BY <1>1, <1>2, <1>3, <2>1, LeavesType DEF Validate, StoredTypeOK, jobVars, nodeVars
  <2>2. CASE Goto(c, "claim") /\ UNCHANGED <<why, retries, inflight, results, target, down, held>>
    BY <1>1, <1>3, <2>2 DEF Validate, Goto, StoredTypeOK, CallTypeOK, Phases, jobVars, nodeVars
  <2> QED
    BY <1>3, <2>1, <2>2 DEF Validate
<1>4. CASE ClaimFrontier(c)
  BY <1>1, <1>4, ClaimFrontierTypes
<1>5. CASE Settle(c)
  <2>1. First(MustAsk) \in Nodes \/ MustAsk = {}
    BY FirstIsIn DEF MustAsk, Ready
  <2> QED
    BY <1>1, <1>5, <2>1 DEF Settle, Goto, StoredTypeOK, CallTypeOK, Phases, jobVars, nodeVars
<1>6. CASE Park(c)
  <2>1. StoredTypeOK'
    BY <1>1, <1>6 DEF Park, StoredTypeOK, CallTypeOK, nodeVars
  <2>2. CASE Leaves(c, "clean")
    BY <1>1, <1>2, <2>1, <2>2, LeavesType
  <2>3. CASE Goto(c, "sum") /\ UNCHANGED <<why, retries, inflight, results, target, down, held>>
    BY <1>1, <2>1, <2>3 DEF Goto, CallTypeOK, Phases
  <2> QED
    BY <1>6, <2>2, <2>3 DEF Park
<1>7. CASE Sum(c)
  <2>1. CASE Leaves(c, "clean")
    BY <1>1, <1>2, <1>7, <2>1, LeavesType DEF Sum, StoredTypeOK, jobVars, nodeVars
  <2>2. CASE /\ Goto(c, "final")
             /\ inflight' = [inflight EXCEPT ![c] = {FreshCall}]
             /\ UNCHANGED <<why, retries, results, target, down, held>>
    BY <1>1, <1>7, <2>2, StepFacts DEF Sum, Goto, StoredTypeOK, CallTypeOK, Phases, jobVars, nodeVars
  <2> QED
    BY <1>7, <2>1, <2>2 DEF Sum
<1>8. CASE FinalReturns(c) \/ DrainBudget(c) \/ QuotaStops(c)
  BY <1>1, <1>2, <1>8, LeavesType DEF FinalReturns, DrainBudget, QuotaStops, StoredTypeOK, jobVars, nodeVars
<1>16. CASE Recheck(c)
  BY <1>1, <1>16 DEF Recheck, Goto, StoredTypeOK, CallTypeOK, Phases, jobVars, nodeVars
<1>9. CASE Drain(c)
  BY <1>1, <1>9, DrainTypes DEF Drain, StoredTypeOK, jobVars, nodeVars
<1>10. CASE AutoRetryReads(c)
  <2>1. Cascade(target[c]) \in SUBSET Nodes
    BY DEF Cascade
  <2> QED
    BY <1>1, <1>10, <2>1 DEF AutoRetryReads, Goto, StoredTypeOK, CallTypeOK, Phases, jobVars, nodeVars
<1>11. CASE AutoRetryResets(c)
  <2>1. target[c] \in Nodes /\ retries[c] - 1 \in 0..RetryCap
    BY <1>1, <1>11, ExecutionAssumption DEF AutoRetryResets, CallRemembers, CallTypeOK
  <2>2. tries' \in [Nodes -> Nat] /\ output' \in Outputs
    BY <1>1, <1>11, <2>1, ResetsTypes DEF AutoRetryResets, StoredTypeOK
  <2>3. retries' \in [Calls -> 0..RetryCap]
    BY <1>1, <1>11, <2>1 DEF AutoRetryResets, CallTypeOK
  <2>4. phase' \in [Calls -> Phases]
    BY <1>1, <1>11 DEF AutoRetryResets, Goto, CallTypeOK, Phases
  <2> QED
    BY <1>1, <1>11, <2>2, <2>3, <2>4 DEF AutoRetryResets, StoredTypeOK, CallTypeOK
<1>12. CASE Release(c) \/ Cleanup(c)
  BY <1>1, <1>12 DEF Release, Cleanup, Spawned, Goto, StoredTypeOK, CallTypeOK, Phases, jobVars
<1>13. CASE Count(c)
  BY <1>1, <1>2, <1>13 DEF Count, Goto, StoredTypeOK, CallTypeOK, Phases, jobVars, nodeVars
<1>14. CASE SoloReturns(c)
  BY <1>1, <1>14 DEF SoloReturns, Goto, StoredTypeOK, CallTypeOK, Phases, jobVars, nodeVars
<1>15. CASE Keepalive(c)
  BY <1>1, <1>15 DEF Keepalive, Live, Goto, StoredTypeOK, CallTypeOK, Phases, jobVars, nodeVars
<1> QED
  BY <1>3, <1>4, <1>5, <1>6, <1>7, <1>8, <1>9, <1>10, <1>11, <1>12, <1>13, <1>14, <1>15, <1>16 DEF RunStep

\* A call's admission and what happens to it from outside.
LEMMA CallTypes ==
  ASSUME ExecutionInv, CallNext
  PROVE  StoredTypeOK' /\ CallTypeOK'
<1>1. StoredTypeOK /\ CallTypeOK
  BY DEF ExecutionInv, TypeOK
<1>2. PICK c \in Calls :
        \/ Admit(c) \/ Solo(c) \/ RunStep(c) \/ BodyStep(c)
        \/ HandsOnGate(c) \/ RunFails(c) \/ LookFails(c) \/ Reread(c) \/ DrainQuota(c) \/ Disconnect(c)
  BY DEF CallNext, RunUpset
<1>3. CASE Admit(c)
  BY <1>1, <1>3 DEF Admit, Goto, StoredTypeOK, CallTypeOK, Phases, nodeVars
<1>4. CASE Solo(c)
  BY <1>1, <1>4, StepFacts, EventsType
     DEF Solo, Goto, StoredTypeOK, CallTypeOK, Phases, EventKinds, jobVars, nodeVars
<1>5. CASE HandsOnGate(c) \/ RunFails(c) \/ LookFails(c) \/ Reread(c) \/ DrainQuota(c) \/ Disconnect(c)
  <2>1. StoredTypeOK'
    <3>1. \E k \in EventKinds : Outside(k)
      BY <1>5 DEF HandsOnGate, RunFails, LookFails, Reread, StaleTests, DrainQuota, Disconnect, EventKinds
    <3>2. tries' \in [Nodes -> Nat]
      BY <1>1, <1>5, PutBackTypes DEF HandsOnGate, RunFails, LookFails, Reread, StaleTests, DrainQuota, Disconnect,
                                      StoredTypeOK, nodeVars
    <3> QED
      BY <1>1, <1>5, <3>1, <3>2, EventsType
         DEF HandsOnGate, RunFails, LookFails, Reread, DrainQuota, Disconnect, StoredTypeOK,
             Outputs, jobVars, nodeVars
  <2>2. CASE \E r \in Reasons : Leaves(c, r)
    BY <1>1, <2>1, <2>2, LeavesType
  <2>3. CASE LookFails(c) \/ Reread(c)
    BY <1>1, <2>1, <2>3 DEF LookFails, Reread, Goto, CallTypeOK, Phases
  <2>4. CASE DrainQuota(c)
    <3>1. results[c] \in Seq(Result) /\ results[c] # <<>>
      BY <1>1, <2>4 DEF DrainQuota, CallTypeOK
    <3>2. results' \in [Calls -> Seq(Result)]
      BY <1>1, <2>4, <3>1 DEF DrainQuota, CallTypeOK
    <3> QED
      BY <1>1, <2>1, <2>4, <3>2 DEF DrainQuota, Live, Goto, CallTypeOK, Phases
  <2>5. CASE /\ why' = [why EXCEPT ![c] = "cancelled"]
             /\ UNCHANGED <<phase, retries, inflight, results, target, down, held>>
    BY <1>1, <2>1, <2>5 DEF CallTypeOK, Reasons
  <2> QED
    BY <1>5, <2>2, <2>3, <2>4, <2>5 DEF HandsOnGate, RunFails, Disconnect, Reasons
<1> QED
  BY <1>2, <1>3, <1>4, <1>5, RunTypes, BodyTypes

\* What the operator and the reaper do.
LEMMA OutsideTypes ==
  ASSUME ExecutionInv, StepNext \/ JobNext
  PROVE  StoredTypeOK' /\ CallTypeOK'
<1>1. StoredTypeOK /\ CallTypeOK /\ StoredRemembers
  BY DEF ExecutionInv, TypeOK
<1>2. CallTypeOK'
  <2>1. UNCHANGED callVars
    BY DEF StepNext, JobNext, OperatorRetryReads, Skip, Reset, ReapOrphan, ReapSlow, OperatorRetryResets,
           CancelJob, Resume, Decide, Reask, ReapStaleJob
  <2> QED
    BY <1>1, <2>1 DEF callVars, CallTypeOK
<1>3. ASSUME NEW n \in Nodes, OperatorRetryReads(n)
      PROVE  StoredTypeOK'
  <2>1. [node |-> n, down |-> Cascade(n)] \in RetryRead
    BY DEF RetryRead, Cascade
  <2> QED
    BY <1>1, <1>3, <2>1, EventsType DEF OperatorRetryReads, EventKinds, StoredTypeOK, jobVars, nodeVars
<1>4. ASSUME NEW n \in Nodes, Skip(n) \/ ReapOrphan(n) \/ ReapSlow(n)
      PROVE  StoredTypeOK'
  BY <1>1, <1>4, EventsType DEF Skip, ReapOrphan, ReapSlow, EventKinds, StoredTypeOK, jobVars
<1>8. ASSUME NEW n \in Nodes, Reset(n)
      PROVE  StoredTypeOK'
  BY <1>1, <1>8, EventsType DEF Reset, PutBack, EventKinds, StoredTypeOK, Outputs
<1>5. CASE OperatorRetryResets
  <2>1. opRetry.node \in Nodes
    BY <1>1, <1>5 DEF OperatorRetryResets, StoredRemembers
  <2>2. tries' \in [Nodes -> Nat] /\ output' \in Outputs
    BY <1>1, <1>5, <2>1, ResetsTypes DEF OperatorRetryResets, StoredTypeOK
  <2> QED
    BY <1>1, <1>2, <1>5, <2>2, StepFacts DEF OperatorRetryResets, StoredTypeOK
<1>6. CASE CancelJob \/ Resume \/ Reask \/ ReapStaleJob
  BY <1>1, <1>2, <1>6, EventsType DEF CancelJob, Resume, Reask, ReapStaleJob, EventKinds, StoredTypeOK, nodeVars
<1>7. CASE Decide
  BY <1>1, <1>2, <1>7 DEF Decide, StoredTypeOK, StoredRemembers
<1> QED
  BY <1>2, <1>3, <1>4, <1>5, <1>6, <1>7, <1>8 DEF StepNext, JobNext

\* So every step of the executor keeps the types.
LEMMA NextTypes ==
  ASSUME ExecutionInv, [Next]_vars
  PROVE  StoredTypeOK' /\ CallTypeOK'
<1>1. CASE Next
  BY <1>1, CallTypes, OutsideTypes DEF Next
<1>2. CASE UNCHANGED vars
  BY <1>2 DEF ExecutionInv, TypeOK, StoredTypeOK, CallTypeOK, vars, jobVars, nodeVars, callVars
<1> QED
  BY <1>1, <1>2

-----------------------------------------------------------------------------
(* Every step keeps what is remembered.  Settled steps stay settled, so it is  *)
(* enough that what a step newly remembers was true when it was read.          *)

\* A body that goes on: only its own form changes.
LEMMA StepsBodies ==
  ASSUME CallTypeOK, NEW c \in Calls, NEW w, NEW v, Steps(c, w, v)
  PROVE  \A d \in Calls : \A u \in inflight'[d] : u \in inflight[d] \/ u = v
  BY DEF CallTypeOK, Steps

\* A body that ends: its result is the only new one.
LEMMA PutsBodies ==
  ASSUME CallTypeOK, NEW c \in Calls, NEW w \in inflight[c], NEW s \in Outcomes, Puts(c, w, s),
         s = "failed" => w.node \in Nodes,
         \A d \in Calls : ResultsNameSteps(d),
         \A d \in Calls : \A u \in inflight[d] : BodyRemembers(u)
  PROVE  /\ \A d \in Calls : ResultsNameSteps(d)'
         /\ \A d \in Calls : \A u \in inflight'[d] : BodyRemembers(u)
<1>1. w \in Body
  BY DEF CallTypeOK
<1>2. \A d \in Calls : \A u \in inflight'[d] : u \in inflight[d] \/ u = [w EXCEPT !.pc = "ended"]
  BY StepsBodies DEF Puts
<1>3. \A d \in Calls : \A u \in inflight'[d] : BodyRemembers(u)
  BY <1>1, <1>2 DEF Body, BodyRemembers
<1>4. ASSUME NEW d \in Calls
      PROVE  ResultsNameSteps(d)'
  <2>1. results[d] \in Seq(Result)
    BY DEF CallTypeOK
  <2>2. CASE d = c
    <3> DEFINE r == [node |-> w.node, status |-> s]
    <3>1. r \in Result
      BY <1>1 DEF Result, Body
    <3>2. results'[d] = Append(results[d], r)
      BY <2>2 DEF Puts, CallTypeOK
    <3>3. r.status = "failed" => r.node \in Nodes
      OBVIOUS
    <3> HIDE DEF r
    <3>4. \A i \in DOMAIN results'[d] : results'[d][i] = r \/ (i \in DOMAIN results[d] /\ results'[d][i] = results[d][i])
      BY <2>1, <3>1, <3>2
    <3> QED
      BY <3>3, <3>4 DEF ResultsNameSteps
  <2>3. CASE d # c
    BY <2>3 DEF Puts, CallTypeOK, ResultsNameSteps
  <2> QED
    BY <2>2, <2>3
<1> QED
  BY <1>3, <1>4

\* A run that leaves has no bodies and no results any more.
LEMMA LeavesBodies ==
  ASSUME CallTypeOK, NEW c \in Calls, NEW r, r # "finished", Leaves(c, r),
         \A d \in Calls : ResultsNameSteps(d),
         \A d \in Calls : \A u \in inflight[d] : BodyRemembers(u),
         \A d \in Calls : CallRemembers(d)
  PROVE  /\ \A d \in Calls : ResultsNameSteps(d)'
         /\ \A d \in Calls : \A u \in inflight'[d] : BodyRemembers(u)
         /\ \A d \in Calls \ {c} : /\ phase'[d] = phase[d] /\ target'[d] = target[d]
                                  /\ retries'[d] = retries[d] /\ why'[d] = why[d]
         /\ phase'[c] \in {"release", "count", "cleanup"} /\ why'[c] # "finished"
<1>1. /\ phase' = [phase EXCEPT ![c] = phase'[c]]
      /\ phase'[c] \in {"release", "count", "cleanup"}
  BY DEF Leaves, Goto, Spawned, CallTypeOK
<1>2. why' = [why EXCEPT ![c] = r]
  BY DEF Leaves
<1>3. \A d \in Calls : \A u \in inflight'[d] : u \in inflight[d]
  BY DEF Leaves, CallTypeOK
<1>4. \A d \in Calls : results'[d] = results[d] \/ results'[d] = <<>>
  BY DEF Leaves, CallTypeOK
<1>5. \A d \in Calls : ResultsNameSteps(d)'
  BY <1>4 DEF ResultsNameSteps
<1> QED
  BY <1>1, <1>2, <1>3, <1>5 DEF Leaves, CallTypeOK

\* What is remembered after a step, judged by the plan before it.
KeepsCall(c) ==
  /\ phase'[c] \in {"frame", "ask"} => target'[c] \in Nodes /\ DepsHeld(target'[c])
  /\ phase'[c] \in {"retry", "reset"} => target'[c] \in Nodes /\ retries'[c] > 0
  /\ why'[c] = "finished" => AllHeld

KeepsStored ==
  /\ job' = "awaiting_decision" => asked' \in Nodes /\ DepsHeld(asked')
  /\ opRetry' = NoRetry \/ opRetry'.node \in Nodes

Keeps ==
  /\ KeepsStored
  /\ \A c \in Calls : KeepsCall(c) /\ ResultsNameSteps(c)'
  /\ \A c \in Calls : \A w \in inflight'[c] : BodyRemembers(w)

\* Calls whose own variables did not move remember what they did.
LEMMA OthersKeep ==
  ASSUME NEW S \in SUBSET Calls, \A d \in Calls : CallRemembers(d),
         \A d \in S : /\ phase'[d] = phase[d] /\ target'[d] = target[d]
                      /\ retries'[d] = retries[d] /\ why'[d] = why[d]
  PROVE  \A d \in S : KeepsCall(d)
  BY DEF CallRemembers, KeepsCall

\* A run that leaves remembers nothing that can have gone stale.
LEMMA LeavesKeeps ==
  ASSUME ExecutionInv, NEW c \in Calls, NEW r, r # "finished", Leaves(c, r), KeepsStored
  PROVE  Keeps
<1>1. /\ CallTypeOK
      /\ \A d \in Calls : ResultsNameSteps(d)
      /\ \A d \in Calls : \A u \in inflight[d] : BodyRemembers(u)
      /\ \A d \in Calls : CallRemembers(d)
  BY DEF ExecutionInv, TypeOK
<1>2. /\ \A d \in Calls : ResultsNameSteps(d)'
      /\ \A d \in Calls : \A u \in inflight'[d] : BodyRemembers(u)
      /\ \A d \in Calls \ {c} : /\ phase'[d] = phase[d] /\ target'[d] = target[d]
                               /\ retries'[d] = retries[d] /\ why'[d] = why[d]
      /\ phase'[c] \in {"release", "count", "cleanup"} /\ why'[c] # "finished"
  BY <1>1, LeavesBodies
<1>3. \A d \in Calls \ {c} : KeepsCall(d)
  BY <1>1, <1>2, OthersKeep
<1>4. KeepsCall(c)
  BY <1>2 DEF KeepsCall
<1> QED
  BY <1>2, <1>3, <1>4 DEF Keeps

\* A body's step.
LEMMA BodyKeeps ==
  ASSUME ExecutionInv, NEW c \in Calls, BodyStep(c)
  PROVE  Keeps
<1>1. /\ StoredTypeOK /\ CallTypeOK /\ StoredRemembers
      /\ \A d \in Calls : ResultsNameSteps(d)
      /\ \A d \in Calls : \A u \in inflight[d] : BodyRemembers(u)
      /\ \A d \in Calls : CallRemembers(d)
  BY DEF ExecutionInv, TypeOK
<1>2. PICK w \in inflight[c] :
        \/ Enter(c, w) \/ PeekFails(c, w) \/ OverBudget(c, w)
        \/ RereadAlone(c, w) \/ RecheckAlone(c, w) \/ ParkAlone(c, w)
        \/ Pick(c, w) \/ Take(c, w)
        \/ Persist(c, w, "done") \/ Persist(c, w, "failed")
        \/ GivesUp(c, w) \/ Shortcut(c, w) \/ WorkerError(c, w)
        \/ Finish(c, w) \/ Compile(c, w) \/ Partial(c, w)
  BY DEF BodyStep
<1>3. w \in Body /\ w.node \in Nodes \cup {NoStep} /\ w.res \in Outcomes /\ BodyRemembers(w)
  BY <1>1 DEF CallTypeOK, Body
<1>4. phase' = phase /\ why' = why /\ retries' = retries /\ target' = target /\ opRetry' = opRetry
  BY <1>2 DEF Enter, PeekFails, OverBudget, RereadAlone, RecheckAlone, ParkAlone, Pick, Take, Persist,
              GivesUp, Shortcut, EndsAtOnce, WorkerError, Finish, Compile, Partial
<1>5. \A d \in Calls : KeepsCall(d)
  BY <1>1, <1>4, OthersKeep
<1>6. KeepsStored
  BY <1>1, <1>2, <1>3, <1>4
     DEF Enter, PeekFails, OverBudget, RereadAlone, RecheckAlone, ParkAlone, Pick, Take, Persist,
         GivesUp, Shortcut, EndsAtOnce, WorkerError, Finish, Compile,
         Partial, jobVars, StoredRemembers, KeepsStored, BodyRemembers, At
<1> DEFINE Good == /\ \A d \in Calls : ResultsNameSteps(d)'
                   /\ \A d \in Calls : \A u \in inflight'[d] : BodyRemembers(u)
<1>7. ASSUME NEW s \in Outcomes, Puts(c, w, s), s = "failed" => w.node \in Nodes
      PROVE  Good
  BY <1>1, <1>7, PutsBodies
<1>8. ASSUME NEW v, BodyRemembers(v), Steps(c, w, v), results' = results
      PROVE  Good
  <2>1. \A d \in Calls : \A u \in inflight'[d] : u \in inflight[d] \/ u = v
    BY <1>1, <1>8, StepsBodies
  <2> QED
    BY <1>1, <1>8, <2>1 DEF ResultsNameSteps
<1> HIDE DEF Good
<1>9. First(Ready) \in Ready \/ Ready = {}
  BY FirstIsIn DEF Ready
<1>10. (First(MustAsk) \in Nodes /\ DepsHeld(First(MustAsk))) \/ MustAsk = {}
  BY FirstIsIn, MetIsHeld DEF MustAsk, Ready
<1>20. ASSUME ClaimsInstead(c, w)
       PROVE  Good
  <2>1. BodyRemembers([w EXCEPT !.pc = "claim", !.node = NoStep])
    BY <1>3 DEF Body, BodyRemembers
  <2> QED
    BY <1>20, <2>1, <1>8 DEF ClaimsInstead
<1>11. ASSUME NEW p \in {"claim", "tail", "compile"}, GoesTo(c, w, p)
       PROVE  Good
  BY <1>3, <1>8, <1>11 DEF GoesTo, BodyRemembers, Body
<1>12. ASSUME Enter(c, w)
       PROVE  Good
  <2>1. CASE Puts(c, w, "error")
    BY <2>1, <1>7 DEF Outcomes
  <2>2. CASE GoesTo(c, w, "work") /\ w.node # NoStep
    <3>1. BodyRemembers([w EXCEPT !.pc = "work"])
      BY <1>3, <2>2 DEF Body, BodyRemembers
    <3> QED
      BY <2>2, <3>1, <1>8 DEF GoesTo
  <2>3. CASE /\ MustAsk # {}
             /\ Steps(c, w, [w EXCEPT !.pc = "frame", !.node = First(MustAsk)])
             /\ results' = results
    <3> DEFINE v == [w EXCEPT !.pc = "frame", !.node = First(MustAsk)]
    <3>1. v.pc = "frame" /\ v.node = First(MustAsk)
      BY <1>3 DEF Body
    <3>2. Steps(c, w, v) /\ results' = results
      BY <2>3
    <3> HIDE DEF v
    <3>3. BodyRemembers(v)
      BY <2>3, <3>1, <1>10 DEF BodyRemembers
    <3> QED
      BY <3>2, <3>3, <1>8
  <2>4. CASE GoesTo(c, w, "claim")
    BY <2>4, <1>11
  <2> QED
    BY <1>12, <2>1, <2>2, <2>3, <2>4 DEF Enter
<1>13. ASSUME OverBudget(c, w) \/ Partial(c, w)
       PROVE  Good
  BY <1>13, <1>7 DEF OverBudget, Partial, Outcomes
<1>14. ASSUME GivesUp(c, w) \/ Shortcut(c, w) \/ WorkerError(c, w)
       PROVE  Good
  BY <1>14, <1>3, <1>7 DEF GivesUp, Shortcut, EndsAtOnce,
                           WorkerError, At, BodyRemembers, Outcomes
<1>15. ASSUME ParkAlone(c, w)
       PROVE  Good
  <2>1. CASE Puts(c, w, "awaiting_decision")
    BY <2>1, <1>7 DEF Outcomes
  <2> QED
    BY <1>15, <2>1, <1>20 DEF ParkAlone
<1>21. ASSUME PeekFails(c, w) \/ RereadAlone(c, w)
       PROVE  Good
  BY <1>21, <1>11, <1>20 DEF PeekFails, RereadAlone
<1>22. ASSUME RecheckAlone(c, w)
       PROVE  Good
  <2>1. CASE DepsMet(w.node) /\ GoesTo(c, w, "ask")
    <3>1. w.node \in Nodes /\ DepsHeld(w.node)
      BY <1>3, <1>22 DEF RecheckAlone, At, BodyRemembers
    <3>2. BodyRemembers([w EXCEPT !.pc = "ask"])
      BY <1>3, <3>1 DEF Body, BodyRemembers
    <3> QED
      BY <2>1, <3>2, <1>8 DEF GoesTo
  <2>2. CASE /\ MustAsk # {}
             /\ Steps(c, w, [w EXCEPT !.node = First(MustAsk)])
             /\ results' = results
    <3> DEFINE v == [w EXCEPT !.node = First(MustAsk)]
    <3>1. v.pc = "frame" /\ v.node = First(MustAsk)
      BY <1>3, <1>22 DEF Body, RecheckAlone, At
    <3>2. Steps(c, w, v) /\ results' = results
      BY <2>2
    <3> HIDE DEF v
    <3>3. BodyRemembers(v)
      BY <2>2, <3>1, <1>10 DEF BodyRemembers
    <3> QED
      BY <3>2, <3>3, <1>8
  <2> QED
    BY <1>22, <1>20, <2>1, <2>2 DEF RecheckAlone
<1>16. ASSUME Pick(c, w)
       PROVE  Good
  <2>1. CASE Ready = {}
    BY <1>16, <2>1, <1>11 DEF Pick
  <2>2. CASE Ready # {}
    <3> DEFINE n == First(Ready)
               v == [w EXCEPT !.node = n, !.pc = "take"]
    <3>1. Steps(c, w, v) /\ results' = results
      BY <1>16, <2>2 DEF Pick
    <3>2. n \in Nodes /\ DepsHeld(n)
      BY <1>9, <2>2, MetIsHeld DEF Ready
    <3>3. v.pc = "take" /\ v.node = n
      BY <1>3 DEF Body
    <3> HIDE DEF n, v
    <3>4. BodyRemembers(v)
      BY <3>2, <3>3 DEF BodyRemembers
    <3> QED
      BY <3>1, <3>4, <1>8
  <2> QED
    BY <2>1, <2>2
<1>23. ASSUME Take(c, w)
       PROVE  Good
  <2>1. w.node \in Nodes
    BY <1>3, <1>23 DEF Take, At, BodyRemembers
  <2>2. BodyRemembers([w EXCEPT !.claim = claims[w.node] + 1, !.pc = "work"])
    BY <1>3, <2>1 DEF Body, BodyRemembers
  <2>3. BodyRemembers([w EXCEPT !.pc = "tail", !.node = NoStep])
    BY <1>3 DEF Body, BodyRemembers
  <2> QED
    BY <1>23, <2>2, <2>3, <1>8 DEF Take
<1>17. ASSUME NEW s \in {"done", "failed"}, Persist(c, w, s)
       PROVE  Good
  <2>1. CASE Puts(c, w, "stale")
    BY <2>1, <1>7 DEF Outcomes
  <2>2. CASE Steps(c, w, [w EXCEPT !.pc = "tail", !.res = s]) /\ results' = results
    <3>1. BodyRemembers([w EXCEPT !.pc = "tail", !.res = s])
      BY <1>3 DEF Body, BodyRemembers
    <3> QED
      BY <2>2, <3>1, <1>8
  <2> QED
    BY <1>17, <2>1, <2>2 DEF Persist
<1>18. ASSUME Finish(c, w) \/ Compile(c, w)
       PROVE  Good
  <2>1. CASE Puts(c, w, IF w.node = NoStep THEN "complete" ELSE w.res)
    BY <2>1, <1>3, <1>7 DEF Outcomes
  <2>2. CASE GoesTo(c, w, "compile")
    BY <2>2, <1>11
  <2>3. CASE /\ Steps(c, w, [w EXCEPT !.pc = "partial",
                                     !.res = IF output = "none" THEN "fresh" ELSE "cached"])
             /\ results' = results
    <3>1. BodyRemembers([w EXCEPT !.pc = "partial",
                                  !.res = IF output = "none" THEN "fresh" ELSE "cached"])
      BY <1>3 DEF Body, BodyRemembers
    <3> QED
      BY <2>3, <3>1, <1>8
  <2> QED
    BY <1>18, <2>1, <2>2, <2>3 DEF Finish, Compile
<1>19. Good
  BY <1>2, <1>12, <1>13, <1>14, <1>15, <1>16, <1>17, <1>18, <1>21, <1>22, <1>23
<1> QED
  BY <1>5, <1>6, <1>19 DEF Good, Keeps

\* A step of call c that leaves the bodies where they are, or only drops some.
LEMMA QuietKeeps ==
  ASSUME ExecutionInv, NEW c \in Calls, KeepsStored, KeepsCall(c),
         \A d \in Calls : inflight'[d] \subseteq inflight[d] \cup { u \in Body : u.pc = "enter" },
         \A d \in Calls : results'[d] \in {results[d], <<>>},
         \A d \in Calls \ {c} : /\ phase'[d] = phase[d] /\ target'[d] = target[d]
                              /\ retries'[d] = retries[d] /\ why'[d] = why[d]
  PROVE  Keeps
<1>1. /\ \A d \in Calls : ResultsNameSteps(d) /\ CallRemembers(d)
      /\ \A d \in Calls : \A u \in inflight[d] : BodyRemembers(u)
  BY DEF ExecutionInv
<1>2. \A d \in Calls : KeepsCall(d)
  BY <1>1, OthersKeep, ZenonT(40)
<1>3. \A d \in Calls : ResultsNameSteps(d)'
  BY <1>1 DEF ResultsNameSteps
<1>4. \A d \in Calls : \A u \in inflight'[d] : BodyRemembers(u)
  BY <1>1 DEF BodyRemembers
<1> QED
  BY <1>2, <1>3, <1>4 DEF Keeps

LEMMA TailIs ==
  ASSUME NEW S, NEW q \in Seq(S), q # <<>>
  PROVE  \A i \in DOMAIN Tail(q) : i + 1 \in DOMAIN q /\ Tail(q)[i] = q[i + 1]
  OBVIOUS

\* So does one that takes the first result out of the queue.
LEMMA TailNames ==
  ASSUME CallTypeOK, NEW c \in Calls, results[c] # <<>>, \A d \in Calls : ResultsNameSteps(d),
         results' = [results EXCEPT ![c] = Tail(@)]
  PROVE  \A d \in Calls : ResultsNameSteps(d)'
<1>1. results[c] \in Seq(Result) /\ results[c] # <<>>
  BY DEF CallTypeOK
<1>2. ASSUME NEW d \in Calls
      PROVE  ResultsNameSteps(d)'
  <2>1. \A i \in DOMAIN results[d] : results[d][i].status = "failed" => results[d][i].node \in Nodes
    BY DEF ResultsNameSteps
  <2>2. CASE d = c
    <3>1. results'[d] = Tail(results[c])
      BY <2>2 DEF CallTypeOK
    <3>2. \A i \in DOMAIN results'[d] :
             i + 1 \in DOMAIN results[c] /\ results'[d][i] = results[c][i + 1]
      <4>1. \A i \in DOMAIN Tail(results[c]) :
               i + 1 \in DOMAIN results[c] /\ Tail(results[c])[i] = results[c][i + 1]
        BY <1>1, TailIs
      <4> QED
        BY <3>1, <4>1, Zenon
    <3> QED
      BY <2>1, <2>2, <3>2 DEF ResultsNameSteps
  <2>3. CASE d # c
    BY <2>1, <2>3 DEF CallTypeOK, ResultsNameSteps
  <2> QED
    BY <2>2, <2>3
<1> QED
  BY <1>2

LEMMA DrainQuotaKeeps ==
  ASSUME ExecutionInv, NEW c \in Calls, DrainQuota(c)
  PROVE  Keeps
<1>1. /\ StoredRemembers /\ CallTypeOK
      /\ \A d \in Calls : ResultsNameSteps(d) /\ CallRemembers(d)
      /\ \A d \in Calls : \A u \in inflight[d] : BodyRemembers(u)
  BY DEF ExecutionInv, TypeOK
<1>2. KeepsStored
  BY <1>1 DEF DrainQuota, StoredRemembers, KeepsStored
<1>3. KeepsCall(c)
  BY <1>1 DEF DrainQuota, Goto, KeepsCall, CallTypeOK, CallRemembers
<1>4. \A d \in Calls \ {c} : /\ phase'[d] = phase[d] /\ target'[d] = target[d]
                           /\ retries'[d] = retries[d] /\ why'[d] = why[d]
  BY <1>1 DEF DrainQuota, Goto, CallTypeOK
<1>5. \A d \in Calls : KeepsCall(d)
  BY <1>1, <1>3, <1>4, OthersKeep
<1>6. \A d \in Calls : \A u \in inflight'[d] : BodyRemembers(u)
  BY <1>1 DEF DrainQuota, Live, CallTypeOK
<1>7. \A d \in Calls : ResultsNameSteps(d)'
  BY <1>1, TailNames DEF DrainQuota
<1> QED
  BY <1>2, <1>5, <1>6, <1>7 DEF Keeps

\* The drained result names the step to retry, and there is a retry left.
LEMMA DrainKeeps ==
  ASSUME ExecutionInv, NEW c \in Calls, Drain(c)
  PROVE  Keeps
<1>1. /\ StoredRemembers /\ CallTypeOK
      /\ \A d \in Calls : ResultsNameSteps(d) /\ CallRemembers(d)
      /\ \A d \in Calls : \A u \in inflight[d] : BodyRemembers(u)
  BY DEF ExecutionInv, TypeOK
<1>2. KeepsStored
  BY <1>1 DEF Drain, jobVars, StoredRemembers, KeepsStored
<1>3. results[c] \in Seq(Result) /\ results[c] # <<>>
  BY <1>1 DEF Drain, CallTypeOK
<1>4. 1 \in DOMAIN results[c] /\ Head(results[c]) = results[c][1]
  BY <1>3
<1>5. Head(results[c]).status = "failed" => Head(results[c]).node \in Nodes
  BY <1>1, <1>4 DEF ResultsNameSteps
<1>6. KeepsCall(c)
  BY <1>1, <1>5 DEF Drain, Goto, KeepsCall, CallTypeOK, CallRemembers
<1>7. \A d \in Calls \ {c} : /\ phase'[d] = phase[d] /\ target'[d] = target[d]
                           /\ retries'[d] = retries[d] /\ why'[d] = why[d]
  BY <1>1 DEF Drain, Goto, CallTypeOK
<1>8. \A d \in Calls : KeepsCall(d)
  BY <1>1, <1>6, <1>7, OthersKeep
<1>9. \A d \in Calls : \A u \in inflight'[d] : BodyRemembers(u)
  BY <1>1 DEF Drain, Live, CallTypeOK
<1>10. \A d \in Calls : ResultsNameSteps(d)'
  BY <1>1, <1>3, TailNames DEF Drain
<1> QED
  BY <1>2, <1>8, <1>9, <1>10 DEF Keeps

\* A call's own steps.
LEMMA RunKeeps ==
  ASSUME ExecutionInv, NEW c \in Calls, RunStep(c)
  PROVE  Keeps
<1>1. CallTypeOK /\ StoredRemembers /\ CallRemembers(c)
  BY DEF ExecutionInv, TypeOK
<1>2. ASSUME job' = job, asked' = asked, opRetry' = opRetry
      PROVE  KeepsStored
  BY <1>1, <1>2 DEF StoredRemembers, KeepsStored
<1>3. ASSUME NEW p \in Phases \ {"frame", "ask", "retry", "reset"}, Goto(c, p), KeepsStored,
             \A d \in Calls : inflight'[d] \subseteq inflight[d] \cup { u \in Body : u.pc = "enter" },
             \A d \in Calls : results'[d] \in {results[d], <<>>},
             \A d \in Calls \ {c} : target'[d] = target[d] /\ retries'[d] = retries[d],
             why' = why
      PROVE  Keeps
  BY <1>1, <1>3, QuietKeeps DEF Goto, KeepsCall, CallTypeOK, CallRemembers
<1>4. CASE Validate(c)
  <2>1. KeepsStored
    BY <1>2, <1>4 DEF Validate, jobVars
  <2>2. CASE Leaves(c, "clean")
    BY <2>1, <2>2, LeavesKeeps
  <2>3. CASE Goto(c, "claim") /\ UNCHANGED <<why, retries, inflight, results, target, down, held>>
    BY <2>1, <2>3, <1>3 DEF Phases
  <2> QED
    BY <1>4, <2>2, <2>3 DEF Validate
<1>5. CASE ClaimFrontier(c)
  <2>1. KeepsStored
    BY <1>2, <1>5 DEF ClaimFrontier, jobVars
  <2> DEFINE free == IF Cardinality(inflight[c]) < Cap THEN Cap - Cardinality(inflight[c]) ELSE 0
             started == { [node |-> n, claim |-> claims[n] + 1, pc |-> "enter", res |-> "none"] :
                            n \in FirstOf(Claimable, free) }
  <2>2. FirstOf(Claimable, free) \subseteq Nodes
    BY DEF FirstOf, Claimable, Ready
  <2>3. /\ inflight' = [inflight EXCEPT ![c] = @ \cup started]
        /\ Goto(c, IF inflight[c] \cup started = {} THEN "settle" ELSE "drain")
        /\ UNCHANGED <<why, retries, results, target>>
    BY <1>5 DEF ClaimFrontier
  <2>4. started \subseteq { u \in Body : u.pc = "enter" }
    BY <2>2 DEF ExecutionInv, TypeOK, StoredTypeOK, Body, BodyPcs, Outcomes
  <2> HIDE DEF started
  <2>5. \A d \in Calls : inflight'[d] \subseteq inflight[d] \cup { u \in Body : u.pc = "enter" }
    BY <1>1, <2>3, <2>4 DEF CallTypeOK
  <2>6. Goto(c, "settle") \/ Goto(c, "drain")
    BY <2>3
  <2> QED
    BY <2>1, <2>3, <2>5, <2>6, <1>3 DEF Phases
<1>6. CASE Settle(c)
  <2>1. (First(MustAsk) \in Nodes /\ DepsHeld(First(MustAsk))) \/ MustAsk = {}
    BY FirstIsIn, MetIsHeld DEF MustAsk, Ready
  <2>2. KeepsStored
    BY <1>2, <1>6 DEF Settle, jobVars
  <2>3. KeepsCall(c)
    BY <1>1, <1>6, <2>1 DEF Settle, Goto, KeepsCall, CallTypeOK, CallRemembers
  <2> QED
    BY <1>1, <1>6, <2>2, <2>3, QuietKeeps DEF Settle, Goto, CallTypeOK
<1>7. CASE Park(c)
  <2>1. KeepsStored
    BY <1>1, <1>7 DEF Park, StoredRemembers, KeepsStored, CallRemembers
  <2>2. CASE Leaves(c, "clean")
    BY <2>1, <2>2, LeavesKeeps
  <2>3. CASE Goto(c, "sum") /\ UNCHANGED <<why, retries, inflight, results, target, down, held>>
    BY <2>1, <2>3, <1>3 DEF Phases
  <2> QED
    BY <1>7, <2>2, <2>3 DEF Park
<1>8. CASE Sum(c)
  <2>1. KeepsStored
    BY <1>2, <1>8 DEF Sum, jobVars
  <2>2. CASE Leaves(c, "clean")
    BY <2>1, <2>2, LeavesKeeps
  <2>3. CASE /\ Goto(c, "final")
             /\ inflight' = [inflight EXCEPT ![c] = {FreshCall}]
             /\ UNCHANGED <<why, retries, results, target, down, held>>
    <3>1. FreshCall \in { u \in Body : u.pc = "enter" }
      BY StepFacts DEF FreshCall
    <3>2. \A d \in Calls : inflight'[d] \subseteq inflight[d] \cup { u \in Body : u.pc = "enter" }
      BY <1>1, <2>3, <3>1 DEF CallTypeOK
    <3> QED
      BY <2>1, <2>3, <3>2, <1>3 DEF Phases
  <2> QED
    BY <1>8, <2>2, <2>3 DEF Sum
<1>9. CASE FinalReturns(c) \/ DrainBudget(c) \/ QuotaStops(c)
  <2>1. KeepsStored
    BY <1>2, <1>9 DEF FinalReturns, DrainBudget, QuotaStops, jobVars
  <2> QED
    BY <1>9, <2>1, LeavesKeeps DEF FinalReturns, DrainBudget, QuotaStops
<1>18. CASE Recheck(c)
  <2>1. KeepsStored
    BY <1>2, <1>18 DEF Recheck, jobVars
  <2>2. KeepsCall(c)
    BY <1>1, <1>18 DEF Recheck, Goto, KeepsCall, CallTypeOK, CallRemembers
  <2> QED
    BY <1>1, <1>18, <2>1, <2>2, QuietKeeps DEF Recheck, Goto, CallTypeOK
<1>10. CASE Drain(c)
  BY <1>10, DrainKeeps
<1>11. CASE AutoRetryReads(c)
  <2>1. KeepsStored
    BY <1>2, <1>11 DEF AutoRetryReads, jobVars
  <2>2. KeepsCall(c)
    BY <1>1, <1>11 DEF AutoRetryReads, Goto, KeepsCall, CallTypeOK, CallRemembers
  <2> QED
    BY <1>1, <1>11, <2>1, <2>2, QuietKeeps DEF AutoRetryReads, Goto, CallTypeOK
<1>12. CASE AutoRetryResets(c)
  <2>1. KeepsStored
    BY <1>1, <1>12 DEF AutoRetryResets, Resets, StoredRemembers, KeepsStored
  <2>2. /\ Goto(c, "claim") /\ UNCHANGED <<why, inflight, results, target>>
        /\ \A d \in Calls \ {c} : retries'[d] = retries[d]
    BY <1>1, <1>12 DEF AutoRetryResets, CallTypeOK
  <2> QED
    BY <2>1, <2>2, <1>3 DEF Phases
<1>13. CASE Release(c)
  <2>1. KeepsStored
    BY <1>2, <1>13 DEF Release, jobVars
  <2>2. KeepsCall(c)
    BY <1>1, <1>13 DEF Release, Spawned, Goto, KeepsCall, CallTypeOK, CallRemembers
  <2> QED
    BY <1>1, <1>13, <2>1, <2>2, QuietKeeps DEF Release, Goto, CallTypeOK
<1>14. CASE Count(c)
  <2>1. KeepsStored
    BY <1>2, <1>14 DEF Count, jobVars
  <2>2. KeepsCall(c)
    BY <1>1, <1>14, DoneIsHeld DEF Count, Goto, KeepsCall, CallTypeOK, CallRemembers
  <2> QED
    BY <1>1, <1>14, <2>1, <2>2, QuietKeeps DEF Count, Goto, CallTypeOK
<1>15. CASE Cleanup(c)
  <2>1. KeepsStored
    BY <1>1, <1>15 DEF Cleanup, StoredRemembers, KeepsStored
  <2> QED
    BY <1>15, <2>1, <1>3 DEF Cleanup, Phases
<1>16. CASE SoloReturns(c)
  <2>1. KeepsStored
    BY <1>2, <1>16 DEF SoloReturns, jobVars
  <2> QED
    BY <1>1, <1>16, <2>1, <1>3 DEF SoloReturns, Phases, CallTypeOK
<1>17. CASE Keepalive(c)
  <2>1. KeepsStored
    BY <1>2, <1>17 DEF Keepalive, jobVars
  <2>2. \A d \in Calls : inflight'[d] \subseteq inflight[d]
    BY <1>1, <1>17 DEF Keepalive, Live, CallTypeOK
  <2> QED
    BY <1>17, <2>1, <2>2, <1>3 DEF Keepalive, Phases
<1> QED
  BY <1>4, <1>5, <1>6, <1>7, <1>8, <1>9, <1>10, <1>11, <1>12, <1>13, <1>14, <1>15, <1>16, <1>17,
     <1>18 DEF RunStep

\* Admission and what happens to a call from outside.
LEMMA CallKeeps ==
  ASSUME ExecutionInv, CallNext
  PROVE  Keeps
<1>1. CallTypeOK /\ StoredRemembers /\ \A c \in Calls : CallRemembers(c)
  BY DEF ExecutionInv, TypeOK
<1>2. PICK c \in Calls :
        \/ Admit(c) \/ Solo(c) \/ RunStep(c) \/ BodyStep(c)
        \/ HandsOnGate(c) \/ RunFails(c) \/ LookFails(c) \/ Reread(c) \/ DrainQuota(c) \/ Disconnect(c)
  BY DEF CallNext, RunUpset
<1>3. CASE Admit(c)
  <2>1. KeepsStored
    BY <1>1, <1>3 DEF Admit, StoredRemembers, KeepsStored
  <2>2. KeepsCall(c)
    BY <1>1, <1>3 DEF Admit, Goto, KeepsCall, CallTypeOK, CallRemembers
  <2> QED
    BY <1>1, <1>3, <2>1, <2>2, QuietKeeps DEF Admit, Goto, CallTypeOK
<1>4. CASE Solo(c)
  <2>1. KeepsStored
    BY <1>1, <1>4 DEF Solo, jobVars, StoredRemembers, KeepsStored
  <2>2. KeepsCall(c)
    BY <1>1, <1>4 DEF Solo, Goto, KeepsCall, CallTypeOK, CallRemembers
  <2>3. FreshCall \in { u \in Body : u.pc = "enter" }
    BY StepFacts DEF FreshCall
  <2>4. \A d \in Calls : inflight'[d] \subseteq inflight[d] \cup { u \in Body : u.pc = "enter" }
    BY <1>1, <1>4, <2>3 DEF Solo, CallTypeOK
  <2> QED
    BY <1>1, <1>4, <2>1, <2>2, <2>4, QuietKeeps DEF Solo, Goto, CallTypeOK
<1>5. CASE HandsOnGate(c) \/ RunFails(c) \/ LookFails(c) \/ Reread(c) \/ Disconnect(c)
  <2>1. KeepsStored
    BY <1>1, <1>5 DEF HandsOnGate, RunFails, LookFails, Reread, Disconnect, jobVars,
                      StoredRemembers, KeepsStored
  <2>2. CASE \E r : r # "finished" /\ Leaves(c, r)
    BY <2>1, <2>2, LeavesKeeps
  <2>3. CASE LookFails(c) \/ Reread(c)
    <3>1. KeepsCall(c)
      BY <1>1, <2>3 DEF LookFails, Reread, Goto, KeepsCall, CallTypeOK, CallRemembers
    <3> QED
      BY <1>1, <2>1, <2>3, <3>1, QuietKeeps DEF LookFails, Reread, Goto, CallTypeOK
  <2>4. CASE /\ why' = [why EXCEPT ![c] = "cancelled"]
             /\ UNCHANGED <<phase, retries, inflight, results, target, down, held>>
    <3>1. KeepsCall(c)
      BY <1>1, <2>4 DEF KeepsCall, CallTypeOK, CallRemembers
    <3> QED
      BY <1>1, <2>1, <2>4, <3>1, QuietKeeps DEF CallTypeOK
  <2> QED
    BY <1>5, <2>2, <2>3, <2>4 DEF HandsOnGate, RunFails, Disconnect
<1>6. CASE DrainQuota(c)
  BY <1>6, DrainQuotaKeeps
<1> QED
  BY <1>2, <1>3, <1>4, <1>5, <1>6, RunKeeps, BodyKeeps

\* The operator and the reaper touch no call.
LEMMA OutsideKeeps ==
  ASSUME ExecutionInv, StepNext \/ JobNext
  PROVE  Keeps
<1>1. /\ StoredRemembers
      /\ \A c \in Calls : CallRemembers(c) /\ ResultsNameSteps(c)
      /\ \A c \in Calls : \A w \in inflight[c] : BodyRemembers(w)
  BY DEF ExecutionInv
<1>2. UNCHANGED callVars
  BY DEF StepNext, JobNext, OperatorRetryReads, Skip, Reset, ReapOrphan, ReapSlow, OperatorRetryResets,
         CancelJob, Resume, Decide, Reask, ReapStaleJob
<1>3. KeepsStored
  <2>1. ASSUME NEW n \in Nodes, Reset(n)
        PROVE  KeepsStored
    <3>1. job' = "awaiting_decision" => job = "awaiting_decision" /\ asked' = asked
      BY <2>1 DEF Reset
    <3> QED
      BY <1>1, <2>1, <3>1 DEF Reset, StoredRemembers, KeepsStored
  <2> QED
    BY <1>1, <2>1
       DEF StepNext, JobNext, OperatorRetryReads, Skip, ReapOrphan, ReapSlow,
           OperatorRetryResets, Resets, CancelJob, Resume, Decide, Reask, ReapStaleJob,
           jobVars, StoredRemembers, KeepsStored
<1>4. \A c \in Calls : KeepsCall(c)
  BY <1>1, <1>2, OthersKeep DEF callVars
<1> QED
  BY <1>1, <1>2, <1>3, <1>4 DEF callVars, Keeps, ResultsNameSteps

\* So every step keeps what the calls and their bodies remember.
LEMMA NextKeeps ==
  ASSUME ExecutionInv, [Next]_vars
  PROVE  Keeps
<1>1. CASE Next
  BY <1>1, CallKeeps, OutsideKeeps DEF Next
<1>2. CASE UNCHANGED vars
  <2>1. UNCHANGED callVars /\ job' = job /\ asked' = asked /\ opRetry' = opRetry
    BY <1>2 DEF vars, jobVars
  <2> QED
    BY <2>1 DEF ExecutionInv, callVars, Keeps, KeepsStored, StoredRemembers, KeepsCall,
                CallRemembers, ResultsNameSteps
<1> QED
  BY <1>1, <1>2

-----------------------------------------------------------------------------
(* The theorems.                                                             *)

\* The inductive invariant holds of a freshly planned job.
LEMMA InitInv == Init => ExecutionInv
<1> SUFFICES ASSUME Init PROVE ExecutionInv
  OBVIOUS
<1>1. DagInv
  BY DagInitInv DEF Init
<1>2. StoredTypeOK
  BY ExecutionAssumption, StepFacts DEF Init, StoredTypeOK, Outputs
<1>3. CallTypeOK
  BY ExecutionAssumption DEF Init, CallTypeOK, Phases, Reasons
<1>4. StoredRemembers
  BY DEF Init, DagInit, StoredRemembers
<1>5. \A c \in Calls : CallRemembers(c) /\ ResultsNameSteps(c)
  BY DEF Init, CallRemembers, ResultsNameSteps
<1>6. \A c \in Calls : \A w \in inflight[c] : BodyRemembers(w)
  BY DEF Init
<1> QED
  BY <1>1, <1>2, <1>3, <1>4, <1>5, <1>6 DEF ExecutionInv, TypeOK, DagInv

\* What was true of a remembered step when it was read is true afterwards.
LEMMA KeepsInv ==
  ASSUME DagTypeOK, DagNext \/ UNCHANGED dagVars, Keeps
  PROVE  /\ StoredRemembers'
         /\ \A c \in Calls : CallRemembers(c)' /\ ResultsNameSteps(c)'
         /\ \A c \in Calls : \A w \in inflight'[c] : BodyRemembers(w)'
<1>1. \A n \in Nodes : DepsHeld(n) => DepsHeld(n)'
  BY DepsStayHeld
<1>2. AllHeld => AllHeld'
  BY AllHeldStays
<1>3. job' = "awaiting_decision" => asked' \in Nodes /\ DepsHeld(asked)'
  BY <1>1 DEF Keeps, KeepsStored, DepsHeld, Settled
<1>4. StoredRemembers'
  BY <1>3 DEF Keeps, KeepsStored, StoredRemembers
<1>5. ASSUME NEW c \in Calls
      PROVE  CallRemembers(c)' /\ ResultsNameSteps(c)'
  <2>1. KeepsCall(c) /\ ResultsNameSteps(c)'
    BY DEF Keeps
  <2>2. phase'[c] \in {"frame", "ask"} => target'[c] \in Nodes /\ DepsHeld(target[c])'
    BY <1>1, <2>1 DEF KeepsCall, DepsHeld, Settled
  <2> QED
    BY <1>2, <2>1, <2>2 DEF KeepsCall, CallRemembers
<1>6. ASSUME NEW c \in Calls, NEW w \in inflight'[c]
      PROVE  BodyRemembers(w)'
  BY <1>1, <1>6 DEF Keeps, BodyRemembers
<1> QED
  BY <1>4, <1>5, <1>6

\* Every step of the executor keeps the inductive invariant.
LEMMA NextInv ==
  ASSUME ExecutionInv, [Next]_vars
  PROVE  ExecutionInv'
<1>1. DagInv
  BY DEF ExecutionInv, TypeOK, DagInv
<1>2. DagNext \/ UNCHANGED dagVars
  BY NextRefines
<1>3. DagInv'
  BY <1>1, <1>2, DagNextInv
<1>4. StoredTypeOK' /\ CallTypeOK'
  BY NextTypes
<1>5. Keeps
  BY NextKeeps
<1>6. /\ StoredRemembers'
      /\ \A c \in Calls : CallRemembers(c)' /\ ResultsNameSteps(c)'
      /\ \A c \in Calls : \A w \in inflight'[c] : BodyRemembers(w)'
  BY <1>1, <1>2, <1>5, KeepsInv DEF DagInv
<1> QED
  BY <1>3, <1>4, <1>6 DEF ExecutionInv, TypeOK, DagInv

\* The inductive invariant holds in every behaviour of the executor: what a call
\* or a body read before an await and acts on after it is still true then.
THEOREM ExecutionSafety == Spec => []ExecutionInv
<1>1. ExecutionInv /\ [Next]_vars => ExecutionInv'
  BY NextInv
<1> QED
  BY InitInv, <1>1, PTL DEF Spec

\* Types, and with them the bound that no run retries more often than
\* execution_global_retry_cap allows.
THEOREM TypeCorrect == Spec => []TypeOK
<1>1. ExecutionInv => TypeOK
  BY DEF ExecutionInv
<1> QED
  BY ExecutionSafety, <1>1, PTL

\* No step is started ahead of a dependency, by the frontier's claim, by a body
\* claiming for itself or by the operator's answer to a decision.
THEOREM OrderKept == Spec => []DependencyOrder
<1>1. ExecutionInv => DependencyOrder
  BY DEF ExecutionInv
<1> QED
  BY ExecutionSafety, <1>1, PTL

\* A job is completed only over a finished plan, by a body, by the terminal call
\* or by the detached cleanup, and the plan then stays finished.
THEOREM WholeWhenCompleted == Spec => []CompletedIsWhole
<1>1. ExecutionInv => CompletedIsWhole
  BY DEF ExecutionInv
<1> QED
  BY ExecutionSafety, <1>1, PTL

\* The executor implements the abstract job: each of its steps is a legal move of
\* the job and of the steps of the plan, or is invisible.
THEOREM ImplementsDag == Spec => DagSpec
<1>1. Init => DagInit
  BY DEF Init
<1>2. ExecutionInv /\ [Next]_vars => [DagNext]_dagVars
  BY NextRefines
<1> QED
  BY ExecutionSafety, <1>1, <1>2, PTL DEF Spec, DagSpec

\* Whoever undoes a settled step puts it on record.
TakesBack == Outside("reset") \/ Outside("stale_tests")

LEMMA BodyTakesBack ==
  ASSUME ExecutionInv, NEW c \in Calls, BodyStep(c), NEW n \in Nodes, Settled(n)
  PROVE  st'[n] = st[n] \/ TakesBack
<1>1. PICK w \in inflight[c] :
        \/ Enter(c, w) \/ PeekFails(c, w) \/ OverBudget(c, w)
        \/ RereadAlone(c, w) \/ RecheckAlone(c, w) \/ ParkAlone(c, w)
        \/ Pick(c, w) \/ Take(c, w)
        \/ Persist(c, w, "done") \/ Persist(c, w, "failed")
        \/ GivesUp(c, w) \/ Shortcut(c, w) \/ WorkerError(c, w)
        \/ Finish(c, w) \/ Compile(c, w) \/ Partial(c, w)
  BY DEF BodyStep
<1>2. st[n] \notin {"pending", "running"} /\ st \in [Nodes -> NodeStatuses]
  BY DEF Settled, SettledStatuses, ExecutionInv, TypeOK, DagTypeOK
<1>3. CASE RereadAlone(c, w)
  BY <1>3 DEF RereadAlone, StaleTests, TakesBack
<1>4. CASE Take(c, w)
  BY <1>2, <1>4 DEF Take
<1>5. ASSUME NEW s, Persist(c, w, s) \/ EndsAtOnce(c, w, s)
      PROVE  st'[n] = st[n]
  BY <1>2, <1>5 DEF Persist, EndsAtOnce
<1>6. st' = st \/ RereadAlone(c, w) \/ Take(c, w) \/ \E s : Persist(c, w, s) \/ EndsAtOnce(c, w, s)
  BY <1>1 DEF Enter, PeekFails, OverBudget, RecheckAlone, ParkAlone, Pick, GivesUp, Shortcut,
              WorkerError, Finish, Compile, Partial, nodeVars
<1> QED
  BY <1>3, <1>4, <1>5, <1>6

LEMMA CallTakesBack ==
  ASSUME ExecutionInv, CallNext, NEW n \in Nodes, Settled(n)
  PROVE  st'[n] = st[n] \/ TakesBack
<1>1. PICK c \in Calls :
        \/ Admit(c) \/ Solo(c) \/ RunStep(c) \/ BodyStep(c)
        \/ HandsOnGate(c) \/ RunFails(c) \/ LookFails(c) \/ Reread(c) \/ DrainQuota(c) \/ Disconnect(c)
  BY DEF CallNext, RunUpset
<1>2. st[n] \notin {"pending", "running", "failed"}
  BY DEF Settled, SettledStatuses
<1>3. CASE Admit(c) \/ Solo(c) \/ HandsOnGate(c) \/ RunFails(c) \/ LookFails(c) \/ DrainQuota(c) \/ Disconnect(c)
  BY <1>3 DEF Admit, Solo, HandsOnGate, RunFails, LookFails, DrainQuota, Disconnect, nodeVars
<1>4. CASE Reread(c)
  BY <1>4 DEF Reread, StaleTests, TakesBack
<1>5. CASE RunStep(c)
  <2>1. CASE ClaimFrontier(c)
    BY <1>2, <2>1 DEF ClaimFrontier, FirstOf, Claimable, Ready
  <2>2. CASE AutoRetryResets(c)
    BY <1>2, <2>2 DEF AutoRetryResets, Resets
  <2>3. CASE Release(c) \/ Cleanup(c)
    BY <1>2, <2>3 DEF Release, Cleanup
  <2> QED
    BY <1>5, <2>1, <2>2, <2>3
       DEF RunStep, Validate, Settle, Recheck, Park, Sum, FinalReturns, Drain, Keepalive, DrainBudget,
           QuotaStops, AutoRetryReads, Count, SoloReturns, nodeVars
<1> QED
  BY <1>1, <1>3, <1>4, <1>5, BodyTakesBack

LEMMA OutsideTakesBack ==
  ASSUME ExecutionInv, StepNext \/ JobNext, NEW n \in Nodes, Settled(n)
  PROVE  st'[n] = st[n] \/ TakesBack
<1>1. st[n] \notin {"pending", "running", "failed"} /\ st \in [Nodes -> NodeStatuses] /\ StoredRemembers
  BY DEF Settled, SettledStatuses, ExecutionInv, TypeOK, DagTypeOK
<1>2. ASSUME NEW m \in Nodes, OperatorRetryReads(m) \/ Skip(m) \/ ReapOrphan(m) \/ ReapSlow(m)
      PROVE  st'[n] = st[n]
  BY <1>1, <1>2 DEF OperatorRetryReads, Skip, ReapOrphan, ReapSlow, Reap, nodeVars
<1>3. ASSUME NEW m \in Nodes, Reset(m)
      PROVE  TakesBack
  BY <1>3 DEF Reset, TakesBack
<1>4. CASE OperatorRetryResets \/ Decide
  BY <1>1, <1>4 DEF OperatorRetryResets, Resets, Decide, StoredRemembers
<1> QED
  BY <1>2, <1>3, <1>4 DEF StepNext, JobNext, CancelJob, Resume, Reask, ReapStaleJob, nodeVars

\* However calls overlap, and whatever is cancelled, retried, reaped or disconnected
\* beside them, a settled step is undone only by being put back: it is a step that
\* stale tests or a reset may take back, it goes to pending, and the stale tests or
\* the reset are on record.
PutBackOnly ==
  [][\A n \in Nodes : Settled(n) =>
       st'[n] = st[n] \/ (n \in Reopenable /\ st'[n] = "pending" /\ TakesBack)]_vars

LEMMA UndoneOnRecord ==
  ASSUME ExecutionInv, [Next]_vars, NEW n \in Nodes, Settled(n)
  PROVE  st'[n] = st[n] \/ (n \in Reopenable /\ st'[n] = "pending" /\ TakesBack)
<1>1. st'[n] = st[n] \/ TakesBack
  BY CallTakesBack, OutsideTakesBack DEF Next, vars, nodeVars
<1>2. st'[n] = st[n] \/ (n \in Reopenable /\ st'[n] = "pending")
  BY NextRefines DEF DagNext, dagVars, StepMoves, StartsStep, EndsStep, RetriesStep, SkipsStep, AnswersStep,
                     ReopensStep, Settled, SettledStatuses
<1> QED
  BY <1>1, <1>2

\* The executor and all beside it undo no settled step but on record: no late body,
\* retry, reaper or cleanup writes over what was done or skipped.
THEOREM ExecutionKeepsWork == Spec => PutBackOnly
<1>1. ExecutionInv /\ [Next]_vars =>
        [\A n \in Nodes : Settled(n) =>
           st'[n] = st[n] \/ (n \in Reopenable /\ st'[n] = "pending" /\ TakesBack)]_vars
  BY UndoneOnRecord
<1> QED
  BY ExecutionSafety, <1>1, PTL DEF Spec, PutBackOnly

-----------------------------------------------------------------------------
(* Who works on a step.  A call owns a step from the claim of it to the moment *)
(* nothing the call does can touch it any more: while a body holds the claim,  *)
(* while the failure the body reported waits to be looked at or to be retried, *)
(* and while the step waits to be released.                                    *)

\* The outside events that take a step from under its body, or report a failure
\* the step's row does not know of: the age-based reaper, an operator's retry, skip
\* and reset, stale tests, an exception outside the body's handlers.  (Only a reset
\* and stale tests ever look at Reopenable.)
Undisturbed ==
  /\ Events \cap {"slow_reap", "retry", "skip", "worker_error", "reset", "stale_tests"} = {}
  /\ Reopenable = {}

Holding(w, n) == w.node = n /\ w.claim > 0 /\ w.pc # "ended"
Reports(r, n) == r.status = "failed" /\ r.node = n
Reported(c, n) == \E i \in DOMAIN results[c] : Reports(results[c][i], n)
Retrying(c, n) == phase[c] \in {"retry", "reset"} /\ target[c] = n
Releasing(c, n) == phase[c] = "release" /\ n \in held[c]

Owns(c, n) ==
  \/ \E w \in inflight[c] : Holding(w, n)
  \/ Reported(c, n) \/ Retrying(c, n) \/ Releasing(c, n)

\* A body knows the current claim of its step, which is running, or failed by a
\* cleanup, until the body itself writes its outcome.
BodyClaims(w) ==
  /\ w.claim > 0 => w.node \in Nodes
  /\ w.claim > 0 /\ w.pc # "ended" => w.claim = claims[w.node]
  /\ w.pc \in {"enter", "tail", "compile"} /\ w.node # NoStep => w.claim > 0
  /\ w.pc = "work" => w.claim > 0
  /\ w.pc \in {"claim", "frame", "ask", "take", "partial"} => w.claim = 0
  /\ w.pc = "claim" => w.node = NoStep
  /\ w.claim > 0 /\ w.pc \in {"enter", "work"} => st[w.node] \in {"running", "failed"}
  /\ w.claim > 0 /\ w.pc \in {"tail", "compile"} /\ w.res = "failed" => st[w.node] = "failed"

\* A call owns a step in one way only.
OwnsOnce(c) ==
  \A n \in Nodes :
    /\ \A v, w \in inflight[c] : Holding(v, n) /\ Holding(w, n) => v = w
    /\ \A w \in inflight[c] : Holding(w, n) => ~Reported(c, n) /\ ~Retrying(c, n)
    /\ Reported(c, n) => ~Retrying(c, n)
    /\ \A i, j \in DOMAIN results[c] :
         Reports(results[c][i], n) /\ Reports(results[c][j], n) => i = j

\* A failure that was reported and not yet retried still stands.
FailuresStand(c) ==
  \A n \in Nodes : Reported(c, n) \/ Retrying(c, n) => st[n] = "failed"

\* A call that has not begun, or has left, has nothing going; inside the loop
\* every body has a claim.
NothingLoose(c) ==
  /\ phase[c] \in {"idle", "release", "count", "cleanup", "over"} =>
       inflight[c] = {} /\ results[c] = <<>>
  /\ phase[c] \notin {"final", "solo"} =>
       \A w \in inflight[c] : w.pc # "ended" => w.claim > 0
  /\ phase[c] = "reset" => down[c] \subseteq Downstream(target[c])

CallClaims(c) ==
  /\ \A w \in inflight[c] : BodyClaims(w)
  /\ OwnsOnce(c) /\ FailuresStand(c) /\ NothingLoose(c)

\* The inductive invariant: a step has one owner, and none while it is pending.
ClaimInv ==
  /\ \A n \in Nodes : \A c, d \in Calls : Owns(c, n) /\ Owns(d, n) => c = d
  /\ \A n \in Nodes : \A c \in Calls : st[n] = "pending" => ~Owns(c, n)
  /\ \A c \in Calls : CallClaims(c)
  /\ \A n \in Nodes : st[n] # "skipped"
  /\ opRetry = NoRetry

\* What a step may do to a step of the plan somebody owns: nothing, or what the
\* cleanup of another call does.
StepStands(n) ==
  /\ claims'[n] = claims[n]
  /\ st'[n] = st[n] \/ (st[n] = "running" /\ st'[n] = "failed")

SameCall(d) ==
  /\ phase'[d] = phase[d] /\ target'[d] = target[d] /\ held'[d] = held[d]
  /\ down'[d] = down[d] /\ inflight'[d] = inflight[d] /\ results'[d] = results[d]

\* A call whose own variables did not move owns what it did, and still rightly.
LEMMA OthersOwn ==
  ASSUME ExecutionInv, NEW d \in Calls, CallClaims(d), SameCall(d),
         \A n \in Nodes : Owns(d, n) => StepStands(n)
  PROVE  /\ CallClaims(d)'
         /\ \A n \in Nodes : Owns(d, n)' <=> Owns(d, n)
<1>1. \A n \in Nodes : /\ Reported(d, n)' <=> Reported(d, n)
                       /\ Retrying(d, n)' <=> Retrying(d, n)
                       /\ Releasing(d, n)' <=> Releasing(d, n)
  BY DEF SameCall, Reported, Retrying, Releasing
<1>2. \A n \in Nodes : Owns(d, n)' <=> Owns(d, n)
  BY <1>1 DEF SameCall, Owns
<1>3. ASSUME NEW w \in inflight[d]
      PROVE  BodyClaims(w)'
  <2>1. BodyClaims(w)
    BY DEF CallClaims
  <2>2. w.claim > 0 /\ w.pc # "ended" => StepStands(w.node)
    BY <2>1 DEF BodyClaims, Owns, Holding
  <2> QED
    BY <2>1, <2>2 DEF BodyClaims, StepStands
<1>4. OwnsOnce(d)'
  BY <1>1 DEF CallClaims, OwnsOnce, SameCall
<1>5. FailuresStand(d)'
  <2> SUFFICES ASSUME NEW n \in Nodes, Reported(d, n) \/ Retrying(d, n)
               PROVE  st'[n] = "failed"
    BY <1>1 DEF FailuresStand
  <2>1. st[n] = "failed" /\ StepStands(n)
    BY DEF CallClaims, FailuresStand, Owns
  <2> QED
    BY <2>1 DEF StepStands
<1>6. NothingLoose(d)'
  BY DEF CallClaims, NothingLoose, SameCall
<1> QED
  BY <1>2, <1>3, <1>4, <1>5, <1>6 DEF CallClaims, SameCall

\* A step of call c: what it owns afterwards it owned before, or was free.
LEMMA OneCallMoves ==
  ASSUME ExecutionInv, ClaimInv, NEW c \in Calls, CallClaims(c)',
         \A d \in Calls \ {c} : SameCall(d),
         \A n \in Nodes : Owns(c, n)' => Owns(c, n) \/ st[n] = "pending",
         \A n \in Nodes : st'[n] = "pending" => ~Owns(c, n)',
         \A d \in Calls \ {c} : \A n \in Nodes : Owns(d, n) => StepStands(n),
         \A n \in Nodes : st'[n] # "skipped",
         opRetry' = NoRetry
  PROVE  ClaimInv'
<1>1. \A d \in Calls \ {c} :
        CallClaims(d)' /\ \A n \in Nodes : Owns(d, n)' <=> Owns(d, n)
  BY OthersOwn DEF ClaimInv
<1>2. ASSUME NEW n \in Nodes, NEW d \in Calls \ {c}, Owns(d, n)'
      PROVE  ~Owns(c, n)' /\ st'[n] # "pending"
  <2>1. Owns(d, n) /\ StepStands(n)
    BY <1>1, <1>2
  <2>2. st[n] # "pending" /\ ~Owns(c, n)
    BY <2>1 DEF ClaimInv
  <2> QED
    BY <2>1, <2>2 DEF StepStands
<1>3. \A n \in Nodes : \A d, e \in Calls : Owns(d, n)' /\ Owns(e, n)' => d = e
  <2> SUFFICES ASSUME NEW n \in Nodes, NEW d \in Calls, NEW e \in Calls, Owns(d, n)', Owns(e, n)'
               PROVE  d = e
    OBVIOUS
  <2>1. CASE d = c \/ e = c
    BY <1>2, <2>1
  <2>2. CASE d # c /\ e # c
    BY <1>1, <2>2 DEF ClaimInv
  <2> QED
    BY <2>1, <2>2
<1>4. \A n \in Nodes : \A d \in Calls : st'[n] = "pending" => ~Owns(d, n)'
  BY <1>2
<1>5. \A d \in Calls : CallClaims(d)'
  BY <1>1
<1> QED
  BY <1>3, <1>4, <1>5 DEF ClaimInv

\* Nobody owns a pending step, and what one call owns no other does.
LEMMA OwnedByOne ==
  ASSUME ClaimInv, NEW c \in Calls, NEW d \in Calls \ {c}, NEW n \in Nodes, Owns(d, n)
  PROVE  ~Owns(c, n) /\ st[n] # "pending"
  BY DEF ClaimInv

\* A call that starts, goes round its loop or is over, and drops what it drops.
LEMMA QuietOwns ==
  ASSUME ExecutionInv, ClaimInv, NEW c \in Calls,
         NEW p \in { "gate", "claim", "settle", "frame", "ask", "sum", "final", "drain", "solo",
                     "count", "cleanup", "over" },
         phase' = [phase EXCEPT ![c] = p], \A d \in Calls \ {c} : SameCall(d),
         inflight'[c] \subseteq inflight[c] \cup {FreshCall}, results'[c] \in {results[c], <<>>},
         p \notin {"final", "solo"} => /\ inflight'[c] \subseteq inflight[c]
                                       /\ inflight'[c] = {} \/ phase[c] \notin {"final", "solo"},
         p \in {"count", "cleanup", "over"} => inflight'[c] = {} /\ results'[c] = <<>>,
         \A n \in Nodes : st'[n] = st[n] \/ (st[n] = "running" /\ st'[n] = "failed"),
         claims' = claims, opRetry' = opRetry
  PROVE  ClaimInv'
<1>1. CallClaims(c) /\ phase'[c] = p
  BY DEF ClaimInv, ExecutionInv, TypeOK, CallTypeOK
<1>2. \A n \in Nodes : ~(Retrying(c, n)') /\ ~(Releasing(c, n)')
  BY <1>1 DEF Retrying, Releasing
<1>3. \A n \in Nodes : Reported(c, n)' => Reported(c, n)
  BY DEF Reported
<1>4. \A n \in Nodes : ~Holding(FreshCall, n)
  BY DEF Holding, FreshCall
<1>5. \A n \in Nodes : Owns(c, n)' => Owns(c, n)
  BY <1>2, <1>3, <1>4 DEF Owns
<1>6. ASSUME NEW w \in inflight'[c]
      PROVE  BodyClaims(w)'
  <2>1. CASE w = FreshCall
    BY <2>1 DEF FreshCall, BodyClaims
  <2>2. CASE w \in inflight[c]
    <3>1. BodyClaims(w)
      BY <1>1, <2>2 DEF CallClaims
    <3> QED
      BY <3>1 DEF BodyClaims
  <2> QED
    BY <2>1, <2>2
<1>7. OwnsOnce(c)'
  <2>1. \A n \in Nodes : \A v, w \in inflight'[c] : Holding(v, n) /\ Holding(w, n) => v = w
    BY <1>1, <1>4 DEF CallClaims, OwnsOnce
  <2>2. \A n \in Nodes : \A w \in inflight'[c] : Holding(w, n) => ~(Reported(c, n)')
    BY <1>1, <1>3, <1>4 DEF CallClaims, OwnsOnce
  <2>3. \A n \in Nodes : \A i, j \in DOMAIN results'[c] :
          Reports(results'[c][i], n) /\ Reports(results'[c][j], n) => i = j
    BY <1>1 DEF CallClaims, OwnsOnce
  <2> QED
    BY <1>2, <2>1, <2>2, <2>3 DEF OwnsOnce
<1>8. FailuresStand(c)'
  BY <1>1, <1>2, <1>3 DEF CallClaims, FailuresStand
<1>9. NothingLoose(c)'
  <2>1. p \notin {"final", "solo"} => \A w \in inflight'[c] : w.pc # "ended" => w.claim > 0
    BY <1>1 DEF CallClaims, NothingLoose
  <2> QED
    BY <1>1, <2>1 DEF NothingLoose
<1>10. CallClaims(c)'
  BY <1>6, <1>7, <1>8, <1>9 DEF CallClaims
<1>11. \A n \in Nodes : st'[n] = "pending" => ~(Owns(c, n)')
  BY <1>5 DEF ClaimInv
<1>12. \A d \in Calls \ {c} : \A n \in Nodes : Owns(d, n) => StepStands(n)
  BY DEF StepStands
<1>13. (\A n \in Nodes : st'[n] # "skipped") /\ opRetry' = NoRetry
  BY DEF ClaimInv
<1> QED
  BY <1>5, <1>10, <1>11, <1>12, <1>13, OneCallMoves

\* A run that leaves owns only what it is to release.
LEMMA LeavesOwns ==
  ASSUME ExecutionInv, ClaimInv, NEW c \in Calls, NEW r, phase[c] # "solo", Leaves(c, r),
         st' = st, claims' = claims, opRetry' = opRetry
  PROVE  ClaimInv'
<1>1. CallClaims(c) /\ CallTypeOK
  BY DEF ClaimInv, ExecutionInv, TypeOK
<1>2. /\ \A d \in Calls \ {c} : SameCall(d)
      /\ inflight'[c] = {} /\ results'[c] = <<>>
      /\ phase'[c] \in {"release", "count", "cleanup"}
  BY <1>1 DEF Leaves, Goto, Spawned, SameCall, CallTypeOK
<1>3. ASSUME NEW n \in Nodes, n \in held'[c]
      PROVE  \E w \in inflight[c] : Holding(w, n)
  <2>1. phase[c] # "final" /\ \E w \in Live(c) : w.node = n
    BY <1>1, <1>3 DEF Leaves, CallTypeOK
  <2> QED
    BY <1>1, <2>1 DEF Live, CallClaims, NothingLoose, Holding
<1>4. \A n \in Nodes : ~(Reported(c, n)') /\ ~(Retrying(c, n)')
  BY <1>2 DEF Reported, Retrying
<1>5. \A n \in Nodes : Owns(c, n)' => Owns(c, n)
  BY <1>2, <1>3, <1>4 DEF Owns, Releasing
<1>6. CallClaims(c)'
  BY <1>2, <1>4 DEF CallClaims, OwnsOnce, FailuresStand, NothingLoose
<1>7. \A n \in Nodes : st'[n] = "pending" => ~(Owns(c, n)')
  BY <1>5 DEF ClaimInv
<1>8. /\ \A d \in Calls \ {c} : \A n \in Nodes : Owns(d, n) => StepStands(n)
      /\ \A n \in Nodes : st'[n] # "skipped"
      /\ opRetry' = NoRetry
  BY DEF StepStands, ClaimInv
<1> QED
  BY <1>2, <1>5, <1>6, <1>7, <1>8, OneCallMoves

\* What a body's step leaves alone, and what it may write to its own step.
BodyOnly(c) ==
  /\ phase' = phase /\ target' = target /\ held' = held /\ down' = down
  /\ opRetry' = opRetry
  /\ \A d \in Calls \ {c} : inflight'[d] = inflight[d] /\ results'[d] = results[d]

Writes(w) ==
  /\ claims' = claims
  /\ \A n \in Nodes : \/ st'[n] = st[n]
                      \/ Holding(w, n) /\ st'[n] \notin {"pending", "skipped"}

\* What one body writes is nothing to the other bodies and reports.
LEMMA WritesOwn ==
  ASSUME ExecutionInv, ClaimInv, NEW c \in Calls, NEW w \in inflight[c], Writes(w)
  PROVE  /\ \A u \in inflight[c] \ {w} : BodyClaims(u)'
         /\ \A n \in Nodes : Reported(c, n) \/ Retrying(c, n) => st'[n] = "failed"
         /\ \A d \in Calls \ {c} : \A n \in Nodes : Owns(d, n) => StepStands(n)
         /\ \A n \in Nodes : Owns(c, n) => st'[n] # "pending"
         /\ \A n \in Nodes : st'[n] # "skipped"
<1>1. CallClaims(c)
  BY DEF ClaimInv
<1>2. ASSUME NEW u \in inflight[c] \ {w}
      PROVE  BodyClaims(u)'
  <2>1. BodyClaims(u)
    BY <1>1 DEF CallClaims
  <2>2. ASSUME u.claim > 0, u.pc # "ended"
        PROVE  u.node \in Nodes /\ st'[u.node] = st[u.node]
    <3>1. u.node \in Nodes /\ Holding(u, u.node)
      BY <2>1, <2>2 DEF BodyClaims, Holding
    <3>2. ~Holding(w, u.node)
      BY <1>1, <3>1 DEF CallClaims, OwnsOnce
    <3> QED
      BY <3>1, <3>2 DEF Writes
  <2> QED
    BY <2>1, <2>2 DEF BodyClaims, Writes
<1>3. ASSUME NEW n \in Nodes, Reported(c, n) \/ Retrying(c, n)
      PROVE  st'[n] = "failed"
  BY <1>1, <1>3 DEF CallClaims, OwnsOnce, FailuresStand, Writes
<1>4. ASSUME NEW d \in Calls \ {c}, NEW n \in Nodes, Owns(d, n)
      PROVE  StepStands(n)
  <2>1. ~Owns(c, n)
    BY <1>4, OwnedByOne
  <2>2. ~Holding(w, n)
    BY <2>1 DEF Owns
  <2> QED
    BY <2>2 DEF Writes, StepStands
<1>5. \A n \in Nodes : Owns(c, n) => st'[n] # "pending"
  BY DEF ClaimInv, Writes
<1>6. \A n \in Nodes : st'[n] # "skipped"
  BY DEF ClaimInv, Writes
<1> QED
  BY <1>2, <1>3, <1>4, <1>5, <1>6

\* A body that goes on holds what it held.
LEMMA GoesOnOwns ==
  ASSUME ExecutionInv, ClaimInv, NEW c \in Calls, NEW w \in inflight[c], w.pc # "ended",
         NEW v, Steps(c, w, v), results' = results, BodyOnly(c), Writes(w), v.pc # "ended",
         \/ v.node = w.node /\ v.claim = w.claim
         \/ w.claim = 0 /\ v.claim = 0,
         BodyClaims(v)'
  PROVE  ClaimInv'
<1>1. CallClaims(c) /\ CallTypeOK
  BY DEF ClaimInv, ExecutionInv, TypeOK
<1>2. inflight'[c] = (inflight[c] \ {w}) \cup {v}
  BY <1>1 DEF Steps, CallTypeOK
<1>3. \A d \in Calls \ {c} : SameCall(d)
  BY DEF BodyOnly, SameCall
<1>4. \A n \in Nodes : /\ Reported(c, n)' <=> Reported(c, n)
                       /\ Retrying(c, n)' <=> Retrying(c, n)
                       /\ Releasing(c, n)' <=> Releasing(c, n)
                       /\ Holding(v, n) <=> Holding(w, n)
  BY DEF BodyOnly, Reported, Retrying, Releasing, Holding
<1>5. \A n \in Nodes : Owns(c, n)' <=> Owns(c, n)
  BY <1>2, <1>4 DEF Owns
<1>6. \A u \in inflight'[c] : BodyClaims(u)'
  BY <1>2, WritesOwn
<1>7. OwnsOnce(c)'
  BY <1>1, <1>2, <1>4 DEF CallClaims, OwnsOnce
<1>8. FailuresStand(c)'
  BY <1>4, WritesOwn DEF FailuresStand
<1>9. NothingLoose(c)'
  <2>1. \A u \in {v} : phase[c] \notin {"final", "solo"} => v.claim > 0
    BY <1>1 DEF CallClaims, NothingLoose
  <2>2. phase[c] \notin {"idle", "release", "count", "cleanup", "over"}
    BY <1>1 DEF CallClaims, NothingLoose
  <2> QED
    BY <1>1, <1>2, <2>1, <2>2 DEF CallClaims, NothingLoose, BodyOnly
<1>10. CallClaims(c)'
  BY <1>6, <1>7, <1>8, <1>9 DEF CallClaims
<1> QED
  BY <1>3, <1>5, <1>10, WritesOwn, OneCallMoves DEF BodyOnly, ClaimInv

\* A body that ends gives up its claim; a failure it reports is on the row.
LEMMA EndsOwns ==
  ASSUME ExecutionInv, ClaimInv, NEW c \in Calls, NEW w \in inflight[c], w.pc # "ended",
         NEW s, Puts(c, w, s), BodyOnly(c), Writes(w),
         s = "failed" => w.claim > 0 /\ st'[w.node] = "failed"
  PROVE  ClaimInv'
<1> DEFINE v == [w EXCEPT !.pc = "ended"]
           r == [node |-> w.node, status |-> s]
           len == Len(results[c])
<1>1. CallClaims(c) /\ CallTypeOK /\ w \in Body
  BY DEF ClaimInv, ExecutionInv, TypeOK, CallTypeOK
<1>2. inflight'[c] = (inflight[c] \ {w}) \cup {v}
  BY <1>1 DEF Puts, Steps, CallTypeOK
<1>3. v.pc = "ended" /\ v.claim = w.claim /\ v.node = w.node /\ r.node = w.node /\ r.status = s
  BY <1>1 DEF Body
<1>4. results[c] \in Seq(Result) /\ results'[c] = Append(results[c], r)
  BY <1>1 DEF Puts, CallTypeOK
<1>5. /\ DOMAIN results[c] = 1..len /\ len \in Nat
      /\ DOMAIN results'[c] = 1..(len + 1)
      /\ \A i \in 1..len : results'[c][i] = results[c][i]
      /\ results'[c][len + 1] = r
  BY <1>4
<1> HIDE DEF v, r, len
<1>6. \A d \in Calls \ {c} : SameCall(d)
  BY DEF BodyOnly, SameCall
<1>7. \A n \in Nodes : Reports(r, n) => Holding(w, n) /\ st'[n] = "failed"
  BY <1>3 DEF Reports, Holding
<1>8. \A n \in Nodes : Reported(c, n)' => Reported(c, n) \/ Reports(r, n)
  BY <1>5 DEF Reported
<1>9. \A n \in Nodes : /\ Retrying(c, n)' <=> Retrying(c, n)
                       /\ Releasing(c, n)' <=> Releasing(c, n)
                       /\ ~Holding(v, n)
  BY <1>3 DEF BodyOnly, Retrying, Releasing, Holding
<1>10. \A n \in Nodes : Owns(c, n)' => Owns(c, n)
  BY <1>2, <1>7, <1>8, <1>9 DEF Owns
<1>11. BodyClaims(v)'
  <2>1. BodyClaims(w)
    BY <1>1 DEF CallClaims
  <2> QED
    BY <1>3, <2>1 DEF BodyClaims
<1>12. \A u \in inflight'[c] : BodyClaims(u)'
  BY <1>2, <1>11, WritesOwn
<1>13. OwnsOnce(c)'
  <2>1. ASSUME NEW n \in Nodes
        PROVE  /\ \A u, x \in inflight'[c] : Holding(u, n) /\ Holding(x, n) => u = x
               /\ \A u \in inflight'[c] : Holding(u, n) => ~(Reported(c, n)') /\ ~(Retrying(c, n)')
               /\ Reported(c, n)' => ~(Retrying(c, n)')
    BY <1>1, <1>2, <1>7, <1>8, <1>9 DEF CallClaims, OwnsOnce
  <2>2. ASSUME NEW n \in Nodes, NEW i \in DOMAIN results'[c], NEW j \in DOMAIN results'[c],
               Reports(results'[c][i], n), Reports(results'[c][j], n)
        PROVE  i = j
    <3>1. CASE i \in 1..len /\ j \in 1..len
      BY <1>1, <1>5, <2>2, <3>1 DEF CallClaims, OwnsOnce
    <3>2. CASE i = len + 1 /\ j = len + 1
      BY <3>2
    <3>3. ASSUME NEW k \in 1..len, Reports(results'[c][k], n), Reports(r, n)
          PROVE  FALSE
      <4>1. Reported(c, n)
        BY <1>5, <3>3 DEF Reported
      <4> QED
        BY <1>1, <1>7, <3>3, <4>1 DEF CallClaims, OwnsOnce
    <3> QED
      BY <1>5, <2>2, <3>1, <3>2, <3>3
  <2> QED
    BY <2>1, <2>2 DEF OwnsOnce
<1>14. FailuresStand(c)'
  BY <1>7, <1>8, <1>9, WritesOwn DEF FailuresStand
<1>15. NothingLoose(c)'
  <2>1. phase[c] \notin {"idle", "release", "count", "cleanup", "over"}
    BY <1>1 DEF CallClaims, NothingLoose
  <2> QED
    BY <1>1, <1>2, <1>3, <2>1 DEF CallClaims, NothingLoose, BodyOnly
<1>16. CallClaims(c)'
  BY <1>12, <1>13, <1>14, <1>15 DEF CallClaims
<1> QED
  BY <1>6, <1>10, <1>16, WritesOwn, OneCallMoves DEF BodyOnly, ClaimInv

\* Call c starts bodies on the pending steps S, in the place of the bodies X.
Claims(c, S, X, started) ==
  /\ S \subseteq Nodes /\ \A n \in S : st[n] = "pending"
  /\ \A n \in Nodes : /\ st'[n] = IF n \in S THEN "running" ELSE st[n]
                      /\ claims'[n] = IF n \in S THEN claims[n] + 1 ELSE claims[n]
  /\ \A w \in X : w.claim = 0
  /\ inflight'[c] = (inflight[c] \ X) \cup started
  /\ \A v \in started : /\ v.node \in S /\ v.claim = claims[v.node] + 1
                         /\ v.pc \in {"enter", "work"}
  /\ \A v, w \in started : v.node = w.node => v = w
  /\ results'[c] = results[c] /\ target'[c] = target[c] /\ held'[c] = held[c]
  /\ down'[c] = down[c] /\ opRetry' = opRetry
  /\ phase'[c] = phase[c] \/ (phase[c] = "claim" /\ phase'[c] \in {"settle", "drain"})
  /\ phase[c] \notin {"idle", "release", "count", "cleanup", "over"}
  /\ \A d \in Calls \ {c} : SameCall(d)

\* A claim, of one step or of several: each pending step gets one owner.
LEMMA ClaimingOwns ==
  ASSUME ExecutionInv, ClaimInv, NEW c \in Calls, NEW S, NEW X, NEW started,
         Claims(c, S, X, started)
  PROVE  ClaimInv'
<1> USE DEF Claims
<1>1. CallClaims(c) /\ claims \in [Nodes -> Nat]
  BY DEF ClaimInv, ExecutionInv, TypeOK, StoredTypeOK
<1>2. \A n \in Nodes : /\ Reported(c, n)' <=> Reported(c, n)
                       /\ Retrying(c, n)' => Retrying(c, n)
                       /\ ~(Releasing(c, n)')
  BY DEF Reported, Retrying, Releasing
<1>3. \A n \in Nodes : \A w \in inflight'[c] : Holding(w, n) => w \in inflight[c] \/ (w \in started /\ n \in S)
  BY DEF Holding
<1>4. \A n \in S : ~Owns(c, n)
  BY DEF ClaimInv
<1>5. \A n \in Nodes : Owns(c, n)' => Owns(c, n) \/ n \in S
  BY <1>2, <1>3 DEF Owns
<1>6. ASSUME NEW w \in inflight'[c]
      PROVE  BodyClaims(w)'
  <2>1. CASE w \in started
    <3>1. w.node \in S /\ w.node \in Nodes /\ w.claim = claims[w.node] + 1
      BY <2>1
    <3>2. claims[w.node] \in Nat /\ claims'[w.node] = claims[w.node] + 1
      BY <1>1, <3>1
    <3>3. w.claim = claims'[w.node] /\ w.claim > 0
      BY <3>1, <3>2
    <3>4. st'[w.node] = "running" /\ w.pc \in {"enter", "work"}
      BY <2>1, <3>1
    <3> QED
      BY <3>1, <3>3, <3>4 DEF BodyClaims
  <2>2. CASE w \in inflight[c]
    <3>1. BodyClaims(w)
      BY <1>1, <2>2 DEF CallClaims
    <3>2. w.claim > 0 /\ w.pc # "ended" => w.node \in Nodes /\ w.node \notin S
      BY <1>4, <2>2, <3>1 DEF BodyClaims, Owns, Holding
    <3> QED
      BY <3>1, <3>2 DEF BodyClaims
  <2> QED
    BY <2>1, <2>2
<1>7. OwnsOnce(c)'
  <2>1. ASSUME NEW n \in Nodes, NEW w \in inflight'[c], Holding(w, n)
        PROVE  \/ w \in inflight[c] /\ n \notin S
               \/ w \in started /\ n \in S
    BY <1>3, <1>4, <2>1 DEF Owns
  <2>2. \A n \in Nodes : \A v, w \in inflight'[c] : Holding(v, n) /\ Holding(w, n) => v = w
    BY <1>1, <2>1 DEF CallClaims, OwnsOnce, Holding
  <2>3. ASSUME NEW n \in Nodes, NEW w \in inflight'[c], Holding(w, n)
        PROVE  ~(Reported(c, n)') /\ ~(Retrying(c, n)')
    BY <1>1, <1>2, <1>4, <2>1, <2>3 DEF CallClaims, OwnsOnce, Owns
  <2>4. \A n \in Nodes : Reported(c, n)' => ~(Retrying(c, n)')
    BY <1>1, <1>2 DEF CallClaims, OwnsOnce
  <2> QED
    BY <1>1, <2>2, <2>3, <2>4 DEF CallClaims, OwnsOnce
<1>8. FailuresStand(c)'
  BY <1>1, <1>2, <1>4 DEF CallClaims, FailuresStand, Owns
<1>9. NothingLoose(c)'
  <2>1. \A w \in started : w.claim > 0
    BY <1>1
  <2> QED
    BY <1>1, <2>1 DEF CallClaims, NothingLoose
<1>10. CallClaims(c)'
  BY <1>6, <1>7, <1>8, <1>9 DEF CallClaims
<1>11. \A n \in Nodes : st'[n] = "pending" => ~(Owns(c, n)')
  BY <1>5 DEF ClaimInv
<1>12. \A d \in Calls \ {c} : \A n \in Nodes : Owns(d, n) => StepStands(n)
  BY DEF ClaimInv, StepStands
<1>13. (\A n \in Nodes : st'[n] # "skipped") /\ opRetry' = NoRetry
  BY DEF ClaimInv
<1> QED
  BY <1>5, <1>10, <1>11, <1>12, <1>13, OneCallMoves

\* A body's step.
LEMMA BodyOwns ==
  ASSUME ExecutionInv, ClaimInv, Undisturbed, NEW c \in Calls, BodyStep(c)
  PROVE  ClaimInv'
<1>1. PICK w \in inflight[c] :
        \/ Enter(c, w) \/ PeekFails(c, w) \/ OverBudget(c, w)
        \/ RereadAlone(c, w) \/ RecheckAlone(c, w) \/ ParkAlone(c, w)
        \/ Pick(c, w) \/ Take(c, w)
        \/ Persist(c, w, "done") \/ Persist(c, w, "failed")
        \/ GivesUp(c, w) \/ Shortcut(c, w) \/ WorkerError(c, w)
        \/ Finish(c, w) \/ Compile(c, w) \/ Partial(c, w)
  BY DEF BodyStep
<1>2. /\ CallTypeOK /\ StoredTypeOK /\ DagTypeOK
      /\ CallClaims(c) /\ BodyClaims(w) /\ w \in Body
  BY DEF ExecutionInv, TypeOK, CallTypeOK, ClaimInv, CallClaims
<1>3. w.node = NoStep => w.claim = 0
  BY <1>2, StepFacts DEF BodyClaims, Body
<1>4. BodyOnly(c)
  BY <1>1, <1>2 DEF Enter, PeekFails, OverBudget, RereadAlone, RecheckAlone, ParkAlone, ClaimsInstead,
              Pick, Take, Persist, GivesUp, Shortcut, EndsAtOnce,
              WorkerError, Finish, Compile, Partial, Puts, GoesTo, Steps, BodyOnly, CallTypeOK
<1>5. w.pc # "ended"
  BY <1>1 DEF Enter, PeekFails, OverBudget, RereadAlone, RecheckAlone, ParkAlone, Pick, Take,
              Persist, GivesUp, Shortcut, EndsAtOnce, WorkerError, Finish, Compile, Partial, At
<1>6. ASSUME st' = st, claims' = claims
      PROVE  Writes(w)
  BY <1>6 DEF Writes
<1>7. ASSUME NEW s, Puts(c, w, s), s # "failed", Writes(w)
      PROVE  ClaimInv'
  BY <1>4, <1>5, <1>7, EndsOwns
<1>8. ASSUME NEW p \in {"work", "claim", "ask", "tail", "compile"}, GoesTo(c, w, p), Writes(w),
             BodyClaims([w EXCEPT !.pc = p])'
      PROVE  ClaimInv'
  <2>1. [w EXCEPT !.pc = p].pc = p /\ [w EXCEPT !.pc = p].node = w.node
        /\ [w EXCEPT !.pc = p].claim = w.claim
    BY <1>2 DEF Body
  <2> QED
    BY <1>4, <1>5, <1>8, <2>1, GoesOnOwns DEF GoesTo
<1>20. ASSUME NEW v, Steps(c, w, v), results' = results, st' = st, claims' = claims,
              w.claim = 0, v.claim = 0, v.pc \in {"claim", "frame", "ask", "take", "tail", "partial"},
              v.pc \in {"claim", "tail"} => v.node = NoStep
       PROVE  ClaimInv'
  <2>1. BodyClaims(v)' /\ v.pc # "ended"
    BY <1>20 DEF BodyClaims
  <2> QED
    BY <1>4, <1>5, <1>6, <1>20, <2>1, GoesOnOwns
<1>21. ASSUME ClaimsInstead(c, w), w.claim = 0, st' = st, claims' = claims
       PROVE  ClaimInv'
  <2> PICK v : v = [w EXCEPT !.pc = "claim", !.node = NoStep]
    OBVIOUS
  <2>1. v.pc = "claim" /\ v.claim = 0 /\ v.node = NoStep
    BY <1>2, <1>21 DEF Body
  <2>2. Steps(c, w, v) /\ results' = results
    BY <1>21 DEF ClaimsInstead
  <2> QED
    BY <1>20, <1>21, <2>1, <2>2
<1>9. CASE Enter(c, w)
  <2>1. Writes(w)
    BY <1>6, <1>9 DEF Enter, nodeVars
  <2>2. w.pc = "enter"
    BY <1>9 DEF Enter, At
  <2>3. CASE Puts(c, w, "error")
    BY <1>7, <2>1, <2>3
  <2>4. CASE GoesTo(c, w, "work") /\ w.node # NoStep
    <3>1. BodyClaims([w EXCEPT !.pc = "work"])'
      BY <1>2, <1>9, <2>2, <2>4 DEF BodyClaims, Body, Enter, nodeVars
    <3> QED
      BY <1>8, <2>1, <2>4, <3>1
  <2>5. CASE /\ Steps(c, w, [w EXCEPT !.pc = "frame", !.node = First(MustAsk)])
             /\ results' = results /\ w.node = NoStep
    <3> PICK v : v = [w EXCEPT !.pc = "frame", !.node = First(MustAsk)]
      OBVIOUS
    <3>1. v.pc = "frame" /\ v.claim = 0
      BY <1>2, <1>3, <2>5 DEF Body
    <3>2. Steps(c, w, v) /\ results' = results
      BY <2>5
    <3>3. BodyClaims(v)'
      BY <3>1 DEF BodyClaims
    <3> QED
      BY <1>3, <1>4, <1>5, <2>1, <2>5, <3>1, <3>2, <3>3, GoesOnOwns
  <2>6. CASE GoesTo(c, w, "claim") /\ w.node = NoStep
    <3>1. BodyClaims([w EXCEPT !.pc = "claim"])'
      BY <1>2, <1>3, <2>6 DEF BodyClaims, Body
    <3> QED
      BY <1>8, <2>1, <2>6, <3>1
  <2> QED
    BY <1>9, <2>3, <2>4, <2>5, <2>6 DEF Enter
<1>10. CASE OverBudget(c, w)
  BY <1>6, <1>7, <1>10 DEF OverBudget, nodeVars
<1>11. CASE ParkAlone(c, w)
  <2>1. st' = st /\ claims' = claims /\ w.claim = 0
    BY <1>2, <1>11 DEF ParkAlone, At, BodyClaims, nodeVars
  <2>2. CASE Puts(c, w, "awaiting_decision")
    BY <1>6, <1>7, <2>1, <2>2
  <2> QED
    BY <1>11, <1>21, <2>1, <2>2 DEF ParkAlone
<1>22. CASE PeekFails(c, w)
  <2>1. st' = st /\ claims' = claims /\ w.claim = 0 /\ w.node = NoStep /\ GoesTo(c, w, "claim")
    BY <1>3, <1>22 DEF PeekFails, nodeVars
  <2>2. BodyClaims([w EXCEPT !.pc = "claim"])'
    BY <1>2, <2>1 DEF BodyClaims, Body
  <2> QED
    BY <1>6, <1>8, <2>1, <2>2
<1>23. CASE RecheckAlone(c, w)
  <2>1. st' = st /\ claims' = claims /\ w.claim = 0 /\ w.pc = "frame"
    BY <1>2, <1>23 DEF RecheckAlone, At, BodyClaims, nodeVars
  <2>2. CASE GoesTo(c, w, "ask")
    <3>1. BodyClaims([w EXCEPT !.pc = "ask"])'
      BY <1>2, <2>1 DEF BodyClaims, Body
    <3> QED
      BY <1>6, <1>8, <2>1, <2>2, <3>1
  <2>3. CASE ClaimsInstead(c, w)
    BY <1>21, <2>1, <2>3
  <2>4. CASE Steps(c, w, [w EXCEPT !.node = First(MustAsk)]) /\ results' = results
    <3> PICK v : v = [w EXCEPT !.node = First(MustAsk)]
      OBVIOUS
    <3>1. v.pc = "frame" /\ v.claim = 0
      BY <1>2, <2>1 DEF Body
    <3>2. Steps(c, w, v) /\ results' = results
      BY <2>4
    <3> QED
      BY <1>20, <2>1, <3>1, <3>2
  <2> QED
    BY <1>23, <2>2, <2>3, <2>4 DEF RecheckAlone
<1>24. ~RereadAlone(c, w)
  BY DEF RereadAlone, StaleTests, Outside, Undisturbed
<1>25. CASE Pick(c, w)
  <2>1. st' = st /\ claims' = claims /\ w.claim = 0 /\ w.pc = "claim" /\ w.node = NoStep
    BY <1>2, <1>25 DEF Pick, At, BodyClaims, nodeVars
  <2>2. CASE GoesTo(c, w, "tail")
    <3>1. BodyClaims([w EXCEPT !.pc = "tail"])'
      BY <1>2, <2>1 DEF BodyClaims, Body
    <3> QED
      BY <1>6, <1>8, <2>1, <2>2, <3>1
  <2>3. CASE Steps(c, w, [w EXCEPT !.node = First(Ready), !.pc = "take"]) /\ results' = results
    <3> PICK v : v = [w EXCEPT !.node = First(Ready), !.pc = "take"]
      OBVIOUS
    <3>1. v.pc = "take" /\ v.claim = 0
      BY <1>2, <2>1 DEF Body
    <3>2. Steps(c, w, v) /\ results' = results
      BY <2>3
    <3> QED
      BY <1>20, <2>1, <3>1, <3>2
  <2> QED
    BY <1>25, <2>2, <2>3 DEF Pick
<1>12. CASE Take(c, w)
  <2>1. w.claim = 0 /\ w.node \in Nodes /\ w.pc = "take"
    BY <1>2, <1>12 DEF Take, At, BodyClaims, ExecutionInv, BodyRemembers
  <2>2. CASE st[w.node] # "pending"
    <3> PICK v : v = [w EXCEPT !.pc = "tail", !.node = NoStep]
      OBVIOUS
    <3>1. v.pc = "tail" /\ v.claim = 0 /\ v.node = NoStep
      BY <1>2, <2>1 DEF Body
    <3>2. Steps(c, w, v) /\ results' = results /\ st' = st /\ claims' = claims
      BY <1>12, <2>2 DEF Take
    <3> QED
      BY <1>20, <2>1, <3>1, <3>2
  <2>3. CASE st[w.node] = "pending"
    <3>1. PICK n \in Nodes : n = w.node /\ st[n] = "pending"
      BY <2>1, <2>3
    <3>2. PICK v : v = [w EXCEPT !.claim = claims[n] + 1, !.pc = "work"]
      OBVIOUS
    <3>3. v.node = n /\ v.claim = claims[n] + 1 /\ v.pc = "work"
      BY <1>2, <3>1, <3>2 DEF Body
    <3>0. /\ st' = [st EXCEPT ![n] = "running"]
          /\ claims' = [claims EXCEPT ![n] = @ + 1]
          /\ Steps(c, w, v) /\ results' = results
      BY <1>12, <2>3, <3>1, <3>2 DEF Take
    <3>4. PICK S, X, started : S = {n} /\ X = {w} /\ started = {v}
      OBVIOUS
    <3>5. \A m \in Nodes : /\ st'[m] = IF m \in S THEN "running" ELSE st[m]
                          /\ claims'[m] = IF m \in S THEN claims[m] + 1 ELSE claims[m]
      BY <1>2, <3>0, <3>4 DEF DagTypeOK, StoredTypeOK
    <3>6. inflight'[c] = (inflight[c] \ X) \cup started
      BY <1>2, <3>0, <3>4 DEF Steps, CallTypeOK
    <3>7. phase[c] \notin {"idle", "release", "count", "cleanup", "over"}
      BY <1>2 DEF CallClaims, NothingLoose
    <3>8. /\ S \subseteq Nodes /\ \A m \in S : st[m] = "pending"
          /\ \A u \in started : u.node \in S /\ u.claim = claims[u.node] + 1 /\ u.pc \in {"enter", "work"}
          /\ \A u, x \in started : u.node = x.node => u = x
          /\ \A u \in X : u.claim = 0
      BY <2>1, <3>1, <3>3, <3>4
    <3>9. Claims(c, S, X, started)
      BY <1>4, <3>0, <3>5, <3>6, <3>7, <3>8 DEF Claims, BodyOnly, SameCall
    <3> QED
      BY <3>9, ClaimingOwns
  <2> QED
    BY <2>2, <2>3
<1>13. ASSUME NEW s \in {"done", "failed"}, Persist(c, w, s)
       PROVE  ClaimInv'
  <2>1. w.pc = "work" /\ w.claim > 0 /\ w.node \in Nodes /\ Holding(w, w.node) /\ claims' = claims
    BY <1>2, <1>13 DEF Persist, At, BodyClaims, Holding
  <2>2. CASE st[w.node] = "running"
    <3> DEFINE v == [w EXCEPT !.pc = "tail", !.res = s]
    <3>1. v.pc = "tail" /\ v.res = s /\ v.node = w.node /\ v.claim = w.claim
      BY <1>2 DEF Body
    <3>2. Steps(c, w, v) /\ results' = results /\ st' = [st EXCEPT ![w.node] = s]
      BY <1>13, <2>2 DEF Persist
    <3> HIDE DEF v
    <3>3. Writes(w)
      BY <1>2, <2>1, <3>2 DEF Writes, DagTypeOK
    <3>4. BodyClaims(v)'
      BY <1>2, <2>1, <3>1, <3>2 DEF BodyClaims, DagTypeOK
    <3> QED
      BY <1>4, <1>5, <3>1, <3>2, <3>3, <3>4, GoesOnOwns
  <2>3. CASE st[w.node] # "running"
    BY <1>6, <1>7, <1>13, <2>1, <2>3 DEF Persist
  <2> QED
    BY <2>2, <2>3
<1>14. ASSUME NEW s \in {"done", "failed"}, EndsAtOnce(c, w, s)
       PROVE  ClaimInv'
  <2>1. /\ w.pc = "work" /\ w.claim > 0 /\ w.node \in Nodes /\ Holding(w, w.node)
        /\ claims' = claims /\ st[w.node] \in {"running", "failed"}
    BY <1>2, <1>14 DEF EndsAtOnce, At, BodyClaims, Holding
  <2>2. Puts(c, w, s) /\ st' = [st EXCEPT ![w.node] = IF @ = "running" THEN s ELSE @]
    BY <1>14 DEF EndsAtOnce
  <2>3. Writes(w)
    BY <1>2, <2>1, <2>2 DEF Writes, DagTypeOK
  <2>4. s = "failed" => st'[w.node] = "failed"
    BY <1>2, <2>1, <2>2 DEF DagTypeOK
  <2> QED
    BY <1>4, <1>5, <2>1, <2>2, <2>3, <2>4, EndsOwns
<1>15. ASSUME WorkerError(c, w)
       PROVE  FALSE
  BY <1>15 DEF WorkerError, Outside, Undisturbed
<1>16. ASSUME w.pc \in {"tail", "compile"}, st' = st, claims' = claims,
              Puts(c, w, IF w.node = NoStep THEN "complete" ELSE w.res)
       PROVE  ClaimInv'
  <2>1. CASE w.node = NoStep
    BY <1>6, <1>7, <1>16, <2>1
  <2>2. CASE w.node # NoStep
    <3>1. w.claim > 0 /\ (w.res = "failed" => st'[w.node] = "failed")
      BY <1>2, <1>16, <2>2 DEF BodyClaims
    <3> QED
      BY <1>4, <1>5, <1>6, <1>16, <2>2, <3>1, EndsOwns
  <2> QED
    BY <2>1, <2>2
<1>17. CASE Finish(c, w)
  <2>1. w.pc = "tail" /\ st' = st /\ claims' = claims
    BY <1>17 DEF Finish, At, nodeVars
  <2>2. CASE Puts(c, w, IF w.node = NoStep THEN "complete" ELSE w.res)
    BY <1>16, <2>1, <2>2
  <2>3. CASE GoesTo(c, w, "compile")
    <3>1. BodyClaims([w EXCEPT !.pc = "compile"])'
      BY <1>2, <2>1 DEF BodyClaims, Body
    <3> QED
      BY <1>6, <1>8, <2>1, <2>3, <3>1
  <2>4. CASE /\ Steps(c, w, [w EXCEPT !.pc = "partial",
                                      !.res = IF output = "none" THEN "fresh" ELSE "cached"])
             /\ results' = results /\ w.node = NoStep
    <3> PICK v : v = [w EXCEPT !.pc = "partial",
                               !.res = IF output = "none" THEN "fresh" ELSE "cached"]
      OBVIOUS
    <3>1. v.pc = "partial" /\ v.claim = 0
      BY <1>2, <1>3, <2>4 DEF Body
    <3>2. Steps(c, w, v) /\ results' = results
      BY <2>4
    <3>3. BodyClaims(v)'
      BY <3>1 DEF BodyClaims
    <3>4. Writes(w)
      BY <1>6, <2>1
    <3> QED
      BY <1>3, <1>4, <1>5, <2>4, <3>1, <3>2, <3>3, <3>4, GoesOnOwns
  <2> QED
    BY <1>17, <2>2, <2>3, <2>4 DEF Finish
<1>18. CASE Compile(c, w)
  BY <1>16, <1>18 DEF Compile, At, nodeVars
<1>19. CASE Partial(c, w)
  BY <1>6, <1>7, <1>19 DEF Partial, nodeVars
<1> QED
  BY <1>1, <1>9, <1>10, <1>11, <1>12, <1>13, <1>14, <1>15, <1>17, <1>18, <1>19,
     <1>22, <1>23, <1>24, <1>25 DEF GivesUp, Shortcut

\* A step that is not done holds back every step after it: without skipped steps
\* none of them was ever started, so a retry's cascade resets nobody's failure.
LEMMA NothingAfter ==
  ASSUME DagTypeOK, DependencyOrder, Reopenable = {}, \A m \in Nodes : st[m] # "skipped",
         NEW n \in Nodes, st[n] # "done"
  PROVE  \A k \in Downstream(n) : st[k] = "pending"
<1> DEFINE Bad == { k \in Downstream(n) : st[k] # "pending" }
<1>1. Bad \in SUBSET Nat
  BY DownstreamIs, StepFacts
<1>2. ASSUME NEW k \in Bad, \A m \in Bad : k <= m
      PROVE  FALSE
  <2>1. k \in Nodes /\ k \in Downstream(n)
    BY DownstreamIs
  <2>2. \A d \in Deps[k] : d \in Nodes /\ d < k
    BY <2>1, PlanAssumption
  <2>3. st[k] \in {"running", "done", "failed"}
    BY <2>1 DEF DagTypeOK, NodeStatuses
  <2>4. \A d \in Deps[k] : st[d] = "done"
    BY <2>1, <2>2, <2>3 DEF DependencyOrder, DepsHeld, Settled, SettledStatuses
  <2>5. PICK d \in Deps[k] : d = n \/ d \in Downstream(n)
    BY <2>1, DownstreamIs
  <2>6. d \in Bad
    BY <2>4, <2>5
  <2>7. d < k /\ k <= d /\ d \in Nat /\ k \in Nat
    BY <1>1, <1>2, <2>2, <2>6
  <2> QED
    BY <2>7
<1> HIDE DEF Bad
<1>3. Bad = {}
  BY <1>1, <1>2, LeastOf
<1> QED
  BY <1>3 DEF Bad

\* Nobody's variables move: what others write stands beside every owner.
LEMMA NobodyMoves ==
  ASSUME ExecutionInv, ClaimInv, \A d \in Calls : SameCall(d),
         \A d \in Calls : \A n \in Nodes : Owns(d, n) => StepStands(n),
         \A n \in Nodes : st'[n] # "skipped",
         opRetry' = NoRetry
  PROVE  ClaimInv'
<1>1. \A d \in Calls : CallClaims(d)' /\ \A n \in Nodes : Owns(d, n)' <=> Owns(d, n)
  BY OthersOwn DEF ClaimInv
<1>2. ASSUME NEW n \in Nodes, NEW d \in Calls, st'[n] = "pending", Owns(d, n)'
      PROVE  FALSE
  <2>1. Owns(d, n) /\ StepStands(n)
    BY <1>1, <1>2
  <2> QED
    BY <1>2, <2>1 DEF ClaimInv, StepStands
<1> QED
  BY <1>1, <1>2 DEF ClaimInv

\* The frontier's claim.
LEMMA ClaimFrontierOwns ==
  ASSUME ExecutionInv, ClaimInv, NEW c \in Calls, ClaimFrontier(c)
  PROVE  ClaimInv'
<1>1. CallTypeOK /\ StoredTypeOK /\ CallClaims(c)
  BY DEF ExecutionInv, TypeOK, ClaimInv
<1>2. PICK S : S = FirstOf(Claimable, IF Cardinality(inflight[c]) < Cap
                                        THEN Cap - Cardinality(inflight[c]) ELSE 0)
  OBVIOUS
<1>3. PICK started, none :
        /\ started = { [node |-> n, claim |-> claims[n] + 1, pc |-> "enter", res |-> "none"] : n \in S }
        /\ none = {}
  OBVIOUS
<1>4. /\ st' = [n \in Nodes |-> IF n \in S THEN "running" ELSE st[n]]
      /\ claims' = [n \in Nodes |-> IF n \in S THEN claims[n] + 1 ELSE claims[n]]
      /\ inflight' = [inflight EXCEPT ![c] = @ \cup started]
      /\ phase[c] = "claim"
      /\ phase' = [phase EXCEPT ![c] = IF inflight[c] \cup started = {} THEN "settle" ELSE "drain"]
      /\ UNCHANGED <<results, target, down, held, opRetry>>
  BY <1>2, <1>3 DEF ClaimFrontier, Goto
<1>5. S \subseteq Nodes /\ \A n \in S : st[n] = "pending"
  BY <1>2 DEF FirstOf, Claimable, Ready
<1>6. \A v \in started : v.node \in S /\ v.claim = claims[v.node] + 1 /\ v.pc = "enter"
  BY <1>3
<1>7. \A v, w \in started : v.node = w.node => v = w
  BY <1>3
<1>8. /\ inflight'[c] = (inflight[c] \ none) \cup started
      /\ phase'[c] \in {"settle", "drain"}
      /\ \A d \in Calls \ {c} : SameCall(d)
  BY <1>1, <1>3, <1>4 DEF SameCall, CallTypeOK
<1>9. Claims(c, S, none, started)
  BY <1>3, <1>4, <1>5, <1>6, <1>7, <1>8 DEF Claims
<1> QED
  BY <1>9, ClaimingOwns

\* A result is taken: the failure it reports goes with it, or is to be retried.
LEMMA DrainOwns ==
  ASSUME ExecutionInv, ClaimInv, NEW c \in Calls, Drain(c) \/ DrainQuota(c)
  PROVE  ClaimInv'
<1>1. CallTypeOK /\ CallClaims(c)
  BY DEF ExecutionInv, TypeOK, ClaimInv
<1>2. PICK r : r = Head(results[c])
  OBVIOUS
<1>3. results[c] \in Seq(Result) /\ results[c] # <<>> /\ phase[c] = "drain"
  BY <1>1 DEF Drain, DrainQuota, CallTypeOK
<1>4. /\ inflight'[c] = Live(c) /\ results'[c] = Tail(results[c]) /\ phase'[c] \in {"retry", "claim", "quota"}
      /\ phase'[c] = "retry" => r.status = "failed" /\ target'[c] = r.node
      /\ held' = held /\ down' = down /\ st' = st /\ claims' = claims /\ opRetry' = opRetry
      /\ \A d \in Calls \ {c} : SameCall(d)
  BY <1>1, <1>2 DEF Drain, DrainQuota, Goto, CallTypeOK, SameCall, nodeVars
<1>5. /\ 1 \in DOMAIN results[c] /\ r = results[c][1]
      /\ \A i \in DOMAIN results'[c] :
           i \in Nat \ {0} /\ i + 1 \in DOMAIN results[c] /\ results'[c][i] = results[c][i + 1]
  <2>1. 1 \in DOMAIN results[c] /\ Head(results[c]) = results[c][1] /\ DOMAIN results[c] \subseteq Nat
    BY <1>3
  <2>2. \A i \in DOMAIN Tail(results[c]) :
          i + 1 \in DOMAIN results[c] /\ Tail(results[c])[i] = results[c][i + 1]
    BY <1>3, TailIs
  <2>3. \A i \in DOMAIN Tail(results[c]) : i \in Nat \ {0}
    BY <1>3
  <2>4. results'[c] = Tail(results[c])
    BY <1>4
  <2> QED
    BY <1>2, <2>1, <2>2, <2>3, <2>4, Zenon
<1>6. ASSUME NEW n \in Nodes
      PROVE  /\ Reported(c, n)' => Reported(c, n)
             /\ Retrying(c, n)' => Reports(r, n)
             /\ Reports(r, n) => Reported(c, n) /\ ~(Reported(c, n)')
             /\ ~(Releasing(c, n)')
  <2>1. Reported(c, n)' => Reported(c, n)
    BY <1>5 DEF Reported
  <2>2. Retrying(c, n)' => Reports(r, n)
    BY <1>4 DEF Retrying, Reports
  <2>3. ASSUME Reports(r, n), Reported(c, n)'
        PROVE  FALSE
    <3>1. PICK i \in DOMAIN results'[c] : Reports(results'[c][i], n)
      BY <2>3 DEF Reported
    <3>2. i + 1 = 1
      BY <1>1, <1>5, <2>3, <3>1 DEF CallClaims, OwnsOnce
    <3> QED
      BY <1>5, <3>2
  <2> QED
    BY <1>4, <1>5, <2>1, <2>2, <2>3 DEF Reported, Releasing
<1>7. inflight'[c] \subseteq inflight[c]
  BY <1>4 DEF Live
<1>8. \A n \in Nodes : Owns(c, n)' => Owns(c, n)
  BY <1>6, <1>7 DEF Owns
<1>9. \A w \in inflight'[c] : BodyClaims(w)'
  BY <1>1, <1>4, <1>7 DEF CallClaims, BodyClaims
<1>10. OwnsOnce(c)'
  <2>1. ASSUME NEW n \in Nodes
        PROVE  /\ \A v, w \in inflight'[c] : Holding(v, n) /\ Holding(w, n) => v = w
               /\ \A w \in inflight'[c] : Holding(w, n) => ~(Reported(c, n)') /\ ~(Retrying(c, n)')
               /\ Reported(c, n)' => ~(Retrying(c, n)')
    BY <1>1, <1>6, <1>7 DEF CallClaims, OwnsOnce
  <2>2. ASSUME NEW n \in Nodes, NEW i \in DOMAIN results'[c], NEW j \in DOMAIN results'[c],
               Reports(results'[c][i], n), Reports(results'[c][j], n)
        PROVE  i = j
    <3>1. i + 1 = j + 1
      BY <1>1, <1>5, <2>2 DEF CallClaims, OwnsOnce
    <3> QED
      BY <1>5, <3>1
  <2> QED
    BY <2>1, <2>2 DEF OwnsOnce
<1>11. FailuresStand(c)'
  BY <1>1, <1>4, <1>6 DEF CallClaims, FailuresStand
<1>12. NothingLoose(c)'
  BY <1>1, <1>3, <1>4, <1>7 DEF CallClaims, NothingLoose
<1>13. CallClaims(c)'
  BY <1>9, <1>10, <1>11, <1>12 DEF CallClaims
<1>14. /\ \A n \in Nodes : st'[n] = "pending" => ~(Owns(c, n)')
       /\ \A n \in Nodes : st'[n] # "skipped"
       /\ opRetry' = NoRetry
  BY <1>4, <1>8 DEF ClaimInv
<1>15. \A d \in Calls \ {c} : \A n \in Nodes : Owns(d, n) => StepStands(n)
  BY <1>4 DEF StepStands
<1> QED
  BY <1>4, <1>8, <1>13, <1>14, <1>15, OneCallMoves

\* The run's own retry: a failure only this call looks at goes back to pending.
LEMMA RetryOwns ==
  ASSUME ExecutionInv, ClaimInv, Undisturbed, NEW c \in Calls, AutoRetryReads(c) \/ AutoRetryResets(c)
  PROVE  ClaimInv'
<1>1. CallTypeOK /\ DagTypeOK /\ CallClaims(c) /\ target[c] \in Nodes
  BY DEF ExecutionInv, TypeOK, ClaimInv, CallRemembers, AutoRetryReads, AutoRetryResets
<1>2. /\ phase[c] \in {"retry", "reset"} /\ phase'[c] \in {"reset", "claim"}
      /\ inflight' = inflight /\ results' = results /\ target' = target /\ held' = held
      /\ claims' = claims /\ opRetry' = opRetry
      /\ \A d \in Calls \ {c} : SameCall(d)
  BY <1>1 DEF AutoRetryReads, AutoRetryResets, Goto, CallTypeOK, SameCall, nodeVars
<1>3. Retrying(c, target[c]) /\ st[target[c]] = "failed"
  BY <1>1, <1>2 DEF Retrying, CallClaims, FailuresStand
<1>4. \A n \in Nodes \ {target[c]} : st'[n] = st[n]
  <2>1. CASE AutoRetryReads(c)
    BY <2>1 DEF AutoRetryReads, nodeVars
  <2>2. CASE AutoRetryResets(c)
    <3>1. \A k \in down[c] : st[k] = "pending"
      BY <1>1, <1>3, <2>2, NothingAfter
        DEF AutoRetryResets, CallClaims, NothingLoose, ClaimInv, ExecutionInv, Undisturbed
    <3> QED
      BY <1>1, <1>3, <2>2, <3>1 DEF AutoRetryResets, Resets
  <2> QED
    BY <2>1, <2>2
<1>5. \/ phase'[c] = "reset" /\ st' = st /\ down'[c] \subseteq Downstream(target[c])
      \/ phase'[c] = "claim" /\ st'[target[c]] \in {st[target[c]], "pending"}
  BY <1>1, <1>2 DEF AutoRetryReads, AutoRetryResets, Resets, Cascade, Goto, CallTypeOK, nodeVars
<1>6. \A n \in Nodes : /\ Reported(c, n)' <=> Reported(c, n)
                       /\ Retrying(c, n)' <=> (phase'[c] = "reset" /\ n = target[c])
                       /\ ~(Releasing(c, n)')
  BY <1>2 DEF Reported, Retrying, Releasing
<1>7. \A n \in Nodes : Owns(c, n)' => Owns(c, n)
  BY <1>2, <1>3, <1>6 DEF Owns
<1>8. \A w \in inflight[c] : ~Holding(w, target[c])
  BY <1>1, <1>3 DEF CallClaims, OwnsOnce
<1>9. ~Reported(c, target[c])
  BY <1>1, <1>3 DEF CallClaims, OwnsOnce
<1>10. ASSUME NEW w \in inflight'[c]
       PROVE  BodyClaims(w)'
  <2>1. BodyClaims(w) /\ ~Holding(w, target[c])
    BY <1>1, <1>2, <1>8 DEF CallClaims
  <2>2. w.claim > 0 /\ w.pc # "ended" => w.node \in Nodes /\ st'[w.node] = st[w.node]
    BY <1>4, <2>1 DEF BodyClaims, Holding
  <2> QED
    BY <1>2, <2>1, <2>2 DEF BodyClaims
<1>11. OwnsOnce(c)'
  BY <1>1, <1>2, <1>6, <1>8, <1>9 DEF CallClaims, OwnsOnce
<1>12. FailuresStand(c)'
  BY <1>1, <1>3, <1>4, <1>5, <1>6, <1>9 DEF CallClaims, FailuresStand
<1>13. NothingLoose(c)'
  BY <1>1, <1>2, <1>5 DEF CallClaims, NothingLoose
<1>14. CallClaims(c)'
  BY <1>10, <1>11, <1>12, <1>13 DEF CallClaims
<1>15. \A n \in Nodes : st'[n] = "pending" => ~(Owns(c, n)')
  <2>1. ASSUME NEW n \in Nodes \ {target[c]}, st'[n] = "pending"
        PROVE  ~(Owns(c, n)')
    BY <1>4, <1>7, <2>1 DEF ClaimInv
  <2>2. ASSUME NEW n \in Nodes, n = target[c], st'[n] = "pending"
        PROVE  ~(Owns(c, n)')
    BY <1>2, <1>3, <1>5, <1>6, <1>8, <1>9, <2>2 DEF Owns
  <2> QED
    BY <2>1, <2>2
<1>16. ASSUME NEW d \in Calls \ {c}, NEW n \in Nodes, Owns(d, n)
       PROVE  StepStands(n)
  <2>1. n # target[c]
    BY <1>3, <1>16, OwnedByOne DEF Owns
  <2> QED
    BY <1>2, <1>4, <2>1 DEF StepStands
<1>17. (\A n \in Nodes : st'[n] # "skipped") /\ opRetry' = NoRetry
  BY <1>1, <1>2, <1>4, <1>5 DEF ClaimInv
<1> QED
  BY <1>2, <1>7, <1>14, <1>15, <1>16, <1>17, OneCallMoves

\* The release gives back only steps of this call that are still running.
LEMMA ReleaseOwns ==
  ASSUME ExecutionInv, ClaimInv, NEW c \in Calls, Release(c)
  PROVE  ClaimInv'
<1>1. CallTypeOK /\ DagTypeOK /\ CallClaims(c)
  BY DEF ExecutionInv, TypeOK, ClaimInv
<1>2. /\ phase[c] = "release" /\ phase'[c] \in {"count", "cleanup"}
      /\ inflight' = inflight /\ results' = results /\ target' = target /\ held' = held
      /\ down' = down /\ claims' = claims /\ opRetry' = opRetry
      /\ \A d \in Calls \ {c} : SameCall(d)
  BY <1>1 DEF Release, Goto, Spawned, CallTypeOK, SameCall
<1>3. inflight[c] = {} /\ results[c] = <<>>
  BY <1>1, <1>2 DEF CallClaims, NothingLoose
<1>4. \A n \in Nodes : st'[n] = st[n] \/ (n \in held[c] /\ st'[n] = "pending")
  BY <1>1 DEF Release, DagTypeOK
<1>5. \A n \in Nodes : ~(Owns(c, n)')
  BY <1>2, <1>3 DEF Owns, Reported, Retrying, Releasing
<1>6. CallClaims(c)'
  BY <1>2, <1>3 DEF CallClaims, OwnsOnce, FailuresStand, NothingLoose, Reported, Retrying
<1>7. ASSUME NEW d \in Calls \ {c}, NEW n \in Nodes, Owns(d, n)
      PROVE  StepStands(n)
  <2>1. ~Releasing(c, n)
    BY <1>7, OwnedByOne DEF Owns
  <2> QED
    BY <1>2, <1>4, <2>1 DEF StepStands, Releasing
<1>8. (\A n \in Nodes : st'[n] # "skipped") /\ opRetry' = NoRetry
  BY <1>2, <1>4 DEF ClaimInv
<1> QED
  BY <1>2, <1>5, <1>6, <1>7, <1>8, OneCallMoves

\* What a run does on its own.
LEMMA RunOwns ==
  ASSUME ExecutionInv, ClaimInv, Undisturbed, NEW c \in Calls, RunStep(c)
  PROVE  ClaimInv'
<1>1. CallTypeOK /\ DagTypeOK /\ CallClaims(c)
  BY DEF ExecutionInv, TypeOK, ClaimInv
<1>2. ASSUME NEW r \in Reasons, Leaves(c, r), phase[c] # "solo", UNCHANGED <<nodeVars, opRetry>>
      PROVE  ClaimInv'
  BY <1>2, LeavesOwns DEF nodeVars
<1>3. ASSUME NEW p \in {"gate", "claim", "settle", "frame", "ask", "sum", "drain"}, Goto(c, p),
             phase[c] \notin {"final", "solo"},
             inflight'[c] \subseteq inflight[c], \A d \in Calls \ {c} : inflight'[d] = inflight[d],
             UNCHANGED <<results, down, held, nodeVars, opRetry>>,
             \A d \in Calls \ {c} : target'[d] = target[d]
      PROVE  ClaimInv'
  <2>1. phase' = [phase EXCEPT ![c] = p] /\ \A d \in Calls \ {c} : SameCall(d)
    BY <1>1, <1>3 DEF Goto, SameCall, CallTypeOK
  <2> QED
    BY <1>3, <2>1, QuietOwns DEF nodeVars
<1>4. CASE Validate(c)
  BY <1>2, <1>3, <1>4 DEF Validate, Reasons
<1>5. CASE Settle(c)
  <2>1. /\ \A d \in Calls \ {c} : target'[d] = target[d]
        /\ phase[c] = "settle" /\ UNCHANGED <<inflight, results, down, held, nodeVars, opRetry>>
        /\ Goto(c, "sum") \/ Goto(c, "frame")
    BY <1>1, <1>5 DEF Settle, CallTypeOK
  <2> QED
    BY <1>3, <2>1
<1>13. CASE Recheck(c)
  BY <1>3, <1>13 DEF Recheck
<1>14. CASE QuotaStops(c)
  BY <1>2, <1>14 DEF QuotaStops, Reasons
<1>6. CASE Park(c)
  BY <1>2, <1>3, <1>6 DEF Park, Reasons
<1>7. CASE Sum(c)
  <2>1. CASE AllDone
    BY <1>2, <1>7, <2>1 DEF Sum, Reasons
  <2>2. CASE ~AllDone
    <3>1. /\ phase' = [phase EXCEPT ![c] = "final"] /\ \A d \in Calls \ {c} : SameCall(d)
          /\ inflight'[c] = {FreshCall} /\ results' = results
          /\ st' = st /\ claims' = claims /\ opRetry' = opRetry
      BY <1>1, <1>7, <2>2 DEF Sum, Goto, SameCall, CallTypeOK, nodeVars
    <3> QED
      BY <3>1, QuietOwns
  <2> QED
    BY <2>1, <2>2
<1>8. CASE FinalReturns(c)
  BY <1>2, <1>8 DEF FinalReturns, Reasons
<1>9. CASE Keepalive(c)
  <2>1. inflight'[c] \subseteq inflight[c] /\ \A d \in Calls \ {c} : inflight'[d] = inflight[d]
    BY <1>1, <1>9 DEF Keepalive, Live, CallTypeOK
  <2> QED
    BY <1>3, <1>9, <2>1 DEF Keepalive
<1>10. CASE DrainBudget(c)
  BY <1>2, <1>10 DEF DrainBudget, Reasons
<1>11. CASE Count(c) \/ Cleanup(c)
  <2>1. inflight[c] = {} /\ results[c] = <<>>
    BY <1>1, <1>11 DEF Count, Cleanup, CallClaims, NothingLoose
  <2>2. PICK p \in {"cleanup", "over"} : phase' = [phase EXCEPT ![c] = p]
    BY <1>11 DEF Count, Cleanup, Goto
  <2>3. /\ \A d \in Calls \ {c} : SameCall(d)
        /\ inflight' = inflight /\ results' = results /\ claims' = claims /\ opRetry' = opRetry
        /\ \A n \in Nodes : st'[n] = st[n] \/ (st[n] = "running" /\ st'[n] = "failed")
    BY <1>1, <1>11 DEF Count, Cleanup, Goto, SameCall, CallTypeOK, nodeVars
  <2> QED
    BY <2>1, <2>2, <2>3, QuietOwns
<1>12. CASE SoloReturns(c)
  <2>1. /\ phase' = [phase EXCEPT ![c] = "over"] /\ \A d \in Calls \ {c} : SameCall(d)
        /\ inflight'[c] = {} /\ results'[c] = <<>>
        /\ st' = st /\ claims' = claims /\ opRetry' = opRetry
    BY <1>1, <1>12 DEF SoloReturns, Goto, SameCall, CallTypeOK, nodeVars
  <2> QED
    BY <2>1, QuietOwns
<1> QED
  BY <1>4, <1>5, <1>6, <1>7, <1>8, <1>9, <1>10, <1>11, <1>12, <1>13, <1>14,
     ClaimFrontierOwns, DrainOwns, RetryOwns, ReleaseOwns DEF RunStep

\* A call, with what the environment does to it.
LEMMA CallOwns ==
  ASSUME ExecutionInv, ClaimInv, Undisturbed, CallNext
  PROVE  ClaimInv'
<1>1. PICK c \in Calls : \/ Admit(c) \/ Solo(c) \/ RunStep(c) \/ BodyStep(c)
                         \/ HandsOnGate(c) \/ RunFails(c) \/ LookFails(c) \/ Reread(c)
                         \/ DrainQuota(c) \/ Disconnect(c)
  BY DEF CallNext, RunUpset
<1>2. CallTypeOK /\ CallClaims(c)
  BY DEF ExecutionInv, TypeOK, ClaimInv
<1>3. ASSUME NEW p \in {"gate", "solo"}, phase[c] = "idle", Goto(c, p),
             inflight'[c] \subseteq {FreshCall}, p = "gate" => inflight'[c] = {},
             \A d \in Calls \ {c} : inflight'[d] = inflight[d],
             UNCHANGED <<results, target, down, held, nodeVars, opRetry>>
      PROVE  ClaimInv'
  <2>1. phase' = [phase EXCEPT ![c] = p] /\ \A d \in Calls \ {c} : SameCall(d)
    BY <1>2, <1>3 DEF Goto, SameCall, CallTypeOK
  <2>2. inflight[c] = {}
    BY <1>2, <1>3 DEF CallClaims, NothingLoose
  <2> QED
    BY <1>3, <2>1, <2>2, QuietOwns DEF nodeVars
<1>4. CASE Admit(c)
  <2>1. inflight[c] = {}
    BY <1>2, <1>4 DEF Admit, CallClaims, NothingLoose
  <2> QED
    BY <1>3, <1>4, <2>1 DEF Admit
<1>5. CASE Solo(c)
  BY <1>2, <1>3, <1>5 DEF Solo, CallTypeOK
<1>6. ASSUME NEW r, Leaves(c, r), phase[c] # "solo", UNCHANGED <<nodeVars, opRetry>>
      PROVE  ClaimInv'
  BY <1>6, LeavesOwns DEF nodeVars
<1>7. CASE HandsOnGate(c) \/ RunFails(c)
  <2>1. PICK r : Leaves(c, r)
    BY <1>7 DEF HandsOnGate, RunFails
  <2> QED
    BY <1>6, <1>7, <2>1 DEF HandsOnGate, RunFails
<1>8. CASE LookFails(c)
  <2>1. phase' = [phase EXCEPT ![c] = "sum"] /\ \A d \in Calls \ {c} : SameCall(d)
    BY <1>2, <1>8 DEF LookFails, Goto, SameCall, CallTypeOK
  <2> QED
    BY <1>8, <2>1, QuietOwns DEF LookFails, nodeVars
<1>9. ~Reread(c)
  BY DEF Reread, StaleTests, Outside, Undisturbed
<1>10. CASE Disconnect(c)
  <2>1. st' = st /\ claims' = claims /\ opRetry' = opRetry
    BY <1>10 DEF Disconnect, nodeVars
  <2>2. CASE InLoop(c) /\ Leaves(c, "cancelled")
    BY <2>1, <2>2, LeavesOwns DEF InLoop
  <2>3. CASE UNCHANGED <<phase, retries, inflight, results, target, down, held>>
    <3>1. \A d \in Calls : SameCall(d)
      BY <2>3 DEF SameCall
    <3>2. \A d \in Calls : \A n \in Nodes : Owns(d, n) => StepStands(n)
      BY <2>1 DEF StepStands
    <3>3. (\A n \in Nodes : st'[n] # "skipped") /\ opRetry' = NoRetry
      BY <2>1 DEF ClaimInv
    <3> QED
      BY <3>1, <3>2, <3>3, NobodyMoves
  <2> QED
    BY <1>10, <2>2, <2>3 DEF Disconnect
<1> QED
  BY <1>1, <1>4, <1>5, <1>7, <1>8, <1>9, <1>10, RunOwns, BodyOwns, DrainOwns

\* What happens outside the calls.
LEMMA OutsideOwns ==
  ASSUME ExecutionInv, ClaimInv, Undisturbed, StepNext \/ JobNext
  PROVE  ClaimInv'
<1>1. DagTypeOK /\ opRetry = NoRetry
  BY DEF ExecutionInv, TypeOK, ClaimInv
<1>2. ASSUME callVars' = callVars, claims' = claims, opRetry' = opRetry,
             \A n \in Nodes : \/ st'[n] = st[n]
                              \/ st'[n] # "skipped" /\ \A d \in Calls : ~Owns(d, n)
      PROVE  ClaimInv'
  <2>1. \A d \in Calls : SameCall(d)
    BY <1>2 DEF SameCall, callVars
  <2>2. \A d \in Calls : \A n \in Nodes : Owns(d, n) => StepStands(n)
    BY <1>2 DEF StepStands
  <2>3. \A n \in Nodes : st'[n] # "skipped"
    BY <1>2 DEF ClaimInv
  <2> QED
    BY <1>1, <1>2, <2>1, <2>2, <2>3, NobodyMoves
<1>3. ASSUME NEW n \in Nodes, ReapOrphan(n)
      PROVE  ClaimInv'
  <2>1. ASSUME NEW d \in Calls, Owns(d, n)
        PROVE  FALSE
    <3>1. CallClaims(d)
      BY DEF ClaimInv
    <3>2. CASE Reported(d, n) \/ Retrying(d, n)
      BY <1>3, <3>1, <3>2 DEF CallClaims, FailuresStand, ReapOrphan
    <3>3. CASE Releasing(d, n)
      BY <1>3, <3>3 DEF Releasing, ReapOrphan, Unwinding
    <3>4. ASSUME NEW w \in inflight[d], Holding(w, n)
          PROVE  HasWorker(n)
      BY <3>1, <3>4 DEF CallClaims, BodyClaims, Holding, HasWorker, Live
    <3> QED
      BY <1>3, <2>1, <3>2, <3>3, <3>4 DEF Owns, ReapOrphan
  <2>2. \A m \in Nodes : m # n => st'[m] = st[m]
    BY <1>1, <1>3 DEF ReapOrphan, Reap, DagTypeOK
  <2>3. st'[n] = "pending"
    BY <1>1, <1>3 DEF ReapOrphan, Reap, DagTypeOK
  <2> QED
    BY <1>2, <1>3, <2>1, <2>2, <2>3 DEF ReapOrphan
<1>4. CASE Decide
  <2>1. \A n \in Nodes : \/ st'[n] = st[n]
                         \/ st'[n] = "done" /\ st[n] = "pending"
    BY <1>1, <1>4 DEF Decide, DagTypeOK
  <2>2. \A n \in Nodes : \/ st'[n] = st[n]
                         \/ st'[n] # "skipped" /\ \A d \in Calls : ~Owns(d, n)
    BY <2>1 DEF ClaimInv
  <2> QED
    BY <1>2, <1>4, <2>2 DEF Decide
<1>5. CASE CancelJob \/ Resume \/ Reask \/ ReapStaleJob
  BY <1>2, <1>5 DEF CancelJob, Resume, Reask, ReapStaleJob, nodeVars
<1>6. \A n \in Nodes : ~OperatorRetryReads(n) /\ ~Skip(n) /\ ~Reset(n) /\ ~ReapSlow(n)
  BY DEF OperatorRetryReads, Skip, Reset, ReapSlow, Outside, Undisturbed
<1>7. ~OperatorRetryResets
  BY <1>1 DEF OperatorRetryResets
<1> QED
  BY <1>3, <1>4, <1>5, <1>6, <1>7 DEF StepNext, JobNext

LEMMA NextOwns ==
  ASSUME ExecutionInv, ClaimInv, Undisturbed, [Next]_vars
  PROVE  ClaimInv'
<1>1. CASE vars' = vars
  <2>1. \A d \in Calls : SameCall(d)
    BY <1>1 DEF vars, callVars, SameCall
  <2>2. st' = st /\ claims' = claims /\ opRetry' = opRetry
    BY <1>1 DEF vars, nodeVars
  <2>3. \A d \in Calls : \A n \in Nodes : Owns(d, n) => StepStands(n)
    BY <2>2 DEF StepStands
  <2>4. (\A n \in Nodes : st'[n] # "skipped") /\ opRetry' = NoRetry
    BY <2>2 DEF ClaimInv
  <2> QED
    BY <2>1, <2>3, <2>4, NobodyMoves
<1> QED
  BY <1>1, CallOwns, OutsideOwns DEF Next

LEMMA InitOwns == Init => ClaimInv
<1> SUFFICES ASSUME Init PROVE ClaimInv
  OBVIOUS
<1>1. \A c \in Calls : phase[c] = "idle" /\ inflight[c] = {} /\ results[c] = <<>>
  BY DEF Init
<1>2. \A c \in Calls : \A n \in Nodes : ~Reported(c, n) /\ ~Retrying(c, n) /\ ~Releasing(c, n)
  BY <1>1 DEF Reported, Retrying, Releasing
<1>3. \A c \in Calls : \A n \in Nodes : ~Owns(c, n)
  BY <1>1, <1>2 DEF Owns
<1>4. \A c \in Calls : CallClaims(c)
  BY <1>1, <1>2 DEF CallClaims, OwnsOnce, FailuresStand, NothingLoose
<1>5. (\A n \in Nodes : st[n] # "skipped") /\ opRetry = NoRetry
  BY DEF Init, DagInit
<1> QED
  BY <1>3, <1>4, <1>5 DEF ClaimInv

\* However many calls of an execution overlap, with their disconnections, budget
\* stops, cancels and answered decisions: a step has at most one owner.
THEOREM ClaimsAreOwned == Undisturbed => (Spec => []ClaimInv)
<1> SUFFICES ASSUME Undisturbed PROVE Spec => []ClaimInv
  OBVIOUS
<1>1. ExecutionInv /\ ClaimInv /\ [Next]_vars => ClaimInv'
  BY NextOwns
<1> QED
  BY ExecutionSafety, InitOwns, <1>1, PTL DEF Spec

\* Two bodies at work hold two claims, and a step has one owner with one claim.
LEMMA OwnersWorkAlone ==
  ASSUME ClaimInv
  PROVE  SoleWorker
<1> SUFFICES ASSUME NEW c \in Calls, NEW d \in Calls, NEW v \in inflight[c], NEW w \in inflight[d],
                    v.pc = "work", w.pc = "work", v.node = w.node
             PROVE  c = d /\ v = w
  BY DEF SoleWorker
<1>1. PICK n \in Nodes : n = v.node /\ Holding(v, n) /\ Holding(w, n)
  BY DEF ClaimInv, CallClaims, BodyClaims, Holding
<1>2. c = d
  BY <1>1 DEF ClaimInv, Owns
<1> QED
  BY <1>1, <1>2 DEF ClaimInv, CallClaims, OwnsOnce

\* The guarded claim gives a step to one body of one call, and it stays the only
\* one at work on it, also where OneWorker would allow a second.
THEOREM StepsHaveOneWorker == Undisturbed => (Spec => [](SoleWorker /\ OneWorker))
<1> SUFFICES ASSUME Undisturbed PROVE Spec => [](SoleWorker /\ OneWorker)
  OBVIOUS
<1>1. ClaimInv => SoleWorker /\ OneWorker
  BY OwnersWorkAlone DEF OneWorker
<1> QED
  BY ClaimsAreOwned, <1>1, PTL

\* An outcome is written by the body that holds the current claim of its step.
THEOREM WritersHoldTheClaim == Undisturbed => (Spec => [][WritesItsClaim]_vars /\ FreshWriter)
<1> SUFFICES ASSUME Undisturbed PROVE Spec => [][WritesItsClaim]_vars /\ FreshWriter
  OBVIOUS
<1>1. ClaimInv => [WritesItsClaim]_vars
  BY DEF ClaimInv, CallClaims, BodyClaims, WritesItsClaim
<1>2. [WritesItsClaim]_vars => [Happened("stale_tests") \/ WritesItsClaim]_vars
  OBVIOUS
<1> QED
  BY ClaimsAreOwned, <1>1, <1>2, PTL DEF FreshWriter

-----------------------------------------------------------------------------
(* How often a step is retried.  retry_failed_node reads the count and writes  *)
(* the reset in two transactions; every call of an execution and the operator  *)
(* can hold one such read.  The invariant counts the resets still to come with *)
(* the ones that were made: a read is only made below max_retries, and a call  *)
(* holds one read at a time.                                                   *)

Resetting(n) == { c \in Calls : phase[c] = "reset" /\ target[c] = n }
OperatorResets(n) == IF opRetry.node = n THEN 1 ELSE 0

RetryInv ==
  \A n \in Nodes :
    tries[n] + Cardinality(Resetting(n)) + OperatorResets(n) <= MaxRetries + Cardinality(Calls)

\* What a step may do to the retries of step n: nothing, dropping some or giving it
\* all of them back, read below the limit, or make one of those that were read.
NoNewRetry(n) ==
  /\ tries'[n] \in {tries[n], 0}
  /\ Resetting(n)' \subseteq Resetting(n)
  /\ opRetry'.node = n => opRetry.node = n
ReadsBelow(n) == tries'[n] = tries[n] /\ tries[n] < MaxRetries
MakesOne(n) ==
  /\ tries'[n] = tries[n] + 1
  /\ \/ /\ \E c \in Resetting(n) : Resetting(n)' \subseteq Resetting(n) \ {c}
        /\ opRetry' = opRetry
     \/ /\ opRetry.node = n /\ opRetry'.node # n
        /\ Resetting(n)' \subseteq Resetting(n)
RetriesOf(n) == NoNewRetry(n) \/ ReadsBelow(n) \/ MakesOne(n)

\* Whatever leaves the calls' pending retries alone or drops them is quiet.
LEMMA DropsAreQuiet ==
  ASSUME tries' = tries \/ \A n \in Nodes : tries'[n] \in {tries[n], 0}, opRetry' = opRetry,
         \A d \in Calls : phase'[d] = "reset" => phase[d] = "reset" /\ target'[d] = target[d]
  PROVE  \A n \in Nodes : RetriesOf(n)
  BY DEF RetriesOf, NoNewRetry, Resetting

\* Every step that is not a retry's read or reset.
LEMMA OthersDropRetries ==
  ASSUME TypeOK, [Next]_vars,
         \A c \in Calls : ~AutoRetryReads(c) /\ ~AutoRetryResets(c),
         \A n \in Nodes : ~OperatorRetryReads(n),
         ~OperatorRetryResets
  PROVE  \A n \in Nodes : RetriesOf(n)
<1>1. CallTypeOK
  BY DEF TypeOK
<1>0. ASSUME NEW R, PutBack(R)
      PROVE  \A n \in Nodes : tries'[n] \in {tries[n], 0}
  BY <1>0 DEF PutBack
<1>2. ASSUME NEW c \in Calls, BodyStep(c)
      PROVE  \A n \in Nodes : RetriesOf(n)
  <2>1. opRetry' = opRetry /\ phase' = phase /\ target' = target
    BY <1>2 DEF BodyStep, Enter, PeekFails, OverBudget, RereadAlone, RecheckAlone, ParkAlone, Pick, Take,
                Persist, GivesUp, Shortcut, EndsAtOnce, WorkerError, Finish, Compile, Partial
  <2>2. tries' = tries \/ \E w \in inflight[c] : RereadAlone(c, w)
    BY <1>2 DEF BodyStep, Enter, PeekFails, OverBudget, RecheckAlone, ParkAlone, Pick, Take,
                Persist, GivesUp, Shortcut, EndsAtOnce, WorkerError, Finish, Compile, Partial, nodeVars
  <2>3. tries' = tries \/ \A n \in Nodes : tries'[n] \in {tries[n], 0}
    BY <1>0, <2>2 DEF RereadAlone, StaleTests
  <2> QED
    BY <2>1, <2>3, DropsAreQuiet
<1>3. ASSUME NEW c \in Calls, NEW r, Leaves(c, r)
      PROVE  \A d \in Calls : phase'[d] = "reset" => phase[d] = "reset" /\ target'[d] = target[d]
  BY <1>1, <1>3 DEF Leaves, Goto, Spawned, CallTypeOK
<1>4. ASSUME NEW c \in Calls, NEW p, p # "reset", Goto(c, p),
             \A d \in Calls \ {c} : target'[d] = target[d]
      PROVE  \A d \in Calls : phase'[d] = "reset" => phase[d] = "reset" /\ target'[d] = target[d]
  BY <1>1, <1>4 DEF Goto, CallTypeOK
<1>5. ASSUME NEW c \in Calls, RunStep(c)
      PROVE  \A n \in Nodes : RetriesOf(n)
  <2>1. tries' = tries /\ opRetry' = opRetry
    BY <1>5 DEF RunStep, Validate, ClaimFrontier, Settle, Recheck, Park, Sum, FinalReturns, Drain, Keepalive,
                DrainBudget, QuotaStops, Release, Count, Cleanup, SoloReturns, nodeVars
  <2>2. \/ \E r \in Reasons : Leaves(c, r)
        \/ \E p \in Phases \ {"reset"} :
             Goto(c, p) /\ \A d \in Calls \ {c} : target'[d] = target[d]
    BY <1>1, <1>5 DEF RunStep, Validate, ClaimFrontier, Settle, Recheck, Park, Sum, FinalReturns, Drain, Keepalive,
                DrainBudget, QuotaStops, Release, Count, Cleanup, SoloReturns, Spawned, Reasons, Phases, CallTypeOK
  <2> QED
    BY <1>3, <1>4, <2>1, <2>2, DropsAreQuiet
<1>6. ASSUME NEW c \in Calls, Admit(c) \/ Solo(c)
      PROVE  \A n \in Nodes : RetriesOf(n)
  <2>1. tries' = tries /\ opRetry' = opRetry /\ target' = target /\ (Goto(c, "gate") \/ Goto(c, "solo"))
    BY <1>6 DEF Admit, Solo, nodeVars
  <2> QED
    BY <1>4, <2>1, DropsAreQuiet
<1>7. ASSUME NEW c \in Calls, RunUpset(c)
      PROVE  \A n \in Nodes : RetriesOf(n)
  <2>1. opRetry' = opRetry
    BY <1>7 DEF RunUpset, HandsOnGate, RunFails, LookFails, Reread, DrainQuota, Disconnect
  <2>2. tries' = tries \/ Reread(c)
    BY <1>7 DEF RunUpset, HandsOnGate, RunFails, LookFails, DrainQuota, Disconnect, nodeVars
  <2>3. tries' = tries \/ \A n \in Nodes : tries'[n] \in {tries[n], 0}
    BY <1>0, <2>2 DEF Reread, StaleTests
  <2>4. \/ \E r : Leaves(c, r)
        \/ \E p \in {"sum", "claim", "quota"} : Goto(c, p) /\ target' = target
        \/ phase' = phase /\ target' = target
    BY <1>7 DEF RunUpset, HandsOnGate, RunFails, LookFails, Reread, DrainQuota, Disconnect
  <2> QED
    BY <1>3, <1>4, <2>1, <2>3, <2>4, DropsAreQuiet
<1>8. ASSUME CallNext
      PROVE  \A n \in Nodes : RetriesOf(n)
  BY <1>2, <1>5, <1>6, <1>7, <1>8 DEF CallNext
<1>9. ASSUME StepNext \/ JobNext \/ UNCHANGED vars
      PROVE  \A n \in Nodes : RetriesOf(n)
  <2>1. opRetry' = opRetry /\ phase' = phase /\ target' = target
    BY <1>9 DEF StepNext, JobNext, Skip, Reset, ReapOrphan, ReapSlow, CancelJob, Resume, Decide, Reask,
                ReapStaleJob, vars, nodeVars, callVars
  <2>2. tries' = tries \/ \E n \in Nodes : Reset(n)
    BY <1>9 DEF StepNext, JobNext, Skip, ReapOrphan, ReapSlow, CancelJob, Resume, Decide, Reask,
                ReapStaleJob, vars, nodeVars
  <2>3. tries' = tries \/ \A n \in Nodes : tries'[n] \in {tries[n], 0}
    BY <1>0, <2>2 DEF Reset
  <2> QED
    BY <2>1, <2>3, DropsAreQuiet
<1> QED
  BY <1>8, <1>9 DEF Next

\* A reset moves the count of one step.
LEMMA ResetsCountOne ==
  ASSUME StoredTypeOK, NEW n \in Nodes, NEW D, Resets(n, D)
  PROVE  \A k \in Nodes : tries'[k] = IF k = n THEN tries[k] + 1 ELSE tries[k]
  BY DEF Resets, StoredTypeOK

LEMMA NextRetries ==
  ASSUME ExecutionInv, [Next]_vars
  PROVE  \A n \in Nodes : RetriesOf(n)
<1>1. TypeOK /\ StoredTypeOK /\ CallTypeOK /\ StoredRemembers /\ \A c \in Calls : CallRemembers(c)
  BY DEF ExecutionInv, TypeOK
<1>2. ASSUME NEW c \in Calls, AutoRetryReads(c)
      PROVE  \A n \in Nodes : RetriesOf(n)
  <2>1. /\ tries' = tries /\ opRetry' = opRetry /\ target' = target
        /\ \A d \in Calls \ {c} : phase'[d] = phase[d]
        /\ phase'[c] = "reset" => tries[target[c]] < MaxRetries
    BY <1>1, <1>2 DEF AutoRetryReads, Goto, MayRetry, nodeVars, CallTypeOK
  <2> SUFFICES ASSUME NEW n \in Nodes PROVE RetriesOf(n)
    OBVIOUS
  <2>2. CASE phase'[c] = "reset" /\ target[c] = n
    BY <2>1, <2>2 DEF RetriesOf, ReadsBelow
  <2>3. CASE ~(phase'[c] = "reset" /\ target[c] = n)
    BY <2>1, <2>3 DEF RetriesOf, NoNewRetry, Resetting
  <2> QED
    BY <2>2, <2>3
<1>3. ASSUME NEW c \in Calls, AutoRetryResets(c)
      PROVE  \A n \in Nodes : RetriesOf(n)
  <2>1. /\ phase[c] = "reset" /\ phase'[c] = "claim" /\ target' = target /\ opRetry' = opRetry
        /\ \A d \in Calls \ {c} : phase'[d] = phase[d]
        /\ target[c] \in Nodes
    BY <1>1, <1>3 DEF AutoRetryResets, Goto, CallTypeOK, CallRemembers
  <2>2. \/ tries' = tries
        \/ \A k \in Nodes : tries'[k] = IF k = target[c] THEN tries[k] + 1 ELSE tries[k]
    BY <1>1, <1>3, <2>1, ResetsCountOne DEF AutoRetryResets
  <2> SUFFICES ASSUME NEW n \in Nodes PROVE RetriesOf(n)
    OBVIOUS
  <2>3. Resetting(n)' \subseteq Resetting(n) \ {c}
    BY <2>1 DEF Resetting
  <2>4. n = target[c] => c \in Resetting(n)
    BY <2>1 DEF Resetting
  <2> QED
    BY <2>1, <2>2, <2>3, <2>4 DEF RetriesOf, NoNewRetry, MakesOne
<1>4. ASSUME NEW m \in Nodes, OperatorRetryReads(m)
      PROVE  \A n \in Nodes : RetriesOf(n)
  <2>1. /\ tries' = tries /\ phase' = phase /\ target' = target
        /\ opRetry'.node = m /\ tries[m] < MaxRetries
    BY <1>4 DEF OperatorRetryReads, MayRetry, nodeVars, callVars
  <2> QED
    BY <2>1 DEF RetriesOf, ReadsBelow, NoNewRetry, Resetting
<1>5. ASSUME OperatorRetryResets
      PROVE  \A n \in Nodes : RetriesOf(n)
  <2>1. /\ phase' = phase /\ target' = target /\ opRetry'.node = NoStep
        /\ opRetry.node \in Nodes
    BY <1>1, <1>5 DEF OperatorRetryResets, callVars, NoRetry, StoredRemembers
  <2>2. \/ tries' = tries
        \/ \A k \in Nodes : tries'[k] = IF k = opRetry.node THEN tries[k] + 1 ELSE tries[k]
    BY <1>1, <1>5, <2>1, ResetsCountOne DEF OperatorRetryResets
  <2>3. \A n \in Nodes : Resetting(n)' \subseteq Resetting(n)
    BY <2>1 DEF Resetting
  <2> QED
    BY <2>1, <2>2, <2>3, StepFacts DEF RetriesOf, NoNewRetry, MakesOne
<1> QED
  BY <1>1, <1>2, <1>3, <1>4, <1>5, OthersDropRetries

\* Counting: a step that keeps, reads or makes retries keeps the sum bounded.
LEMMA RetriesStayBounded ==
  ASSUME IsFiniteSet(Calls), StoredTypeOK, StoredTypeOK', RetryInv, NEW n \in Nodes, RetriesOf(n)
  PROVE  tries'[n] + Cardinality(Resetting(n)') + OperatorResets(n)' <= MaxRetries + Cardinality(Calls)
<1> DEFINE R == Resetting(n)
           T == Resetting(n)'
<1> SUFFICES tries'[n] + Cardinality(T) + OperatorResets(n)' <= MaxRetries + Cardinality(Calls)
  OBVIOUS
<1>1. R \subseteq Calls /\ T \subseteq Calls
  BY DEF Resetting
<1>2. /\ IsFiniteSet(R) /\ Cardinality(R) \in Nat /\ Cardinality(R) <= Cardinality(Calls)
      /\ IsFiniteSet(T) /\ Cardinality(T) \in Nat /\ Cardinality(T) <= Cardinality(Calls)
      /\ Cardinality(Calls) \in Nat
  BY <1>1, FS_Subset, FS_CardinalityType
<1>3. tries[n] \in Nat /\ tries'[n] \in Nat /\ MaxRetries \in Nat
  BY ExecutionAssumption DEF StoredTypeOK
<1>4. OperatorResets(n) \in 0..1 /\ OperatorResets(n)' \in 0..1
  BY DEF OperatorResets
<1>5. tries[n] + Cardinality(R) + OperatorResets(n) <= MaxRetries + Cardinality(Calls)
  BY DEF RetryInv
<1>6. T \subseteq R => Cardinality(T) <= Cardinality(R)
  BY <1>2, FS_Subset
<1>7. ASSUME NEW c \in R, T \subseteq R \ {c}
      PROVE  Cardinality(T) <= Cardinality(R) - 1
  <2>1. IsFiniteSet(R \ {c}) /\ Cardinality(R \ {c}) = Cardinality(R) - 1
    BY <1>2, FS_RemoveElement
  <2> QED
    BY <1>7, <2>1, FS_Subset
<1>8. CASE NoNewRetry(n)
  <2>1. tries'[n] <= tries[n] /\ Cardinality(T) <= Cardinality(R) /\ OperatorResets(n)' <= OperatorResets(n)
    BY <1>3, <1>6, <1>8 DEF NoNewRetry, OperatorResets
  <2> QED
    BY <1>2, <1>3, <1>4, <1>5, <2>1
<1>9. CASE ReadsBelow(n)
  <2> QED
    BY <1>2, <1>3, <1>4, <1>9 DEF ReadsBelow
<1>10. CASE MakesOne(n)
  <2>1. tries'[n] = tries[n] + 1
    BY <1>10 DEF MakesOne
  <2>2. \/ Cardinality(T) <= Cardinality(R) - 1 /\ OperatorResets(n)' = OperatorResets(n)
        \/ Cardinality(T) <= Cardinality(R) /\ OperatorResets(n)' = 0 /\ OperatorResets(n) = 1
    BY <1>6, <1>7, <1>10 DEF MakesOne, OperatorResets
  <2> QED
    BY <1>2, <1>3, <1>4, <1>5, <2>1, <2>2
<1> QED
  BY <1>8, <1>9, <1>10 DEF RetriesOf

LEMMA NextRetryInv ==
  ASSUME IsFiniteSet(Calls), ExecutionInv, ExecutionInv', RetryInv, [Next]_vars
  PROVE  RetryInv'
<1>1. StoredTypeOK /\ StoredTypeOK'
  BY DEF ExecutionInv, TypeOK
<1>2. \A n \in Nodes : RetriesOf(n)
  BY NextRetries
<1> QED
  BY <1>1, <1>2, RetriesStayBounded DEF RetryInv

LEMMA InitRetryInv ==
  ASSUME IsFiniteSet(Calls), Init
  PROVE  RetryInv
<1>1. \A n \in Nodes : tries[n] = 0 /\ Resetting(n) = {} /\ OperatorResets(n) = 0
  BY StepFacts DEF Init, Resetting, OperatorResets, NoRetry
<1>2. Cardinality({}) = 0 /\ Cardinality(Calls) \in Nat /\ MaxRetries \in Nat
  BY FS_EmptySet, FS_CardinalityType, ExecutionAssumption
<1>3. \A n \in Nodes : Cardinality(Resetting(n)) = 0
  BY <1>1, <1>2
<1>4. 0 + 0 + 0 <= MaxRetries + Cardinality(Calls)
  BY <1>2
<1> QED
  BY <1>1, <1>3, <1>4 DEF RetryInv

LEMMA RetryInvBounds ==
  ASSUME IsFiniteSet(Calls), ExecutionInv, RetryInv
  PROVE  RetryBound
<1> SUFFICES ASSUME NEW n \in Nodes PROVE tries[n] <= MaxRetries + Cardinality(Calls)
  BY DEF RetryBound
<1>1. IsFiniteSet(Resetting(n))
  BY FS_Subset DEF Resetting
<1>2. /\ Cardinality(Resetting(n)) \in Nat /\ Cardinality(Calls) \in Nat /\ MaxRetries \in Nat
      /\ tries[n] \in Nat /\ OperatorResets(n) \in 0..1
  BY <1>1, FS_CardinalityType, ExecutionAssumption DEF ExecutionInv, TypeOK, StoredTypeOK, OperatorResets
<1> QED
  BY <1>2 DEF RetryInv

\* With every event of the model and however the retries of the runs and of the
\* operator interleave, a step is retried at most max_retries times, plus once
\* for each retry decided on a count that was read before another reset landed.
THEOREM RetriesAreBounded == IsFiniteSet(Calls) => (Spec => []RetryBound)
<1> SUFFICES ASSUME IsFiniteSet(Calls) PROVE Spec => []RetryBound
  OBVIOUS
<1>1. Init => RetryInv
  BY InitRetryInv
<1>2. ExecutionInv /\ ExecutionInv' /\ RetryInv /\ [Next]_vars => RetryInv'
  BY NextRetryInv
<1>3. ExecutionInv /\ RetryInv => RetryBound
  BY RetryInvBounds
<1> QED
  BY ExecutionSafety, <1>1, <1>2, <1>3, PTL DEF Spec

-----------------------------------------------------------------------------
(* Calls made one after the other.  The claims above bear overlapping calls;   *)
(* what the job's status says of its bodies does not, and neither do skips,    *)
(* retries and lost workers: a body of one call can then be cut off by the     *)
(* cleanup of another.  When no two calls overlap these hold with every event. *)

Rests(c) == phase[c] \in {"idle", "over"}
NoOverlap == \A c, d \in Calls : Rests(c) \/ Rests(d) \/ c = d

\* Where only a body that was given no step comes.
OwnPcs == {"frame", "ask", "claim", "take", "partial"}

\* Where a call's bodies can be: none before the frontier claims nor once it
\* found nothing to do; in the loop every body has its step from the start; a
\* call on its own and the terminal call have one body.
Shape(c) ==
  /\ phase[c] \in {"idle", "gate", "settle", "frame", "ask", "sum", "release", "count", "cleanup", "over"} =>
       inflight[c] = {}
  /\ phase[c] \notin {"final", "solo"} =>
       \A w \in inflight[c] : w.node # NoStep /\ w.pc \notin OwnPcs
  /\ phase[c] \in {"final", "solo"} => \A v, w \in inflight[c] : v = w

ShapeInv == \A c \in Calls : Shape(c)

\* What one step of a body does: w becomes v.
BodyGoes(c, w, v) ==
  /\ w.pc # "ended" /\ v \in Body
  /\ inflight'[c] = (inflight[c] \ {w}) \cup {v}
  /\ \A d \in Calls \ {c} : inflight'[d] = inflight[d]
  /\ phase' = phase /\ target' = target /\ delegated' = delegated
  /\ w.node # NoStep /\ w.pc \notin OwnPcs => v.node # NoStep /\ v.pc \notin OwnPcs
  /\ v.pc = "frame" => w.pc \in {"enter", "frame"} /\ v.node \in MustAsk
  /\ v.pc = "ask" => w.pc = "frame" /\ v.node = w.node
  /\ w.pc = "enter" => v.pc = "ended" \/ Executable
  /\ w.pc \notin {"take", "work"} =>
       st' = st \/ (w.pc = "frame" /\ v.pc = "claim" /\ \A n \in Nodes : st'[n] \in {st[n], "pending"})
  /\ w.pc \notin {"tail", "ask"} => asked' = asked
  /\ \/ job' = job
     \/ job' \in {"failed", "completed"}
     \/ /\ job' = "awaiting_decision" /\ w.pc = "ask" /\ v.pc = "ended" /\ asked' = w.node
     \/ /\ job' = "blocked" /\ w.pc = "partial" /\ v.pc = "ended"

LEMMA BodyGoesOn ==
  ASSUME ExecutionInv, NEW c \in Calls, BodyStep(c)
  PROVE  \E w \in inflight[c] : \E v : BodyGoes(c, w, v)
<1>1. CallTypeOK /\ StoredTypeOK /\ \A w \in inflight[c] : BodyRemembers(w)
  BY DEF ExecutionInv, TypeOK
<1>2. PICK w \in inflight[c] :
        \/ Enter(c, w) \/ PeekFails(c, w) \/ OverBudget(c, w)
        \/ RereadAlone(c, w) \/ RecheckAlone(c, w) \/ ParkAlone(c, w)
        \/ Pick(c, w) \/ Take(c, w)
        \/ Persist(c, w, "done") \/ Persist(c, w, "failed")
        \/ GivesUp(c, w) \/ Shortcut(c, w) \/ WorkerError(c, w)
        \/ Finish(c, w) \/ Compile(c, w) \/ Partial(c, w)
  BY DEF BodyStep
<1>3. w \in Body
  BY <1>1 DEF CallTypeOK
<1>4. phase' = phase /\ target' = target /\ delegated' = delegated
  BY <1>2 DEF Enter, PeekFails, OverBudget, RereadAlone, RecheckAlone, ParkAlone, Pick, Take,
              Persist, GivesUp, Shortcut, EndsAtOnce,
              WorkerError, Finish, Compile, Partial, jobVars
<1>5. ASSUME NEW v, Steps(c, w, v)
      PROVE  /\ inflight'[c] = (inflight[c] \ {w}) \cup {v}
             /\ \A d \in Calls \ {c} : inflight'[d] = inflight[d]
  BY <1>1, <1>5 DEF Steps, CallTypeOK
<1>6. ASSUME NEW s, Puts(c, w, s), w.pc # "ended",
             w.pc \notin {"take", "work"} => st' = st,
             w.pc \notin {"tail", "ask"} => asked' = asked,
             \/ job' = job
             \/ job' \in {"failed", "completed"}
             \/ job' = "awaiting_decision" /\ w.pc = "ask" /\ asked' = w.node
             \/ job' = "blocked" /\ w.pc = "partial"
      PROVE  \E v : BodyGoes(c, w, v)
  <2> PICK v : v = [w EXCEPT !.pc = "ended"]
    OBVIOUS
  <2>1. v.pc = "ended" /\ v.node = w.node /\ v \in Body
    BY <1>3 DEF Body, BodyPcs
  <2>2. Steps(c, w, v)
    BY <1>6 DEF Puts
  <2>3. BodyGoes(c, w, v)
    BY <1>4, <1>5, <1>6, <2>1, <2>2 DEF BodyGoes, OwnPcs
  <2> QED
    BY <2>3
<1>7. ASSUME NEW v \in Body, Steps(c, w, v), w.pc # "ended",
             w.node # NoStep /\ w.pc \notin OwnPcs => v.node # NoStep /\ v.pc \notin OwnPcs,
             v.pc = "frame" => w.pc \in {"enter", "frame"} /\ v.node \in MustAsk,
             v.pc = "ask" => w.pc = "frame" /\ v.node = w.node,
             w.pc = "enter" => Executable,
             w.pc \notin {"take", "work"} =>
               st' = st \/ (w.pc = "frame" /\ v.pc = "claim" /\ \A n \in Nodes : st'[n] \in {st[n], "pending"}),
             w.pc \notin {"tail", "ask"} => asked' = asked,
             job' = job \/ job' = "completed"
      PROVE  \E u : BodyGoes(c, w, u)
  <2>1. BodyGoes(c, w, v)
    BY <1>4, <1>5, <1>7 DEF BodyGoes
  <2> QED
    BY <2>1
<1>8. ASSUME NEW p \in {"work", "claim", "ask", "tail", "compile"}, GoesTo(c, w, p), w.pc # "ended",
             p = "claim" => w.node = NoStep,
             p = "ask" => w.pc = "frame",
             w.pc = "enter" => Executable,
             w.pc \notin {"take", "work"} => st' = st,
             w.pc \notin {"tail", "ask"} => asked' = asked,
             job' = job \/ job' = "completed"
      PROVE  \E u : BodyGoes(c, w, u)
  <2> PICK v : v = [w EXCEPT !.pc = p]
    OBVIOUS
  <2>1. v.pc = p /\ v.node = w.node /\ v \in Body
    BY <1>3 DEF Body, BodyPcs
  <2>2. Steps(c, w, v)
    BY <1>8 DEF GoesTo
  <2> QED
    BY <1>7, <1>8, <2>1, <2>2 DEF OwnPcs
<1>15. ASSUME ClaimsInstead(c, w), w.pc \in {"frame", "ask"}, job' = job, asked' = asked,
              st' = st \/ (w.pc = "frame" /\ \A n \in Nodes : st'[n] \in {st[n], "pending"})
       PROVE  \E u : BodyGoes(c, w, u)
  <2> PICK v : v = [w EXCEPT !.pc = "claim", !.node = NoStep]
    OBVIOUS
  <2>1. v.pc = "claim" /\ v \in Body
    BY <1>3 DEF Body, BodyPcs
  <2>2. Steps(c, w, v)
    BY <1>15 DEF ClaimsInstead
  <2> QED
    BY <1>7, <1>15, <2>1, <2>2 DEF OwnPcs
<1>9. CASE Enter(c, w)
  <2>1. w.pc = "enter" /\ st' = st /\ asked' = asked /\ job' = job
    BY <1>9 DEF Enter, At, jobVars, nodeVars
  <2>2. CASE Puts(c, w, "error")
    BY <1>6, <2>1, <2>2
  <2>3. CASE Executable /\ \/ GoesTo(c, w, "work")
                           \/ GoesTo(c, w, "claim") /\ w.node = NoStep
    BY <1>8, <2>1, <2>3
  <2>4. CASE /\ Executable /\ w.node = NoStep /\ MustAsk # {}
             /\ Steps(c, w, [w EXCEPT !.pc = "frame", !.node = First(MustAsk)])
    <3>1. First(MustAsk) \in MustAsk /\ First(MustAsk) \in Nodes
      BY <2>4, FirstIsIn DEF MustAsk, Ready
    <3> PICK v : v = [w EXCEPT !.pc = "frame", !.node = First(MustAsk)]
      OBVIOUS
    <3>2. v.pc = "frame" /\ v.node \in MustAsk /\ v \in Body
      BY <1>3, <3>1 DEF Body, BodyPcs
    <3> QED
      BY <1>7, <2>1, <2>4, <3>2 DEF OwnPcs
  <2> QED
    BY <1>9, <2>2, <2>3, <2>4 DEF Enter
<1>10. CASE OverBudget(c, w) \/ Compile(c, w) \/ Partial(c, w) \/ WorkerError(c, w)
           \/ GivesUp(c, w) \/ Shortcut(c, w)
  <2>1. \E s : Puts(c, w, s)
    BY <1>10 DEF OverBudget, Compile, Partial, WorkerError, GivesUp, Shortcut, EndsAtOnce
  <2>2. /\ w.pc # "ended" /\ (w.pc \notin {"take", "work"} => st' = st) /\ asked' = asked
        /\ job' = job \/ job' = "failed" \/ (job' = "blocked" /\ w.pc = "partial")
    BY <1>10 DEF OverBudget, Compile, Partial, WorkerError, GivesUp, Shortcut, EndsAtOnce, At,
                 jobVars, nodeVars
  <2> QED
    BY <1>6, <2>1, <2>2
<1>11. CASE ParkAlone(c, w)
  <2>1. w.pc = "ask" /\ st' = st
    BY <1>11 DEF ParkAlone, At, nodeVars
  <2>2. CASE Puts(c, w, "awaiting_decision") /\ job' = "awaiting_decision" /\ asked' = w.node
    BY <1>6, <2>1, <2>2
  <2>3. CASE ClaimsInstead(c, w) /\ job' = job /\ asked' = asked
    BY <1>15, <2>1, <2>3
  <2> QED
    BY <1>11, <2>2, <2>3 DEF ParkAlone
<1>16. CASE PeekFails(c, w)
  <2>1. /\ w.pc = "enter" /\ Executable /\ w.node = NoStep /\ GoesTo(c, w, "claim")
        /\ st' = st /\ asked' = asked /\ job' = job
    BY <1>16 DEF PeekFails, At, jobVars, nodeVars
  <2> QED
    BY <1>8, <2>1
<1>17. CASE RereadAlone(c, w)
  <2>1. w.pc = "frame" /\ ClaimsInstead(c, w) /\ job' = job /\ asked' = asked /\ StaleTests
    BY <1>17 DEF RereadAlone, At, jobVars
  <2>2. \A n \in Nodes : st'[n] \in {st[n], "pending"}
    BY <2>1 DEF StaleTests, PutBack
  <2> QED
    BY <1>15, <2>1, <2>2
<1>18. CASE RecheckAlone(c, w)
  <2>1. w.pc = "frame" /\ st' = st /\ job' = job /\ asked' = asked
    BY <1>18 DEF RecheckAlone, At, jobVars, nodeVars
  <2>2. CASE GoesTo(c, w, "ask")
    BY <1>8, <2>1, <2>2
  <2>3. CASE ClaimsInstead(c, w)
    BY <1>15, <2>1, <2>3
  <2>4. CASE MustAsk # {} /\ Steps(c, w, [w EXCEPT !.node = First(MustAsk)])
    <3>1. First(MustAsk) \in MustAsk /\ First(MustAsk) \in Nodes
      BY <2>4, FirstIsIn DEF MustAsk, Ready
    <3> PICK v : v = [w EXCEPT !.node = First(MustAsk)]
      OBVIOUS
    <3>2. v.pc = "frame" /\ v.node \in MustAsk /\ v \in Body
      BY <1>3, <2>1, <3>1 DEF Body
    <3> QED
      BY <1>7, <2>1, <2>4, <3>2 DEF OwnPcs
  <2> QED
    BY <1>18, <2>2, <2>3, <2>4 DEF RecheckAlone
<1>19. CASE Pick(c, w)
  <2>1. w.pc = "claim" /\ asked' = asked /\ job' = job /\ st' = st
    BY <1>19 DEF Pick, At, jobVars, nodeVars
  <2>2. CASE GoesTo(c, w, "tail")
    BY <1>8, <2>1, <2>2
  <2>3. CASE Ready # {} /\ Steps(c, w, [w EXCEPT !.node = First(Ready), !.pc = "take"])
    <3>1. PICK n \in Nodes : n = First(Ready)
      BY <2>3, FirstIsIn DEF Ready
    <3> PICK v : v = [w EXCEPT !.node = n, !.pc = "take"]
      OBVIOUS
    <3>2. v.pc = "take" /\ v \in Body
      BY <1>3 DEF Body, BodyPcs
    <3>3. Steps(c, w, v)
      BY <2>3, <3>1
    <3> QED
      BY <1>7, <2>1, <3>2, <3>3 DEF OwnPcs
  <2> QED
    BY <1>19, <2>2, <2>3 DEF Pick
<1>12. CASE Take(c, w)
  <2>1. w.pc = "take" /\ asked' = asked /\ job' = job /\ w.node \in Nodes
    BY <1>1, <1>12 DEF Take, At, jobVars, BodyRemembers
  <2>2. CASE Steps(c, w, [w EXCEPT !.claim = claims[w.node] + 1, !.pc = "work"])
    <3> PICK k : k = claims[w.node] + 1
      OBVIOUS
    <3> PICK v : v = [w EXCEPT !.claim = k, !.pc = "work"]
      OBVIOUS
    <3>1. k \in Nat
      BY <1>1, <2>1 DEF StoredTypeOK
    <3>2. v.pc = "work" /\ v \in Body
      BY <1>3, <3>1 DEF Body, BodyPcs
    <3> QED
      BY <1>7, <2>1, <2>2, <3>2 DEF OwnPcs
  <2>3. CASE Steps(c, w, [w EXCEPT !.pc = "tail", !.node = NoStep])
    <3> PICK v : v = [w EXCEPT !.pc = "tail", !.node = NoStep]
      OBVIOUS
    <3>1. v.pc = "tail" /\ v \in Body
      BY <1>3 DEF Body, BodyPcs
    <3> QED
      BY <1>7, <2>1, <2>3, <3>1 DEF OwnPcs
  <2> QED
    BY <1>12, <2>2, <2>3 DEF Take
<1>13. ASSUME NEW s \in {"done", "failed"}, Persist(c, w, s)
       PROVE  \E v : BodyGoes(c, w, v)
  <2>1. w.pc = "work" /\ asked' = asked /\ job' = job /\ w.node \in Nodes
    BY <1>1, <1>13 DEF Persist, At, jobVars, BodyRemembers
  <2>2. CASE Puts(c, w, "stale")
    BY <1>6, <2>1, <2>2
  <2>3. CASE Steps(c, w, [w EXCEPT !.pc = "tail", !.res = s])
    <3> PICK v : v = [w EXCEPT !.pc = "tail", !.res = s]
      OBVIOUS
    <3>1. v.pc = "tail" /\ v.node = w.node /\ v \in Body
      BY <1>3 DEF Body, BodyPcs, Outcomes
    <3> QED
      BY <1>7, <2>1, <2>3, <3>1, StepFacts DEF OwnPcs
  <2> QED
    BY <1>13, <2>2, <2>3 DEF Persist
<1>14. CASE Finish(c, w)
  <2>1. w.pc = "tail" /\ st' = st /\ (job' = job \/ job' = "completed")
    BY <1>14 DEF Finish, At, nodeVars
  <2>2. CASE GoesTo(c, w, "compile") \/ \E s : Puts(c, w, s)
    BY <1>6, <1>8, <2>1, <2>2
  <2>3. CASE /\ w.node = NoStep
             /\ Steps(c, w, [w EXCEPT !.pc = "partial", !.res = IF output = "none" THEN "fresh" ELSE "cached"])
    <3> PICK s : s = IF output = "none" THEN "fresh" ELSE "cached"
      OBVIOUS
    <3> PICK v : v = [w EXCEPT !.pc = "partial", !.res = s]
      OBVIOUS
    <3>1. v.pc = "partial" /\ v \in Body
      BY <1>3 DEF Body, BodyPcs, Outcomes
    <3> QED
      BY <1>7, <2>1, <2>3, <3>1 DEF OwnPcs
  <2> QED
    BY <1>14, <2>2, <2>3 DEF Finish
<1> QED
  BY <1>2, <1>9, <1>10, <1>11, <1>12, <1>13, <1>14, <1>16, <1>17, <1>18, <1>19

\* What one step of the environment leaves to every call.
SameBodies(d) == phase'[d] = phase[d] /\ inflight'[d] = inflight[d]

\* Only one call moves at a time.
LEMMA OneCallShapes ==
  ASSUME ShapeInv, NEW c \in Calls, Shape(c)', \A d \in Calls \ {c} : SameBodies(d)
  PROVE  ShapeInv'
  BY DEF ShapeInv, Shape, SameBodies

LEMMA LeavesShapes ==
  ASSUME CallTypeOK, ShapeInv, NEW c \in Calls, NEW r, Leaves(c, r)
  PROVE  ShapeInv'
<1>1. inflight'[c] = {} /\ phase'[c] \in {"release", "count", "cleanup"}
  BY DEF Leaves, Goto, Spawned, CallTypeOK
<1>2. \A d \in Calls \ {c} : SameBodies(d)
  BY DEF Leaves, Goto, CallTypeOK, SameBodies
<1> QED
  BY <1>1, <1>2, OneCallShapes DEF Shape

LEMMA BodyShapes ==
  ASSUME ExecutionInv, ShapeInv, NEW c \in Calls, BodyStep(c)
  PROVE  ShapeInv'
<1>1. PICK w \in inflight[c] : \E v : BodyGoes(c, w, v)
  BY BodyGoesOn
<1>2. PICK v : BodyGoes(c, w, v)
  BY <1>1
<1>3. Shape(c) /\ phase'[c] = phase[c]
  BY <1>2 DEF ShapeInv, BodyGoes
<1>4. inflight'[c] = (inflight[c] \ {w}) \cup {v}
  BY <1>2 DEF BodyGoes
<1>5. phase[c] \notin {"idle", "gate", "settle", "frame", "ask", "sum", "release", "count", "cleanup", "over"}
  BY <1>3 DEF Shape
<1>6. phase[c] \notin {"final", "solo"} =>
        \A u \in inflight'[c] : u.node # NoStep /\ u.pc \notin OwnPcs
  BY <1>2, <1>3, <1>4 DEF Shape, BodyGoes
<1>7. phase[c] \in {"final", "solo"} => \A t, u \in inflight'[c] : t = u
  BY <1>3, <1>4 DEF Shape
<1>8. Shape(c)'
  BY <1>3, <1>5, <1>6, <1>7 DEF Shape
<1>9. \A d \in Calls \ {c} : SameBodies(d)
  BY <1>2 DEF BodyGoes, SameBodies
<1> QED
  BY <1>8, <1>9, OneCallShapes

\* The frontier's bodies have their step from the start.
LEMMA ClaimFrontierShapes ==
  ASSUME CallTypeOK, ShapeInv, NEW c \in Calls, ClaimFrontier(c)
  PROVE  ShapeInv'
<1> DEFINE free == IF Cardinality(inflight[c]) < Cap THEN Cap - Cardinality(inflight[c]) ELSE 0
<1>1. PICK S : S = FirstOf(Claimable, free)
  OBVIOUS
<1>2. PICK started :
        started = { [node |-> n, claim |-> claims[n] + 1, pc |-> "enter", res |-> "none"] : n \in S }
  OBVIOUS
<1>3. /\ phase[c] = "claim"
      /\ inflight' = [inflight EXCEPT ![c] = @ \cup started]
      /\ Goto(c, IF inflight[c] \cup started = {} THEN "settle" ELSE "drain")
  BY <1>1, <1>2 DEF ClaimFrontier
<1>4. \A w \in started : w.node \in Nodes /\ w.pc = "enter"
  <2>1. S \subseteq Nodes
    BY <1>1 DEF FirstOf, Claimable, Ready
  <2> QED
    BY <1>2, <2>1
<1>5. inflight'[c] = inflight[c] \cup started
  BY <1>3 DEF CallTypeOK
<1>6. phase'[c] = IF inflight[c] \cup started = {} THEN "settle" ELSE "drain"
  BY <1>3 DEF Goto, CallTypeOK
<1>7. Shape(c)'
  BY <1>3, <1>4, <1>5, <1>6, StepFacts DEF ShapeInv, Shape, OwnPcs
<1>8. \A d \in Calls \ {c} : SameBodies(d)
  BY <1>3 DEF Goto, CallTypeOK, SameBodies
<1> QED
  BY <1>7, <1>8, OneCallShapes

LEMMA RunShapes ==
  ASSUME ExecutionInv, ShapeInv, NEW c \in Calls, RunStep(c)
  PROVE  ShapeInv'
<1>1. CallTypeOK /\ Shape(c)
  BY DEF ExecutionInv, TypeOK, ShapeInv
<1>2. CASE \E r : Leaves(c, r)
  BY <1>1, <1>2, LeavesShapes
<1>3. CASE ClaimFrontier(c)
  BY <1>1, <1>3, ClaimFrontierShapes
<1>4. ASSUME NEW p, Goto(c, p), \A d \in Calls \ {c} : inflight'[d] = inflight[d],
             inflight'[c] \subseteq inflight[c], p \notin {"final", "solo"},
             phase[c] \notin {"final", "solo"} \/ inflight'[c] = {},
             p \in {"idle", "gate", "settle", "frame", "ask", "sum", "release", "count", "cleanup", "over"} =>
               inflight'[c] = {}
      PROVE  ShapeInv'
  <2>1. phase'[c] = p /\ \A d \in Calls \ {c} : SameBodies(d)
    BY <1>1, <1>4 DEF Goto, CallTypeOK, SameBodies
  <2>2. Shape(c)'
    BY <1>1, <1>4, <2>1 DEF Shape
  <2> QED
    BY <2>1, <2>2, OneCallShapes
<1>5. CASE Settle(c) \/ Recheck(c) \/ (Park(c) /\ Goto(c, "sum") /\ inflight' = inflight)
  <2>1. inflight[c] = {}
    BY <1>1, <1>5 DEF Settle, Recheck, Park, Shape
  <2>2. inflight' = inflight /\ \E p \in {"sum", "frame", "ask", "settle"} : Goto(c, p)
    BY <1>5 DEF Settle, Recheck
  <2> QED
    BY <1>4, <2>1, <2>2
<1>6. CASE Sum(c)
  <2>1. CASE AllDone
    BY <1>2, <1>6, <2>1 DEF Sum
  <2>2. CASE ~AllDone
    <3>1. /\ phase'[c] = "final" /\ inflight'[c] = {FreshCall}
          /\ \A d \in Calls \ {c} : SameBodies(d)
      BY <1>1, <1>6, <2>2 DEF Sum, Goto, CallTypeOK, SameBodies
    <3> QED
      BY <3>1, OneCallShapes DEF Shape
  <2> QED
    BY <2>1, <2>2
<1>7. CASE (Validate(c) /\ Goto(c, "claim") /\ inflight' = inflight) \/ AutoRetryReads(c) \/ AutoRetryResets(c)
  <2>1. /\ inflight' = inflight /\ (Goto(c, "claim") \/ Goto(c, "reset"))
        /\ phase[c] \notin {"final", "solo"}
    BY <1>7 DEF Validate, AutoRetryReads, AutoRetryResets
  <2> QED
    BY <1>4, <2>1
<1>8. CASE Drain(c) \/ Keepalive(c)
  <2>1. /\ inflight'[c] \subseteq inflight[c] /\ \A d \in Calls \ {c} : inflight'[d] = inflight[d]
        /\ (Goto(c, "claim") \/ Goto(c, "retry")) /\ phase[c] = "drain"
    BY <1>1, <1>8 DEF Drain, Keepalive, Live, CallTypeOK
  <2> QED
    BY <1>4, <2>1
<1>9. CASE Release(c) \/ Count(c) \/ Cleanup(c)
  <2>1. inflight[c] = {} /\ inflight' = inflight
    BY <1>1, <1>9 DEF Release, Count, Cleanup, Shape
  <2>2. Goto(c, "count") \/ Goto(c, "cleanup") \/ Goto(c, "over")
    BY <1>9 DEF Release, Count, Cleanup, Spawned
  <2> QED
    BY <1>4, <2>1, <2>2
<1>10. CASE SoloReturns(c)
  <2>1. inflight'[c] = {} /\ (\A d \in Calls \ {c} : inflight'[d] = inflight[d]) /\ Goto(c, "over")
    BY <1>1, <1>10 DEF SoloReturns, CallTypeOK
  <2> QED
    BY <1>4, <2>1
<1>11. CASE Validate(c) \/ Park(c) \/ FinalReturns(c) \/ DrainBudget(c) \/ QuotaStops(c)
  BY <1>2, <1>5, <1>7, <1>11 DEF Validate, Park, FinalReturns, DrainBudget, QuotaStops
<1> QED
  BY <1>3, <1>5, <1>6, <1>7, <1>8, <1>9, <1>10, <1>11 DEF RunStep

LEMMA NextShapes ==
  ASSUME ExecutionInv, ShapeInv, [Next]_vars
  PROVE  ShapeInv'
<1>1. CallTypeOK
  BY DEF ExecutionInv, TypeOK
<1>2. ASSUME NEW c \in Calls, Admit(c) \/ Solo(c)
      PROVE  ShapeInv'
  <2>1. \A d \in Calls \ {c} : SameBodies(d)
    BY <1>1, <1>2 DEF Admit, Solo, Goto, CallTypeOK, SameBodies
  <2>2. \/ phase'[c] = "gate" /\ inflight'[c] = {}
        \/ phase'[c] = "solo" /\ inflight'[c] = {FreshCall}
    BY <1>1, <1>2 DEF Admit, Solo, Goto, CallTypeOK, ShapeInv, Shape
  <2> QED
    BY <2>1, <2>2, OneCallShapes DEF Shape
<1>3. ASSUME NEW c \in Calls, RunUpset(c)
      PROVE  ShapeInv'
  <2>1. Shape(c)
    BY DEF ShapeInv
  <2>2. CASE \E r : Leaves(c, r)
    BY <1>1, <2>2, LeavesShapes
  <2>3. CASE LookFails(c) \/ Reread(c)
    <3>1. inflight' = inflight /\ inflight[c] = {} /\ phase'[c] \in {"sum", "claim"}
      BY <1>1, <2>1, <2>3 DEF LookFails, Reread, Goto, Shape, CallTypeOK
    <3>2. \A d \in Calls \ {c} : SameBodies(d)
      BY <1>1, <2>3 DEF LookFails, Reread, Goto, CallTypeOK, SameBodies
    <3>3. Shape(c)'
      BY <3>1 DEF Shape
    <3> QED
      BY <3>2, <3>3, OneCallShapes
  <2>4. CASE DrainQuota(c)
    <3>1. inflight'[c] \subseteq inflight[c] /\ phase[c] = "drain" /\ phase'[c] = "quota"
      BY <1>1, <2>4 DEF DrainQuota, Live, Goto, CallTypeOK
    <3>2. \A d \in Calls \ {c} : SameBodies(d)
      BY <1>1, <2>4 DEF DrainQuota, Goto, CallTypeOK, SameBodies
    <3>3. Shape(c)'
      BY <2>1, <3>1 DEF Shape
    <3> QED
      BY <3>2, <3>3, OneCallShapes
  <2>5. CASE phase' = phase /\ inflight' = inflight
    BY <2>5 DEF ShapeInv, Shape
  <2> QED
    BY <1>3, <2>2, <2>3, <2>4, <2>5 DEF RunUpset, HandsOnGate, RunFails, Disconnect
<1>4. ASSUME StepNext \/ JobNext \/ UNCHANGED vars
      PROVE  ShapeInv'
  <2>1. phase' = phase /\ inflight' = inflight
    BY <1>4 DEF StepNext, JobNext, OperatorRetryReads, Skip, Reset, ReapOrphan, ReapSlow, OperatorRetryResets,
                CancelJob, Resume, Decide, Reask, ReapStaleJob, vars, callVars
  <2> QED
    BY <2>1 DEF ShapeInv, Shape
<1> QED
  BY <1>2, <1>3, <1>4, BodyShapes, RunShapes DEF Next, CallNext

\* The question a call frames, or the job is parked on, is still the operator's.
Asks(n) == n \in Undelegated /\ st[n] \in {"pending", "skipped"}

\* What a call has going while the job is blocked or parked, or while it frames a
\* question: bodies that have not looked at the job yet and bodies that ended.  A run
\* that blocked the job over the account's limit has its bodies until it returns.
Quiet(c) ==
  /\ phase[c] \in {"frame", "ask"} => Asks(target[c])
  /\ \A w \in inflight[c] : w.pc \in {"frame", "ask"} => Asks(w.node)
  /\ job \in {"blocked", "awaiting_decision"} =>
       phase[c] = "quota" \/ \A w \in inflight[c] : w.pc \in {"enter", "ended"}
  /\ job = "awaiting_decision" =>
       phase[c] \in {"idle", "final", "solo", "release", "count", "cleanup", "over"}

ParkedAsks == job = "awaiting_decision" => Asks(asked)

\* The inductive invariant, when no two calls overlap.
QuietInv == ParkedAsks /\ \A c \in Calls : Quiet(c)

\* A step that answers no question: what is pending or skipped goes on being so.
NoAnswer ==
  /\ delegated' = delegated
  /\ \A n \in Nodes :
       st'[n] = st[n] \/ st[n] \notin {"pending", "skipped"} \/ st'[n] \in {"pending", "skipped"}

LEMMA AsksStands ==
  ASSUME NoAnswer, NEW n, Asks(n)
  PROVE  Asks(n)'
<1>1. n \in Nodes
  BY ExecutionAssumption DEF Asks, Undelegated
<1> QED
  BY <1>1 DEF NoAnswer, Asks, Undelegated

\* While one call moves, the others are not made yet or over.
LEMMA OthersRest ==
  ASSUME NoOverlap, NoOverlap', NEW c \in Calls, ~Rests(c) \/ ~(Rests(c)'),
         \A d \in Calls \ {c} : SameBodies(d)
  PROVE  \A d \in Calls \ {c} : Rests(d)'
  BY DEF NoOverlap, Rests, SameBodies

LEMMA OneCallQuiet ==
  ASSUME ShapeInv', NEW c \in Calls, \A d \in Calls \ {c} : Rests(d)', Quiet(c)', ParkedAsks'
  PROVE  QuietInv'
<1>1. ASSUME NEW d \in Calls \ {c}
      PROVE  Quiet(d)'
  <2>1. phase'[d] \in {"idle", "over"} /\ inflight'[d] = {}
    BY DEF Rests, ShapeInv, Shape
  <2> QED
    BY <2>1 DEF Quiet
<1> QED
  BY <1>1 DEF QuietInv

\* The parked question stands when the step touches neither it nor the job.
LEMMA ParkedStands ==
  ASSUME ParkedAsks,
         job' = "awaiting_decision" => job = "awaiting_decision" /\ asked' = asked /\ NoAnswer
  PROVE  ParkedAsks'
  BY AsksStands DEF ParkedAsks

\* A run that leaves has nothing going.
LEMMA LeftIsQuiet ==
  ASSUME NEW c \in Calls, inflight'[c] = {},
         phase'[c] \in {"release", "count", "cleanup", "over"}
  PROVE  Quiet(c)'
  BY DEF Quiet

\* Inside the loop the job is not parked, and goes on not being.
LEMMA LoopIsQuiet ==
  ASSUME NEW c \in Calls, Shape(c), Quiet(c),
         phase[c] \in {"gate", "claim", "settle", "frame", "ask", "drain", "retry", "reset"},
         phase'[c] \in {"claim", "settle", "sum", "drain", "retry", "reset"},
         \A u \in inflight'[c] : u \in inflight[c] \/ u.pc = "enter",
         job' \in {job, "executing"}
  PROVE  Quiet(c)' /\ ParkedAsks'
  BY DEF Shape, Quiet, ParkedAsks, OwnPcs

\* A body's step.
LEMMA BodyIsQuiet ==
  ASSUME ExecutionInv, ShapeInv, QuietInv, NEW c \in Calls, BodyStep(c)
  PROVE  Quiet(c)' /\ ParkedAsks'
<1>1. PICK w \in inflight[c] : \E v : BodyGoes(c, w, v)
  BY BodyGoesOn
<1>2. PICK v : BodyGoes(c, w, v)
  BY <1>1
<1>3. /\ Shape(c) /\ Quiet(c) /\ ParkedAsks
      /\ phase'[c] = phase[c] /\ target' = target /\ delegated' = delegated
      /\ inflight'[c] = (inflight[c] \ {w}) \cup {v}
  BY <1>2 DEF ShapeInv, QuietInv, BodyGoes
<1>4. phase[c] \notin {"frame", "ask"}
  BY <1>3 DEF Shape
<1>5. w.pc \in OwnPcs => inflight'[c] = {v} /\ phase[c] \in {"final", "solo"}
  BY <1>3 DEF Shape
<1>6. ASSUME NEW u \in inflight'[c], u.pc \in {"frame", "ask"}
      PROVE  Asks(u.node)'
  <2>1. CASE u = v
    <3>1. /\ v.pc = "frame" => v.node \in MustAsk
          /\ v.pc = "ask" => Asks(v.node)
          /\ w.pc \notin {"take", "work"} /\ v.pc # "claim"
      BY <1>2, <1>3, <1>6, <2>1 DEF BodyGoes, Quiet
    <3>2. st' = st
      BY <1>2, <3>1 DEF BodyGoes
    <3> QED
      BY <1>3, <1>6, <2>1, <3>1, <3>2 DEF Asks, MustAsk, Ready, Undelegated
  <2>2. CASE u # v
    <3>1. phase[c] \in {"final", "solo"} /\ u \in inflight[c] /\ u = w
      BY <1>3, <1>6, <2>2 DEF Shape, OwnPcs
    <3> QED
      BY <1>3, <2>2, <3>1
  <2> QED
    BY <2>1, <2>2
<1>7. CASE job' = job /\ job \in {"blocked", "awaiting_decision"} /\ phase[c] # "quota"
  <2>1. w.pc = "enter" /\ ~Executable
    BY <1>2, <1>3, <1>7 DEF Quiet, BodyGoes, Executable, ExecutableStatuses
  <2>2. v.pc = "ended" /\ st' = st /\ asked' = asked
    BY <1>2, <2>1 DEF BodyGoes
  <2>3. \A u \in inflight'[c] : u.pc \in {"enter", "ended"}
    BY <1>3, <1>7, <2>2 DEF Quiet
  <2>4. Quiet(c)'
    BY <1>3, <1>4, <1>6, <1>7, <2>3 DEF Quiet
  <2>5. ParkedAsks'
    BY <1>3, <1>7, <2>2, ParkedStands DEF NoAnswer
  <2> QED
    BY <2>4, <2>5
<1>8. CASE job' \notin {"blocked", "awaiting_decision"}
  BY <1>3, <1>4, <1>6, <1>8 DEF Quiet, ParkedAsks
<1>9. CASE job' = "blocked" /\ w.pc = "partial" /\ v.pc = "ended"
  BY <1>3, <1>4, <1>5, <1>6, <1>9 DEF Quiet, ParkedAsks, OwnPcs
<1>10. CASE job' = "awaiting_decision" /\ w.pc = "ask" /\ v.pc = "ended" /\ asked' = w.node
  <2>1. Asks(w.node) /\ st' = st
    BY <1>2, <1>3, <1>10 DEF Quiet, BodyGoes
  <2>2. ParkedAsks'
    BY <1>3, <1>10, <2>1 DEF ParkedAsks, Asks, Undelegated
  <2> QED
    BY <1>3, <1>4, <1>5, <1>6, <1>10, <2>2 DEF Quiet, OwnPcs
<1>11. CASE job' = job /\ phase[c] = "quota"
  BY <1>3, <1>4, <1>6, <1>11 DEF Quiet, ParkedAsks
<1> QED
  BY <1>2, <1>7, <1>8, <1>9, <1>10, <1>11 DEF BodyGoes

LEMMA LeavesIsQuiet ==
  ASSUME CallTypeOK, NEW c \in Calls, NEW r, Leaves(c, r)
  PROVE  Quiet(c)' /\ \A d \in Calls \ {c} : SameBodies(d)
<1>1. inflight'[c] = {} /\ phase'[c] \in {"release", "count", "cleanup"}
  BY DEF Leaves, Goto, Spawned, CallTypeOK
<1> QED
  BY <1>1, LeftIsQuiet DEF Leaves, Goto, CallTypeOK, SameBodies

\* What a run does on its own.
LEMMA RunIsQuiet ==
  ASSUME ExecutionInv, ShapeInv, QuietInv, NEW c \in Calls, RunStep(c)
  PROVE  Quiet(c)' /\ ParkedAsks'
<1>1. CallTypeOK /\ DagTypeOK /\ Shape(c) /\ Quiet(c) /\ ParkedAsks
  BY DEF ExecutionInv, TypeOK, ShapeInv, QuietInv
<1>2. ASSUME NEW r, Leaves(c, r), UNCHANGED <<jobVars, nodeVars>>
      PROVE  Quiet(c)' /\ ParkedAsks'
  BY <1>1, <1>2, LeavesIsQuiet, ParkedStands DEF NoAnswer, jobVars, nodeVars
<1>3. ASSUME NEW p \in {"claim", "sum", "drain", "settle", "retry", "reset"}, Goto(c, p),
             phase[c] \in {"gate", "claim", "settle", "frame", "ask", "drain", "retry", "reset"},
             \A u \in inflight'[c] : u \in inflight[c] \/ u.pc = "enter",
             job' \in {job, "executing"}
      PROVE  Quiet(c)' /\ ParkedAsks'
  <2>1. phase'[c] = p
    BY <1>1, <1>3 DEF Goto, CallTypeOK
  <2> QED
    BY <1>1, <1>3, <2>1, LoopIsQuiet
<1>4. CASE Validate(c)
  <2>1. CASE Goto(c, "claim") /\ inflight' = inflight
    BY <1>3, <1>4, <2>1 DEF Validate, jobVars
  <2> QED
    BY <1>2, <1>4, <2>1 DEF Validate
<1>5. CASE ClaimFrontier(c)
  <2>1. \E S : /\ phase[c] = "claim" /\ job' = job
               /\ inflight' = [inflight EXCEPT ![c] = @ \cup
                    { [node |-> n, claim |-> claims[n] + 1, pc |-> "enter", res |-> "none"] : n \in S }]
               /\ (Goto(c, "settle") \/ Goto(c, "drain"))
    BY <1>5 DEF ClaimFrontier, jobVars
  <2>2. \A u \in inflight'[c] : u \in inflight[c] \/ u.pc = "enter"
    BY <1>1, <2>1 DEF CallTypeOK
  <2> QED
    BY <1>3, <2>1, <2>2
<1>6. CASE Settle(c)
  <2>1. CASE MustAsk = {}
    BY <1>3, <1>6, <2>1 DEF Settle, jobVars
  <2>2. CASE MustAsk # {}
    <3>1. First(MustAsk) \in MustAsk
      BY <2>2, FirstIsIn DEF MustAsk, Ready
    <3>2. /\ phase'[c] = "frame" /\ target'[c] = First(MustAsk) /\ inflight'[c] = {}
          /\ phase[c] = "settle" /\ st' = st /\ job' = job /\ delegated' = delegated
      BY <1>1, <1>6, <2>2 DEF Settle, Goto, Shape, CallTypeOK, jobVars, nodeVars
    <3>3. Asks(target[c])'
      BY <3>1, <3>2 DEF Asks, MustAsk, Ready, Undelegated
    <3> QED
      BY <1>1, <3>2, <3>3 DEF Quiet, ParkedAsks
  <2> QED
    BY <2>1, <2>2
<1>14. CASE Recheck(c)
  <2>1. /\ phase[c] = "frame" /\ inflight' = inflight /\ inflight[c] = {} /\ target' = target
        /\ UNCHANGED <<jobVars, nodeVars>>
    BY <1>1, <1>14 DEF Recheck, Shape
  <2>2. CASE Goto(c, "ask")
    <3>1. phase'[c] = "ask" /\ Asks(target[c]) /\ job # "awaiting_decision"
      BY <1>1, <2>1, <2>2 DEF Goto, CallTypeOK, Quiet
    <3> QED
      BY <2>1, <3>1 DEF Quiet, ParkedAsks, Asks, Undelegated, jobVars, nodeVars
  <2>3. CASE Goto(c, "settle") \/ Goto(c, "sum")
    BY <1>3, <2>1, <2>3 DEF jobVars
  <2> QED
    BY <1>14, <2>2, <2>3 DEF Recheck
<1>7. CASE Park(c)
  <2>1. CASE job \in {"running", "executing"}
    <3>1. /\ Leaves(c, "clean") /\ asked' = target[c] /\ phase[c] = "ask"
          /\ st' = st /\ delegated' = delegated
      BY <1>7, <2>1 DEF Park, MayMoveFrom, nodeVars
    <3>2. Asks(target[c])
      BY <1>1, <3>1 DEF Quiet
    <3> QED
      BY <1>1, <3>1, <3>2, LeavesIsQuiet DEF ParkedAsks, Asks, Undelegated
  <2>2. CASE job \notin {"running", "executing"}
    BY <1>3, <1>7, <2>2 DEF Park, MayMoveFrom
  <2> QED
    BY <2>1, <2>2
<1>8. CASE Sum(c)
  <2>1. CASE AllDone
    BY <1>2, <1>8, <2>1 DEF Sum
  <2>2. CASE ~AllDone
    <3>1. /\ phase[c] = "sum" /\ phase'[c] = "final" /\ inflight'[c] = {FreshCall}
          /\ job' = job
      BY <1>1, <1>8, <2>2 DEF Sum, Goto, CallTypeOK, jobVars
    <3> QED
      BY <1>1, <3>1 DEF Quiet, ParkedAsks, FreshCall
  <2> QED
    BY <2>1, <2>2
<1>9. CASE FinalReturns(c) \/ DrainBudget(c) \/ QuotaStops(c)
  BY <1>2, <1>9 DEF FinalReturns, DrainBudget, QuotaStops
<1>10. CASE Drain(c) \/ Keepalive(c)
  <2>1. /\ inflight'[c] \subseteq inflight[c] /\ phase[c] = "drain" /\ job' = job
        /\ (Goto(c, "claim") \/ Goto(c, "retry"))
    BY <1>1, <1>10 DEF Drain, Keepalive, Live, CallTypeOK, jobVars
  <2> QED
    BY <1>3, <2>1
<1>11. CASE AutoRetryReads(c) \/ AutoRetryResets(c)
  <2>1. /\ inflight' = inflight /\ phase[c] \in {"retry", "reset"} /\ job' \in {job, "executing"}
        /\ (Goto(c, "claim") \/ Goto(c, "reset"))
    BY <1>11 DEF AutoRetryReads, AutoRetryResets, Resets, jobVars
  <2> QED
    BY <1>3, <2>1
<1>12. CASE Release(c) \/ Count(c) \/ Cleanup(c)
  <2>1. inflight'[c] = {} /\ phase'[c] \in {"count", "cleanup", "over"}
    BY <1>1, <1>12 DEF Release, Count, Cleanup, Shape, Goto, Spawned, CallTypeOK
  <2>2. job' = "awaiting_decision" => job = "awaiting_decision" /\ asked' = asked /\ NoAnswer
    BY <1>1, <1>12 DEF Release, Count, Cleanup, MayMoveFrom, NoAnswer, jobVars, nodeVars, DagTypeOK
  <2> QED
    BY <1>1, <2>1, <2>2, LeftIsQuiet, ParkedStands
<1>13. CASE SoloReturns(c)
  <2>1. /\ inflight'[c] = {} /\ phase'[c] = "over" /\ UNCHANGED <<jobVars, nodeVars>>
    BY <1>1, <1>13 DEF SoloReturns, Goto, CallTypeOK
  <2> QED
    BY <1>1, <2>1, LeftIsQuiet, ParkedStands DEF NoAnswer, jobVars, nodeVars
<1> QED
  BY <1>4, <1>5, <1>6, <1>7, <1>8, <1>9, <1>10, <1>11, <1>12, <1>13, <1>14 DEF RunStep

\* A call's step leaves the other calls alone, and the call is not resting
\* before it or not after it.
LEMMA CallMovesAlone ==
  ASSUME ExecutionInv, ShapeInv, NEW c \in Calls,
         Admit(c) \/ Solo(c) \/ RunStep(c) \/ BodyStep(c) \/ RunUpset(c)
  PROVE  /\ \A d \in Calls \ {c} : SameBodies(d)
         /\ ~Rests(c) \/ ~(Rests(c)')
<1>1. CallTypeOK
  BY DEF ExecutionInv, TypeOK
<1>2. CASE BodyStep(c)
  <2>1. PICK w \in inflight[c] : \E v : BodyGoes(c, w, v)
    BY <1>2, BodyGoesOn
  <2>2. ~Rests(c)
    BY <2>1 DEF Rests, ShapeInv, Shape
  <2> QED
    BY <2>1, <2>2 DEF BodyGoes, SameBodies
<1>3. CASE Admit(c) \/ Solo(c)
  BY <1>1, <1>3 DEF Admit, Solo, Goto, CallTypeOK, SameBodies, Rests
<1>4. CASE RunUpset(c)
  <2>1. \/ \E r : Leaves(c, r)
        \/ (\E p : Goto(c, p)) /\ \A d \in Calls \ {c} : inflight'[d] = inflight[d]
        \/ phase' = phase /\ inflight' = inflight
    BY <1>1, <1>4 DEF RunUpset, HandsOnGate, RunFails, LookFails, Reread, DrainQuota, Disconnect, CallTypeOK
  <2>2. ~Rests(c)
    BY <1>4 DEF RunUpset, HandsOnGate, RunFails, LookFails, Reread, DrainQuota, Disconnect, InLoop, Rests
  <2>3. ASSUME NEW p, Goto(c, p), \A d \in Calls \ {c} : inflight'[d] = inflight[d]
        PROVE  \A d \in Calls \ {c} : SameBodies(d)
    BY <1>1, <2>3 DEF Goto, CallTypeOK, SameBodies
  <2>4. phase' = phase /\ inflight' = inflight => \A d \in Calls \ {c} : SameBodies(d)
    BY DEF SameBodies
  <2> QED
    BY <1>1, <2>1, <2>2, <2>3, <2>4, LeavesIsQuiet
<1>5. CASE RunStep(c)
  <2>1. ~Rests(c)
    BY <1>5 DEF RunStep, Validate, ClaimFrontier, Settle, Recheck, Park, Sum, FinalReturns, Drain, Keepalive,
                DrainBudget, QuotaStops, AutoRetryReads, AutoRetryResets, Release, Count, Cleanup, SoloReturns, Rests
  <2>2. \/ \E r : Leaves(c, r)
        \/ (\E p : Goto(c, p)) /\ \A d \in Calls \ {c} : inflight'[d] = inflight[d]
    BY <1>1, <1>5
       DEF RunStep, Validate, ClaimFrontier, Settle, Recheck, Park, Sum, FinalReturns, Drain, Keepalive,
           DrainBudget, QuotaStops, AutoRetryReads, AutoRetryResets, Release, Count, Cleanup, SoloReturns, CallTypeOK
  <2>3. ASSUME NEW p, Goto(c, p), \A d \in Calls \ {c} : inflight'[d] = inflight[d]
        PROVE  \A d \in Calls \ {c} : SameBodies(d)
    BY <1>1, <2>3 DEF Goto, CallTypeOK, SameBodies
  <2> QED
    BY <1>1, <2>1, <2>2, <2>3, LeavesIsQuiet
<1> QED
  BY <1>2, <1>3, <1>4, <1>5

LEMMA CallIsQuiet ==
  ASSUME ExecutionInv, ShapeInv, ShapeInv', QuietInv, NoOverlap, NoOverlap', CallNext
  PROVE  QuietInv'
<1>1. PICK c \in Calls : Admit(c) \/ Solo(c) \/ RunStep(c) \/ BodyStep(c) \/ RunUpset(c)
  BY DEF CallNext
<1>2. \A d \in Calls \ {c} : Rests(d)'
  BY <1>1, CallMovesAlone, OthersRest
<1>3. CallTypeOK /\ Shape(c) /\ Quiet(c) /\ ParkedAsks
  BY DEF ExecutionInv, TypeOK, ShapeInv, QuietInv
<1>4. CASE Admit(c)
  <2>1. phase'[c] = "gate" /\ inflight'[c] = {} /\ job' = "running"
    BY <1>3, <1>4 DEF Admit, Goto, Shape, CallTypeOK
  <2>2. Quiet(c)' /\ ParkedAsks'
    BY <2>1 DEF Quiet, ParkedAsks
  <2> QED
    BY <1>2, <2>2, OneCallQuiet
<1>5. CASE Solo(c)
  <2>1. phase'[c] = "solo" /\ inflight'[c] = {FreshCall} /\ UNCHANGED <<jobVars, nodeVars>>
    BY <1>3, <1>5 DEF Solo, Goto, CallTypeOK
  <2>2. Quiet(c)'
    BY <2>1 DEF Quiet, FreshCall
  <2>3. ParkedAsks'
    BY <1>3, <2>1, ParkedStands DEF NoAnswer, jobVars, nodeVars
  <2> QED
    BY <1>2, <2>2, <2>3, OneCallQuiet
<1>6. CASE RunUpset(c)
  <2>1. CASE \E r : Leaves(c, r) /\ (HandsOnGate(c) \/ RunFails(c) \/ Disconnect(c))
    <3>1. Quiet(c)'
      BY <1>3, <2>1, LeavesIsQuiet
    <3>2. job' = "awaiting_decision" => job = "awaiting_decision" /\ asked' = asked /\ NoAnswer
      BY <2>1 DEF HandsOnGate, RunFails, Disconnect, NoAnswer, jobVars, nodeVars
    <3> QED
      BY <1>2, <1>3, <3>1, <3>2, ParkedStands, OneCallQuiet
  <2>2. CASE LookFails(c) \/ Reread(c)
    <3>1. /\ phase[c] \in {"settle", "frame"} /\ phase'[c] \in {"sum", "claim"}
          /\ inflight' = inflight /\ job' = job
      BY <1>3, <2>2 DEF LookFails, Reread, Goto, CallTypeOK, jobVars
    <3>2. Quiet(c)' /\ ParkedAsks'
      BY <1>3, <3>1, LoopIsQuiet
    <3> QED
      BY <1>2, <3>2, OneCallQuiet
  <2>3. CASE DrainQuota(c)
    <3>1. /\ phase[c] = "drain" /\ phase'[c] = "quota" /\ job' \in {job, "blocked"}
          /\ inflight'[c] \subseteq inflight[c]
      BY <1>3, <2>3 DEF DrainQuota, Live, Goto, CallTypeOK
    <3>2. Quiet(c)' /\ ParkedAsks'
      BY <1>3, <3>1 DEF Quiet, ParkedAsks, Shape, OwnPcs
    <3> QED
      BY <1>2, <3>2, OneCallQuiet
  <2>4. CASE Disconnect(c) /\ phase[c] = "release" /\ phase' = phase /\ inflight' = inflight /\ target' = target
    <3>1. inflight'[c] = {} /\ phase'[c] = "release"
      BY <1>3, <2>4 DEF Shape
    <3>2. job' = "awaiting_decision" => job = "awaiting_decision" /\ asked' = asked /\ NoAnswer
      BY <2>4 DEF Disconnect, NoAnswer, jobVars, nodeVars
    <3> QED
      BY <1>2, <1>3, <3>1, <3>2, LeftIsQuiet, ParkedStands, OneCallQuiet
  <2> QED
    BY <1>6, <2>1, <2>2, <2>3, <2>4 DEF RunUpset, HandsOnGate, RunFails, Disconnect
<1>7. CASE RunStep(c) \/ BodyStep(c)
  BY <1>2, <1>7, RunIsQuiet, BodyIsQuiet, OneCallQuiet
<1> QED
  BY <1>1, <1>4, <1>5, <1>6, <1>7

\* Whatever happens beside the calls: only the operator's own answer touches a
\* question, and it puts the job back to executing.
LEMMA OutsideIsQuiet ==
  ASSUME ExecutionInv, QuietInv, StepNext \/ JobNext \/ UNCHANGED vars
  PROVE  QuietInv'
<1>1. DagTypeOK
  BY DEF ExecutionInv, TypeOK
<1>2. phase' = phase /\ inflight' = inflight /\ target' = target
  BY DEF StepNext, JobNext, OperatorRetryReads, Skip, Reset, ReapOrphan, ReapSlow, OperatorRetryResets,
         CancelJob, Resume, Decide, Reask, ReapStaleJob, vars, callVars
<1>3. ASSUME NoAnswer, job' = "awaiting_decision" => job' = job /\ asked' = asked,
             job' = "blocked" => job \in {"blocked", "awaiting_decision"}
      PROVE  QuietInv'
  <2>1. ParkedAsks'
    BY <1>3, ParkedStands DEF QuietInv
  <2>2. \A c \in Calls : Quiet(c)'
    BY <1>2, <1>3, AsksStands DEF QuietInv, Quiet
  <2> QED
    BY <2>1, <2>2 DEF QuietInv
<1>4. CASE Decide
  <2>1. job = "awaiting_decision" /\ job' = "executing"
    BY <1>4 DEF Decide
  <2>2. \A c \in Calls : 
          phase[c] \notin {"frame", "ask"} /\ \A w \in inflight[c] : w.pc \notin {"frame", "ask"}
    BY <2>1 DEF QuietInv, Quiet
  <2> QED
    BY <1>2, <2>1, <2>2 DEF QuietInv, Quiet, ParkedAsks
<1>8. ASSUME NEW n \in Nodes, Reset(n)
      PROVE  QuietInv'
  <2>1. NoAnswer
    BY <1>1, <1>8 DEF Reset, PutBack, NoAnswer, DagTypeOK
  <2>2. /\ job' = "awaiting_decision" => job' = job /\ asked' = asked
        /\ job' = "blocked" => job \in {"blocked", "awaiting_decision"}
    BY <1>8 DEF Reset
  <2> QED
    BY <1>3, <2>1, <2>2
<1>5. CASE StepNext /\ \A n \in Nodes : ~Reset(n)
  <2>1. NoAnswer /\ job' = job /\ asked' = asked
    BY <1>1, <1>5 DEF StepNext, OperatorRetryReads, Skip, ReapOrphan, ReapSlow, Reap, NoAnswer, jobVars,
                      nodeVars, DagTypeOK
  <2> QED
    BY <1>3, <2>1
<1>6. CASE OperatorRetryResets
  <2>1. NoAnswer
    BY <1>1, <1>6 DEF OperatorRetryResets, Resets, NoAnswer, DagTypeOK
  <2>2. asked' = asked /\ job' \in {job, "executing"}
    BY <1>6 DEF OperatorRetryResets, Resets
  <2> QED
    BY <1>3, <2>1, <2>2
<1>7. CASE CancelJob \/ Resume \/ Reask \/ ReapStaleJob \/ UNCHANGED vars
  <2>1. NoAnswer
    BY <1>7 DEF CancelJob, Resume, Reask, ReapStaleJob, vars, NoAnswer, jobVars, nodeVars
  <2>2. job' \in {"blocked", "awaiting_decision"} => job' = job /\ asked' = asked
    BY <1>7 DEF CancelJob, Resume, Reask, ReapStaleJob, vars, jobVars
  <2> QED
    BY <1>3, <2>1, <2>2
<1> QED
  BY <1>4, <1>5, <1>6, <1>7, <1>8 DEF JobNext

LEMMA InitAlone == Init => ShapeInv /\ QuietInv
<1> SUFFICES ASSUME Init PROVE ShapeInv /\ QuietInv
  OBVIOUS
<1>1. job = "executing" /\ \A c \in Calls : phase[c] = "idle" /\ inflight[c] = {}
  BY DEF Init, DagInit
<1> QED
  BY <1>1 DEF ShapeInv, Shape, QuietInv, Quiet, ParkedAsks

\* When calls do not overlap, what the job's status says of its bodies and of its
\* question stays true, whatever else happens.
THEOREM AloneIsQuiet == Spec /\ []NoOverlap => [](ShapeInv /\ QuietInv)
<1>1. Init => ShapeInv /\ QuietInv
  BY InitAlone
<1>2. /\ ExecutionInv /\ ShapeInv /\ QuietInv /\ NoOverlap /\ NoOverlap' /\ [Next]_vars
      => (ShapeInv /\ QuietInv)'
  BY NextShapes, CallIsQuiet, OutsideIsQuiet DEF Next
<1> QED
  BY ExecutionSafety, <1>1, <1>2, PTL DEF Spec

\* Whoever blocks the job (the terminal call, the hands-on gate, a reset of the parked
\* step) has no body at work, and none goes to work before the job is reopened; only
\* the run that hit the account's limit has, until it returns.
THEOREM BlockedMeansQuiet == Spec /\ []NoOverlap => []BlockedIsQuiet
<1>1. QuietInv => BlockedIsQuiet
  BY DEF QuietInv, Quiet, BlockedIsQuiet
<1> QED
  BY AloneIsQuiet, <1>1, PTL

\* The parked job asks about a step that can still be answered: whatever is put back
\* meanwhile, only its reopenable dependencies can be open again.
THEOREM ParkedMeansAnswerable == Spec /\ []NoOverlap => []ParkedIsAnswerable
<1>1. ExecutionInv /\ QuietInv => ParkedIsAnswerable
  BY DEF ExecutionInv, StoredRemembers, QuietInv, ParkedAsks, Asks, ParkedIsAnswerable
<1> QED
  BY ExecutionSafety, AloneIsQuiet, <1>1, PTL

-----------------------------------------------------------------------------
(* Who works on a step when no two calls overlap.  Skips, retries, lost workers *)
(* and stale tests do no harm then; the reaper that takes a slow body's step    *)
(* back by its age and a reset of a step that is being worked on still do.      *)

NotTaken == Events \cap {"slow_reap", "reset"} = {}

\* A body with a step it has not written yet holds the step's current claim, the
\* step is running or was skipped meanwhile, and no other body of the call has it.
Busy(w) == w.pc \in {"enter", "work"} /\ w.node # NoStep
Holds(w) ==
  /\ w.node \in Nodes /\ w.claim = claims[w.node]
  /\ st[w.node] \in {"running", "skipped"}
HeldBy(c) ==
  /\ \A w \in inflight[c] : Busy(w) => Holds(w)
  /\ \A v, w \in inflight[c] : Busy(v) /\ Busy(w) /\ v.node = w.node => v = w
HeldInv == \A c \in Calls : HeldBy(c)

\* A step that claims nothing and takes no busy body's step back.
StaysHeld(c) ==
  /\ claims' = claims
  /\ \A w \in inflight[c] : Busy(w) => st'[w.node] = st[w.node] \/ st'[w.node] = "skipped"

LEMMA DropsStayHeld ==
  ASSUME NEW c \in Calls, HeldBy(c), StaysHeld(c),
         \A u \in inflight'[c] : u \in inflight[c] \/ ~Busy(u)
  PROVE  HeldBy(c)'
  BY DEF HeldBy, Holds, StaysHeld

\* Only one call has bodies.
LEMMA OneCallHolds ==
  ASSUME ShapeInv', NEW c \in Calls, \A d \in Calls \ {c} : Rests(d)', HeldBy(c)'
  PROVE  HeldInv'
  BY DEF HeldInv, HeldBy, ShapeInv, Shape, Rests

\* A body's step that claims nothing: it writes at most its own step.
LEMMA BodyStaysHeld ==
  ASSUME NEW c \in Calls, HeldBy(c), NEW w \in inflight[c], NEW v,
         inflight'[c] = (inflight[c] \ {w}) \cup {v}, claims' = claims,
         \A n \in Nodes : st'[n] = st[n] \/ (n = w.node /\ w.pc = "work"),
         Busy(v) => w.pc = "enter" /\ v.node = w.node /\ v.claim = w.claim
  PROVE  HeldBy(c)'
<1>1. ASSUME NEW u \in inflight[c] \ {w}, Busy(u)
      PROVE  /\ Holds(u)'
             /\ Busy(v) => u.node # v.node
  <2>1. Holds(u) /\ u.node \in Nodes
    BY <1>1 DEF HeldBy, Holds
  <2>2. Busy(w) => u.node # w.node
    BY <1>1 DEF HeldBy
  <2>3. st'[u.node] = st[u.node]
    BY <1>1, <2>1, <2>2 DEF Busy
  <2>4. Busy(v) => Busy(w)
    BY DEF Busy
  <2> QED
    BY <2>1, <2>2, <2>3, <2>4 DEF Holds
<1>2. Busy(v) => Holds(v)'
  <2> SUFFICES ASSUME Busy(v) PROVE Holds(v)'
    OBVIOUS
  <2>1. Busy(w) /\ w.pc = "enter"
    BY DEF Busy
  <2>2. Holds(w)
    BY <2>1 DEF HeldBy
  <2>3. st'[w.node] = st[w.node]
    BY <2>1, <2>2 DEF Holds
  <2> QED
    BY <2>2, <2>3 DEF Holds
<1>3. \A u \in inflight'[c] : Busy(u) => Holds(u)'
  BY <1>1, <1>2
<1>4. \A t, u \in inflight'[c] : Busy(t) /\ Busy(u) /\ t.node = u.node => t = u
  BY <1>1 DEF HeldBy
<1> QED
  BY <1>3, <1>4 DEF HeldBy

LEMMA BodyHolds ==
  ASSUME ExecutionInv, ShapeInv, NEW c \in Calls, HeldBy(c), BodyStep(c)
  PROVE  HeldBy(c)'
<1>1. /\ CallTypeOK /\ StoredTypeOK /\ DagTypeOK /\ Shape(c)
      /\ \A w \in inflight[c] : BodyRemembers(w)
  BY DEF ExecutionInv, TypeOK, ShapeInv
<1>2. PICK w \in inflight[c] :
        \/ Enter(c, w) \/ PeekFails(c, w) \/ OverBudget(c, w)
        \/ RereadAlone(c, w) \/ RecheckAlone(c, w) \/ ParkAlone(c, w)
        \/ Pick(c, w) \/ Take(c, w)
        \/ Persist(c, w, "done") \/ Persist(c, w, "failed")
        \/ GivesUp(c, w) \/ Shortcut(c, w) \/ WorkerError(c, w)
        \/ Finish(c, w) \/ Compile(c, w) \/ Partial(c, w)
  BY DEF BodyStep
<1>3. w \in Body
  BY <1>1 DEF CallTypeOK
<1>4. ASSUME NEW v, Steps(c, w, v)
      PROVE  inflight'[c] = (inflight[c] \ {w}) \cup {v}
  BY <1>1, <1>4 DEF Steps, CallTypeOK
<1>5. ASSUME NEW s, Puts(c, w, s), claims' = claims,
             \A n \in Nodes : st'[n] = st[n] \/ (n = w.node /\ w.pc = "work")
      PROVE  HeldBy(c)'
  <2> PICK v : v = [w EXCEPT !.pc = "ended"]
    OBVIOUS
  <2>1. v.pc = "ended" /\ Steps(c, w, v)
    BY <1>3, <1>5 DEF Body, Puts
  <2> QED
    BY <1>4, <1>5, <2>1, BodyStaysHeld DEF Busy
<1>6. ASSUME NEW p \in {"work", "claim", "ask", "tail", "compile"}, GoesTo(c, w, p),
             claims' = claims, st' = st, p = "work" => w.pc = "enter"
      PROVE  HeldBy(c)'
  <2> PICK v : v = [w EXCEPT !.pc = p]
    OBVIOUS
  <2>1. v.pc = p /\ v.node = w.node /\ v.claim = w.claim /\ Steps(c, w, v)
    BY <1>3, <1>6 DEF Body, GoesTo
  <2> QED
    BY <1>4, <1>6, <2>1, BodyStaysHeld, ZenonT(40) DEF Busy
<1>7. ASSUME NEW v, Steps(c, w, v), v.pc \notin {"enter", "work"}, claims' = claims,
             \A n \in Nodes : st'[n] = st[n] \/ (n = w.node /\ w.pc = "work")
      PROVE  HeldBy(c)'
  BY <1>4, <1>7, BodyStaysHeld DEF Busy
<1>15. ASSUME ClaimsInstead(c, w), st' = st, claims' = claims
       PROVE  HeldBy(c)'
  <2> PICK v : v = [w EXCEPT !.pc = "claim", !.node = NoStep]
    OBVIOUS
  <2>1. v.pc = "claim"
    BY <1>3 DEF Body
  <2>2. Steps(c, w, v)
    BY <1>15 DEF ClaimsInstead
  <2> QED
    BY <1>7, <1>15, <2>1, <2>2
<1>8. CASE Enter(c, w)
  <2>1. w.pc = "enter" /\ st' = st /\ claims' = claims
    BY <1>8 DEF Enter, At, nodeVars
  <2>2. CASE Steps(c, w, [w EXCEPT !.pc = "frame", !.node = First(MustAsk)])
    <3> PICK v : v = [w EXCEPT !.pc = "frame", !.node = First(MustAsk)]
      OBVIOUS
    <3>1. v.pc = "frame"
      BY <1>3 DEF Body
    <3> QED
      BY <1>7, <2>1, <2>2, <3>1
  <2> QED
    BY <1>5, <1>6, <1>8, <2>1, <2>2 DEF Enter
<1>9. CASE OverBudget(c, w) \/ Compile(c, w) \/ Partial(c, w) \/ WorkerError(c, w)
  <2>1. (\E s : Puts(c, w, s)) /\ st' = st /\ claims' = claims
    BY <1>9 DEF OverBudget, Compile, Partial, WorkerError, nodeVars
  <2> QED
    BY <1>5, <2>1
<1>10. CASE GivesUp(c, w) \/ Shortcut(c, w)
  <2>1. PICK s : EndsAtOnce(c, w, s)
    BY <1>10 DEF GivesUp, Shortcut
  <2>2. \A n \in Nodes : st'[n] = st[n] \/ (n = w.node /\ w.pc = "work")
    BY <1>1, <2>1 DEF EndsAtOnce, At, DagTypeOK
  <2> QED
    BY <1>5, <2>1, <2>2 DEF EndsAtOnce
<1>11. CASE ParkAlone(c, w)
  <2>1. st' = st /\ claims' = claims
    BY <1>11 DEF ParkAlone, nodeVars
  <2> QED
    BY <1>5, <1>11, <1>15, <2>1 DEF ParkAlone
<1>16. CASE PeekFails(c, w)
  BY <1>6, <1>16 DEF PeekFails, nodeVars
<1>17. CASE RereadAlone(c, w)
  <2> PICK v : v = [w EXCEPT !.pc = "claim", !.node = NoStep]
    OBVIOUS
  <2>1. v.pc = "claim"
    BY <1>3 DEF Body
  <2>2. Steps(c, w, v) /\ w.pc = "frame"
    BY <1>17 DEF RereadAlone, ClaimsInstead, At
  <2>3. inflight'[c] = {v}
    BY <1>1, <1>4, <2>2 DEF Shape, OwnPcs
  <2> QED
    BY <2>1, <2>3 DEF HeldBy, Busy
<1>18. CASE RecheckAlone(c, w)
  <2>1. st' = st /\ claims' = claims /\ w.pc = "frame"
    BY <1>18 DEF RecheckAlone, At, nodeVars
  <2>2. CASE Steps(c, w, [w EXCEPT !.node = First(MustAsk)])
    <3> PICK v : v = [w EXCEPT !.node = First(MustAsk)]
      OBVIOUS
    <3>1. v.pc = "frame"
      BY <1>3, <2>1 DEF Body
    <3> QED
      BY <1>7, <2>1, <2>2, <3>1
  <2> QED
    BY <1>6, <1>15, <1>18, <2>1, <2>2 DEF RecheckAlone
<1>19. CASE Pick(c, w)
  <2>1. st' = st /\ claims' = claims
    BY <1>19 DEF Pick, nodeVars
  <2>2. CASE Steps(c, w, [w EXCEPT !.node = First(Ready), !.pc = "take"])
    <3> PICK v : v = [w EXCEPT !.node = First(Ready), !.pc = "take"]
      OBVIOUS
    <3>1. v.pc = "take"
      BY <1>3 DEF Body
    <3> QED
      BY <1>7, <2>1, <2>2, <3>1
  <2> QED
    BY <1>6, <1>19, <2>1, <2>2 DEF Pick
<1>12. CASE Take(c, w)
  <2>1. CASE st[w.node] # "pending"
    <3> PICK v : v = [w EXCEPT !.pc = "tail", !.node = NoStep]
      OBVIOUS
    <3>1. v.pc = "tail"
      BY <1>3 DEF Body
    <3>2. Steps(c, w, v) /\ st' = st /\ claims' = claims
      BY <1>12, <2>1 DEF Take
    <3> QED
      BY <1>7, <3>1, <3>2
  <2>2. CASE st[w.node] = "pending"
    <3>1. PICK n \in Nodes : n = w.node
      BY <1>1, <1>12 DEF Take, At, BodyRemembers
    <3> PICK v : v = [w EXCEPT !.claim = claims[n] + 1, !.pc = "work"]
      OBVIOUS
    <3>2. v.node = n /\ v.claim = claims[n] + 1
      BY <1>3, <3>1 DEF Body
    <3>3. /\ Steps(c, w, v) /\ w.pc = "take"
          /\ st' = [st EXCEPT ![n] = "running"] /\ claims' = [claims EXCEPT ![n] = @ + 1]
      BY <1>12, <2>2, <3>1 DEF Take, At
    <3>4. inflight'[c] = {v}
      BY <1>1, <1>4, <3>3 DEF Shape, OwnPcs
    <3>5. Holds(v)'
      BY <1>1, <3>2, <3>3 DEF Holds, DagTypeOK, StoredTypeOK
    <3> QED
      BY <3>4, <3>5 DEF HeldBy
  <2> QED
    BY <2>1, <2>2
<1>13. ASSUME NEW s \in {"done", "failed"}, Persist(c, w, s)
       PROVE  HeldBy(c)'
  <2>1. /\ claims' = claims
        /\ \A n \in Nodes : st'[n] = st[n] \/ (n = w.node /\ w.pc = "work")
    BY <1>1, <1>13 DEF Persist, At, DagTypeOK
  <2>2. CASE Steps(c, w, [w EXCEPT !.pc = "tail", !.res = s])
    <3> PICK v : v = [w EXCEPT !.pc = "tail", !.res = s]
      OBVIOUS
    <3>1. v.pc = "tail"
      BY <1>3 DEF Body
    <3> QED
      BY <1>7, <2>1, <2>2, <3>1
  <2> QED
    BY <1>5, <1>13, <2>1, <2>2 DEF Persist
<1>14. CASE Finish(c, w)
  <2>1. st' = st /\ claims' = claims
    BY <1>14 DEF Finish, nodeVars
  <2>2. CASE Steps(c, w, [w EXCEPT !.pc = "partial", !.res = IF output = "none" THEN "fresh" ELSE "cached"])
    <3> PICK s : s = IF output = "none" THEN "fresh" ELSE "cached"
      OBVIOUS
    <3> PICK v : v = [w EXCEPT !.pc = "partial", !.res = s]
      OBVIOUS
    <3>1. v.pc = "partial"
      BY <1>3 DEF Body
    <3> QED
      BY <1>7, <2>1, <2>2, <3>1
  <2> QED
    BY <1>5, <1>6, <1>14, <2>1, <2>2 DEF Finish
<1> QED
  BY <1>2, <1>8, <1>9, <1>10, <1>11, <1>12, <1>13, <1>14, <1>16, <1>17, <1>18, <1>19

\* The frontier claims pending steps, which no busy body has.
LEMMA ClaimFrontierHolds ==
  ASSUME ExecutionInv, NEW c \in Calls, HeldBy(c), ClaimFrontier(c)
  PROVE  HeldBy(c)'
<1>1. CallTypeOK /\ StoredTypeOK /\ DagTypeOK
  BY DEF ExecutionInv, TypeOK
<1>2. PICK S : S = FirstOf(Claimable, IF Cardinality(inflight[c]) < Cap
                                        THEN Cap - Cardinality(inflight[c]) ELSE 0)
  OBVIOUS
<1>3. PICK started :
        started = { [node |-> n, claim |-> claims[n] + 1, pc |-> "enter", res |-> "none"] : n \in S }
  OBVIOUS
<1>4. /\ st' = [n \in Nodes |-> IF n \in S THEN "running" ELSE st[n]]
      /\ claims' = [n \in Nodes |-> IF n \in S THEN claims[n] + 1 ELSE claims[n]]
      /\ inflight' = [inflight EXCEPT ![c] = @ \cup started]
  BY <1>2, <1>3 DEF ClaimFrontier
<1>5. S \subseteq Nodes /\ \A n \in S : st[n] = "pending"
  BY <1>2 DEF FirstOf, Claimable, Ready
<1>6. \A v \in started : v.node \in S /\ v.claim = claims[v.node] + 1
  BY <1>3
<1>7. \A v, w \in started : v.node = w.node => v = w
  BY <1>3
<1>8. inflight'[c] = inflight[c] \cup started
  BY <1>1, <1>4 DEF CallTypeOK
<1>9. \A v \in started : Holds(v)'
  BY <1>4, <1>5, <1>6 DEF Holds
<1>10. ASSUME NEW w \in inflight[c], Busy(w)
       PROVE  Holds(w)' /\ w.node \notin S
  <2>1. Holds(w)
    BY <1>10 DEF HeldBy
  <2> QED
    BY <1>4, <1>5, <2>1 DEF Holds
<1> QED
  BY <1>6, <1>7, <1>8, <1>9, <1>10 DEF HeldBy

\* The other steps of a call start no work and take no step back but a failed one
\* or, with no body left, a running one.
LEMMA CallHolds ==
  ASSUME ExecutionInv, ShapeInv, NEW c \in Calls, HeldBy(c),
         Admit(c) \/ Solo(c) \/ RunStep(c) \/ BodyStep(c) \/ RunUpset(c)
  PROVE  HeldBy(c)'
<1>1. CallTypeOK /\ DagTypeOK /\ Shape(c)
  BY DEF ExecutionInv, TypeOK, ShapeInv
<1>2. ~Busy(FreshCall)
  BY DEF Busy, FreshCall
<1>3. ASSUME inflight'[c] \subseteq {FreshCall}
      PROVE  HeldBy(c)'
  BY <1>2, <1>3 DEF HeldBy
<1>4. ASSUME NEW r, Leaves(c, r)
      PROVE  HeldBy(c)'
  <2>1. inflight'[c] = {}
    BY <1>1, <1>4 DEF Leaves, CallTypeOK
  <2> QED
    BY <1>3, <2>1
<1>5. CASE Admit(c) \/ Solo(c) \/ SoloReturns(c) \/ Release(c) \/ Count(c) \/ Cleanup(c) \/ Settle(c)
            \/ Recheck(c) \/ LookFails(c) \/ Reread(c)
  <2>1. inflight'[c] \subseteq {FreshCall}
    BY <1>1, <1>5 DEF Admit, Solo, SoloReturns, Release, Count, Cleanup, Settle, Recheck, LookFails, Reread,
                      Shape, CallTypeOK
  <2> QED
    BY <1>3, <2>1
<1>6. CASE HandsOnGate(c) \/ RunFails(c) \/ QuotaStops(c) \/ FinalReturns(c) \/ DrainBudget(c)
  BY <1>4, <1>6 DEF HandsOnGate, RunFails, QuotaStops, FinalReturns, DrainBudget
<1>10. CASE Disconnect(c)
  <2>1. (\E r : Leaves(c, r)) \/ inflight'[c] = {}
    BY <1>1, <1>10 DEF Disconnect, Shape
  <2> QED
    BY <1>3, <1>4, <2>1
<1>7. CASE Validate(c) \/ Park(c) \/ Sum(c)
  <2>1. (\E r : Leaves(c, r)) \/ inflight'[c] \subseteq {FreshCall}
    BY <1>1, <1>7 DEF Validate, Park, Sum, Shape, CallTypeOK
  <2> QED
    BY <1>3, <1>4, <2>1
<1>8. CASE Drain(c) \/ Keepalive(c) \/ DrainQuota(c) \/ AutoRetryReads(c)
  <2>1. inflight'[c] \subseteq inflight[c] /\ claims' = claims /\ st' = st
    BY <1>1, <1>8 DEF Drain, Keepalive, DrainQuota, AutoRetryReads, Live, CallTypeOK, nodeVars
  <2> QED
    BY <2>1, DropsStayHeld DEF StaysHeld
<1>9. CASE AutoRetryResets(c)
  <2>1. /\ inflight' = inflight /\ claims' = claims
        /\ \A n \in Nodes : st'[n] = st[n] \/ st[n] = "failed"
    BY <1>1, <1>9 DEF AutoRetryResets, Resets, DagTypeOK
  <2>2. StaysHeld(c)
    BY <2>1 DEF StaysHeld, HeldBy, Holds
  <2> QED
    BY <2>1, <2>2, DropsStayHeld
<1> QED
  BY <1>5, <1>6, <1>7, <1>8, <1>9, <1>10, BodyHolds, ClaimFrontierHolds DEF RunStep, RunUpset

\* Beside the calls, only the reaper takes a running step back, and it takes none
\* that a body holds by its current claim.
LEMMA OutsideHolds ==
  ASSUME ExecutionInv, HeldInv, NotTaken, StepNext \/ JobNext \/ UNCHANGED vars
  PROVE  HeldInv'
<1>1. DagTypeOK
  BY DEF ExecutionInv, TypeOK
<1>2. inflight' = inflight /\ claims' = claims
  BY DEF StepNext, JobNext, OperatorRetryReads, Skip, Reset, ReapOrphan, ReapSlow, OperatorRetryResets,
         CancelJob, Resume, Decide, Reask, ReapStaleJob, vars, callVars, nodeVars
<1>3. ASSUME \A n \in Nodes : \/ st'[n] = st[n] \/ st'[n] = "skipped"
                              \/ st[n] \notin {"running", "skipped"} \/ ReapOrphan(n)
      PROVE  HeldInv'
  <2>1. ASSUME NEW c \in Calls, NEW w \in inflight[c], Busy(w)
        PROVE  st'[w.node] = st[w.node] \/ st'[w.node] = "skipped"
    <3>1. Holds(w)
      BY <2>1 DEF HeldInv, HeldBy
    <3>2. HasWorker(w.node)
      BY <2>1, <3>1 DEF HasWorker, Live, Busy, Holds
    <3> QED
      BY <1>3, <3>1, <3>2 DEF Holds, ReapOrphan
  <2>2. \A c \in Calls : HeldBy(c)'
    BY <1>2, <2>1, DropsStayHeld DEF HeldInv, StaysHeld
  <2> QED
    BY <2>2 DEF HeldInv
<1>4. CASE StepNext
  <2>1. ASSUME NEW n \in Nodes, OperatorRetryReads(n) \/ Skip(n) \/ ReapOrphan(n)
        PROVE  \A m \in Nodes : st'[m] = st[m] \/ st'[m] = "skipped" \/ ReapOrphan(m)
    BY <1>1, <2>1 DEF OperatorRetryReads, Skip, ReapOrphan, Reap, nodeVars, DagTypeOK
  <2>2. \A n \in Nodes : ~ReapSlow(n) /\ ~Reset(n)
    BY DEF ReapSlow, Reset, Outside, NotTaken
  <2> QED
    BY <1>3, <1>4, <2>1, <2>2 DEF StepNext
<1>5. CASE OperatorRetryResets
  <2>1. \A n \in Nodes : st'[n] = st[n] \/ st[n] = "failed"
    BY <1>1, <1>5 DEF OperatorRetryResets, Resets, DagTypeOK
  <2> QED
    BY <1>3, <2>1
<1>6. CASE Decide
  <2>1. \A n \in Nodes : st'[n] = st[n] \/ st[n] = "pending"
    BY <1>1, <1>6 DEF Decide, DagTypeOK
  <2> QED
    BY <1>3, <2>1
<1>7. CASE CancelJob \/ Resume \/ Reask \/ ReapStaleJob \/ UNCHANGED vars
  BY <1>3, <1>7 DEF CancelJob, Resume, Reask, ReapStaleJob, vars, nodeVars
<1> QED
  BY <1>4, <1>5, <1>6, <1>7 DEF JobNext

LEMMA NextHolds ==
  ASSUME ExecutionInv, ShapeInv, ShapeInv', HeldInv, NoOverlap, NoOverlap',
         NotTaken, [Next]_vars
  PROVE  HeldInv'
<1>1. ASSUME NEW c \in Calls, Admit(c) \/ Solo(c) \/ RunStep(c) \/ BodyStep(c) \/ RunUpset(c)
      PROVE  HeldInv'
  <2>1. \A d \in Calls \ {c} : Rests(d)'
    BY <1>1, CallMovesAlone, OthersRest
  <2>2. HeldBy(c)'
    BY <1>1, CallHolds DEF HeldInv
  <2> QED
    BY <2>1, <2>2, OneCallHolds
<1> QED
  BY <1>1, OutsideHolds DEF Next, CallNext

LEMMA InitHolds == Init => HeldInv
  BY DEF Init, HeldInv, HeldBy

LEMMA AloneHolds == NotTaken => (Spec /\ []NoOverlap => []HeldInv)
<1> SUFFICES ASSUME NotTaken PROVE Spec /\ []NoOverlap => []HeldInv
  OBVIOUS
<1>1. /\ ExecutionInv /\ ShapeInv /\ ShapeInv' /\ HeldInv /\ NoOverlap /\ NoOverlap' /\ [Next]_vars
      => HeldInv'
  BY NextHolds
<1>2. Init => HeldInv
  BY InitHolds
<1> QED
  BY ExecutionSafety, AloneIsQuiet, <1>1, <1>2, PTL DEF Spec

\* Two bodies at work on one step are of one call, and there only one has it.
LEMMA HoldersWorkAlone ==
  ASSUME ExecutionInv, ShapeInv, HeldInv, NoOverlap
  PROVE  SoleWorker
<1> SUFFICES ASSUME NEW c \in Calls, NEW d \in Calls, NEW v \in inflight[c], NEW w \in inflight[d],
                    v.pc = "work", w.pc = "work", v.node = w.node
             PROVE  c = d /\ v = w
  BY DEF SoleWorker
<1>1. c = d
  BY DEF NoOverlap, Rests, ShapeInv, Shape
<1>2. v.node \in Nodes
  BY DEF ExecutionInv, BodyRemembers
<1> QED
  BY <1>1, <1>2, StepFacts DEF HeldInv, HeldBy, Busy

\* When calls do not overlap, a step is worked on by one body whatever the
\* operator does beside the run (skips, retries, cancels, answers) and whatever
\* tests are found stale.
THEOREM AloneOneWorker == NotTaken => (Spec /\ []NoOverlap => [](SoleWorker /\ OneWorker))
<1>1. ExecutionInv /\ ShapeInv /\ HeldInv /\ NoOverlap => SoleWorker /\ OneWorker
  BY HoldersWorkAlone DEF OneWorker
<1> QED
  BY ExecutionSafety, AloneIsQuiet, AloneHolds, <1>1, PTL

\* And what a body writes, it writes by the current claim.
THEOREM AloneWritersHoldTheClaim ==
  NotTaken => (Spec /\ []NoOverlap => [][WritesItsClaim]_vars /\ FreshWriter)
<1> SUFFICES ASSUME NotTaken PROVE Spec /\ []NoOverlap => [][WritesItsClaim]_vars /\ FreshWriter
  OBVIOUS
<1>1. ASSUME ExecutionInv, HeldInv
      PROVE  [WritesItsClaim]_vars
  BY <1>1, StepFacts DEF ExecutionInv, BodyRemembers, HeldInv, HeldBy, Busy, Holds, WritesItsClaim
<1>2. [WritesItsClaim]_vars => [Happened("stale_tests") \/ WritesItsClaim]_vars
  OBVIOUS
<1> QED
  BY ExecutionSafety, AloneHolds, <1>1, <1>2, PTL DEF FreshWriter

-----------------------------------------------------------------------------
(* No decision is started unasked.  A call of POST /execute asks first and     *)
(* claims the first ready step after that; what lies between (a framed         *)
(* question, or nothing) must leave that step the engine's.  The operator's    *)
(* skip, which makes other steps ready, his cancel, which has the parking      *)
(* refused, and whatever puts a settled step back under a question in framing  *)
(* are outside it.  A look-up that failed is on record.                        *)

QuestionsHold == Events \cap {"skip", "cancel", "reset", "stale_tests"} = {}

\* The step the next claim takes is the engine's.
NextIsOurs == Ready = {} \/ First(Ready) \notin Undelegated

\* A question in framing stands and will be accepted, a claim that follows takes what
\* is ours.
Asked(c) ==
  \A w \in inflight[c] :
    /\ w.pc = "frame" => DepsMet(w.node)
    /\ w.pc \in {"frame", "ask"} => job \in {"running", "executing"}
    /\ w.pc = "claim" => NextIsOurs
    /\ w.pc = "take" => w.node \notin Undelegated

\* A decision nobody delegated has never been in work.
DecisionsRest == \A n \in Undelegated : st[n] \notin {"running", "failed"}

AskedInv == DecisionsRest /\ \A c \in Calls : Asked(c)

LEMMA FirstIsLeast ==
  ASSUME NEW S \in SUBSET Nodes, S # {}
  PROVE  First(S) \in S /\ \A m \in S : First(S) <= m
<1>1. S \in SUBSET Nat
  BY PlanAssumption DEF Nodes
<1> QED
  BY <1>1, LeastOf DEF First

\* Steps that come back to pending beside it leave the next claim ours, as long as
\* none of them is the operator's.
LEMMA NextStaysOurs ==
  ASSUME NextIsOurs, delegated' = delegated,
         \A n \in Nodes : \/ st'[n] = st[n]
                          \/ n \notin Undelegated /\ st[n] \in {"running", "failed"} /\ st'[n] = "pending"
  PROVE  NextIsOurs'
<1>1. Ready \in SUBSET Nodes /\ Ready' \in SUBSET Nodes
  BY DEF Ready
<1>2. \A n \in Nodes : Settled(n) <=> Settled(n)'
  BY DEF Settled, SettledStatuses
<1>3. \A n \in Nodes : DepsMet(n) <=> DepsMet(n)'
  BY <1>2, PlanAssumption DEF DepsMet
<1>4. Ready \subseteq Ready' /\ \A n \in Ready' : n \in Ready \/ n \notin Undelegated
  BY <1>3 DEF Ready
<1>5. SUFFICES ASSUME Ready' # {}, First(Ready') \in Undelegated
               PROVE  FALSE
  BY DEF NextIsOurs, Undelegated, First
<1>6. First(Ready') \in Ready' /\ \A m \in Ready' : First(Ready') <= m
  BY <1>1, <1>5, FirstIsLeast
<1>7. First(Ready') \in Ready
  BY <1>4, <1>5, <1>6
<1>8. First(Ready) \in Ready /\ \A m \in Ready : First(Ready) <= m
  BY <1>1, <1>7, FirstIsLeast
<1>9. First(Ready) <= First(Ready') /\ First(Ready') <= First(Ready)
  BY <1>4, <1>6, <1>7, <1>8
<1>10. First(Ready) \in Nat /\ First(Ready') \in Nat
  BY <1>1, <1>7, <1>8, StepFacts
<1>11. First(Ready) = First(Ready')
  BY <1>9, <1>10
<1> QED
  BY <1>5, <1>7, <1>11 DEF NextIsOurs

\* Only the two claims start a step.
LEMMA OnlyClaimsStart ==
  ASSUME ExecutionInv, [Next]_vars, NEW n \in Nodes, st'[n] = "running", st[n] # "running"
  PROVE  \E c \in Calls : ClaimFrontier(c) \/ \E w \in inflight[c] : Take(c, w)
<1>1. DagTypeOK
  BY DEF ExecutionInv, TypeOK
<1>2. ~ UNCHANGED st
  OBVIOUS
<1>3. ~ \E k \in Nodes : OperatorRetryReads(k) \/ Skip(k) \/ Reset(k) \/ ReapOrphan(k) \/ ReapSlow(k)
  BY <1>1, <1>2 DEF OperatorRetryReads, Skip, Reset, PutBack, ReapOrphan, ReapSlow, Reap, nodeVars, DagTypeOK
<1>4. ~JobNext
  BY <1>1, <1>2 DEF JobNext, OperatorRetryResets, Resets, CancelJob, Resume, Decide, Reask,
                    ReapStaleJob, nodeVars, DagTypeOK
<1>5. ASSUME NEW c \in Calls, BodyStep(c)
      PROVE  \E w \in inflight[c] : Take(c, w)
  BY <1>1, <1>2, <1>5 DEF BodyStep, Enter, PeekFails, OverBudget, RereadAlone, StaleTests, PutBack,
                          RecheckAlone, ParkAlone, Pick, Persist, GivesUp, Shortcut,
                          EndsAtOnce, WorkerError, Finish, Compile, Partial, nodeVars, DagTypeOK
<1>6. ASSUME NEW c \in Calls, RunStep(c)
      PROVE  ClaimFrontier(c)
  BY <1>1, <1>2, <1>6 DEF RunStep, Validate, Settle, Recheck, Park, Sum, FinalReturns, Drain, Keepalive,
                          DrainBudget, QuotaStops, AutoRetryReads, AutoRetryResets, Resets, Release, Count,
                          Cleanup, SoloReturns, nodeVars, DagTypeOK
<1>7. ASSUME NEW c \in Calls, Admit(c) \/ Solo(c) \/ RunUpset(c)
      PROVE  FALSE
  BY <1>2, <1>7 DEF Admit, Solo, RunUpset, HandsOnGate, RunFails, LookFails, Reread, StaleTests, PutBack,
                    DrainQuota, Disconnect, nodeVars
<1> QED
  BY <1>2, <1>3, <1>4, <1>5, <1>6, <1>7 DEF Next, CallNext, StepNext, vars, nodeVars

\* Neither of them starts what the operator was not asked about.
LEMMA StartsAreAsked ==
  ASSUME ExecutionInv, AskedInv, [Next]_vars
  PROVE  \A n \in Undelegated : st'[n] = "running" => st[n] = "running"
<1> SUFFICES ASSUME NEW n \in Undelegated, st'[n] = "running", st[n] # "running"
             PROVE  FALSE
  OBVIOUS
<1>1. n \in Nodes /\ DagTypeOK
  BY ExecutionAssumption DEF Undelegated, ExecutionInv, TypeOK
<1>2. PICK c \in Calls : ClaimFrontier(c) \/ \E w \in inflight[c] : Take(c, w)
  BY <1>1, OnlyClaimsStart
<1>3. CASE ClaimFrontier(c)
  <2>1. \E k : st' = [m \in Nodes |-> IF m \in FirstOf(Claimable, k) THEN "running" ELSE st[m]]
    BY <1>3 DEF ClaimFrontier
  <2>2. n \in Claimable
    BY <1>1, <2>1 DEF FirstOf
  <2> QED
    BY <2>2 DEF Claimable
<1>4. CASE \E w \in inflight[c] : Take(c, w)
  <2>1. PICK w \in inflight[c] : Take(c, w)
    BY <1>4
  <2>2. w.pc = "take" /\ w.node \notin Undelegated
    BY <2>1 DEF Take, At, AskedInv, Asked
  <2>3. n = w.node
    BY <1>1, <2>1 DEF Take, DagTypeOK
  <2> QED
    BY <2>2, <2>3
<1> QED
  BY <1>2, <1>3, <1>4

\* A step delegated stays so.
LEMMA DelegatedGrows ==
  ASSUME ExecutionInv, [Next]_vars
  PROVE  delegated \subseteq delegated'
<1>1. CASE StepNext \/ JobNext \/ UNCHANGED vars
  BY <1>1 DEF StepNext, JobNext, OperatorRetryReads, Skip, Reset, ReapOrphan, ReapSlow,
              OperatorRetryResets, CancelJob, Resume, Decide, Reask, ReapStaleJob, vars, jobVars
<1>2. ASSUME NEW c \in Calls, BodyStep(c)
      PROVE  delegated' = delegated
  BY <1>2, BodyGoesOn DEF BodyGoes
<1>3. ASSUME NEW c \in Calls, RunStep(c)
      PROVE  delegated' = delegated
  BY <1>3 DEF RunStep, Validate, ClaimFrontier, Settle, Recheck, Park, Sum, FinalReturns, Drain, Keepalive,
              DrainBudget, QuotaStops, AutoRetryReads, AutoRetryResets, Release, Count, Cleanup,
              SoloReturns, jobVars
<1>4. ASSUME NEW c \in Calls, Admit(c) \/ Solo(c) \/ RunUpset(c)
      PROVE  delegated' = delegated
  BY <1>4 DEF Admit, Solo, RunUpset, HandsOnGate, RunFails, LookFails, Reread, DrainQuota, Disconnect, jobVars
<1> QED
  BY <1>1, <1>2, <1>3, <1>4 DEF Next, CallNext

\* Only a step in work fails.
LEMMA OnlyWorkFails ==
  ASSUME ExecutionInv, [Next]_vars, NEW n \in Nodes, st'[n] = "failed", st[n] # "failed"
  PROVE  st[n] = "running"
<1>1. DagTypeOK
  BY DEF ExecutionInv, TypeOK
<1>2. ~ UNCHANGED st
  OBVIOUS
<1>3. ~ \E k \in Nodes : OperatorRetryReads(k) \/ Skip(k) \/ Reset(k) \/ ReapOrphan(k) \/ ReapSlow(k)
  BY <1>1, <1>2 DEF OperatorRetryReads, Skip, Reset, PutBack, ReapOrphan, ReapSlow, Reap, nodeVars, DagTypeOK
<1>4. ~JobNext
  BY <1>1, <1>2 DEF JobNext, OperatorRetryResets, Resets, CancelJob, Resume, Decide, Reask,
                    ReapStaleJob, nodeVars, DagTypeOK
<1>5. ASSUME NEW c \in Calls, BodyStep(c)
      PROVE  st[n] = "running"
  BY <1>1, <1>2, <1>5 DEF BodyStep, Enter, PeekFails, OverBudget, RereadAlone, StaleTests, PutBack,
                          RecheckAlone, ParkAlone, Pick, Take, Persist, GivesUp, Shortcut,
                          EndsAtOnce, WorkerError, Finish, Compile, Partial, nodeVars, DagTypeOK
<1>6. ASSUME NEW c \in Calls, RunStep(c)
      PROVE  st[n] = "running"
  BY <1>1, <1>2, <1>6 DEF RunStep, Validate, ClaimFrontier, Settle, Recheck, Park, Sum, FinalReturns,
                          Drain, Keepalive, DrainBudget, QuotaStops, AutoRetryReads, AutoRetryResets,
                          Resets, Release, Count, Cleanup, SoloReturns, nodeVars, DagTypeOK
<1>7. ASSUME NEW c \in Calls, Admit(c) \/ Solo(c) \/ RunUpset(c)
      PROVE  FALSE
  BY <1>2, <1>7 DEF Admit, Solo, RunUpset, HandsOnGate, RunFails, LookFails, Reread, StaleTests, PutBack,
                    DrainQuota, Disconnect, nodeVars
<1> QED
  BY <1>2, <1>3, <1>4, <1>5, <1>6, <1>7 DEF Next, CallNext, StepNext, vars, nodeVars

LEMMA DecisionsStayAtRest ==
  ASSUME ExecutionInv, AskedInv, [Next]_vars
  PROVE  DecisionsRest'
<1>2. delegated \subseteq delegated'
  BY DelegatedGrows
<1>3. ASSUME NEW n \in Undelegated
      PROVE  st'[n] \notin {"running", "failed"}
  <2>1. n \in Nodes /\ st[n] \notin {"running", "failed"}
    BY <1>3, ExecutionAssumption DEF Undelegated, AskedInv, DecisionsRest
  <2>2. st'[n] # "running"
    BY <2>1, <1>3, StartsAreAsked
  <2>3. st'[n] # "failed"
    BY <2>1, OnlyWorkFails
  <2> QED
    BY <2>2, <2>3
<1> QED
  BY <1>2, <1>3 DEF DecisionsRest, Undelegated

\* With nothing put back, a question that stood stands.
LEMMA MetStays ==
  ASSUME ExecutionInv, QuestionsHold, [Next]_vars, NEW n \in Nodes, DepsMet(n)
  PROVE  DepsMet(n)'
<1>1. ~TakesBack
  BY DEF TakesBack, Outside, QuestionsHold
<1>2. \A d \in Nodes : Settled(d) => st'[d] = st[d]
  BY <1>1, UndoneOnRecord
<1> QED
  BY <1>2, PlanAssumption DEF DepsMet, Settled

\* A body: it frames a question only of an executable job, and goes to claim when
\* the first ready step is not the operator's.
LEMMA BodyAsks ==
  ASSUME ExecutionInv, ShapeInv, ShapeInv', QuestionsHold, ~Outside("look_error"),
         NEW c \in Calls, Asked(c), BodyStep(c)
  PROVE  Asked(c)'
<1>1. CallTypeOK /\ DagTypeOK /\ Shape(c) /\ Shape(c)'
  BY DEF ExecutionInv, TypeOK, ShapeInv
<1>2. PICK w \in inflight[c] :
        \/ Enter(c, w) \/ OverBudget(c, w)
        \/ RecheckAlone(c, w) \/ ParkAlone(c, w)
        \/ Pick(c, w) \/ Take(c, w)
        \/ Persist(c, w, "done") \/ Persist(c, w, "failed")
        \/ GivesUp(c, w) \/ Shortcut(c, w) \/ WorkerError(c, w)
        \/ Finish(c, w) \/ Compile(c, w) \/ Partial(c, w)
  BY DEF BodyStep, PeekFails, RereadAlone, StaleTests, Outside, QuestionsHold
<1>3. w \in Body /\ phase' = phase
  BY <1>1, <1>2 DEF CallTypeOK, Enter, OverBudget, RecheckAlone, ParkAlone, Pick, Take, Persist, GivesUp,
                    Shortcut, EndsAtOnce, WorkerError, Finish, Compile, Partial
<1>4. CASE phase[c] \notin {"final", "solo"}
  BY <1>1, <1>3, <1>4 DEF Shape, Asked, OwnPcs
<1>5. CASE phase[c] \in {"final", "solo"}
  <2>1. inflight[c] = {w}
    BY <1>1, <1>5 DEF Shape
  <2>2. ASSUME NEW v, Steps(c, w, v), v.pc \notin {"frame", "ask", "claim", "take"}
        PROVE  Asked(c)'
    <3>1. inflight'[c] = {v}
      BY <1>1, <2>1, <2>2 DEF Steps, CallTypeOK
    <3> QED
      BY <2>2, <3>1 DEF Asked
  <2>3. ASSUME NEW s, Puts(c, w, s)
        PROVE  Asked(c)'
    <3> PICK v : v = [w EXCEPT !.pc = "ended"]
      OBVIOUS
    <3>1. v.pc = "ended" /\ Steps(c, w, v)
      BY <1>3, <2>3 DEF Puts, Body
    <3> QED
      BY <2>2, <3>1
  <2>4. ASSUME NEW p \in {"work", "tail", "compile"}, GoesTo(c, w, p)
        PROVE  Asked(c)'
    <3> PICK v : v = [w EXCEPT !.pc = p]
      OBVIOUS
    <3>1. v.pc = p /\ Steps(c, w, v)
      BY <1>3, <2>4 DEF GoesTo, Body
    <3> QED
      BY <2>2, <3>1
  <2>5. CASE Enter(c, w)
    <3>1. job' = job /\ st' = st /\ delegated' = delegated
      BY <2>5 DEF Enter, jobVars, nodeVars
    <3>2. CASE Executable /\ MustAsk # {} /\ Steps(c, w, [w EXCEPT !.pc = "frame", !.node = First(MustAsk)])
      <4>1. job' \in {"running", "executing"}
        BY <1>1, <3>1, <3>2 DEF Executable, ExecutableStatuses, DagTypeOK, ExecutionStatuses
      <4> PICK v : v = [w EXCEPT !.pc = "frame", !.node = First(MustAsk)]
        OBVIOUS
      <4>2. v.pc = "frame" /\ v.node = First(MustAsk) /\ inflight'[c] = {v}
        BY <1>1, <1>3, <2>1, <3>2 DEF Steps, CallTypeOK, Body
      <4>3. v.node \in MustAsk
        BY <3>2, <4>2, FirstIsIn DEF MustAsk, Ready
      <4>4. DepsMet(v.node)'
        BY <3>1, <4>3 DEF MustAsk, Ready, DepsMet, Settled
      <4> QED
        BY <4>1, <4>2, <4>4 DEF Asked
    <3>3. CASE GoesTo(c, w, "claim") /\ ~(Ready # {} /\ First(Ready) \in Decisions /\ MustAsk # {})
      <4>1. NextIsOurs
        <5> SUFFICES ASSUME Ready # {}, First(Ready) \in Undelegated
                     PROVE  FALSE
          BY DEF NextIsOurs
        <5>1. Ready \in SUBSET Nodes
          BY DEF Ready
        <5>2. First(Ready) \in MustAsk
          BY <5>1, FirstIsIn DEF MustAsk
        <5> QED
          BY <3>3, <5>2 DEF Undelegated
      <4>2. NextIsOurs'
        BY <3>1, <4>1, NextStaysOurs
      <4> PICK v : v = [w EXCEPT !.pc = "claim"]
        OBVIOUS
      <4>3. v.pc = "claim" /\ inflight'[c] = {v}
        BY <1>1, <1>3, <2>1, <3>3 DEF GoesTo, Steps, CallTypeOK, Body
      <4> QED
        BY <4>2, <4>3 DEF Asked
    <3> QED
      BY <2>3, <2>4, <2>5, <3>2, <3>3 DEF Enter
  <2>6. CASE RecheckAlone(c, w)
    <3>1. job' = job /\ job \in {"running", "executing"} /\ DepsMet(w.node) /\ w.pc = "frame"
      BY <2>6 DEF RecheckAlone, At, Asked, jobVars
    <3>2. GoesTo(c, w, "ask")
      BY <2>6, <3>1 DEF RecheckAlone
    <3> PICK v : v = [w EXCEPT !.pc = "ask"]
      OBVIOUS
    <3>3. v.pc = "ask" /\ inflight'[c] = {v}
      BY <1>1, <1>3, <2>1, <3>2 DEF GoesTo, Steps, CallTypeOK, Body
    <3> QED
      BY <3>1, <3>3 DEF Asked
  <2>7. CASE ParkAlone(c, w)
    <3>1. job \in {"running", "executing"}
      BY <2>7 DEF ParkAlone, At, Asked
    <3> QED
      BY <2>3, <2>7, <3>1 DEF ParkAlone, MayMoveFrom
  <2>8. CASE Pick(c, w)
    <3>1. CASE Ready = {}
      BY <2>4, <2>8, <3>1 DEF Pick
    <3>2. CASE Ready # {}
      <4> PICK v : v = [w EXCEPT !.node = First(Ready), !.pc = "take"]
        OBVIOUS
      <4>1. v.pc = "take" /\ v.node = First(Ready) /\ inflight'[c] = {v}
        BY <1>1, <1>3, <2>1, <2>8, <3>2 DEF Pick, Steps, CallTypeOK, Body
      <4>2. First(Ready) \notin Undelegated /\ delegated' = delegated
        BY <2>8, <3>2 DEF Pick, At, Asked, NextIsOurs, jobVars
      <4> QED
        BY <4>1, <4>2 DEF Asked, Undelegated
    <3> QED
      BY <3>1, <3>2
  <2>9. CASE Take(c, w)
    <3>1. CASE st[w.node] = "pending"
      <4> PICK v : v = [w EXCEPT !.claim = claims[w.node] + 1, !.pc = "work"]
        OBVIOUS
      <4>1. v.pc = "work" /\ Steps(c, w, v)
        BY <1>3, <2>9, <3>1 DEF Take, Body
      <4> QED
        BY <2>2, <4>1
    <3>2. CASE st[w.node] # "pending"
      <4> PICK v : v = [w EXCEPT !.pc = "tail", !.node = NoStep]
        OBVIOUS
      <4>1. v.pc = "tail" /\ Steps(c, w, v)
        BY <1>3, <2>9, <3>2 DEF Take, Body
      <4> QED
        BY <2>2, <4>1
    <3> QED
      BY <3>1, <3>2
  <2>10. ASSUME NEW s, Persist(c, w, s)
         PROVE  Asked(c)'
    <3>1. CASE Puts(c, w, "stale")
      BY <2>3, <3>1
    <3>2. CASE Steps(c, w, [w EXCEPT !.pc = "tail", !.res = s])
      <4> PICK v : v = [w EXCEPT !.pc = "tail", !.res = s]
        OBVIOUS
      <4>1. v.pc = "tail"
        BY <1>3 DEF Body
      <4> QED
        BY <2>2, <3>2, <4>1
    <3> QED
      BY <2>10, <3>1, <3>2 DEF Persist
  <2>11. CASE Finish(c, w)
    <3>1. CASE GoesTo(c, w, "compile") \/ \E s : Puts(c, w, s)
      BY <2>3, <2>4, <3>1
    <3>2. CASE \E s : Steps(c, w, [w EXCEPT !.pc = "partial", !.res = s])
      <4>1. PICK s : Steps(c, w, [w EXCEPT !.pc = "partial", !.res = s])
        BY <3>2
      <4> PICK v : v = [w EXCEPT !.pc = "partial", !.res = s]
        OBVIOUS
      <4>2. v.pc = "partial"
        BY <1>3 DEF Body
      <4> QED
        BY <2>2, <4>1, <4>2
    <3> QED
      BY <2>11, <3>1, <3>2 DEF Finish
  <2>12. CASE OverBudget(c, w) \/ GivesUp(c, w) \/ Shortcut(c, w) \/ WorkerError(c, w)
              \/ Compile(c, w) \/ Partial(c, w)
    <3>1. \E s : Puts(c, w, s)
      BY <2>12 DEF OverBudget, GivesUp, Shortcut, EndsAtOnce, WorkerError, Compile, Partial
    <3> QED
      BY <2>3, <3>1
  <2> QED
    BY <1>2, <2>5, <2>6, <2>7, <2>8, <2>9, <2>10, <2>11, <2>12
<1> QED
  BY <1>4, <1>5

\* What else a call does: a body it starts on its own enters first.
LEMMA CallAsks ==
  ASSUME ExecutionInv, ShapeInv, ShapeInv', QuestionsHold, ~Outside("look_error"), NEW c \in Calls, Asked(c),
         Admit(c) \/ Solo(c) \/ RunStep(c) \/ BodyStep(c) \/ RunUpset(c)
  PROVE  Asked(c)'
<1>1. CallTypeOK /\ Shape(c) /\ Shape(c)'
  BY DEF ExecutionInv, TypeOK, ShapeInv
<1>2. CASE BodyStep(c)
  BY <1>2, BodyAsks
<1>3. CASE phase'[c] \notin {"final", "solo"}
  BY <1>1, <1>3 DEF Shape, Asked, OwnPcs
<1>4. CASE inflight'[c] = {FreshCall}
  BY <1>4 DEF Asked, FreshCall
<1>5. CASE \E r : Leaves(c, r)
  BY <1>1, <1>5 DEF Leaves, CallTypeOK, Asked
<1>6. CASE Admit(c) \/ Solo(c)
  BY <1>1, <1>3, <1>4, <1>6 DEF Admit, Solo, Goto, CallTypeOK
<1>7. CASE RunStep(c)
  <2>1. CASE Sum(c)
    BY <1>1, <1>4, <1>5, <2>1 DEF Sum, CallTypeOK
  <2>2. CASE ~Sum(c)
    <3>1. \/ \E r : Leaves(c, r)
          \/ \E p \in {"claim", "settle", "frame", "ask", "drain", "sum", "retry", "reset", "count", "cleanup",
                       "over"} :
               Goto(c, p)
      BY <1>7, <2>2 DEF RunStep, Validate, ClaimFrontier, Settle, Recheck, Park, FinalReturns, Drain,
                        Keepalive, DrainBudget, QuotaStops, AutoRetryReads, AutoRetryResets, Release,
                        Count, Cleanup, SoloReturns, Spawned
    <3> QED
      BY <1>1, <1>3, <1>5, <3>1 DEF Goto, CallTypeOK
  <2> QED
    BY <2>1, <2>2
<1>8. CASE RunUpset(c)
  <2>1. \/ \E r : Leaves(c, r)
        \/ \E p \in {"claim", "sum", "quota"} : Goto(c, p)
        \/ phase' = phase /\ phase[c] = "release"
    BY <1>8 DEF RunUpset, HandsOnGate, RunFails, LookFails, Reread, DrainQuota, Disconnect
  <2> QED
    BY <1>1, <1>3, <1>5, <2>1 DEF Goto, CallTypeOK
<1> QED
  BY <1>2, <1>6, <1>7, <1>8

\* Beside the calls: the reaper and a retry give back only what is the engine's,
\* and the stale-job reaper waits while a question is being framed.
LEMMA OutsideAsks ==
  ASSUME ExecutionInv, ShapeInv, QuietInv, AskedInv, QuestionsHold,
         StepNext \/ JobNext \/ UNCHANGED vars,
         NEW c \in Calls
  PROVE  Asked(c)'
<1>1. DagTypeOK /\ Shape(c) /\ Quiet(c) /\ Asked(c) /\ DecisionsRest
  BY DEF ExecutionInv, TypeOK, ShapeInv, QuietInv, AskedInv
<1>2. inflight' = inflight
  BY DEF StepNext, JobNext, OperatorRetryReads, Skip, Reset, ReapOrphan, ReapSlow, OperatorRetryResets,
         CancelJob, Resume, Decide, Reask, ReapStaleJob, vars, callVars
<1>3. (\A n \in Nodes : ~Skip(n) /\ ~Reset(n)) /\ ~CancelJob
  BY DEF Skip, Reset, CancelJob, Outside, QuestionsHold
<1>4. ASSUME NEW w \in inflight[c], w.pc \in {"frame", "ask"}
      PROVE  job' \in {"running", "executing"}
  <2>1. job \in {"running", "executing"} /\ phase[c] \in {"final", "solo"} /\ inflight[c] = {w}
    BY <1>1, <1>4 DEF Asked, Shape, OwnPcs
  <2>2. ~ReapStaleJob
    BY <1>4, <2>1 DEF ReapStaleJob, Untouched, Live
  <2> QED
    BY <1>3, <2>1, <2>2 DEF StepNext, JobNext, OperatorRetryReads, ReapOrphan, ReapSlow,
                            OperatorRetryResets, Resets, Resume, Decide, Reask, vars, jobVars
<1>5. ASSUME NEW w \in inflight[c], w.pc = "claim"
      PROVE  NextIsOurs'
  <2>1. NextIsOurs /\ job # "awaiting_decision"
    BY <1>1, <1>5 DEF Asked, Quiet, Shape, OwnPcs
  <2>2. delegated' = delegated
    BY <2>1 DEF StepNext, JobNext, OperatorRetryReads, Skip, Reset, ReapOrphan, ReapSlow,
                OperatorRetryResets, CancelJob, Resume, Decide, Reask, ReapStaleJob, vars, jobVars
  <2>3. CASE st' = st
    BY <2>1, <2>2, <2>3, NextStaysOurs
  <2>4. ASSUME NEW n \in Nodes, ReapOrphan(n) \/ ReapSlow(n)
        PROVE  NextIsOurs'
    <3>1. st[n] = "running" /\ n \notin Undelegated /\ st' = [st EXCEPT ![n] = "pending"]
      BY <1>1, <2>4 DEF ReapOrphan, ReapSlow, Reap, DecisionsRest
    <3>2. \A m \in Nodes : st'[m] = st[m] \/ (m = n /\ st'[m] = "pending")
      BY <1>1, <3>1 DEF DagTypeOK
    <3> QED
      BY <2>1, <2>2, <3>1, <3>2, NextStaysOurs
  <2>5. CASE OperatorRetryResets
    <3>1. \A m \in Nodes : st'[m] = st[m] \/ (st[m] = "failed" /\ st'[m] = "pending")
      BY <1>1, <2>5 DEF OperatorRetryResets, Resets, DagTypeOK
    <3> QED
      BY <1>1, <2>1, <2>2, <3>1, NextStaysOurs DEF DecisionsRest
  <2> QED
    BY <1>3, <2>1, <2>3, <2>4, <2>5 DEF StepNext, JobNext, OperatorRetryReads, Resume, Decide, Reask,
                                        ReapStaleJob, vars, nodeVars
<1>6. ASSUME NEW w \in inflight[c], w.pc = "frame"
      PROVE  DepsMet(w.node)'
  <2>1. w.node \in Nodes /\ DepsMet(w.node)
    BY <1>1, <1>6 DEF ExecutionInv, BodyRemembers, Asked
  <2>2. [Next]_vars
    BY DEF Next
  <2> QED
    BY <2>1, <2>2, MetStays
<1>7. ASSUME NEW w \in inflight[c], w.pc = "take"
      PROVE  w.node \notin Undelegated'
  <2>1. [Next]_vars
    BY DEF Next
  <2> QED
    BY <1>1, <1>7, <2>1, DelegatedGrows DEF Asked, Undelegated
<1> QED
  BY <1>2, <1>4, <1>5, <1>6, <1>7 DEF Asked

LEMMA NextAsks ==
  ASSUME ExecutionInv, ShapeInv, ShapeInv', QuietInv, AskedInv, NoOverlap, NoOverlap',
         QuestionsHold, ~Outside("look_error"), [Next]_vars
  PROVE  AskedInv'
<1>1. DecisionsRest'
  BY DecisionsStayAtRest
<1>2. ASSUME NEW c \in Calls, Admit(c) \/ Solo(c) \/ RunStep(c) \/ BodyStep(c) \/ RunUpset(c)
      PROVE  \A d \in Calls : Asked(d)'
  <2>1. \A d \in Calls \ {c} : Rests(d)'
    BY <1>2, CallMovesAlone, OthersRest
  <2>2. \A d \in Calls \ {c} : Asked(d)'
    BY <2>1 DEF Rests, ShapeInv, Shape, Asked
  <2>3. Asked(c)'
    BY <1>2, CallAsks DEF AskedInv
  <2> QED
    BY <2>2, <2>3
<1>3. CASE StepNext \/ JobNext \/ UNCHANGED vars
  BY <1>1, <1>3, OutsideAsks DEF AskedInv
<1> QED
  BY <1>1, <1>2, <1>3 DEF AskedInv, Next, CallNext

LEMMA InitAsks == Init => AskedInv
<1> SUFFICES ASSUME Init PROVE AskedInv
  OBVIOUS
<1>1. (\A n \in Nodes : st[n] = "pending") /\ \A c \in Calls : inflight[c] = {}
  BY DEF Init, DagInit
<1>2. Undelegated \subseteq Nodes
  BY ExecutionAssumption DEF Undelegated
<1> QED
  BY <1>1, <1>2 DEF AskedInv, DecisionsRest, Asked

LEMMA EventsGrow ==
  ASSUME [Next]_vars
  PROVE  events' = events \/ \E k \in EventKinds : Outside(k)
<1>1. CASE StepNext \/ JobNext \/ UNCHANGED vars
  BY <1>1 DEF StepNext, JobNext, OperatorRetryReads, Skip, Reset, ReapOrphan, ReapSlow,
              OperatorRetryResets, CancelJob, Resume, Decide, Reask, ReapStaleJob, vars, EventKinds
<1>2. ASSUME NEW c \in Calls, BodyStep(c)
      PROVE  events' = events \/ \E k \in EventKinds : Outside(k)
  BY <1>2 DEF BodyStep, Enter, PeekFails, OverBudget, RereadAlone, StaleTests, RecheckAlone, ParkAlone,
              Pick, Take, Persist, GivesUp, Shortcut, WorkerError, Finish, Compile, Partial, EventKinds
<1>3. ASSUME NEW c \in Calls, RunStep(c)
      PROVE  events' = events
  BY <1>3 DEF RunStep, Validate, ClaimFrontier, Settle, Recheck, Park, Sum, FinalReturns, Drain, Keepalive,
              DrainBudget, QuotaStops, AutoRetryReads, AutoRetryResets, Release, Count, Cleanup,
              SoloReturns
<1>4. ASSUME NEW c \in Calls, Admit(c) \/ Solo(c) \/ RunUpset(c)
      PROVE  events' = events \/ \E k \in EventKinds : Outside(k)
  BY <1>4 DEF Admit, Solo, RunUpset, HandsOnGate, RunFails, LookFails, Reread, StaleTests, DrainQuota,
              Disconnect, EventKinds
<1> QED
  BY <1>1, <1>2, <1>3, <1>4 DEF Next, CallNext

\* A record is kept.
LEMMA RecordIsKept ==
  ASSUME ExecutionInv, ExecutionInv', [Next]_vars, NEW kind \in EventKinds
  PROVE  /\ Happened(kind) => Happened(kind)'
         /\ Outside(kind) => Happened(kind)'
<1>1. events \in Seq(EventKinds)
  BY DEF ExecutionInv, TypeOK, StoredTypeOK
<1>2. ASSUME NEW k, events' = Append(events, k)
      PROVE  /\ \A i \in DOMAIN events : i \in DOMAIN events' /\ events'[i] = events[i]
             /\ Len(events) + 1 \in DOMAIN events' /\ events'[Len(events) + 1] = k
  BY <1>1, <1>2
<1>3. events' = events \/ \E k : events' = Append(events, k)
  BY EventsGrow DEF Outside
<1> QED
  BY <1>2, <1>3 DEF Happened, Outside

\* When calls do not overlap, whatever is retried, reaped, cut off or parked, the
\* engine starts no decision the operator did not hand to it, until a look-up fails.
THEOREM AloneNeverUnasked == QuestionsHold => (Spec /\ []NoOverlap => NeverUnasked)
<1> SUFFICES ASSUME QuestionsHold PROVE Spec /\ []NoOverlap => NeverUnasked
  OBVIOUS
<1> DEFINE AskedOrMissed == AskedInv \/ Happened("look_error")
<1>1. /\ ExecutionInv /\ ExecutionInv' /\ ShapeInv /\ ShapeInv' /\ QuietInv /\ AskedOrMissed
      /\ NoOverlap /\ NoOverlap' /\ [Next]_vars
      => AskedOrMissed'
  BY NextAsks, RecordIsKept DEF EventKinds
<1>2. Init => AskedOrMissed
  BY InitAsks
<1>3. ExecutionInv /\ AskedOrMissed /\ [Next]_vars =>
        [\A n \in Undelegated : st'[n] = "running" => st[n] = "running" \/ Happened("look_error")]_vars
  BY StartsAreAsked
<1> QED
  BY ExecutionSafety, AloneIsQuiet, <1>1, <1>2, <1>3, PTL DEF Spec, NeverUnasked

-----------------------------------------------------------------------------
(* What a run leaves.  A running step is looked after at every moment: a body  *)
(* has it, or the run that left holds it for release, or its cleanup is yet to *)
(* come and the job is still the run's to clean.  What breaks this is a job    *)
(* cancelled, over budget, blocked at the account's limit or reaped as stale   *)
(* under the run, whose cleanup then refuses to write, a worker lost with its  *)
(* step, and whatever puts a done step back under it.                          *)

Unharmed ==
  /\ Events \cap {"cancel", "budget", "stale_reap", "worker_error", "reset", "stale_tests"} = {}
  /\ Reopenable = {}

HasIt(c, n) == \E w \in inflight[c] : w.pc \in {"enter", "work"} /\ w.node = n
LooksAfter(c, n) ==
  \/ HasIt(c, n)
  \/ phase[c] = "release" /\ n \in held[c]
  \/ phase[c] \in {"release", "count", "cleanup"} /\ job = "running"

\* While a run drives the job, the job is running, or completed under it.
Kept == job \in {"running", "completed"}
InFrontier(c) == InLoop(c) /\ phase[c] # "final"
Drives(c) ==
  /\ InFrontier(c) => Kept
  /\ phase[c] = "final" /\ Live(c) # {} => Kept
  /\ phase[c] = "release" => Kept
  /\ phase[c] = "solo" => \A w \in inflight[c] : w.pc = "enter" => w.node = NoStep

AllLookedAfter(c) == \A n \in Nodes : st[n] = "running" => LooksAfter(c, n)
LeftInv ==
  /\ \A n \in Nodes : st[n] = "running" => \E c \in Calls : LooksAfter(c, n)
  /\ \A c \in Calls : Drives(c)

\* A call at rest looks after nothing: the one that moves has all running steps.
LEMMA MoverLooksAfter ==
  ASSUME ShapeInv, LeftInv, NEW c \in Calls, \A d \in Calls \ {c} : Rests(d)
  PROVE  AllLookedAfter(c)
  BY DEF ShapeInv, Shape, LeftInv, Rests, AllLookedAfter, LooksAfter, HasIt

LEMMA OneCallLooks ==
  ASSUME NEW c \in Calls, \A d \in Calls \ {c} : Rests(d)', AllLookedAfter(c)', Drives(c)'
  PROVE  LeftInv'
<1>1. \A d \in Calls \ {c} : Drives(d)'
  BY DEF Rests, Drives, InFrontier, InLoop
<1> QED
  BY <1>1 DEF AllLookedAfter, LeftInv

\* A run that leaves: what its bodies had is held; the terminal call's step is left
\* to the cleanup, which the running job lets write.
LEMMA LeavesLooks ==
  ASSUME ExecutionInv, ShapeInv, NEW c \in Calls, AllLookedAfter(c), Drives(c), Unharmed, InLoop(c),
         NEW r, Leaves(c, r), st' = st,
         phase[c] = "final" \/ inflight[c] # {} => job' = job
  PROVE  AllLookedAfter(c)' /\ Drives(c)'
<1>1. CallTypeOK /\ DagTypeOK
  BY DEF ExecutionInv, TypeOK
<1> DEFINE cut == IF phase[c] = "final" THEN {} ELSE { w.node : w \in Live(c) }
<1>2. /\ phase'[c] = IF cut = {} THEN Spawned(r) ELSE "release"
      /\ held'[c] = cut /\ why'[c] = r /\ inflight'[c] = {}
  BY <1>1 DEF Leaves, Goto, CallTypeOK
<1>3. ASSUME NEW n \in Nodes, st'[n] = "running"
      PROVE  LooksAfter(c, n)'
  <2>1. PICK w \in inflight[c] : w.pc \in {"enter", "work"} /\ w.node = n
    BY <1>3 DEF AllLookedAfter, LooksAfter, HasIt, InLoop
  <2>2. w \in Live(c)
    BY <2>1 DEF Live
  <2>3. CASE phase[c] = "final"
    <3>1. job = "running"
      BY <1>3, <2>2, <2>3, StepFacts DEF Drives, Kept, ExecutionInv, CompletedIsWhole, AllHeld, Settled,
                                         SettledStatuses, Unharmed
    <3>2. phase'[c] \in {"count", "cleanup"}
      BY <1>2, <2>3 DEF Spawned
    <3> QED
      BY <2>3, <3>1, <3>2 DEF LooksAfter
  <2>4. CASE phase[c] # "final"
    <3>1. n \in cut
      BY <2>1, <2>2, <2>4
    <3> QED
      BY <1>2, <3>1 DEF LooksAfter
  <2> QED
    BY <2>3, <2>4
<1>4. phase'[c] = "release" => Kept'
  <2>1. cut = {} => phase'[c] # "release"
    BY <1>2 DEF Spawned
  <2>2. cut # {} => inflight[c] # {} /\ phase[c] # "final"
    BY DEF Live
  <2> QED
    BY <2>1, <2>2 DEF Drives, InFrontier, Kept
<1>5. phase'[c] \in {"release", "count", "cleanup"}
  BY <1>2 DEF Spawned
<1> QED
  BY <1>3, <1>4, <1>5 DEF AllLookedAfter, Drives, InFrontier, InLoop

\* A body: the step it lets go of is not running any more.
LEMMA BodyLooks ==
  ASSUME ExecutionInv, ShapeInv, NEW c \in Calls, AllLookedAfter(c), Drives(c), Unharmed,
         BodyStep(c)
  PROVE  AllLookedAfter(c)' /\ Drives(c)'
<1>1. /\ CallTypeOK /\ DagTypeOK /\ Shape(c)
      /\ \A w \in inflight[c] : BodyRemembers(w)
  BY DEF ExecutionInv, TypeOK, ShapeInv
<1>4. ASSUME NEW w
      PROVE  ~OverBudget(c, w) /\ ~WorkerError(c, w) /\ ~RereadAlone(c, w)
  <2>1. ~OverBudget(c, w) /\ ~WorkerError(c, w)
    BY DEF OverBudget, WorkerError, Outside, Unharmed
  <2>2. ~RereadAlone(c, w)
    BY DEF RereadAlone, StaleTests, Outside, Unharmed
  <2> QED
    BY <2>1, <2>2
<1>2. PICK w \in inflight[c] :
        \/ Enter(c, w) \/ PeekFails(c, w) \/ RecheckAlone(c, w) \/ ParkAlone(c, w)
        \/ Pick(c, w) \/ Take(c, w)
        \/ Persist(c, w, "done") \/ Persist(c, w, "failed")
        \/ GivesUp(c, w) \/ Shortcut(c, w)
        \/ Finish(c, w) \/ Compile(c, w) \/ Partial(c, w)
  BY <1>4 DEF BodyStep
<1>3. w \in Body /\ phase' = phase /\ ~Rests(c) /\ phase[c] \notin {"release", "count", "cleanup"}
  BY <1>1, <1>2 DEF CallTypeOK, Enter, PeekFails, RecheckAlone, ParkAlone, Pick, Take, Persist, GivesUp,
                    Shortcut, EndsAtOnce, Finish, Compile, Partial, Rests, Shape
<1>5. w.pc # "ended"
  BY <1>2 DEF Enter, PeekFails, RecheckAlone, ParkAlone, Pick, Take, Persist, GivesUp, Shortcut,
              EndsAtOnce, Finish, Compile, Partial, At
\* What has to be shown of the body's next record, v.
<1> DEFINE Follows(v) ==
      /\ Steps(c, w, v)
      /\ \A n \in Nodes : st'[n] = "running" =>
           \/ st[n] = "running" /\ (w.node = n => w.pc \notin {"enter", "work"})
           \/ v.pc \in {"enter", "work"} /\ v.node = n
      /\ InFrontier(c) => Kept'
      /\ phase[c] = "final" /\ v.pc # "ended" => Kept'
      /\ v.pc # "enter"
<1>6. ASSUME NEW v, Follows(v)
      PROVE  AllLookedAfter(c)' /\ Drives(c)'
  <2>1. inflight'[c] = (inflight[c] \ {w}) \cup {v}
    BY <1>1, <1>6 DEF Steps, CallTypeOK
  <2>2. ASSUME NEW n \in Nodes, st'[n] = "running"
        PROVE  HasIt(c, n)'
    <3>1. CASE v.pc \in {"enter", "work"} /\ v.node = n
      BY <2>1, <3>1 DEF HasIt
    <3>2. CASE st[n] = "running" /\ (w.node = n => w.pc \notin {"enter", "work"})
      <4>1. HasIt(c, n)
        BY <1>3, <3>2 DEF AllLookedAfter, LooksAfter
      <4> QED
        BY <2>1, <3>2, <4>1 DEF HasIt
    <3> QED
      BY <1>6, <2>2, <3>1, <3>2
  <2>3. phase[c] = "final" /\ Live(c)' # {} => Kept'
    <3>1. phase[c] = "final" => inflight'[c] = {v}
      BY <1>1, <2>1 DEF Shape
    <3> QED
      BY <1>6, <3>1 DEF Live
  <2>4. phase[c] = "solo" => \A u \in inflight'[c] : u.pc # "enter"
    <3>1. phase[c] = "solo" => inflight'[c] = {v}
      BY <1>1, <2>1 DEF Shape
    <3> QED
      BY <1>6, <3>1
  <2> QED
    BY <1>3, <1>6, <2>2, <2>3, <2>4 DEF AllLookedAfter, LooksAfter, Drives, InFrontier, InLoop
<1> HIDE DEF Follows
<1>7. Live(c) # {}
  BY <1>5 DEF Live
<1>8. InFrontier(c) \/ phase[c] = "final" => Kept
  BY <1>7 DEF Drives
<1>9. ASSUME NEW n \in Nodes, st[n] = "running", w.node = n, w.pc = "enter"
      PROVE  Executable
  <2>1. Kept
    BY <1>1, <1>3, <1>8, <1>9, StepFacts DEF Drives, InFrontier, InLoop, Rests, CallTypeOK, Phases
  <2>2. job = "running"
    BY <1>9, <2>1 DEF Kept, ExecutionInv, CompletedIsWhole, AllHeld, Settled, SettledStatuses, Unharmed
  <2> QED
    BY <2>2 DEF Executable, ExecutableStatuses
<1>10. ASSUME NEW s, Puts(c, w, s), st' = st,
              InFrontier(c) => Kept',
              \A n \in Nodes : st[n] = "running" /\ w.node = n => w.pc \notin {"enter", "work"}
       PROVE  AllLookedAfter(c)' /\ Drives(c)'
  <2> PICK v : v = [w EXCEPT !.pc = "ended"]
    OBVIOUS
  <2>1. v.pc = "ended" /\ Steps(c, w, v)
    BY <1>3, <1>10 DEF Puts, Body
  <2>2. Follows(v)
    BY <1>10, <2>1 DEF Follows
  <2> QED
    BY <1>6, <2>2
<1>11. ASSUME NEW p \in {"frame", "ask", "claim", "take", "tail", "compile", "partial"}, NEW v,
              v.pc = p, Steps(c, w, v), st' = st, Kept => Kept',
              w.pc \notin {"enter", "work"} \/ w.node = NoStep
       PROVE  AllLookedAfter(c)' /\ Drives(c)'
  <2>1. Follows(v)
    BY <1>8, <1>11, StepFacts DEF Follows
  <2> QED
    BY <1>6, <2>1
<1>12. CASE Enter(c, w)
  <2>1. w.pc = "enter" /\ st' = st /\ job' = job
    BY <1>12 DEF Enter, At, jobVars, nodeVars
  <2>2. CASE ~Executable
    <3>1. Puts(c, w, "error")
      BY <1>12, <2>2 DEF Enter
    <3> QED
      BY <1>8, <1>9, <1>10, <2>1, <2>2, <3>1 DEF Kept
  <2>3. CASE Executable /\ w.node # NoStep
    <3> PICK v : v = [w EXCEPT !.pc = "work"]
      OBVIOUS
    <3>1. v.pc = "work" /\ v.node = w.node /\ Steps(c, w, v)
      BY <1>3, <1>12, <2>3 DEF Enter, GoesTo, Body
    <3>2. Follows(v)
      BY <1>8, <2>1, <3>1 DEF Follows, Kept
    <3> QED
      BY <1>6, <3>2
  <2>4. CASE Executable /\ w.node = NoStep
    <3>1. CASE GoesTo(c, w, "claim")
      <4> PICK v : v = [w EXCEPT !.pc = "claim"]
        OBVIOUS
      <4>1. v.pc = "claim" /\ Steps(c, w, v)
        BY <1>3, <3>1 DEF GoesTo, Body
      <4> QED
        BY <1>11, <2>1, <2>4, <4>1 DEF Kept
    <3>2. CASE Steps(c, w, [w EXCEPT !.pc = "frame", !.node = First(MustAsk)])
      <4> PICK v : v = [w EXCEPT !.pc = "frame", !.node = First(MustAsk)]
        OBVIOUS
      <4>1. v.pc = "frame" /\ Steps(c, w, v)
        BY <1>3, <3>2 DEF Body
      <4> QED
        BY <1>11, <2>1, <2>4, <4>1 DEF Kept
    <3> QED
      BY <1>12, <2>4, <3>1, <3>2 DEF Enter
  <2> QED
    BY <2>2, <2>3, <2>4
<1>21. ASSUME ClaimsInstead(c, w), st' = st, job' = job, w.pc \in {"frame", "ask"}
       PROVE  AllLookedAfter(c)' /\ Drives(c)'
  <2> PICK v : v = [w EXCEPT !.pc = "claim", !.node = NoStep]
    OBVIOUS
  <2>1. v.pc = "claim" /\ Steps(c, w, v)
    BY <1>3, <1>21 DEF ClaimsInstead, Body
  <2> QED
    BY <1>11, <1>21, <2>1 DEF Kept
<1>13. CASE ParkAlone(c, w)
  <2>1. w.pc = "ask" /\ st' = st
    BY <1>13 DEF ParkAlone, At, nodeVars
  <2>2. ~InFrontier(c)
    BY <1>1, <1>3, <2>1 DEF Shape, InFrontier, InLoop, OwnPcs
  <2>3. CASE Puts(c, w, "awaiting_decision")
    BY <1>10, <2>1, <2>2, <2>3
  <2>4. CASE ClaimsInstead(c, w) /\ job' = job
    BY <1>21, <2>1, <2>4
  <2> QED
    BY <1>13, <2>3, <2>4 DEF ParkAlone
<1>22. CASE PeekFails(c, w)
  <2>1. w.pc = "enter" /\ w.node = NoStep /\ st' = st /\ job' = job
    BY <1>22 DEF PeekFails, At, jobVars, nodeVars
  <2> PICK v : v = [w EXCEPT !.pc = "claim"]
    OBVIOUS
  <2>2. v.pc = "claim" /\ Steps(c, w, v)
    BY <1>3, <1>22 DEF PeekFails, GoesTo, Body
  <2> QED
    BY <1>11, <2>1, <2>2 DEF Kept
<1>23. CASE RecheckAlone(c, w)
  <2>1. w.pc = "frame" /\ st' = st /\ job' = job
    BY <1>23 DEF RecheckAlone, At, jobVars, nodeVars
  <2>2. CASE GoesTo(c, w, "ask")
    <3> PICK v : v = [w EXCEPT !.pc = "ask"]
      OBVIOUS
    <3>1. v.pc = "ask" /\ Steps(c, w, v)
      BY <1>3, <2>2 DEF GoesTo, Body
    <3> QED
      BY <1>11, <2>1, <3>1 DEF Kept
  <2>3. CASE ClaimsInstead(c, w)
    BY <1>21, <2>1, <2>3
  <2>4. CASE Steps(c, w, [w EXCEPT !.node = First(MustAsk)])
    <3> PICK v : v = [w EXCEPT !.node = First(MustAsk)]
      OBVIOUS
    <3>1. v.pc = "frame" /\ Steps(c, w, v)
      BY <1>3, <2>1, <2>4 DEF Body
    <3> QED
      BY <1>11, <2>1, <3>1 DEF Kept
  <2> QED
    BY <1>23, <2>2, <2>3, <2>4 DEF RecheckAlone
<1>14. CASE Pick(c, w)
  <2>1. w.pc = "claim" /\ job' = job /\ st' = st
    BY <1>14 DEF Pick, At, jobVars, nodeVars
  <2>2. CASE Ready = {}
    <3> PICK v : v = [w EXCEPT !.pc = "tail"]
      OBVIOUS
    <3>1. v.pc = "tail" /\ Steps(c, w, v)
      BY <1>3, <1>14, <2>2 DEF Pick, GoesTo, Body
    <3> QED
      BY <1>11, <2>1, <3>1 DEF Kept
  <2>3. CASE Ready # {}
    <3> PICK v : v = [w EXCEPT !.node = First(Ready), !.pc = "take"]
      OBVIOUS
    <3>1. v.pc = "take" /\ Steps(c, w, v)
      BY <1>3, <1>14, <2>3 DEF Pick, Body
    <3> QED
      BY <1>11, <2>1, <3>1 DEF Kept
  <2> QED
    BY <2>2, <2>3
<1>24. CASE Take(c, w)
  <2>1. w.pc = "take" /\ job' = job
    BY <1>24 DEF Take, At, jobVars
  <2>2. CASE st[w.node] # "pending"
    <3> PICK v : v = [w EXCEPT !.pc = "tail", !.node = NoStep]
      OBVIOUS
    <3>1. v.pc = "tail" /\ Steps(c, w, v) /\ st' = st
      BY <1>3, <1>24, <2>2 DEF Take, Body
    <3> QED
      BY <1>11, <2>1, <3>1 DEF Kept
  <2>3. CASE st[w.node] = "pending"
    <3> PICK v : v = [w EXCEPT !.claim = claims[w.node] + 1, !.pc = "work"]
      OBVIOUS
    <3>1. v.pc = "work" /\ v.node = w.node
      BY <1>3 DEF Body
    <3>2. Steps(c, w, v) /\ st' = [st EXCEPT ![w.node] = "running"]
      BY <1>24, <2>3 DEF Take
    <3>3. \A m \in Nodes : st'[m] = st[m] \/ m = w.node
      BY <1>1, <3>2 DEF DagTypeOK
    <3>4. Follows(v)
      BY <1>8, <2>1, <3>1, <3>2, <3>3 DEF Follows, Kept
    <3> QED
      BY <1>6, <3>4
  <2> QED
    BY <2>2, <2>3
<1>15. ASSUME NEW v, Steps(c, w, v), v.pc \in {"tail", "ended"}, w.pc = "work", job' = job,
              \A n \in Nodes : st'[n] = "running" => st[n] = "running" /\ n # w.node
       PROVE  AllLookedAfter(c)' /\ Drives(c)'
  <2>1. Follows(v)
    BY <1>8, <1>15 DEF Follows, Kept
  <2> QED
    BY <1>6, <2>1
<1>16. ASSUME NEW s \in {"done", "failed"}, Persist(c, w, s)
       PROVE  AllLookedAfter(c)' /\ Drives(c)'
  <2>1. w.pc = "work" /\ job' = job /\ w.node \in Nodes
    BY <1>1, <1>16 DEF Persist, At, jobVars, BodyRemembers
  <2>2. \A n \in Nodes : st'[n] = "running" => st[n] = "running" /\ n # w.node
    BY <1>1, <1>16, <2>1 DEF Persist, DagTypeOK
  <2>3. CASE Puts(c, w, "stale")
    <3> PICK v : v = [w EXCEPT !.pc = "ended"]
      OBVIOUS
    <3>1. v.pc = "ended" /\ Steps(c, w, v)
      BY <1>3, <2>3 DEF Puts, Body
    <3> QED
      BY <1>15, <2>1, <2>2, <3>1
  <2>4. CASE Steps(c, w, [w EXCEPT !.pc = "tail", !.res = s])
    <3> PICK v : v = [w EXCEPT !.pc = "tail", !.res = s]
      OBVIOUS
    <3>1. v.pc = "tail" /\ Steps(c, w, v)
      BY <1>3, <2>4 DEF Body
    <3> QED
      BY <1>15, <2>1, <2>2, <3>1
  <2> QED
    BY <1>16, <2>3, <2>4 DEF Persist
<1>17. CASE GivesUp(c, w) \/ Shortcut(c, w)
  <2>1. PICK s \in {"done", "failed"} : EndsAtOnce(c, w, s)
    BY <1>17 DEF GivesUp, Shortcut
  <2>2. w.pc = "work" /\ job' = job /\ w.node \in Nodes
    BY <1>1, <2>1 DEF EndsAtOnce, At, jobVars, BodyRemembers
  <2>3. \A n \in Nodes : st'[n] = "running" => st[n] = "running" /\ n # w.node
    BY <1>1, <2>1, <2>2 DEF EndsAtOnce, DagTypeOK
  <2> PICK v : v = [w EXCEPT !.pc = "ended"]
    OBVIOUS
  <2>4. v.pc = "ended" /\ Steps(c, w, v)
    BY <1>3, <2>1 DEF EndsAtOnce, Puts, Body
  <2> QED
    BY <1>15, <2>2, <2>3, <2>4
<1>18. CASE Finish(c, w)
  <2>1. w.pc = "tail" /\ st' = st /\ (job' = job \/ job' = "completed")
    BY <1>18 DEF Finish, At, nodeVars
  <2>2. CASE \E s : Puts(c, w, s)
    BY <1>8, <1>10, <2>1, <2>2 DEF Kept
  <2>3. CASE GoesTo(c, w, "compile")
    <3> PICK v : v = [w EXCEPT !.pc = "compile"]
      OBVIOUS
    <3>1. v.pc = "compile" /\ Steps(c, w, v)
      BY <1>3, <2>3 DEF GoesTo, Body
    <3> QED
      BY <1>11, <2>1, <3>1 DEF Kept
  <2>4. CASE \E s : Steps(c, w, [w EXCEPT !.pc = "partial", !.res = s])
    <3>1. PICK s : Steps(c, w, [w EXCEPT !.pc = "partial", !.res = s])
      BY <2>4
    <3> PICK v : v = [w EXCEPT !.pc = "partial", !.res = s]
      OBVIOUS
    <3>2. v.pc = "partial"
      BY <1>3 DEF Body
    <3> QED
      BY <1>11, <2>1, <3>1, <3>2 DEF Kept
  <2> QED
    BY <1>18, <2>2, <2>3, <2>4 DEF Finish
<1>19. CASE Compile(c, w)
  <2>1. w.pc = "compile" /\ st' = st /\ job' = job /\ \E s : Puts(c, w, s)
    BY <1>19 DEF Compile, At, nodeVars
  <2> QED
    BY <1>8, <1>10, <2>1 DEF Kept
<1>20. CASE Partial(c, w)
  <2>1. w.pc = "partial" /\ st' = st /\ Puts(c, w, "blocked")
    BY <1>20 DEF Partial, At, nodeVars
  <2>2. ~InFrontier(c)
    BY <1>1, <1>3, <2>1 DEF Shape, InFrontier, InLoop, OwnPcs
  <2> QED
    BY <1>10, <2>1, <2>2
<1> QED
  BY <1>2, <1>12, <1>13, <1>14, <1>16, <1>17, <1>18, <1>19, <1>20, <1>22, <1>23, <1>24

\* What a run does on its own.
LEMMA RunLooks ==
  ASSUME ExecutionInv, ShapeInv, ShapeInv', NEW c \in Calls, AllLookedAfter(c), Drives(c), Unharmed,
         RunStep(c)
  PROVE  AllLookedAfter(c)' /\ Drives(c)'
<1>1. CallTypeOK /\ DagTypeOK /\ Shape(c) /\ Shape(c)'
  BY DEF ExecutionInv, TypeOK, ShapeInv
<1>2. ASSUME NEW n \in Nodes, st[n] = "running"
      PROVE  job # "completed"
  BY <1>2 DEF ExecutionInv, CompletedIsWhole, AllHeld, Settled, SettledStatuses, Unharmed
<1>3. ASSUME Leaves(c, "clean"), InLoop(c), st' = st, phase[c] = "final" \/ inflight[c] # {} => job' = job
      PROVE  AllLookedAfter(c)' /\ Drives(c)'
  BY <1>3, LeavesLooks
\* The run goes on in its loop: its bodies keep their steps.
<1>4. ASSUME NEW p \in {"claim", "settle", "frame", "ask", "sum", "drain", "retry", "reset"}, Goto(c, p),
             InFrontier(c), Kept => Kept',
             \A w \in inflight[c] : w.pc # "ended" => w \in inflight'[c],
             \A n \in Nodes : st'[n] = "running" =>
               st[n] = "running" \/ \E w \in inflight'[c] : w.pc = "enter" /\ w.node = n
      PROVE  AllLookedAfter(c)' /\ Drives(c)'
  <2>1. phase'[c] = p
    BY <1>1, <1>4 DEF Goto, CallTypeOK
  <2>2. Drives(c)'
    BY <1>4, <2>1 DEF Drives, InFrontier, InLoop
  <2>3. ASSUME NEW n \in Nodes, st'[n] = "running"
        PROVE  HasIt(c, n)'
    <3>1. CASE st[n] = "running"
      <4>1. HasIt(c, n)
        BY <1>4, <3>1 DEF AllLookedAfter, LooksAfter, InFrontier, InLoop
      <4> QED
        BY <1>4, <4>1 DEF HasIt
    <3>2. CASE \E w \in inflight'[c] : w.pc = "enter" /\ w.node = n
      BY <3>2 DEF HasIt
    <3> QED
      BY <1>4, <2>3, <3>1, <3>2
  <2> QED
    BY <2>2, <2>3 DEF AllLookedAfter, LooksAfter
\* The run has no body: then no step runs that is not the leaving run's.
<1>5. ASSUME inflight[c] = {}, phase[c] \notin {"release", "count", "cleanup"}, NEW n \in Nodes
      PROVE  st[n] # "running"
  BY <1>5 DEF AllLookedAfter, LooksAfter, HasIt
<1>6. CASE Validate(c)
  <2>1. InLoop(c) /\ InFrontier(c) /\ st' = st /\ job' = job
    BY <1>6 DEF Validate, InLoop, InFrontier, jobVars, nodeVars
  <2>2. CASE Leaves(c, "clean")
    BY <1>3, <2>1, <2>2
  <2>3. CASE Goto(c, "claim") /\ inflight' = inflight
    BY <1>4, <2>1, <2>3 DEF Kept
  <2> QED
    BY <1>6, <2>2, <2>3 DEF Validate
<1>7. CASE ClaimFrontier(c)
  <2> DEFINE free == IF Cardinality(inflight[c]) < Cap THEN Cap - Cardinality(inflight[c]) ELSE 0
  <2>1. PICK S : S = FirstOf(Claimable, free)
    OBVIOUS
  <2>2. PICK started :
          started = { [node |-> n, claim |-> claims[n] + 1, pc |-> "enter", res |-> "none"] : n \in S }
    OBVIOUS
  <2>3. /\ phase[c] = "claim" /\ job' = job
        /\ st' = [n \in Nodes |-> IF n \in S THEN "running" ELSE st[n]]
        /\ inflight' = [inflight EXCEPT ![c] = @ \cup started]
        /\ Goto(c, IF inflight[c] \cup started = {} THEN "settle" ELSE "drain")
    BY <1>7, <2>1, <2>2 DEF ClaimFrontier, jobVars
  <2>4. inflight'[c] = inflight[c] \cup started
    BY <1>1, <2>3 DEF CallTypeOK
  <2>5. ASSUME NEW n \in S
        PROVE  \E w \in inflight'[c] : w.pc = "enter" /\ w.node = n
    <3> PICK w : w = [node |-> n, claim |-> claims[n] + 1, pc |-> "enter", res |-> "none"]
      OBVIOUS
    <3>1. w \in inflight'[c] /\ w.pc = "enter" /\ w.node = n
      BY <2>2, <2>4, Zenon
    <3> QED
      BY <3>1
  <2>6. \A n \in Nodes : st'[n] = "running" =>
          st[n] = "running" \/ \E w \in inflight'[c] : w.pc = "enter" /\ w.node = n
    BY <2>3, <2>5
  <2>7. InFrontier(c) /\ (Goto(c, "settle") \/ Goto(c, "drain"))
    BY <2>3 DEF InFrontier, InLoop
  <2> QED
    BY <1>4, <2>3, <2>4, <2>6, <2>7 DEF Kept
<1>8. CASE Settle(c)
  <2>1. /\ InFrontier(c) /\ job' = job /\ st' = st /\ inflight' = inflight
        /\ Goto(c, "sum") \/ Goto(c, "frame")
    BY <1>8 DEF Settle, InFrontier, InLoop, jobVars, nodeVars
  <2> QED
    BY <1>4, <2>1 DEF Kept
<1>20. CASE Recheck(c)
  <2>1. /\ InFrontier(c) /\ job' = job /\ st' = st /\ inflight' = inflight
        /\ Goto(c, "ask") \/ Goto(c, "settle") \/ Goto(c, "sum")
    BY <1>20 DEF Recheck, InFrontier, InLoop, jobVars, nodeVars
  <2> QED
    BY <1>4, <2>1 DEF Kept
<1>9. CASE Park(c)
  <2>1. InLoop(c) /\ InFrontier(c) /\ st' = st /\ phase[c] = "ask" /\ inflight[c] = {}
    BY <1>1, <1>9 DEF Park, InLoop, InFrontier, Shape, nodeVars
  <2>2. CASE Leaves(c, "clean")
    BY <1>3, <2>1, <2>2
  <2>3. CASE Goto(c, "sum") /\ inflight' = inflight /\ job' = job
    BY <1>4, <2>1, <2>3 DEF Kept
  <2> QED
    BY <1>9, <2>2, <2>3 DEF Park
<1>10. CASE Sum(c)
  <2>1. InLoop(c) /\ InFrontier(c) /\ st' = st /\ job' = job /\ phase[c] = "sum"
    BY <1>10 DEF Sum, InLoop, InFrontier, jobVars, nodeVars
  <2>2. CASE AllDone
    BY <1>3, <1>10, <2>1, <2>2 DEF Sum
  <2>3. CASE ~AllDone
    <3>1. phase'[c] = "final"
      BY <1>1, <1>10, <2>3 DEF Sum, Goto, CallTypeOK
    <3>2. \A n \in Nodes : st'[n] # "running"
      BY <1>1, <1>5, <2>1 DEF Shape
    <3> QED
      BY <2>1, <3>1, <3>2 DEF AllLookedAfter, Drives, InFrontier, InLoop, Kept
  <2> QED
    BY <2>2, <2>3
<1>11. CASE FinalReturns(c) \/ DrainBudget(c) \/ QuotaStops(c)
  <2>1. InLoop(c) /\ st' = st /\ job' = job /\ Leaves(c, "clean")
    BY <1>11 DEF FinalReturns, DrainBudget, QuotaStops, InLoop, jobVars, nodeVars
  <2> QED
    BY <1>3, <2>1
<1>12. CASE Drain(c) \/ Keepalive(c)
  <2>1. /\ InFrontier(c) /\ st' = st /\ job' = job /\ inflight'[c] = Live(c)
        /\ Goto(c, "retry") \/ Goto(c, "claim")
    BY <1>1, <1>12 DEF Drain, Keepalive, InFrontier, InLoop, CallTypeOK, jobVars, nodeVars
  <2> QED
    BY <1>4, <2>1 DEF Kept, Live
<1>13. CASE AutoRetryReads(c)
  <2>1. /\ InFrontier(c) /\ st' = st /\ job' = job /\ inflight' = inflight
        /\ Goto(c, "reset") \/ Goto(c, "claim")
    BY <1>13 DEF AutoRetryReads, InFrontier, InLoop, jobVars, nodeVars
  <2> QED
    BY <1>4, <2>1 DEF Kept
<1>14. CASE AutoRetryResets(c)
  <2>1. InFrontier(c) /\ inflight' = inflight /\ Goto(c, "claim")
    BY <1>14 DEF AutoRetryResets, InFrontier, InLoop
  <2>2. Kept => Kept'
    BY <1>14 DEF AutoRetryResets, Resets, Kept
  <2>3. \A n \in Nodes : st'[n] = "running" => st[n] = "running"
    BY <1>1, <1>14 DEF AutoRetryResets, Resets, DagTypeOK
  <2> QED
    BY <1>4, <2>1, <2>2, <2>3
\* Out of the loop: the held steps go back, or the cleanup is to come.
<1>15. ASSUME NEW n \in Nodes, phase[c] \in {"release", "count", "cleanup"}, st[n] = "running"
       PROVE  (phase[c] = "release" /\ n \in held[c]) \/ job = "running"
  BY <1>1, <1>15 DEF Shape, AllLookedAfter, LooksAfter, HasIt
<1>16. CASE Release(c)
  <2>1. phase[c] = "release" /\ phase'[c] \in {"count", "cleanup"} /\ job' = job
    BY <1>1, <1>16 DEF Release, Goto, Spawned, CallTypeOK, jobVars
  <2>2. ASSUME NEW n \in Nodes, st'[n] = "running"
        PROVE  job = "running"
    <3>1. CASE st' = [m \in Nodes |-> IF m \in held[c] /\ st[m] = "running" THEN "pending" ELSE st[m]]
      BY <1>15, <2>1, <2>2, <3>1
    <3>2. CASE why[c] = "cancelled" /\ st' = st
      BY <1>2, <2>1, <2>2, <3>2 DEF Drives, Kept
    <3> QED
      BY <1>16, <3>1, <3>2 DEF Release
  <2> QED
    BY <2>1, <2>2 DEF AllLookedAfter, LooksAfter, Drives, InFrontier, InLoop
<1>17. CASE Count(c)
  <2>1. phase[c] = "count" /\ phase'[c] = "cleanup" /\ job' = job /\ st' = st
    BY <1>1, <1>17 DEF Count, Goto, CallTypeOK, jobVars, nodeVars
  <2> QED
    BY <1>15, <2>1 DEF AllLookedAfter, LooksAfter, Drives, InFrontier, InLoop
<1>18. CASE Cleanup(c)
  <2>1. phase[c] = "cleanup" /\ phase'[c] = "over"
    BY <1>1, <1>18 DEF Cleanup, Goto, CallTypeOK
  <2>2. ASSUME NEW n \in Nodes
        PROVE  st'[n] # "running"
    <3>1. CASE job = "running"
      BY <1>18, <3>1 DEF Cleanup, MayMoveFrom
    <3>2. CASE job # "running"
      BY <1>15, <1>18, <2>1, <3>2 DEF Cleanup, MayMoveFrom
    <3> QED
      BY <3>1, <3>2
  <2> QED
    BY <2>1, <2>2 DEF AllLookedAfter, Drives, InFrontier, InLoop
<1>19. CASE SoloReturns(c)
  <2>1. phase[c] = "solo" /\ phase'[c] = "over" /\ st' = st /\ Live(c) = {}
    BY <1>1, <1>19 DEF SoloReturns, Goto, CallTypeOK, nodeVars
  <2>2. \A n \in Nodes : ~LooksAfter(c, n)
    BY <2>1 DEF LooksAfter, HasIt, Live
  <2> QED
    BY <2>1, <2>2 DEF AllLookedAfter, Drives, InFrontier, InLoop
<1> QED
  BY <1>6, <1>7, <1>8, <1>9, <1>10, <1>11, <1>12, <1>13, <1>14, <1>16, <1>17, <1>18, <1>19, <1>20 DEF RunStep

LEMMA CallLooks ==
  ASSUME ExecutionInv, ShapeInv, ShapeInv', NEW c \in Calls, AllLookedAfter(c), Drives(c), Unharmed,
         ~Outside("quota"), Admit(c) \/ Solo(c) \/ RunStep(c) \/ BodyStep(c) \/ RunUpset(c)
  PROVE  AllLookedAfter(c)' /\ Drives(c)'
<1>1. CallTypeOK /\ Shape(c)
  BY DEF ExecutionInv, TypeOK, ShapeInv
<1>2. CASE Admit(c) \/ Solo(c)
  <2>1. \A n \in Nodes : st[n] # "running"
    BY <1>1, <1>2 DEF Admit, Solo, Shape, AllLookedAfter, LooksAfter, HasIt
  <2>2. \/ phase'[c] = "gate" /\ job' = "running"
        \/ phase'[c] = "solo" /\ inflight'[c] = {FreshCall}
    BY <1>1, <1>2 DEF Admit, Solo, Goto, CallTypeOK
  <2>3. st' = st
    BY <1>2 DEF Admit, Solo, nodeVars
  <2> QED
    BY <2>1, <2>2, <2>3 DEF AllLookedAfter, Drives, InFrontier, InLoop, Kept, FreshCall
<1>3. CASE HandsOnGate(c) \/ RunFails(c) \/ (Disconnect(c) /\ Leaves(c, "cancelled") /\ InLoop(c))
  <2>1. InLoop(c) /\ st' = st
    BY <1>3 DEF HandsOnGate, RunFails, Disconnect, InLoop, nodeVars
  <2>2. \E r : Leaves(c, r) /\ (phase[c] = "final" \/ inflight[c] # {} => job' = job)
    BY <1>1, <1>3 DEF HandsOnGate, RunFails, Disconnect, Shape, jobVars
  <2> QED
    BY <2>1, <2>2, LeavesLooks
<1>4. CASE Disconnect(c) /\ phase[c] = "release" /\ phase' = phase /\ inflight' = inflight /\ held' = held
  <2>1. st' = st /\ job' = job
    BY <1>4 DEF Disconnect, jobVars, nodeVars
  <2> QED
    BY <1>4, <2>1 DEF AllLookedAfter, LooksAfter, HasIt, Drives, InFrontier, InLoop, Kept
<1>5. CASE LookFails(c)
  <2>1. phase[c] = "settle" /\ phase'[c] = "sum" /\ inflight' = inflight /\ st' = st /\ job' = job
    BY <1>1, <1>5 DEF LookFails, Goto, CallTypeOK, jobVars, nodeVars
  <2> QED
    BY <2>1 DEF AllLookedAfter, LooksAfter, HasIt, Drives, InFrontier, InLoop, Kept
<1>6. CASE RunUpset(c)
  <2>1. ~Reread(c)
    BY DEF Reread, StaleTests, Outside, Unharmed
  <2>2. ~DrainQuota(c)
    BY DEF DrainQuota
  <2>3. CASE Disconnect(c)
    BY <1>3, <1>4, <2>3 DEF Disconnect
  <2> QED
    BY <1>3, <1>5, <1>6, <2>1, <2>2, <2>3 DEF RunUpset
<1> QED
  BY <1>2, <1>6, RunLooks, BodyLooks

\* Beside the calls nothing starts a step, and nothing takes the job from its run.
LEMMA OutsideLooks ==
  ASSUME ExecutionInv, LeftInv, Unharmed, StepNext \/ JobNext \/ UNCHANGED vars
  PROVE  LeftInv'
<1>1. DagTypeOK
  BY DEF ExecutionInv, TypeOK
<1>2. phase' = phase /\ inflight' = inflight /\ held' = held /\ why' = why
  BY DEF StepNext, JobNext, OperatorRetryReads, Skip, Reset, ReapOrphan, ReapSlow, OperatorRetryResets,
         CancelJob, Resume, Decide, Reask, ReapStaleJob, vars, callVars
<1>3. ~CancelJob /\ ~ReapStaleJob /\ \A n \in Nodes : ~Reset(n)
  BY DEF Unharmed, CancelJob, ReapStaleJob, Reset, Outside
<1>4. Kept => job' = job
  BY <1>3 DEF StepNext, JobNext, OperatorRetryReads, Skip, ReapOrphan, ReapSlow, OperatorRetryResets,
              Resets, Resume, Decide, Reask, vars, jobVars, Kept
<1>5. ASSUME NEW n \in Nodes, st'[n] = "running"
      PROVE  st[n] = "running"
  <2>1. CASE StepNext
    BY <1>1, <1>3, <1>5, <2>1 DEF StepNext, OperatorRetryReads, Skip, ReapOrphan, ReapSlow, Reap, nodeVars,
                            DagTypeOK
  <2>2. CASE JobNext \/ UNCHANGED vars
    BY <1>1, <1>3, <1>5, <2>2 DEF JobNext, OperatorRetryResets, Resets, Resume, Decide, Reask, vars,
                                  nodeVars, DagTypeOK
  <2> QED
    BY <2>1, <2>2
<1>6. \A c \in Calls : \A n \in Nodes : LooksAfter(c, n) => LooksAfter(c, n)'
  BY <1>2, <1>4 DEF LooksAfter, HasIt, Kept
<1>7. \A c \in Calls : Drives(c)'
  BY <1>2, <1>4 DEF LeftInv, Drives, InFrontier, InLoop, Live, Kept
<1> QED
  BY <1>5, <1>6, <1>7 DEF LeftInv

LEMMA NextLooks ==
  ASSUME ExecutionInv, ShapeInv, ShapeInv', LeftInv, NoOverlap, NoOverlap', Unharmed, ~Outside("quota"),
         [Next]_vars
  PROVE  LeftInv'
<1>1. ASSUME NEW c \in Calls, Admit(c) \/ Solo(c) \/ RunStep(c) \/ BodyStep(c) \/ RunUpset(c)
      PROVE  LeftInv'
  <2>1. \A d \in Calls \ {c} : Rests(d)'
    BY <1>1, CallMovesAlone, OthersRest
  <2>2. \A d \in Calls \ {c} : Rests(d)
    BY <1>1, <2>1, CallMovesAlone DEF Rests, SameBodies
  <2>3. AllLookedAfter(c) /\ Drives(c)
    BY <2>2, MoverLooksAfter DEF LeftInv
  <2>4. AllLookedAfter(c)' /\ Drives(c)'
    BY <1>1, <2>3, CallLooks
  <2> QED
    BY <2>1, <2>4, OneCallLooks
<1> QED
  BY <1>1, OutsideLooks DEF Next, CallNext

LEMMA InitLooks == Init => LeftInv
  BY DEF Init, DagInit, LeftInv, Drives, InFrontier, InLoop

\* A run that leaves cleanly counts first, with what it had in work given back.
LeftInOrder(c) == GivenBack(c) /\ (phase[c] = "count" => why[c] = "clean")

\* What one step of another call or of the environment leaves of a run that gave back.
LEMMA OthersGiveBack ==
  ASSUME ExecutionInv, ShapeInv, NEW c \in Calls, LeftInOrder(c), NoOverlap, [Next]_vars,
         phase'[c] = phase[c], why'[c] = why[c], held'[c] = held[c]
  PROVE  LeftInOrder(c)'
<1> SUFFICES ASSUME phase[c] \in {"count", "cleanup"}, why[c] # "cancelled", NEW n \in held[c],
                    n \in Nodes, st'[n] = "running"
             PROVE  FALSE
  BY DEF LeftInOrder, GivenBack
<1>1. st[n] # "running"
  BY DEF LeftInOrder, GivenBack
<1>2. PICK d \in Calls : ClaimFrontier(d) \/ \E w \in inflight[d] : Take(d, w)
  BY <1>1, OnlyClaimsStart
<1>3. ~Rests(d)
  BY <1>2 DEF ClaimFrontier, Rests, ShapeInv, Shape
<1>4. d = c
  BY <1>3 DEF NoOverlap, Rests
<1> QED
  BY <1>2, <1>4 DEF ClaimFrontier, ShapeInv, Shape

\* A run's own step: out of its loop it holds what it gives back on the way.
LEMMA RunGivesBack ==
  ASSUME ExecutionInv, ShapeInv, NEW c \in Calls, LeftInOrder(c), NoOverlap, [Next]_vars,
         Admit(c) \/ Solo(c) \/ RunStep(c) \/ BodyStep(c) \/ RunUpset(c)
  PROVE  LeftInOrder(c)'
<1>1. CallTypeOK /\ Shape(c)
  BY DEF ExecutionInv, TypeOK, ShapeInv
<1>2. CASE phase'[c] \notin {"count", "cleanup"}
  BY <1>2 DEF LeftInOrder, GivenBack
<1>3. ASSUME NEW r, Leaves(c, r)
      PROVE  LeftInOrder(c)'
  <2>1. /\ phase'[c] \in {"count", "cleanup"} => held'[c] = {}
        /\ phase'[c] = "count" => why'[c] = "clean"
    BY <1>1, <1>3 DEF Leaves, Goto, Spawned, CallTypeOK
  <2> QED
    BY <2>1 DEF LeftInOrder, GivenBack
<1>4. CASE Release(c)
  <2>1. why' = why /\ held' = held
    BY <1>4 DEF Release
  <2>2. why[c] # "cancelled" =>
          st' = [n \in Nodes |-> IF n \in held[c] /\ st[n] = "running" THEN "pending" ELSE st[n]]
    BY <1>4 DEF Release
  <2>3. phase'[c] = "count" => why[c] = "clean"
    BY <1>1, <1>4 DEF Release, Goto, Spawned, CallTypeOK
  <2> QED
    BY <2>1, <2>2, <2>3 DEF LeftInOrder, GivenBack
<1>5. CASE Count(c)
  <2>1. phase[c] = "count" /\ phase'[c] = "cleanup" /\ held' = held /\ st' = st
    BY <1>1, <1>5 DEF Count, Goto, CallTypeOK, nodeVars
  <2>2. why[c] # "cancelled"
    BY <2>1 DEF LeftInOrder
  <2> QED
    BY <2>1, <2>2 DEF LeftInOrder, GivenBack
<1>6. CASE RunStep(c) /\ ~Release(c) /\ ~Count(c)
  <2>1. \/ \E r : Leaves(c, r)
        \/ \E p \in {"claim", "settle", "frame", "ask", "drain", "sum", "final", "retry", "reset", "over"} :
             Goto(c, p)
    BY <1>6 DEF RunStep, Validate, ClaimFrontier, Settle, Recheck, Park, Sum, FinalReturns, Drain,
                Keepalive, DrainBudget, QuotaStops, AutoRetryReads, AutoRetryResets, Cleanup, SoloReturns
  <2> QED
    BY <1>1, <1>2, <1>3, <2>1 DEF Goto, CallTypeOK
<1>7. CASE Admit(c) \/ Solo(c)
  BY <1>1, <1>2, <1>7 DEF Admit, Solo, Goto, CallTypeOK
<1>8. CASE RunUpset(c)
  <2>1. \/ \E r : Leaves(c, r)
        \/ \E p \in {"claim", "sum", "quota"} : Goto(c, p)
        \/ phase' = phase /\ phase[c] = "release"
    BY <1>8 DEF RunUpset, HandsOnGate, RunFails, LookFails, Reread, DrainQuota, Disconnect
  <2> QED
    BY <1>1, <1>2, <1>3, <2>1 DEF Goto, CallTypeOK
<1>9. CASE BodyStep(c)
  <2>1. PICK w \in inflight[c] : \E v : BodyGoes(c, w, v)
    BY <1>9, BodyGoesOn
  <2>2. phase'[c] \notin {"count", "cleanup"}
    BY <1>1, <2>1 DEF BodyGoes, Shape
  <2> QED
    BY <1>2, <2>2
<1> QED
  BY <1>4, <1>5, <1>6, <1>7, <1>8, <1>9

LEMMA OthersLeftAlone ==
  ASSUME ExecutionInv, NEW c \in Calls, NEW d \in Calls, c # d,
         Admit(d) \/ Solo(d) \/ RunStep(d) \/ BodyStep(d) \/ RunUpset(d)
  PROVE  phase'[c] = phase[c] /\ why'[c] = why[c] /\ held'[c] = held[c]
<1>1. CallTypeOK
  BY DEF ExecutionInv, TypeOK
<1>2. ASSUME NEW r, Leaves(d, r)
      PROVE  phase'[c] = phase[c] /\ why'[c] = why[c] /\ held'[c] = held[c]
  BY <1>1, <1>2 DEF Leaves, Goto, CallTypeOK
<1>3. ASSUME NEW p, Goto(d, p)
      PROVE  phase'[c] = phase[c]
  BY <1>1, <1>3 DEF Goto, CallTypeOK
<1>4. CASE Admit(d) \/ Solo(d)
  BY <1>3, <1>4 DEF Admit, Solo
<1>5. CASE RunStep(d)
  BY <1>1, <1>2, <1>3, <1>5
     DEF RunStep, Validate, ClaimFrontier, Settle, Recheck, Park, Sum, FinalReturns, Drain, Keepalive,
         DrainBudget, QuotaStops, AutoRetryReads, AutoRetryResets, Release, Count, Cleanup, SoloReturns,
         CallTypeOK
<1>6. CASE RunUpset(d)
  BY <1>1, <1>2, <1>3, <1>6
     DEF RunUpset, HandsOnGate, RunFails, LookFails, Reread, DrainQuota, Disconnect, CallTypeOK
<1>7. CASE BodyStep(d)
  BY <1>7 DEF BodyStep, Enter, PeekFails, OverBudget, RereadAlone, RecheckAlone, ParkAlone, Pick, Take,
              Persist, GivesUp, Shortcut, EndsAtOnce, WorkerError, Finish, Compile, Partial
<1> QED
  BY <1>4, <1>5, <1>6, <1>7

LEMMA NextGivesBack ==
  ASSUME ExecutionInv, ShapeInv, \A c \in Calls : LeftInOrder(c), NoOverlap, [Next]_vars
  PROVE  \A c \in Calls : LeftInOrder(c)'
<1>1. ASSUME NEW d \in Calls, Admit(d) \/ Solo(d) \/ RunStep(d) \/ BodyStep(d) \/ RunUpset(d),
             NEW c \in Calls
      PROVE  LeftInOrder(c)'
  <2>1. CASE c = d
    BY <1>1, <2>1, RunGivesBack
  <2>2. CASE c # d
    <3>1. phase'[c] = phase[c] /\ why'[c] = why[c] /\ held'[c] = held[c]
      BY <1>1, <2>2, OthersLeftAlone
    <3> QED
      BY <3>1, OthersGiveBack
  <2> QED
    BY <2>1, <2>2
<1>2. CASE StepNext \/ JobNext \/ UNCHANGED vars
  <2>1. phase' = phase /\ why' = why /\ held' = held
    BY <1>2 DEF StepNext, JobNext, OperatorRetryReads, Skip, Reset, ReapOrphan, ReapSlow,
                OperatorRetryResets, CancelJob, Resume, Decide, Reask, ReapStaleJob, vars, callVars
  <2> QED
    BY <2>1, OthersGiveBack
<1> QED
  BY <1>1, <1>2 DEF Next, CallNext

\* When calls do not overlap, what a run had in work when it left is given back before
\* its cleanup, unless the release is interrupted, whatever else happens beside it.
THEOREM AloneGivesBack == Spec /\ []NoOverlap => [](\A c \in Calls : GivenBack(c))
<1>1. ExecutionInv /\ ShapeInv /\ (\A c \in Calls : LeftInOrder(c)) /\ NoOverlap /\ [Next]_vars
        => (\A c \in Calls : LeftInOrder(c))'
  BY NextGivesBack
<1>2. Init => \A c \in Calls : LeftInOrder(c)
  BY DEF Init, LeftInOrder, GivenBack
<1>3. (\A c \in Calls : LeftInOrder(c)) => \A c \in Calls : GivenBack(c)
  BY DEF LeftInOrder
<1> QED
  BY ExecutionSafety, AloneIsQuiet, <1>1, <1>2, <1>3, PTL DEF Spec

\* And the calls that are over have left no step running, whatever was skipped,
\* retried, reaped, parked, disconnected or failed meanwhile, unless the account's
\* limit was hit.
THEOREM AloneLeavesNothing == Unharmed => (Spec /\ []NoOverlap => []NothingLeftRunning)
<1> SUFFICES ASSUME Unharmed PROVE Spec /\ []NoOverlap => []NothingLeftRunning
  OBVIOUS
<1> DEFINE LeftOrLimit == LeftInv \/ Happened("quota")
<1>1. /\ ExecutionInv /\ ExecutionInv' /\ ShapeInv /\ ShapeInv' /\ LeftOrLimit
      /\ NoOverlap /\ NoOverlap' /\ [Next]_vars
      => LeftOrLimit'
  BY NextLooks, RecordIsKept DEF EventKinds
<1>2. Init => LeftOrLimit
  BY InitLooks
<1>3. ShapeInv /\ LeftOrLimit /\ (\A c \in Calls : GivenBack(c)) => NothingLeftRunning
  BY DEF ShapeInv, Shape, LeftInv, LooksAfter, HasIt, NothingLeftRunning
<1> QED
  BY ExecutionSafety, AloneIsQuiet, AloneGivesBack, <1>1, <1>2, <1>3, PTL DEF Spec

-----------------------------------------------------------------------------
(* The deliverable.  Whoever settles the last step of the plan is a body on its *)
(* way to look whether the plan is finished; the one that finds it so completes *)
(* the job and compiles.  This is broken when the last step is settled by       *)
(* somebody who does not look (a skip, an answer, a shortcut), when the body is  *)
(* cut off on its way (by the run's budget or quota, or another call's cleanup)  *)
(* or lost with an exception of its own, and when it finds the job failed or     *)
(* cancelled under it.                                                           *)

\* Nothing takes the job from under a run or puts a done step back.
Compiles ==
  /\ Decisions = {}
  /\ Events \cap {"cancel", "budget", "stale_reap", "reset", "stale_tests"} = {}
  /\ Reopenable = {}

\* A step is settled by somebody who does not look, or its body is lost.
Unseen == Outside("skip") \/ Outside("shortcut") \/ Outside("worker_error")
UnseenBefore == Happened("skip") \/ Happened("shortcut") \/ Happened("worker_error")

\* The run that drains a quota failure cuts nobody off who settled the last step, for
\* the failure it drained still stands, then and until it leaves.
QuotaStands == "quota" \notin Events \/ ClaimInv

CutOff == \E c \in Calls : why[c] \in {"cancelled", "exception"}
Has(c, p) == \E w \in inflight[c] : w.pc = p

\* A finished plan has its text, or the body that is on its way to it.
Delivers ==
  AllDone /\ SomeDone =>
    \/ CutOff
    \/ job = "completed" /\ (output = "final" \/ \E c \in Calls : Has(c, "compile"))
    \/ job # "completed" /\ \E c \in Calls : Has(c, "tail")

Uncut(c) ==
  /\ phase[c] \notin {"release", "cleanup", "over"} => why[c] = "clean"
  /\ phase[c] = "quota" => "quota" \in Events /\ \E n \in Nodes : st[n] = "failed"
  /\ \A i \in DOMAIN results[c] : results[c][i].status # "budget_exhausted"
  /\ \A w \in inflight[c] :
       /\ w.res # "budget_exhausted"
       /\ w.pc \in {"claim", "take", "work", "tail"} => job \notin {"failed", "cancelled"}
       /\ w.pc = "partial" => ~AllDone

CompiledInv == Delivers /\ \A c \in Calls : Uncut(c)

\* The same, said by the one call that has bodies.
DeliversBy(c) ==
  AllDone /\ SomeDone =>
    \/ CutOff
    \/ job = "completed" /\ (output = "final" \/ Has(c, "compile"))
    \/ job # "completed" /\ Has(c, "tail")

LEMMA MoverDelivers ==
  ASSUME ShapeInv, Delivers, NEW c \in Calls, \A d \in Calls \ {c} : Rests(d)
  PROVE  DeliversBy(c)
<1>1. \A d \in Calls \ {c} : inflight[d] = {}
  BY DEF Rests, ShapeInv, Shape
<1> QED
  BY <1>1 DEF Delivers, DeliversBy, Has

\* Most writes settle no step: they leave a finished plan alone, or leave the plan
\* unfinished.
SettlesNone == \A n \in Nodes : st'[n] = st[n] \/ st'[n] \notin SettledStatuses

LEMMA NoneSettled ==
  ASSUME SettlesNone
  PROVE  AllDone' => AllDone /\ (SomeDone' => SomeDone)
  BY DEF SettlesNone, AllDone, Settled, SomeDone

\* No decisions, no questions.
LEMMA NoQuestions ==
  ASSUME Compiles, QuietInv
  PROVE  /\ MustAsk = {} /\ job # "awaiting_decision"
         /\ \A c \in Calls : /\ phase[c] \notin {"frame", "ask"}
                             /\ \A w \in inflight[c] : w.pc \notin {"frame", "ask"}
<1>1. Undelegated = {}
  BY DEF Compiles, Undelegated
<1> QED
  BY <1>1 DEF MustAsk, QuietInv, ParkedAsks, Quiet, Asks

\* A call whose bodies only lose ones that are on no such way, or gain ones that
\* are, beside rows that settle nothing.
LEMMA CarriesOn ==
  ASSUME NEW c \in Calls, DeliversBy(c), SettlesNone,
         CutOff => CutOff',
         AllDone /\ SomeDone /\ ~CutOff =>
           /\ job' = job /\ output' = output
           /\ Has(c, "tail") => Has(c, "tail")'
           /\ Has(c, "compile") => Has(c, "compile")'
  PROVE  DeliversBy(c)'
  BY NoneSettled DEF DeliversBy

\* No body of a call takes a failed step up.
LEMMA BodyLeavesFailed ==
  ASSUME ExecutionInv, Events \cap {"stale_tests"} = {}, NEW c \in Calls, BodyStep(c),
         NEW n \in Nodes, st[n] = "failed"
  PROVE  st'[n] = "failed"
<1>1. DagTypeOK
  BY DEF ExecutionInv, TypeOK
<1>2. \A w : ~RereadAlone(c, w)
  BY DEF RereadAlone, StaleTests, Outside
<1> QED
  BY <1>1, <1>2 DEF BodyStep, Enter, PeekFails, OverBudget, RecheckAlone, ParkAlone, Pick, Take,
     Persist, GivesUp, Shortcut, EndsAtOnce, WorkerError, Finish, Compile, Partial, nodeVars, DagTypeOK

\* A body.
LEMMA BodyCompiles ==
  ASSUME ExecutionInv, ShapeInv, QuietInv, Compiles, ~Unseen, NEW c \in Calls, DeliversBy(c), Uncut(c),
         BodyStep(c)
  PROVE  DeliversBy(c)' /\ Uncut(c)' /\ why' = why
<1>1. /\ CallTypeOK /\ DagTypeOK /\ Shape(c) /\ CompletedIsWhole
      /\ \A w \in inflight[c] : BodyRemembers(w)
      /\ \A w \in inflight[c] : w.pc \notin {"frame", "ask"}
  BY NoQuestions DEF ExecutionInv, TypeOK, ShapeInv
<1>4. ASSUME NEW w \in inflight[c]
      PROVE  /\ ~OverBudget(c, w) /\ ~Shortcut(c, w) /\ ~WorkerError(c, w)
             /\ ~RereadAlone(c, w) /\ ~RecheckAlone(c, w) /\ ~ParkAlone(c, w)
  BY <1>1 DEF Compiles, Unseen, OverBudget, Shortcut, WorkerError, Outside, RereadAlone, RecheckAlone,
              ParkAlone, At
<1>2. PICK w \in inflight[c] :
        \/ Enter(c, w) \/ PeekFails(c, w) \/ Pick(c, w) \/ Take(c, w)
        \/ Persist(c, w, "done") \/ Persist(c, w, "failed") \/ GivesUp(c, w)
        \/ Finish(c, w) \/ Compile(c, w) \/ Partial(c, w)
  BY <1>4 DEF BodyStep
<1>3. /\ w \in Body /\ phase' = phase /\ why' = why
      /\ w.res # "budget_exhausted"
      /\ w.pc \in {"claim", "take", "work", "tail"} => job \notin {"failed", "cancelled"}
      /\ w.pc = "partial" => ~AllDone
  BY <1>1, <1>2
     DEF CallTypeOK, Uncut, Enter, PeekFails, Pick, Take, Persist, GivesUp, EndsAtOnce, Finish, Compile, Partial
<1> SUFFICES DeliversBy(c)' /\ Uncut(c)'
  BY <1>3
<1>5. CutOff' <=> CutOff
  BY <1>3 DEF CutOff
\* What has to be shown of the body's next record, v, and of the result it puts.
<1> DEFINE Tells(s) == /\ s # "budget_exhausted"
                       /\ results' = [results EXCEPT ![c] = Append(@, [node |-> w.node, status |-> s])]
           Follows(v) ==
      /\ Steps(c, w, v)
      /\ results' = results \/ \E s \in Outcomes : Tells(s)
      /\ v.res # "budget_exhausted"
      /\ v.pc \in {"claim", "take", "work", "tail"} => job' \notin {"failed", "cancelled"}
      /\ v.pc = "partial" => ~AllDone'
      /\ job' \in {job, "completed", "blocked"}
<1>6. ASSUME NEW v, Steps(c, w, v)
      PROVE  inflight'[c] = (inflight[c] \ {w}) \cup {v}
  BY <1>1, <1>6 DEF Steps, CallTypeOK
<1>7. ASSUME NEW v, Follows(v)
      PROVE  Uncut(c)'
  <2>1. \A i \in DOMAIN results'[c] : results'[c][i].status # "budget_exhausted"
    <3>1. CASE results' = results
      BY <3>1 DEF Uncut
    <3>2. ASSUME NEW s \in Outcomes, Tells(s)
          PROVE  \A i \in DOMAIN results'[c] : results'[c][i].status # "budget_exhausted"
      <4> DEFINE r == [node |-> w.node, status |-> s]
      <4>1. r \in Result /\ r.status # "budget_exhausted" /\ results[c] \in Seq(Result)
        BY <1>1, <1>3, <3>2 DEF Result, Body, CallTypeOK
      <4>2. results'[c] = Append(results[c], r)
        BY <1>1, <3>2 DEF CallTypeOK
      <4> HIDE DEF r
      <4>3. \A i \in DOMAIN results'[c] :
              results'[c][i] = r \/ (i \in DOMAIN results[c] /\ results'[c][i] = results[c][i])
        BY <4>1, <4>2
      <4> QED
        BY <4>1, <4>3 DEF Uncut
    <3> QED
      BY <1>7, <3>1, <3>2
  <2>2. ASSUME NEW u \in inflight'[c]
        PROVE  /\ u.res # "budget_exhausted"
               /\ u.pc \in {"claim", "take", "work", "tail"} => job' \notin {"failed", "cancelled"}
               /\ u.pc = "partial" => ~AllDone'
    <3>1. u = v \/ (u \in inflight[c] /\ u # w)
      BY <1>6, <1>7, <2>2
    <3>2. u \in inflight[c] /\ u # w => u.pc # "partial"
      BY <1>1, <1>3 DEF Shape, OwnPcs
    <3> QED
      BY <1>7, <3>1, <3>2 DEF Uncut
  <2>3. ASSUME NEW n \in Nodes, st[n] = "failed"
        PROVE  st'[n] = "failed"
    BY <2>3, BodyLeavesFailed DEF Compiles
  <2> QED
    BY <1>3, <2>1, <2>2, <2>3 DEF Uncut
<1>8. ASSUME NEW v, Steps(c, w, v), w.pc \in {"enter", "claim", "take", "work"},
             SettlesNone, job' = job, output' = output
      PROVE  DeliversBy(c)'
  <2>1. Has(c, "tail") => Has(c, "tail")'
    BY <1>6, <1>8 DEF Has
  <2>2. Has(c, "compile") => Has(c, "compile")'
    BY <1>6, <1>8 DEF Has
  <2> QED
    BY <1>5, <1>8, <2>1, <2>2, CarriesOn
<1>9. st' = st => SettlesNone /\ (AllDone' <=> AllDone) /\ (SomeDone' <=> SomeDone)
  BY DEF SettlesNone, AllDone, Settled, SomeDone
\* A body that ends, and one that only goes on.
<1>10. ASSUME NEW s \in Outcomes \ {"budget_exhausted"}, Puts(c, w, s),
              job' \in {job, "completed", "blocked"}
       PROVE  \E v : Follows(v) /\ v.pc = "ended"
  <2> PICK v : v = [w EXCEPT !.pc = "ended"]
    OBVIOUS
  <2>1. v.pc = "ended" /\ v.res = w.res /\ Steps(c, w, v)
    BY <1>3, <1>10 DEF Body, Puts
  <2>2. Tells(s)
    BY <1>10 DEF Puts
  <2> QED
    BY <1>3, <1>10, <2>1, <2>2
<1>11. ASSUME NEW p \in BodyPcs \ {"partial"}, GoesTo(c, w, p),
              p \in {"claim", "take", "work", "tail"} => job' \notin {"failed", "cancelled"},
              job' \in {job, "completed", "blocked"}
       PROVE  \E v : Follows(v) /\ v.pc = p
  <2> PICK v : v = [w EXCEPT !.pc = p]
    OBVIOUS
  <2>1. v.pc = p /\ v.res = w.res
    BY <1>3 DEF Body
  <2>2. Steps(c, w, v) /\ results' = results
    BY <1>11 DEF GoesTo
  <2> QED
    BY <1>3, <1>11, <2>1, <2>2
\* The steps that settle nothing and are not on the way to the text.
<1>12. ASSUME \E v : Follows(v), w.pc \in {"enter", "claim", "take", "work"}, SettlesNone,
              job' = job, output' = output
       PROVE  DeliversBy(c)' /\ Uncut(c)'
  BY <1>7, <1>8, <1>12
<1> HIDE DEF Follows
<1>13. CASE Enter(c, w)
  <2>1. w.pc = "enter" /\ job' = job /\ output' = output /\ st' = st
    BY <1>13 DEF Enter, At, jobVars, nodeVars
  <2>2. \/ Puts(c, w, "error")
        \/ Executable /\ \E p \in {"work", "claim"} : GoesTo(c, w, p)
    BY <1>13, NoQuestions DEF Enter
  <2>3. \E v : Follows(v)
    BY <1>10, <1>11, <2>1, <2>2 DEF Outcomes, BodyPcs, Executable, ExecutableStatuses
  <2> QED
    BY <1>9, <1>12, <2>1, <2>3
<1>21. CASE PeekFails(c, w)
  <2>1. w.pc = "enter" /\ job' = job /\ output' = output /\ st' = st /\ Executable /\ GoesTo(c, w, "claim")
    BY <1>21 DEF PeekFails, At, jobVars, nodeVars
  <2>2. \E v : Follows(v)
    BY <1>11, <2>1 DEF BodyPcs, Executable, ExecutableStatuses
  <2> QED
    BY <1>9, <1>12, <2>1, <2>2
<1>14. CASE Pick(c, w)
  <2>1. w.pc = "claim" /\ job' = job /\ output' = output /\ st' = st
    BY <1>14 DEF Pick, At, jobVars, nodeVars
  <2>2. CASE Ready = {}
    <3>1. GoesTo(c, w, "tail")
      BY <1>14, <2>2 DEF Pick
    <3>2. \E v : Follows(v)
      BY <1>3, <1>11, <2>1, <3>1 DEF BodyPcs
    <3> QED
      BY <1>9, <1>12, <2>1, <3>2
  <2>3. CASE Ready # {}
    <3> PICK v : v = [w EXCEPT !.node = First(Ready), !.pc = "take"]
      OBVIOUS
    <3>1. v.pc = "take" /\ v.res = w.res
      BY <1>3 DEF Body
    <3>2. Steps(c, w, v) /\ results' = results
      BY <1>14, <2>3 DEF Pick
    <3>3. Follows(v)
      BY <1>3, <2>1, <3>1, <3>2 DEF Follows
    <3> QED
      BY <1>9, <1>12, <2>1, <3>3
  <2> QED
    BY <2>2, <2>3
<1>22. CASE Take(c, w)
  <2>1. w.pc = "take" /\ job' = job /\ output' = output /\ results' = results
    BY <1>22 DEF Take, At, jobVars
  <2>2. SettlesNone
    BY <1>1, <1>22 DEF Take, SettlesNone, SettledStatuses, DagTypeOK
  <2>3. CASE st[w.node] = "pending"
    <3> PICK v : v = [w EXCEPT !.claim = claims[w.node] + 1, !.pc = "work"]
      OBVIOUS
    <3>1. v.pc = "work" /\ v.res = w.res
      BY <1>3 DEF Body
    <3>2. Steps(c, w, v)
      BY <1>22, <2>3 DEF Take
    <3>3. Follows(v)
      BY <1>3, <2>1, <3>1, <3>2 DEF Follows
    <3> QED
      BY <1>12, <2>1, <2>2, <3>3
  <2>4. CASE st[w.node] # "pending"
    <3> PICK v : v = [w EXCEPT !.pc = "tail", !.node = NoStep]
      OBVIOUS
    <3>1. v.pc = "tail" /\ v.res = w.res
      BY <1>3 DEF Body
    <3>2. Steps(c, w, v)
      BY <1>22, <2>4 DEF Take
    <3>3. Follows(v)
      BY <1>3, <2>1, <3>1, <3>2 DEF Follows
    <3> QED
      BY <1>12, <2>1, <2>2, <3>3
  <2> QED
    BY <2>3, <2>4
<1>15. ASSUME NEW s \in {"done", "failed"}, Persist(c, w, s)
       PROVE  DeliversBy(c)' /\ Uncut(c)'
  <2>1. w.pc = "work" /\ job' = job /\ output' = output /\ w.node \in Nodes
    BY <1>1, <1>15 DEF Persist, At, jobVars, BodyRemembers
  <2>2. CASE st[w.node] = "running"
    <3> PICK v : v = [w EXCEPT !.pc = "tail", !.res = s]
      OBVIOUS
    <3>1. v.pc = "tail" /\ v.res = s
      BY <1>3 DEF Body
    <3>2. Steps(c, w, v) /\ results' = results /\ st' = [st EXCEPT ![w.node] = s]
      BY <1>15, <2>2 DEF Persist
    <3>3. Follows(v)
      BY <1>3, <2>1, <3>1, <3>2 DEF Follows
    <3>4. job # "completed"
      BY <1>1, <2>1, <2>2 DEF CompletedIsWhole, AllHeld, Settled, SettledStatuses, Compiles
    <3>5. Has(c, "tail")'
      BY <1>6, <3>1, <3>2 DEF Has, Follows
    <3>6. DeliversBy(c)'
      BY <2>1, <3>4, <3>5 DEF DeliversBy
    <3> QED
      BY <1>7, <3>3, <3>6
  <2>3. CASE st[w.node] # "running"
    BY <1>9, <1>10, <1>12, <1>15, <2>1, <2>3 DEF Persist, Outcomes
  <2> QED
    BY <2>2, <2>3
<1>16. CASE GivesUp(c, w)
  <2>1. w.pc = "work" /\ job' = job /\ output' = output /\ Puts(c, w, "failed")
    BY <1>16 DEF GivesUp, EndsAtOnce, At, jobVars
  <2>2. SettlesNone
    BY <1>1, <1>16 DEF GivesUp, EndsAtOnce, SettlesNone, SettledStatuses, DagTypeOK
  <2> QED
    BY <1>10, <1>12, <2>1, <2>2 DEF Outcomes
\* Whoever finds the plan finished goes to compile; whoever finds the job completed
\* knows that somebody else does.
<1>18. CASE Finish(c, w)
  <2>1. w.pc = "tail" /\ output' = output /\ st' = st
    BY <1>18 DEF Finish, At, nodeVars
  <2>2. CASE AllDone /\ job \notin TerminalStatuses
    <3>1. job' = "completed" /\ GoesTo(c, w, "compile")
      BY <1>18, <2>2 DEF Finish
    <3>2. PICK v : Follows(v) /\ v.pc = "compile"
      BY <1>11, <3>1 DEF BodyPcs
    <3>3. Has(c, "compile")'
      BY <1>6, <3>2 DEF Has, Follows
    <3>4. DeliversBy(c)'
      BY <3>1, <3>3 DEF DeliversBy
    <3> QED
      BY <1>7, <3>2, <3>4
  <2>3. CASE ~(AllDone /\ job \notin TerminalStatuses)
    <3>1. job' = job
      BY <1>18, <2>3 DEF Finish
    <3>2. AllDone => job = "completed"
      BY <1>3, <2>1, <2>3 DEF TerminalStatuses
    <3>3. \E v : Follows(v)
      <4>1. CASE AllDone \/ w.node # NoStep
        <5>1. \E s \in Outcomes \ {"budget_exhausted"} : Puts(c, w, s)
          BY <1>3, <1>18, <2>3, <4>1 DEF Finish, Body, Outcomes
        <5> QED
          BY <1>10, <3>1, <5>1
      <4>2. CASE ~(AllDone \/ w.node # NoStep)
        <5> PICK r : r = IF output = "none" THEN "fresh" ELSE "cached"
          OBVIOUS
        <5> PICK v : v = [w EXCEPT !.pc = "partial", !.res = r]
          OBVIOUS
        <5>1. v.pc = "partial" /\ v.res = r /\ r # "budget_exhausted"
          BY <1>3 DEF Body
        <5>2. Steps(c, w, v) /\ results' = results
          BY <1>18, <2>3, <4>2 DEF Finish
        <5>3. Follows(v)
          BY <1>9, <2>1, <3>1, <4>2, <5>1, <5>2 DEF Follows
        <5> QED
          BY <5>3
      <4> QED
        BY <4>1, <4>2
    <3>4. Has(c, "compile") => Has(c, "compile")'
      BY <1>6, <2>1, <3>3 DEF Has, Follows
    <3>5. DeliversBy(c)'
      BY <1>5, <1>9, <2>1, <3>1, <3>2, <3>4 DEF DeliversBy
    <3> QED
      BY <1>7, <3>3, <3>5
  <2> QED
    BY <2>2, <2>3
<1>19. CASE Compile(c, w)
  <2>1. w.pc = "compile" /\ job' = job /\ st' = st /\ (SomeDone => output' = "final")
    BY <1>19 DEF Compile, At, nodeVars
  <2>2. \E s \in Outcomes \ {"budget_exhausted"} : Puts(c, w, s)
    BY <1>3, <1>19 DEF Compile, Body, Outcomes
  <2>3. \E v : Follows(v)
    BY <1>10, <2>1, <2>2
  <2>4. Has(c, "tail") => Has(c, "tail")'
    BY <1>6, <2>1, <2>3 DEF Has, Follows
  <2>5. DeliversBy(c)'
    BY <1>5, <1>9, <2>1, <2>4 DEF DeliversBy
  <2> QED
    BY <1>7, <2>3, <2>5
<1>20. CASE Partial(c, w)
  <2>1. w.pc = "partial" /\ st' = st /\ job' \in {job, "blocked"} /\ Puts(c, w, "blocked")
    BY <1>20 DEF Partial, At, nodeVars
  <2>2. \E v : Follows(v)
    BY <1>10, <2>1 DEF Outcomes
  <2>3. DeliversBy(c)'
    BY <1>3, <1>9, <2>1 DEF DeliversBy
  <2> QED
    BY <1>7, <2>2, <2>3
<1> QED
  BY <1>2, <1>13, <1>14, <1>15, <1>16, <1>18, <1>19, <1>20, <1>21, <1>22

\* Beside the bodies' own steps: a call keeps or drops its bodies, or starts new ones.
LEMMA StaysUncut ==
  ASSUME NEW c \in Calls, Uncut(c), SettlesNone,
         phase'[c] \notin {"release", "cleanup", "over"} => why'[c] = "clean",
         phase'[c] = "quota" => "quota" \in Events /\ \E n \in Nodes : st'[n] = "failed",
         \A i \in DOMAIN results'[c] : results'[c][i].status # "budget_exhausted",
         \A u \in inflight'[c] : u \in inflight[c] \/ (u.pc = "enter" /\ u.res = "none"),
         inflight'[c] = {} \/ job' \in {job, "executing", "blocked"}
  PROVE  Uncut(c)'
  BY NoneSettled DEF Uncut

\* A run that leaves: cut off, or with nobody on the way.
LEMMA LeavesCompiles ==
  ASSUME CallTypeOK, NEW c \in Calls, DeliversBy(c), Uncut(c), InLoop(c),
         NEW r \in {"clean", "exception", "cancelled"}, Leaves(c, r), st' = st,
         r = "clean" /\ AllDone /\ SomeDone /\ ~CutOff =>
           job' = job /\ output' = output /\ ~Has(c, "tail") /\ ~Has(c, "compile")
  PROVE  DeliversBy(c)' /\ Uncut(c)'
<1>1. /\ why' = [why EXCEPT ![c] = r] /\ inflight'[c] = {} /\ results'[c] = <<>>
      /\ phase'[c] \in {"release", Spawned(r)}
  BY DEF Leaves, Goto, CallTypeOK
<1>2. why[c] = "clean"
  BY DEF Uncut, InLoop
<1>3. why'[c] = r /\ \A d \in Calls \ {c} : why'[d] = why[d]
  BY <1>1 DEF CallTypeOK
<1>4. CutOff => CutOff'
  BY <1>2, <1>3 DEF CutOff
<1>5. r # "clean" => CutOff'
  BY <1>3 DEF CutOff
<1>6. (AllDone' <=> AllDone) /\ (SomeDone' <=> SomeDone)
  BY DEF AllDone, Settled, SomeDone
<1>7. DeliversBy(c)'
  BY <1>4, <1>5, <1>6 DEF DeliversBy
<1>8. Uncut(c)'
  BY <1>1, <1>3 DEF Uncut, Spawned
<1> QED
  BY <1>7, <1>8

\* A step of the run that keeps its bodies, or drops some that ended.
LEMMA LoopCompiles ==
  ASSUME CallTypeOK, NEW c \in Calls, DeliversBy(c), Uncut(c), phase[c] \notin {"release", "cleanup", "over"},
         why' = why, SettlesNone,
         phase'[c] = "quota" => "quota" \in Events /\ \E n \in Nodes : st'[n] = "failed",
         \A i \in DOMAIN results'[c] : results'[c][i].status # "budget_exhausted",
         \A u \in inflight[c] : u.pc # "ended" => u \in inflight'[c],
         \A u \in inflight'[c] : u \in inflight[c] \/ (u.pc = "enter" /\ u.res = "none"),
         job' \in {job, "executing", "blocked"}, AllDone => job' = job /\ output' = output
  PROVE  DeliversBy(c)' /\ Uncut(c)'
<1>1. Uncut(c)'
  BY StaysUncut DEF Uncut
<1>2. CutOff <=> CutOff'
  BY DEF CutOff
<1>3. /\ Has(c, "tail") => Has(c, "tail")'
      /\ Has(c, "compile") => Has(c, "compile")'
  BY DEF Has
<1> QED
  BY <1>1, <1>2, <1>3, CarriesOn

\* A call with no bodies, whose outcome is decided: nothing was on the way.
LEMMA BodilessCompiles ==
  ASSUME CallTypeOK, NEW c \in Calls, DeliversBy(c), Uncut(c), SettlesNone,
         Live(c) = {}, \A u \in inflight'[c] : u = FreshCall,
         results'[c] = results[c] \/ results'[c] = <<>>,
         phase'[c] \notin {"release", "cleanup", "over"} => why'[c] = "clean",
         phase'[c] # "quota",
         CutOff => CutOff',
         inflight'[c] = {} \/ job' \in {job, "executing"},
         AllDone /\ SomeDone /\ ~CutOff /\ job = "completed" => job' = "completed" /\ output' = output
  PROVE  DeliversBy(c)' /\ Uncut(c)'
<1>1. Uncut(c)'
  BY StaysUncut DEF Uncut, FreshCall
<1>2. ~Has(c, "tail") /\ ~Has(c, "compile")
  BY DEF Has, Live
<1>3. DeliversBy(c)'
  BY <1>2, NoneSettled DEF DeliversBy
<1> QED
  BY <1>1, <1>3

LEMMA RunCompiles ==
  ASSUME ExecutionInv, ShapeInv, QuietInv, Compiles, NEW c \in Calls, DeliversBy(c), Uncut(c),
         RunStep(c)
  PROVE  DeliversBy(c)' /\ Uncut(c)'
<1>1. /\ CallTypeOK /\ DagTypeOK /\ Shape(c) /\ CompletedIsWhole /\ CallRemembers(c)
      /\ results[c] \in Seq(Result)
      /\ \A i \in DOMAIN results[c] : results[c][i].status # "budget_exhausted"
  BY DEF ExecutionInv, TypeOK, ShapeInv, CallTypeOK, Uncut
<1>2. phase[c] \notin {"frame", "ask"} /\ MustAsk = {}
  BY NoQuestions
<1>18. ASSUME NEW p, p # "quota", Goto(c, p)
       PROVE  phase'[c] # "quota"
  BY <1>1, <1>18 DEF Goto, CallTypeOK
<1>3. st' = st => SettlesNone
  BY DEF SettlesNone
<1>4. Shape(c) /\ inflight[c] = {} => ~Has(c, "tail") /\ ~Has(c, "compile") /\ Live(c) = {}
  BY DEF Has, Live
<1>5. CASE Validate(c)
  <2>1. st' = st /\ job' = job /\ output' = output /\ phase[c] = "gate" /\ inflight[c] = {}
    BY <1>1, <1>5 DEF Validate, jobVars, nodeVars, Shape
  <2>2. CASE job \in {"running", "executing"}
    <3>1. Goto(c, "claim") /\ why' = why /\ inflight' = inflight /\ results' = results
      BY <1>5, <2>2 DEF Validate
    <3> QED
      BY <1>1, <1>3, <1>18, <2>1, <3>1, LoopCompiles
  <2>3. CASE job \notin {"running", "executing"}
    <3>1. Leaves(c, "clean") /\ InLoop(c)
      BY <1>5, <2>1, <2>3 DEF Validate, InLoop
    <3> QED
      BY <1>1, <1>4, <2>1, <3>1, LeavesCompiles
  <2> QED
    BY <2>2, <2>3
<1>6. CASE ClaimFrontier(c)
  <2>1. /\ job' = job /\ output' = output /\ why' = why /\ results' = results /\ phase[c] = "claim"
        /\ phase'[c] # "quota"
    BY <1>6, <1>18 DEF ClaimFrontier, jobVars
  <2>2. SettlesNone
    BY <1>6 DEF ClaimFrontier, SettlesNone, SettledStatuses
  <2>3. /\ \A u \in inflight[c] : u \in inflight'[c]
        /\ \A u \in inflight'[c] : u \in inflight[c] \/ (u.pc = "enter" /\ u.res = "none")
    BY <1>1, <1>6 DEF ClaimFrontier, CallTypeOK
  <2> QED
    BY <1>1, <2>1, <2>2, <2>3, LoopCompiles
<1>7. CASE Settle(c) \/ AutoRetryReads(c)
  <2>1. /\ st' = st /\ job' = job /\ output' = output /\ why' = why /\ results' = results
        /\ inflight' = inflight /\ phase[c] \in {"settle", "retry"} /\ phase'[c] # "quota"
    BY <1>7, <1>18 DEF Settle, AutoRetryReads, jobVars, nodeVars
  <2> QED
    BY <1>1, <1>3, <2>1, LoopCompiles
<1>8. CASE Sum(c)
  <2>1. st' = st /\ job' = job /\ output' = output /\ phase[c] = "sum" /\ inflight[c] = {}
    BY <1>1, <1>8 DEF Sum, jobVars, nodeVars, Shape
  <2>2. CASE AllDone
    <3>1. Leaves(c, "clean") /\ InLoop(c)
      BY <1>8, <2>1, <2>2 DEF Sum, InLoop
    <3> QED
      BY <1>1, <1>4, <2>1, <3>1, LeavesCompiles
  <2>3. CASE ~AllDone
    <3>1. why' = why /\ results' = results /\ inflight'[c] = {FreshCall} /\ phase'[c] # "quota"
      BY <1>1, <1>8, <1>18, <2>3 DEF Sum, CallTypeOK
    <3> QED
      BY <1>1, <1>3, <2>1, <3>1, LoopCompiles DEF FreshCall
  <2> QED
    BY <2>2, <2>3
<1>9. CASE FinalReturns(c)
  <2>1. /\ st' = st /\ job' = job /\ output' = output /\ Leaves(c, "clean") /\ InLoop(c)
        /\ ~Has(c, "tail") /\ ~Has(c, "compile")
    BY <1>9 DEF FinalReturns, InLoop, jobVars, nodeVars, Live, Has
  <2> QED
    BY <1>1, <2>1, LeavesCompiles
<1>10. CASE Drain(c) \/ Keepalive(c)
  <2>1. /\ st' = st /\ job' = job /\ output' = output /\ why' = why /\ phase[c] = "drain"
        /\ inflight'[c] = Live(c) /\ phase'[c] # "quota"
    BY <1>1, <1>10, <1>18 DEF Drain, Keepalive, jobVars, nodeVars, CallTypeOK
  <2>2. \A i \in DOMAIN results'[c] : results'[c][i].status # "budget_exhausted"
    <3>1. CASE Keepalive(c)
      BY <1>1, <3>1 DEF Keepalive
    <3>2. CASE Drain(c)
      <4>1. results[c] # <<>> /\ results'[c] = Tail(results[c])
        BY <1>1, <3>2 DEF Drain, CallTypeOK
      <4>2. \A i \in DOMAIN results'[c] : i + 1 \in DOMAIN results[c] /\ results'[c][i] = results[c][i + 1]
        BY <1>1, <4>1
      <4> QED
        BY <1>1, <4>2
    <3> QED
      BY <1>10, <3>1, <3>2
  <2> QED
    BY <1>1, <1>3, <2>1, <2>2, LoopCompiles DEF Live
<1>11. CASE DrainBudget(c)
  <2>1. results[c] # <<>> /\ Head(results[c]).status = "budget_exhausted"
    BY <1>11 DEF DrainBudget
  <2>2. 1 \in DOMAIN results[c] /\ Head(results[c]) = results[c][1]
    BY <1>1, <2>1
  <2> QED
    BY <1>1, <2>1, <2>2
<1>12. CASE AutoRetryResets(c)
  <2>1. /\ why' = why /\ results' = results /\ inflight' = inflight /\ phase[c] = "reset"
        /\ target[c] \in Nodes /\ phase'[c] # "quota"
    BY <1>1, <1>12, <1>18 DEF AutoRetryResets, CallRemembers
  <2>2. SettlesNone
    BY <1>1, <1>12 DEF AutoRetryResets, Resets, SettlesNone, SettledStatuses
  <2>3. job' \in {job, "executing"} /\ (AllDone => job' = job /\ output' = output)
    BY <1>12, <2>1 DEF AutoRetryResets, Resets, AllDone, Settled, SettledStatuses
  <2> QED
    BY <1>1, <2>1, <2>2, <2>3, LoopCompiles
\* The last four have no body going.
<1>13. CASE Release(c)
  <2>1. /\ job' = job /\ output' = output /\ why' = why /\ results' = results /\ inflight' = inflight
        /\ inflight[c] = {} /\ phase'[c] = Spawned(why[c])
    BY <1>1, <1>13 DEF Release, Goto, jobVars, Shape, CallTypeOK
  <2>2. SettlesNone
    BY <1>13 DEF Release, SettlesNone, SettledStatuses
  <2> QED
    BY <1>1, <1>4, <2>1, <2>2, BodilessCompiles DEF Spawned, CutOff
<1>14. CASE Count(c)
  <2>1. /\ st' = st /\ job' = job /\ output' = output /\ results' = results /\ inflight' = inflight
        /\ phase[c] = "count" /\ inflight[c] = {} /\ phase'[c] = "cleanup"
    BY <1>1, <1>14 DEF Count, Goto, jobVars, nodeVars, Shape, CallTypeOK
  <2>2. why[c] = "clean"
    BY <2>1 DEF Uncut
  <2>3. \A d \in Calls \ {c} : why'[d] = why[d]
    BY <1>1, <1>14 DEF Count, CallTypeOK
  <2>4. CutOff => CutOff'
    BY <2>2, <2>3 DEF CutOff
  <2> QED
    BY <1>1, <1>3, <1>4, <2>1, <2>4, BodilessCompiles
<1>15. CASE Cleanup(c)
  <2>1. /\ output' = output /\ why' = why /\ results' = results /\ inflight' = inflight
        /\ inflight[c] = {} /\ phase'[c] = "over"
    BY <1>1, <1>15 DEF Cleanup, Goto, Shape, CallTypeOK
  <2>2. SettlesNone
    BY <1>15 DEF Cleanup, SettlesNone, SettledStatuses
  <2>3. job = "completed" => job' = "completed"
    BY <1>15 DEF Cleanup, MayMoveFrom
  <2> QED
    BY <1>1, <1>4, <2>1, <2>2, <2>3, BodilessCompiles DEF CutOff
<1>16. CASE SoloReturns(c)
  <2>1. /\ st' = st /\ job' = job /\ output' = output /\ why' = why /\ Live(c) = {}
        /\ results'[c] = <<>> /\ inflight'[c] = {} /\ phase'[c] = "over"
    BY <1>1, <1>16 DEF SoloReturns, Goto, jobVars, nodeVars, CallTypeOK
  <2> QED
    BY <1>1, <1>3, <2>1, BodilessCompiles DEF CutOff
<1>17. ~Park(c) /\ ~Recheck(c)
  BY <1>2 DEF Park, Recheck
<1>19. CASE QuotaStops(c)
  <2>1. st' = st /\ phase[c] = "quota" /\ Leaves(c, "clean") /\ InLoop(c)
    BY <1>19 DEF QuotaStops, InLoop, nodeVars
  <2>2. ~AllDone
    BY <2>1 DEF Uncut, AllDone, Settled, SettledStatuses
  <2> QED
    BY <1>1, <2>1, <2>2, LeavesCompiles
<1> QED
  BY <1>19, <1>5, <1>6, <1>7, <1>8, <1>9, <1>10, <1>11, <1>12, <1>13, <1>14, <1>15, <1>16, <1>17 DEF RunStep

\* A call that is made finds nobody on the way: a finished plan is completed, or was
\* cut off.
LEMMA CallCompiles ==
  ASSUME ExecutionInv, ShapeInv, QuietInv, Compiles, QuotaStands, ~Unseen, NEW c \in Calls,
         DeliversBy(c), Uncut(c),
         Admit(c) \/ Solo(c) \/ RunStep(c) \/ BodyStep(c) \/ RunUpset(c)
  PROVE  DeliversBy(c)' /\ Uncut(c)'
<1>1. CallTypeOK /\ Shape(c) /\ results[c] \in Seq(Result)
  BY DEF ExecutionInv, TypeOK, ShapeInv, CallTypeOK
<1>2. CASE Admit(c) \/ Solo(c)
  <2>1. /\ st' = st /\ output' = output /\ results' = results /\ why' = why
        /\ phase[c] = "idle" /\ phase'[c] \in {"gate", "solo"}
        /\ job = "completed" => job' = "completed"
    BY <1>1, <1>2 DEF Admit, Solo, Goto, jobVars, nodeVars, CallTypeOK
  <2>2. /\ Live(c) = {} /\ \A u \in inflight'[c] : u = FreshCall
        /\ inflight'[c] = {} \/ job' = job
    BY <1>1, <1>2, <2>1 DEF Admit, Solo, Shape, Live, CallTypeOK, jobVars
  <2>3. SettlesNone /\ why'[c] = "clean" /\ (CutOff => CutOff')
    BY <2>1 DEF SettlesNone, Uncut, CutOff
  <2> QED
    BY <1>1, <2>1, <2>2, <2>3, BodilessCompiles
<1>3. CASE RunFails(c) \/ Disconnect(c)
  <2>1. CASE InLoop(c) /\ st' = st /\ \E r \in {"exception", "cancelled"} : Leaves(c, r)
    BY <1>1, <2>1, LeavesCompiles
  <2>2. CASE /\ phase[c] = "release" /\ why' = [why EXCEPT ![c] = "cancelled"]
             /\ phase' = phase /\ inflight' = inflight /\ results' = results /\ st' = st
             /\ job' = job /\ output' = output
    <3>1. inflight[c] = {} /\ Live(c) = {}
      BY <1>1, <2>2 DEF Shape, Live
    <3>2. CutOff'
      BY <1>1, <2>2 DEF CutOff, CallTypeOK
    <3>3. SettlesNone
      BY <2>2 DEF SettlesNone
    <3> QED
      BY <1>1, <2>2, <3>1, <3>2, <3>3, BodilessCompiles
  <2> QED
    BY <1>3, <2>1, <2>2 DEF RunFails, Disconnect, InLoop, nodeVars, jobVars
<1>6. CASE LookFails(c)
  <2>1. /\ st' = st /\ job' = job /\ output' = output /\ why' = why /\ results' = results
        /\ inflight' = inflight /\ phase[c] = "settle" /\ phase'[c] = "sum"
    BY <1>1, <1>6 DEF LookFails, Goto, CallTypeOK, jobVars, nodeVars
  <2>2. SettlesNone
    BY <2>1 DEF SettlesNone
  <2> QED
    BY <1>1, <2>1, <2>2, LoopCompiles DEF Uncut
<1>7. ~Reread(c)
  BY NoQuestions DEF Reread
<1>4. CASE HandsOnGate(c)
  <2>1. /\ st' = st /\ InLoop(c) /\ Leaves(c, "clean") /\ job \in {"running", "executing"}
        /\ phase[c] = "gate"
    BY <1>4 DEF HandsOnGate, InLoop, nodeVars, MayMoveFrom
  <2>2. ~Has(c, "tail") /\ ~Has(c, "compile")
    BY <1>1, <2>1 DEF Shape, Has
  <2>3. ~(AllDone /\ SomeDone /\ ~CutOff)
    BY <2>1, <2>2 DEF DeliversBy
  <2> QED
    BY <1>1, <2>1, <2>3, LeavesCompiles
<1>5. CASE DrainQuota(c)
  <2>1. /\ st' = st /\ phase[c] = "drain" /\ "quota" \in Events
        /\ results[c] # <<>> /\ Head(results[c]).status = "failed"
        /\ results'[c] = Tail(results[c]) /\ inflight'[c] = Live(c) /\ why' = why
        /\ job' \in {job, "blocked"} /\ output' = output
    BY <1>1, <1>5 DEF DrainQuota, nodeVars, Outside, CallTypeOK
  <2>2. PICK n \in Nodes : n = results[c][1].node /\ Reports(results[c][1], n)
    <3>1. 1 \in DOMAIN results[c] /\ Head(results[c]) = results[c][1]
      BY <1>1, <2>1
    <3> QED
      BY <2>1, <3>1 DEF ExecutionInv, ResultsNameSteps, Reports
  <2>3. Reported(c, n)
    BY <1>1, <2>1, <2>2 DEF Reported
  <2>4. st[n] = "failed"
    BY <2>1, <2>3 DEF QuotaStands, ClaimInv, CallClaims, FailuresStand
  <2>5. ~AllDone
    BY <2>4 DEF AllDone, Settled, SettledStatuses
  <2>6. \A i \in DOMAIN results'[c] : results'[c][i].status # "budget_exhausted"
    <3>1. \A i \in DOMAIN results'[c] : i + 1 \in DOMAIN results[c] /\ results'[c][i] = results[c][i + 1]
      BY <1>1, <2>1, TailIs
    <3> QED
      BY <3>1 DEF Uncut
  <2>7. SettlesNone
    BY <2>1 DEF SettlesNone
  <2> QED
    BY <1>1, <2>1, <2>2, <2>4, <2>5, <2>6, <2>7, LoopCompiles DEF Live
<1> QED
  BY <1>2, <1>3, <1>4, <1>5, <1>6, <1>7, RunCompiles, BodyCompiles DEF RunUpset

\* A call's step writes its own exit reason and its own results.
LEMMA CallWritesItsOwn ==
  ASSUME CallTypeOK, NEW c \in Calls,
         Admit(c) \/ Solo(c) \/ RunStep(c) \/ BodyStep(c) \/ RunUpset(c)
  PROVE  \A d \in Calls \ {c} : why'[d] = why[d] /\ results'[d] = results[d]
<1>1. (\E r : Leaves(c, r)) => \A d \in Calls \ {c} : why'[d] = why[d] /\ results'[d] = results[d]
  BY DEF Leaves, CallTypeOK
<1>2. CASE BodyStep(c)
  <2>1. why' = why /\ (results' = results \/ \E w, s : Puts(c, w, s))
    BY <1>2 DEF BodyStep, Enter, PeekFails, OverBudget, RereadAlone, RecheckAlone, ParkAlone, ClaimsInstead,
                Pick, Take, Persist, GivesUp, Shortcut, EndsAtOnce, WorkerError, Finish, Compile, Partial,
                GoesTo
  <2> QED
    BY <2>1 DEF CallTypeOK, Puts
<1>3. CASE Admit(c) \/ Solo(c)
  BY <1>3 DEF Admit, Solo
<1>4. CASE RunUpset(c)
  BY <1>1, <1>4 DEF RunUpset, HandsOnGate, RunFails, LookFails, Reread, DrainQuota, Disconnect, CallTypeOK
<1>5. CASE RunStep(c)
  <2>1. CASE Validate(c) \/ Park(c) \/ Sum(c) \/ FinalReturns(c) \/ DrainBudget(c) \/ QuotaStops(c)
    BY <1>1, <2>1 DEF Validate, Park, Sum, FinalReturns, DrainBudget, QuotaStops
  <2>2. CASE ClaimFrontier(c) \/ Settle(c) \/ Recheck(c) \/ AutoRetryReads(c) \/ AutoRetryResets(c)
             \/ Keepalive(c) \/ Release(c) \/ Cleanup(c)
    BY <2>2 DEF ClaimFrontier, Settle, Recheck, AutoRetryReads, AutoRetryResets, Keepalive, Release, Cleanup
  <2>3. CASE Drain(c) \/ Count(c) \/ SoloReturns(c)
    BY <2>3 DEF Drain, Count, SoloReturns, CallTypeOK
  <2> QED
    BY <1>5, <2>1, <2>2, <2>3 DEF RunStep
<1> QED
  BY <1>2, <1>3, <1>4, <1>5

\* Of a call that rests only its exit reason and its results matter.
LEMMA RestsUncut ==
  ASSUME ShapeInv, NEW d \in Calls, Rests(d), Uncut(d), SameBodies(d),
         why'[d] = why[d], results'[d] = results[d]
  PROVE  Uncut(d)'
<1>1. inflight'[d] = {}
  BY DEF ShapeInv, Shape, Rests, SameBodies
<1> QED
  BY <1>1 DEF Uncut, SameBodies, Rests

\* Beside the calls nobody settles a step, and the job is moved only out of a failure
\* or a cancellation.
LEMMA OutsideCompiles ==
  ASSUME ExecutionInv, QuietInv, Compiles, QuotaStands, ~Unseen, CompiledInv,
         StepNext \/ JobNext \/ UNCHANGED vars
  PROVE  CompiledInv'
<1>1. DagTypeOK /\ StoredRemembers
  BY DEF ExecutionInv, TypeOK
<1>2. ~Decide /\ ~Reask /\ ~CancelJob /\ ~ReapStaleJob /\ \A n \in Nodes : ~Skip(n) /\ ~Reset(n)
  BY NoQuestions DEF Compiles, Unseen, Decide, Reask, CancelJob, ReapStaleJob, Skip, Reset, Outside
<1>3. phase' = phase /\ inflight' = inflight /\ results' = results /\ why' = why
  BY <1>2 DEF StepNext, JobNext, OperatorRetryReads, ReapOrphan, ReapSlow, OperatorRetryResets,
              Resume, vars, callVars
<1>4. /\ SettlesNone
      /\ job' = job \/ job' = "executing"
      /\ AllDone => /\ output' = output
                    /\ job' = job \/ (job # "completed" /\ job' # "completed")
  <2>1. CASE StepNext \/ UNCHANGED vars
    <3>1. job' = job /\ output' = output
      BY <1>2, <2>1 DEF StepNext, OperatorRetryReads, ReapOrphan, ReapSlow, vars, jobVars
    <3>2. st' = st \/ \E n \in Nodes : st' = [st EXCEPT ![n] = "pending"]
      BY <1>2, <2>1 DEF StepNext, OperatorRetryReads, ReapOrphan, ReapSlow, Reap, vars, nodeVars
    <3>3. SettlesNone
      BY <1>1, <3>2 DEF DagTypeOK, SettlesNone, SettledStatuses
    <3> QED
      BY <3>1, <3>3
  <2>2. CASE OperatorRetryResets
    <3>1. CASE st[opRetry.node] = "failed"
      <4>1. opRetry.node \in Nodes /\ Resets(opRetry.node, opRetry.down)
        BY <1>1, <2>2, <3>1 DEF OperatorRetryResets, StoredRemembers
      <4>2. ~AllDone
        BY <3>1, <4>1 DEF AllDone, Settled, SettledStatuses
      <4>3. SettlesNone /\ (job' = job \/ job' = "executing")
        BY <4>1 DEF Resets, SettlesNone, SettledStatuses
      <4> QED
        BY <4>2, <4>3
    <3>2. CASE st[opRetry.node] # "failed"
      BY <2>2, <3>2 DEF OperatorRetryResets, SettlesNone
    <3> QED
      BY <3>1, <3>2
  <2>3. CASE Resume
    BY <2>3 DEF Resume, SettlesNone, nodeVars
  <2> QED
    BY <1>2, <2>1, <2>2, <2>3 DEF JobNext
<1>5. Delivers'
  BY <1>3, <1>4, NoneSettled DEF CompiledInv, Delivers, CutOff, Has
<1>6. ASSUME NEW c \in Calls
      PROVE  Uncut(c)'
  <2>1. ASSUME NEW n \in Nodes, st[n] = "failed", phase[c] = "quota"
        PROVE  st'[n] = "failed"
    <3>1. opRetry = NoRetry
      BY <2>1 DEF CompiledInv, Uncut, QuotaStands, ClaimInv
    <3> QED
      BY <1>1, <1>2, <2>1, <3>1 DEF StepNext, JobNext, OperatorRetryReads, OperatorRetryResets, ReapOrphan,
         ReapSlow, Reap, Resume, vars, nodeVars, DagTypeOK
  <2> QED
    BY <1>3, <1>4, <2>1, NoneSettled DEF CompiledInv, Uncut
<1> QED
  BY <1>5, <1>6 DEF CompiledInv

LEMMA NextCompiles ==
  ASSUME ExecutionInv, ShapeInv, QuietInv, CompiledInv, NoOverlap, NoOverlap',
         Compiles, QuotaStands, ~Unseen, [Next]_vars
  PROVE  CompiledInv'
<1>1. ASSUME NEW c \in Calls, Admit(c) \/ Solo(c) \/ RunStep(c) \/ BodyStep(c) \/ RunUpset(c)
      PROVE  CompiledInv'
  <2>1. \A d \in Calls \ {c} : Rests(d)'
    BY <1>1, CallMovesAlone, OthersRest
  <2>2. \A d \in Calls \ {c} : Rests(d) /\ SameBodies(d)
    BY <1>1, <2>1, CallMovesAlone DEF Rests, SameBodies
  <2>3. DeliversBy(c) /\ Uncut(c)
    BY <2>2, MoverDelivers DEF CompiledInv
  <2>4. DeliversBy(c)' /\ Uncut(c)'
    BY <1>1, <2>3, CallCompiles
  <2>5. \A d \in Calls \ {c} : why'[d] = why[d] /\ results'[d] = results[d]
    BY <1>1, CallWritesItsOwn DEF ExecutionInv, TypeOK
  <2>6. \A d \in Calls \ {c} : Uncut(d)'
    BY <2>2, <2>5, RestsUncut DEF CompiledInv
  <2>7. Delivers'
    BY <2>4 DEF Delivers, DeliversBy
  <2> QED
    BY <2>4, <2>6, <2>7 DEF CompiledInv
<1> QED
  BY <1>1, OutsideCompiles DEF Next, CallNext

LEMMA InitCompiles == Init => CompiledInv
  BY DEF Init, DagInit, CompiledInv, Delivers, Uncut, SomeDone

\* When calls do not overlap, a job completed by runs that were not cut off has its
\* final text, however its calls were retried, reaped, disconnected or blocked on
\* their way: where no step is settled by an answer and nothing but its runs takes
\* the job's status away, and until a step is skipped, settled by a shortcut or lost
\* with its body.  A quota stop is one more way to leave as long as steps are not
\* taken back behind its back.
THEOREM AloneCompletedIsCompiled ==
  Compiles /\ ("quota" \notin Events \/ Undisturbed) =>
    (Spec /\ []NoOverlap => []CompletedIsCompiled)
<1> SUFFICES ASSUME Compiles, "quota" \notin Events \/ Undisturbed
             PROVE  Spec /\ []NoOverlap => []CompletedIsCompiled
  OBVIOUS
<1> DEFINE CompiledOrUnseen == CompiledInv \/ UnseenBefore
<1>1. ASSUME ExecutionInv, ExecutionInv', ShapeInv, QuietInv, CompiledOrUnseen, NoOverlap, NoOverlap',
             QuotaStands, [Next]_vars
      PROVE  CompiledOrUnseen'
  <2>1. \A kind \in {"skip", "shortcut", "worker_error"} :
          Happened(kind) \/ Outside(kind) => Happened(kind)'
    BY <1>1, RecordIsKept DEF EventKinds
  <2>2. UnseenBefore \/ Unseen => UnseenBefore'
    BY <2>1 DEF Unseen, UnseenBefore
  <2> QED
    BY <1>1, <2>2, NextCompiles
<1>2. Init => CompiledOrUnseen
  BY InitCompiles
<1>3. Spec => []QuotaStands
  <2>1. CASE "quota" \notin Events
    <3>1. QuotaStands
      BY <2>1 DEF QuotaStands
    <3> QED
      BY <3>1, PTL
  <2>2. CASE Undisturbed
    <3>1. Spec => []ClaimInv
      BY <2>2, ClaimsAreOwned
    <3>2. ClaimInv => QuotaStands
      BY DEF QuotaStands
    <3> QED
      BY <3>1, <3>2, PTL
  <2> QED
    BY <2>1, <2>2
<1>4. ExecutionInv /\ ShapeInv /\ CompiledOrUnseen => CompletedIsCompiled
  <2> SUFFICES ASSUME ExecutionInv, ShapeInv, CompiledInv, job = "completed", SomeDone,
                      \A c \in Calls : why[c] \in {"clean", "finished"} /\ phase[c] \in {"idle", "over"}
               PROVE  output = "final"
    BY DEF CompletedIsCompiled, UnseenBefore
  <2>1. AllDone /\ ~CutOff
    BY DEF ExecutionInv, CompletedIsWhole, AllHeld, AllDone, Compiles, CutOff
  <2>2. \A c \in Calls : ~Has(c, "compile")
    BY DEF ShapeInv, Shape, Has
  <2> QED
    BY <2>1, <2>2 DEF CompiledInv, Delivers
<1> QED
  BY ExecutionSafety, AloneIsQuiet, <1>1, <1>2, <1>3, <1>4, PTL DEF Spec

-----------------------------------------------------------------------------
(* Who blocks a job.  Only a body that found no step of its own does, or a run on *)
(* its way out: a job that is blocked under a live run is blocked by another call. *)

LEMMA OthersBlock ==
  ASSUME ExecutionInv, ShapeInv, NEW d \in Calls, \A c \in Calls \ {d} : Rests(c),
         Next, job = "running", InLoop(d), phase[d] # "final", phase'[d] = phase[d]
  PROVE  job' # "blocked"
<1>1. CallTypeOK /\ DagTypeOK /\ Shape(d)
  BY DEF ExecutionInv, TypeOK, ShapeInv
<1>2. (\E r : Leaves(d, r)) => phase'[d] # phase[d]
  BY <1>1 DEF Leaves, Goto, CallTypeOK, InLoop, Spawned
<1>3. CASE StepNext \/ JobNext
  <2>1. ASSUME NEW n \in Nodes, Reset(n)
        PROVE  job' # "blocked"
    BY <2>1 DEF Reset
  <2> QED
    BY <1>3, <2>1 DEF StepNext, JobNext, OperatorRetryReads, Skip, ReapOrphan, ReapSlow,
              OperatorRetryResets, Resets, CancelJob, Resume, Decide, Reask, ReapStaleJob, jobVars
<1>4. ASSUME NEW c \in Calls \ {d}, Admit(c) \/ Solo(c) \/ RunStep(c) \/ BodyStep(c) \/ RunUpset(c)
      PROVE  job' # "blocked"
  <2>1. phase[c] \in {"idle", "over"} /\ inflight[c] = {}
    BY DEF Rests, ShapeInv, Shape
  <2>2. Admit(c) \/ Solo(c)
    BY <1>4, <2>1 DEF RunStep, Validate, ClaimFrontier, Settle, Recheck, Park, Sum, FinalReturns, Drain,
       Keepalive, DrainBudget, QuotaStops, AutoRetryReads, AutoRetryResets, Release, Count, Cleanup,
       SoloReturns, BodyStep, RunUpset, HandsOnGate, RunFails, LookFails, Reread, DrainQuota, Disconnect,
       InLoop
  <2> QED
    BY <2>2 DEF Admit, Solo, jobVars
<1>5. CASE BodyStep(d)
  <2>1. PICK w \in inflight[d] :
          \/ Enter(d, w) \/ PeekFails(d, w) \/ OverBudget(d, w)
          \/ RereadAlone(d, w) \/ RecheckAlone(d, w) \/ ParkAlone(d, w)
          \/ Pick(d, w) \/ Take(d, w)
          \/ Persist(d, w, "done") \/ Persist(d, w, "failed")
          \/ GivesUp(d, w) \/ Shortcut(d, w) \/ WorkerError(d, w)
          \/ Finish(d, w) \/ Compile(d, w) \/ Partial(d, w)
    BY <1>5 DEF BodyStep
  <2>2. w.pc # "partial"
    BY <1>1 DEF Shape, InLoop, OwnPcs
  <2> QED
    BY <2>1, <2>2 DEF Enter, PeekFails, OverBudget, RereadAlone, RecheckAlone, ParkAlone, Pick, Take,
       Persist, GivesUp, Shortcut, EndsAtOnce, WorkerError, Finish, Compile, Partial, At, jobVars
<1>6. CASE RunStep(d)
  BY <1>6 DEF RunStep, Validate, ClaimFrontier, Settle, Recheck, Park, Sum, FinalReturns, Drain, Keepalive,
     DrainBudget, QuotaStops, AutoRetryReads, AutoRetryResets, Resets, Release, Count, Cleanup,
     SoloReturns, jobVars
<1>8. CASE DrainQuota(d)
  <2>1. phase[d] = "drain" /\ phase'[d] = "quota"
    BY <1>1, <1>8 DEF DrainQuota, Goto, CallTypeOK
  <2> QED
    BY <2>1
<1>7. CASE Admit(d) \/ Solo(d) \/ RunUpset(d)
  BY <1>2, <1>7, <1>8 DEF Admit, Solo, RunUpset, HandsOnGate, RunFails, LookFails, Reread, Disconnect, jobVars
<1> QED
  BY <1>3, <1>4, <1>5, <1>6, <1>7 DEF Next, CallNext

\* A live run's job is never blocked under it while calls do not overlap: it takes a
\* call of POST /execute beside the run, which finds nothing ready in the moment
\* between a body's write and the run's next claim.
THEOREM AloneLiveRunNotBlocked == Spec /\ []NoOverlap => LiveRunNotBlocked
<1>1. ASSUME ExecutionInv, ShapeInv, NoOverlap, Next,
             NEW d \in Calls, job = "running", InLoop(d), phase[d] # "final", phase'[d] = phase[d]
      PROVE  job' # "blocked"
  <2>1. \A c \in Calls \ {d} : Rests(c)
    BY <1>1 DEF NoOverlap, Rests, InLoop
  <2> QED
    BY <1>1, <2>1, OthersBlock
<1>2. ExecutionInv /\ ShapeInv /\ NoOverlap /\ [Next]_vars =>
        [\A d \in Calls : job = "running" /\ InLoop(d) /\ phase[d] # "final" /\ phase'[d] = phase[d]
           => job' # "blocked"]_vars
  BY <1>1
<1> QED
  BY ExecutionSafety, AloneIsQuiet, <1>2, PTL DEF Spec, LiveRunNotBlocked

-----------------------------------------------------------------------------
(* One call.  A job that is given a single call has nothing to overlap: what is  *)
(* proved of calls that do not overlap is proved of it outright.                 *)

OneCall == \A c, d \in Calls : c = d

LEMMA OneCallIsAlone == OneCall => (Spec => []NoOverlap)
<1> SUFFICES ASSUME OneCall PROVE Spec => []NoOverlap
  OBVIOUS
<1>1. NoOverlap
  BY DEF OneCall, NoOverlap
<1> QED
  BY <1>1, PTL

\* With one call of the executor, whatever comes from outside: a blocked job is quiet
\* but for the run that hit the account's limit, and a parked one answerable, what a
\* run had in work is given back before its cleanup, and only the reaper of slow
\* bodies and a reset of a step in work give a step two workers.
THEOREM OneCallIsSafe ==
  OneCall => /\ Spec => []BlockedIsQuiet /\ []ParkedIsAnswerable
             /\ Spec => LiveRunNotBlocked
             /\ Spec => [](\A c \in Calls : GivenBack(c))
             /\ Unharmed => (Spec => []NothingLeftRunning)
             /\ NotTaken => (Spec => [](SoleWorker /\ OneWorker))
             /\ NotTaken => (Spec => [][WritesItsClaim]_vars /\ FreshWriter)
  BY OneCallIsAlone, BlockedMeansQuiet, ParkedMeansAnswerable, AloneLiveRunNotBlocked,
     AloneGivesBack, AloneLeavesNothing, AloneOneWorker, AloneWritersHoldTheClaim
=============================================================================
