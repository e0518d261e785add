---------------------------- MODULE RestartProofs ----------------------------
(***************************************************************************)
(* The executor under crashes and start-ups: its inductive invariant       *)
(* survives them, a crash loop is cut and nothing else is, and what is      *)
(* stored still implements DagJob, for every plan and every bound.         *)
(***************************************************************************)
EXTENDS Restart, ExecutionProofs, FiniteSetTheorems

-----------------------------------------------------------------------------
(* Counting the settled steps.                                               *)

\* Any set of steps is finite and has at most N of them.
LEMMA StepCount ==
  ASSUME NEW S \in SUBSET Nodes
  PROVE  IsFiniteSet(S) /\ Cardinality(S) \in 0..N
<1>1. IsFiniteSet(Nodes) /\ Cardinality(Nodes) = N
  <2>1. N \in Nat \ {0}
    BY PlanAssumption
  <2> QED
    BY <2>1, FS_Interval DEF Nodes
<1>2. IsFiniteSet(S) /\ Cardinality(S) <= Cardinality(Nodes)
  BY <1>1, FS_Subset
<1>3. Cardinality(S) \in Nat
  BY <1>2, FS_CardinalityType
<1> QED
  BY <1>1, <1>2, <1>3, PlanAssumption

\* While nobody takes a settled step back, their count grows whenever the set
\* changes.
LEMMA SettledGrows ==
  ASSUME \A n \in Nodes : Settled(n) => Settled(n)'
  PROVE  \/ SettledSteps' = SettledSteps
         \/ Cardinality(SettledSteps) < Cardinality(SettledSteps')
<1>1. SettledSteps \subseteq SettledSteps' /\ SettledSteps' \subseteq Nodes
  BY DEF SettledSteps
<1>2. /\ IsFiniteSet(SettledSteps')
      /\ Cardinality(SettledSteps) \in 0..N /\ Cardinality(SettledSteps') \in 0..N
  BY <1>1, StepCount
<1> QED
  BY <1>1, <1>2, FS_Subset

-----------------------------------------------------------------------------
(* What the start-up writes.                                                 *)

\* A write of rows only: the calls and their bodies are where they were, and the
\* question the job is parked on, if it is parked, is the one it was parked on.
LEMMA RowsKeepInv ==
  ASSUME ExecutionInv, DagNext \/ UNCHANGED dagVars, UNCHANGED callVars,
         asked' = asked, opRetry' = opRetry, StoredTypeOK',
         job' = "awaiting_decision" => job = "awaiting_decision"
  PROVE  ExecutionInv'
<1>1. DagInv /\ CallTypeOK
  BY DEF ExecutionInv, TypeOK, DagInv
<1>2. DagInv'
  BY <1>1, DagNextInv
<1>3. CallTypeOK'
  BY <1>1 DEF CallTypeOK, callVars
<1>4. Keeps
  BY DEF ExecutionInv, Keeps, KeepsStored, StoredRemembers, KeepsCall, CallRemembers,
         ResultsNameSteps, callVars
<1>5. /\ StoredRemembers'
      /\ \A c \in Calls : CallRemembers(c)' /\ ResultsNameSteps(c)'
      /\ \A c \in Calls : \A w \in inflight'[c] : BodyRemembers(w)'
  BY <1>1, <1>4, KeepsInv DEF DagInv
<1> QED
  BY <1>2, <1>3, <1>5 DEF ExecutionInv, TypeOK, DagInv

\* A crash forgets every call and keeps every row.
LEMMA CrashKeepsInv ==
  ASSUME ExecutionInv, Crash
  PROVE  ExecutionInv'
<1>1. UNCHANGED <<jobVars, nodeVars, events>>
  BY DEF Crash
<1>2. DagInv'
  BY <1>1 DEF ExecutionInv, TypeOK, DagInv, DagTypeOK, DependencyOrder, CompletedIsWhole,
              AllHeld, DepsHeld, Settled, jobVars, nodeVars
<1>3. StoredTypeOK'
  BY <1>1, StepFacts DEF Crash, ExecutionInv, TypeOK, StoredTypeOK, jobVars, nodeVars
<1>4. CallTypeOK'
  BY ExecutionAssumption DEF Crash, CallTypeOK, Phases, Reasons
<1>5. StoredRemembers'
  BY <1>1 DEF Crash, ExecutionInv, StoredRemembers, DepsHeld, Settled, jobVars, nodeVars
<1>6. \A c \in Calls : CallRemembers(c)' /\ ResultsNameSteps(c)'
  BY DEF Crash, CallRemembers, ResultsNameSteps
<1>7. \A c \in Calls : \A w \in inflight'[c] : BodyRemembers(w)'
  BY DEF Crash
<1> QED
  BY <1>2, <1>3, <1>4, <1>5, <1>6, <1>7 DEF ExecutionInv, TypeOK, DagInv

\* Sweep and reconcile only put back, or fail, steps that are running.
LEMMA OrphansMove ==
  ASSUME DagTypeOK, NEW s \in {"pending", "failed"},
         st' = [n \in Nodes |-> IF st[n] = "running" THEN s ELSE st[n]], JobMoves
  PROVE  DagNext /\ SettledSteps' = SettledSteps
<1>1. st' \in [Nodes -> NodeStatuses]
  BY DEF DagTypeOK, NodeStatuses
<1>2. \A n \in Nodes : StepMoves(n)
  BY DEF DagTypeOK, StepMoves, EndsStep
<1>3. \A n \in Nodes : Settled(n)' <=> Settled(n)
  BY DEF Settled, SettledStatuses
<1> QED
  BY <1>1, <1>2, <1>3, MovesSuffice DEF SettledSteps

-----------------------------------------------------------------------------
(* Every step of the restarted program is a step of the job, and keeps what   *)
(* the executor remembers.                                                    *)

\* What a step is when requests are served: the executor's, or the reaper's on a
\* job no run is left to touch.
LEMMA UpFacts ==
  ASSUME UpNext
  PROVE  /\ boot = "up"
         /\ Next \/ ReapAbandoned
         /\ fruitless' = IF SettledSteps' = SettledSteps THEN fruitless ELSE 0
         /\ UNCHANGED <<bootVars, mishaps>>
<1>1. CASE \E c \in Calls \ {Resumer} : Up(Admit(c) \/ Solo(c))
  BY <1>1 DEF Up, Next, CallNext
<1>2. CASE \E c \in Calls : Up(RunStep(c)) \/ Up(BodyStep(c)) \/ Up(RunUpset(c))
  BY <1>2 DEF Up, Next, CallNext
<1>3. CASE Up(StepNext \/ JobNext \/ ReapAbandoned)
  BY <1>3 DEF Up, Next
<1> QED
  BY <1>1, <1>2, <1>3 DEF UpNext

\* The reaper fails an abandoned job and moves nothing else.
LEMMA AbandonedFails ==
  ASSUME ExecutionInv, ReapAbandoned
  PROVE  DagNext /\ ExecutionInv'
<1>1. DagTypeOK /\ StoredTypeOK
  BY DEF ExecutionInv, TypeOK
<1>2. DagNext
  BY <1>1, JobStep DEF ReapAbandoned, nodeVars, JobMoves, TerminalStatuses, ExecutionStatuses
<1>3. StoredTypeOK'
  BY <1>1 DEF ReapAbandoned, nodeVars, StoredTypeOK
<1> QED
  BY <1>2, <1>3, RowsKeepInv DEF ReapAbandoned

\* The start-up's writes: the sweep, the claim and the reconcile.
LEMMA BootWrites ==
  ASSUME ExecutionInv, Sweep \/ Claim \/ Reconcile
  PROVE  /\ DagNext \/ UNCHANGED dagVars
         /\ SettledSteps' = SettledSteps
         /\ ExecutionInv'
<1>1. DagTypeOK /\ StoredTypeOK
  BY DEF ExecutionInv, TypeOK
<1>2. /\ UNCHANGED callVars /\ asked' = asked /\ opRetry' = opRetry /\ StoredTypeOK'
      /\ job' = "awaiting_decision" => job = "awaiting_decision"
  BY <1>1 DEF Sweep, Claim, Reconcile, jobVars, nodeVars, StoredTypeOK
<1>3. (DagNext \/ UNCHANGED dagVars) /\ SettledSteps' = SettledSteps
  <2>1. CASE Sweep
    BY <1>1, <2>1, OrphansMove DEF Sweep, jobVars, JobMoves
  <2>2. CASE Claim
    <3>1. st' = st
      BY <2>2 DEF Claim, nodeVars
    <3>2. JobMoves
      BY <2>2 DEF Claim, JobMoves, TerminalStatuses, ExecutionStatuses
    <3> QED
      BY <1>1, <3>1, <3>2, JobStep DEF SettledSteps, Settled
  <2>3. CASE Reconcile
    <3>1. CASE job = "running" /\ ~resumed
      <4>1. JobMoves
        BY <2>3, <3>1 DEF Reconcile, JobMoves, TerminalStatuses, ExecutionStatuses
      <4>2. st' = [n \in Nodes |-> IF st[n] = "running" THEN "failed" ELSE st[n]]
        BY <2>3, <3>1 DEF Reconcile
      <4> QED
        BY <1>1, <4>1, <4>2, OrphansMove
    <3>2. CASE ~(job = "running" /\ ~resumed)
      BY <2>3, <3>2 DEF Reconcile, dagVars, SettledSteps, Settled
    <3> QED
      BY <3>1, <3>2
  <2> QED
    BY <2>1, <2>2, <2>3
<1> QED
  BY <1>2, <1>3, RowsKeepInv

\* The other start-up steps, and what waits for an execution slot.
LEMMA BootWaits ==
  ASSUME ExecutionInv,
         SweepRaises \/ ValveOff \/ ClaimRaises \/ ReconcileRaises \/ Spawn \/ DrainTimesOut
  PROVE  UNCHANGED vars
  BY DEF SweepRaises, ValveOff, ClaimRaises, ReconcileRaises, Spawn, DrainTimesOut

\* A drain that is admitted is a call of the executor like any other.
LEMMA DrainIsACall ==
  ASSUME DrainStarts
  PROVE  Next \/ UNCHANGED vars
  BY RestartAssumption DEF DrainStarts, Next, CallNext

\* So every step is one of four kinds.
LEMMA RestartStep ==
  ASSUME ExecutionInv, [RestartNext]_restartVars
  PROVE  /\ DagNext \/ UNCHANGED dagVars
         /\ ExecutionInv'
<1>1. CASE UpNext
  <2>1. CASE Next
    BY <2>1, NextRefines, NextInv
  <2>2. CASE ReapAbandoned
    BY <2>2, AbandonedFails
  <2> QED
    BY <1>1, <2>1, <2>2, UpFacts
<1>2. CASE Crash
  <2>1. UNCHANGED dagVars
    BY <1>2 DEF Crash, jobVars, nodeVars, dagVars
  <2> QED
    BY <1>2, <2>1, CrashKeepsInv
<1>3. CASE Sweep \/ Claim \/ Reconcile
  BY <1>3, BootWrites
<1>4. CASE \/ SweepRaises \/ ValveOff \/ ClaimRaises \/ ReconcileRaises \/ Spawn \/ DrainTimesOut
           \/ DrainStarts \/ UNCHANGED restartVars
  <2>1. Next \/ UNCHANGED vars
    BY <1>4, BootWaits, DrainIsACall DEF restartVars
  <2>2. [Next]_vars
    BY <2>1
  <2> QED
    BY <2>2, NextRefines, NextInv
<1> QED
  BY <1>1, <1>2, <1>3, <1>4 DEF RestartNext, BootNext

-----------------------------------------------------------------------------
(* The streak of fruitless launches.                                         *)

\* What the start-up remembers is well formed.
BootTypeOK ==
  /\ boot \in BootSteps
  /\ attempts \in 0..MaxResume
  /\ marker \in 0..N
  /\ resumed \in BOOLEAN
  /\ drain \in BOOLEAN
  /\ fruitless \in Nat
  /\ mishaps \in Nat

\* A launch by the start-up: the stored streak becomes the true one, and it never
\* passes the cap.
LEMMA LaunchKeeps ==
  ASSUME RestartInv, Claim
  PROVE  BootTypeOK' /\ StreakKept'
<1> DEFINE card == Cardinality(SettledSteps)
<1>1. SettledSteps \subseteq Nodes
  BY DEF SettledSteps
<1>2. card \in 0..N
  BY <1>1, StepCount
<1>3. SettledSteps' = SettledSteps
  BY BootWrites DEF RestartInv
<1>4. /\ attempts \in 0..MaxResume /\ marker \in 0..N /\ fruitless \in Nat
      /\ fruitless <= attempts
      /\ fruitless > 0 => marker = card
      /\ Reopened \/ marker <= card
      /\ Reopened \/ (marker = card => attempts = fruitless)
  BY DEF RestartInv, RestartTypeOK, StreakKept
<1>5. boot' = "reconcile" /\ UNCHANGED <<drain, mishaps, events>>
  BY DEF Claim
<1>8. Reopened' <=> Reopened
  BY <1>5 DEF Reopened, Happened
<1>6. CASE UNCHANGED <<attempts, marker, resumed, fruitless>>
  BY <1>3, <1>5, <1>6, <1>8 DEF RestartInv, RestartTypeOK, BootTypeOK, BootSteps, StreakKept
<1>7. CASE /\ ~OverCap
           /\ attempts' = NextAttempt /\ marker' = card
           /\ resumed' = TRUE /\ fruitless' = fruitless + 1
  <2>1. MadeProgress <=> card > marker
    BY DEF MadeProgress
  <2>2. /\ NextAttempt \in Nat \ {0} /\ fruitless + 1 <= NextAttempt
        /\ Reopened \/ NextAttempt = fruitless + 1
    BY <1>2, <1>4, <2>1 DEF NextAttempt
  <2>3. NextAttempt \in 0..MaxResume
    BY <1>4, <1>7, <2>2, RestartAssumption DEF OverCap
  <2>4. BootTypeOK'
    BY <1>2, <1>4, <1>5, <1>7, <2>3 DEF RestartInv, RestartTypeOK, BootTypeOK, BootSteps
  <2>5. Cardinality(SettledSteps') = card
    BY <1>3
  <2> HIDE DEF card
  <2>6. StreakKept'
    BY <1>2, <1>4, <1>7, <1>8, <2>2, <2>5 DEF StreakKept
  <2> QED
    BY <2>4, <2>6
<1> QED
  BY <1>6, <1>7 DEF Claim

\* A step that leaves the streak and the settled steps alone.
LEMMA StreakStays ==
  ASSUME RestartInv, SettledSteps' = SettledSteps, UNCHANGED <<attempts, marker, fruitless>>,
         Reopened => Reopened'
  PROVE  StreakKept'
  BY DEF RestartInv, StreakKept

\* A mishap is taken from a stock of them.
LEMMA MishapCounts ==
  ASSUME mishaps \in Nat, Mishap
  PROVE  mishaps' \in Nat
  BY DEF Mishap

\* That a step was put back is not forgotten.
LEMMA ReopenedIsKept ==
  ASSUME ExecutionInv, ExecutionInv', [Next]_vars
  PROVE  Reopened \/ TakesBack => Reopened'
<1>1. \A kind \in {"reset", "stale_tests"} : Happened(kind) \/ Outside(kind) => Happened(kind)'
  BY RecordIsKept DEF EventKinds
<1> QED
  BY <1>1 DEF Reopened, TakesBack

\* The start-up's steps.
LEMMA BootKeeps ==
  ASSUME RestartInv, BootNext
  PROVE  BootTypeOK' /\ BootIsQuiet' /\ StreakKept'
<1>7. Reopened => Reopened'
  <2>1. events' = events
    BY DEF BootNext, Crash, Sweep, SweepRaises, Claim, ValveOff, ClaimRaises, Reconcile, ReconcileRaises,
           Spawn, DrainStarts, DrainTimesOut, Admit, vars
  <2> QED
    BY <2>1 DEF Reopened, Happened
<1>1. ExecutionInv /\ BootTypeOK /\ BootIsQuiet
  BY DEF RestartInv, RestartTypeOK, BootTypeOK
<1>2. CASE Crash
  <2>1. SettledSteps' = SettledSteps
    BY <1>2 DEF Crash, nodeVars, SettledSteps, Settled
  <2>2. BootIsQuiet'
    BY <1>2 DEF Crash, BootIsQuiet
  <2>3. mishaps' \in Nat
    BY <1>1, <1>2, MishapCounts DEF Crash, BootTypeOK
  <2>4. BootTypeOK'
    BY <1>1, <1>2, <2>3 DEF Crash, BootTypeOK, BootSteps
  <2> QED
    BY <1>2, <1>7, <2>1, <2>2, <2>4, StreakStays DEF Crash
<1>3. CASE Sweep \/ Reconcile
  <2>1. SettledSteps' = SettledSteps
    BY <1>1, <1>3, BootWrites
  <2>2. BootTypeOK' /\ BootIsQuiet'
    BY <1>1, <1>3 DEF Sweep, Reconcile, BootTypeOK, BootSteps, BootIsQuiet, callVars
  <2> QED
    BY <1>3, <1>7, <2>1, <2>2, StreakStays DEF Sweep, Reconcile
<1>4. CASE Claim
  <2>1. BootIsQuiet'
    BY <1>1, <1>4 DEF Claim, BootIsQuiet, callVars
  <2> QED
    BY <1>4, <2>1, LaunchKeeps
<1>5. CASE SweepRaises \/ ValveOff \/ ClaimRaises \/ ReconcileRaises \/ Spawn \/ DrainTimesOut
  <2>1. UNCHANGED vars
    BY <1>1, <1>5, BootWaits
  <2>2. SettledSteps' = SettledSteps
    BY <2>1 DEF vars, nodeVars, SettledSteps, Settled
  <2>3. BootIsQuiet'
    BY <1>1, <1>5, <2>1
       DEF SweepRaises, ValveOff, ClaimRaises, ReconcileRaises, Spawn, DrainTimesOut,
           BootIsQuiet, vars, callVars
  <2>4. mishaps' \in Nat
    BY <1>1, <1>5, MishapCounts
       DEF SweepRaises, ValveOff, ClaimRaises, ReconcileRaises, Spawn, DrainTimesOut, BootTypeOK
  <2>5. BootTypeOK'
    BY <1>1, <1>5, <2>4
       DEF SweepRaises, ValveOff, ClaimRaises, ReconcileRaises, Spawn, DrainTimesOut,
           BootTypeOK, BootSteps
  <2> QED
    BY <1>5, <1>7, <2>2, <2>3, <2>5, StreakStays
       DEF SweepRaises, ValveOff, ClaimRaises, ReconcileRaises, Spawn, DrainTimesOut
<1>6. CASE DrainStarts
  <2>1. SettledSteps' = SettledSteps
    BY <1>6 DEF DrainStarts, Admit, vars, nodeVars, SettledSteps, Settled
  <2>2. BootTypeOK' /\ BootIsQuiet'
    BY <1>1, <1>6 DEF DrainStarts, BootTypeOK, BootIsQuiet
  <2> QED
    BY <1>6, <1>7, <2>1, <2>2, StreakStays DEF DrainStarts
<1> QED
  BY <1>2, <1>3, <1>4, <1>5, <1>6 DEF BootNext

\* While requests are served the streak is cut the moment a step is settled, and
\* what is settled stays so until something is put back.
LEMMA UpKeeps ==
  ASSUME RestartInv, UpNext, ExecutionInv'
  PROVE  BootTypeOK' /\ BootIsQuiet' /\ StreakKept'
<1>1. /\ boot = "up" /\ UNCHANGED <<bootVars, mishaps>>
      /\ fruitless' = IF SettledSteps' = SettledSteps THEN fruitless ELSE 0
  BY UpFacts
<1>2. BootTypeOK' /\ BootIsQuiet'
  BY <1>1 DEF RestartInv, RestartTypeOK, BootTypeOK, BootIsQuiet, bootVars
<1>3. /\ Reopened => Reopened'
      /\ Reopened' \/ \A n \in Nodes : Settled(n) => Settled(n)'
  <2>1. CASE Next
    <3>1. Reopened \/ TakesBack => Reopened'
      BY <2>1, ReopenedIsKept DEF RestartInv
    <3>2. \A n \in Nodes : Settled(n) => st'[n] = st[n] \/ TakesBack
      BY <2>1, UndoneOnRecord DEF RestartInv
    <3> QED
      BY <3>1, <3>2 DEF Settled
  <2>2. CASE ReapAbandoned
    BY <2>2 DEF ReapAbandoned, nodeVars, Settled, Reopened, Happened
  <2> QED
    BY <2>1, <2>2, UpFacts
<1>4. CASE SettledSteps' = SettledSteps
  BY <1>1, <1>2, <1>3, <1>4, StreakStays DEF bootVars
<1>5. CASE SettledSteps' # SettledSteps
  <2>1. Reopened' \/ Cardinality(SettledSteps) < Cardinality(SettledSteps')
    BY <1>3, <1>5, SettledGrows
  <2>2. Cardinality(SettledSteps) \in 0..N /\ Cardinality(SettledSteps') \in 0..N
    BY StepCount DEF SettledSteps
  <2>3. /\ marker' = marker /\ attempts' = attempts /\ fruitless' = 0
        /\ marker \in 0..N /\ attempts \in 0..MaxResume
        /\ Reopened \/ marker <= Cardinality(SettledSteps)
    BY <1>1, <1>5 DEF bootVars, RestartInv, RestartTypeOK, StreakKept
  <2> QED
    BY <1>2, <1>3, <2>1, <2>2, <2>3 DEF StreakKept
<1> QED
  BY <1>4, <1>5

-----------------------------------------------------------------------------
(* The theorems.                                                             *)

LEMMA RestartInitInv == RestartInit => RestartInv
<1> SUFFICES ASSUME RestartInit PROVE RestartInv
  OBVIOUS
<1>1. ExecutionInv
  BY InitInv DEF RestartInit
<1>2. SettledSteps = {}
  BY DEF RestartInit, Init, DagInit, SettledSteps, Settled, SettledStatuses
<1>3. Cardinality(SettledSteps) = 0
  BY <1>2, FS_EmptySet
<1>4. MaxResume \in Nat /\ N \in Nat /\ MaxMishaps \in Nat
  BY RestartAssumption, PlanAssumption
<1>5. attempts \in 0..MaxResume /\ marker \in 0..N /\ fruitless \in Nat /\ mishaps \in Nat
  BY <1>4 DEF RestartInit
<1>6. RestartTypeOK
  BY <1>1, <1>5 DEF RestartInit, RestartTypeOK, ExecutionInv, BootSteps
<1> QED
  BY <1>1, <1>3, <1>6 DEF RestartInit, RestartInv, BootIsQuiet, StreakKept

LEMMA RestartNextInv ==
  ASSUME RestartInv, [RestartNext]_restartVars
  PROVE  RestartInv'
<1>1. ExecutionInv' /\ (DagNext \/ UNCHANGED dagVars)
  BY RestartStep DEF RestartInv
<1>2. CASE RestartNext
  <2>1. BootTypeOK' /\ BootIsQuiet' /\ StreakKept'
    BY <1>1, <1>2, BootKeeps, UpKeeps DEF RestartNext
  <2> QED
    BY <1>1, <2>1 DEF RestartInv, RestartTypeOK, BootTypeOK, ExecutionInv
<1>3. CASE UNCHANGED restartVars
  <2>1. SettledSteps' = SettledSteps
    BY <1>3 DEF restartVars, vars, nodeVars, SettledSteps, Settled
  <2>2. StreakKept'
    BY <1>3, <2>1, StreakStays DEF restartVars, bootVars, vars, Reopened, Happened
  <2> QED
    BY <1>1, <1>3, <2>2
       DEF RestartInv, RestartTypeOK, ExecutionInv, BootIsQuiet, restartVars, vars, callVars, bootVars
<1> QED
  BY <1>2, <1>3

\* What the executor remembers survives crashes and start-ups, no call is under
\* way while the process starts, and the stored streak of launches is the true one.
THEOREM RestartSafety == RestartSpec => []RestartInv
<1>1. RestartInv /\ [RestartNext]_restartVars => RestartInv'
  BY RestartNextInv
<1> QED
  BY RestartInitInv, <1>1, PTL DEF RestartSpec

\* A job that crashes the process over and over is launched by start-ups at most
\* execution_max_resume_attempts times without a step being settled in between.
THEOREM LoopIsCut == RestartSpec => []CrashLoopCut
<1>1. RestartInv => CrashLoopCut
  BY RestartAssumption DEF RestartInv, RestartTypeOK, StreakKept, CrashLoopCut
<1> QED
  BY RestartSafety, <1>1, PTL

\* And only such a job is: a start-up that fails one has launched it that many
\* times in a row for nothing, or found it running and did not claim it.  (Once a
\* step has been put back the count of settled steps no longer tells.)
THEOREM OnlyTheStuckAreCut == RestartSpec => CutOnlyWhenStuck
<1> DEFINE CutRight == boot # "up" /\ job # "failed" /\ job' = "failed" =>
                         \/ boot = "claim" /\ (fruitless = MaxResume \/ Reopened)
                         \/ boot = "reconcile" /\ ~resumed
<1>1. RestartInv /\ [RestartNext]_restartVars => [CutRight]_restartVars
  <2> SUFFICES ASSUME RestartInv, RestartNext, boot # "up", job # "failed", job' = "failed"
               PROVE  \/ boot = "claim" /\ (fruitless = MaxResume \/ Reopened)
                      \/ boot = "reconcile" /\ ~resumed
    OBVIOUS
  <2>1. BootNext /\ ~DrainStarts /\ ~DrainTimesOut
    BY UpFacts DEF RestartNext, DrainStarts, DrainTimesOut
  <2>2. Claim \/ Reconcile
    BY <2>1, BootWaits
       DEF BootNext, Crash, Sweep, RestartInv, vars, jobVars
  <2>3. CASE Claim
    <3>1. boot = "claim" /\ OverCap
      BY <2>3 DEF Claim
    <3>2. Cardinality(SettledSteps) \in 0..N
      BY StepCount DEF SettledSteps
    <3>3. ~MadeProgress /\ attempts = MaxResume
      BY <3>1, RestartAssumption DEF OverCap, NextAttempt, RestartInv, RestartTypeOK
    <3> QED
      BY <3>1, <3>2, <3>3 DEF MadeProgress, RestartInv, RestartTypeOK, StreakKept
  <2>4. CASE Reconcile
    BY <2>4 DEF Reconcile
  <2> QED
    BY <2>2, <2>3, <2>4
<1> QED
  BY RestartSafety, <1>1, PTL DEF RestartSpec, CutOnlyWhenStuck

\* Crashes, start-ups and relaunches included, what is stored of the job behaves
\* as DagJob says: the abstract job does not know that the process ever died.
THEOREM RestartsImplementDag == RestartSpec => DagSpec
<1>1. RestartInit => DagInit
  BY DEF RestartInit, Init
<1>2. RestartInv /\ [RestartNext]_restartVars => [DagNext]_dagVars
  BY RestartStep DEF RestartInv
<1> QED
  BY RestartSafety, <1>1, <1>2, PTL DEF RestartSpec, DagSpec

-----------------------------------------------------------------------------
(* What the executor's guarantees owe to nobody dying.  A step that is not the *)
(* executor's own, a crash, a row the start-up writes, the reaper on an         *)
(* abandoned job, leaves every call at rest with nothing going, and of the rows *)
(* it moves running steps only: so every claim, every retry read and every      *)
(* question the calls had is either gone with them or still right.              *)

\* No call is under way.
AllRest == \A c \in Calls : Rests(c) /\ inflight[c] = {}

\* What such a step does to the rows.
RowsStand ==
  /\ UNCHANGED <<asked, delegated, tries, claims, events>>
  /\ opRetry' = opRetry \/ opRetry' = NoRetry
  /\ \A n \in Nodes : st'[n] = st[n] \/ (st[n] = "running" /\ st'[n] \in {"pending", "failed"})
  /\ job' \in {"awaiting_decision", "blocked"} => job' = job

\* And to the calls: it forgets them, or they were at rest and stay where they are.
CallsRest ==
  /\ AllRest'
  /\ \A c \in Calls : results'[c] = <<>> \/ (Rests(c) /\ results'[c] = results[c])

Afresh == RowsStand /\ CallsRest

LEMMA RestartKinds ==
  ASSUME RestartInv, ShapeInv, [RestartNext]_restartVars
  PROVE  [Next]_vars \/ (Afresh /\ (Crash \/ AllRest))
<1>1. DagTypeOK /\ BootIsQuiet /\ ExecutionInv
  BY DEF RestartInv, ExecutionInv, TypeOK
<1>2. ASSUME AllRest, UNCHANGED callVars
      PROVE  CallsRest
  BY <1>2 DEF AllRest, CallsRest, Rests, callVars
<1>3. boot # "up" => AllRest
  BY <1>1 DEF BootIsQuiet, AllRest, Rests
<1>4. CASE UpNext
  <2>1. CASE ReapAbandoned
    <3>1. AllRest
      BY <2>1 DEF ReapAbandoned, Abandoned, AllRest, Rests, ShapeInv, Shape
    <3>2. RowsStand
      BY <2>1 DEF ReapAbandoned, RowsStand, nodeVars
    <3> QED
      BY <1>2, <2>1, <3>1, <3>2 DEF ReapAbandoned, Afresh
  <2> QED
    BY <1>4, <2>1, UpFacts
<1>5. CASE Crash
  <2>1. CallsRest
    BY <1>5 DEF Crash, CallsRest, AllRest, Rests
  <2>2. RowsStand
    BY <1>5 DEF Crash, RowsStand, jobVars, nodeVars
  <2> QED
    BY <1>5, <2>1, <2>2 DEF Afresh
<1>6. CASE Sweep \/ Claim \/ Reconcile
  <2>1. AllRest /\ UNCHANGED callVars
    BY <1>3, <1>6 DEF Sweep, Claim, Reconcile
  <2>2. UNCHANGED <<asked, delegated, tries, claims, opRetry, events>>
    BY <1>6 DEF Sweep, Claim, Reconcile, jobVars, nodeVars
  <2>3. \A n \in Nodes : st'[n] = st[n] \/ (st[n] = "running" /\ st'[n] \in {"pending", "failed"})
    BY <1>6 DEF Sweep, Claim, Reconcile, nodeVars
  <2>4. job' \in {"awaiting_decision", "blocked"} => job' = job
    BY <1>6 DEF Sweep, Claim, Reconcile, jobVars
  <2> QED
    BY <1>2, <2>1, <2>2, <2>3, <2>4 DEF Afresh, RowsStand
<1>7. CASE \/ SweepRaises \/ ValveOff \/ ClaimRaises \/ ReconcileRaises \/ Spawn \/ DrainTimesOut
           \/ DrainStarts \/ UNCHANGED restartVars
  BY <1>1, <1>7, BootWaits, DrainIsACall DEF restartVars
<1> QED
  BY <1>4, <1>5, <1>6, <1>7 DEF RestartNext, BootNext

\* Who owns a step: nobody does any more.
LEMMA AfreshOwns ==
  ASSUME ClaimInv, Afresh
  PROVE  ClaimInv'
<1>1. \A c \in Calls : phase'[c] \in {"idle", "over"} /\ inflight'[c] = {} /\ results'[c] = <<>>
  <2> SUFFICES ASSUME NEW c \in Calls
               PROVE  phase'[c] \in {"idle", "over"} /\ inflight'[c] = {} /\ results'[c] = <<>>
    OBVIOUS
  <2>1. Rests(c) => results[c] = <<>>
    BY DEF Rests, ClaimInv, CallClaims, NothingLoose
  <2> QED
    BY <2>1 DEF Afresh, CallsRest, AllRest, Rests
<1>2. \A c \in Calls : \A n \in Nodes : ~Reported(c, n)' /\ ~Retrying(c, n)' /\ ~Releasing(c, n)'
  BY <1>1 DEF Reported, Retrying, Releasing
<1>3. \A c \in Calls : \A n \in Nodes : ~Owns(c, n)'
  BY <1>1, <1>2 DEF Owns
<1>4. \A c \in Calls : CallClaims(c)'
  BY <1>1, <1>2 DEF CallClaims, OwnsOnce, FailuresStand, NothingLoose
<1>5. (\A n \in Nodes : st'[n] # "skipped") /\ opRetry' = NoRetry
  BY DEF Afresh, RowsStand, ClaimInv
<1> QED
  BY <1>3, <1>4, <1>5 DEF ClaimInv

\* How often a step is retried: a read that is lost makes no retry.
LEMMA AfreshRetries ==
  ASSUME IsFiniteSet(Calls), ExecutionInv, ExecutionInv', RetryInv, Afresh
  PROVE  RetryInv'
<1>1. StoredTypeOK /\ StoredTypeOK'
  BY DEF ExecutionInv, TypeOK
<1>2. ASSUME NEW n \in Nodes
      PROVE  RetriesOf(n)
  <2>1. Resetting(n)' = {}
    BY DEF Afresh, CallsRest, AllRest, Rests, Resetting
  <2>2. opRetry'.node = n => opRetry.node = n
    BY StepFacts DEF Afresh, RowsStand, NoRetry
  <2> QED
    BY <2>1, <2>2 DEF Afresh, RowsStand, RetriesOf, NoNewRetry
<1> QED
  BY <1>1, <1>2, RetriesStayBounded DEF RetryInv

\* What the job's status says of the bodies, and who has which step.
LEMMA AfreshIsQuiet ==
  ASSUME Afresh
  PROVE  /\ ShapeInv' /\ HeldInv'
         /\ QuietInv => QuietInv'
         /\ AskedInv => AskedInv'
<1>1. \A c \in Calls : phase'[c] \in {"idle", "over"} /\ inflight'[c] = {}
  BY DEF Afresh, CallsRest, AllRest, Rests
<1>2. ShapeInv' /\ HeldInv'
  BY <1>1 DEF ShapeInv, Shape, HeldInv, HeldBy
<1>3. ASSUME QuietInv
      PROVE  QuietInv'
  <2>1. \A c \in Calls : Quiet(c)'
    BY <1>1 DEF Quiet
  <2>2. NoAnswer
    BY DEF Afresh, RowsStand, NoAnswer
  <2>3. ParkedAsks'
    BY <1>3, <2>2, ParkedStands DEF Afresh, RowsStand, QuietInv
  <2> QED
    BY <2>1, <2>3 DEF QuietInv
<1>4. ASSUME AskedInv
      PROVE  AskedInv'
  <2>1. \A c \in Calls : Asked(c)'
    BY <1>1 DEF Asked
  <2>2. Undelegated' = Undelegated /\ Undelegated \subseteq Nodes
    BY ExecutionAssumption DEF Afresh, RowsStand, Undelegated
  <2>3. DecisionsRest'
    BY <1>4, <2>2 DEF AskedInv, DecisionsRest, Afresh, RowsStand
  <2> QED
    BY <2>1, <2>3 DEF AskedInv
<1> QED
  BY <1>2, <1>3, <1>4

\* The shape of what a call has going holds with every event and every crash.
LEMMA RestartShapes == RestartSpec => []ShapeInv
<1>1. RestartInit => ShapeInv
  BY InitAlone DEF RestartInit
<1>2. RestartInv /\ ShapeInv /\ [RestartNext]_restartVars => ShapeInv'
  BY RestartKinds, NextShapes, AfreshIsQuiet DEF RestartInv
<1> QED
  BY RestartSafety, <1>1, <1>2, PTL DEF RestartSpec

\* No crash, start-up sweep or relaunch undoes a settled step: it is put back by
\* stale tests or a reset, on record, and by nothing else.
THEOREM RestartsKeepWork == RestartSpec => PutBackOnly
<1>1. RestartInv /\ ShapeInv /\ [RestartNext]_restartVars =>
        [\A n \in Nodes : Settled(n) =>
           st'[n] = st[n] \/ (n \in Reopenable /\ st'[n] = "pending" /\ TakesBack)]_vars
  <2>1. ASSUME Afresh, NEW n \in Nodes, Settled(n)
        PROVE  st'[n] = st[n]
    BY <2>1 DEF Afresh, RowsStand, Settled, SettledStatuses
  <2> QED
    BY <2>1, RestartKinds, UndoneOnRecord DEF RestartInv
<1> QED
  BY RestartSafety, RestartShapes, <1>1, PTL DEF RestartSpec, PutBackOnly

\* However often the process dies with claimed steps in the table, and whatever the
\* sweep, the reconcile and the reaper put back for the drain that is spawned next
\* to the operator's own calls: a step has at most one owner.
THEOREM RestartsKeepClaims == Undisturbed => (RestartSpec => []ClaimInv)
<1> SUFFICES ASSUME Undisturbed PROVE RestartSpec => []ClaimInv
  OBVIOUS
<1>1. RestartInit => ClaimInv
  BY InitOwns DEF RestartInit
<1>2. RestartInv /\ ShapeInv /\ ClaimInv /\ [RestartNext]_restartVars => ClaimInv'
  BY RestartKinds, NextOwns, AfreshOwns DEF RestartInv
<1> QED
  BY RestartSafety, RestartShapes, <1>1, <1>2, PTL DEF RestartSpec

\* So a restart never has two bodies at work on one step, the resumed drain's and
\* that of a call the operator makes meanwhile.
THEOREM RestartsHaveOneWorker == Undisturbed => (RestartSpec => [](SoleWorker /\ OneWorker))
<1> SUFFICES ASSUME Undisturbed PROVE RestartSpec => [](SoleWorker /\ OneWorker)
  OBVIOUS
<1>1. ClaimInv => SoleWorker /\ OneWorker
  BY OwnersWorkAlone DEF OneWorker
<1> QED
  BY RestartsKeepClaims, <1>1, PTL

\* And an outcome written after a restart is written by the body that claimed the
\* step last.
THEOREM RestartsWriteByTheClaim ==
  Undisturbed => (RestartSpec => [][WritesItsClaim]_vars /\ FreshWriter)
<1> SUFFICES ASSUME Undisturbed PROVE RestartSpec => [][WritesItsClaim]_vars /\ FreshWriter
  OBVIOUS
<1>1. ClaimInv => [WritesItsClaim]_vars
  BY DEF ClaimInv, CallClaims, BodyClaims, WritesItsClaim
<1>2. [WritesItsClaim]_vars => [Happened("stale_tests") \/ WritesItsClaim]_vars
  OBVIOUS
<1> QED
  BY RestartsKeepClaims, <1>1, <1>2, PTL DEF FreshWriter

\* A crash between a retry's read and its reset makes no retry more: the bound on
\* the retries of a step does not grow with the restarts.
THEOREM RestartsBoundRetries == IsFiniteSet(Calls) => (RestartSpec => []RetryBound)
<1> SUFFICES ASSUME IsFiniteSet(Calls) PROVE RestartSpec => []RetryBound
  OBVIOUS
<1>1. RestartInit => RetryInv
  BY InitRetryInv DEF RestartInit
<1>2. /\ RestartInv /\ RestartInv' /\ ShapeInv /\ RetryInv /\ [RestartNext]_restartVars
      => RetryInv'
  BY RestartKinds, NextRetryInv, AfreshRetries DEF RestartInv
<1>3. RestartInv /\ RetryInv => RetryBound
  BY RetryInvBounds DEF RestartInv
<1> QED
  BY RestartSafety, RestartShapes, <1>1, <1>2, <1>3, PTL DEF RestartSpec

\* Without overlapping calls the rest of the executor's invariants survive as well.
LEMMA RestartsAloneAreQuiet == RestartSpec /\ []NoOverlap => []QuietInv
<1>1. RestartInit => QuietInv
  BY InitAlone DEF RestartInit
<1>2. /\ RestartInv /\ ShapeInv /\ ShapeInv' /\ QuietInv /\ NoOverlap /\ NoOverlap'
      /\ [RestartNext]_restartVars
      => QuietInv'
  <2> SUFFICES ASSUME RestartInv, ShapeInv, ShapeInv', QuietInv, NoOverlap, NoOverlap',
                      [Next]_vars
               PROVE  QuietInv'
    BY RestartKinds, AfreshIsQuiet
  <2> QED
    BY CallIsQuiet, OutsideIsQuiet DEF Next, RestartInv
<1> QED
  BY RestartSafety, RestartShapes, <1>1, <1>2, PTL DEF RestartSpec

\* A job found blocked after a restart has nobody at work.
THEOREM RestartsBlockedMeansQuiet == RestartSpec /\ []NoOverlap => []BlockedIsQuiet
<1>1. QuietInv => BlockedIsQuiet
  BY DEF QuietInv, Quiet, BlockedIsQuiet
<1> QED
  BY RestartsAloneAreQuiet, <1>1, PTL

\* A question survives the process that asked it: the job that is still parked after
\* a restart asks about a step that can still be answered.
THEOREM RestartsParkedMeansAnswerable == RestartSpec /\ []NoOverlap => []ParkedIsAnswerable
<1>1. RestartInv /\ QuietInv => ParkedIsAnswerable
  BY DEF RestartInv, ExecutionInv, StoredRemembers, QuietInv, ParkedAsks, Asks, ParkedIsAnswerable
<1> QED
  BY RestartSafety, RestartsAloneAreQuiet, <1>1, PTL

\* A drain that picks the plan up after a crash starts no decision the operator did
\* not hand to the engine, not even one whose framing the crash cut off, until a
\* look-up fails.
THEOREM RestartsNeverUnasked == QuestionsHold => (RestartSpec /\ []NoOverlap => NeverUnasked)
<1> SUFFICES ASSUME QuestionsHold PROVE RestartSpec /\ []NoOverlap => NeverUnasked
  OBVIOUS
<1> DEFINE AskedOrMissed == AskedInv \/ Happened("look_error")
<1>1. RestartInit => AskedOrMissed
  BY InitAsks DEF RestartInit
<1>2. ASSUME RestartInv, RestartInv', ShapeInv, ShapeInv', QuietInv, AskedOrMissed,
             NoOverlap, NoOverlap', [RestartNext]_restartVars
      PROVE  AskedOrMissed'
  <2>1. CASE [Next]_vars
    BY <1>2, <2>1, NextAsks, RecordIsKept DEF RestartInv, EventKinds
  <2>2. CASE Afresh
    BY <1>2, <2>2, AfreshIsQuiet DEF Afresh, RowsStand, Happened
  <2> QED
    BY <1>2, <2>1, <2>2, RestartKinds
<1>3. RestartInv /\ ShapeInv /\ AskedOrMissed /\ [RestartNext]_restartVars =>
        [\A n \in Undelegated : st'[n] = "running" => st[n] = "running" \/ Happened("look_error")]_vars
  <2>1. ASSUME Afresh
        PROVE  \A n \in Undelegated : st'[n] = "running" => st[n] = "running"
    BY <2>1, ExecutionAssumption DEF Afresh, RowsStand, Undelegated
  <2> QED
    BY <2>1, RestartKinds, StartsAreAsked DEF RestartInv
<1> QED
  BY RestartSafety, RestartShapes, RestartsAloneAreQuiet, <1>1, <1>2, <1>3, PTL
     DEF RestartSpec, NeverUnasked

\* And with skips, retries and lost workers beside it, a step is worked on by one
\* body before and after a restart.
THEOREM RestartsAloneOneWorker ==
  NotTaken => (RestartSpec /\ []NoOverlap => [](SoleWorker /\ OneWorker))
<1> SUFFICES ASSUME NotTaken PROVE RestartSpec /\ []NoOverlap => [](SoleWorker /\ OneWorker)
  OBVIOUS
<1>1. RestartInit => HeldInv
  BY InitHolds DEF RestartInit
<1>2. /\ RestartInv /\ ShapeInv /\ ShapeInv' /\ HeldInv /\ NoOverlap /\ NoOverlap'
      /\ [RestartNext]_restartVars
      => HeldInv'
  BY RestartKinds, NextHolds, AfreshIsQuiet DEF RestartInv
<1>3. RestartInv /\ ShapeInv /\ HeldInv /\ NoOverlap => SoleWorker /\ OneWorker
  BY HoldersWorkAlone DEF RestartInv, OneWorker
<1> QED
  BY RestartSafety, RestartShapes, <1>1, <1>2, <1>3, PTL DEF RestartSpec

-----------------------------------------------------------------------------
(* What a dead process leaves.  Its running steps have nobody to look after    *)
(* them until the sweep has been over the rows, the first thing a start-up does *)
(* and the one thing nothing later makes up for: a run whose plan still holds a *)
(* dead run's step parks or blocks beside it.                                   *)

RestartLeft == boot = "sweep" \/ LeftInv
RestartLimit == RestartLeft \/ Happened("quota")

\* After a write of rows with every call at rest and no step running, nothing is left.
LEMMA RestLeavesNothing ==
  ASSUME Afresh, \A n \in Nodes : st'[n] # "running"
  PROVE  LeftInv'
<1>1. \A c \in Calls : phase'[c] \in {"idle", "over"} /\ inflight'[c] = {}
  BY DEF Afresh, CallsRest, AllRest, Rests
<1> QED
  BY <1>1 DEF LeftInv, Drives, InFrontier, InLoop

LEMMA RestartNextLooks ==
  ASSUME RestartInv, ShapeInv, ShapeInv', RestartLeft, NoOverlap, NoOverlap', Unharmed,
         RestartNext, ~SweepRaises, ~Outside("quota")
  PROVE  RestartLeft'
<1>1. CASE Crash
  BY <1>1 DEF Crash, RestartLeft
<1>2. CASE Sweep
  <2>1. \A n \in Nodes : st'[n] # "running"
    BY <1>2 DEF Sweep
  <2>2. \A c \in Calls : phase'[c] \in {"idle", "over"}
    BY <1>2 DEF Sweep, RestartInv, BootIsQuiet, callVars
  <2>3. LeftInv'
    BY <2>1, <2>2 DEF LeftInv, Drives, InFrontier, InLoop
  <2> QED
    BY <2>3 DEF RestartLeft
<1>3. CASE ~Crash /\ ~Sweep
  <2>1. boot # "sweep"
    BY <1>3, UpFacts
       DEF RestartNext, BootNext, Claim, ValveOff, ClaimRaises, Reconcile, ReconcileRaises, Spawn,
           DrainStarts, DrainTimesOut
  <2>2. LeftInv
    BY <2>1 DEF RestartLeft
  <2>3. CASE [Next]_vars
    BY <2>2, <2>3, NextLooks DEF RestartInv, RestartLeft
  <2>4. CASE Afresh /\ AllRest
    <3>1. \A n \in Nodes : st[n] # "running"
      BY <2>2, <2>4 DEF LeftInv, AllRest, Rests, LooksAfter, HasIt
    <3>2. \A n \in Nodes : st'[n] # "running"
      BY <2>4, <3>1 DEF Afresh, RowsStand
    <3> QED
      BY <2>4, <3>2, RestLeavesNothing DEF RestartLeft
  <2> QED
    BY <1>3, <2>3, <2>4, RestartKinds
<1> QED
  BY <1>1, <1>2, <1>3

\* A crash does not interrupt a release, it forgets it: what a run that left had in
\* work is given back before its cleanup however often the process dies.
THEOREM RestartsGiveBack == RestartSpec /\ []NoOverlap => [](\A c \in Calls : GivenBack(c))
<1>1. RestartInit => \A c \in Calls : LeftInOrder(c)
  BY DEF RestartInit, Init, LeftInOrder, GivenBack
<1>2. RestartInv /\ ShapeInv /\ (\A c \in Calls : LeftInOrder(c)) /\ NoOverlap /\ [RestartNext]_restartVars
        => (\A c \in Calls : LeftInOrder(c))'
  <2>1. Afresh => (\A c \in Calls : LeftInOrder(c))'
    BY DEF Afresh, CallsRest, AllRest, Rests, LeftInOrder, GivenBack
  <2> QED
    BY <2>1, RestartKinds, NextGivesBack DEF RestartInv
<1>3. (\A c \in Calls : LeftInOrder(c)) => \A c \in Calls : GivenBack(c)
  BY DEF LeftInOrder
<1> QED
  BY RestartSafety, RestartShapes, <1>1, <1>2, <1>3, PTL DEF RestartSpec

\* Where calls do not overlap and no sweep fails, the calls that are over have left
\* no step running, those of the process before included, unless the account's limit
\* was hit.
THEOREM RestartsLeaveNothing ==
  Unharmed =>
    (RestartSpec /\ []NoOverlap /\ [][~SweepRaises]_restartVars => []NothingLeftRunning)
<1> SUFFICES ASSUME Unharmed
             PROVE  RestartSpec /\ []NoOverlap /\ [][~SweepRaises]_restartVars => []NothingLeftRunning
  OBVIOUS
<1>1. RestartInit => RestartLimit
  BY InitLooks DEF RestartInit, RestartLeft, RestartLimit
<1>2. /\ RestartInv /\ RestartInv' /\ ShapeInv /\ ShapeInv' /\ RestartLimit /\ NoOverlap /\ NoOverlap'
      /\ [RestartNext]_restartVars /\ [~SweepRaises]_restartVars
      => RestartLimit'
  <2> SUFFICES ASSUME RestartInv, RestartInv', ShapeInv, ShapeInv', RestartLimit, NoOverlap, NoOverlap',
                      [RestartNext]_restartVars, [~SweepRaises]_restartVars
               PROVE  RestartLimit'
    OBVIOUS
  <2>1. Happened("quota") \/ Outside("quota") => Happened("quota")'
    <3>1. CASE [Next]_vars
      BY <3>1, RecordIsKept DEF RestartInv, EventKinds
    <3>2. CASE Afresh
      BY <3>2, StepFacts DEF Afresh, RowsStand, Happened, Outside, RestartInv, ExecutionInv, TypeOK, StoredTypeOK
    <3> QED
      BY <3>1, <3>2, RestartKinds
  <2>2. CASE RestartNext /\ ~SweepRaises
    BY <2>1, <2>2, RestartNextLooks DEF RestartLimit
  <2>3. CASE UNCHANGED restartVars
    <3>1. [Next]_vars /\ boot' = boot /\ Happened("quota")' = Happened("quota") /\ UNCHANGED vars
      BY <2>3 DEF restartVars, bootVars, vars, Happened
    <3>2. LeftInv => LeftInv'
      BY <3>1 DEF vars, nodeVars, jobVars, callVars, LeftInv, LooksAfter, HasIt, Drives, InFrontier, InLoop, Kept, Live
    <3> QED
      BY <3>1, <3>2 DEF RestartLeft, RestartLimit
  <2> QED
    BY <2>2, <2>3 DEF restartVars
<1>3. RestartInv /\ ShapeInv /\ RestartLimit /\ (\A c \in Calls : GivenBack(c)) => NothingLeftRunning
  <2>1. RestartInv /\ boot = "sweep" => ~(\A c \in Calls : phase[c] = "over")
    BY RestartAssumption DEF RestartInv, BootIsQuiet
  <2> QED
    BY <2>1 DEF RestartLeft, RestartLimit, ShapeInv, Shape, LeftInv, LooksAfter, HasIt, NothingLeftRunning
<1> QED
  BY RestartSafety, RestartShapes, RestartsGiveBack, <1>1, <1>2, <1>3, PTL DEF RestartSpec
=============================================================================
