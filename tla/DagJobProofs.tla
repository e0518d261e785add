---------------------------- MODULE DagJobProofs ----------------------------
(***************************************************************************)
(* What DagJob promises holds for a plan of any size and any acyclic       *)
(* dependency relation: no step is started ahead of a dependency, and a    *)
(* completed job has no unfinished step.                                   *)
(***************************************************************************)
EXTENDS DagJob, TLAPS

\* A settled step that nobody may reopen stays settled.
LEMMA SettledStays ==
  ASSUME DagTypeOK, DagNext \/ UNCHANGED dagVars, NEW n \in Nodes \ Reopenable, Settled(n)
  PROVE  Settled(n)'
<1>1. CASE DagNext
  <2>1. StepMoves(n)
    BY <1>1 DEF DagNext
  <2> QED
    BY <2>1 DEF StepMoves, StartsStep, EndsStep, RetriesStep, SkipsStep, AnswersStep, ReopensStep,
                Settled, SettledStatuses
<1>2. CASE UNCHANGED dagVars
  BY <1>2 DEF dagVars, Settled
<1> QED
  BY <1>1, <1>2

\* So what held of a step's dependencies goes on holding.
LEMMA DepsStayHeld ==
  ASSUME DagTypeOK, DagNext \/ UNCHANGED dagVars, NEW n \in Nodes, DepsHeld(n)
  PROVE  DepsHeld(n)'
<1>1. Deps[n] \subseteq Nodes
  BY PlanAssumption
<1> QED
  BY <1>1, SettledStays DEF DepsHeld

\* And what held of a finished plan.
LEMMA AllHeldStays ==
  ASSUME DagTypeOK, DagNext \/ UNCHANGED dagVars, AllHeld
  PROVE  AllHeld'
  BY SettledStays DEF AllHeld

\* Who looked and found the dependencies met, or the plan finished, has both.
LEMMA MetIsHeld == \A n \in Nodes : DepsMet(n) => DepsHeld(n)
  BY DEF DepsMet, DepsHeld

LEMMA DoneIsHeld == AllDone => AllHeld
  BY DEF AllDone, AllHeld

\* The invariant holds of a freshly planned job.
LEMMA DagInitInv == DagInit => DagInv
<1> SUFFICES ASSUME DagInit PROVE DagInv
  OBVIOUS
<1>1. DagTypeOK
  BY DEF DagInit, DagTypeOK, ExecutionStatuses, NodeStatuses
<1>2. DependencyOrder
  BY DEF DagInit, DependencyOrder
<1>3. CompletedIsWhole
  BY DEF DagInit, CompletedIsWhole
<1> QED
  BY <1>1, <1>2, <1>3 DEF DagInv

\* Every step keeps it: a step that starts has its dependencies settled, and
\* settled steps stay so; a job completes over a settled plan.
LEMMA DagNextInv ==
  ASSUME DagInv, DagNext \/ UNCHANGED dagVars
  PROVE  DagInv'
<1> USE DEF DagInv
<1>1. DagTypeOK'
  <2>1. CASE DagNext
    BY <2>1 DEF DagTypeOK, DagNext, JobMoves, ExecutionStatuses, TerminalStatuses
  <2>2. CASE UNCHANGED dagVars
    BY <2>2 DEF DagTypeOK, dagVars
  <2> QED
    BY <2>1, <2>2
<1>2. DependencyOrder'
  <2> SUFFICES ASSUME NEW n \in Nodes, st'[n] \in {"running", "done", "failed"}
               PROVE  DepsHeld(n)'
    BY DEF DependencyOrder
  <2>1. st[n] \in {"running", "done", "failed"} \/ DepsHeld(n)
    <3>1. CASE DagNext
      <4>1. StepMoves(n)
        BY <3>1 DEF DagNext
      <4> QED
        BY <4>1 DEF StepMoves, StartsStep, EndsStep, RetriesStep, SkipsStep, AnswersStep, ReopensStep
    <3>2. CASE UNCHANGED dagVars
      BY <3>2 DEF dagVars
    <3> QED
      BY <3>1, <3>2
  <2>2. DepsHeld(n)
    BY <2>1 DEF DependencyOrder
  <2> QED
    BY <2>2, DepsStayHeld
<1>3. CompletedIsWhole'
  <2> SUFFICES ASSUME job' = "completed" PROVE AllHeld'
    BY DEF CompletedIsWhole
  <2>1. AllHeld
    <3>1. CASE DagNext
      BY <3>1 DEF DagNext, JobMoves, CompletedIsWhole, TerminalStatuses
    <3>2. CASE UNCHANGED dagVars
      BY <3>2 DEF dagVars, CompletedIsWhole
    <3> QED
      BY <3>1, <3>2
  <2> QED
    BY <2>1, AllHeldStays
<1> QED
  BY <1>1, <1>2, <1>3

\* Every behaviour the abstract specification allows keeps types, dependency
\* order and the wholeness of a completed job.
THEOREM DagSafety == DagSpec => []DagInv
<1>1. DagInv /\ [DagNext]_dagVars => DagInv'
  BY DagNextInv
<1> QED
  BY DagInitInv, <1>1, PTL DEF DagSpec
=============================================================================
