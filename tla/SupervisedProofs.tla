-------------------------- MODULE SupervisedProofs --------------------------
(***************************************************************************)
(* Proofs about Supervised, for any plan, any set of hands-on steps, any   *)
(* steps that may be reopened and any number of approvals in progress.     *)
(* They assume that no block's claim keeps the started_at of an earlier    *)
(* one long enough to be reaped under the block ("kept_start"), without    *)
(* which OneBlock is false.                                                *)
(***************************************************************************)
EXTENDS Supervised, DagJobProofs

BlockType ==
  [node : Nodes \cup {NoStep}, fresh : SUBSET Nodes, half : SUBSET Nodes, torn : BOOLEAN]

LEMMA NodeFacts == Nodes \subseteq Nat /\ NoStep \notin Nodes
BY PlanAssumption DEF Nodes, NoStep

LEMMA IdleFacts ==
  Idle \in BlockType /\ Idle.node = NoStep /\ Idle.fresh = {} /\ Idle.torn = FALSE
BY DEF Idle, BlockType

\* Stripping decisions from what the requests hold keeps the rest of it.
LEMMA StrippedFacts ==
  ASSUME SupTypeOK, NEW S
  PROVE  /\ Stripped(S) \in [Requests -> BlockType]
         /\ \A r \in Requests : /\ Stripped(S)[r].node = block[r].node
                                /\ Stripped(S)[r].fresh = block[r].fresh \ S
                                /\ Stripped(S)[r].torn = block[r].torn
<1>1. block \in [Requests -> BlockType]
  BY DEF SupTypeOK, BlockType
<1> SUFFICES ASSUME NEW r \in Requests
             PROVE  /\ Stripped(S)[r] \in BlockType
                    /\ Stripped(S)[r].node = block[r].node
                    /\ Stripped(S)[r].fresh = block[r].fresh \ S
                    /\ Stripped(S)[r].torn = block[r].torn
  BY DEF Stripped
<1>2. Stripped(S)[r] = [block[r] EXCEPT !.fresh = block[r].fresh \ S]
  BY DEF Stripped
<1>3. block[r] \in BlockType
  BY <1>1
<1> HIDE DEF Stripped
<1> QED
  BY <1>2, <1>3 DEF BlockType

\* A write strips decisions and nothing else.
LEMMA WrittenKeeps ==
  ASSUME SupTypeOK, NEW S \in SUBSET Nodes, Written(S)
  PROVE  /\ fresh' \subseteq fresh
         /\ block' \in [Requests -> BlockType]
         /\ \A r \in Requests : block'[r].node = block[r].node /\ block'[r].torn = block[r].torn
         /\ \A n \in Nodes : Working(n)' <=> Working(n)
         /\ \A n \in Nodes : Stale(n)' <=> Stale(n) \/ n \in S
<1>1. fresh' = fresh \ S /\ block' = Stripped(S)
  BY DEF Written
<1>2. \A r \in Requests : /\ block'[r].node = block[r].node
                          /\ block'[r].fresh = block[r].fresh \ S
                          /\ block'[r].torn = block[r].torn
  BY <1>1, StrippedFacts
<1>3. \A n \in Nodes : Working(n)' <=> Working(n)
  BY <1>2 DEF Working
<1>4. \A n \in Nodes : Stale(n)' <=> Stale(n) \/ n \in S
  BY <1>1, <1>2 DEF Stale
<1> QED
  BY <1>1, <1>2, <1>3, <1>4, StrippedFacts

\* What an approval adds and what the end of a request takes away: request r holds
\* b, the others are stripped of S.
LEMMA ReplacedKeeps ==
  ASSUME SupTypeOK, NEW r \in Requests, NEW b \in BlockType, NEW S,
         block' = [Stripped(S) EXCEPT ![r] = b]
  PROVE  /\ block' \in [Requests -> BlockType]
         /\ block'[r] = b
         /\ \A q \in Requests \ {r} : /\ block'[q].node = block[q].node
                                      /\ block'[q].fresh = block[q].fresh \ S
                                      /\ block'[q].torn = block[q].torn
<1>1. Stripped(S) \in [Requests -> BlockType]
  BY StrippedFacts
<1>2. block' \in [Requests -> BlockType]
  BY <1>1
<1>3. block'[r] = b /\ \A q \in Requests \ {r} : block'[q] = Stripped(S)[q]
  BY <1>1
<1> QED
  BY <1>2, <1>3, StrippedFacts

\* A reset marks the blocks that work on the step.
LEMMA ResetFacts ==
  ASSUME SupTypeOK, NEW n \in Nodes, Reset(n)
  PROVE  /\ block' \in [Requests -> BlockType]
         /\ \A r \in Requests : /\ block'[r].node = block[r].node
                                /\ block'[r].fresh = block[r].fresh \ {n}
                                /\ block'[r].torn <=> block[r].torn \/ block[r].node = n
<1> DEFINE B == Stripped({n})
<1>1. B \in [Requests -> BlockType]
  BY StrippedFacts
<1>2. \A r \in Requests : /\ B[r].node = block[r].node
                          /\ B[r].fresh = block[r].fresh \ {n}
                          /\ B[r].torn = block[r].torn
  BY StrippedFacts
<1>3. block' = [r \in Requests |-> [B[r] EXCEPT !.torn = B[r].torn \/ block[r].node = n]]
  BY DEF Reset
<1> HIDE DEF B
<1>4. ASSUME NEW r \in Requests
      PROVE  /\ block'[r] \in BlockType
             /\ block'[r].node = B[r].node
             /\ block'[r].fresh = B[r].fresh
             /\ block'[r].torn <=> B[r].torn \/ block[r].node = n
  <2> DEFINE t == B[r].torn \/ block[r].node = n
  <2>1. t \in BOOLEAN
    OBVIOUS
  <2>2. block'[r] = [B[r] EXCEPT !.torn = t]
    BY <1>3
  <2> HIDE DEF t
  <2>3. B[r] \in BlockType
    BY <1>1
  <2>4. /\ block'[r] \in BlockType /\ block'[r].node = B[r].node
        /\ block'[r].fresh = B[r].fresh /\ block'[r].torn = t
    BY <2>1, <2>2, <2>3 DEF BlockType
  <2> QED
    BY <2>4 DEF t
<1>5. block' \in [Requests -> BlockType]
  BY <1>3, <1>4
<1> QED
  BY <1>2, <1>4, <1>5

-----------------------------------------------------------------------------
(* Types.                                                                    *)

\* Everything but the two facts that the plan shows and what the requests hold.
LEMMA RunTypes ==
  ASSUME SupTypeOK, RunNext
  PROVE  SupTypeOK'
<1> USE DEF SupTypeOK, DagTypeOK, FrameGone, RunEnds, LooksAgain, Kinds
<1>1. CASE Restart
  BY <1>1 DEF Restart, Starts, ExecutionStatuses, RunPcs, frameVars, entryVars
<1>2. CASE Press
  BY <1>2 DEF Press, Starts, ExecutionStatuses, RunPcs, entryVars
<1>3. CASE Drained
  BY <1>3 DEF Drained, RunPcs, frameVars, entryVars
<1>4. CASE Look
  BY <1>4 DEF Look, RunPcs, Askable, Ready, frameVars, entryVars
<1>5. CASE Park
  BY <1>5 DEF Park, RunPcs, ExecutionStatuses, frameVars, entryVars
<1>a. CASE LookFails \/ Recheck
  BY <1>a DEF LookFails, Recheck, RunPcs, frameVars, entryVars
<1>b. CASE AlreadyMet
  <2>1. target \in Nodes
    BY <1>b, SupervisedAssumption DEF AlreadyMet
  <2>2. block' \in [Requests -> BlockType]
    BY <1>b, StrippedFacts DEF AlreadyMet
  <2>3. st' \in [Nodes -> NodeStatuses] /\ started' \in [Nodes -> Ages] /\ fresh' \subseteq Nodes
    BY <1>b, <2>1 DEF AlreadyMet, NodeStatuses, Ages
  <2> QED
    BY <1>b, <2>2, <2>3 DEF AlreadyMet, RunPcs, BlockType, frameVars
<1>c. CASE EmptyVerify
  <2>1. target \in Nodes
    BY <1>c, SupervisedAssumption DEF EmptyVerify
  <2>2. fresh' \subseteq fresh /\ block' \in [Requests -> BlockType]
    BY <1>c, <2>1, WrittenKeeps DEF EmptyVerify, BlockType
  <2>3. st' \in [Nodes -> NodeStatuses] /\ started' \in [Nodes -> Ages]
    BY <1>c, <2>1 DEF EmptyVerify, NodeStatuses, Ages
  <2> QED
    BY <1>c, <2>2, <2>3 DEF EmptyVerify, RunPcs, BlockType, frameVars
<1>6. CASE Final
  <2>1. RunningSteps \subseteq Nodes /\ FailRunning \in [Nodes -> NodeStatuses]
    BY DEF RunningSteps, FailRunning, NodeStatuses
  <2>2. fresh' \subseteq fresh /\ block' \in [Requests -> BlockType]
    BY <1>6, <2>1, WrittenKeeps DEF Final, BlockType
  <2>3. st' \in [Nodes -> NodeStatuses] /\ job' \in ExecutionStatuses
    BY <1>6, <2>1 DEF Final, ExecutionStatuses
  <2> QED
    BY <1>6, <2>2, <2>3 DEF Final, RunPcs, BlockType, frameVars
<1>7. CASE Cut
  <2>1. RunningSteps \subseteq Nodes /\ works \cap RunningSteps \subseteq Nodes
    BY DEF RunningSteps
  <2>2. fresh' \subseteq fresh /\ block' \in [Requests -> BlockType]
    <3>1. CASE job = "running"
      BY <1>7, <3>1, <2>1, WrittenKeeps DEF Cut
    <3>2. CASE job # "running"
      BY <1>7, <3>2, <2>1, WrittenKeeps DEF Cut
    <3> QED
      BY <3>1, <3>2
  <2>3. st' \in [Nodes -> NodeStatuses] /\ job' \in ExecutionStatuses
    BY <1>7 DEF Cut, ExecutionStatuses, NodeStatuses
  <2> QED
    BY <1>7, <2>2, <2>3 DEF Cut, RunPcs, BlockType, frameVars
<1>8. CASE Stop
  <2>1. PICK S \in SUBSET (works \cap RunningSteps) :
          /\ st' = [n \in Nodes |-> IF n \in S THEN "pending" ELSE st[n]]
          /\ Written(S)
    BY <1>8 DEF Stop
  <2>2. S \in SUBSET Nodes
    BY <2>1
  <2>3. fresh' \subseteq fresh /\ block' \in [Requests -> BlockType]
    BY <2>1, <2>2, WrittenKeeps
  <2>4. st' \in [Nodes -> NodeStatuses]
    BY <2>1 DEF NodeStatuses
  <2> QED
    BY <1>8, <2>3, <2>4 DEF Stop, RunPcs, BlockType, frameVars
<1>9. ASSUME NEW n \in Nodes, Claim(n) PROVE SupTypeOK'
  <2>1. fresh' \subseteq fresh /\ block' \in [Requests -> BlockType]
    BY <1>9, WrittenKeeps DEF Claim
  <2>2. st' \in [Nodes -> NodeStatuses] /\ started' \in [Nodes -> Ages]
    BY <1>9 DEF Claim, NodeStatuses, Ages
  <2> QED
    BY <1>9, <2>1, <2>2 DEF Claim, BlockType, frameVars
<1>10. ASSUME NEW n \in Nodes, HandBack(n) PROVE SupTypeOK'
  <2>1. fresh' \subseteq fresh /\ block' \in [Requests -> BlockType]
    BY <1>10, WrittenKeeps DEF HandBack, BlockType
  <2>2. st' \in [Nodes -> NodeStatuses] /\ started' \in [Nodes -> Ages]
    BY <1>10 DEF HandBack, NodeStatuses, Ages
  <2> QED
    BY <1>10, <2>1, <2>2 DEF HandBack, BlockType, frameVars
<1>11. ASSUME NEW n \in Nodes, Work(n) PROVE SupTypeOK'
  <2>1. fresh' \subseteq fresh /\ block' \in [Requests -> BlockType]
    BY <1>11, WrittenKeeps DEF Work, BlockType
  <2>2. st' \in [Nodes -> NodeStatuses]
    BY <1>11 DEF Work, NodeStatuses
  <2> QED
    BY <1>11, <2>1, <2>2 DEF Work, BlockType, frameVars
<1> QED
  BY <1>1, <1>2, <1>3, <1>4, <1>5, <1>6, <1>7, <1>8, <1>9, <1>10, <1>11, <1>a, <1>b, <1>c
  DEF RunNext

LEMMA AnswerTypes ==
  ASSUME SupTypeOK, AnswerNext
  PROVE  SupTypeOK'
<1> USE DEF SupTypeOK, DagTypeOK, FrameGone, Kinds
<1>1. ASSUME NEW r \in Requests, Approve(r) PROVE SupTypeOK'
  <2> DEFINE b == [node |-> asked, fresh |-> fresh \ {asked}, half |-> half, torn |-> Torn(asked)]
  <2>0. Torn(asked) \in BOOLEAN
    BY DEF Torn
  <2>1. b \in BlockType
    BY <2>0 DEF BlockType
  <2>2. block' = [Stripped({asked}) EXCEPT ![r] = b]
    BY <1>1 DEF Approve
  <2> HIDE DEF b
  <2>3. block' \in [Requests -> BlockType]
    BY <2>1, <2>2, ReplacedKeeps
  <2>4. st' \in [Nodes -> NodeStatuses] /\ started' \in [Nodes -> Ages] /\ fresh' \subseteq Nodes
    BY <1>1 DEF Approve, NodeStatuses, Ages
  <2> QED
    BY <1>1, <2>3, <2>4 DEF Approve, BlockType, frameVars, runVars
<1>2. ASSUME NEW r \in Requests, Finish(r) PROVE SupTypeOK'
  <2> DEFINE n == block[r].node
  <2>1. PICK e \in Ends :
          LET moved == st[n] = "running" \/ (e = "half" /\ st[n] = "failed")
          IN  /\ st' = IF moved THEN [st EXCEPT ![n] = IF e = "half" THEN "pending" ELSE e] ELSE st
              /\ half' = IF e = "half" /\ moved THEN block[r].half \cup {n} ELSE block[r].half \ {n}
              /\ block' = [Stripped(IF moved THEN {n} ELSE {}) EXCEPT ![r] = Idle]
    BY <1>2 DEF Finish
  <2>2. n \in Nodes /\ block[r].half \subseteq Nodes /\ block[r].fresh \subseteq Nodes
    BY <1>2 DEF Finish
  <2>3. fresh' \subseteq Nodes /\ half' \subseteq Nodes
    BY <1>2, <2>2 DEF Finish
  <2>4. block' \in [Requests -> BlockType]
    BY <2>1, IdleFacts, ReplacedKeeps
  <2>5. st' \in [Nodes -> NodeStatuses]
    BY <2>1, <2>2 DEF Ends, NodeStatuses
  <2> QED
    BY <1>2, <2>3, <2>4, <2>5 DEF Finish, BlockType, runVars, ExecutionStatuses
<1>3. ASSUME NEW r \in Requests, Interrupt(r) PROVE SupTypeOK'
  <2> DEFINE hit == {block[r].node} \cap RunningSteps
  <2>1. /\ st' = [m \in Nodes |-> IF m \in hit THEN "failed" ELSE st[m]]
        /\ fresh' = fresh \ hit
        /\ block' = [Stripped(hit) EXCEPT ![r] = Idle]
    BY <1>3 DEF Interrupt
  <2>2. block' \in [Requests -> BlockType]
    BY <2>1, IdleFacts, ReplacedKeeps
  <2>3. st' \in [Nodes -> NodeStatuses]
    BY <2>1 DEF NodeStatuses
  <2> QED
    BY <1>3, <2>1, <2>2, <2>3 DEF Interrupt, BlockType, frameVars, runVars
<1>4. CASE AnswerOneself
  <2>1. st' \in [Nodes -> NodeStatuses] /\ started' \in [Nodes -> Ages]
    BY <1>4 DEF AnswerOneself, NodeStatuses, Ages
  <2> QED
    BY <1>4, <2>1 DEF AnswerOneself, Answered, runVars, ExecutionStatuses
<1>5. CASE Redraft
  BY <1>5 DEF Redraft, Answered, runVars, ExecutionStatuses
<1>6. CASE Reask
  BY <1>6 DEF Reask, entryVars, runVars, ExecutionStatuses
<1> QED
  BY <1>1, <1>2, <1>3, <1>4, <1>5, <1>6 DEF AnswerNext

LEMMA OtherTypes ==
  ASSUME SupTypeOK, OtherNext
  PROVE  SupTypeOK'
<1> USE DEF SupTypeOK, DagTypeOK, FrameGone, RunEnds, Kinds
<1>1. CASE CancelJob
  BY <1>1 DEF CancelJob, frameVars, entryVars, runVars, ExecutionStatuses
<1>2. CASE Crash
  <2>1. block' \in [Requests -> BlockType]
    BY <1>2, IdleFacts DEF Crash
  <2>2. st' \in [Nodes -> NodeStatuses] /\ job' \in ExecutionStatuses
    BY <1>2 DEF Crash, NodeStatuses, ExecutionStatuses
  <2> QED
    BY <1>2, <2>1, <2>2 DEF Crash, BlockType, frameVars, RunPcs
<1>3. ASSUME NEW n \in Nodes, Reset(n) PROVE SupTypeOK'
  <2>1. block' \in [Requests -> BlockType]
    BY <1>3, ResetFacts
  <2>2. st' \in [Nodes -> NodeStatuses] /\ started' \in [Nodes -> Ages]
    BY <1>3 DEF Reset, NodeStatuses, Ages
  <2>3. job' \in ExecutionStatuses
    BY <1>3 DEF Reset, ExecutionStatuses
  <2> QED
    BY <1>3, <2>1, <2>2, <2>3 DEF Reset, BlockType, frameVars, runVars
<1>4. ASSUME NEW n \in Nodes, Age(n) PROVE SupTypeOK'
  BY <1>4 DEF Age, Ages, frameVars, entryVars, runVars
<1>5. ASSUME NEW n \in Nodes, Reap(n) PROVE SupTypeOK'
  <2>1. fresh' \subseteq fresh /\ block' \in [Requests -> BlockType]
    BY <1>5, WrittenKeeps DEF Reap
  <2>2. st' \in [Nodes -> NodeStatuses]
    BY <1>5 DEF Reap, NodeStatuses
  <2> QED
    BY <1>5, <2>1, <2>2 DEF Reap, BlockType, frameVars, runVars
<1> QED
  BY <1>1, <1>2, <1>3, <1>4, <1>5 DEF OtherNext

LEMMA NextTypes ==
  ASSUME SupTypeOK, SupNext
  PROVE  SupTypeOK'
BY RunTypes, AnswerTypes, OtherTypes DEF SupNext

-----------------------------------------------------------------------------
(* The plan moves as DagJob says.                                            *)

\* What the invariant says of the plan.
LEMMA PlanFacts ==
  ASSUME SupervisedInv
  PROVE  /\ DagInv
         /\ SupTypeOK
         /\ job = "awaiting_decision" => asked \in Nodes /\ DepsHeld(asked)
         /\ run \in {"draft", "ask"} => target \in Nodes /\ DepsHeld(target)
BY DEF SupervisedInv, SupTypeOK, DagInv, AskedInv, RunInv

\* Every step the run takes, whatever the job's row says by then.
LEMMA RunMoves ==
  ASSUME SupervisedInv, RunNext
  PROVE  DagNext \/ UNCHANGED dagVars
<1>1. DagInv /\ SupTypeOK /\ SupTypeOK'
  BY PlanFacts, RunTypes
<1>2. st \in [Nodes -> NodeStatuses] /\ st' \in [Nodes -> NodeStatuses]
      /\ job' \in ExecutionStatuses
  BY <1>1 DEF SupTypeOK, DagTypeOK
<1>3. SUFFICES (\A n \in Nodes : StepMoves(n)) /\ JobMoves
  BY <1>2 DEF DagNext
<1> USE DEF StepMoves, JobMoves, TerminalStatuses
<1>4. CASE Restart \/ Press
  BY <1>2, <1>4 DEF Restart, Press, Starts
<1>5. CASE Drained \/ Look \/ LookFails \/ Recheck
  BY <1>5 DEF Drained, Look, LookFails, Recheck
<1>a. CASE AlreadyMet \/ EmptyVerify
  <2>1. target \in Nodes /\ DepsHeld(target)
    BY <1>a, PlanFacts DEF AlreadyMet, EmptyVerify
  <2>2. /\ job' = job
        /\ \A m \in Nodes \ {target} : st'[m] = st[m]
        /\ st'[target] = st[target] \/ (st[target] = "pending" /\ st'[target] \in {"done", "failed", "skipped"})
    BY <1>2, <1>a, <2>1 DEF AlreadyMet, EmptyVerify
  <2> QED
    BY <2>1, <2>2 DEF AnswersStep, SkipsStep
<1>6. CASE Park
  BY <1>2, <1>6 DEF Park, MayMoveFrom
<1>7. CASE Final
  <2>1. JobMoves
    BY <1>2, <1>7, DoneIsHeld DEF Final
  <2>2. ASSUME NEW n \in Nodes PROVE StepMoves(n)
    BY <1>2, <1>7, <2>2 DEF Final, FailRunning, EndsStep
  <2> QED
    BY <2>1, <2>2
<1>8. CASE Cut
  <2>1. JobMoves
    BY <1>2, <1>8 DEF Cut
  <2>2. ASSUME NEW n \in Nodes PROVE StepMoves(n)
    BY <1>2, <1>8, <2>2 DEF Cut, EndsStep
  <2> QED
    BY <2>1, <2>2
<1>9. CASE Stop
  <2>1. PICK S \in SUBSET (works \cap RunningSteps) :
          st' = [n \in Nodes |-> IF n \in S THEN "pending" ELSE st[n]]
    BY <1>9 DEF Stop
  <2>2. ASSUME NEW n \in Nodes PROVE StepMoves(n)
    BY <1>2, <2>1, <2>2 DEF RunningSteps, EndsStep
  <2> QED
    BY <1>9, <2>2 DEF Stop
<1>10. ASSUME NEW n \in Nodes, Claim(n) PROVE JobMoves /\ \A m \in Nodes : StepMoves(m)
  BY <1>2, <1>10, MetIsHeld DEF Claim, Ready, StartsStep
<1>11. ASSUME NEW n \in Nodes, HandBack(n) PROVE JobMoves /\ \A m \in Nodes : StepMoves(m)
  BY <1>2, <1>11 DEF HandBack, EndsStep
<1>12. ASSUME NEW n \in Nodes, Work(n) PROVE JobMoves /\ \A m \in Nodes : StepMoves(m)
  BY <1>2, <1>12 DEF Work, EndsStep
<1> QED
  BY <1>4, <1>5, <1>a, <1>6, <1>7, <1>8, <1>9, <1>10, <1>11, <1>12 DEF RunNext

\* Every answer, a block's outcome included.
LEMMA AnswerMoves ==
  ASSUME SupervisedInv, AnswerNext
  PROVE  DagNext \/ UNCHANGED dagVars
<1>1. DagInv /\ SupTypeOK /\ SupTypeOK'
  BY PlanFacts, AnswerTypes
<1>2. st \in [Nodes -> NodeStatuses] /\ st' \in [Nodes -> NodeStatuses]
      /\ job' \in ExecutionStatuses
  BY <1>1 DEF SupTypeOK, DagTypeOK
<1>3. SUFFICES (\A n \in Nodes : StepMoves(n)) /\ JobMoves
  BY <1>2 DEF DagNext
<1> USE DEF StepMoves, JobMoves, TerminalStatuses
<1>4. ASSUME NEW r \in Requests, Approve(r) PROVE JobMoves /\ \A m \in Nodes : StepMoves(m)
  BY <1>2, <1>4, MetIsHeld DEF Approve, StartsStep
<1>5. ASSUME NEW r \in Requests, Finish(r) PROVE JobMoves /\ \A m \in Nodes : StepMoves(m)
  <2> DEFINE n == block[r].node
  <2>1. PICK e \in Ends :
          LET moved == st[n] = "running" \/ (e = "half" /\ st[n] = "failed")
          IN  st' = IF moved THEN [st EXCEPT ![n] = IF e = "half" THEN "pending" ELSE e] ELSE st
    BY <1>5 DEF Finish
  <2>2. n \in Nodes
    BY <1>5 DEF Finish
  <2>3. ASSUME NEW m \in Nodes PROVE StepMoves(m)
    BY <1>2, <2>1, <2>2, <2>3 DEF Ends, EndsStep, RetriesStep
  <2>4. JobMoves
    BY <1>2, <1>5 DEF Finish
  <2> QED
    BY <2>3, <2>4
<1>6. ASSUME NEW r \in Requests, Interrupt(r) PROVE JobMoves /\ \A m \in Nodes : StepMoves(m)
  <2>1. ASSUME NEW m \in Nodes PROVE StepMoves(m)
    BY <1>2, <1>6, <2>1 DEF Interrupt, RunningSteps, EndsStep
  <2> QED
    BY <1>6, <2>1 DEF Interrupt
<1>7. CASE AnswerOneself
  <2>1. DepsHeld(asked) /\ asked \in Nodes /\ st[asked] = "pending"
    BY <1>7, PlanFacts DEF AnswerOneself, Answered
  <2>2. ASSUME NEW m \in Nodes PROVE StepMoves(m)
    BY <1>2, <1>7, <2>1, <2>2 DEF AnswerOneself, AnswersStep, SkipsStep
  <2> QED
    BY <1>2, <1>7, <2>2 DEF AnswerOneself, Answered
<1>8. CASE Redraft
  BY <1>2, <1>8 DEF Redraft, Answered
<1>9. CASE Reask
  BY <1>2, <1>9 DEF Reask
<1> QED
  BY <1>4, <1>5, <1>6, <1>7, <1>8, <1>9 DEF AnswerNext

\* Everything else; only a reopenable step of a completed job can be reset.
LEMMA OtherMoves ==
  ASSUME SupervisedInv, OtherNext
  PROVE  DagNext \/ UNCHANGED dagVars
<1>1. DagInv /\ SupTypeOK /\ SupTypeOK'
  BY PlanFacts, OtherTypes
<1>2. st \in [Nodes -> NodeStatuses] /\ st' \in [Nodes -> NodeStatuses]
      /\ job' \in ExecutionStatuses
  BY <1>1 DEF SupTypeOK, DagTypeOK
<1>3. SUFFICES (\A n \in Nodes : StepMoves(n)) /\ JobMoves
  BY <1>2 DEF DagNext
<1> USE DEF StepMoves, JobMoves, TerminalStatuses
<1>4. CASE CancelJob
  BY <1>2, <1>4 DEF CancelJob, MayMoveByDefault
<1>5. CASE Crash
  <2>1. ASSUME NEW m \in Nodes PROVE StepMoves(m)
    BY <1>2, <1>5, <2>1 DEF Crash, EndsStep
  <2>2. JobMoves
    BY <1>2, <1>5 DEF Crash
  <2> QED
    BY <2>1, <2>2
<1>6. ASSUME NEW n \in Nodes, Reset(n) PROVE JobMoves /\ \A m \in Nodes : StepMoves(m)
  <2>1. (Settled(n) => n \in Reopenable) /\ st' = [st EXCEPT ![n] = "pending"]
    BY <1>6 DEF Reset
  <2>2. job = "completed" => n \in Reopenable
    BY <1>1, <2>1 DEF DagInv, CompletedIsWhole, AllHeld
  <2>3. ASSUME NEW m \in Nodes PROVE StepMoves(m)
    BY <1>2, <2>1, <2>3
    DEF NodeStatuses, Settled, SettledStatuses, EndsStep, RetriesStep, ReopensStep
  <2>4. JobMoves
    BY <1>2, <1>6, <2>2 DEF Reset
  <2> QED
    BY <2>3, <2>4
<1>7. ASSUME NEW n \in Nodes, Age(n) PROVE JobMoves /\ \A m \in Nodes : StepMoves(m)
  BY <1>7 DEF Age
<1>8. ASSUME NEW n \in Nodes, Reap(n) PROVE JobMoves /\ \A m \in Nodes : StepMoves(m)
  BY <1>2, <1>8 DEF Reap, EndsStep
<1> QED
  BY <1>4, <1>5, <1>6, <1>7, <1>8 DEF OtherNext

LEMMA NextMoves ==
  ASSUME SupervisedInv, SupNext
  PROVE  DagNext \/ UNCHANGED dagVars
BY RunMoves, AnswerMoves, OtherMoves DEF SupNext

LEMMA NextPlan ==
  ASSUME SupervisedInv, SupNext
  PROVE  /\ SupTypeOK' /\ DependencyOrder' /\ CompletedIsWhole'
         /\ \A n \in Nodes : DepsHeld(n) => DepsHeld(n)'
<1>1. DagInv /\ SupTypeOK
  BY PlanFacts
<1>2. DagInv'
  BY <1>1, NextMoves, DagNextInv
<1>3. \A n \in Nodes : DepsHeld(n) => DepsHeld(n)'
  BY <1>1, NextMoves, DepsStayHeld DEF DagInv
<1> QED
  BY <1>1, <1>2, <1>3, NextTypes DEF DagInv

-----------------------------------------------------------------------------
(* Decisions are only spent, but for the answer to the parked frame and what *)
(* the engine read off the machine itself.                                   *)

\* No block begins or ends, or is no longer torn.
KeepsBlocks ==
  \A r \in Requests : /\ block'[r].node = block[r].node
                      /\ block'[r].fresh \subseteq block[r].fresh
                      /\ block[r].torn => block'[r].torn

\* Nor does anybody gain a decision.
OnlySpends == KeepsBlocks /\ fresh' \subseteq fresh

LEMMA WrittenSpends ==
  ASSUME SupTypeOK, NEW S \in SUBSET Nodes, Written(S)
  PROVE  OnlySpends
BY StrippedFacts DEF Written, OnlySpends, KeepsBlocks

LEMMA RunSpends ==
  ASSUME SupTypeOK, RunNext
  PROVE  KeepsBlocks /\ (OnlySpends \/ AlreadyMet)
<1> SUFFICES (KeepsBlocks /\ AlreadyMet) \/ OnlySpends
  BY DEF OnlySpends
<1>0. UNCHANGED <<fresh, block>> => OnlySpends
  BY DEF OnlySpends, KeepsBlocks
<1>1. CASE Restart \/ Press \/ Drained \/ Look \/ LookFails \/ Recheck \/ Park
  BY <1>0, <1>1 DEF Restart, Press, Drained, Look, LookFails, Recheck, Park, entryVars
<1>a. CASE AlreadyMet
  BY <1>a, StrippedFacts DEF AlreadyMet, KeepsBlocks
<1>b. CASE EmptyVerify
  <2>1. target \in Nodes
    BY <1>b, SupervisedAssumption DEF EmptyVerify
  <2> QED
    BY <1>0, <1>b, <2>1, WrittenSpends DEF EmptyVerify
<1>2. RunningSteps \in SUBSET Nodes /\ works \cap RunningSteps \in SUBSET Nodes
  BY DEF RunningSteps
<1>3. CASE Final
  BY <1>0, <1>2, <1>3, WrittenSpends DEF Final
<1>4. CASE Cut
  <2>1. CASE job = "running"
    BY <1>2, <1>4, <2>1, WrittenSpends DEF Cut
  <2>2. CASE job # "running"
    BY <1>2, <1>4, <2>2, WrittenSpends DEF Cut
  <2> QED
    BY <2>1, <2>2
<1>5. CASE Stop
  <2>1. PICK S \in SUBSET (works \cap RunningSteps) : Written(S)
    BY <1>5 DEF Stop
  <2>2. S \in SUBSET Nodes
    BY <1>2, <2>1
  <2> QED
    BY <2>1, <2>2, WrittenSpends
<1>6. ASSUME NEW n \in Nodes, Claim(n) PROVE OnlySpends
  BY <1>6, WrittenSpends DEF Claim
<1>7. ASSUME NEW n \in Nodes, HandBack(n) PROVE OnlySpends
  BY <1>0, <1>7, WrittenSpends DEF HandBack
<1>8. ASSUME NEW n \in Nodes, Work(n) PROVE OnlySpends
  BY <1>0, <1>8, WrittenSpends DEF Work
<1> QED
  BY <1>1, <1>3, <1>4, <1>5, <1>6, <1>7, <1>8, <1>a, <1>b DEF RunNext

LEMMA OtherSpends ==
  ASSUME SupTypeOK, OtherNext, ~Crash
  PROVE  OnlySpends
<1>0. UNCHANGED <<fresh, block>> => OnlySpends
  BY DEF OnlySpends, KeepsBlocks
<1>1. CASE CancelJob
  BY <1>0, <1>1 DEF CancelJob, entryVars
<1>2. ASSUME NEW n \in Nodes, Reset(n) PROVE OnlySpends
  <2>1. fresh' \subseteq fresh
    BY <1>2 DEF Reset
  <2> QED
    BY <1>2, <2>1, ResetFacts DEF OnlySpends, KeepsBlocks
<1>3. ASSUME NEW n \in Nodes, Age(n) PROVE OnlySpends
  BY <1>0, <1>3 DEF Age, entryVars
<1>4. ASSUME NEW n \in Nodes, Reap(n) PROVE OnlySpends
  BY <1>4, WrittenSpends DEF Reap
<1> QED
  BY <1>1, <1>2, <1>3, <1>4 DEF OtherNext

\* What spending keeps.
LEMMA SpendingKeeps ==
  ASSUME KeepsBlocks
  PROVE  /\ OnlySpends => \A n \in Nodes : Stale(n) => Stale(n)'
         /\ \A n \in Nodes : Working(n)' <=> Working(n)
         /\ OneBlock => OneBlock'
<1>1. OnlySpends => \A n \in Nodes : Stale(n) => Stale(n)'
  BY DEF OnlySpends, KeepsBlocks, Stale
<1>2. \A n \in Nodes : Working(n)' <=> Working(n)
  BY DEF KeepsBlocks, Working
<1>3. OneBlock => OneBlock'
  BY DEF KeepsBlocks, OneBlock
<1> QED
  BY <1>1, <1>2, <1>3

\* The three moves of a request: another request's block stays where it is.
LEMMA ApproveFacts ==
  ASSUME SupTypeOK, NEW r \in Requests, Approve(r)
  PROVE  /\ block'[r].node = asked /\ block'[r].fresh \subseteq fresh
         /\ block'[r].torn <=> Torn(asked)
         /\ \A q \in Requests \ {r} : /\ block'[q].node = block[q].node
                                      /\ block'[q].fresh \subseteq block[q].fresh
                                      /\ block'[q].torn = block[q].torn
<1> DEFINE t == Torn(asked)
           b == [node |-> asked, fresh |-> fresh \ {asked}, half |-> half, torn |-> t]
<1>0. t \in BOOLEAN
  BY DEF Torn
<1>1. block' = [Stripped({asked}) EXCEPT ![r] = b]
  BY DEF Approve
<1> HIDE DEF t
<1>2. b \in BlockType /\ b.node = asked /\ b.fresh \subseteq fresh /\ b.torn = t
  BY <1>0 DEF BlockType, SupTypeOK
<1> HIDE DEF b
<1>3. /\ block'[r] = b
      /\ \A q \in Requests \ {r} : /\ block'[q].node = block[q].node
                                   /\ block'[q].fresh = block[q].fresh \ {asked}
                                   /\ block'[q].torn = block[q].torn
  BY <1>1, <1>2, ReplacedKeeps
<1> QED
  BY <1>2, <1>3 DEF t

LEMMA FinishFacts ==
  ASSUME SupTypeOK, NEW r \in Requests, Finish(r)
  PROVE  /\ block'[r].node = NoStep /\ block'[r].fresh = {}
         /\ \A q \in Requests \ {r} :
              /\ block'[q].node = block[q].node
              /\ block'[q].fresh \subseteq block[q].fresh
              /\ block'[q].torn = block[q].torn
              /\ st'[block[r].node] = "pending" /\ st[block[r].node] # "pending"
                   => block[r].node \notin block'[q].fresh
<1> DEFINE n == block[r].node
<1>1. PICK e \in Ends :
        LET moved == st[n] = "running" \/ (e = "half" /\ st[n] = "failed")
        IN  /\ st' = IF moved THEN [st EXCEPT ![n] = IF e = "half" THEN "pending" ELSE e] ELSE st
            /\ block' = [Stripped(IF moved THEN {n} ELSE {}) EXCEPT ![r] = Idle]
  BY DEF Finish
<1> DEFINE moved == st[n] = "running" \/ (e = "half" /\ st[n] = "failed")
           S == IF moved THEN {n} ELSE {}
<1>2. block' = [Stripped(S) EXCEPT ![r] = Idle]
  BY <1>1
<1>3. st'[n] = "pending" /\ st[n] # "pending" => n \in S
  BY <1>1
<1> HIDE DEF S
<1>4. /\ block'[r] = Idle
      /\ \A q \in Requests \ {r} : /\ block'[q].node = block[q].node
                                   /\ block'[q].fresh = block[q].fresh \ S
                                   /\ block'[q].torn = block[q].torn
  BY <1>2, IdleFacts, ReplacedKeeps
<1> QED
  BY <1>3, <1>4, IdleFacts

LEMMA InterruptFacts ==
  ASSUME SupTypeOK, NEW r \in Requests, Interrupt(r)
  PROVE  /\ block'[r].node = NoStep /\ block'[r].fresh = {}
         /\ \A q \in Requests \ {r} : /\ block'[q].node = block[q].node
                                      /\ block'[q].fresh \subseteq block[q].fresh
                                      /\ block'[q].torn = block[q].torn
<1> DEFINE hit == {block[r].node} \cap RunningSteps
<1>1. block' = [Stripped(hit) EXCEPT ![r] = Idle]
  BY DEF Interrupt
<1> HIDE DEF hit
<1>2. /\ block'[r] = Idle
      /\ \A q \in Requests \ {r} : /\ block'[q].node = block[q].node
                                   /\ block'[q].fresh = block[q].fresh \ hit
                                   /\ block'[q].torn = block[q].torn
  BY <1>1, IdleFacts, ReplacedKeeps
<1> QED
  BY <1>2, IdleFacts

\* A decision that nobody held is held only by answering the frame, or for a step
\* that the engine found done.
LEMMA StaleStays ==
  ASSUME SupTypeOK, SupNext, NEW n \in Nodes, Stale(n)
  PROVE  Stale(n)' \/ (Answered /\ n = asked) \/ (AlreadyMet /\ n = target)
<1>0. CASE AlreadyMet
  <2>1. KeepsBlocks /\ fresh' = fresh \cup {target}
    BY <1>0, RunSpends DEF RunNext, AlreadyMet
  <2> QED
    BY <1>0, <2>1 DEF KeepsBlocks, Stale
<1>1. CASE RunNext /\ ~AlreadyMet
  BY <1>1, RunSpends, SpendingKeeps
<1>2. CASE OtherNext /\ ~Crash
  BY <1>2, OtherSpends, SpendingKeeps DEF OnlySpends
<1>3. CASE Crash
  BY <1>3, IdleFacts DEF Crash, Stale
<1>4. ASSUME NEW r \in Requests, Approve(r) PROVE Stale(n)'
  <2>1. fresh' \subseteq fresh
    BY <1>4 DEF Approve
  <2> QED
    BY <1>4, <2>1, ApproveFacts DEF Stale
<1>5. ASSUME NEW r \in Requests, Finish(r) PROVE Stale(n)'
  <2>1. fresh' \subseteq block[r].fresh
    BY <1>5 DEF Finish
  <2> QED
    BY <1>5, <2>1, FinishFacts DEF Stale
<1>6. ASSUME NEW r \in Requests, Interrupt(r) PROVE Stale(n)'
  <2>1. fresh' \subseteq fresh
    BY <1>6 DEF Interrupt
  <2> QED
    BY <1>6, <2>1, InterruptFacts DEF Stale
<1>7. CASE AnswerOneself \/ Redraft
  BY <1>7 DEF AnswerOneself, Redraft, Answered, Stale
<1>8. CASE Reask
  BY <1>8 DEF Reask, entryVars, Stale
<1> QED
  BY <1>0, <1>1, <1>2, <1>3, <1>4, <1>5, <1>6, <1>7, <1>8 DEF SupNext, AnswerNext, OtherNext

-----------------------------------------------------------------------------
(* No step has two blocks.                                                   *)

\* A pending step has no block but one it was reset under, so a claim finds the
\* machine free; this needs the reaper to leave a block's step alone.
LEMMA NextBlocks ==
  ASSUME SupervisedInv, SupNext, ~On("kept_start")
  PROVE  OneBlock' /\ BlockInv'
<1>1. SupTypeOK /\ OneBlock /\ BlockInv /\ RunInv
  BY DEF SupervisedInv
<1>2. st \in [Nodes -> NodeStatuses] /\ block \in [Requests -> BlockType]
  BY <1>1 DEF SupTypeOK, DagTypeOK, BlockType
<1> DEFINE Sound(q) == block[q].node # NoStep /\ ~block[q].torn
           Safe(q) == st[block[q].node] # "pending" /\ block[q].node \notin works
           SafeNext(q) == st'[block[q].node] # "pending" /\ block[q].node \notin works'
<1>3. ASSUME KeepsBlocks, \A q \in Requests : Sound(q) /\ ~block'[q].torn => SafeNext(q)
      PROVE  OneBlock' /\ BlockInv'
  <2>1. OneBlock'
    BY <1>1, <1>3, SpendingKeeps
  <2> QED
    BY <1>3, <2>1 DEF KeepsBlocks, BlockInv
<1>4. ASSUME NEW q \in Requests, Sound(q) PROVE block[q].node \in Nodes /\ Working(block[q].node) /\ Safe(q)
  BY <1>1, <1>2, <1>4 DEF BlockInv, BlockType, Working
<1>5. CASE RunNext
  <2>1. KeepsBlocks
    BY <1>1, <1>5, RunSpends
  <2>2. SUFFICES ASSUME NEW n \in Nodes, Working(n), st[n] # "pending", n \notin works
                 PROVE  st'[n] # "pending" /\ n \notin works'
    BY <1>3, <1>4, <2>1
  <2>3. CASE Restart \/ Press \/ Drained \/ Look \/ LookFails \/ Recheck \/ Park
    BY <2>2, <2>3 DEF Restart, Press, Drained, Look, LookFails, Recheck, Park
  <2>4. CASE AlreadyMet \/ EmptyVerify
    BY <1>2, <2>2, <2>4 DEF AlreadyMet, EmptyVerify
  <2>5. CASE Final
    BY <1>2, <2>2, <2>5 DEF Final, FailRunning
  <2>6. CASE Cut
    BY <1>2, <2>2, <2>6 DEF Cut
  <2>7. CASE Stop
    BY <1>2, <2>2, <2>7 DEF Stop
  <2>8. ASSUME NEW m \in Nodes, Claim(m) PROVE st'[n] # "pending" /\ n \notin works'
    BY <1>2, <2>2, <2>8 DEF Claim, Ready
  <2>9. ASSUME NEW m \in Nodes, HandBack(m) PROVE st'[n] # "pending" /\ n \notin works'
    BY <1>2, <2>2, <2>9 DEF HandBack
  <2>10. ASSUME NEW m \in Nodes, Work(m) PROVE st'[n] # "pending" /\ n \notin works'
    BY <1>2, <2>2, <2>10 DEF Work
  <2> QED
    BY <1>5, <2>3, <2>4, <2>5, <2>6, <2>7, <2>8, <2>9, <2>10 DEF RunNext
<1>6. ASSUME NEW n \in Nodes, Reset(n) PROVE OneBlock' /\ BlockInv'
  <2>1. KeepsBlocks
    BY <1>1, <1>6, ResetFacts DEF KeepsBlocks
  <2>2. ASSUME NEW q \in Requests, Sound(q), ~block'[q].torn PROVE SafeNext(q)
    <3>1. block[q].node # n
      BY <1>1, <1>6, <2>2, ResetFacts
    <3> QED
      BY <1>2, <1>4, <1>6, <2>2, <3>1 DEF Reset, runVars
  <2> QED
    BY <1>3, <2>1, <2>2
<1>7. CASE OtherNext /\ ~Crash /\ ~(\E n \in Nodes : Reset(n))
  <2>1. KeepsBlocks
    BY <1>1, <1>7, OtherSpends DEF OnlySpends
  <2>2. SUFFICES ASSUME NEW n \in Nodes, Working(n), st[n] # "pending", n \notin works
                 PROVE  st'[n] # "pending" /\ n \notin works'
    BY <1>3, <1>4, <2>1
  <2>3. CASE CancelJob
    BY <2>2, <2>3 DEF CancelJob, runVars
  <2>4. ASSUME NEW m \in Nodes, Reap(m) PROVE st'[n] # "pending" /\ n \notin works'
    BY <1>2, <2>2, <2>4 DEF Reap, runVars
  <2>5. ASSUME NEW m \in Nodes, Age(m) PROVE st'[n] # "pending" /\ n \notin works'
    BY <2>2, <2>5 DEF Age, runVars
  <2> QED
    BY <1>7, <2>3, <2>4, <2>5 DEF OtherNext
<1>8. CASE Crash
  <2>1. \A r \in Requests : block'[r].node = NoStep
    BY <1>8, IdleFacts DEF Crash
  <2> QED
    BY <2>1, NodeFacts DEF OneBlock, BlockInv
<1>9. ASSUME NEW r \in Requests, Approve(r) PROVE OneBlock' /\ BlockInv'
  <2>1. /\ asked \in Nodes /\ st[asked] = "pending" /\ job = "awaiting_decision"
        /\ st' = [st EXCEPT ![asked] = "running"] /\ UNCHANGED runVars
    BY <1>9 DEF Approve
  <2>2. /\ block'[r].node = asked /\ (block'[r].torn <=> Torn(asked))
        /\ \A q \in Requests \ {r} : block'[q].node = block[q].node /\ block'[q].torn = block[q].torn
    BY <1>1, <1>9, ApproveFacts
  <2>3. \A q \in Requests : block[q].node = asked => block[q].torn
    BY <1>4, <2>1, NodeFacts
  <2>4. OneBlock'
    BY <1>1, <2>2, <2>3 DEF OneBlock, Torn
  <2>5. works' = {}
    BY <1>1, <2>1 DEF RunInv, runVars
  <2>6. BlockInv'
    <3> SUFFICES ASSUME NEW q \in Requests, block'[q].node # NoStep, ~block'[q].torn
                 PROVE  st'[block'[q].node] # "pending" /\ block'[q].node \notin works'
      BY DEF BlockInv
    <3>1. CASE q = r
      BY <1>2, <2>1, <2>2, <2>5, <3>1
    <3>2. CASE q # r
      BY <1>2, <1>4, <2>1, <2>2, <2>5, <3>2
    <3> QED
      BY <3>1, <3>2
  <2> QED
    BY <2>4, <2>6
<1>10. ASSUME NEW r \in Requests, Finish(r) \/ Interrupt(r) PROVE OneBlock' /\ BlockInv'
  <2> DEFINE n == block[r].node
  <2>1. n \in Nodes /\ works' = works
    BY <1>10 DEF Finish, Interrupt, runVars
  <2>2. \A m \in Nodes : st'[m] = st[m] \/ m = n
    BY <1>2, <1>10 DEF Finish, Interrupt, RunningSteps
  <2>3. /\ block'[r].node = NoStep
        /\ \A q \in Requests \ {r} : block'[q].node = block[q].node /\ block'[q].torn = block[q].torn
    BY <1>1, <1>10, FinishFacts, InterruptFacts
  <2>4. OneBlock'
    BY <1>1, <2>3 DEF OneBlock
  <2>5. ASSUME NEW q \in Requests \ {r}, Sound(q) PROVE block[q].node # n
    BY <1>1, <2>1, <2>5 DEF OneBlock
  <2>6. BlockInv'
    <3> SUFFICES ASSUME NEW q \in Requests, block'[q].node # NoStep, ~block'[q].torn
                 PROVE  st'[block'[q].node] # "pending" /\ block'[q].node \notin works'
      BY DEF BlockInv
    <3>1. q # r /\ Sound(q) /\ block'[q].node = block[q].node
      BY <2>3
    <3> QED
      BY <1>4, <2>1, <2>2, <2>5, <3>1
  <2> QED
    BY <2>4, <2>6
<1>11. CASE AnswerOneself \/ Redraft \/ Reask
  <2>1. UNCHANGED <<block, works>>
    BY <1>11 DEF AnswerOneself, Redraft, Reask, runVars
  <2>2. KeepsBlocks
    BY <2>1 DEF KeepsBlocks
  <2>3. \A n \in Nodes : st[n] # "pending" => st'[n] # "pending"
    BY <1>2, <1>11 DEF AnswerOneself, Answered, Redraft, Reask
  <2> QED
    BY <1>3, <1>4, <2>1, <2>2, <2>3
<1> QED
  BY <1>5, <1>6, <1>7, <1>8, <1>9, <1>10, <1>11 DEF SupNext, AnswerNext, OtherNext

-----------------------------------------------------------------------------
(* The parked frame.                                                         *)

\* A job that waits was already waiting on the same step, or has just been parked
\* by the run on the step it drafted.
LEMMA NextFrame ==
  ASSUME SupervisedInv, SupNext, (job = "awaiting_decision")'
  PROVE  \/ job = "awaiting_decision" /\ asked' = asked
         \/ run = "ask" /\ asked' = target /\ UNCHANGED <<st, block>>
<1> USE DEF frameVars, MayMoveFrom, FrameGone
<1>1. run # "off" => job # "awaiting_decision"
  BY DEF SupervisedInv, RunInv
<1>2. CASE Park
  BY <1>2 DEF Park
<1>3. CASE RunNext /\ ~Park
  <2>1. ASSUME NEW n \in Nodes, Claim(n) \/ HandBack(n) \/ Work(n)
        PROVE  job = "awaiting_decision" /\ asked' = asked
    BY <2>1 DEF Claim, HandBack, Work
  <2>2. CASE Restart \/ Press
    BY <2>2 DEF Restart, Press, Starts
  <2>3. CASE Drained \/ Look \/ LookFails \/ AlreadyMet \/ EmptyVerify \/ Recheck
    BY <2>3 DEF Drained, Look, LookFails, AlreadyMet, EmptyVerify, Recheck
  <2>4. CASE Final \/ Cut \/ Stop
    BY <2>4 DEF Final, Cut, Stop
  <2> QED
    BY <1>3, <2>1, <2>2, <2>3, <2>4 DEF RunNext
<1>4. CASE AnswerNext
  BY <1>4 DEF AnswerNext, Approve, Finish, Interrupt, AnswerOneself, Answered, Redraft, Reask
<1>5. CASE OtherNext
  <2>1. ASSUME NEW n \in Nodes, Reset(n) PROVE job = "awaiting_decision" /\ asked' = asked
    BY <2>1 DEF Reset
  <2>2. ASSUME NEW n \in Nodes, Age(n) \/ Reap(n) PROVE job = "awaiting_decision" /\ asked' = asked
    BY <2>2 DEF Age, Reap
  <2>3. CASE CancelJob \/ Crash
    BY <2>3 DEF CancelJob, Crash
  <2> QED
    BY <1>5, <2>1, <2>2, <2>3 DEF OtherNext
<1> QED
  BY <1>2, <1>3, <1>4, <1>5 DEF SupNext

\* The step a frame asks about runs only under a request.
LEMMA NextNotStranded ==
  ASSUME SupervisedInv, SupNext
  PROVE  NotStranded'
<1>1. SupTypeOK /\ NotStranded /\ RunInv
  BY DEF SupervisedInv
<1>2. st \in [Nodes -> NodeStatuses]
  BY <1>1 DEF SupTypeOK, DagTypeOK
<1>3. SUFFICES ASSUME (job = "awaiting_decision")'
               PROVE  asked' \in Nodes /\ (st'[asked'] = "running" => \E r \in Requests : block'[r].node = asked')
  BY DEF NotStranded, Working
<1>4. CASE run = "ask" /\ asked' = target /\ UNCHANGED st
  BY <1>1, <1>4 DEF RunInv
<1>5. CASE job = "awaiting_decision" /\ asked' = asked
  <2>1. /\ asked' = asked /\ asked \in Nodes /\ run = "off" /\ works = {}
        /\ st[asked] = "running" => Working(asked)
    BY <1>1, <1>5 DEF NotStranded, RunInv, SupTypeOK, RunPcs
  <2>2. SUFFICES ASSUME st'[asked] = "running"
                 PROVE  \E r \in Requests : block'[r].node = asked
    BY <2>1
  <2>3. st[asked] = "running" /\ OnlySpends => \E r \in Requests : block'[r].node = asked
    BY <2>1 DEF OnlySpends, KeepsBlocks, Working
  <2>4. CASE RunNext
    <3>1. Restart \/ Press
      BY <2>1, <2>4 DEF RunNext, Drained, Look, LookFails, AlreadyMet, EmptyVerify, Recheck, Park,
                        Final, Cut, Stop, InRun, Claim, HandBack, Work
    <3>2. OnlySpends
      BY <1>1, <2>4, <3>1, RunSpends DEF Restart, Press, AlreadyMet, Starts, OnlySpends, entryVars
    <3>3. UNCHANGED st
      BY <3>1 DEF Restart, Press
    <3> QED
      BY <2>2, <2>3, <3>2, <3>3
  <2>5. CASE OtherNext /\ ~Crash
    <3>1. OnlySpends
      BY <1>1, <2>5, OtherSpends
    <3>2. st[asked] = "running"
      <4>1. ASSUME NEW n \in Nodes, Reset(n) \/ Reap(n) PROVE st[asked] = "running"
        BY <1>2, <2>1, <2>2, <4>1 DEF Reset, Reap
      <4>2. ASSUME NEW n \in Nodes, Age(n) PROVE st[asked] = "running"
        BY <2>2, <4>2 DEF Age
      <4>3. CASE CancelJob
        BY <2>2, <4>3 DEF CancelJob
      <4> QED
        BY <2>5, <4>1, <4>2, <4>3 DEF OtherNext
    <3> QED
      BY <2>3, <3>1, <3>2
  <2>6. CASE Crash
    BY <1>2, <2>1, <2>2, <2>6 DEF Crash
  <2>7. ASSUME NEW r \in Requests, Approve(r) PROVE \E q \in Requests : block'[q].node = asked
    BY <1>1, <2>7, ApproveFacts
  <2>8. ASSUME NEW r \in Requests, Interrupt(r) PROVE \E q \in Requests : block'[q].node = asked
    <3>1. st[asked] = "running" /\ asked # block[r].node
      BY <1>2, <2>1, <2>2, <2>8 DEF Interrupt, RunningSteps
    <3>2. PICK q \in Requests : block[q].node = asked
      BY <2>1, <3>1 DEF Working
    <3> QED
      BY <1>1, <2>8, <3>1, <3>2, InterruptFacts
  <2>9. ASSUME NEW r \in Requests, Finish(r) PROVE FALSE
    BY <1>3, <1>5, <2>9 DEF Finish
  <2>10. CASE AnswerOneself \/ Redraft \/ Reask
    BY <1>3, <2>10 DEF AnswerOneself, Redraft, Reask, Answered
  <2> QED
    BY <2>4, <2>5, <2>6, <2>7, <2>8, <2>9, <2>10 DEF SupNext, AnswerNext, OtherNext
<1> QED
  BY <1>3, <1>4, <1>5, NextFrame

\* The step asked about, and every answered step, has its dependencies.
LEMMA NextAsked ==
  ASSUME SupervisedInv, SupNext
  PROVE  AskedInv'
<1>1. SupTypeOK /\ AskedInv /\ RunInv
  BY DEF SupervisedInv
<1>2. \A n \in Nodes : DepsHeld(n) => \A d \in Deps[n] \ Reopenable : Settled(d)'
  BY NextPlan DEF DepsHeld
<1>3. ASSUME (job = "awaiting_decision")'
      PROVE  asked' \in Nodes /\ \A d \in Deps[asked'] \ Reopenable : Settled(d)'
  <2>1. CASE job = "awaiting_decision" /\ asked' = asked
    BY <1>1, <1>2, <2>1 DEF AskedInv
  <2>2. CASE run = "ask" /\ asked' = target
    BY <1>1, <1>2, <2>2 DEF RunInv
  <2> QED
    BY <1>3, <2>1, <2>2, NextFrame
<1>4. ASSUME NEW n \in Nodes, ~Stale(n)'
      PROVE  \A d \in Deps[n] \ Reopenable : Settled(d)'
  <2>1. CASE ~Stale(n)
    BY <1>1, <1>2, <2>1 DEF AskedInv
  <2>2. CASE Stale(n)
    <3>1. (Answered /\ n = asked) \/ (AlreadyMet /\ n = target)
      BY <1>1, <1>4, <2>2, StaleStays
    <3>2. DepsHeld(n)
      BY <1>1, <3>1 DEF Answered, AskedInv, AlreadyMet, RunInv
    <3> QED
      BY <1>2, <3>2
  <2> QED
    BY <2>1, <2>2
<1> QED
  BY <1>3, <1>4 DEF AskedInv, DepsHeld

-----------------------------------------------------------------------------
(* The run.                                                                  *)

\* A run leaves its loop only when every pending step waits for a dependency or was
\* handed back, so no answer to an earlier attempt is left to speak for it, unless the
\* dependency was met at the time and reopened since.
LEMMA DrainedStale ==
  ASSUME SupervisedInv, Drained, NEW n \in Nodes, st[n] = "pending", Deps[n] \cap Reopenable = {}
  PROVE  Stale(n)
<1>1. RunInv /\ AskedInv
  BY DEF SupervisedInv
<1>2. CASE DepsMet(n)
  <2>1. n \in held
    BY <1>2 DEF Drained, Ready
  <2> QED
    BY <1>1, <2>1 DEF RunInv, Drained, Settled, SettledStatuses
<1>3. CASE ~DepsMet(n)
  BY <1>1, <1>3 DEF AskedInv, DepsMet, DepsHeld
<1> QED
  BY <1>2, <1>3

\* Where the run is, what it holds and what it drafts.
LEMMA NextRun ==
  ASSUME SupervisedInv, SupNext
  PROVE  /\ run' # "off" => job' # "awaiting_decision"
         /\ run' # "loop" => works' = {}
         /\ run' = "off" => held' = {}
         /\ run' \in {"draft", "ask"} => target' \in Nodes /\ DepsHeld(target)' /\ st'[target'] # "running"
<1>1. SupTypeOK /\ RunInv
  BY DEF SupervisedInv
<1>2. st \in [Nodes -> NodeStatuses] /\ run \in RunPcs
  BY <1>1 DEF SupTypeOK, DagTypeOK
<1> DEFINE Drafts(w, p, q) == w \in {"draft", "ask"} => p \in Nodes /\ DepsHeld(p) /\ q[p] # "running"
<1>3. SUFFICES /\ run' # "off" => job' # "awaiting_decision"
               /\ run' # "loop" => works' = {}
               /\ run' = "off" => held' = {}
               /\ Drafts(run', target', st')
  <2>1. \A n \in Nodes : DepsHeld(n) => \A d \in Deps[n] \ Reopenable : Settled(d)'
    BY NextPlan DEF DepsHeld
  <2> QED
    BY <2>1 DEF DepsHeld
<1>4. Drafts(run, target, st)
  BY <1>1 DEF RunInv
<1> USE <1>1, <1>2 DEF RunInv, frameVars, runVars, RunPcs
<1>5. CASE RunNext
  <2>1. CASE Restart \/ Press \/ Drained
    BY <1>4, <2>1 DEF Restart, Press, Starts, Drained
  <2>2. CASE Look
    <3>1. \A n \in Askable : n \in Nodes /\ DepsHeld(n) /\ st[n] = "pending"
      BY MetIsHeld DEF Askable, Ready
    <3> QED
      BY <2>2, <3>1 DEF Look
  <2>3. CASE LookFails \/ AlreadyMet \/ EmptyVerify
    BY <2>3 DEF LookFails, AlreadyMet, EmptyVerify, LooksAgain
  <2>4. CASE Recheck
    BY <1>4, <2>4 DEF Recheck, LooksAgain
  <2>5. CASE Park
    BY <2>5 DEF Park, RunEnds
  <2>6. CASE Final \/ Cut \/ Stop
    BY <2>6 DEF Final, Cut, Stop, InRun, RunEnds
  <2>7. ASSUME NEW n \in Nodes, Claim(n) \/ HandBack(n) \/ Work(n)
        PROVE  run = "loop" /\ run' = "loop" /\ job' = job
    BY <2>7 DEF Claim, HandBack, Work
  <2> QED
    BY <1>5, <2>1, <2>2, <2>3, <2>4, <2>5, <2>6, <2>7 DEF RunNext
<1>6. CASE OtherNext
  <2>1. CASE CancelJob \/ Crash
    BY <1>4, <2>1 DEF CancelJob, Crash, RunEnds
  <2>2. ASSUME NEW n \in Nodes, Reset(n)
        PROVE  UNCHANGED runVars /\ (job' = job \/ job' \in {"blocked", "executing"})
               /\ \A m \in Nodes : st'[m] = "running" => st[m] = "running"
    BY <2>2 DEF Reset
  <2>3. ASSUME NEW n \in Nodes, Age(n) \/ Reap(n)
        PROVE  UNCHANGED runVars /\ job' = job
               /\ \A m \in Nodes : st'[m] = "running" => st[m] = "running"
    BY <2>3 DEF Age, Reap
  <2> QED
    BY <1>4, <1>6, <2>1, <2>2, <2>3 DEF OtherNext
<1>7. ASSUME NEW r \in Requests, Approve(r)
      PROVE  UNCHANGED runVars /\ job' = job /\ run = "off"
  BY <1>7 DEF Approve
<1>8. ASSUME NEW r \in Requests, Finish(r) \/ Interrupt(r)
      PROVE  UNCHANGED runVars /\ (job' = job \/ job' = "executing")
             /\ \A m \in Nodes : st'[m] = "running" => st[m] = "running"
  <2>1. UNCHANGED runVars /\ (job' = job \/ job' = "executing")
    BY <1>8 DEF Finish, Interrupt
  <2>2. \A m \in Nodes : st'[m] = "running" => st[m] = "running"
    BY <1>8 DEF Finish, Ends, Interrupt
  <2> QED
    BY <2>1, <2>2
<1>9. CASE AnswerOneself \/ Redraft \/ Reask
  BY <1>4, <1>9 DEF AnswerOneself, Redraft, Reask, Answered
<1> QED
  BY <1>4, <1>5, <1>6, <1>7, <1>8, <1>9 DEF SupNext, AnswerNext

\* A settled step is put back to work only by a reset of it.
LEMMA UndoneByReset ==
  ASSUME SupervisedInv, SupNext, NEW n \in Nodes, Settled(n), ~Settled(n)'
  PROVE  Reset(n)
<1>1. SupTypeOK
  BY DEF SupervisedInv
<1>2. st \in [Nodes -> NodeStatuses]
  BY <1>1 DEF SupTypeOK, DagTypeOK
<1> USE DEF Settled, SettledStatuses
<1>3. CASE RunNext
  <2>1. CASE Restart \/ Press \/ Drained \/ Look \/ LookFails \/ Recheck \/ Park
    BY <2>1 DEF Restart, Press, Drained, Look, LookFails, Recheck, Park
  <2>2. CASE AlreadyMet \/ EmptyVerify
    BY <1>2, <2>2 DEF AlreadyMet, EmptyVerify
  <2>3. CASE Final \/ Cut \/ Stop
    BY <1>2, <2>3 DEF Final, FailRunning, Cut, Stop, RunningSteps
  <2>4. ASSUME NEW m \in Nodes, Claim(m) \/ HandBack(m) \/ Work(m) PROVE FALSE
    BY <1>2, <2>4 DEF Claim, Ready, HandBack, Work
  <2> QED
    BY <1>3, <2>1, <2>2, <2>3, <2>4 DEF RunNext
<1>4. CASE AnswerNext
  <2>1. ASSUME NEW r \in Requests, Approve(r) \/ Finish(r) \/ Interrupt(r) PROVE FALSE
    BY <1>2, <2>1 DEF Approve, Finish, Ends, Interrupt, RunningSteps
  <2>2. ~(AnswerOneself \/ Redraft \/ Reask)
    BY <1>2 DEF AnswerOneself, Answered, Redraft, Reask
  <2> QED
    BY <1>4, <2>1, <2>2 DEF AnswerNext
<1>5. ASSUME NEW m \in Nodes, Reset(m) PROVE Reset(n)
  <2>1. m = n
    BY <1>2, <1>5 DEF Reset
  <2> QED
    BY <1>5, <2>1
<1>6. ASSUME NEW m \in Nodes, Age(m) \/ Reap(m) PROVE FALSE
  BY <1>2, <1>6 DEF Age, Reap
<1>7. CASE CancelJob \/ Crash
  BY <1>2, <1>7 DEF CancelJob, Crash
<1> QED
  BY <1>3, <1>4, <1>5, <1>6, <1>7 DEF SupNext, OtherNext

\* The reset is a write, which spends its decision.
LEMMA UnsettledStale ==
  ASSUME SupervisedInv, SupNext, NEW n \in Nodes, Settled(n), ~Settled(n)'
  PROVE  Stale(n)'
<1>1. Reset(n) /\ SupTypeOK
  BY UndoneByReset DEF SupervisedInv
<1>2. fresh' = fresh \ {n}
  BY <1>1 DEF Reset
<1> QED
  BY <1>1, <1>2, ResetFacts DEF Stale

\* A run that is on keeps what it knew to be stale or settled, and only a claim adds
\* to it.
LEMMA NextHeld ==
  ASSUME SupervisedInv, SupNext, run' # "off"
  PROVE  \A n \in works' \cup held' : Settled(n)' \/ Stale(n)'
<1>1. SupTypeOK /\ RunInv
  BY DEF SupervisedInv
<1>2. works \subseteq Nodes /\ held \subseteq Nodes
  BY <1>1 DEF SupTypeOK
<1> USE <1>1 DEF runVars
<1>3. CASE run = "off"
  <2>1. works = {} /\ held = {}
    BY <1>3 DEF RunInv
  <2>2. CASE RunNext
    <3>1. run' = "off" \/ (works' = {} /\ held' = {})
      BY <1>3, <2>1, <2>2
      DEF RunNext, Restart, Press, Drained, Look, LookFails, AlreadyMet, EmptyVerify, Recheck, Park,
          Final, Cut, Stop, InRun, Claim, HandBack, Work
    <3> QED
      BY <3>1
  <2>3. CASE AnswerNext
    BY <1>3, <2>3 DEF AnswerNext, Approve, Finish, Interrupt, AnswerOneself, Redraft, Reask
  <2>4. CASE OtherNext
    BY <1>3, <2>4 DEF OtherNext, CancelJob, Crash, RunEnds, Reset, Age, Reap
  <2> QED
    BY <2>2, <2>3, <2>4 DEF SupNext
<1>4. CASE run # "off"
  <2>1. ASSUME NEW n \in Nodes, Settled(n) \/ Stale(n)
        PROVE  Settled(n)' \/ Stale(n)'
    <3>1. CASE Settled(n)
      BY <2>1, <3>1, UnsettledStale
    <3>2. CASE AlreadyMet /\ n = target
      <4>1. st \in [Nodes -> NodeStatuses]
        BY <1>1 DEF SupTypeOK, DagTypeOK
      <4> QED
        BY <2>1, <3>2, <4>1 DEF AlreadyMet, Settled, SettledStatuses
    <3>3. CASE Stale(n) /\ ~(AlreadyMet /\ n = target)
      BY <1>4, <3>3, StaleStays DEF RunInv, Answered
    <3> QED
      BY <2>1, <3>1, <3>2, <3>3
  <2>2. ASSUME NEW n \in Nodes, Claim(n)
        PROVE  \A m \in works' \cup held' : Settled(m)' \/ Stale(m)'
    <3>1. Stale(n)'
      BY <2>2, WrittenKeeps DEF Claim
    <3>2. works' = works \cup {n} /\ held' = held
      BY <2>2 DEF Claim
    <3> QED
      BY <1>2, <1>4, <2>1, <3>1, <3>2 DEF RunInv
  <2>3. SUFFICES ASSUME \A n \in Nodes : ~Claim(n)
                 PROVE  works' \cup held' \subseteq works \cup held
    BY <1>2, <1>4, <2>1, <2>2 DEF RunInv
  <2>4. CASE RunNext
    <3>1. CASE Restart \/ Press \/ Drained \/ Look \/ LookFails \/ AlreadyMet \/ EmptyVerify \/ Recheck
      BY <3>1 DEF Restart, Press, Drained, Look, LookFails, AlreadyMet, EmptyVerify, Recheck
    <3>2. CASE Park \/ Final \/ Cut \/ Stop
      BY <3>2 DEF Park, Final, Cut, Stop, RunEnds
    <3>3. ASSUME NEW n \in Nodes, HandBack(n) \/ Work(n)
          PROVE  works' \cup held' \subseteq works \cup held
      BY <3>3 DEF HandBack, Work
    <3> QED
      BY <2>3, <2>4, <3>1, <3>2, <3>3 DEF RunNext
  <2>5. CASE AnswerNext
    BY <2>5 DEF AnswerNext, Approve, Finish, Interrupt, AnswerOneself, Redraft, Reask
  <2>6. CASE OtherNext
    BY <2>6 DEF OtherNext, CancelJob, Crash, RunEnds, Reset, Age, Reap
  <2> QED
    BY <2>4, <2>5, <2>6 DEF SupNext
<1> QED
  BY <1>3, <1>4

\* A step is put back to pending by a write, which spends its decision.
LEMMA PendingAgain ==
  ASSUME SupervisedInv, SupNext, run \in {"settle", "draft"}, run' # "off",
         NEW n \in Nodes, st[n] # "pending", st'[n] = "pending"
  PROVE  Stale(n)'
<1>1. SupTypeOK /\ works = {}
  BY DEF SupervisedInv, RunInv
<1>2. st \in [Nodes -> NodeStatuses]
  BY <1>1 DEF SupTypeOK, DagTypeOK
<1>3. CASE RunNext
  <2>1. CASE Restart \/ Press \/ Drained \/ Look \/ LookFails \/ Recheck \/ Park
    BY <2>1 DEF Restart, Press, Drained, Look, LookFails, Recheck, Park
  <2>2. CASE AlreadyMet \/ EmptyVerify
    BY <1>2, <2>2 DEF AlreadyMet, EmptyVerify
  <2>3. CASE Final \/ Cut \/ Stop
    BY <2>3 DEF Final, Cut, Stop, RunEnds
  <2>4. ASSUME NEW m \in Nodes, Claim(m) \/ HandBack(m) \/ Work(m) PROVE FALSE
    BY <1>1, <2>4 DEF Claim, HandBack, Work
  <2> QED
    BY <1>3, <2>1, <2>2, <2>3, <2>4 DEF RunNext
<1>4. ASSUME NEW r \in Requests, Finish(r) PROVE Stale(n)'
  <2>1. fresh' = block[r].fresh \ {block[r].node} /\ block[r].node = n
    BY <1>2, <1>4 DEF Finish
  <2> QED
    BY <1>1, <1>4, <2>1, FinishFacts DEF Stale
<1>5. ASSUME NEW r \in Requests, Approve(r) \/ Interrupt(r) PROVE FALSE
  BY <1>2, <1>5 DEF Approve, Interrupt
<1>6. CASE AnswerOneself \/ Redraft \/ Reask
  BY <1>2, <1>6 DEF AnswerOneself, Answered, Redraft, Reask
<1>7. ASSUME NEW m \in Nodes, Reset(m) PROVE Stale(n)'
  <2>1. m = n
    BY <1>2, <1>7 DEF Reset
  <2>2. fresh' = fresh \ {n}
    BY <1>7, <2>1 DEF Reset
  <2> QED
    BY <1>1, <1>7, <2>1, <2>2, ResetFacts DEF Stale
<1>8. ASSUME NEW m \in Nodes, Reap(m) PROVE Stale(n)'
  <2>1. m = n /\ Written({n})
    BY <1>2, <1>8 DEF Reap
  <2> QED
    BY <1>1, <2>1, WrittenKeeps
<1>9. ASSUME NEW m \in Nodes, Age(m) PROVE FALSE
  BY <1>9 DEF Age
<1>10. CASE CancelJob \/ Crash
  BY <1>10 DEF CancelJob, Crash, RunEnds
<1> QED
  BY <1>3, <1>4, <1>5, <1>6, <1>7, <1>8, <1>9, <1>10 DEF SupNext, AnswerNext, OtherNext

\* Past its loop, a run meets no pending step with an answer to an earlier attempt.
LEMMA NextPending ==
  ASSUME SupervisedInv, SupNext, run' \in {"settle", "draft"},
         NEW n \in Nodes, st'[n] = "pending", Deps[n] \cap Reopenable = {}
  PROVE  Stale(n)'
<1>1. SupTypeOK /\ RunInv
  BY DEF SupervisedInv
<1>2. CASE Drained
  <2>1. Stale(n)
    BY <1>2, DrainedStale DEF Drained
  <2> QED
    BY <1>2, <2>1 DEF Drained, Stale, entryVars
<1>3. CASE ~Drained
  <2>1. run \in {"settle", "draft"}
    <3>1. CASE RunNext
      BY <1>3, <3>1 DEF RunNext, Restart, Press, Starts, Look, LookFails, AlreadyMet, EmptyVerify,
                          Recheck, Park, Final, Cut, Stop, RunEnds, Claim, HandBack, Work, runVars
    <3>2. CASE AnswerNext
      BY <3>2 DEF AnswerNext, Approve, Finish, Interrupt, AnswerOneself, Redraft, Reask, runVars
    <3>3. CASE OtherNext
      BY <3>3 DEF OtherNext, CancelJob, Crash, RunEnds, Reset, Age, Reap, runVars
    <3> QED
      BY <3>1, <3>2, <3>3 DEF SupNext
  <2>2. ~(AlreadyMet /\ n = target)
    <3>1. st \in [Nodes -> NodeStatuses]
      BY <1>1 DEF SupTypeOK, DagTypeOK
    <3> QED
      BY <3>1 DEF AlreadyMet
  <2>3. CASE st[n] = "pending"
    BY <1>1, <2>1, <2>2, <2>3, StaleStays DEF RunInv, Answered
  <2>4. CASE st[n] # "pending"
    BY <2>1, <2>4, PendingAgain
  <2> QED
    BY <2>3, <2>4
<1> QED
  BY <1>2, <1>3

-----------------------------------------------------------------------------
(* The theorems.                                                             *)

LEMMA SupInitInv == SupInit => SupervisedInv
<1> SUFFICES ASSUME SupInit PROVE SupervisedInv
  OBVIOUS
<1>1. DagInv
  BY DagInitInv DEF SupInit
<1>2. SupTypeOK
  BY <1>1, IdleFacts DEF SupInit, SupTypeOK, DagInv, BlockType, Kinds, Ages, RunPcs
<1>3. NotStranded /\ RunInv /\ AskedInv
  BY IdleFacts DEF SupInit, DagInit, NotStranded, RunInv, AskedInv, Stale
<1>4. OneBlock /\ BlockInv
  BY NodeFacts, IdleFacts DEF SupInit, OneBlock, BlockInv, Working
<1> QED
  BY <1>1, <1>2, <1>3, <1>4 DEF SupervisedInv, DagInv

LEMMA SupNextInv ==
  ASSUME SupervisedInv, SupNext, ~On("kept_start")
  PROVE  SupervisedInv'
<1>1. RunInv'
  BY NextRun, NextHeld, NextPending DEF RunInv
<1> QED
  BY <1>1, NextPlan, NextBlocks, NextNotStranded, NextAsked DEF SupervisedInv

LEMMA SupStutters ==
  ASSUME SupervisedInv, UNCHANGED supVars
  PROVE  SupervisedInv'
BY DEF supVars, frameVars, entryVars, runVars, SupervisedInv, SupTypeOK, DagTypeOK,
       DependencyOrder, CompletedIsWhole, AllHeld, Settled, DepsHeld, OneBlock, NotStranded,
       Working, RunInv, Stale, BlockInv, AskedInv

\* What hands-on steps keep whatever the order of answers, runs, retries, crashes
\* and dropped connections, whichever steps are reset under whom: no step is started
\* ahead of its dependencies, or blocked twice but after a reset of it, a parked job can
\* be answered, and an answer speaks for one attempt only.
THEOREM SupervisedSafety ==
  ASSUME ~On("kept_start")
  PROVE  SupSpec => []SupervisedInv
<1>1. SupervisedInv /\ [SupNext]_supVars => SupervisedInv'
  BY SupNextInv, SupStutters
<1> QED
  BY SupInitInv, <1>1, PTL DEF SupSpec

\* One block per step: two approvals never run the same commands at once, however they
\* are answered, asked anew, cancelled, retried and interrupted.  Two blocks on one step
\* were both there when the step was reset, or came after such a one.
THEOREM OneBlockEver ==
  ASSUME ~On("kept_start")
  PROVE  SupSpec => []OneBlock
<1>1. SupervisedInv => OneBlock
  BY DEF SupervisedInv
<1> QED
  BY SupervisedSafety, <1>1, PTL

\* No interrupted approval leaves its step running under a frame that nobody can
\* answer.
THEOREM NeverStranded ==
  ASSUME ~On("kept_start")
  PROVE  SupSpec => []NotStranded
<1>1. SupervisedInv => NotStranded
  BY DEF SupervisedInv
<1> QED
  BY SupervisedSafety, <1>1, PTL

\* Supervised execution implements what DagJob promises about a job and its plan: a
\* step starts or is answered only over its dependencies, a settled one is undone only
\* if it may be reopened, and a completed job is whole.
THEOREM SupervisedImplementsDag ==
  ASSUME ~On("kept_start")
  PROVE  SupSpec => DagSpec
<1>1. SupervisedInv /\ [SupNext]_supVars => [DagNext]_dagVars
  <2>1. UNCHANGED supVars => UNCHANGED dagVars
    BY DEF supVars, dagVars
  <2> QED
    BY <2>1, NextMoves
<1>2. SupInit => DagInit
  BY DEF SupInit
<1> QED
  BY SupervisedSafety, <1>1, <1>2, PTL DEF SupSpec, DagSpec

\* A settled step changes only when somebody resets it: no late block, stale body,
\* answer or reaper writes over what was done or skipped.
ResetsOnly == [][\A n \in Nodes : Settled(n) => st'[n] = st[n] \/ Reset(n)]_supVars

\* Beside blocks, answers and crashes too a settled step is undone by a reset only.
THEOREM SupervisedKeepsWork ==
  ASSUME ~On("kept_start")
  PROVE  SupSpec => ResetsOnly
<1>1. ASSUME SupervisedInv, SupNext, NEW n \in Nodes, Settled(n)
      PROVE  st'[n] = st[n] \/ Reset(n)
  <2>1. st'[n] = st[n] \/ st'[n] = "pending"
    BY <1>1, NextMoves DEF DagNext, dagVars, StepMoves, StartsStep, EndsStep, RetriesStep, SkipsStep,
                           AnswersStep, ReopensStep, Settled, SettledStatuses
  <2> QED
    BY <1>1, <2>1, UndoneByReset DEF Settled, SettledStatuses
<1>2. UNCHANGED supVars => UNCHANGED st
  BY DEF supVars
<1>3. SupervisedInv /\ [SupNext]_supVars
        => [\A n \in Nodes : Settled(n) => st'[n] = st[n] \/ Reset(n)]_supVars
  BY <1>1
<1> QED
  BY SupervisedSafety, <1>3, PTL DEF SupSpec, ResetsOnly

\* A hands-on step is done only by its block: no body of a run writes it up because
\* of an answer to an earlier attempt.
THEOREM NeverFaked ==
  ASSUME ~On("kept_start")
  PROVE  SupSpec => NotFaked
<1>1. ASSUME SupervisedInv, SupNext, NEW n \in Hands, st[n] = "running", st'[n] = "done"
      PROVE  Working(n)
  <2>1. n \in Nodes /\ st \in [Nodes -> NodeStatuses] /\ SupTypeOK /\ RunInv
    BY <1>1, SupervisedAssumption DEF SupervisedInv, SupTypeOK, DagTypeOK
  <2>2. CASE RunNext
    <3>1. ASSUME NEW m \in Nodes, Work(m) PROVE FALSE
      <4>1. m = n /\ n \in works /\ ~HandsBack(n)
        BY <1>1, <2>1, <3>1 DEF Work
      <4>2. n \in fresh
        BY <1>1, <4>1 DEF HandsBack
      <4>3. Stale(n)
        BY <1>1, <2>1, <4>1 DEF RunInv, Settled, SettledStatuses
      <4> QED
        BY <4>2, <4>3 DEF Stale
    <3>2. ASSUME NEW m \in Nodes, Claim(m) \/ HandBack(m) PROVE FALSE
      BY <1>1, <2>1, <3>2 DEF Claim, HandBack
    <3>3. ~(Restart \/ Press \/ Drained \/ Look \/ LookFails \/ Recheck \/ Park)
      BY <1>1 DEF Restart, Press, Drained, Look, LookFails, Recheck, Park
    <3>4. ~(AlreadyMet \/ EmptyVerify)
      BY <1>1, <2>1 DEF AlreadyMet, EmptyVerify
    <3>5. ~(Final \/ Cut \/ Stop)
      BY <1>1, <2>1 DEF Final, FailRunning, Cut, Stop
    <3> QED
      BY <2>2, <3>1, <3>2, <3>3, <3>4, <3>5 DEF RunNext
  <2>3. ASSUME NEW r \in Requests, Finish(r) PROVE Working(n)
    <3>1. block[r].node = n
      BY <1>1, <2>1, <2>3 DEF Finish
    <3> QED
      BY <3>1 DEF Working
  <2>4. ASSUME NEW r \in Requests, Approve(r) \/ Interrupt(r) PROVE FALSE
    BY <1>1, <2>1, <2>4 DEF Approve, Interrupt
  <2>5. CASE AnswerOneself \/ Redraft \/ Reask
    BY <1>1, <2>1, <2>5 DEF AnswerOneself, Answered, Redraft, Reask
  <2>6. CASE OtherNext
    BY <1>1, <2>1, <2>6 DEF OtherNext, CancelJob, Crash, Reset, Age, Reap
  <2> QED
    BY <1>1, <2>2, <2>3, <2>4, <2>5, <2>6 DEF SupNext, AnswerNext
<1>2. UNCHANGED supVars => UNCHANGED st
  BY DEF supVars
<1>3. SupervisedInv /\ [SupNext]_supVars
        => [\A n \in Hands : st[n] = "running" /\ st'[n] = "done" => Working(n)]_supVars
  BY <1>1
<1> QED
  BY SupervisedSafety, <1>3, PTL DEF SupSpec, NotFaked

\* The question is never silenced: whenever a run looks for what to ask, every ready
\* hands-on step that waits for no reopenable one is on the list.
THEOREM EveryStepAsked ==
  ASSUME ~On("kept_start")
  PROVE  SupSpec => []NeverPassedOver
<1>1. SupervisedInv => NeverPassedOver
  BY DEF SupervisedInv, RunInv, NeverPassedOver, Askable, Ready, Stale
<1> QED
  BY SupervisedSafety, <1>1, PTL
=============================================================================
