--------------------------- MODULE ResearchProofs ---------------------------
(***************************************************************************)
(* What holds of research sessions for any number of sessions, pipelines   *)
(* and iterations: one pipeline per session, one at work at a time unless  *)
(* a session was ended under it, and no iteration lost to an older         *)
(* snapshot.                                                               *)
(***************************************************************************)
EXTENDS Research, FiniteSetTheorems, TLAPS

\* The partial unique index on running rows: the one slot.
OneSlot == \A s, t \in Sessions : Is(s, "running") /\ Is(t, "running") => s = t

\* A session waiting for a reply is nobody's, and has an iteration left.
PausedIsQuiet ==
  \A s \in Sessions : Is(s, "paused") =>
    row[s].saved < MaxIter /\ \A p \in Pipes : AtWork(p) => Session(p) # s

UnbornIsNew == \A s \in Sessions : Is(s, "unborn") => row[s].saved = 0

\* Two pipelines at work are at work on two sessions.
OneEach ==
  \A p, q \in Pipes : AtWork(p) /\ AtWork(q) /\ Session(p) = Session(q) => p = q

\* Whose session a pipeline has: none before its start and after its end, a row
\* that exists everywhere between.
HasSession(p) ==
  /\ pipe[p].pc \in { "idle", "done" } => Session(p) = NoSession
  /\ pipe[p].pc \notin { "idle", "done", "report" } => Session(p) \in Sessions
  /\ Session(p) \in Sessions => ~Is(Session(p), "unborn")
  /\ pipe[p].pc \in { "loaded", "late" } => p \notin Fired
  /\ pipe[p].pc \in { "settle", "report" } => p \in Fired

\* A pipeline at work has the slot, unless its session was ended under it.
HasSlot(p) == AtWork(p) => Session(p) \in taken \/ Is(Session(p), "running")

\* What a pipeline works from is not older than the row.  A reply that was loaded
\* and not yet claimed has the row's snapshot while the session waits, and once
\* another reply took the session no pipeline at work on it may pause it again.
HasSnapshot(p) ==
  /\ AtWork(p) => pipe[p].iter >= row[Session(p)].saved
  /\ pipe[p].pc \in { "search", "gaps" } => pipe[p].iter < MaxIter
  /\ At(p, "loaded") =>
       /\ Is(Session(p), "paused") => pipe[p].iter = row[Session(p)].saved
       /\ \A q \in Pipes : AtWork(q) /\ Session(q) = Session(p) => ~pipe[q].pausing

\* A stopped run of the scheduler leaves a session nobody works on or can claim.
LeavesNobody(p) ==
  p \in Fired /\ pipe[p].pc \in { "closing", "settle" } =>
    ~Is(Session(p), "paused") /\ \A q \in Pipes : AtWork(q) => Session(q) # Session(p)

NoneWhileDown == ~up => \A p \in Pipes : ~AtWork(p)

\* The inductive invariant.
SlotInv ==
  /\ ResearchTypeOK
  /\ OneSlot /\ PausedIsQuiet /\ UnbornIsNew /\ OneEach /\ NoneWhileDown
  /\ \A p \in Pipes : HasSession(p) /\ HasSlot(p) /\ HasSnapshot(p) /\ LeavesNobody(p)

-----------------------------------------------------------------------------
(* What a step writes.                                                      *)

\* A row as the others see it.
SameRow(s) == row'[s].status = row[s].status /\ row'[s].saved = row[s].saved

LEMMA WriteIs ==
  ASSUME row \in [Sessions -> Row], NEW s \in Sessions, NEW v \in Status, Write(s, v)
  PROVE  /\ row' \in [Sessions -> Row]
         /\ \A t \in Sessions \ {s} : SameRow(t)
         /\ row'[s].saved = row[s].saved
         /\ row'[s].status = IF Is(s, "deleted") THEN "deleted" ELSE v
<1>1. CASE Is(s, "deleted")
  BY <1>1 DEF Write, SameRow, Is
<1>2. CASE ~Is(s, "deleted")
  <2>1. row' = [row EXCEPT ![s] = [row[s] EXCEPT !.status = v, !.silent = FALSE, !.expired = FALSE]]
    BY <1>2 DEF Write
  <2> QED
    BY <1>2, <2>1 DEF SameRow, Is, Row
<1> QED
  BY <1>1, <1>2

\* A pipeline that stops working, or goes on with its end; or never began.
Quits(q) ==
  \/ pipe'[q].pc \in { "idle", "done" } /\ pipe'[q].sess = NoSession
  \/ /\ pipe'[q].sess = pipe[q].sess
     /\ \/ pipe'[q].pc = "told" /\ AtWork(q)
        \/ pipe'[q].pc = "closing" /\ (AtWork(q) \/ (At(q, "told") /\ q \notin Fired))
        \/ pipe'[q].pc = "settle" /\ At(q, "closing") /\ q \in Fired
        \/ pipe'[q].pc = "report" /\ q \in Fired

\* A row that ends, on record unless no pipeline is at work on it.
RowEnds(t) ==
  /\ ~Is(t, "unborn")
  /\ row'[t].status \in Final \cup { "deleted" }
  /\ row'[t].saved \in { row[t].saved, 0 }
  /\ t \in taken' \/ \A q \in Pipes : AtWork(q)' => pipe'[q].sess # t

\* Ending pipelines and ending rows, in any combination, take nobody's slot.
LEMMA EndsKeep ==
  ASSUME SlotInv, ResearchTypeOK',
         \A q \in Pipes : pipe'[q] = pipe[q] \/ Quits(q),
         \A t \in Sessions : SameRow(t) \/ RowEnds(t),
         taken \subseteq taken',
         up' \/ \A q \in Pipes : ~(AtWork(q)')
  PROVE  SlotInv'
<1> USE DEF Is, At, AtWork, Session
<1>1. ResearchTypeOK
  BY DEF SlotInv
<1>2. ASSUME NEW q \in Pipes, AtWork(q)'
      PROVE  AtWork(q) /\ pipe'[q] = pipe[q]
  BY <1>2 DEF Quits
<1>3. ASSUME NEW t \in Sessions, row'[t].status \notin Final \cup { "deleted" }
      PROVE  SameRow(t)
  BY <1>3 DEF RowEnds
<1>4. OneSlot'
  BY <1>3 DEF SlotInv, OneSlot, SameRow, Final
<1>5. PausedIsQuiet'
  BY <1>2, <1>3 DEF SlotInv, PausedIsQuiet, SameRow, Final
<1>6. UnbornIsNew'
  BY <1>3 DEF SlotInv, UnbornIsNew, SameRow, Final
<1>7. OneEach'
  BY <1>2 DEF SlotInv, OneEach
<1>8. NoneWhileDown'
  BY DEF NoneWhileDown
<1>9. ASSUME NEW q \in Pipes
      PROVE  HasSession(q)' /\ HasSlot(q)' /\ HasSnapshot(q)' /\ LeavesNobody(q)'
  <2>1. HasSession(q) /\ HasSlot(q) /\ HasSnapshot(q) /\ LeavesNobody(q)
    BY DEF SlotInv
  <2>2. \A t \in Sessions : ~Is(t, "unborn") => row'[t].status # "unborn"
    BY <1>3 DEF SameRow, Final
  <2>3. HasSession(q)'
    <3>1. CASE pipe'[q] = pipe[q]
      BY <2>1, <2>2, <3>1 DEF HasSession
    <3>2. CASE Quits(q)
      BY <2>1, <2>2, <3>2, ResearchAssumption DEF HasSession, Quits
    <3> QED
      BY <3>1, <3>2
  <2>4. HasSlot(q)'
    BY <1>2, <2>1 DEF HasSlot, HasSession, SameRow, RowEnds
  <2>5. HasSnapshot(q)'
    <3>1. \A t \in Sessions : row'[t].saved <= row[t].saved
      BY <1>1 DEF ResearchTypeOK, Row, SameRow, RowEnds
    <3>2. CASE pipe'[q] = pipe[q]
      BY <1>1, <1>2, <1>3, <2>1, <3>1, <3>2, SMTT(20)
        DEF HasSnapshot, HasSession, SameRow, Final, ResearchTypeOK, Row, Pipe
    <3>3. CASE Quits(q)
      BY <3>3 DEF Quits, HasSnapshot
    <3> QED
      BY <3>2, <3>3
  <2>6. LeavesNobody(q)'
    <3>1. CASE AtWork(q)
      BY <1>2, <1>3, <2>1, <3>1 DEF SlotInv, PausedIsQuiet, OneEach, LeavesNobody, HasSession, Quits, SameRow, Final
    <3>2. CASE ~AtWork(q)
      BY <1>2, <1>3, <2>1, <3>2 DEF LeavesNobody, HasSession, Quits, SameRow, Final
    <3> QED
      BY <3>1, <3>2
  <2> QED
    BY <2>3, <2>4, <2>5, <2>6
<1> QED
  BY <1>4, <1>5, <1>6, <1>7, <1>8, <1>9 DEF SlotInv

-----------------------------------------------------------------------------
(* The steps that end something.                                            *)

LEMMA GoneIs ==
  /\ Idle \in Pipe /\ Idle.sess = NoSession /\ Idle.iter = 0
  /\ Gone \in Pipe /\ Gone.pc = "done" /\ Gone.sess = NoSession
<1>1. 0 \in 0 .. MaxIter
  BY ResearchAssumption
<1>2. Idle \in Pipe /\ Idle.sess = NoSession /\ Idle.iter = 0
  BY <1>1 DEF Idle, Pipe
<1>3. PICK x : x = Idle
  OBVIOUS
<1>4. Gone = [x EXCEPT !.pc = "done"] /\ x \in Pipe /\ x.sess = NoSession
  BY <1>2, <1>3 DEF Gone
<1>5. Gone \in Pipe /\ Gone.pc = "done" /\ Gone.sess = NoSession
  BY <1>4 DEF Pipe
<1> QED
  BY <1>2, <1>5

LEMMA FinishIs ==
  ASSUME pipe \in [Pipes -> Pipe], NEW p \in Pipes, Finish(p)
  PROVE  /\ pipe' \in [Pipes -> Pipe] /\ Quits(p)
         /\ \A q \in Pipes \ {p} : pipe'[q] = pipe[q]
         /\ ~(AtWork(p)')
  BY GoneIs DEF Finish, Quits, AtWork

LEMMA GotoIs ==
  ASSUME pipe \in [Pipes -> Pipe], NEW p \in Pipes, NEW l, Goto(p, l),
         l \in { "search", "summary", "told", "closing", "settle", "report" }
  PROVE  /\ pipe' \in [Pipes -> Pipe]
         /\ pipe'[p].pc = l /\ pipe'[p].sess = pipe[p].sess /\ pipe'[p].iter = pipe[p].iter
         /\ pipe'[p].pausing = pipe[p].pausing
         /\ \A q \in Pipes \ {p} : pipe'[q] = pipe[q]
<1>1. pipe' = [pipe EXCEPT ![p] = [pipe[p] EXCEPT !.pc = l]]
  BY DEF Goto
<1>2. pipe[p] \in Pipe
  OBVIOUS
<1>3. /\ [pipe[p] EXCEPT !.pc = l] \in Pipe
      /\ [pipe[p] EXCEPT !.pc = l].pc = l
      /\ [pipe[p] EXCEPT !.pc = l].sess = pipe[p].sess
      /\ [pipe[p] EXCEPT !.pc = l].iter = pipe[p].iter
      /\ [pipe[p] EXCEPT !.pc = l].pausing = pipe[p].pausing
  BY <1>2 DEF Pipe
<1> QED
  BY <1>1, <1>3

LEMMA ReturnIs ==
  ASSUME pipe \in [Pipes -> Pipe], NEW p \in Pipes, Return(p)
  PROVE  /\ pipe' \in [Pipes -> Pipe] /\ Quits(p)
         /\ \A q \in Pipes \ {p} : pipe'[q] = pipe[q]
         /\ ~(AtWork(p)')
<1>1. CASE p \in Fired
  BY <1>1, GotoIs DEF Return, Quits, AtWork
<1>2. CASE p \notin Fired
  BY <1>2, FinishIs DEF Return
<1> QED
  BY <1>1, <1>2

\* A row of a session some pipeline has, or that somebody ends on record.
LEMMA WriteEnds ==
  ASSUME SlotInv, NEW s \in Sessions, ~Is(s, "unborn"), NEW v \in Final, Write(s, v),
         s \in taken' \/ \A q \in Pipes : AtWork(q)' => pipe'[q].sess # s
  PROVE  /\ row' \in [Sessions -> Row]
         /\ \A t \in Sessions : SameRow(t) \/ RowEnds(t)
<1>1. row \in [Sessions -> Row] /\ v \in Status
  BY DEF SlotInv, ResearchTypeOK, Status
<1>2. /\ row' \in [Sessions -> Row] /\ \A t \in Sessions \ {s} : SameRow(t)
      /\ row'[s].saved = row[s].saved
      /\ row'[s].status = IF Is(s, "deleted") THEN "deleted" ELSE v
  BY <1>1, WriteIs
<1>3. RowEnds(s)
  BY <1>2 DEF RowEnds
<1> QED
  BY <1>2, <1>3

LEMMA TakeIs ==
  ASSUME ResearchTypeOK, NEW s \in Sessions, Take(s)
  PROVE  /\ taken \subseteq taken' /\ taken' \subseteq Sessions
         /\ s \in taken' \/ \A q \in Pipes : AtWork(q) => Session(q) # s
  BY DEF ResearchTypeOK, Take, WorkersOf

LEMMA UpsetIs ==
  ASSUME ResearchTypeOK, Upset
  PROVE  upsets' \in 0 .. MaxUpsets
  BY ResearchAssumption DEF ResearchTypeOK, Upset

\* A pipeline that ends, or is stopped.
LEMMA PipeEnds ==
  ASSUME SlotInv, NEW p \in Pipes,
         \/ (Start(p) /\ SlotTaken) \/ CancelExpired(p) \/ (Claim(p) /\ ~Claimable(Session(p)))
         \/ Complete(p) \/ Exhausted(p) \/ Raise(p) \/ Leave(p) \/ TimeOut(p)
         \/ Close(p) \/ Settle(p) \/ Report(p)
  PROVE  SlotInv'
<1>1. /\ ResearchTypeOK /\ row \in [Sessions -> Row] /\ pipe \in [Pipes -> Pipe]
      /\ HasSession(p) /\ LeavesNobody(p)
  BY DEF SlotInv, ResearchTypeOK
<1>2. ASSUME pipe' \in [Pipes -> Pipe], Quits(p), \A q \in Pipes \ {p} : pipe'[q] = pipe[q],
             row' \in [Sessions -> Row], \A t \in Sessions : SameRow(t) \/ RowEnds(t),
             lastStatus' \in [Fired -> { "none", "success", "failed", "cancelled", "timeout", "skipped" }],
             upsets' \in 0 .. MaxUpsets, up, up' = up,
             taken \subseteq taken', taken' \subseteq Sessions
      PROVE  SlotInv'
  <2>1. ResearchTypeOK'
    BY <1>1, <1>2 DEF ResearchTypeOK
  <2> QED
    BY <1>2, <2>1, EndsKeep
<1>3. ASSUME row' = row
      PROVE  row' \in [Sessions -> Row] /\ \A t \in Sessions : SameRow(t) \/ RowEnds(t)
  BY <1>1, <1>3 DEF SameRow
<1>4. ASSUME UNCHANGED <<lastStatus, up, upsets, taken>>, up
      PROVE  /\ lastStatus' \in [Fired -> { "none", "success", "failed", "cancelled", "timeout", "skipped" }]
             /\ upsets' \in 0 .. MaxUpsets /\ up' = up
             /\ taken \subseteq taken' /\ taken' \subseteq Sessions
  BY <1>1, <1>4 DEF ResearchTypeOK
<1>5. CASE Start(p) /\ SlotTaken
  BY <1>1, <1>2, <1>3, <1>4, <1>5, ReturnIs DEF Start
<1>6. CASE Claim(p) /\ ~Claimable(Session(p))
  BY <1>1, <1>2, <1>3, <1>4, <1>6, FinishIs DEF Claim
<1>7. CASE Exhausted(p)
  BY <1>1, <1>2, <1>3, <1>4, <1>7, ReturnIs DEF Exhausted
<1>8. CASE Leave(p) \/ TimeOut(p)
  <2>1. /\ pipe' \in [Pipes -> Pipe] /\ Quits(p) /\ \A q \in Pipes \ {p} : pipe'[q] = pipe[q]
    BY <1>1, <1>8 DEF Leave, TimeOut, Pipe, Quits
  <2> QED
    BY <1>2, <1>3, <1>4, <1>8, <2>1 DEF Leave, TimeOut
<1>9. CASE Complete(p)
  <2>1. AtWork(p) /\ Session(p) \in Sessions /\ ~Is(Session(p), "unborn") /\ up
    BY <1>1, <1>9 DEF Complete, At, AtWork, HasSession
  <2>2. /\ pipe' \in [Pipes -> Pipe] /\ Quits(p) /\ \A q \in Pipes \ {p} : pipe'[q] = pipe[q]
        /\ ~(AtWork(p)')
    BY <1>1, <1>9, <2>1, GotoIs DEF Complete, Quits, AtWork
  <2>3. \A q \in Pipes : AtWork(q)' => pipe'[q].sess # Session(p)
    BY <2>1, <2>2 DEF SlotInv, OneEach, AtWork, Session
  <2>4. PICK s \in Sessions : s = Session(p)
    BY <2>1
  <2>5. row' \in [Sessions -> Row] /\ \A t \in Sessions : SameRow(t) \/ RowEnds(t)
    BY <1>9, <2>1, <2>3, <2>4, WriteEnds DEF Complete, Final
  <2> QED
    BY <1>2, <1>4, <1>9, <2>1, <2>2, <2>5 DEF Complete
<1>10. CASE Raise(p)
  <2>1. AtWork(p) /\ Session(p) \in Sessions /\ ~Is(Session(p), "unborn") /\ up
    BY <1>1, <1>10 DEF Raise, AtWork, HasSession
  <2>2. /\ pipe' \in [Pipes -> Pipe] /\ Quits(p) /\ \A q \in Pipes \ {p} : pipe'[q] = pipe[q]
        /\ ~(AtWork(p)')
    BY <1>1, <1>10, ReturnIs DEF Raise
  <2>3. \A q \in Pipes : AtWork(q)' => pipe'[q].sess # Session(p)
    BY <2>1, <2>2 DEF SlotInv, OneEach, AtWork, Session
  <2>4. PICK s \in Sessions : s = Session(p)
    BY <2>1
  <2>5. row' \in [Sessions -> Row] /\ \A t \in Sessions : SameRow(t) \/ RowEnds(t)
    BY <1>3, <1>10, <2>1, <2>3, <2>4, WriteEnds DEF Raise, Final
  <2>6. /\ lastStatus' \in [Fired -> { "none", "success", "failed", "cancelled", "timeout", "skipped" }]
        /\ upsets' \in 0 .. MaxUpsets /\ up' = up
        /\ taken \subseteq taken' /\ taken' \subseteq Sessions
    BY <1>1, <1>10, UpsetIs DEF Raise, ResearchTypeOK
  <2> QED
    BY <1>2, <2>1, <2>2, <2>5, <2>6
<1>11. CASE CancelExpired(p)
  <2>1. PICK s \in Sessions : s = Session(p) /\ ~Is(s, "unborn")
    BY <1>1, <1>11 DEF CancelExpired, At, HasSession
  <2>2. /\ pipe' \in [Pipes -> Pipe] /\ Quits(p) /\ \A q \in Pipes \ {p} : pipe'[q] = pipe[q]
        /\ ~(AtWork(p)')
    BY <1>1, <1>11, FinishIs DEF CancelExpired
  <2>3. /\ taken \subseteq taken' /\ taken' \subseteq Sessions
        /\ s \in taken' \/ \A q \in Pipes : AtWork(q) => Session(q) # s
    BY <1>1, <1>11, <2>1, TakeIs DEF CancelExpired
  <2>4. row' \in [Sessions -> Row] /\ \A t \in Sessions : SameRow(t) \/ RowEnds(t)
    BY <1>11, <2>1, <2>2, <2>3, WriteEnds DEF CancelExpired, Final, AtWork, Session
  <2> QED
    BY <1>1, <1>2, <1>11, <2>2, <2>3, <2>4 DEF CancelExpired, ResearchTypeOK
<1>12. CASE Close(p)
  <2>1. PICK s \in Sessions : s = Session(p) /\ ~Is(s, "unborn")
    BY <1>1, <1>12 DEF Close, At, HasSession
  <2>2. /\ pipe' \in [Pipes -> Pipe] /\ Quits(p) /\ \A q \in Pipes \ {p} : pipe'[q] = pipe[q]
        /\ ~(AtWork(p)')
    <3>1. CASE p \in Fired
      BY <1>1, <1>12, <3>1, GotoIs DEF Close, Quits, AtWork
    <3>2. CASE p \notin Fired
      BY <1>1, <1>12, <3>2, FinishIs DEF Close
    <3> QED
      BY <3>1, <3>2
  <2>3. /\ taken \subseteq taken' /\ taken' \subseteq Sessions
        /\ s \in taken' \/ \A q \in Pipes : AtWork(q) => Session(q) # s
    BY <1>1, <1>12, <2>1, TakeIs DEF Close
  <2>4. /\ row' \in [Sessions -> Row] /\ \A t \in Sessions : SameRow(t) \/ RowEnds(t)
        /\ upsets' \in 0 .. MaxUpsets
    <3>1. CASE Write(s, "cancelled") /\ UNCHANGED upsets
      BY <1>1, <2>1, <2>2, <2>3, <3>1, WriteEnds DEF Final, AtWork, Session, ResearchTypeOK
    <3>2. CASE Upset /\ row' = row
      BY <1>1, <1>3, <3>2, UpsetIs
    <3> QED
      BY <1>12, <2>1, <3>1, <3>2 DEF Close, Finalized
  <2> QED
    BY <1>1, <1>2, <1>12, <2>2, <2>3, <2>4 DEF Close, ResearchTypeOK
<1>13. CASE Settle(p)
  <2>1. PICK s \in Sessions : s = Session(p) /\ ~Is(s, "unborn")
    BY <1>1, <1>13 DEF Settle, At, HasSession
  <2>0. p \in Fired /\ \A q \in Pipes : AtWork(q) => Session(q) # s
    BY <1>1, <1>13, <2>1 DEF Settle, At, HasSession, LeavesNobody
  <2>2. /\ pipe' \in [Pipes -> Pipe] /\ Quits(p) /\ \A q \in Pipes \ {p} : pipe'[q] = pipe[q]
        /\ ~(AtWork(p)')
    <3>1. CASE Goto(p, "report")
      BY <1>1, <1>13, <2>0, <3>1, GotoIs DEF Quits, AtWork
    <3>2. CASE Finish(p)
      BY <1>1, <3>2, FinishIs
    <3> QED
      BY <1>13, <3>1, <3>2 DEF Settle
  <2>4. /\ row' \in [Sessions -> Row] /\ \A t \in Sessions : SameRow(t) \/ RowEnds(t)
        /\ upsets' \in 0 .. MaxUpsets
    <3>1. CASE Write(s, "cancelled") /\ UNCHANGED upsets
      BY <1>1, <2>0, <2>1, <2>2, <3>1, WriteEnds DEF Final, AtWork, Session, ResearchTypeOK
    <3>2. CASE Upset /\ row' = row
      BY <1>1, <1>3, <3>2, UpsetIs
    <3>3. CASE UNCHANGED <<row, upsets>>
      BY <1>1, <1>3, <3>3 DEF ResearchTypeOK
    <3> QED
      BY <1>13, <2>1, <3>1, <3>2, <3>3 DEF Settle, Finalized
  <2> QED
    BY <1>1, <1>2, <1>13, <2>2, <2>4 DEF Settle, ResearchTypeOK
<1>14. CASE Report(p)
  <2>1. lastStatus' \in [Fired -> { "none", "success", "failed", "cancelled", "timeout", "skipped" }]
    <3>1. ResultOf(p) \in { "success", "failed", "cancelled", "timeout", "skipped" }
      BY DEF ResultOf
    <3> QED
      BY <1>1, <1>14, <3>1 DEF Report, ResearchTypeOK
  <2> QED
    BY <1>1, <1>2, <1>3, <1>14, <2>1, FinishIs DEF Report, ResearchTypeOK
<1> QED
  BY <1>5, <1>6, <1>7, <1>8, <1>9, <1>10, <1>11, <1>12, <1>13, <1>14

\* What ends a session without its pipelines, the crash and the start-up sweep.
LEMMA RowsEnd ==
  ASSUME SlotInv, (\E s \in Sessions : RowNext(s)) \/ Crash \/ Boot
  PROVE  SlotInv'
<1>1. ResearchTypeOK /\ row \in [Sessions -> Row] /\ pipe \in [Pipes -> Pipe]
  BY DEF SlotInv, ResearchTypeOK
<1>2. ASSUME UNCHANGED <<pipe, lastStatus, up>>, row' \in [Sessions -> Row],
             \A t \in Sessions : SameRow(t) \/ RowEnds(t),
             upsets' \in 0 .. MaxUpsets, up \/ up', taken \subseteq taken', taken' \subseteq Sessions
      PROVE  SlotInv'
  <2>1. ResearchTypeOK'
    BY <1>1, <1>2 DEF ResearchTypeOK
  <2> QED
    BY <1>2, <2>1, EndsKeep
<1>3. ASSUME NEW s \in Sessions, FallSilent(s) \/ Expire(s)
      PROVE  SlotInv'
  <2>1. row' \in [Sessions -> Row] /\ \A t \in Sessions : SameRow(t)
    <3>1. CASE FallSilent(s)
      BY <1>1, <3>1 DEF FallSilent, SameRow, Row
    <3>2. CASE Expire(s)
      BY <1>1, <3>2 DEF Expire, SameRow, Row
    <3> QED
      BY <1>3, <3>1, <3>2
  <2>2. ResearchTypeOK'
    BY <1>1, <1>3, <2>1 DEF FallSilent, Expire, ResearchTypeOK
  <2>3. up' \/ \A q \in Pipes : ~(AtWork(q)')
    BY <1>3 DEF SlotInv, NoneWhileDown, FallSilent, Expire, AtWork
  <2> QED
    BY <1>3, <2>1, <2>2, <2>3, EndsKeep DEF FallSilent, Expire
<1>4. ASSUME NEW s \in Sessions, ReapSilent(s)
      PROVE  SlotInv'
  <2>1. /\ taken \subseteq taken' /\ taken' \subseteq Sessions
        /\ s \in taken' \/ \A q \in Pipes : AtWork(q) => Session(q) # s
    BY <1>1, <1>4, TakeIs DEF ReapSilent
  <2>2. row' \in [Sessions -> Row] /\ \A t \in Sessions : SameRow(t) \/ RowEnds(t)
    BY <1>4, <2>1, WriteEnds DEF ReapSilent, Silent, Is, Final, AtWork, Session
  <2> QED
    BY <1>1, <1>2, <1>4, <2>1, <2>2 DEF ReapSilent, ResearchTypeOK
<1>5. ASSUME NEW s \in Sessions, ReapPaused(s)
      PROVE  SlotInv'
  <2>1. \A q \in Pipes : AtWork(q) => Session(q) # s
    BY <1>5 DEF SlotInv, PausedIsQuiet, ReapPaused
  <2>2. row' \in [Sessions -> Row] /\ \A t \in Sessions : SameRow(t) \/ RowEnds(t)
    BY <1>5, <2>1, WriteEnds DEF ReapPaused, Is, Final, AtWork, Session
  <2> QED
    BY <1>1, <1>2, <1>5, <2>1, <2>2 DEF ReapPaused, ResearchTypeOK
<1>6. ASSUME NEW s \in Sessions, Delete(s)
      PROVE  SlotInv'
  <2>1. /\ taken \subseteq taken' /\ taken' \subseteq Sessions
        /\ s \in taken' \/ \A q \in Pipes : AtWork(q) => Session(q) # s
    BY <1>1, <1>6, TakeIs DEF Delete
  <2>2. PICK x : x = [Unborn EXCEPT !.status = "deleted"]
    OBVIOUS
  <2>3. x \in Row /\ x.status = "deleted" /\ x.saved = 0
    <3>1. 0 \in 0 .. MaxIter
      BY ResearchAssumption
    <3>2. PICK y : y = Unborn
      OBVIOUS
    <3>3. y \in Row /\ y.saved = 0
      BY <3>1, <3>2 DEF Unborn, Row, Status
    <3>4. x = [y EXCEPT !.status = "deleted"]
      BY <2>2, <3>2
    <3> QED
      BY <3>3, <3>4 DEF Row, Status
  <2>4. row' = [row EXCEPT ![s] = x] /\ ~Is(s, "unborn")
    BY <1>6, <2>2 DEF Delete, Is
  <2>5. row' \in [Sessions -> Row] /\ \A t \in Sessions \ {s} : SameRow(t)
    BY <1>1, <2>3, <2>4 DEF SameRow
  <2>6. RowEnds(s)
    BY <1>1, <1>6, <2>1, <2>3, <2>4 DEF RowEnds, Delete, AtWork, Session
  <2> QED
    BY <1>1, <1>2, <1>6, <2>1, <2>5, <2>6, UpsetIs DEF Delete
<1>7. CASE Crash
  <2>1. /\ \A q \in Pipes : Quits(q) /\ ~(AtWork(q)')
        /\ pipe' \in [Pipes -> Pipe]
    BY <1>7, GoneIs DEF Crash, Quits, AtWork, Idle
  <2>2. ResearchTypeOK'
    BY <1>1, <1>7, <2>1, UpsetIs DEF Crash, ResearchTypeOK
  <2>3. \A t \in Sessions : SameRow(t)
    BY <1>7 DEF Crash, SameRow
  <2> QED
    BY <1>7, <2>1, <2>2, <2>3, EndsKeep DEF Crash
<1>8. CASE Boot
  <2>1. \A q \in Pipes : ~AtWork(q) /\ ~(AtWork(q)')
    BY <1>8 DEF SlotInv, NoneWhileDown, Boot, AtWork
  <2>2. row' \in [Sessions -> Row] /\ \A t \in Sessions : SameRow(t) \/ RowEnds(t)
    <3>1. CASE row' = row
      BY <1>1, <3>1 DEF SameRow
    <3>2. ASSUME NEW S \in SUBSET { s \in Sessions : Is(s, "running") },
                 row' = [s \in Sessions |->
                           IF s \in S THEN [row[s] EXCEPT !.status = "cancelled", !.silent = FALSE]
                           ELSE row[s]]
          PROVE  row' \in [Sessions -> Row] /\ \A t \in Sessions : SameRow(t) \/ RowEnds(t)
      <4>1. row' \in [Sessions -> Row]
        BY <1>1, <3>2 DEF Row, Status, Final
      <4>2. \A t \in Sessions \ S : SameRow(t)
        BY <3>2 DEF SameRow
      <4>3. \A t \in S : RowEnds(t)
        BY <1>1, <2>1, <3>2 DEF RowEnds, Is, Final, Row
      <4> QED
        BY <4>1, <4>2, <4>3
    <3> QED
      BY <1>8, <3>1, <3>2 DEF Boot
  <2>3. ResearchTypeOK'
    BY <1>1, <1>8, <2>2 DEF Boot, ResearchTypeOK
  <2> QED
    BY <1>8, <2>1, <2>2, <2>3, EndsKeep DEF Boot
<1> QED
  BY <1>3, <1>4, <1>5, <1>6, <1>7, <1>8 DEF RowNext

-----------------------------------------------------------------------------
(* The steps of a pipeline that takes a session, or goes on with its own.   *)

\* Pipeline p acts on session s, which is no other's: nobody else works on it, and
\* no stopped run of the scheduler is still to settle it.
Alone(p, s) ==
  \A q \in Pipes \ {p} :
    /\ AtWork(q) => Session(q) # s
    /\ q \in Fired /\ pipe[q].pc \in { "closing", "settle" } => Session(q) # s

\* The replies loaded for s find it as they read it, or taken for good.
LoadedStand(p, s) ==
  \A q \in Pipes \ {p} : At(q, "loaded") /\ Session(q) = s =>
    /\ row'[s].status = "paused" => SameRow(s)
    /\ AtWork(p)' => ~pipe'[p].pausing

LEMMA OneMoves ==
  ASSUME SlotInv, ResearchTypeOK', NEW p \in Pipes, NEW s \in Sessions, Alone(p, s), LoadedStand(p, s),
         \A q \in Pipes \ {p} : pipe'[q] = pipe[q],
         \A t \in Sessions \ {s} : SameRow(t),
         pipe'[p].sess = s, pipe'[p].pc \in { "loaded", "late", "search", "gaps", "summary", "told" },
         row'[s].status # "unborn",
         row'[s].status = "running" => Is(s, "running") \/ ~SlotTaken,
         row'[s].status = "paused" => row'[s].saved < MaxIter /\ ~(AtWork(p)'),
         HasSession(p)', HasSlot(p)',
         AtWork(p)' => pipe'[p].iter >= row'[s].saved,
         pipe'[p].pc \in { "search", "gaps" } => pipe'[p].iter < MaxIter,
         pipe'[p].pc = "loaded" => pipe'[p].iter = row'[s].saved,
         up, up' = up, taken' = taken
  PROVE  SlotInv'
<1> USE DEF Is, At, AtWork, Session
<1>1. \A q \in Pipes : HasSession(q) /\ HasSlot(q) /\ HasSnapshot(q) /\ LeavesNobody(q)
  BY DEF SlotInv
<1>2. OneSlot'
  BY DEF SlotInv, OneSlot, SlotTaken, SameRow
<1>3. PausedIsQuiet'
  BY DEF SlotInv, PausedIsQuiet, SameRow, Alone
<1>4. UnbornIsNew'
  BY DEF SlotInv, UnbornIsNew, SameRow
<1>5. OneEach'
  BY DEF SlotInv, OneEach, Alone
<1>6. NoneWhileDown'
  BY DEF NoneWhileDown
<1>7. ASSUME NEW q \in Pipes \ {p}
      PROVE  HasSession(q)' /\ HasSlot(q)' /\ HasSnapshot(q)' /\ LeavesNobody(q)'
  <2>1. pipe'[q] = pipe[q] /\ HasSession(q) /\ HasSlot(q) /\ HasSnapshot(q) /\ LeavesNobody(q)
    BY <1>1
  <2>2. HasSession(q)'
    BY <2>1 DEF HasSession, SameRow
  <2>3. HasSlot(q)'
    BY <2>1 DEF HasSlot, HasSession, SameRow, Alone
  <2>4. HasSnapshot(q)'
    <3>1. AtWork(q)' => pipe'[q].iter >= row'[Session(q)].saved
      BY <2>1 DEF HasSnapshot, HasSession, SameRow, Alone
    <3>2. ASSUME At(q, "loaded")
          PROVE  /\ row'[Session(q)].status = "paused" => pipe[q].iter = row'[Session(q)].saved
                 /\ \A o \in Pipes : AtWork(o)' /\ pipe'[o].sess = Session(q) => ~pipe'[o].pausing
      BY <1>1, <2>1, <3>2 DEF HasSnapshot, HasSession, SameRow, LoadedStand
    <3> QED
      BY <2>1, <3>1, <3>2 DEF HasSnapshot
  <2>5. LeavesNobody(q)'
    BY <2>1 DEF LeavesNobody, HasSession, SameRow, Alone
  <2> QED
    BY <2>2, <2>3, <2>4, <2>5
<1>8. HasSnapshot(p)'
  BY <1>7 DEF HasSnapshot, Alone
<1>9. LeavesNobody(p)'
  BY DEF LeavesNobody
<1> QED
  BY <1>2, <1>3, <1>4, <1>5, <1>6, <1>7, <1>8, <1>9 DEF SlotInv

\* A session that is unborn or waits for a reply is nobody's.
LEMMA FreeIsAlone ==
  ASSUME SlotInv, NEW p \in Pipes, NEW s \in Sessions, Is(s, "unborn") \/ Is(s, "paused")
  PROVE  Alone(p, s)
<1>1. CASE Is(s, "unborn")
  BY <1>1 DEF SlotInv, HasSession, Alone
<1>2. CASE Is(s, "paused")
  BY <1>2 DEF SlotInv, PausedIsQuiet, LeavesNobody, Alone
<1> QED
  BY <1>1, <1>2

\* So is, for the others, the session of a pipeline at work.
LEMMA WorkerIsAlone ==
  ASSUME SlotInv, NEW p \in Pipes, AtWork(p), NEW s \in Sessions, s = Session(p)
  PROVE  /\ Alone(p, s) /\ ~Is(s, "paused") /\ ~Is(s, "unborn")
         /\ \A q \in Pipes : At(q, "loaded") /\ Session(q) = s => ~pipe[p].pausing
<1>1. Alone(p, s)
  BY DEF SlotInv, OneEach, LeavesNobody, Alone
<1> QED
  BY <1>1 DEF SlotInv, PausedIsQuiet, HasSession, HasSnapshot

LEMMA StartKeeps ==
  ASSUME SlotInv, NEW p \in Pipes, Start(p), ~SlotTaken
  PROVE  SlotInv'
<1>1. ResearchTypeOK /\ row \in [Sessions -> Row] /\ pipe \in [Pipes -> Pipe]
  BY DEF SlotInv, ResearchTypeOK
<1>2. PICK s \in Sessions : s = (CHOOSE t \in Unused : TRUE) /\ Is(s, "unborn")
  BY DEF Start, Unused
<1>3. PICK x : x = [Idle EXCEPT !.pc = "search", !.sess = s, !.pausing = TRUE]
  OBVIOUS
<1>4. /\ x \in Pipe /\ x.pc = "search" /\ x.sess = s /\ x.iter = 0
  <2>1. PICK y : y = Idle
    OBVIOUS
  <2>2. y \in Pipe /\ y.iter = 0
    BY <2>1, GoneIs
  <2>3. x = [y EXCEPT !.pc = "search", !.sess = s, !.pausing = TRUE]
    BY <1>3, <2>1
  <2> QED
    BY <2>2, <2>3 DEF Pipe
<1>5. /\ up /\ up' = up /\ taken' = taken /\ lastStatus' = lastStatus /\ upsets' = upsets
      /\ row' = [row EXCEPT ![s].status = "running"]
      /\ pipe' = [pipe EXCEPT ![p] = x]
  BY <1>2, <1>3 DEF Start
<1>6. /\ row' \in [Sessions -> Row] /\ \A t \in Sessions \ {s} : SameRow(t)
      /\ row'[s].status = "running" /\ row'[s].saved = 0
  <2>1. row' = [row EXCEPT ![s] = [row[s] EXCEPT !.status = "running"]]
    BY <1>5
  <2>2. row[s].saved = 0
    BY <1>2 DEF SlotInv, UnbornIsNew
  <2> QED
    BY <1>1, <2>1, <2>2 DEF SameRow, Row, Status
<1>7. /\ pipe' \in [Pipes -> Pipe] /\ pipe'[p] = x /\ \A q \in Pipes \ {p} : pipe'[q] = pipe[q]
  BY <1>1, <1>4, <1>5
<1>8. ResearchTypeOK'
  BY <1>1, <1>5, <1>6, <1>7 DEF ResearchTypeOK
<1>9. HasSession(p)' /\ HasSlot(p)'
  BY <1>4, <1>6, <1>7 DEF HasSession, HasSlot, Session, Is, AtWork
<1>10. LoadedStand(p, s) /\ Alone(p, s)
  BY <1>2, FreeIsAlone DEF SlotInv, HasSession, LoadedStand, At
<1>11. 0 < MaxIter
  BY ResearchAssumption
<1> QED
  BY <1>4, <1>5, <1>6, <1>7, <1>8, <1>9, <1>10, <1>11, OneMoves

LEMMA LoadKeeps ==
  ASSUME SlotInv, NEW p \in Pipes, NEW s \in Sessions, Load(p, s)
  PROVE  SlotInv'
<1>1. ResearchTypeOK /\ row \in [Sessions -> Row] /\ pipe \in [Pipes -> Pipe]
  BY DEF SlotInv, ResearchTypeOK
<1>2. PICK x : x = [Idle EXCEPT !.pc = IF row[s].expired THEN "late" ELSE "loaded",
                                !.sess = s, !.iter = Rehydrated(s)]
  OBVIOUS
<1>3. /\ x \in Pipe /\ x.pc \in {"late", "loaded"} /\ x.sess = s /\ x.iter = row[s].saved
  <2>1. PICK y, l : y = Idle /\ l = IF row[s].expired THEN "late" ELSE "loaded"
    OBVIOUS
  <2>2. y \in Pipe /\ l \in {"late", "loaded"}
    BY <2>1, GoneIs
  <2>3. row[s].saved \in 0 .. MaxIter
    BY <1>1 DEF Row
  <2>4. x = [y EXCEPT !.pc = l, !.sess = s, !.iter = row[s].saved]
    BY <1>2, <2>1 DEF Rehydrated
  <2> QED
    BY <2>2, <2>3, <2>4 DEF Pipe
<1>4. /\ up /\ up' = up /\ taken' = taken /\ lastStatus' = lastStatus /\ upsets' = upsets
      /\ row' = row /\ pipe' = [pipe EXCEPT ![p] = x] /\ p \notin Fired /\ Is(s, "paused")
  BY <1>2 DEF Load
<1>5. /\ pipe' \in [Pipes -> Pipe] /\ pipe'[p] = x /\ \A q \in Pipes \ {p} : pipe'[q] = pipe[q]
  BY <1>1, <1>3, <1>4
<1>6. ResearchTypeOK'
  BY <1>1, <1>4, <1>5 DEF ResearchTypeOK
<1>7. HasSession(p)' /\ HasSlot(p)' /\ ~(AtWork(p)')
  BY <1>3, <1>4, <1>5 DEF HasSession, HasSlot, Session, Is, AtWork
<1>8. LoadedStand(p, s) /\ Alone(p, s) /\ \A t \in Sessions : SameRow(t)
  BY <1>4, <1>7, FreeIsAlone DEF LoadedStand, SameRow
<1>9. row[s].saved < MaxIter /\ row[s].status = "paused"
  BY <1>4 DEF SlotInv, PausedIsQuiet, Is
<1> QED
  BY <1>3, <1>4, <1>5, <1>6, <1>7, <1>8, <1>9, OneMoves DEF Is

LEMMA ClaimKeeps ==
  ASSUME SlotInv, NEW p \in Pipes, Claim(p), Claimable(Session(p))
  PROVE  SlotInv'
<1>1. ResearchTypeOK /\ row \in [Sessions -> Row] /\ pipe \in [Pipes -> Pipe]
      /\ HasSession(p) /\ HasSnapshot(p) /\ At(p, "loaded")
  BY DEF SlotInv, ResearchTypeOK, Claim
<1>2. PICK s \in Sessions : s = Session(p)
  BY <1>1 DEF At, HasSession
<1>3. Is(s, "paused") /\ ~SlotTaken /\ Write(s, "running")
  BY <1>2 DEF Claimable, Claim
<1>4. PICK x : x = [pipe[p] EXCEPT !.pc = "search", !.pausing = FALSE]
  OBVIOUS
<1>5. x \in Pipe /\ x.pc = "search" /\ x.pausing = FALSE /\ x.sess = s /\ x.iter = pipe[p].iter
  BY <1>1, <1>2, <1>4 DEF Pipe, Session
<1>6. /\ up /\ up' = up /\ taken' = taken /\ lastStatus' = lastStatus /\ upsets' = upsets
      /\ pipe' = [pipe EXCEPT ![p].pc = "search", ![p].pausing = FALSE]
  BY DEF Claim
<1>7. /\ pipe' \in [Pipes -> Pipe] /\ pipe'[p] = x /\ \A q \in Pipes \ {p} : pipe'[q] = pipe[q]
  BY <1>1, <1>4, <1>5, <1>6 DEF Pipe
<1>8. /\ row' \in [Sessions -> Row] /\ \A t \in Sessions \ {s} : SameRow(t)
      /\ row'[s].status = "running" /\ row'[s].saved = row[s].saved
  BY <1>1, <1>3, WriteIs DEF Is, Status
<1>9. ResearchTypeOK'
  BY <1>1, <1>6, <1>7, <1>8 DEF ResearchTypeOK
<1>10. HasSession(p)' /\ HasSlot(p)'
  BY <1>5, <1>7, <1>8 DEF HasSession, HasSlot, Session, Is, AtWork
<1>11. LoadedStand(p, s) /\ Alone(p, s)
  BY <1>3, <1>5, <1>7, <1>8, FreeIsAlone DEF LoadedStand
<1>12. pipe[p].iter = row[s].saved /\ row[s].saved < MaxIter /\ row[s].saved \in Nat
  BY <1>1, <1>2, <1>3, ResearchAssumption DEF SlotInv, PausedIsQuiet, HasSnapshot, Row
<1>13. /\ pipe'[p].sess = s /\ pipe'[p].pc = "search"
       /\ pipe'[p].iter >= row'[s].saved /\ pipe'[p].iter < MaxIter
  BY <1>5, <1>7, <1>8, <1>12
<1> QED
  BY <1>3, <1>6, <1>7, <1>8, <1>9, <1>10, <1>11, <1>13, OneMoves

\* An iteration, the gap analysis, the pause.
LEMMA WorkKeeps ==
  ASSUME SlotInv, NEW p \in Pipes, Iterate(p) \/ Continue(p) \/ Pause(p)
  PROVE  SlotInv'
<1>1. /\ ResearchTypeOK /\ row \in [Sessions -> Row] /\ pipe \in [Pipes -> Pipe]
      /\ HasSession(p) /\ HasSlot(p) /\ HasSnapshot(p) /\ AtWork(p)
  BY DEF SlotInv, ResearchTypeOK, Iterate, Continue, Pause, At, AtWork
<1>2. PICK s \in Sessions : s = Session(p)
  BY <1>1 DEF AtWork, HasSession
<1>3. /\ Alone(p, s) /\ ~Is(s, "paused") /\ ~Is(s, "unborn")
      /\ \A q \in Pipes : At(q, "loaded") /\ Session(q) = s => ~pipe[p].pausing
  BY <1>1, <1>2, WorkerIsAlone
<1>4. /\ pipe[p].iter \in Nat /\ row[s].saved \in Nat /\ pipe[p].iter >= row[s].saved
      /\ pipe[p].iter < MaxIter /\ MaxIter \in Nat
  BY <1>1, <1>2, ResearchAssumption DEF HasSnapshot, Row, Pipe, Iterate, Continue, Pause, At
<1>5. /\ up /\ up' = up /\ taken' = taken /\ lastStatus' = lastStatus /\ upsets' = upsets
  BY DEF Iterate, Continue, Pause
<1>6. CASE Iterate(p)
  <2>0. CASE Goto(p, "summary") /\ UNCHANGED row
    <3>1. /\ pipe' \in [Pipes -> Pipe] /\ \A q \in Pipes \ {p} : pipe'[q] = pipe[q]
          /\ pipe'[p].pc = "summary" /\ pipe'[p].iter = pipe[p].iter /\ pipe'[p].sess = s
          /\ pipe'[p].pausing = pipe[p].pausing
      BY <1>1, <1>2, <2>0, GotoIs DEF Session
    <3>2. /\ row' \in [Sessions -> Row] /\ \A t \in Sessions : SameRow(t)
      BY <1>1, <2>0 DEF SameRow
    <3>3. ResearchTypeOK'
      BY <1>1, <1>5, <3>1, <3>2 DEF ResearchTypeOK
    <3>4. HasSession(p)' /\ HasSlot(p)'
      BY <1>1, <1>2, <1>3, <1>5, <3>1, <3>2 DEF HasSession, HasSlot, Session, Is, AtWork, SameRow
    <3>5. LoadedStand(p, s)
      BY <1>3, <3>1, <3>2 DEF LoadedStand, Is, SameRow
    <3> QED
      BY <1>3, <1>4, <1>5, <3>1, <3>2, <3>3, <3>4, <3>5, OneMoves DEF Is, SameRow
  <2> SUFFICES ASSUME ~(Goto(p, "summary") /\ UNCHANGED row)
               PROVE  SlotInv'
    BY <2>0
  <2>1. PICK n, l : /\ n = pipe[p].iter + 1
                    /\ l = IF LoopOver(n) THEN "summary" ELSE "gaps"
    OBVIOUS
  <2>2. n \in 0 .. MaxIter /\ l \in {"summary", "gaps"} /\ (l = "gaps" => n < MaxIter)
    BY <1>4, <2>1 DEF LoopOver
  <2>3. /\ pipe' = [pipe EXCEPT ![p].iter = n, ![p].pc = l]
        /\ row' = IF Is(s, "deleted") THEN row ELSE [row EXCEPT ![s].saved = n, ![s].silent = FALSE]
    BY <1>2, <1>6, <2>1 DEF Iterate, Progress
  <2>4. /\ pipe' \in [Pipes -> Pipe] /\ \A q \in Pipes \ {p} : pipe'[q] = pipe[q]
        /\ pipe'[p].pc = l /\ pipe'[p].iter = n /\ pipe'[p].sess = s
        /\ pipe'[p].pausing = pipe[p].pausing
    BY <1>1, <1>2, <2>2, <2>3 DEF Pipe, Session
  <2>5. /\ row' \in [Sessions -> Row] /\ \A t \in Sessions \ {s} : SameRow(t)
        /\ row'[s].status = row[s].status /\ row'[s].saved \in {row[s].saved, n}
    BY <1>1, <2>2, <2>3 DEF SameRow, Row
  <2>6. ResearchTypeOK'
    BY <1>1, <1>5, <2>4, <2>5 DEF ResearchTypeOK
  <2>7. HasSession(p)' /\ HasSlot(p)'
    BY <1>1, <1>2, <1>3, <1>5, <2>2, <2>4, <2>5 DEF HasSession, HasSlot, Session, Is, AtWork
  <2>8. LoadedStand(p, s)
    BY <1>3, <2>4, <2>5 DEF LoadedStand, Is
  <2> QED
    BY <1>3, <1>4, <1>5, <2>1, <2>2, <2>4, <2>5, <2>6, <2>7, <2>8, OneMoves DEF Is
<1>7. CASE Continue(p)
  <2>1. PICK l \in {"search", "summary"} : Goto(p, l)
    BY <1>7 DEF Continue
  <2>2. /\ pipe' \in [Pipes -> Pipe] /\ \A q \in Pipes \ {p} : pipe'[q] = pipe[q]
        /\ pipe'[p].pc = l /\ pipe'[p].iter = pipe[p].iter /\ pipe'[p].sess = s
        /\ pipe'[p].pausing = pipe[p].pausing
    BY <1>1, <1>2, <2>1, GotoIs DEF Session
  <2>3. /\ row' \in [Sessions -> Row] /\ \A t \in Sessions : SameRow(t)
    BY <1>1, <1>2, <1>7 DEF Continue, SameRow, Row
  <2>4. ResearchTypeOK'
    BY <1>1, <1>5, <2>2, <2>3 DEF ResearchTypeOK
  <2>5. HasSession(p)' /\ HasSlot(p)'
    BY <1>1, <1>2, <1>3, <1>5, <2>1, <2>2, <2>3 DEF HasSession, HasSlot, Session, Is, AtWork, SameRow
  <2>6. LoadedStand(p, s)
    BY <1>3, <2>2, <2>3 DEF LoadedStand, Is, SameRow
  <2> QED
    BY <1>3, <1>4, <1>5, <2>1, <2>2, <2>3, <2>4, <2>5, <2>6, OneMoves DEF Is, SameRow
<1>8. CASE Pause(p)
  <2>1. PICK x : x = [status |-> "paused", saved |-> pipe[p].iter, silent |-> FALSE, expired |-> FALSE]
    OBVIOUS
  <2>2. x \in Row /\ x.status = "paused" /\ x.saved = pipe[p].iter
    <3>1. pipe[p].iter \in 0 .. MaxIter
      BY <1>4
    <3> QED
      BY <2>1, <3>1 DEF Row, Status
  <2>3. Goto(p, "told") /\ row' = (IF Is(s, "deleted") THEN row ELSE [row EXCEPT ![s] = x])
        /\ pipe[p].pausing
    BY <1>2, <1>8, <2>1 DEF Pause
  <2>4. /\ pipe' \in [Pipes -> Pipe] /\ \A q \in Pipes \ {p} : pipe'[q] = pipe[q]
        /\ pipe'[p].pc = "told" /\ pipe'[p].sess = s
    BY <1>1, <1>2, <2>3, GotoIs DEF Session
  <2>5. /\ row' \in [Sessions -> Row] /\ \A t \in Sessions \ {s} : SameRow(t)
        /\ row'[s].status \in {"deleted", "paused"}
        /\ row'[s].status = "paused" => row'[s].saved < MaxIter
    BY <1>1, <1>4, <2>2, <2>3 DEF SameRow, Is
  <2>6. ResearchTypeOK'
    BY <1>1, <1>5, <2>4, <2>5 DEF ResearchTypeOK
  <2>7. HasSession(p)' /\ HasSlot(p)' /\ ~(AtWork(p)')
    BY <2>4, <2>5 DEF HasSession, HasSlot, Session, Is, AtWork
  <2>8. LoadedStand(p, s)
    BY <1>3, <2>3 DEF LoadedStand
  <2> QED
    BY <1>3, <1>5, <2>4, <2>5, <2>6, <2>7, <2>8, OneMoves
<1> QED
  BY <1>6, <1>7, <1>8

-----------------------------------------------------------------------------
(* What the runs check, for every value of the constants.                   *)

LEMMA SlotInit == ResearchInit => SlotInv
<1> SUFFICES ASSUME ResearchInit PROVE SlotInv
  OBVIOUS
<1>1. \A p \in Pipes : pipe[p] = Idle /\ pipe[p].pc = "idle" /\ pipe[p].sess = NoSession
  BY DEF ResearchInit, Idle
<1>2. \A s \in Sessions : row[s] = Unborn /\ row[s].status = "unborn" /\ row[s].saved = 0
  BY DEF ResearchInit, Unborn
<1>3. ResearchTypeOK
  <2>1. Unborn \in Row
    <3>1. 0 \in 0 .. MaxIter
      BY ResearchAssumption
    <3> QED
      BY <3>1 DEF Unborn, Row, Status
  <2> QED
    BY <2>1, GoneIs, ResearchAssumption DEF ResearchInit, ResearchTypeOK
<1>4. \A p \in Pipes : HasSession(p) /\ HasSlot(p) /\ HasSnapshot(p) /\ LeavesNobody(p)
  BY <1>1, ResearchAssumption DEF HasSession, HasSlot, HasSnapshot, LeavesNobody, AtWork, Session, At
<1> QED
  BY <1>1, <1>2, <1>3, <1>4
    DEF SlotInv, OneSlot, PausedIsQuiet, UnbornIsNew, OneEach, NoneWhileDown, AtWork, Is

LEMMA SlotNext ==
  ASSUME SlotInv, [ResearchNext]_researchVars
  PROVE  SlotInv'
<1>1. CASE researchVars' = researchVars
  <2>1. /\ \A q \in Pipes : pipe'[q] = pipe[q]
        /\ \A t \in Sessions : SameRow(t)
        /\ taken \subseteq taken' /\ up' = up /\ ResearchTypeOK'
    BY <1>1 DEF researchVars, SameRow, SlotInv, ResearchTypeOK
  <2>2. up' \/ \A q \in Pipes : ~(AtWork(q)')
    BY <2>1 DEF SlotInv, NoneWhileDown, AtWork
  <2> QED
    BY <2>1, <2>2, EndsKeep
<1>2. ASSUME NEW p \in Pipes, PipeNext(p)
      PROVE  SlotInv'
  <2>1. CASE Start(p)
    BY <2>1, StartKeeps, PipeEnds
  <2>2. CASE Claim(p)
    BY <2>2, ClaimKeeps, PipeEnds
  <2>3. CASE (\E s \in Sessions : Load(p, s)) \/ Iterate(p) \/ Continue(p) \/ Pause(p)
    BY <2>3, LoadKeeps, WorkKeeps
  <2>4. CASE \/ CancelExpired(p) \/ Complete(p) \/ Exhausted(p) \/ Raise(p) \/ Leave(p)
             \/ TimeOut(p) \/ Close(p) \/ Settle(p) \/ Report(p)
    BY <2>4, PipeEnds
  <2> QED
    BY <1>2, <2>1, <2>2, <2>3, <2>4 DEF PipeNext
<1> QED
  BY <1>1, <1>2, RowsEnd DEF ResearchNext

\* The inductive invariant of the sessions.
THEOREM SlotSafety == ResearchSpec => []SlotInv
<1>1. SlotInv /\ [ResearchNext]_researchVars => SlotInv'
  BY SlotNext
<1> QED
  BY SlotInit, <1>1, PTL DEF ResearchSpec

\* Types, and at most one pipeline at work on a session: two replies, a late write
\* and a reaped row never let a second one in.
THEOREM SessionsHaveOneWorker == ResearchSpec => []ResearchInv
<1>1. SlotInv => ResearchInv
  <2> SUFFICES ASSUME SlotInv, NEW s \in Sessions
               PROVE  ResearchTypeOK /\ Cardinality(WorkersOf(s)) <= 1
    BY DEF ResearchInv, OneWorkerEach, SlotInv
  <2>1. CASE WorkersOf(s) = {}
    BY <2>1, FS_EmptySet DEF SlotInv
  <2>2. CASE WorkersOf(s) # {}
    <3>1. PICK p : p \in WorkersOf(s)
      BY <2>2
    <3>2. WorkersOf(s) = {p}
      BY <3>1 DEF WorkersOf, SlotInv, OneEach
    <3> QED
      BY <3>2, FS_Singleton DEF SlotInv
  <2> QED
    BY <2>1, <2>2
<1> QED
  BY SlotSafety, <1>1, PTL

\* One pipeline works at a time, over all sessions, but for those whose session
\* somebody ended.
THEOREM OneWorksAtATime == ResearchSpec => []OneAtWork
<1>1. SlotInv => OneAtWork
  BY DEF SlotInv, HasSlot, HasSession, AtWork, OneSlot, OneEach, OneAtWork
<1> QED
  BY SlotSafety, <1>1, PTL

\* No pipeline works from a snapshot older than its row.
THEOREM SnapshotsAreFresh == ResearchSpec => []FreshSnapshot
<1>1. SlotInv => FreshSnapshot
  BY DEF SlotInv, HasSnapshot, FreshSnapshot
<1> QED
  BY SlotSafety, <1>1, PTL
=============================================================================
