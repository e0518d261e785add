------------------------------ MODULE Research ------------------------------
(***************************************************************************)
(* Research sessions: the pipelines that work on them (an operator's       *)
(* stream, a resumed stream, a run fired by the scheduler), the one slot   *)
(* they share, the clarifying pause, and those who end a session from      *)
(* outside: the reaper, the start-up sweep, the scheduler's timeout, a     *)
(* client that leaves (app/modules/research_agent.py, research_state.py,   *)
(* cleanup.py, app/scheduler.py, app/main.py).                             *)
(***************************************************************************)
EXTENDS Naturals, FiniteSets

CONSTANTS Sessions,     \* session ids
          Pipes,        \* pipelines: one call of run_research or resume_research each
          Fired,        \* the pipelines _execute_research_job consumes
          MaxIter,      \* ResearchState.max_iterations
          MaxUpsets,    \* bound: crashes, deletes, exceptions and writes that fail
          NoSession

ASSUME ResearchAssumption ==
  /\ Fired \subseteq Pipes
  /\ MaxIter \in Nat \ {0}
  /\ MaxUpsets \in Nat
  /\ NoSession \notin Sessions

VARIABLES
  row,         \* research_sessions: status ("unborn" before the insert,
               \* "deleted" after the delete), saved (iterations_completed and its snapshot), silent
               \* (last_activity_at is past the reaper's threshold), expired
               \* (pause_expires_at is past)
  pipe,        \* where a pipeline stands (pc), its session, its state.iteration, its
               \* allow_pause, and what stopped it from outside
  lastStatus,  \* scheduled_jobs.last_status, as the fired pipeline leaves it
  up,          \* the process serves
  upsets,     \* upsets left
  taken        \* history: sessions ended while a pipeline was at work on them

researchVars == <<row, pipe, lastStatus, up, upsets, taken>>

Final  == { "completed", "failed", "cancelled" }
Status == Final \cup { "unborn", "running", "paused", "deleted" }

Row  == [status : Status, saved : 0 .. MaxIter, silent : BOOLEAN, expired : BOOLEAN]
Pipe == [pc : { "idle", "loaded", "late", "search", "gaps", "summary", "told",
                "closing", "settle", "report", "done" },
         sess : Sessions \cup {NoSession}, iter : 0 .. MaxIter,
         pausing : BOOLEAN, stop : { "none", "left", "timeout" }]

Unborn == [status |-> "unborn", saved |-> 0, silent |-> FALSE, expired |-> FALSE]
Idle   == [pc |-> "idle", sess |-> NoSession, iter |-> 0, pausing |-> FALSE, stop |-> "none"]

At(p, l)    == pipe[p].pc = l
Session(p)  == pipe[p].sess
Is(s, v)    == row[s].status = v

\* An iteration, the gap analysis after it, the summary: the pipeline computes.
AtWork(p) == pipe[p].pc \in { "search", "gaps", "summary" }

Upset == upsets > 0 /\ upsets' = upsets - 1

WorkersOf(s) == { p \in Pipes : AtWork(p) /\ Session(p) = s }

SlotTaken == \E s \in Sessions : Is(s, "running")

\* Ids are generated: any of these is as good as another.
Unused == { s \in Sessions : Is(s, "unborn") }

ResearchInit ==
  /\ row = [s \in Sessions |-> Unborn]
  /\ pipe = [p \in Pipes |-> Idle]
  /\ lastStatus = [p \in Fired |-> "none"]
  /\ up = TRUE
  /\ upsets = MaxUpsets
  /\ taken = {}

Goto(p, l) == pipe' = [pipe EXCEPT ![p].pc = l]

\* The generator is gone, and its local state with it.
Gone == [Idle EXCEPT !.pc = "done"]
Finish(p) == pipe' = [pipe EXCEPT ![p] = Gone]

\* A stream that ran out: a fired pipeline has its result to write.
Return(p) == IF p \in Fired THEN Goto(p, "report") ELSE Finish(p)

\* UPDATE ... WHERE id = :sid, with no word about the status: only a deleted row
\* escapes.  The silence and the expiry mean nothing in the status it moves to.
Write(s, v) ==
  IF Is(s, "deleted") THEN UNCHANGED row
  ELSE row' = [row EXCEPT ![s] = [@ EXCEPT !.status = v, !.silent = FALSE, !.expired = FALSE]]

\* Somebody else than the pipelines at work on s ends it.
Take(s) == taken' = IF WorkersOf(s) = {} THEN taken ELSE taken \cup {s}

-----------------------------------------------------------------------------
(* Opening a session.                                                       *)

\* _guard_and_create_session: the unique index lets one running row in.
Start(p) ==
  /\ up /\ At(p, "idle")
  /\ IF SlotTaken
       THEN Return(p) /\ UNCHANGED row
       ELSE LET s == CHOOSE s \in Unused : TRUE IN
              /\ Unused # {}
              /\ row' = [row EXCEPT ![s].status = "running"]
              /\ pipe' = [pipe EXCEPT ![p] =
                            [Idle EXCEPT !.pc = "search", !.sess = s, !.pausing = TRUE]]
  /\ UNCHANGED <<lastStatus, up, upsets, taken>>

\* _rehydrate_state.
Rehydrated_FromScratch(s) == 0
Rehydrated(s) == row[s].saved

\* resume_research reads the row, then acts on what it read.
Load(p, s) ==
  /\ up /\ At(p, "idle") /\ p \notin Fired
  /\ Is(s, "paused")
  /\ pipe' = [pipe EXCEPT ![p] =
                [Idle EXCEPT !.pc = IF row[s].expired THEN "late" ELSE "loaded",
                             !.sess = s, !.iter = Rehydrated(s)]]
  /\ UNCHANGED <<row, lastStatus, up, upsets, taken>>

\* The row read had expired: the session is cancelled, whatever it is by now.
CancelExpired(p) ==
  /\ up /\ At(p, "late")
  /\ Write(Session(p), "cancelled")
  /\ Take(Session(p))
  /\ Finish(p)
  /\ UNCHANGED <<lastStatus, up, upsets>>

Claimable_AnyStatus(s) == ~SlotTaken \/ Is(s, "running")
Claimable(s) == Is(s, "paused") /\ ~SlotTaken

\* _atomic_claim_for_resume, and a flow that may not pause again; a lost claim and a taken slot both answer 409.
Claim(p) ==
  /\ up /\ At(p, "loaded")
  /\ IF Claimable(Session(p))
       THEN /\ Write(Session(p), "running")
            /\ pipe' = [pipe EXCEPT ![p].pc = "search", ![p].pausing = FALSE]
       ELSE Finish(p) /\ UNCHANGED row
  /\ UNCHANGED <<lastStatus, up, upsets, taken>>

-----------------------------------------------------------------------------
(* A pipeline at work: _execute_iteration_loop and the summary after it.    *)

\* The columns a pipeline at work writes without a status; any row left takes them.
Progress(s, n) ==
  row' = IF Is(s, "deleted") THEN row ELSE [row EXCEPT ![s].saved = n, ![s].silent = FALSE]

LoopOver(n) == n >= MaxIter

\* One iteration, up to _update_session_iteration; or the search found nothing
\* ("no_results"): the loop is left, and this iteration is not saved.
Iterate(p) ==
  /\ up /\ At(p, "search")
  /\ \/ LET n == pipe[p].iter + 1
        IN /\ Progress(Session(p), n)
           /\ pipe' = [pipe EXCEPT ![p].iter = n,
                                   ![p].pc = IF LoopOver(n) THEN "summary" ELSE "gaps"]
     \/ Goto(p, "summary") /\ UNCHANGED row
  /\ UNCHANGED <<lastStatus, up, upsets, taken>>

\* The gap analysis returned: another iteration, or the loop converged.
Continue(p) ==
  /\ up /\ At(p, "gaps")
  /\ row' = [row EXCEPT ![Session(p)].silent = FALSE]
  /\ \E l \in { "search", "summary" } : Goto(p, l)
  /\ UNCHANGED <<lastStatus, up, upsets, taken>>

\* The gap analysis asks the user: _pause_session, and the awaiting_reply frame.
Pause(p) ==
  /\ up /\ At(p, "gaps") /\ pipe[p].pausing
  /\ LET s == Session(p) IN
       row' = IF Is(s, "deleted") THEN row
              ELSE [row EXCEPT ![s] = [status |-> "paused", saved |-> pipe[p].iter,
                                       silent |-> FALSE, expired |-> FALSE]]
  /\ Goto(p, "told")
  /\ UNCHANGED <<lastStatus, up, upsets, taken>>

\* The summary is in, or it failed: _finalize_session, and the research_complete
\* frame.
Complete(p) ==
  /\ up /\ At(p, "summary")
  /\ Write(Session(p), "completed")
  /\ Goto(p, "told")
  /\ UNCHANGED <<lastStatus, up, upsets, taken>>

\* The reader took the last frame and the generator ran out.
Exhausted(p) ==
  /\ up /\ At(p, "told")
  /\ Return(p)
  /\ UNCHANGED <<row, lastStatus, up, upsets, taken>>

\* An exception in the flow: the wrapper writes 'failed', or fails to.
Raise(p) ==
  /\ up /\ AtWork(p)
  /\ Upset
  /\ Write(Session(p), "failed") \/ UNCHANGED row
  /\ Return(p)
  /\ UNCHANGED <<lastStatus, up, taken>>

-----------------------------------------------------------------------------
(* A pipeline stopped from outside.                                         *)

\* The reader goes: a client that closes its stream, the cancel of a detached run,
\* the scheduler's drain.  A reader that takes the next frame at once (a fired
\* pipeline's) is never away between two frames.
Leave(p) ==
  /\ up
  /\ AtWork(p) \/ (At(p, "told") /\ p \notin Fired)
  /\ pipe' = [pipe EXCEPT ![p].pc = "closing", ![p].stop = "left"]
  /\ UNCHANGED <<row, lastStatus, up, upsets, taken>>

\* scheduler_job_timeout.
TimeOut(p) ==
  /\ up /\ p \in Fired /\ AtWork(p)
  /\ pipe' = [pipe EXCEPT ![p].pc = "closing", ![p].stop = "timeout"]
  /\ UNCHANGED <<row, lastStatus, up, upsets, taken>>

\* The shielded write says 'cancelled' over whatever the row says, or it fails.
Finalized(s) ==
  \/ Write(s, "cancelled") /\ UNCHANGED upsets
  \/ Upset /\ UNCHANGED row

\* The flow goes on behind the finalized row.
Close_StillAtWork(p) ==
  /\ up /\ At(p, "closing")
  /\ Finalized(Session(p))
  /\ Take(Session(p))
  /\ Goto(p, IF p \in Fired THEN "settle" ELSE "summary")
  /\ UNCHANGED <<lastStatus, up>>

\* The wrapper's finally; the body is cancelled already.
Close(p) ==
  /\ up /\ At(p, "closing")
  /\ Finalized(Session(p))
  /\ Take(Session(p))
  /\ IF p \in Fired THEN Goto(p, "settle") ELSE Finish(p)
  /\ UNCHANGED <<lastStatus, up>>

\* The result waits for a row it can cancel.
Settle_Cancelled(p) ==
  /\ up /\ At(p, "settle")
  /\ Is(Session(p), "running") /\ Finalized(Session(p))
  /\ IF pipe[p].stop = "timeout" THEN Goto(p, "report") ELSE Finish(p)
  /\ UNCHANGED <<lastStatus, up, taken>>

\* _finalize_cancel: only a row still running is cancelled, if the write gets
\* through; a drained run writes no result.
Settle(p) ==
  /\ up /\ At(p, "settle")
  /\ IF Is(Session(p), "running") THEN Finalized(Session(p)) ELSE UNCHANGED <<row, upsets>>
  /\ IF pipe[p].stop = "timeout" THEN Goto(p, "report") ELSE Finish(p)
  /\ UNCHANGED <<lastStatus, up, taken>>

ResultOf(p) ==
  CASE pipe[p].stop = "timeout"  -> "timeout"
    [] Session(p) = NoSession    -> "skipped"
    [] OTHER -> IF row[Session(p)].status \in { "failed", "cancelled" }
                  THEN row[Session(p)].status ELSE "success"

\* The scheduled_jobs row takes the result.
Report(p) ==
  /\ up /\ At(p, "report")
  /\ lastStatus' = [lastStatus EXCEPT ![p] = ResultOf(p)]
  /\ Finish(p)
  /\ UNCHANGED <<row, up, upsets, taken>>

-----------------------------------------------------------------------------
(* Those who act on the rows alone, and the process itself.                 *)

\* No call of the pipeline returned for stale_threshold_minutes.
FallSilent(s) ==
  /\ Is(s, "running") /\ ~row[s].silent
  /\ row' = [row EXCEPT ![s].silent = TRUE]
  /\ UNCHANGED <<pipe, lastStatus, up, upsets, taken>>

Expire(s) ==
  /\ Is(s, "paused") /\ ~row[s].expired
  /\ row' = [row EXCEPT ![s].expired = TRUE]
  /\ UNCHANGED <<pipe, lastStatus, up, upsets, taken>>

\* A row that saved nothing yet has no activity to be compared with.
Silent_SavedOnly(s) == Is(s, "running") /\ row[s].silent /\ row[s].saved > 0
Silent(s) == Is(s, "running") /\ row[s].silent

\* reap_stale_jobs, the two statements about sessions.
ReapSilent(s) ==
  /\ up /\ Silent(s)
  /\ Write(s, "failed")
  /\ Take(s)
  /\ UNCHANGED <<pipe, lastStatus, up, upsets>>

ReapPaused(s) ==
  /\ up /\ Is(s, "paused") /\ row[s].expired
  /\ Write(s, "cancelled")
  /\ UNCHANGED <<pipe, lastStatus, up, upsets, taken>>

\* delete_research_session.
Delete(s) ==
  /\ up /\ row[s].status \notin { "unborn", "deleted" }
  /\ row' = [row EXCEPT ![s] = [Unborn EXCEPT !.status = "deleted"]]
  /\ Upset
  /\ Take(s)
  /\ UNCHANGED <<pipe, lastStatus, up>>

Crash ==
  /\ up /\ Upset
  /\ up' = FALSE
  /\ pipe' = [p \in Pipes |-> IF At(p, "idle") THEN Idle ELSE Gone]
  /\ UNCHANGED <<row, lastStatus, taken>>

\* _pre_migration_sweep, stage 1: it takes every running row whose updated_at is 5
\* minutes old, a silent one and perhaps one that is not.  Or it raises.
Boot ==
  /\ ~up
  /\ up' = TRUE
  /\ \/ \E S \in SUBSET { s \in Sessions : Is(s, "running") } :
          /\ { s \in Sessions : Is(s, "running") /\ row[s].silent } \subseteq S
          /\ row' = [s \in Sessions |->
                       IF s \in S THEN [row[s] EXCEPT !.status = "cancelled", !.silent = FALSE] ELSE row[s]]
     \/ UNCHANGED row
  /\ UNCHANGED <<pipe, lastStatus, upsets, taken>>

PipeNext(p) ==
  \/ Start(p)
  \/ \E s \in Sessions : Load(p, s)
  \/ CancelExpired(p)
  \/ Claim(p)
  \/ Iterate(p)
  \/ Continue(p)
  \/ Pause(p)
  \/ Complete(p)
  \/ Exhausted(p)
  \/ Raise(p)
  \/ Leave(p)
  \/ TimeOut(p)
  \/ Close(p)
  \/ Settle(p)
  \/ Report(p)

RowNext(s) ==
  \/ FallSilent(s)
  \/ Expire(s)
  \/ ReapSilent(s)
  \/ ReapPaused(s)
  \/ Delete(s)

ResearchNext ==
  \/ \E p \in Pipes : PipeNext(p)
  \/ \E s \in Sessions : RowNext(s)
  \/ Crash
  \/ Boot

ResearchSpec == ResearchInit /\ [][ResearchNext]_researchVars

\* The clock, the cleanup loop and the start-up go on; a pipeline may hang for
\* ever in a call it awaits, but the scheduler's timer still fires, and what
\* follows a stop is a finite run of short writes.
ResearchFairness ==
  /\ WF_researchVars(Boot)
  /\ \A s \in Sessions :
       WF_researchVars(FallSilent(s)) /\ WF_researchVars(Expire(s)) /\
       WF_researchVars(ReapSilent(s)) /\ WF_researchVars(ReapPaused(s))
  /\ \A p \in Pipes :
       WF_researchVars(Exhausted(p)) /\ WF_researchVars(TimeOut(p)) /\
       WF_researchVars(Close(p)) /\ WF_researchVars(Settle(p)) /\ WF_researchVars(Report(p))

FairResearchSpec == ResearchSpec /\ ResearchFairness

-----------------------------------------------------------------------------
(* Properties.                                                              *)

ResearchTypeOK ==
  /\ row \in [Sessions -> Row]
  /\ pipe \in [Pipes -> Pipe]
  /\ lastStatus \in [Fired -> { "none", "success", "failed", "cancelled", "timeout", "skipped" }]
  /\ up \in BOOLEAN
  /\ upsets \in 0 .. MaxUpsets
  /\ taken \subseteq Sessions

\* One pipeline is at work at a time, over all sessions, unless somebody ended a
\* session under a pipeline that was silent for 30 minutes, deleted, or finalized by
\* an earlier reader: a stopped pipeline gives the slot up with its body, and a
\* resume takes it like a start.
OneAtWork ==
  \A p, q \in Pipes :
    AtWork(p) /\ AtWork(q) /\ p # q => Session(p) \in taken \/ Session(q) \in taken

\* Two pipelines never work on one session, reaped, revived by a late write or
\* resumed by two replies at once.
OneWorkerEach == \A s \in Sessions : Cardinality(WorkersOf(s)) <= 1

\* Types, and one pipeline per session.
ResearchInv == ResearchTypeOK /\ OneWorkerEach

\* A pipeline works from a snapshot at least as new as the row's: the reply it was
\* loaded for is the last one, and no iteration is done again or overwritten.
FreshSnapshot == \A p \in Pipes : AtWork(p) => pipe[p].iter >= row[Session(p)].saved

\* A session that runs or waits for a reply ends, whoever hangs, leaves, crashes or
\* never answers.
SessionEnds ==
  \A s \in Sessions :
    row[s].status \in { "running", "paused" } ~> row[s].status \in Final \cup { "deleted" }

\* A schedule's run comes to an end: it reports, or it is drained or dies with the
\* process.
FiredEnds == \A p \in Fired : ~At(p, "idle") ~> At(p, "done")

\* A run reported as a success left a completed session.
SuccessIsCompleted ==
  [][ \A p \in Fired :
        lastStatus'[p] = "success" /\ lastStatus[p] # "success" /\ ~Is(Session(p), "deleted")
          => Is(Session(p), "completed") ]_researchVars

\* A session waiting for a reply waits until it is claimed, expires or is deleted.
PauseKept ==
  [][ \A s \in Sessions :
        Is(s, "paused") /\ ~row[s].expired => row'[s].status \in { "paused", "running", "deleted" }
    ]_researchVars
=============================================================================
