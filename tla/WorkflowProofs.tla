--------------------------- MODULE WorkflowProofs ---------------------------
(***************************************************************************)
(* Proofs about Workflow, for any jobs, components, walkers, slots and     *)
(* budgets: one planner and one researcher of a job at a time, no late     *)
(* write that brings an ended job back, and that the umbrella keeps the    *)
(* promise of Rollup.                                                      *)
(***************************************************************************)
EXTENDS Workflow, TLAPS

-----------------------------------------------------------------------------
(* What the writes do.                                                      *)

\* The job's row is written while nobody holds it: a status, and no plan.
Written(j, v) ==
  /\ Unlocked(j)
  /\ job' \in [Jobs -> Job]
  /\ \A i \in Jobs \ {j} : job'[i] = job[i]
  /\ job'[j].status = v
  /\ job'[j].planned = job[j].planned

LEMMA TouchedWrites ==
  ASSUME WorkflowTypeOK, NEW j \in Jobs, NEW r \in Job, r.planned = job[j].planned,
         Touched(j, r)
  PROVE  Written(j, r.status)
BY DEF WorkflowTypeOK, Touched, Written, Job

LEMMA SetWrites ==
  ASSUME WorkflowTypeOK, NEW j \in Jobs, NEW v \in Status, Set(j, v)
  PROVE  Written(j, v)
<1>1. [job[j] EXCEPT !.status = v] \in Job
  BY DEF WorkflowTypeOK, Job
<1> QED
  BY <1>1, TouchedWrites DEF Set, WorkflowTypeOK, Job

\* A guarded write that an ended job refuses.
Moves(j, v) ==
  /\ Unlocked(j)
  /\ \/ job' = job
     \/ job[j].status \notin Ended /\ Written(j, v)

LEMMA TransitionMoves ==
  ASSUME WorkflowTypeOK, NEW j \in Jobs, NEW r \in Job, r.planned = job[j].planned,
         Transition(j, r)
  PROVE  Moves(j, r.status)
BY TouchedWrites DEF Transition, Refused, Moves

LEMMA MoveToMoves ==
  ASSUME WorkflowTypeOK, NEW j \in Jobs, NEW v \in Status, MoveTo(j, v)
  PROVE  Moves(j, v)
<1>1. [job[j] EXCEPT !.status = v] \in Job
  BY DEF WorkflowTypeOK, Job
<1> QED
  BY <1>1, TransitionMoves DEF MoveTo, WorkflowTypeOK, Job

\* One walker goes to a label, its job and note untouched.
Went(w, l) ==
  /\ walker' \in [Walkers -> Walker]
  /\ \A x \in Walkers \ {w} : walker'[x] = walker[x]
  /\ walker'[w].pc = l /\ walker'[w].job = walker[w].job /\ walker'[w].note = walker[w].note

LEMMA GotoGoes ==
  ASSUME WorkflowTypeOK, NEW w \in Walkers, NEW l \in Labels, Goto(w, l)
  PROVE  Went(w, l)
BY DEF WorkflowTypeOK, Goto, Went, Walker

LEMMA IdleType == Idle \in Walker
<1>1. Somewhere \in Jobs
  BY WorkflowAssumption DEF Somewhere
<1> QED
  BY <1>1 DEF Idle, Walker, Labels, Texts

\* One walker starts over, or is done.
Reset(w, l) ==
  /\ walker' \in [Walkers -> Walker]
  /\ \A x \in Walkers \ {w} : walker'[x] = walker[x]
  /\ walker'[w].pc = l /\ walker'[w].note = "none"
  /\ w \in Components => walker'[w].job = w

LEMMA FinishResets ==
  ASSUME WorkflowTypeOK, NEW w \in Walkers, Finish(w)
  PROVE  Reset(w, IF w \in Components THEN "rollup" ELSE "idle")
<1>1. [Idle EXCEPT !.pc = "rollup", !.job = w] \in Walker \/ w \notin Components
  BY IdleType, WorkflowAssumption DEF Walker, Labels
<1> QED
  BY <1>1, IdleType DEF WorkflowTypeOK, Finish, Reset, Idle

LEMMA LeaveResets ==
  ASSUME WorkflowTypeOK, NEW w \in Walkers, Leave(w)
  PROVE  Reset(w, IF w \in Components THEN "gone" ELSE "idle")
<1>1. [Idle EXCEPT !.pc = "gone", !.job = w] \in Walker \/ w \notin Components
  BY IdleType, WorkflowAssumption DEF Walker, Labels
<1> QED
  BY <1>1, IdleType DEF WorkflowTypeOK, Leave, Reset, Idle

-----------------------------------------------------------------------------
(* Calm steps: the invariants but the types only look at who drafts, who    *)
(* researches, who plans and whether the gate is open.                      *)

Watched == { "research", "planning", "queued" }
Operators == { "running", "executing", "assisted" }

JobCalm ==
  /\ job' \in [Jobs -> Job]
  /\ \A i \in Jobs : job'[i].planned = job[i].planned
  /\ \A i \in Jobs : job'[i].status = "awaiting_confirmation" => Is(i, "awaiting_confirmation")
  /\ \A i \in Jobs : ~Unlocked(i) => job'[i].status = job[i].status

WalkersCalm ==
  /\ walker' \in [Walkers -> Walker]
  /\ \A w \in Walkers : walker'[w].pc \in Watched =>
       walker'[w].pc = walker[w].pc /\ walker'[w].job = walker[w].job
  /\ \A c \in Components : walker'[c].job = c
  /\ \A w \in Walkers : (walker'[w].note # "none") <=> (walker'[w].pc = "close")

DraftsCalm == drafts' \subseteq Draft /\ \A d \in drafts' : d.pc = "refine" => d \in drafts

Rest == /\ chain' \in [Jobs -> Chains \cup {Nobody}]
        /\ umbrella' \in { "aggregating", "awaiting_assist" } \cup Ended
        /\ events' \in 0 .. MaxEvents

LEMMA RestStays ==
  ASSUME WorkflowTypeOK, chain' = chain, umbrella' = umbrella, Event \/ events' = events
  PROVE  Rest
BY WorkflowAssumption DEF WorkflowTypeOK, Rest, Event

\* What an ended job may become.
JobStays ==
  \A i \in Jobs : job[i].status \in Ended /\ job'[i].status # job[i].status
                    => job'[i].status \in Operators

LEMMA SameCalm == ASSUME WorkflowTypeOK, job' = job PROVE JobCalm /\ JobStays
BY DEF WorkflowTypeOK, JobCalm, JobStays, Is

LEMMA WrittenCalm ==
  ASSUME WorkflowTypeOK, NEW j \in Jobs, NEW v, Written(j, v),
         v = "awaiting_confirmation" => Is(j, "awaiting_confirmation"),
         job[j].status \in Ended => v = job[j].status \/ v \in Operators
  PROVE  JobCalm /\ JobStays
<1>1. \A i \in Jobs : i # j => job'[i] = job[i]
  BY DEF Written
<1>2. Unlocked(j) /\ job'[j].status = v /\ job'[j].planned = job[j].planned
      /\ job' \in [Jobs -> Job]
  BY DEF Written
<1> QED
  BY <1>1, <1>2 DEF JobCalm, JobStays, Is

LEMMA MovesCalm ==
  ASSUME WorkflowTypeOK, NEW j \in Jobs, NEW v, v # "awaiting_confirmation", Moves(j, v)
  PROVE  JobCalm /\ JobStays
BY SameCalm, WrittenCalm DEF Moves

LEMMA SameWalkers ==
  ASSUME WorkflowTypeOK, OwnJob, NoteKept, walker' = walker PROVE WalkersCalm
BY DEF WorkflowTypeOK, OwnJob, NoteKept, WalkersCalm, At, JobOf, Walkers

LEMMA WentCalm ==
  ASSUME WorkflowTypeOK, OwnJob, NoteKept, NEW w \in Walkers, NEW l, Went(w, l),
         l \notin Watched, l # "close", ~At(w, "close")
  PROVE  WalkersCalm
<1>1. \A x \in Walkers : x # w => walker'[x] = walker[x]
  BY DEF Went
<1>2. walker' \in [Walkers -> Walker] /\ walker'[w].pc = l
      /\ walker'[w].job = walker[w].job /\ walker'[w].note = walker[w].note
  BY DEF Went
<1>3. \A c \in Components : c \in Walkers
  BY DEF Walkers
<1> QED
  BY <1>1, <1>2, <1>3 DEF OwnJob, NoteKept, WalkersCalm, At, JobOf

LEMMA ResetCalm ==
  ASSUME WorkflowTypeOK, OwnJob, NoteKept, NEW w \in Walkers, NEW l, Reset(w, l),
         l \notin Watched, l # "close"
  PROVE  WalkersCalm
<1>1. \A x \in Walkers : x # w => walker'[x] = walker[x]
  BY DEF Reset
<1>2. walker' \in [Walkers -> Walker] /\ walker'[w].pc = l /\ walker'[w].note = "none"
      /\ (w \in Components => walker'[w].job = w)
  BY DEF Reset
<1>3. \A c \in Components : c \in Walkers
  BY DEF Walkers
<1> QED
  BY <1>1, <1>2, <1>3 DEF OwnJob, NoteKept, WalkersCalm, At, JobOf

LEMMA FinishCalm ==
  ASSUME WorkflowTypeOK, OwnJob, NoteKept, NEW w \in Walkers, Finish(w)
  PROVE  WalkersCalm
BY FinishResets, ResetCalm DEF Watched

LEMMA LeaveCalm ==
  ASSUME WorkflowTypeOK, OwnJob, NoteKept, NEW w \in Walkers, Leave(w)
  PROVE  WalkersCalm
BY LeaveResets, ResetCalm DEF Watched

LEMMA GotoCalm ==
  ASSUME WorkflowTypeOK, OwnJob, NoteKept, NEW w \in Walkers, NEW l \in Labels, Goto(w, l),
         l \notin Watched, l # "close", ~At(w, "close")
  PROVE  WalkersCalm
BY GotoGoes, WentCalm

\* A chain or a request takes a job on.
LEMMA BornCalm ==
  ASSUME WorkflowTypeOK, OwnJob, NoteKept, NEW w \in Chains \cup Requests,
         NEW r \in Walker, r.pc \notin Watched, r.pc # "close", r.note = "none",
         walker' = [walker EXCEPT ![w] = r]
  PROVE  WalkersCalm
<1>1. w \in Walkers /\ w \notin Components /\ \A c \in Components : c \in Walkers
  BY WorkflowAssumption DEF Walkers
<1>2. \A x \in Walkers : walker'[x] = IF x = w THEN r ELSE walker[x]
  BY DEF WorkflowTypeOK
<1>3. walker' \in [Walkers -> Walker]
  BY DEF WorkflowTypeOK
<1> QED
  BY <1>1, <1>2, <1>3 DEF OwnJob, NoteKept, WalkersCalm, At, JobOf

LEMMA SameDrafts == ASSUME WorkflowTypeOK, drafts' = drafts PROVE DraftsCalm
BY DEF WorkflowTypeOK, DraftsCalm

LEMMA FewerDrafts == ASSUME WorkflowTypeOK, NEW d, drafts' = drafts \ {d} PROVE DraftsCalm
BY DEF WorkflowTypeOK, DraftsCalm

\* What the invariants see of a calm step.
Neutral ==
  \A j \in Jobs :
    /\ Drafting(j)' \subseteq Drafting(j)
    /\ Researchers(j)' \subseteq Researchers(j)
    /\ Planners(j)' \subseteq Planners(j)
    /\ job'[j].status = "awaiting_confirmation" => Is(j, "awaiting_confirmation")
    /\ j \in Components /\ walker'[j].pc = "queued" => At(j, "queued")
    /\ job'[j].planned => job[j].planned \/ Planners(j)' = {}
    /\ Planners(j)' # {} => job'[j].status = job[j].status

LEMMA CalmIsNeutral ==
  ASSUME JobCalm, WalkersCalm, DraftsCalm
  PROVE  Neutral
<1> SUFFICES ASSUME NEW j \in Jobs
             PROVE  /\ Drafting(j)' \subseteq Drafting(j)
                    /\ Researchers(j)' \subseteq Researchers(j)
                    /\ Planners(j)' \subseteq Planners(j)
                    /\ job'[j].status = "awaiting_confirmation" => Is(j, "awaiting_confirmation")
                    /\ j \in Components /\ walker'[j].pc = "queued" => At(j, "queued")
                    /\ job'[j].planned => job[j].planned \/ Planners(j)' = {}
                    /\ Planners(j)' # {} => job'[j].status = job[j].status
  BY DEF Neutral
<1>1. Drafting(j)' \subseteq Drafting(j)
  BY DEF DraftsCalm, Drafting
<1>2. Researchers(j)' \subseteq Researchers(j) /\ Planners(j)' \subseteq Planners(j)
  BY DEF WalkersCalm, Researchers, Planners, At, JobOf, Watched
<1>3. j \in Components /\ walker'[j].pc = "queued" => At(j, "queued")
  BY DEF WalkersCalm, At, Watched, Walkers
<1>4. Planners(j)' # {} => job'[j].status = job[j].status
  BY <1>2 DEF JobCalm, Unlocked
<1> QED
  BY <1>1, <1>2, <1>3, <1>4 DEF JobCalm

Held == PlannerHolds /\ GateHeld /\ OneAtATime

LEMMA NeutralHolds ==
  ASSUME WorkflowTypeOK, WorkflowTypeOK', Held, Neutral
  PROVE  Held'
<1>1. PlannerHolds'
  <2> SUFFICES ASSUME NEW w \in Walkers, At(w, "planning")'
               PROVE  job'[JobOf(w)'].status \in { "planning", "running" }
    BY DEF PlannerHolds
  <2>1. PICK j \in Jobs : j = JobOf(w)'
    BY DEF WorkflowTypeOK, JobOf, Walker
  <2>2. w \in Planners(j)'
    BY <2>1 DEF Planners
  <2>3. w \in Planners(j) /\ job'[j].status = job[j].status
    BY <2>2 DEF Neutral
  <2> QED
    BY <2>1, <2>3 DEF Held, PlannerHolds, Planners
<1>2. GateHeld'
  <2> SUFFICES ASSUME NEW j \in Jobs
               PROVE  (/\ \A d, e \in Drafting(j) : d = e
                       /\ Drafting(j) # {} => Researchers(j) = {} /\ ~Is(j, "awaiting_confirmation")
                       /\ Is(j, "awaiting_confirmation") => Researchers(j) = {}
                       /\ j \in Components /\ At(j, "queued") =>
                            Drafting(j) = {} /\ Researchers(j) = {} /\ ~Is(j, "awaiting_confirmation"))'
    BY DEF GateHeld
  <2> QED
    BY DEF Held, GateHeld, Neutral, Is, At
<1>3. OneAtATime'
  <2> SUFFICES ASSUME NEW j \in Jobs
               PROVE  (/\ \A v, w \in Planners(j) : v = w
                       /\ job[j].planned => Unlocked(j)
                       /\ \A v, w \in Researchers(j) : v = w)'
    BY DEF OneAtATime
  <2>1. Researchers(j)' \subseteq Researchers(j) /\ Planners(j)' \subseteq Planners(j)
        /\ (job'[j].planned => job[j].planned \/ Planners(j)' = {})
    BY DEF Neutral
  <2> QED
    BY <2>1 DEF Held, OneAtATime, Unlocked
<1> QED
  BY <1>1, <1>2, <1>3 DEF Held

Kept == WorkflowInv' /\ JobStays

LEMMA CalmKeeps ==
  ASSUME WorkflowInv, JobCalm, JobStays, WalkersCalm, DraftsCalm, Rest
  PROVE  Kept
<1>1. WorkflowTypeOK'
  BY DEF JobCalm, WalkersCalm, DraftsCalm, Rest, WorkflowTypeOK
<1>2. OwnJob' /\ NoteKept'
  BY DEF WalkersCalm, OwnJob, NoteKept, At, JobOf
<1>3. Held'
  BY <1>1, CalmIsNeutral, NeutralHolds DEF WorkflowInv, Held
<1> QED
  BY <1>1, <1>2, <1>3 DEF Kept, WorkflowInv, Held

THEOREM InvInit == WorkflowInit => WorkflowInv
<1> SUFFICES ASSUME WorkflowInit PROVE WorkflowInv
  OBVIOUS
<1>a. \A w \in Components : w \in Jobs /\ w \in Walkers
  BY WorkflowAssumption DEF Walkers
<1>b. walker = [w \in Walkers |-> IF w \in Components
                                   THEN [Idle EXCEPT !.pc = "queued", !.job = w] ELSE Idle]
  BY DEF WorkflowInit
<1>c. drafts = [job : Jobs \ Components, text : {1}, pc : {"refine"}]
  BY DEF WorkflowInit
<1>d. chain = [j \in Jobs |-> Nobody] /\ umbrella = "aggregating" /\ events = MaxEvents
  BY DEF WorkflowInit
<1>1. \A w \in Walkers : walker[w] \in Walker /\ walker[w].note = "none"
        /\ walker[w].pc \in { "idle", "queued" } /\ (w \in Components => JobOf(w) = w)
  <2> SUFFICES ASSUME NEW w \in Walkers
               PROVE  walker[w] \in Walker /\ walker[w].note = "none"
                      /\ walker[w].pc \in { "idle", "queued" } /\ (w \in Components => JobOf(w) = w)
    OBVIOUS
  <2>1. CASE w \in Components
    <3>1. walker[w] = [Idle EXCEPT !.pc = "queued", !.job = w]
      BY <1>b, <2>1
    <3> QED
      BY <3>1, <2>1, <1>a, IdleType DEF Idle, Walker, Labels, JobOf
  <2>2. CASE w \notin Components
    <3>1. walker[w] = Idle
      BY <1>b, <2>2
    <3> QED
      BY <3>1, <2>2, IdleType DEF Idle
  <2> QED
    BY <2>1, <2>2
<1>2. WorkflowTypeOK
  <2>1. job \in [Jobs -> Job]
    <3>1. 1 \in Texts
      BY WorkflowAssumption DEF Texts
    <3>2. [status |-> "refining", text |-> 1, brief |-> 0, stash |-> 0,
           planned |-> FALSE, quiet |-> FALSE] \in Job
      BY <3>1 DEF Job, Status
    <3> QED
      BY <3>2 DEF WorkflowInit
  <2>2. drafts \subseteq Draft
    <3>1. 1 \in Texts
      BY WorkflowAssumption DEF Texts
    <3> QED
      BY <1>c, <3>1 DEF Draft
  <2>3. walker \in [Walkers -> Walker]
    <3>1. walker = [w \in Walkers |-> walker[w]]
      BY <1>b
    <3> QED
      BY <1>1, <3>1
  <2> QED
    BY <1>d, <2>1, <2>2, <2>3, WorkflowAssumption DEF WorkflowTypeOK
<1>3. OwnJob /\ NoteKept /\ PlannerHolds
  BY <1>1 DEF OwnJob, NoteKept, PlannerHolds, At, Walkers
<1>4. GateHeld
  <2>1. \A j \in Jobs : Researchers(j) = {} /\ ~Is(j, "awaiting_confirmation")
    BY <1>1 DEF Researchers, At, Is, WorkflowInit
  <2>2. \A d \in drafts : d = [job |-> d.job, text |-> 1, pc |-> "refine"] /\ d.job \notin Components
    BY <1>c
  <2>3. \A j \in Jobs : \A d, e \in Drafting(j) : d = e
    BY <2>2 DEF Drafting
  <2>4. \A j \in Jobs \cap Components : Drafting(j) = {}
    BY <2>2 DEF Drafting
  <2> QED
    BY <2>1, <2>3, <2>4 DEF GateHeld
<1>5. OneAtATime
  BY <1>1 DEF OneAtATime, Planners, Researchers, Unlocked, At
<1> QED
  BY <1>2, <1>3, <1>4, <1>5 DEF WorkflowInv

-----------------------------------------------------------------------------
(* The calm steps, one by one.                                              *)

LEMMA DraftFailsKeeps ==
  ASSUME WorkflowInv, NEW d \in drafts, DraftFails(d)
  PROVE  Kept
<1>1. WorkflowTypeOK /\ OwnJob /\ NoteKept /\ d.job \in Jobs
  BY DEF WorkflowInv, WorkflowTypeOK, Draft
<1>2. JobCalm /\ JobStays
  BY <1>1, MoveToMoves, MovesCalm DEF DraftFails, Status, Ended
<1> QED
  BY <1>1, <1>2, SameWalkers, FewerDrafts, RestStays, CalmKeeps DEF DraftFails

LEMMA AssessedKeeps ==
  ASSUME WorkflowInv, NEW d \in drafts, Assessed(d)
  PROVE  Kept
<1>1. WorkflowTypeOK /\ OwnJob /\ NoteKept /\ d.job \in Jobs /\ d.text \in Texts
  BY DEF WorkflowInv, WorkflowTypeOK, Draft
<1> DEFINE r == [job[d.job] EXCEPT !.stash = d.text]
<1>2. r \in Job /\ r.planned = job[d.job].planned /\ r.status = job[d.job].status
  BY <1>1 DEF WorkflowTypeOK, Job
<1>3. Written(d.job, job[d.job].status)
  BY <1>1, <1>2, TouchedWrites DEF Assessed
<1>4. JobCalm /\ JobStays
  BY <1>1, <1>3, WrittenCalm DEF Is
<1> QED
  BY <1>1, <1>4, SameWalkers, FewerDrafts, RestStays, CalmKeeps DEF Assessed

LEMMA DraftedKeeps ==
  ASSUME WorkflowInv, NEW w \in Components, Drafted(w)
  PROVE  Kept
<1>1. WorkflowTypeOK /\ OwnJob /\ NoteKept /\ w \in Walkers
  BY DEF WorkflowInv, Walkers
<1>2. WalkersCalm
  BY <1>1, GotoCalm DEF Drafted, At, Labels, Watched
<1> QED
  BY <1>1, <1>2, SameCalm, SameDrafts, RestStays, CalmKeeps DEF Drafted

\* A write that leaves the row as it is but for its clock.
LEMMA TouchCalm ==
  ASSUME WorkflowTypeOK, NEW j \in Jobs, Touched(j, job[j])
  PROVE  JobCalm /\ JobStays
<1>1. job[j] \in Job
  BY DEF WorkflowTypeOK
<1> QED
  BY <1>1, TouchedWrites, WrittenCalm DEF Is

LEMMA SetCalm ==
  ASSUME WorkflowTypeOK, NEW j \in Jobs, NEW v \in Status, Set(j, v),
         v # "awaiting_confirmation", job[j].status \notin Ended \/ v \in Operators
  PROVE  JobCalm /\ JobStays
BY SetWrites, WrittenCalm

LEMMA AskedKeeps ==
  ASSUME WorkflowInv, NEW w \in Chains, NEW j \in Jobs, NEW runs \in BOOLEAN,
         Asked(w, j, runs), Event \/ events' = events
  PROVE  Kept
<1>1. WorkflowTypeOK /\ OwnJob /\ NoteKept
  BY DEF WorkflowInv
<1> DEFINE r == [Idle EXCEPT !.pc = "starting", !.job = j, !.runs = runs]
<1>2. r \in Walker /\ r.pc = "starting" /\ r.note = "none"
  BY IdleType DEF Idle, Walker, Labels
<1>3. WalkersCalm
  BY <1>1, <1>2, BornCalm DEF Asked, Watched
<1> QED
  BY <1>1, <1>3, SameCalm, SameDrafts, RestStays, CalmKeeps DEF Asked

LEMMA StartChainKeeps ==
  ASSUME WorkflowInv, NEW w \in Chains, StartChain(w)
  PROVE  Kept
<1>1. WorkflowTypeOK /\ OwnJob /\ NoteKept /\ w \in Walkers /\ JobOf(w) \in Jobs
  BY DEF WorkflowInv, WorkflowTypeOK, Walkers, Walker, JobOf
<1>2. WalkersCalm
  BY <1>1, GotoCalm DEF StartChain, At, Labels, Watched
<1>3. Rest
  BY <1>1 DEF StartChain, Rest, WorkflowTypeOK
<1> QED
  BY <1>1, <1>2, <1>3, TouchCalm, SameDrafts, CalmKeeps DEF StartChain

LEMMA ChooseKeeps ==
  ASSUME WorkflowInv, NEW w \in Chains, Choose(w)
  PROVE  Kept
<1>1. WorkflowTypeOK /\ OwnJob /\ NoteKept /\ w \in Walkers /\ JobOf(w) \in Jobs
  BY DEF WorkflowInv, WorkflowTypeOK, Walkers, Walker, JobOf
<1>2. ~At(w, "close")
  BY DEF Choose, At
<1>3. Goto(w, "confirm") \/ Goto(w, "plan") \/ Goto(w, "run") \/ Finish(w)
  BY DEF Choose
<1>4. WalkersCalm
  BY <1>1, <1>2, <1>3, GotoCalm, FinishCalm DEF Labels, Watched
<1> QED
  BY <1>1, <1>4, TouchCalm, SameDrafts, RestStays, CalmKeeps DEF Choose

LEMMA AdvanceKeeps ==
  ASSUME WorkflowInv, NEW w \in Requests, NEW j \in Jobs, NEW first \in { "confirm", "plan" },
         NEW runs \in BOOLEAN, Advance(w, j, first, runs)
  PROVE  Kept
<1>1. WorkflowTypeOK /\ OwnJob /\ NoteKept
  BY DEF WorkflowInv
<1> DEFINE r == [Idle EXCEPT !.pc = first, !.job = j, !.runs = runs]
<1>2. r \in Walker /\ r.pc = first /\ r.note = "none"
  BY IdleType DEF Idle, Walker, Labels
<1>3. WalkersCalm
  BY <1>1, <1>2, BornCalm DEF Advance, Watched
<1> QED
  BY <1>1, <1>3, SameCalm, SameDrafts, RestStays, CalmKeeps DEF Advance

LEMMA ResearchFailsKeeps ==
  ASSUME WorkflowInv, NEW w \in Walkers, ResearchFails(w)
  PROVE  Kept
<1>1. WorkflowTypeOK /\ OwnJob /\ NoteKept /\ JobOf(w) \in Jobs
  BY DEF WorkflowInv, WorkflowTypeOK, Walker, JobOf
<1>2. JobCalm /\ JobStays
  <2>1. PICK v \in { "failed", "cancelled" } : MoveTo(JobOf(w), v)
    BY DEF ResearchFails
  <2> QED
    BY <1>1, <2>1, MoveToMoves, MovesCalm DEF Status, Ended
<1> QED
  BY <1>1, <1>2, FinishCalm, SameDrafts, RestStays, CalmKeeps DEF ResearchFails

LEMMA ResearchedKeeps ==
  ASSUME WorkflowInv, NEW w \in Walkers, Researched(w)
  PROVE  Kept
<1> DEFINE j == JobOf(w)
           b == walker[w].brief
           r == [job[j] EXCEPT !.status = "planning", !.brief = b, !.stash = b]
<1>1. WorkflowTypeOK /\ OwnJob /\ NoteKept /\ j \in Jobs /\ b \in Texts \cup {0}
  BY DEF WorkflowInv, WorkflowTypeOK, Walker, JobOf
<1>2. r \in Job /\ r.planned = job[j].planned /\ r.status = "planning"
  BY <1>1 DEF WorkflowTypeOK, Job, Status
<1>3. JobCalm /\ JobStays
  BY <1>1, <1>2, TransitionMoves, MovesCalm DEF Researched
<1>4. WalkersCalm
  <2>1. ~At(w, "close")
    BY DEF Researched, At
  <2>2. Goto(w, "chose") \/ Goto(w, "run") \/ Goto(w, "plan")
    BY DEF Researched
  <2> QED
    BY <1>1, <2>1, <2>2, GotoCalm DEF Labels, Watched
<1> QED
  BY <1>1, <1>3, <1>4, SameDrafts, RestStays, CalmKeeps DEF Researched

LEMMA TabClosedKeeps ==
  ASSUME WorkflowInv, NEW w \in Walkers, TabClosed(w)
  PROVE  Kept
<1>1. WorkflowTypeOK /\ OwnJob /\ NoteKept
  BY DEF WorkflowInv
<1> QED
  BY <1>1, SameCalm, FinishCalm, SameDrafts, RestStays, CalmKeeps DEF TabClosed

LEMMA RunKeeps ==
  ASSUME WorkflowInv, NEW w \in Requests, NEW j \in Jobs, Run(w, j)
  PROVE  Kept
<1>1. WorkflowTypeOK /\ OwnJob /\ NoteKept
  BY DEF WorkflowInv
<1> DEFINE r == [Idle EXCEPT !.pc = "run", !.job = j]
<1>2. r \in Walker /\ r.pc = "run" /\ r.note = "none"
  BY IdleType DEF Idle, Walker, Labels
<1>3. WalkersCalm
  BY <1>1, <1>2, BornCalm DEF Run, Watched
<1>4. JobCalm /\ JobStays
  BY <1>1, SameCalm, SetCalm DEF Run, Status, Operators
<1> QED
  BY <1>1, <1>3, <1>4, SameDrafts, RestStays, CalmKeeps DEF Run

LEMMA AdmitKeeps ==
  ASSUME WorkflowInv, NEW w \in Walkers, Admit(w)
  PROVE  Kept
<1> DEFINE j == JobOf(w)
           l == IF job[j].planned THEN "work" ELSE "plan"
<1>1. WorkflowTypeOK /\ OwnJob /\ NoteKept /\ j \in Jobs /\ ~At(w, "close")
  BY DEF WorkflowInv, WorkflowTypeOK, Walker, JobOf, Admit, At
<1>2. JobCalm /\ JobStays
  BY <1>1, SameCalm, SetCalm DEF Admit, Status, Operators
<1>3. CASE Finish(w)
  BY <1>1, <1>2, <1>3, FinishCalm, SameDrafts, RestStays, CalmKeeps DEF Admit
<1>4. CASE walker' = [walker EXCEPT ![w].pc = l, ![w].admitted = TRUE]
  <2>1. Went(w, l)
    <3>1. l \in Labels
      BY DEF Labels
    <3> HIDE DEF l
    <3>2. walker'[w] = [walker[w] EXCEPT !.pc = l, !.admitted = TRUE] /\ walker[w] \in Walker
      BY <1>1, <1>4 DEF WorkflowTypeOK
    <3>3. /\ walker'[w] \in Walker /\ walker'[w].pc = l
          /\ walker'[w].job = walker[w].job /\ walker'[w].note = walker[w].note
      BY <3>1, <3>2 DEF Walker
    <3> QED
      BY <1>1, <1>4, <3>3 DEF WorkflowTypeOK, Went
  <2> HIDE DEF l
  <2>2. l \notin Watched /\ l # "close"
    BY DEF l, Watched
  <2>3. WalkersCalm
    BY <1>1, <2>1, <2>2, WentCalm
  <2> QED
    BY <1>1, <1>2, <2>3, SameDrafts, RestStays, CalmKeeps DEF Admit
<1> QED
  BY <1>3, <1>4 DEF Admit

LEMMA RunEndsKeeps ==
  ASSUME WorkflowInv, NEW w \in Walkers, RunEnds(w)
  PROVE  Kept
<1> DEFINE j == JobOf(w)
<1>1. WorkflowTypeOK /\ OwnJob /\ NoteKept /\ j \in Jobs
  BY DEF WorkflowInv, WorkflowTypeOK, Walker, JobOf
<1>2. JobCalm /\ JobStays
  <2>1. CASE job[j].status \in { "running", "executing" }
    <3>1. PICK v \in Outcomes(j) : Set(j, v)
      BY <2>1 DEF RunEnds
    <3>2. v \in Status /\ v # "awaiting_confirmation" /\ job[j].status \notin Ended
      BY <2>1 DEF Outcomes, Status, Ended
    <3> QED
      BY <1>1, <3>1, <3>2, SetCalm
  <2>2. CASE job[j].status \notin { "running", "executing" }
    BY <1>1, <2>2, SameCalm DEF RunEnds
  <2> QED
    BY <2>1, <2>2
<1> QED
  BY <1>1, <1>2, FinishCalm, SameDrafts, RestStays, CalmKeeps DEF RunEnds

LEMMA TakeUpKeeps ==
  ASSUME WorkflowInv, NEW j \in Jobs, TakeUp(j)
  PROVE  Kept
<1>1. WorkflowTypeOK /\ OwnJob /\ NoteKept
  BY DEF WorkflowInv
<1>2. JobCalm /\ JobStays
  BY <1>1, SetCalm DEF TakeUp, Status, Operators
<1> QED
  BY <1>1, <1>2, SameWalkers, SameDrafts, RestStays, CalmKeeps DEF TakeUp

LEMMA WalkEndsKeeps ==
  ASSUME WorkflowInv, NEW w \in Requests, NEW j \in Jobs, WalkEnds(w, j)
  PROVE  Kept
<1>1. WorkflowTypeOK /\ OwnJob /\ NoteKept /\ w \in Walkers
  BY DEF WorkflowInv, Walkers
<1>2. JobCalm /\ JobStays
  BY <1>1, SetCalm, SameCalm DEF WalkEnds, Is, Status, Ended
<1>3. WalkersCalm
  BY <1>1, GotoCalm, SameWalkers DEF WalkEnds, At, Labels, Watched
<1> QED
  BY <1>1, <1>2, <1>3, SameDrafts, RestStays, CalmKeeps DEF WalkEnds

LEMMA AbandonKeeps ==
  ASSUME WorkflowInv, NEW j \in Jobs, Abandon(j) \/ Cancel(j)
  PROVE  Kept
<1>1. WorkflowTypeOK /\ OwnJob /\ NoteKept
  BY DEF WorkflowInv
<1>2. JobCalm /\ JobStays
  BY <1>1, SetCalm DEF Abandon, Cancel, Is, Status, Ended
<1> QED
  BY <1>1, <1>2, SameWalkers, SameDrafts, RestStays, CalmKeeps DEF Abandon, Cancel

LEMMA CloseKeeps ==
  ASSUME WorkflowInv, NEW w \in Walkers, Close(w)
  PROVE  Kept
<1>1. WorkflowTypeOK /\ OwnJob /\ NoteKept
  BY DEF WorkflowInv
<1>2. walker[w].note \in { "awaiting_assist", "completed", "failed" }
  BY <1>1 DEF Close, NoteKept, WorkflowTypeOK, Walker
<1>3. Rest
  BY <1>1, <1>2 DEF Close, Rest, WorkflowTypeOK, Ended
<1> QED
  BY <1>1, <1>3, SameCalm, LeaveCalm, SameDrafts, CalmKeeps DEF Close

LEMMA RollupLostKeeps ==
  ASSUME WorkflowInv, NEW w \in Walkers, RollupLost(w)
  PROVE  Kept
<1>1. WorkflowTypeOK /\ OwnJob /\ NoteKept
  BY DEF WorkflowInv
<1> QED
  BY <1>1, SameCalm, LeaveCalm, SameDrafts, RestStays, CalmKeeps DEF RollupLost

LEMMA CancelUmbrellaKeeps ==
  ASSUME WorkflowInv, CancelUmbrella
  PROVE  Kept
<1>1. WorkflowTypeOK /\ OwnJob /\ NoteKept
  BY DEF WorkflowInv
<1>2. Rest
  BY <1>1, WorkflowAssumption DEF CancelUmbrella, Rest, WorkflowTypeOK, Ended, Event
<1> QED
  BY <1>1, <1>2, SameCalm, SameWalkers, SameDrafts, CalmKeeps DEF CancelUmbrella

LEMMA GrowQuietKeeps ==
  ASSUME WorkflowInv, NEW j \in Jobs, GrowQuiet(j)
  PROVE  Kept
<1>1. WorkflowTypeOK /\ OwnJob /\ NoteKept
  BY DEF WorkflowInv
<1>2. job' \in [Jobs -> Job]
      /\ \A i \in Jobs : job'[i].planned = job[i].planned /\ job'[i].status = job[i].status
  BY <1>1 DEF GrowQuiet, WorkflowTypeOK, Job
<1>3. JobCalm /\ JobStays
  BY <1>2 DEF JobCalm, JobStays, Is
<1> QED
  BY <1>1, <1>3, SameWalkers, SameDrafts, RestStays, CalmKeeps DEF GrowQuiet

LEMMA ReapKeeps ==
  ASSUME WorkflowInv, Reap
  PROVE  Kept
<1> DEFINE s == [j \in Jobs |-> Reaped(j)]
           hit == { j \in Jobs : s[j] # job[j].status }
<1>1. WorkflowTypeOK /\ OwnJob /\ NoteKept
  BY DEF WorkflowInv
<1>2. \A j \in hit : Reaped(j) \in { "failed", "cancelled" } /\ job[j].status \notin Ended
                     /\ Reaped(j) # job[j].status
  BY DEF Reaped, LongPhase, Is, Ended
<1>3. /\ \A j \in hit : Unlocked(j)
      /\ job' = [j \in Jobs |-> IF j \in hit THEN [job[j] EXCEPT !.status = s[j], !.quiet = FALSE]
                                ELSE job[j]]
  BY DEF Reap
<1>4. hit \subseteq Jobs /\ \A j \in hit : s[j] = Reaped(j)
  OBVIOUS
<1> HIDE DEF s, hit
<1>5. \A j \in Jobs : j \notin hit => job'[j] = job[j]
  BY <1>3
<1>6. \A j \in hit : job'[j] = [job[j] EXCEPT !.status = Reaped(j), !.quiet = FALSE]
  BY <1>3, <1>4
<1>7. \A j \in hit : /\ job'[j] \in Job /\ job'[j].status = Reaped(j)
                     /\ job'[j].planned = job[j].planned
  <2> SUFFICES ASSUME NEW j \in hit
               PROVE  /\ job'[j] \in Job /\ job'[j].status = Reaped(j)
                      /\ job'[j].planned = job[j].planned
    OBVIOUS
  <2>1. PICK v \in { "failed", "cancelled" } : v = Reaped(j)
    BY <1>2
  <2>2. job[j] \in Job /\ job'[j] = [job[j] EXCEPT !.status = v, !.quiet = FALSE]
    BY <1>1, <1>4, <1>6, <2>1 DEF WorkflowTypeOK
  <2> QED
    BY <2>1, <2>2 DEF Job, Status, Ended
<1>8. job' \in [Jobs -> Job]
  <2>1. job' = [j \in Jobs |-> job'[j]]
    BY <1>3
  <2> QED
    BY <1>1, <1>5, <1>7, <2>1 DEF WorkflowTypeOK
<1>9. JobCalm
  BY <1>2, <1>3, <1>5, <1>7, <1>8 DEF JobCalm, Is
<1>10. JobStays
  BY <1>2, <1>5, <1>7 DEF JobStays
<1>11. Rest
  BY <1>1 DEF Reap, Rest, WorkflowTypeOK, Ended
<1> QED
  BY <1>1, <1>9, <1>10, <1>11, SameWalkers, SameDrafts, CalmKeeps DEF Reap

LEMMA CrashKeeps ==
  ASSUME WorkflowInv, Crash
  PROVE  Kept
<1>1. WorkflowTypeOK /\ OwnJob /\ NoteKept
  BY DEF WorkflowInv
<1>2. \A w \in Walkers : /\ walker'[w] \in Walker /\ walker'[w].note = "none"
                         /\ walker'[w].pc \in { "idle", "gone" }
                         /\ w \in Components => walker'[w].job = w
  <2> SUFFICES ASSUME NEW w \in Walkers
               PROVE  /\ walker'[w] \in Walker /\ walker'[w].note = "none"
                      /\ walker'[w].pc \in { "idle", "gone" }
                      /\ w \in Components => walker'[w].job = w
    OBVIOUS
  <2>1. CASE w \in Components
    <3>1. walker'[w] = [Idle EXCEPT !.pc = "gone", !.job = w] /\ w \in Jobs
      BY <2>1, WorkflowAssumption DEF Crash
    <3> QED
      BY <3>1, IdleType DEF Idle, Walker, Labels
  <2>2. CASE w \notin Components
    <3>1. walker'[w] = Idle
      BY <2>2 DEF Crash
    <3> QED
      BY <2>2, <3>1, IdleType DEF Idle
  <2> QED
    BY <2>1, <2>2
<1>3. walker' \in [Walkers -> Walker]
  <2>1. walker' = [w \in Walkers |-> walker'[w]]
    BY DEF Crash
  <2>2. \A w \in Walkers : walker'[w] \in Walker
    BY <1>2
  <2> QED
    BY <2>1, <2>2
<1>4. WalkersCalm
  <2>1. \A w \in Walkers : walker'[w].pc \notin Watched /\ walker'[w].pc # "close"
    BY <1>2 DEF Watched
  <2>2. \A w \in Walkers : walker'[w].note = "none"
    BY <1>2
  <2>3. \A c \in Components : walker'[c].job = c
    BY <1>2 DEF Walkers
  <2> QED
    BY <1>3, <2>1, <2>2, <2>3 DEF WalkersCalm
<1>5. DraftsCalm
  BY DEF Crash, DraftsCalm
<1>6. Rest
  <2>1. chain' = [j \in Jobs |-> Nobody] /\ umbrella' = umbrella /\ Event
    BY DEF Crash
  <2>2. chain' \in [Jobs -> Chains \cup {Nobody}]
    BY <2>1
  <2>3. events' \in 0 .. MaxEvents
    BY <1>1, <2>1, WorkflowAssumption DEF WorkflowTypeOK, Event
  <2> QED
    BY <1>1, <2>1, <2>2, <2>3 DEF Rest, WorkflowTypeOK
<1> QED
  BY <1>1, <1>4, <1>5, <1>6, SameCalm, CalmKeeps DEF Crash

LEMMA CountKeeps ==
  ASSUME WorkflowInv, NEW w \in Walkers, Count(w)
  PROVE  Kept
<1>1. WorkflowTypeOK /\ OwnJob /\ NoteKept
  BY DEF WorkflowInv
<1>2. CASE Leave(w)
  BY <1>1, <1>2, SameCalm, LeaveCalm, SameDrafts, RestStays, CalmKeeps DEF Count
<1>3. CASE walker' = [walker EXCEPT ![w].pc = "close", ![w].note = Verdict]
  <2>1. PICK v \in { "awaiting_assist", "completed", "failed" } : v = Verdict
    BY DEF Verdict
  <2>2. walker'[w] = [walker[w] EXCEPT !.pc = "close", !.note = v] /\ walker[w] \in Walker
    BY <1>1, <1>3, <2>1 DEF WorkflowTypeOK
  <2>3. /\ walker'[w] \in Walker /\ walker'[w].pc = "close" /\ walker'[w].note = v
        /\ walker'[w].job = walker[w].job
    BY <2>2 DEF Walker, Labels
  <2>4. \A x \in Walkers : x # w => walker'[x] = walker[x]
    BY <1>1, <1>3 DEF WorkflowTypeOK
  <2>5. walker' \in [Walkers -> Walker]
    BY <1>1, <1>3, <2>3 DEF WorkflowTypeOK
  <2>6. \A c \in Components : c \in Walkers
    BY DEF Walkers
  <2>7. v # "none"
    OBVIOUS
  <2>8. WalkersCalm
    BY <1>1, <2>3, <2>4, <2>5, <2>6, <2>7 DEF OwnJob, NoteKept, WalkersCalm, At, JobOf, Watched
  <2> QED
    BY <1>1, <2>8, SameCalm, SameDrafts, RestStays, CalmKeeps DEF Count
<1> QED
  BY <1>2, <1>3 DEF Count

-----------------------------------------------------------------------------
(* The steps that are not calm: a gate opens or closes, a planner locks or  *)
(* commits, a draft begins.                                                 *)

\* What remains to be shown of a step whose types are clear.
LEMMA HeldKeeps ==
  ASSUME WorkflowTypeOK', OwnJob', NoteKept', Held', JobStays
  PROVE  Kept
BY DEF Kept, WorkflowInv, Held

\* Nobody else moves, so nobody plans or researches who did not.
LEMMA SameWorkers ==
  ASSUME walker' = walker
  PROVE  \A j \in Jobs : Researchers(j)' = Researchers(j) /\ Planners(j)' = Planners(j)
BY DEF Researchers, Planners, At, JobOf

LEMMA WrittenPlanners ==
  ASSUME Held, WorkflowTypeOK, NEW j \in Jobs, NEW v, Written(j, v), walker' = walker
  PROVE  PlannerHolds' /\ OneAtATime'
<1>1. \A i \in Jobs : Researchers(i)' = Researchers(i) /\ Planners(i)' = Planners(i)
  BY SameWorkers
<1>2. \A i \in Jobs : job'[i].planned = job[i].planned
  BY DEF Written
<1>3. OneAtATime'
  BY <1>1, <1>2 DEF Held, OneAtATime, Unlocked
<1>4. PlannerHolds'
  <2> SUFFICES ASSUME NEW w \in Walkers, At(w, "planning")
               PROVE  job'[JobOf(w)].status \in { "planning", "running" }
    BY DEF PlannerHolds, At, JobOf
  <2>1. JobOf(w) # j
    BY DEF Written, Unlocked, Planners
  <2>2. JobOf(w) \in Jobs
    BY DEF WorkflowTypeOK, Walker, JobOf
  <2> QED
    BY <2>1, <2>2 DEF Written, Held, PlannerHolds
<1> QED
  BY <1>3, <1>4

LEMMA RefinedKeeps ==
  ASSUME WorkflowInv, NEW d \in drafts, Refined(d)
  PROVE  Kept
<1> DEFINE j == d.job
           r == [job[j] EXCEPT !.status = "awaiting_confirmation", !.brief = d.text]
           n == [d EXCEPT !.pc = "assess"]
<1>1. WorkflowTypeOK /\ OwnJob /\ NoteKept /\ Held /\ d \in Draft
  BY DEF WorkflowInv, Held, WorkflowTypeOK
<1>2. j \in Jobs /\ d.text \in Texts /\ d.pc = "refine" /\ n \in Draft /\ n.pc = "assess"
  BY <1>1 DEF Refined, Draft
<1>3. r \in Job /\ r.planned = job[j].planned /\ r.status = "awaiting_confirmation"
  BY <1>1, <1>2 DEF WorkflowTypeOK, Job, Status
<1>4. Moves(j, "awaiting_confirmation")
  BY <1>1, <1>2, <1>3, TransitionMoves DEF Refined
<1>5. /\ drafts' = (drafts \ {d}) \cup {n} /\ walker' = walker
      /\ chain' = chain /\ umbrella' = umbrella /\ events' = events
  BY DEF Refined
<1>6. WorkflowTypeOK'
  <2>1. job' \in [Jobs -> Job]
    BY <1>1, <1>4 DEF Moves, Written, WorkflowTypeOK
  <2> QED
    BY <1>1, <1>2, <1>5, <2>1 DEF WorkflowTypeOK
<1>7. OwnJob' /\ NoteKept'
  BY <1>1, <1>5 DEF OwnJob, NoteKept, At, JobOf
<1>8. JobStays
  BY <1>4 DEF Moves, Written, JobStays
<1>9. Drafting(j)' = {} /\ \A i \in Jobs : Drafting(i)' \subseteq Drafting(i)
  <2>1. d \in Drafting(j) /\ \A e \in Drafting(j) : e = d
    BY <1>1, <1>2 DEF Drafting, Held, GateHeld
  <2> HIDE DEF n
  <2>2. \A i \in Jobs : Drafting(i)' \subseteq Drafting(i) /\ d \notin Drafting(i)'
    BY <1>2, <1>5 DEF Drafting
  <2> QED
    BY <1>2, <2>1, <2>2
<1>10. \A i \in Jobs : Researchers(i)' = Researchers(i) /\ (At(i, "queued")' <=> At(i, "queued"))
  BY <1>5, SameWorkers DEF At
<1>11. \A i \in Jobs : i # j => (Is(i, "awaiting_confirmation")' <=> Is(i, "awaiting_confirmation"))
  BY <1>4 DEF Moves, Written, Is
<1>12. /\ Researchers(j) = {} /\ ~(j \in Components /\ At(j, "queued"))
  BY <1>1, <1>2 DEF Held, GateHeld, Drafting
<1>13. GateHeld'
  <2> SUFFICES ASSUME NEW i \in Jobs
               PROVE  (/\ \A e, f \in Drafting(i) : e = f
                       /\ Drafting(i) # {} => Researchers(i) = {} /\ ~Is(i, "awaiting_confirmation")
                       /\ Is(i, "awaiting_confirmation") => Researchers(i) = {}
                       /\ i \in Components /\ At(i, "queued") =>
                            Drafting(i) = {} /\ Researchers(i) = {} /\ ~Is(i, "awaiting_confirmation"))'
    BY DEF GateHeld
  <2>1. CASE i = j
    BY <1>9, <1>10, <1>12, <2>1
  <2>2. CASE i # j
    BY <1>1, <1>9, <1>10, <1>11, <2>2 DEF Held, GateHeld
  <2> QED
    BY <2>1, <2>2
<1>14. PlannerHolds' /\ OneAtATime'
  <2>1. CASE job' = job
    <3>1. \A i \in Jobs : Planners(i)' = Planners(i)
      BY <1>5, SameWorkers
    <3> QED
      BY <1>1, <1>5, <1>10, <2>1, <3>1 DEF Held, PlannerHolds, OneAtATime, Unlocked, At, JobOf
  <2>2. CASE Written(j, "awaiting_confirmation")
    BY <1>1, <1>2, <1>5, <2>2, WrittenPlanners
  <2> QED
    BY <1>4, <2>1, <2>2 DEF Moves
<1> QED
  BY <1>6, <1>7, <1>8, <1>13, <1>14, HeldKeeps DEF Held

\* A draft begins for a job nobody drafts, researches or waits at the gate with.
LEMMA DraftBegins ==
  ASSUME WorkflowInv, NEW j \in Jobs, NEW n \in Draft, n.job = j, drafts' = drafts \cup {n},
         Drafting(j) = {}, Researchers(j) = {}, ~Is(j, "awaiting_confirmation")',
         ~(j \in Components /\ At(j, "queued"))',
         \A i \in Jobs : i # j => (Is(i, "awaiting_confirmation")' <=> Is(i, "awaiting_confirmation")),
         \A i \in Jobs : At(i, "queued")' /\ i \in Components => At(i, "queued"),
         \A i \in Jobs : Researchers(i)' = Researchers(i)
  PROVE  GateHeld'
<1> SUFFICES ASSUME NEW i \in Jobs
             PROVE  (/\ \A e, f \in Drafting(i) : e = f
                     /\ Drafting(i) # {} => Researchers(i) = {} /\ ~Is(i, "awaiting_confirmation")
                     /\ Is(i, "awaiting_confirmation") => Researchers(i) = {}
                     /\ i \in Components /\ At(i, "queued") =>
                          Drafting(i) = {} /\ Researchers(i) = {} /\ ~Is(i, "awaiting_confirmation"))'
  BY DEF GateHeld
<1>1. GateHeld
  BY DEF WorkflowInv
<1>2. CASE i = j
  <2>1. \A e \in Drafting(j)' : e = n
    BY DEF Drafting
  <2> QED
    BY <1>2, <2>1
<1>3. CASE i # j
  <2>1. Drafting(i)' = Drafting(i)
    BY <1>3 DEF Drafting
  <2> QED
    BY <1>1, <1>3, <2>1 DEF GateHeld
<1> QED
  BY <1>2, <1>3

LEMMA ReviseKeeps ==
  ASSUME WorkflowInv, NEW j \in Jobs, Revise(j)
  PROVE  Kept
<1> DEFINE t == job[j].text + 1
           r == [job[j] EXCEPT !.status = "refining", !.text = @ + 1, !.brief = 0]
           n == [job |-> j, text |-> t, pc |-> "refine"]
<1>1. WorkflowTypeOK /\ OwnJob /\ NoteKept /\ Held
  BY DEF WorkflowInv, Held
<1>2. t \in Texts /\ n \in Draft /\ n.job = j
  BY <1>1, WorkflowAssumption DEF Revise, WorkflowTypeOK, Job, Texts, Draft
<1>3. r \in Job /\ r.planned = job[j].planned /\ r.status = "refining"
  BY <1>1, <1>2 DEF WorkflowTypeOK, Job, Status
<1>4. /\ drafts' = drafts \cup {n} /\ walker' = walker /\ Touched(j, r)
      /\ chain' = chain /\ umbrella' = umbrella /\ events' = events
  BY DEF Revise
<1> HIDE DEF n, r
<1>5. Written(j, "refining")
  BY <1>1, <1>3, <1>4, TouchedWrites
<1>6. WorkflowTypeOK'
  BY <1>1, <1>2, <1>4, <1>5 DEF WorkflowTypeOK, Written
<1>7. OwnJob' /\ NoteKept'
  BY <1>1, <1>4 DEF OwnJob, NoteKept, At, JobOf
<1>8. JobStays
  BY <1>5 DEF Revise, Written, JobStays, Is, Ended
<1>9. Drafting(j) = {} /\ Researchers(j) = {} /\ ~(j \in Components /\ At(j, "queued"))
  BY <1>1 DEF Revise, Held, GateHeld
<1>10. \A i \in Jobs : Researchers(i)' = Researchers(i) /\ (At(i, "queued")' <=> At(i, "queued"))
  BY <1>4, SameWorkers DEF At
<1>11. ~Is(j, "awaiting_confirmation")'
       /\ \A i \in Jobs : i # j => (Is(i, "awaiting_confirmation")' <=> Is(i, "awaiting_confirmation"))
  BY <1>5 DEF Written, Is
<1>12. GateHeld'
  BY <1>2, <1>4, <1>9, <1>10, <1>11, DraftBegins
<1>13. PlannerHolds' /\ OneAtATime'
  BY <1>1, <1>4, <1>5, WrittenPlanners
<1> QED
  BY <1>6, <1>7, <1>8, <1>12, <1>13, HeldKeeps DEF Held

\* Somebody moves to where nobody is watched.
LEMMA WentWorkers ==
  ASSUME NEW w \in Walkers, NEW l, Went(w, l), ~At(w, "research"), ~At(w, "planning")
  PROVE  \A i \in Jobs :
           /\ Researchers(i)' = IF l = "research" /\ JobOf(w) = i THEN Researchers(i) \cup {w}
                                ELSE Researchers(i)
           /\ Planners(i)' = IF l = "planning" /\ JobOf(w) = i THEN Planners(i) \cup {w}
                             ELSE Planners(i)
<1>1. /\ \A x \in Walkers : x # w => walker'[x] = walker[x]
      /\ walker'[w].pc = l /\ walker'[w].job = walker[w].job
  BY DEF Went
<1> QED
  BY <1>1 DEF Researchers, Planners, At, JobOf

LEMMA WentTyped ==
  ASSUME WorkflowTypeOK, OwnJob, NoteKept, NEW w \in Walkers, NEW l, Went(w, l),
         l # "close", ~At(w, "close")
  PROVE  walker' \in [Walkers -> Walker] /\ OwnJob' /\ NoteKept'
<1>1. /\ walker' \in [Walkers -> Walker] /\ \A x \in Walkers : x # w => walker'[x] = walker[x]
      /\ walker'[w].pc = l /\ walker'[w].job = walker[w].job /\ walker'[w].note = walker[w].note
  BY DEF Went
<1>2. \A c \in Components : c \in Walkers
  BY DEF Walkers
<1> QED
  BY <1>1, <1>2 DEF OwnJob, NoteKept, At, JobOf

LEMMA EnterKeeps ==
  ASSUME WorkflowInv, NEW w \in Components, Enter(w)
  PROVE  Kept
<1> DEFINE n == [job |-> w, text |-> 1, pc |-> "refine"]
<1>1. WorkflowTypeOK /\ OwnJob /\ NoteKept /\ Held /\ w \in Walkers /\ w \in Jobs
  BY WorkflowAssumption DEF WorkflowInv, Held, Walkers
<1>2. n \in Draft /\ n.job = w
  BY <1>1, WorkflowAssumption DEF Draft, Texts
<1>3. /\ drafts' = drafts \cup {n} /\ job' = job /\ Goto(w, "draft") /\ At(w, "queued")
      /\ chain' = chain /\ umbrella' = umbrella /\ events' = events
  BY DEF Enter
<1> HIDE DEF n
<1>4. Went(w, "draft")
  BY <1>1, <1>3, GotoGoes DEF Labels
<1>5. ~At(w, "close") /\ ~At(w, "research") /\ ~At(w, "planning")
  BY <1>3 DEF At
<1>6. walker' \in [Walkers -> Walker] /\ OwnJob' /\ NoteKept'
  BY <1>1, <1>4, <1>5, WentTyped
<1>7. WorkflowTypeOK'
  BY <1>1, <1>2, <1>3, <1>6 DEF WorkflowTypeOK
<1>8. \A i \in Jobs : Researchers(i)' = Researchers(i) /\ Planners(i)' = Planners(i)
  BY <1>1, <1>4, <1>5, WentWorkers
<1>9. Drafting(w) = {} /\ Researchers(w) = {} /\ ~Is(w, "awaiting_confirmation")
  BY <1>1, <1>3 DEF Held, GateHeld
<1>10. \A i \in Jobs : Is(i, "awaiting_confirmation")' <=> Is(i, "awaiting_confirmation")
  BY <1>3 DEF Is
<1>11. ~At(w, "queued")' /\ \A i \in Jobs : At(i, "queued")' /\ i \in Components => At(i, "queued")
  BY <1>1, <1>3, <1>4 DEF Went, At, Walkers
<1>12. GateHeld'
  BY <1>1, <1>2, <1>3, <1>8, <1>9, <1>10, <1>11, DraftBegins
<1>13. PlannerHolds' /\ OneAtATime'
  <2>1. PlannerHolds'
    BY <1>1, <1>3, <1>4 DEF Held, PlannerHolds, Went, At, JobOf
  <2> QED
    BY <1>1, <1>3, <1>8, <2>1 DEF Held, OneAtATime, Unlocked
<1> QED
  BY <1>3, <1>6, <1>7, <1>12, <1>13, SameCalm, <1>1, HeldKeeps DEF Held

LEMMA ConfirmKeeps ==
  ASSUME WorkflowInv, NEW w \in Walkers, NEW j \in Jobs, j = JobOf(w), Confirm(w)
  PROVE  Kept
<1> DEFINE b == BriefToUse(j)
<1>1. WorkflowTypeOK /\ OwnJob /\ NoteKept /\ Held
  BY DEF WorkflowInv, Held
<1>2. CASE Finish(w) /\ job' = job
  BY <1>1, <1>2, SameCalm, FinishCalm, SameDrafts, RestStays, CalmKeeps DEF Confirm
<1>3. CASE /\ Confirmable(j) /\ Set(j, "researching")
           /\ walker' = [walker EXCEPT ![w].pc = "research", ![w].brief = b]
  <2>1. b \in Texts \cup {0}
    BY <1>1 DEF BriefToUse, WorkflowTypeOK, Job
  <2> HIDE DEF b
  <2>2. walker'[w] = [walker[w] EXCEPT !.pc = "research", !.brief = b] /\ walker[w] \in Walker
    BY <1>1, <1>3 DEF WorkflowTypeOK
  <2>3. /\ walker'[w] \in Walker /\ walker'[w].pc = "research"
        /\ walker'[w].job = walker[w].job /\ walker'[w].note = walker[w].note
    BY <2>1, <2>2 DEF Walker, Labels
  <2>4. Went(w, "research")
    BY <1>1, <1>3, <2>3 DEF WorkflowTypeOK, Went
  <2>5. At(w, "confirm") /\ ~At(w, "close") /\ ~At(w, "research") /\ ~At(w, "planning")
    BY DEF Confirm, At
  <2>6. walker' \in [Walkers -> Walker] /\ OwnJob' /\ NoteKept'
    BY <1>1, <2>4, <2>5, WentTyped
  <2>7. Written(j, "researching")
    BY <1>1, <1>3, SetWrites DEF Status
  <2>8. WorkflowTypeOK'
    BY <1>1, <2>6, <2>7 DEF Confirm, WorkflowTypeOK, Written
  <2>9. JobStays
    BY <1>3, <2>7 DEF Written, JobStays, Confirmable, Is, Ended
  <2>10. /\ Researchers(j)' = Researchers(j) \cup {w}
         /\ \A i \in Jobs : i # j => Researchers(i)' = Researchers(i)
         /\ \A i \in Jobs : Planners(i)' = Planners(i)
    BY <1>1, <2>4, <2>5, WentWorkers
  <2>11. /\ Researchers(j) = {} /\ Drafting(j) = {} /\ ~(j \in Components /\ At(j, "queued"))
    BY <1>1, <1>3 DEF Held, GateHeld, Confirmable
  <2>12. \A i \in Jobs : Drafting(i)' = Drafting(i)
    BY DEF Confirm, Drafting
  <2>13. ~Is(j, "awaiting_confirmation")'
         /\ \A i \in Jobs : i # j => (Is(i, "awaiting_confirmation")' <=> Is(i, "awaiting_confirmation"))
    BY <2>7 DEF Written, Is
  <2>14. \A i \in Jobs \cap Components : At(i, "queued")' => At(i, "queued")
    BY <2>4 DEF Went, At, Walkers
  <2>15. GateHeld'
    <3> SUFFICES ASSUME NEW i \in Jobs
                 PROVE  (/\ \A d, e \in Drafting(i) : d = e
                         /\ Drafting(i) # {} => Researchers(i) = {} /\ ~Is(i, "awaiting_confirmation")
                         /\ Is(i, "awaiting_confirmation") => Researchers(i) = {}
                         /\ i \in Components /\ At(i, "queued") =>
                              Drafting(i) = {} /\ Researchers(i) = {} /\ ~Is(i, "awaiting_confirmation"))'
      BY DEF GateHeld
    <3>1. CASE i = j
      BY <2>11, <2>12, <2>13, <2>14, <3>1
    <3>2. CASE i # j
      BY <1>1, <2>10, <2>12, <2>13, <2>14, <3>2 DEF Held, GateHeld
    <3> QED
      BY <3>1, <3>2
  <2>16. OneAtATime'
    <3>1. \A i \in Jobs : job'[i].planned = job[i].planned
      BY <2>7 DEF Written
    <3>2. \A v, x \in Researchers(j)' : v = x
      BY <2>10, <2>11
    <3>3. \A i \in Jobs : \A v, x \in Researchers(i)' : v = x
      BY <1>1, <2>10, <3>2 DEF Held, OneAtATime
    <3> QED
      BY <1>1, <2>10, <3>1, <3>3 DEF Held, OneAtATime, Unlocked
  <2>17. PlannerHolds'
    <3> SUFFICES ASSUME NEW x \in Walkers, At(x, "planning")'
                 PROVE  job'[JobOf(x)'].status \in { "planning", "running" }
      BY DEF PlannerHolds
    <3>1. x # w /\ walker'[x] = walker[x]
      BY <2>4 DEF Went, At
    <3>2. At(x, "planning") /\ JobOf(x)' = JobOf(x) /\ JobOf(x) \in Jobs
      BY <1>1, <3>1 DEF At, JobOf, WorkflowTypeOK, Walker
    <3>3. JobOf(x) # j
      BY <2>7, <3>2 DEF Written, Unlocked, Planners
    <3> QED
      BY <1>1, <2>7, <3>2, <3>3 DEF Written, Held, PlannerHolds
  <2> QED
    BY <2>6, <2>8, <2>9, <2>15, <2>16, <2>17, HeldKeeps DEF Held
<1> QED
  BY <1>2, <1>3 DEF Confirm

LEMMA LockToPlanKeeps ==
  ASSUME WorkflowInv, NEW w \in Walkers, NEW j \in Jobs, j = JobOf(w), LockToPlan(w)
  PROVE  Kept
<1>1. WorkflowTypeOK /\ OwnJob /\ NoteKept /\ Held
  BY DEF WorkflowInv, Held
<1>2. At(w, "plan") /\ ~At(w, "close") /\ ~At(w, "research") /\ ~At(w, "planning")
  BY DEF LockToPlan, At
<1>3. /\ job' = job /\ drafts' = drafts
      /\ chain' = chain /\ umbrella' = umbrella /\ events' = events
  BY DEF LockToPlan
<1>4. CASE Goto(w, "work") \/ Finish(w)
  <2>1. WalkersCalm
    BY <1>1, <1>2, <1>4, GotoCalm, FinishCalm DEF Labels, Watched
  <2> QED
    BY <1>1, <1>3, <2>1, SameCalm, SameDrafts, RestStays, CalmKeeps
<1>5. CASE Plannable(j) /\ Goto(w, "planning")
  <2>1. Went(w, "planning")
    BY <1>1, <1>5, GotoGoes DEF Labels
  <2>2. walker' \in [Walkers -> Walker] /\ OwnJob' /\ NoteKept'
    BY <1>1, <1>2, <2>1, WentTyped
  <2>3. WorkflowTypeOK'
    BY <1>1, <1>3, <2>2 DEF WorkflowTypeOK
  <2>4. /\ Planners(j)' = Planners(j) \cup {w}
        /\ \A i \in Jobs : i # j => Planners(i)' = Planners(i)
        /\ \A i \in Jobs : Researchers(i)' = Researchers(i)
    BY <1>1, <1>2, <2>1, WentWorkers
  <2>5. /\ Planners(j) = {} /\ ~job[j].planned
        /\ job[j].status \in { "planning", "running" }
    BY <1>5 DEF Plannable, Plannable_Unlocked, Unlocked
  <2>6. \A i \in Jobs \cap Components : At(i, "queued")' => At(i, "queued")
    BY <2>1 DEF Went, At, Walkers
  <2>7. GateHeld'
    <3>1. \A i \in Jobs : Drafting(i)' = Drafting(i)
                        /\ (Is(i, "awaiting_confirmation")' <=> Is(i, "awaiting_confirmation"))
      BY <1>3 DEF Drafting, Is
    <3> QED
      BY <1>1, <2>4, <2>6, <3>1 DEF Held, GateHeld
  <2>8. OneAtATime'
    <3>1. \A v, x \in Planners(j)' : v = x
      BY <2>4, <2>5
    <3>2. \A i \in Jobs : \A v, x \in Planners(i)' : v = x
      BY <1>1, <2>4, <3>1 DEF Held, OneAtATime
    <3> QED
      BY <1>1, <1>3, <2>4, <2>5, <3>2 DEF Held, OneAtATime, Unlocked
  <2>9. PlannerHolds'
    BY <1>1, <1>3, <2>1, <2>5 DEF Held, PlannerHolds, Went, At, JobOf
  <2> QED
    BY <1>1, <1>3, <2>2, <2>3, <2>7, <2>8, <2>9, SameCalm, HeldKeeps DEF Held
<1> QED
  BY <1>4, <1>5 DEF LockToPlan

\* The planner's commit ends its hold on the row, and nobody else had one.
LEMMA CommitKeeps ==
  ASSUME WorkflowInv, NEW w \in Walkers, NEW j \in Jobs, j = JobOf(w), At(w, "planning"),
         NEW r \in Job, Committed(w, r), r.status # "awaiting_confirmation",
         WalkersCalm, ~At(w, "planning")', drafts' = drafts, Rest
  PROVE  Kept
<1>1. WorkflowTypeOK /\ OwnJob /\ NoteKept /\ Held
  BY DEF WorkflowInv, Held
<1>2. /\ job' \in [Jobs -> Job] /\ \A i \in Jobs : i # j => job'[i] = job[i]
      /\ job'[j].status = r.status
  BY <1>1 DEF Committed, WorkflowTypeOK, Job
<1>3. DraftsCalm
  BY <1>1, SameDrafts
<1>4. WorkflowTypeOK' /\ OwnJob' /\ NoteKept'
  BY <1>2, <1>3 DEF WalkersCalm, DraftsCalm, Rest, WorkflowTypeOK, OwnJob, NoteKept, At, JobOf
<1>5. \A i \in Jobs : Researchers(i)' \subseteq Researchers(i) /\ Planners(i)' \subseteq Planners(i)
  BY DEF WalkersCalm, Researchers, Planners, At, JobOf, Watched
<1>6. Planners(j)' = {}
  <2>1. \A v \in Planners(j) : v = w
    BY <1>1 DEF Held, OneAtATime, Planners
  <2>2. w \notin Planners(j)'
    BY DEF Planners
  <2> QED
    BY <1>1, <1>5, <2>1, <2>2
<1>7. Neutral
  <2>1. \A i \in Jobs : Drafting(i)' \subseteq Drafting(i)
    BY <1>3 DEF DraftsCalm, Drafting
  <2>2. \A i \in Jobs : i \in Components /\ walker'[i].pc = "queued" => At(i, "queued")
    BY DEF WalkersCalm, At, Watched, Walkers
  <2> QED
    BY <1>2, <1>5, <1>6, <2>1, <2>2 DEF Neutral, Is
<1>8. JobStays
  BY <1>1, <1>2 DEF Held, PlannerHolds, JobStays, Ended
<1> QED
  BY <1>1, <1>4, <1>7, <1>8, NeutralHolds, HeldKeeps

LEMMA AfterPlanCalm ==
  ASSUME WorkflowInv, NEW w \in Walkers, At(w, "planning"), AfterPlan(w) \/ Finish(w)
  PROVE  WalkersCalm /\ ~At(w, "planning")'
<1>1. WorkflowTypeOK /\ OwnJob /\ NoteKept /\ ~At(w, "close")
  BY DEF WorkflowInv, At
<1>2. CASE Finish(w)
  BY <1>1, <1>2, FinishCalm, FinishResets DEF Reset, At
<1>3. CASE Goto(w, "work") \/ Goto(w, "tail") \/ Goto(w, "run")
  <2>1. PICK l \in { "work", "tail", "run" } : Goto(w, l)
    BY <1>3
  <2>2. Went(w, l)
    BY <1>1, <2>1, GotoGoes DEF Labels
  <2> QED
    BY <1>1, <2>1, <2>2, WentCalm DEF Watched, Went, At
<1> QED
  BY <1>2, <1>3 DEF AfterPlan

LEMMA PlannedKeeps ==
  ASSUME WorkflowInv, NEW w \in Walkers, NEW j \in Jobs, j = JobOf(w), Planned(w)
  PROVE  Kept
<1> DEFINE r == [job[j] EXCEPT !.planned = TRUE, !.status = "executing"]
<1>1. WorkflowTypeOK
  BY DEF WorkflowInv
<1>2. r \in Job /\ r.status # "awaiting_confirmation"
  BY <1>1 DEF WorkflowTypeOK, Job, Status
<1>3. /\ At(w, "planning") /\ Committed(w, r) /\ AfterPlan(w)
      /\ drafts' = drafts /\ chain' = chain /\ umbrella' = umbrella /\ events' = events
  BY DEF Planned
<1> HIDE DEF r
<1> QED
  BY <1>1, <1>2, <1>3, AfterPlanCalm, RestStays, CommitKeeps

LEMMA PlanFailsKeeps ==
  ASSUME WorkflowInv, NEW w \in Walkers, NEW j \in Jobs, j = JobOf(w), PlanFails(w)
  PROVE  Kept
<1> DEFINE r == [job[j] EXCEPT !.status = "failed"]
<1>1. WorkflowTypeOK
  BY DEF WorkflowInv
<1>2. r \in Job /\ r.status # "awaiting_confirmation"
  BY <1>1 DEF WorkflowTypeOK, Job, Status, Ended
<1>3. /\ At(w, "planning") /\ Committed(w, r) /\ (AfterPlan(w) \/ Finish(w))
      /\ drafts' = drafts /\ chain' = chain /\ umbrella' = umbrella /\ Event
  BY DEF PlanFails
<1> HIDE DEF r
<1> QED
  BY <1>1, <1>2, <1>3, AfterPlanCalm, RestStays, CommitKeeps

-----------------------------------------------------------------------------
(* The theorems.                                                            *)

LEMMA StutterKeeps == WorkflowInv /\ UNCHANGED workflowVars => Kept
BY DEF WorkflowInv, workflowVars, Kept, JobStays, WorkflowTypeOK, OwnJob, NoteKept, PlannerHolds,
       GateHeld, OneAtATime, Drafting, Researchers, Planners, Unlocked, At, JobOf, Is

THEOREM InvNext == WorkflowInv /\ [WorkflowNext]_workflowVars => Kept
<1> SUFFICES ASSUME WorkflowInv, WorkflowNext PROVE Kept
  BY StutterKeeps
<1>1. ASSUME NEW d \in drafts, Refined(d) \/ DraftFails(d) \/ Assessed(d) PROVE Kept
  BY <1>1, RefinedKeeps, DraftFailsKeeps, AssessedKeeps
<1>2. ASSUME NEW w \in Components, Enter(w) \/ Drafted(w) PROVE Kept
  BY <1>2, EnterKeeps, DraftedKeeps
<1>3. ASSUME NEW w \in Chains, ChainNext(w) PROVE Kept
  <2>1. ASSUME NEW j \in Jobs, NEW runs \in BOOLEAN, Approve(w, j, runs) \/ ResumeStranded(w, j, runs)
        PROVE  Kept
    BY <2>1, AskedKeeps DEF Approve, ResumeStranded
  <2> QED
    BY <1>3, <2>1, StartChainKeeps, ChooseKeeps DEF ChainNext
<1>4. ASSUME NEW w \in Requests, RequestNext(w) PROVE Kept
  <2>1. ASSUME NEW j \in Jobs, NEW first \in { "confirm", "plan" }, NEW runs \in BOOLEAN,
               Advance(w, j, first, runs)
        PROVE  Kept
    BY <2>1, AdvanceKeeps
  <2>2. ASSUME NEW j \in Jobs, Run(w, j) \/ WalkEnds(w, j) PROVE Kept
    BY <2>2, RunKeeps, WalkEndsKeeps
  <2>3. w \in Walkers
    BY DEF Walkers
  <2> QED
    BY <1>4, <2>1, <2>2, <2>3, TabClosedKeeps DEF RequestNext
<1>5. ASSUME NEW w \in Walkers, WalkerNext(w) PROVE Kept
  <2>1. PICK j \in Jobs : j = JobOf(w)
    BY DEF WorkflowInv, WorkflowTypeOK, Walker, JobOf
  <2>2. CASE Confirm(w) \/ LockToPlan(w) \/ Planned(w) \/ PlanFails(w)
    BY <2>1, <2>2, ConfirmKeeps, LockToPlanKeeps, PlannedKeeps, PlanFailsKeeps
  <2> QED
    BY <1>5, <2>2, ResearchedKeeps, ResearchFailsKeeps, AdmitKeeps, RunEndsKeeps,
       CountKeeps, CloseKeeps, RollupLostKeeps DEF WalkerNext
<1>6. ASSUME NEW j \in Jobs, Revise(j) \/ TakeUp(j) \/ Abandon(j) \/ Cancel(j) \/ GrowQuiet(j)
      PROVE  Kept
  BY <1>6, ReviseKeeps, TakeUpKeeps, AbandonKeeps, GrowQuietKeeps
<1>7. CASE CancelUmbrella \/ Reap \/ Crash
  BY <1>7, CancelUmbrellaKeeps, ReapKeeps, CrashKeeps
<1> QED
  BY <1>1, <1>2, <1>3, <1>4, <1>5, <1>6, <1>7 DEF WorkflowNext

\* The whole invariant: types, whose job a pipeline carries, what a verdict's note
\* means, what a planner holds and who may stand behind the gate.
THEOREM WorkflowInvariant == WorkflowSpec => []WorkflowInv
<1>1. WorkflowInit => WorkflowInv
  BY InvInit
<1>2. WorkflowInv /\ [WorkflowNext]_workflowVars => WorkflowInv'
  BY InvNext DEF Kept
<1> QED
  BY <1>1, <1>2, PTL DEF WorkflowSpec

\* At most one planner of a job, only while it has no plan, and at most one
\* researcher, however many chains, streams, pipelines and runs carry it
\* (generate_dag's lock, research_and_compile's claim).
THEOREM OneCarrier == WorkflowSpec => []OneAtATime
<1>1. WorkflowInv => OneAtATime
  BY DEF WorkflowInv
<1> QED
  BY <1>1, WorkflowInvariant, PTL

\* No late write brings an ended job back: transition's guard everywhere, and the
\* row lock where the planner writes without it.
THEOREM NoLateWrite == WorkflowSpec => NotResurrected
<1>1. WorkflowInv /\ [WorkflowNext]_workflowVars
        => [\A j \in Jobs : job[j].status \in Ended /\ ~Is(j, job'[j].status)
              => job'[j].status \in { "running", "executing", "assisted" }]_job
  BY InvNext DEF Kept, JobStays, Operators, Is
<1> QED
  BY <1>1, WorkflowInvariant, PTL DEF WorkflowSpec, NotResurrected

-----------------------------------------------------------------------------
(* The umbrella keeps the promise of Rollup.                                *)

LEMMA KindIsKind == \A v : Kind(v) \in Promise!Kinds
BY DEF Kind, Promise!Kinds

LEMMA KindsOf ==
  \A v \in Status : /\ Kind(v) # "busy" <=> v \in Resting
                    /\ Kind(v) = "parked" <=> v = "awaiting_assist"
                    /\ Kind(v) = "done" <=> v = "completed"
                    /\ Kind(v) = "over" <=> v \in Over \ {"completed"}
BY DEF Kind, Status, Ended, Resting, Over

SameNotes == \A w \in Walkers : walker'[w].note = walker[w].note

LEMMA MoveMoves ==
  ASSUME SameNotes, umbrella' = umbrella
  PROVE  Promise!Move
BY KindIsKind DEF SameNotes, Promise!Move

LEMMA GotoNotes ==
  ASSUME WorkflowTypeOK, NEW w \in Walkers, NEW l \in Labels, Goto(w, l)
  PROVE  SameNotes
BY GotoGoes DEF Went, SameNotes

LEMMA ResetNotes ==
  ASSUME NoteKept, NEW w \in Walkers, NEW l, Reset(w, l), ~At(w, "close")
  PROVE  SameNotes
BY DEF Reset, SameNotes, NoteKept

LEMMA FinishNotes ==
  ASSUME WorkflowTypeOK, NoteKept, NEW w \in Walkers, Finish(w), ~At(w, "close")
  PROVE  SameNotes
BY FinishResets, ResetNotes

LEMMA BornNotes ==
  ASSUME WorkflowTypeOK, NoteKept, NEW w \in Walkers, NEW r, r.note = "none", At(w, "idle"),
         walker' = [walker EXCEPT ![w] = r]
  PROVE  SameNotes
BY DEF WorkflowTypeOK, NoteKept, At, SameNotes

LEMMA SameWalkersNotes == ASSUME walker' = walker PROVE SameNotes
BY DEF SameNotes

\* Chains and requests have no part in it.
LEMMA ChainMoves ==
  ASSUME WorkflowInv, NEW w \in Chains, ChainNext(w)
  PROVE  Promise!Move
<1>1. WorkflowTypeOK /\ NoteKept /\ w \in Walkers
  BY DEF WorkflowInv, Walkers
<1>2. ASSUME NEW j \in Jobs, NEW runs \in BOOLEAN, Asked(w, j, runs)
      PROVE  SameNotes /\ umbrella' = umbrella
  <2> DEFINE r == [Idle EXCEPT !.pc = "starting", !.job = j, !.runs = runs]
  <2>1. r.note = "none"
    BY IdleType DEF Idle, Walker
  <2> QED
    BY <1>1, <1>2, <2>1, BornNotes DEF Asked
<1>3. CASE StartChain(w)
  BY <1>1, <1>3, GotoNotes, MoveMoves DEF StartChain, Labels
<1>4. CASE Choose(w)
  <2>1. ~At(w, "close") /\ umbrella' = umbrella
    BY <1>4 DEF Choose, At
  <2>2. Goto(w, "confirm") \/ Goto(w, "plan") \/ Goto(w, "run") \/ Finish(w)
    BY <1>4 DEF Choose
  <2> QED
    BY <1>1, <2>1, <2>2, GotoNotes, FinishNotes, MoveMoves DEF Labels
<1> QED
  BY <1>2, <1>3, <1>4, MoveMoves DEF ChainNext, Approve, ResumeStranded

LEMMA RequestMoves ==
  ASSUME WorkflowInv, NEW w \in Requests, RequestNext(w)
  PROVE  Promise!Move
<1>1. WorkflowTypeOK /\ NoteKept /\ w \in Walkers
  BY DEF WorkflowInv, Walkers
<1>2. ASSUME NEW j \in Jobs, NEW first \in { "confirm", "plan" }, NEW runs \in BOOLEAN,
             Advance(w, j, first, runs)
      PROVE  SameNotes /\ umbrella' = umbrella
  <2> DEFINE r == [Idle EXCEPT !.pc = first, !.job = j, !.runs = runs]
  <2>1. r.note = "none"
    BY IdleType DEF Idle, Walker
  <2> QED
    BY <1>1, <1>2, <2>1, BornNotes DEF Advance
<1>3. ASSUME NEW j \in Jobs, Run(w, j)
      PROVE  SameNotes /\ umbrella' = umbrella
  <2> DEFINE r == [Idle EXCEPT !.pc = "run", !.job = j]
  <2>1. r.note = "none"
    BY IdleType DEF Idle, Walker
  <2> QED
    BY <1>1, <1>3, <2>1, BornNotes DEF Run
<1>4. ASSUME NEW j \in Jobs, WalkEnds(w, j)
      PROVE  SameNotes /\ umbrella' = umbrella
  BY <1>1, <1>4, GotoNotes, SameWalkersNotes DEF WalkEnds, Labels
<1>5. CASE TabClosed(w)
  BY <1>1, <1>5, FinishNotes, MoveMoves DEF TabClosed, At
<1> QED
  BY <1>2, <1>3, <1>4, <1>5, MoveMoves DEF RequestNext

LEMMA DrawDraws ==
  ASSUME WorkflowInv, NEW w \in Walkers, Count(w)
  PROVE  Promise!Draw(w) \/ Promise!Move
<1>1. WorkflowTypeOK /\ NoteKept /\ umbrella' = umbrella /\ job' = job /\ At(w, "rollup")
  BY DEF WorkflowInv, Count
<1>2. CASE Leave(w)
  <2>1. SameNotes
    BY <1>1, <1>2, LeaveResets, ResetNotes DEF At
  <2> QED
    BY <1>1, <2>1, MoveMoves
<1>3. CASE Countable /\ walker' = [walker EXCEPT ![w].pc = "close", ![w].note = Verdict]
  <2> DEFINE kid == [c \in Components |-> Kind(job[c].status)]
  <2>1. \A c \in Components : job[c].status \in Status
    BY <1>1, WorkflowAssumption DEF WorkflowTypeOK, Job
  <2>2. Promise!AtRest(kid)
    BY <1>3, <2>1, KindsOf DEF Countable, Promise!AtRest
  <2>3. Promise!Verdict(kid) = Verdict
    <3>1. CASE \E c \in Components : Is(c, "awaiting_assist")
      <4>1. \E c \in Components : kid[c] = "parked"
        BY <2>1, <3>1, KindsOf DEF Is
      <4> QED
        BY <3>1, <4>1 DEF Verdict, Promise!Verdict
    <3>2. CASE ~ \E c \in Components : Is(c, "awaiting_assist")
      <4>1. ~ \E c \in Components : kid[c] = "parked"
        BY <2>1, <3>2, KindsOf DEF Is
      <4>2. (\A c \in Components : kid[c] = "over") <=> ~ \E c \in Components : Is(c, "completed")
        BY <1>3, <2>1, <3>2, KindsOf DEF Is, Countable, Resting
      <4> HIDE DEF kid
      <4> QED
        BY <3>2, <4>1, <4>2 DEF Verdict, Promise!Verdict
    <3> QED
      BY <3>1, <3>2
  <2>4. \A x \in Walkers : walker'[x].note = IF x = w THEN Verdict ELSE walker[x].note
    BY <1>1, <1>3 DEF WorkflowTypeOK, Walker
  <2>5. [x \in Walkers |-> walker'[x].note]
          = [[x \in Walkers |-> walker[x].note] EXCEPT ![w] = Promise!Verdict(kid)]
    BY <2>3, <2>4
  <2> QED
    BY <1>1, <2>2, <2>5 DEF Promise!Draw
<1> QED
  BY <1>2, <1>3 DEF Count

LEMMA GiveGives ==
  ASSUME WorkflowInv, NEW w \in Walkers, Close(w)
  PROVE  Promise!Give(w)
<1>1. WorkflowTypeOK /\ NoteKept /\ job' = job /\ At(w, "close") /\ Leave(w)
      /\ umbrella' = IF Gatherable THEN walker[w].note ELSE umbrella
  BY DEF WorkflowInv, Close
<1>2. walker[w].note # "none"
  BY <1>1 DEF NoteKept
<1>3. \A x \in Walkers : walker'[x].note = IF x = w THEN "none" ELSE walker[x].note
  BY <1>1, LeaveResets DEF Reset
<1> QED
  BY <1>1, <1>2, <1>3 DEF Promise!Give, Promise!Open, Gatherable

LEMMA LostForgets ==
  ASSUME WorkflowInv, NEW w \in Walkers, RollupLost(w)
  PROVE  Promise!Forget
<1>1. WorkflowTypeOK /\ job' = job /\ umbrella' = umbrella /\ Leave(w)
  BY DEF WorkflowInv, RollupLost
<1>2. \A x \in Walkers : walker'[x].note = IF x \in {w} THEN "none" ELSE walker[x].note
  BY <1>1, LeaveResets DEF Reset
<1>3. {w} \in SUBSET Walkers
  OBVIOUS
<1> QED
  BY <1>1, <1>2, <1>3 DEF Promise!Forget

LEMMA CrashForgets ==
  ASSUME WorkflowInv, Crash
  PROVE  Promise!Forget
<1>1. job' = job /\ umbrella' = umbrella
  BY DEF Crash
<1>2. \A x \in Walkers : walker'[x].note = IF x \in Walkers THEN "none" ELSE walker[x].note
  <2> SUFFICES ASSUME NEW x \in Walkers PROVE walker'[x].note = "none"
    OBVIOUS
  <2>1. walker'[x] = [Idle EXCEPT !.pc = "gone", !.job = x] \/ walker'[x] = Idle
    BY DEF Crash
  <2> QED
    BY <2>1, IdleType DEF Idle, Walker
<1> QED
  BY <1>1, <1>2 DEF Promise!Forget

LEMMA ReapSweeps ==
  ASSUME WorkflowInv, Kept, Reap
  PROVE  Promise!SweepAll \/ Promise!Move
<1> DEFINE s == [j \in Jobs |-> Reaped(j)]
<1>1. SameNotes /\ walker' = walker
  BY SameWalkersNotes DEF Reap
<1>2. CASE umbrella' = umbrella
  BY <1>1, <1>2, MoveMoves
<1>3. CASE umbrella' # umbrella
  <2>1. /\ Sweepable(s)
        /\ umbrella' = IF \E c \in Components : s[c] = "completed" THEN "completed" ELSE "failed"
    BY <1>3 DEF Reap
  <2>2. \A c \in Components : job'[c].status = s[c] /\ s[c] \in Over
    <3> SUFFICES ASSUME NEW c \in Components PROVE job'[c].status = s[c]
      BY <2>1 DEF Sweepable
    <3>1. c \in Jobs
      BY WorkflowAssumption
    <3>2. job[c] \in Job
      BY <3>1 DEF WorkflowInv, WorkflowTypeOK
    <3>3. job'[c] = IF s[c] # job[c].status THEN [job[c] EXCEPT !.status = s[c], !.quiet = FALSE]
                    ELSE job[c]
      BY <3>1 DEF Reap
    <3> HIDE DEF s
    <3> QED
      BY <3>2, <3>3 DEF Job
  <2> HIDE DEF s
  <2> DEFINE kidN == [c \in Components |-> Kind(job'[c].status)]
  <2>3. \A c \in Components : s[c] \in Status
    BY <2>2 DEF Over, Status, Ended
  <2>4. /\ \A c \in Components : kidN[c] # "busy" /\ kidN[c] # "parked"
        /\ \A c \in Components : kidN[c] = "over" <=> s[c] # "completed"
    BY <2>2, <2>3, KindsOf DEF Resting, Over
  <2>5. kidN \in [Components -> Promise!Kinds]
    BY KindIsKind
  <2> HIDE DEF kidN
  <2>6. Promise!AtRest(kidN)
    BY <2>4 DEF Promise!AtRest
  <2>7. umbrella' = Promise!Verdict(kidN) /\ umbrella' # "awaiting_assist"
    BY <2>1, <2>4 DEF Promise!Verdict
  <2>8. umbrella = "aggregating"
    BY <2>1 DEF Sweepable
  <2> QED
    BY <1>1, <2>5, <2>6, <2>7, <2>8 DEF Promise!SweepAll, Promise!AtRest, Promise!Verdict, kidN
<1> QED
  BY <1>2, <1>3

LEMMA WalkerMoves ==
  ASSUME WorkflowInv, NEW w \in Walkers, WalkerNext(w)
  PROVE  Promise!RollupNext
<1>1. WorkflowTypeOK /\ NoteKept
  BY DEF WorkflowInv
<1>2. CASE Confirm(w) \/ Admit(w)
  <2>1. CASE Finish(w)
    BY <1>1, <1>2, <2>1, FinishNotes, MoveMoves DEF Confirm, Admit, At, Promise!RollupNext
  <2>2. CASE ~Finish(w)
    <3>1. walker'[w].note = walker[w].note /\ \A x \in Walkers : x # w => walker'[x] = walker[x]
      BY <1>1, <1>2, <2>2 DEF Confirm, Admit, WorkflowTypeOK, Walker
    <3>2. SameNotes
      BY <3>1 DEF SameNotes
    <3> QED
      BY <1>2, <3>2, MoveMoves DEF Confirm, Admit, Promise!RollupNext
  <2> QED
    BY <2>1, <2>2
<1>3. CASE Researched(w)
  <2>1. Goto(w, "chose") \/ Goto(w, "run") \/ Goto(w, "plan")
    BY <1>3 DEF Researched
  <2> QED
    BY <1>1, <1>3, <2>1, GotoNotes, MoveMoves DEF Researched, Labels, Promise!RollupNext
<1>4. CASE ResearchFails(w) \/ RunEnds(w)
  BY <1>1, <1>4, FinishNotes, MoveMoves DEF ResearchFails, RunEnds, At, Promise!RollupNext
<1>5. CASE LockToPlan(w) \/ Planned(w) \/ PlanFails(w)
  <2>1. ~At(w, "close") /\ umbrella' = umbrella
    BY <1>5 DEF LockToPlan, Planned, PlanFails, At
  <2>2. Goto(w, "planning") \/ Goto(w, "work") \/ Goto(w, "tail") \/ Goto(w, "run") \/ Finish(w)
    BY <1>5 DEF LockToPlan, Planned, PlanFails, AfterPlan
  <2> QED
    BY <1>1, <2>1, <2>2, GotoNotes, FinishNotes, MoveMoves DEF Labels, Promise!RollupNext
<1>6. CASE Count(w) \/ Close(w) \/ RollupLost(w)
  BY <1>6, DrawDraws, GiveGives, LostForgets DEF Promise!RollupNext
<1> QED
  BY <1>2, <1>3, <1>4, <1>5, <1>6 DEF WalkerNext

LEMMA StepsKeepPromise ==
  WorkflowInv /\ [WorkflowNext]_workflowVars => [Promise!RollupNext]_(Promise!rollupVars)
<1>1. WorkflowInv /\ UNCHANGED workflowVars => UNCHANGED Promise!rollupVars
  BY DEF workflowVars, Promise!rollupVars
<1> SUFFICES ASSUME WorkflowInv, WorkflowNext PROVE Promise!RollupNext
  BY <1>1
<1>2. WorkflowTypeOK /\ NoteKept /\ Kept
  BY InvNext DEF WorkflowInv
<1>3. ASSUME NEW d \in drafts, Refined(d) \/ DraftFails(d) \/ Assessed(d) PROVE Promise!RollupNext
  BY <1>3, SameWalkersNotes, MoveMoves DEF Refined, DraftFails, Assessed, Promise!RollupNext
<1>4. ASSUME NEW w \in Components, Enter(w) \/ Drafted(w) PROVE Promise!RollupNext
  <2>1. w \in Walkers
    BY DEF Walkers
  <2> QED
    BY <1>2, <1>4, <2>1, GotoNotes, MoveMoves DEF Enter, Drafted, Labels, Promise!RollupNext
<1>5. ASSUME NEW w \in Chains, ChainNext(w) PROVE Promise!RollupNext
  BY <1>5, ChainMoves DEF Promise!RollupNext
<1>6. ASSUME NEW w \in Requests, RequestNext(w) PROVE Promise!RollupNext
  BY <1>6, RequestMoves DEF Promise!RollupNext
<1>7. ASSUME NEW w \in Walkers, WalkerNext(w) PROVE Promise!RollupNext
  BY <1>7, WalkerMoves
<1>8. ASSUME NEW j \in Jobs, Revise(j) \/ TakeUp(j) \/ Abandon(j) \/ Cancel(j) \/ GrowQuiet(j)
      PROVE  Promise!RollupNext
  BY <1>8, SameWalkersNotes, MoveMoves
     DEF Revise, TakeUp, Abandon, Cancel, GrowQuiet, Promise!RollupNext
<1>9. CASE CancelUmbrella
  BY <1>9 DEF CancelUmbrella, Gatherable, Promise!CallOff, Promise!Open, Promise!RollupNext
<1>10. CASE Reap
  BY <1>2, <1>10, ReapSweeps DEF Promise!RollupNext
<1>11. CASE Crash
  BY <1>11, CrashForgets DEF Promise!RollupNext
<1> QED
  BY <1>3, <1>4, <1>5, <1>6, <1>7, <1>8, <1>9, <1>10, <1>11 DEF WorkflowNext

\* The request split into components has one outcome, drawn from a moment at which
\* no component was busy and final once it is drawn, though the roll-up counts in
\* Python and writes later and the sweep does both in SQL.
THEOREM KeepsPromise == WorkflowSpec => ImplementsRollup
<1>1. WorkflowInit => Promise!RollupInit
  <2> SUFFICES ASSUME WorkflowInit PROVE Promise!RollupInit
    OBVIOUS
  <2>1. \A w \in Walkers : walker[w].note = "none"
    BY InvInit DEF WorkflowInit, WorkflowInv, NoteKept, At, Idle
  <2>2. umbrella = "aggregating"
    BY DEF WorkflowInit
  <2> QED
    BY <2>1, <2>2, KindIsKind DEF Promise!RollupInit
<1> QED
  BY <1>1, StepsKeepPromise, WorkflowInvariant, PTL
     DEF WorkflowSpec, ImplementsRollup, Promise!RollupSpec

\* An umbrella that was completed, failed or cancelled keeps that outcome: a roll-up
\* that counted earlier and writes later, the sweep and the operator's cancel never
\* overwrite each other's.
OutcomeIsFinal == [][umbrella \notin Promise!Open => umbrella' = umbrella]_umbrella

THEOREM OutcomeStands == WorkflowSpec => OutcomeIsFinal
<1>1. [Promise!RollupNext]_Promise!rollupVars => [umbrella \notin Promise!Open => umbrella' = umbrella]_umbrella
  BY DEF Promise!RollupNext, Promise!rollupVars, Promise!Move, Promise!Draw, Promise!Give,
         Promise!SweepAll, Promise!CallOff, Promise!Forget, Promise!Open
<1> QED
  BY KeepsPromise, <1>1, PTL DEF ImplementsRollup, Promise!RollupSpec, OutcomeIsFinal
=============================================================================
