------------------------------- MODULE Rollup -------------------------------
(***************************************************************************)
(* What a decomposed request promises: one outcome for the whole, drawn    *)
(* from a moment at which no part was busy, and final once it is not       *)
(* "awaiting".  Parts may start to move again after such a moment (an      *)
(* operator reopens one): the outcome stands.                              *)
(***************************************************************************)
CONSTANTS Parts, Gatherers

VARIABLES kid,      \* Parts -> "busy", "done", "parked" (waits for hands) or "over"
          outcome,  \* of the whole
          note      \* Gatherers -> the verdict each drew and has not yet given, or "none"

rollupVars == <<kid, outcome, note>>

Kinds  == { "busy", "done", "parked", "over" }
Open   == { "aggregating", "awaiting_assist" }
AtRest(k) == \A c \in Parts : k[c] # "busy"

Verdict(k) ==
  CASE \E c \in Parts : k[c] = "parked" -> "awaiting_assist"
    [] \A c \in Parts : k[c] = "over"   -> "failed"
    [] OTHER                            -> "completed"

RollupInit ==
  /\ kid \in [Parts -> Kinds]
  /\ outcome = "aggregating"
  /\ note = [g \in Gatherers |-> "none"]

\* Parts come and go as they please.
Move == kid' \in [Parts -> Kinds] /\ UNCHANGED <<outcome, note>>

Draw(g) ==
  /\ AtRest(kid)
  /\ note' = [note EXCEPT ![g] = Verdict(kid)]
  /\ UNCHANGED <<kid, outcome>>

Give(g) ==
  /\ note[g] # "none"
  /\ outcome' = IF outcome \in Open THEN note[g] ELSE outcome
  /\ note' = [note EXCEPT ![g] = "none"]
  /\ UNCHANGED kid

\* A sweep ends parts and the whole together.
SweepAll ==
  /\ outcome = "aggregating"
  /\ kid' \in [Parts -> Kinds] /\ AtRest(kid')
  /\ outcome' = Verdict(kid') /\ outcome' # "awaiting_assist"
  /\ UNCHANGED note

CallOff == outcome \in Open /\ outcome' = "cancelled" /\ UNCHANGED <<kid, note>>

\* Verdicts are lost on the way: one fails, or the process dies with all of them.
Forget ==
  /\ \E lost \in SUBSET Gatherers : note' = [g \in Gatherers |-> IF g \in lost THEN "none" ELSE note[g]]
  /\ UNCHANGED <<kid, outcome>>

RollupNext ==
  \/ Move \/ SweepAll \/ CallOff \/ Forget
  \/ \E g \in Gatherers : Draw(g) \/ Give(g)

RollupSpec == RollupInit /\ [][RollupNext]_rollupVars
=============================================================================
