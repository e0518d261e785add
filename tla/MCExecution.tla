----------------------------- MODULE MCExecution -----------------------------
(***************************************************************************)
(* Small instances of Execution for TLC: two calls, plans of two and three *)
(* steps.                                                                  *)
(***************************************************************************)
EXTENDS Execution, TLC

CONSTANTS c1, c2

Pair  == <<{}, {}>>            \* two independent steps
Chain == <<{}, {1}, {2}>>      \* one after the other
Fork  == <<{}, {}, {1, 2}>>    \* two at once, then one that needs both

\* The calls are interchangeable; used where only safety is checked.
Symmetric == Permutations(Calls)
=============================================================================
