------------------------------ MODULE MCRestart ------------------------------
(***************************************************************************)
(* Small instances of Restart for TLC: the operator's call c1 and the call *)
(* c2 that a start-up makes.                                               *)
(***************************************************************************)
EXTENDS Restart

CONSTANTS c1, c2

Pair == <<{}, {}>>            \* two independent steps
Two  == <<{}, {1}>>           \* one after the other
Fork == <<{}, {}, {1, 2}>>    \* two at once, then one that needs both
=============================================================================
