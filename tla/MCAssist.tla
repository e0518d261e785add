------------------------------ MODULE MCAssist ------------------------------
(* The instances of Assist that TLC checks. *)
EXTENDS Assist

Fork == [n \in 1..3 |-> IF n = 1 THEN {} ELSE {1}]    \* two steps after a first
=============================================================================
