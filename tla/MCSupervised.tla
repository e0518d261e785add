---------------------------- MODULE MCSupervised ----------------------------
EXTENDS Supervised, TLC

\* A step that changes a machine behind two of the model's, and one that waits for
\* nothing: two questions can be open in turn, one run works beside a block, and a
\* dependency can be reopened under a draft.
Plan == [n \in 1..4 |-> IF n = 4 THEN {1, 2} ELSE {}]
MachineSteps == {3, 4}

RequestSymmetry == Permutations(Requests)
=============================================================================
