----------------------------- MODULE MCWorkflow -----------------------------
(* Instances of Workflow: a job of its own, and an umbrella with two children. *)
EXTENDS Workflow
CONSTANTS solo, part1, part2, chain1, chain2, client
Solo     == { solo }
Parts    == { part1, part2 }
None     == { }
OneChain == { chain1 }
TwoChains == { chain1, chain2 }
Client   == { client }
=============================================================================
