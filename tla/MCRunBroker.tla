----------------------------- MODULE MCRunBroker -----------------------------
(***************************************************************************)
(* A small instance of RunBroker for TLC: one client that reads, one that  *)
(* may stop reading.                                                       *)
(***************************************************************************)
EXTENDS RunBroker

CONSTANTS reader, idler, k1
=============================================================================
