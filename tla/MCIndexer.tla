------------------------------- MODULE MCIndexer -------------------------------
(* EventIndexer with two activations at once, over three ledgers with at   *)
(* most three events and answers of two.                                   *)
EXTENDS EventIndexer
=============================================================================
