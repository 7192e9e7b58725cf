---------------------------- MODULE MCSharedClient ----------------------------
(***************************************************************************)
(* Instances of SharedClient for TLC: the scheduled run and the run of the *)
(* /execute route, which are interchangeable.                              *)
(***************************************************************************)
EXTENDS SharedClient, TLC

MCAppKeys == {}

Symmetry == Permutations(Runs) \cup Permutations(Payload)
=============================================================================
