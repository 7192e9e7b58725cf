--------------------------- MODULE MCOffchainRollup ---------------------------
(***************************************************************************)
(* Instances of OffchainRollup for TLC.  Messages are distinct model       *)
(* values or not, workers are interchangeable.                             *)
(***************************************************************************)
EXTENDS OffchainRollup, TLC

MCAppKeys == {Counter}

\* For the runs without liveness properties.
Symmetry == Permutations(Workers) \cup Permutations(Payload)
=============================================================================
