----------------------------- MODULE MCMetaClient -----------------------------
(***************************************************************************)
(* Instances of MetaClient for TLC.                                        *)
(***************************************************************************)
EXTENDS MetaClient, TLC

CONSTANT attestor

MCAppKeys == {Counter}
MCAttestors == {attestor}
MCAttestorOf == [w \in MetaWorkers |-> attestor]

\* For the run without liveness properties: workers share the attestor.
Symmetry == Permutations(Workers) \cup Permutations(Payload)
=============================================================================
