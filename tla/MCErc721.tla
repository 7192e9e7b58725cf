------------------------------- MODULE MCErc721 -------------------------------
(* The accounts and the tokens are interchangeable, the zero address is not. *)
EXTENDS Erc721, TLC

Symmetry == Permutations(Callers) \cup Permutations(TokenIds)
=============================================================================
