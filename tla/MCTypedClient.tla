---------------------------- MODULE MCTypedClient ----------------------------
(* Bytes have two values: a u8 ends at 1, a u32 at 15.                      *)
EXTENDS TypedClient, TLC

MCTexts == {Empty, Bytes(1, 1)}
SymmetricClients == Permutations(Clients)
=============================================================================
