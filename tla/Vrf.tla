---------------------------------- MODULE Vrf ----------------------------------
(***************************************************************************)
(* The verifiable random numbers of the worker.  A draw stands for the     *)
(* first four bytes of the address that is derived from the key pair and a *)
(* salt: nobody can predict it, and it is the same each time.              *)
(***************************************************************************)
EXTENDS Integers

CONSTANT MAX_U32     \* 2^32, above every draw

ASSUME VrfAssumption == MAX_U32 \in Nat \ {0}

Draws == 0 .. MAX_U32 - 1

\* getRandomNumber throws on other arguments.
Drawable(min, max) == min < max /\ 0 <= min /\ max <= MAX_U32

\* Mutant: the bound is taken for the size of the range.
GetRandomNumberUpTo(draw, min, max) == (draw % (max + 1)) + min

GetRandomNumber(draw, min, max) == (draw % (max - min + 1)) + min

Verify(draw, min, max, n) == n = GetRandomNumber(draw, min, max)
=============================================================================
