--------------------------- MODULE MCGuessTheNumber ---------------------------
(* The target is 1 or 2, as the parity of the game number says; a player may *)
(* also guess 0.  The contract refuses the second range.                    *)
EXTENDS GuessTheNumber

MCRanges == {<<1, 2>>, <<2, 2>>}
MCDraw == [x \in GameNumbers \X Players |-> IF x[1] % 2 = 0 THEN 4 ELSE 5]
=============================================================================
