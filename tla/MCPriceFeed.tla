------------------------------ MODULE MCPriceFeed ------------------------------
(* Two runs, on a client each or on the same one.                           *)
EXTENDS PriceFeed, TLC

CONSTANTS p1, r1, r2, c1, c2

OwnClients == (r1 :> c1) @@ (r2 :> c2)
=============================================================================
