--------------------------- MODULE ExactlyOnceQueue ---------------------------
(***************************************************************************)
(* What the rollup promises its users, whatever the workers, the network   *)
(* and the chain do: the messages wait in a queue, and one atomic step     *)
(* takes some of the oldest, records one reply to each in the order they   *)
(* were pushed, and adds their number to a total.                          *)
(***************************************************************************)
EXTENDS Naturals, Sequences

CONSTANT Payload

VARIABLES
  pending,    \* the messages that wait for a reply, oldest first
  answered,   \* every reply so far
  total       \* the number the replies and other writers have added up

vars == <<pending, answered, total>>

Init == pending = <<>> /\ answered = <<>> /\ total = 0

Ask(m) ==
  /\ pending' = Append(pending, m)
  /\ UNCHANGED <<answered, total>>

Answer(n) ==
  /\ n <= Len(pending)
  /\ answered' = answered \o SubSeq(pending, 1, n)
  /\ pending' = SubSeq(pending, n + 1, Len(pending))
  /\ total' = total + n

Add ==
  /\ total' = total + 1
  /\ UNCHANGED <<pending, answered>>

Next ==
  \/ \E m \in Payload : Ask(m)
  \/ \E n \in 1 .. Len(pending) : Answer(n)
  \/ Add

Spec == Init /\ [][Next]_vars
=============================================================================
