------------------------------ MODULE HonestGame ------------------------------
(***************************************************************************)
(* What the players are promised, whatever the worker, the queue and the   *)
(* chain do: each game has a target that never changes, and a guess is     *)
(* answered by one step that compares it with the target, at most once,    *)
(* if it is still the last one.  That step also ends the game, with the    *)
(* target announced, if the guess is right or no attempt is left.          *)
(***************************************************************************)
EXTENDS Integers, Sequences

CONSTANTS
  Players, Ranges, Numbers,
  Target,     \* Target[<<n, p, range>>]: the target of the game n of p
  Limits,     \* the numbers of attempts that a game may end at
  None

VARIABLES
  board,      \* board[p]: the current game of p, if there is one
  started,    \* the number of games so far
  announced   \* the games that have ended

vars == <<board, started, announced>>

Init == board = [p \in {} |-> None] /\ started = 0 /\ announced = <<>>

Start(p, range) ==
  /\ range[1] < range[2]
  /\ board' = [q \in DOMAIN board \cup {p} |->
                 IF q = p THEN [number |-> started, range |-> range, attempt |-> 0,
                                guess |-> None, clue |-> None, over |-> FALSE]
                 ELSE board[q]]
  /\ started' = started + 1
  /\ UNCHANGED announced

Guess(p, guess) ==
  /\ p \in DOMAIN board /\ ~board[p].over
  /\ board' = [board EXCEPT ![p].attempt = @ + 1, ![p].guess = guess, ![p].clue = None]
  /\ UNCHANGED <<started, announced>>

TargetOf(p) == Target[<<board[p].number, p, board[p].range>>]

Compared(target, guess) ==
  IF guess = target THEN "Found" ELSE IF guess < target THEN "More" ELSE "Less"

Tell(p, limit) ==
  LET game == board[p]
      target == TargetOf(p)
      over == game.guess = target \/ game.attempt >= limit
  IN  /\ p \in DOMAIN board /\ game.guess # None /\ game.clue = None
      /\ board' = [board EXCEPT ![p].clue = Compared(target, game.guess), ![p].over = over]
      /\ announced' = IF over
                      THEN Append(announced, [game_number |-> game.number, player |-> p,
                                              win |-> game.guess = target, target |-> target])
                      ELSE announced
      /\ UNCHANGED started

Next ==
  \E p \in Players :
    \/ \E range \in Ranges : Start(p, range)
    \/ \E guess \in Numbers : Guess(p, guess)
    \/ \E limit \in Limits : Tell(p, limit)

Spec == Init /\ [][Next]_vars
=============================================================================
