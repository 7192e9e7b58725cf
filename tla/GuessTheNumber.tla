---------------------------- MODULE GuessTheNumber ----------------------------
(***************************************************************************)
(* The game on top of the rollup.  A player may guess again, or start      *)
(* another game, while the clue of a guess is on its way, and the indexer  *)
(* may answer differently each time: the contract must apply each clue to  *)
(* the guess it was computed for, or not at all.                           *)
(*                                                                         *)
(* The rollup between the contract and the worker is the one that          *)
(* OffchainRollup shows to implement ExactlyOnceQueue: a commit answers    *)
(* some of the oldest requests, once each, in order and in one transaction.*)
(* The chain handles the responses of a commit one after the other.        *)
(***************************************************************************)
EXTENDS Vrf, Sequences, FiniteSets

CONSTANTS
  Players,
  Ranges,               \* the pairs <<min_number, max_number>> that players ask for
  LastNumber,           \* the largest number (u16::MAX)
  Draw,                 \* Draw[<<game_number, player>>]: the VRF and its salt
  Limits,               \* the answers of the indexer
  DEFAULT_MAX_ATTEMPTS, \* used if the indexer does not know the player or fails
  None,
  LastGameNumber,       \* the largest game number (u128::MAX)
  LastAttempt,          \* the largest attempt (u32::MAX)
  MaxQueue,             \* bound on the requests that wait
  MaxFaults             \* bound on the worker's exceptions and rejected commits

GameNumbers == 0 .. LastGameNumber
Attempts == 0 .. LastAttempt
Numbers == 0 .. LastNumber
Clues == {"More", "Less", "Found"}

ASSUME GuessAssumption ==
  /\ LastGameNumber \in Nat /\ LastAttempt \in Nat /\ MaxQueue \in Nat /\ MaxFaults \in Nat
  /\ LastNumber \in Nat /\ LastNumber < MAX_U32 /\ Ranges \subseteq Numbers \X Numbers
  /\ Draw \in [GameNumbers \X Players -> Draws]
  /\ Limits \subseteq Nat /\ DEFAULT_MAX_ATTEMPTS \in Nat
  /\ None \notin Clues /\ None \notin Nat /\ None \notin Numbers

\* Mutant: a range of one number is accepted.
CanPlayOne(range) == range[1] <= range[2]

\* The ranges the contract accepts.
CanPlay(range) == range[1] < range[2]

GameRanges == {range \in Ranges : range[1] < range[2]}

Games ==
  [game_number : GameNumbers, range : GameRanges, attempt : Attempts,
   last_guess : Numbers \cup {None}, last_clue : Clues \cup {None},
   max_attempts : Nat \cup {None}, game_over : BOOLEAN]

RequestMessages ==
  [game_number : GameNumbers, range : GameRanges, player : Players, attempt : Attempts,
   guess : Numbers]

ResponseMessages ==
  [game_number : GameNumbers, player : Players, attempt : Attempts, guess : Numbers,
   clue : Clues, max_attempts : Nat, target : Numbers \cup {None}]

ASSUME NoGameAssumption == None \notin Games

VARIABLES
  games,             \* games[p]: the current game of player p, or None
  next_game_number,
  queue,             \* the requests that the rollup has not popped
  session,           \* the responses to the first requests of queue
  polled,            \* has the session found the end of the queue?
  responses,         \* the responses of the executing commit, still to be handled
  guesses,           \* history: every request that was pushed
  ended,             \* history: every GameOver event
  faults             \* number of faults so far

workerVars == <<session, polled, faults>>
vars == <<games, next_game_number, queue, session, polled, responses, guesses, ended, faults>>

GameOvers == [game_number : GameNumbers, player : Players, win : BOOLEAN, target : Numbers \cup {0}]

TypeOK ==
  /\ games \in [Players -> Games \cup {None}]
  /\ next_game_number \in GameNumbers
  /\ queue \in Seq(RequestMessages)
  /\ session \in Seq(ResponseMessages) /\ responses \in Seq(ResponseMessages)
  /\ polled \in BOOLEAN
  /\ guesses \subseteq RequestMessages
  /\ ended \in Seq(GameOvers)
  /\ faults \in 0 .. MaxFaults

Init ==
  /\ games = [p \in Players |-> None]
  /\ next_game_number = 0
  /\ queue = <<>> /\ session = <<>> /\ polled = FALSE /\ responses = <<>>
  /\ guesses = {} /\ ended = <<>> /\ faults = 0

-----------------------------------------------------------------------------
(* The contract: the messages of the player.                               *)

NewGame(n, range) ==
  [game_number |-> n, range |-> range, attempt |-> 0, last_guess |-> None,
   last_clue |-> None, max_attempts |-> None, game_over |-> FALSE]

\* Mutant: the number of the next game is not checked.
CanNumberAlways(n) == TRUE

\* checked_add(1) of the game number.
CanNumber(n) == n < LastGameNumber

\* The new game replaces the current one of the player, over or not.  The
\* increment of the number may fail and reverts the call, too.
StartNewGame(p, range) ==
  /\ responses = <<>>
  /\ CanPlay(range)
  /\ CanNumber(next_game_number)
  /\ games' = [games EXCEPT ![p] = NewGame(next_game_number, range)]
  /\ next_game_number' = next_game_number + 1
  /\ UNCHANGED <<queue, responses, guesses, ended, workerVars>>

Guessed(game, guess) ==
  [game EXCEPT !.attempt = @ + 1, !.last_guess = guess, !.last_clue = None]

\* The contract does not compare the attempt with max_attempts.
Guess(p, guess) ==
  LET game == Guessed(games[p], guess)
      message == [game_number |-> game.game_number, range |-> game.range, player |-> p,
                  attempt |-> game.attempt, guess |-> guess]
  IN /\ responses = <<>>
     /\ games[p] # None
     /\ ~games[p].game_over
     /\ games[p].attempt < LastAttempt
     /\ Len(queue) < MaxQueue
     /\ games' = [games EXCEPT ![p] = game]
     /\ queue' = Append(queue, message)
     /\ guesses' = guesses \cup {message}
     /\ UNCHANGED <<next_game_number, responses, ended, workerVars>>

-----------------------------------------------------------------------------
(* The worker.                                                             *)

Clue(target, guess) ==
  CASE target = guess -> "Found" [] target > guess -> "More" [] target < guess -> "Less"

\* Mutant: the target is revealed one attempt too late.
ShowsTargetLate(clue, attempt, limit) == clue = "Found" \/ attempt > limit

ShowsTarget(clue, attempt, limit) == clue = "Found" \/ attempt >= limit

\* getTargetNumber.  The range is not part of the salt.
TargetNumber(n, p, range) == GetRandomNumber(Draw[<<n, p>>], range[1], range[2])

\* getResponse, with the answer of getMaxAttempts.
Response(m, limit) ==
  LET target == TargetNumber(m.game_number, m.player, m.range)
      clue == Clue(target, m.guess)
  IN [game_number |-> m.game_number, player |-> m.player, attempt |-> m.attempt,
      guess |-> m.guess, clue |-> clue, max_attempts |-> limit,
      target |-> IF ShowsTarget(clue, m.attempt, limit) THEN target ELSE None]

\* pollMessage, then handleMessage, which awaits the indexer.  The worker
\* cannot pass a request with a range that the VRF refuses.
HandleMessage ==
  /\ ~polled /\ Len(session) < Len(queue)
  /\ LET range == queue[Len(session) + 1].range IN Drawable(range[1], range[2])
  /\ \E limit \in Limits \cup {DEFAULT_MAX_ATTEMPTS} :
       session' = Append(session, Response(queue[Len(session) + 1], limit))
  /\ UNCHANGED <<games, next_game_number, queue, polled, responses, guesses, ended, faults>>

\* pollMessage finds no other message: the loop ends.
EndOfQueue ==
  /\ ~polled /\ session # <<>> /\ Len(session) = Len(queue)
  /\ polled' = TRUE
  /\ UNCHANGED <<games, next_game_number, queue, session, responses, guesses, ended, faults>>

\* Any exception of a run, or a commit that loses against another worker's.
Abort ==
  /\ session # <<>> /\ faults < MaxFaults
  /\ session' = <<>> /\ polled' = FALSE /\ faults' = faults + 1
  /\ UNCHANGED <<games, next_game_number, queue, responses, guesses, ended>>

\* Mutant: one request too many is popped.
RestOneLess(n) == SubSeq(queue, n + 2, Len(queue))

\* The queue after n requests were popped.
Rest(n) == SubSeq(queue, n + 1, Len(queue))

\* The commit of the session.  on_message_received answers BusinessError for
\* a player without a game, which would fail the commit as a whole.
Commit ==
  /\ polled /\ responses = <<>>
  /\ \A i \in 1 .. Len(session) : games[session[i].player] # None
  /\ queue' = Rest(Len(session))
  /\ responses' = session
  /\ session' = <<>> /\ polled' = FALSE
  /\ UNCHANGED <<games, next_game_number, guesses, ended, faults>>

-----------------------------------------------------------------------------
(* The contract: the responses.                                            *)

\* Mutants: the number of the game, or of the attempt, is not compared.
ConcernsAnyGame(game, r) == game.attempt = r.attempt
ConcernsAnyAttempt(game, r) == game.game_number = r.game_number

Concerns(game, r) == game.game_number = r.game_number /\ game.attempt = r.attempt

\* Mutant: the last attempt is not the last.
EndsGameLate(game, r) == r.clue = "Found" \/ game.attempt > r.max_attempts

EndsGame(game, r) == r.clue = "Found" \/ game.attempt >= r.max_attempts

Answered(game, r) ==
  [game EXCEPT !.max_attempts = r.max_attempts, !.last_guess = r.guess,
               !.last_clue = r.clue, !.game_over = EndsGame(game, r)]

OnMessageReceived ==
  LET r == Head(responses)
      game == games[r.player]
  IN /\ responses # <<>>
     /\ responses' = Tail(responses)
     /\ \/ /\ Concerns(game, r)
           /\ games' = [games EXCEPT ![r.player] = Answered(game, r)]
           /\ ended' = IF EndsGame(game, r)
                       THEN Append(ended, [game_number |-> r.game_number, player |-> r.player,
                                           win |-> r.clue = "Found",
                                           target |-> IF r.target = None THEN 0 ELSE r.target])
                       ELSE ended
        \/ /\ ~Concerns(game, r)
           /\ UNCHANGED <<games, ended>>
     /\ UNCHANGED <<next_game_number, queue, guesses, workerVars>>

Next ==
  \/ \E p \in Players, range \in Ranges : StartNewGame(p, range)
  \/ \E p \in Players, guess \in Numbers : Guess(p, guess)
  \/ HandleMessage \/ EndOfQueue \/ Abort \/ Commit \/ OnMessageReceived

Spec == Init /\ [][Next]_vars

\* The task of the worker runs every fifteen seconds, and the chain handles a
\* commit without a pause.
FairSpec ==
  /\ Spec
  /\ WF_vars(HandleMessage) /\ WF_vars(EndOfQueue)
  /\ WF_vars(Commit) /\ WF_vars(OnMessageReceived)

-----------------------------------------------------------------------------
(* Properties.                                                             *)

TargetOf(p) == TargetNumber(games[p].game_number, p, games[p].range)

\* The clue a player sees is the one for the last guess of the current game:
\* that guess was made, in this game and attempt, and the clue compares it
\* with the target of this game, although responses arrive when the player
\* may have guessed again or left the game.
ClueAnswersGuess ==
  \A p \in Players :
    games[p] # None /\ games[p].last_clue # None
      => /\ [game_number |-> games[p].game_number, range |-> games[p].range, player |-> p,
             attempt |-> games[p].attempt, guess |-> games[p].last_guess] \in guesses
         /\ games[p].last_clue = Clue(TargetOf(p), games[p].last_guess)

\* The event e ends the game of the request m.
Ends(e, m) ==
  /\ m.player = e.player /\ m.game_number = e.game_number
  /\ e.target \in m.range[1] .. m.range[2]
  /\ Verify(Draw[<<m.game_number, m.player>>], m.range[1], m.range[2], e.target)
  /\ e.win <=> m.guess = e.target

\* A game ends once.  Its GameOver event shows the number that the VRF chose
\* for it, which the player could guess and can verify, never the 0 that stands
\* for a missing target, and it is won if and only if that number was guessed:
\* the worker and the contract, which decide separately whether the game is
\* over, agree.
EndingsHonest ==
  /\ \A i, j \in 1 .. Len(ended) :
       ended[i].player = ended[j].player /\ ended[i].game_number = ended[j].game_number => i = j
  /\ \A i \in 1 .. Len(ended) : \E m \in guesses : Ends(ended[i], m)

\* A game that is over stays as it is until its player starts another one: no
\* late response gives it another clue, or reopens it with other max_attempts.
FinishedGamesStay ==
  [][\A p \in Players :
       games[p] # None /\ games[p].game_over
         => games'[p] = games[p] \/ games'[p].game_number # games[p].game_number]_vars

AwaitsClue(p, n, a) ==
  /\ games[p] # None
  /\ games[p].game_number = n /\ games[p].attempt = a
  /\ games[p].last_clue = None

\* A player who guesses and waits gets a clue.
GuessesAnswered ==
  \A p \in Players, n \in GameNumbers, a \in Attempts \ {0} :
    AwaitsClue(p, n, a) ~> ~AwaitsClue(p, n, a)

\* A player makes no more guesses in a game than the indexer allowed, as the
\* README of the example says of the number of attempts.
AttemptsAllowed ==
  \A p \in Players :
    games[p] # None /\ games[p].max_attempts # None
      => games[p].attempt <= games[p].max_attempts

\* The board that the players see: their games, without the number of attempts,
\* which is known from the first clue on only.
Board ==
  [p \in {q \in Players : games[q] # None} |->
     [number |-> games[p].game_number, range |-> games[p].range,
      attempt |-> games[p].attempt, guess |-> games[p].last_guess,
      clue |-> games[p].last_clue, over |-> games[p].game_over]]

\* The worker that computes clues from requests, the queue between, and the
\* contract that ends games on its own count of attempts are, for the players,
\* one step of an honest game: the two sides never disagree, and what is late
\* changes nothing.
Honest ==
  INSTANCE HonestGame WITH
    Limits <- Limits \cup {DEFAULT_MAX_ATTEMPTS},
    Target <- [x \in GameNumbers \X Players \X GameRanges |-> TargetNumber(x[1], x[2], x[3])],
    board <- Board,
    started <- next_game_number,
    announced <- ended

ImplementsHonestGame == Honest!Spec
=============================================================================
