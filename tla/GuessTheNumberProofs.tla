------------------------- MODULE GuessTheNumberProofs -------------------------
(***************************************************************************)
(* The game, for any players, ranges, indexers and random numbers.         *)
(*                                                                         *)
(* The safety of the game rests on an order: of the requests and responses *)
(* of one game that are under way, those nearer to the contract are of     *)
(* earlier attempts (Ordered), none is of a later attempt than the game    *)
(* has (Known), and once the last attempt has its clue, none is of that    *)
(* attempt (ClueOnce).  Only then can a late response concern a game that  *)
(* is over, or a game be ended twice.                                      *)
(***************************************************************************)
EXTENDS GuessTheNumber, TLAPS

SameGame(x, y) == x.player = y.player /\ x.game_number = y.game_number

IsResponse(r, m) == \E limit \in Nat : r = Response(m, limit)

\* A request belongs to a game its player has, or has had before.
Known ==
  \A m \in guesses :
    /\ games[m.player] # None
    /\ m.game_number <= games[m.player].game_number
    /\ m.game_number = games[m.player].game_number
         => m.attempt <= games[m.player].attempt /\ m.range = games[m.player].range

Numbered == \A p \in Players : games[p] # None => games[p].game_number < next_game_number

\* What is under way comes from requests that were made.
Genuine ==
  /\ \A i \in 1 .. Len(queue) : queue[i] \in guesses
  /\ Len(session) <= Len(queue)
  /\ \A i \in 1 .. Len(session) : IsResponse(session[i], queue[i])
  /\ \A i \in 1 .. Len(responses) : \E m \in guesses : IsResponse(responses[i], m)

\* Later attempts are further from the contract.
Ascending(s) ==
  \A i, j \in 1 .. Len(s) : i < j /\ SameGame(s[i], s[j]) => s[i].attempt < s[j].attempt

Ordered ==
  /\ Ascending(queue)
  /\ Ascending(responses)
  /\ \A i \in 1 .. Len(responses), j \in 1 .. Len(queue) :
       SameGame(responses[i], queue[j]) => responses[i].attempt < queue[j].attempt

\* x is of the last attempt of the current game of p.
OfLastAttempt(p, x) ==
  x.player = p /\ x.game_number = games[p].game_number /\ x.attempt = games[p].attempt

ClueOnce ==
  \A p \in Players :
    games[p] # None /\ games[p].last_clue # None
      => /\ \A i \in 1 .. Len(queue) : ~OfLastAttempt(p, queue[i])
         /\ \A i \in 1 .. Len(responses) : ~OfLastAttempt(p, responses[i])

OverHasClue ==
  \A p \in Players : games[p] # None /\ games[p].game_over => games[p].last_clue # None

\* A game that has ended is an earlier one of its player, or over.
EndedOver ==
  \A i \in 1 .. Len(ended) :
    LET game == games[ended[i].player] IN
    /\ game # None
    /\ ended[i].game_number <= game.game_number
    /\ ended[i].game_number = game.game_number => game.game_over

IInv ==
  /\ TypeOK /\ Known /\ Numbered /\ Genuine /\ Ordered /\ ClueOnce /\ OverHasClue
  /\ EndedOver /\ ClueAnswersGuess /\ EndingsHonest

-----------------------------------------------------------------------------
(* What a response says.                                                   *)

\* The VRF answers a number of the range that was asked for.
LEMMA RandomNumberInRange ==
  ASSUME NEW draw \in Nat, NEW min \in Nat, NEW max \in Nat, Drawable(min, max)
  PROVE  GetRandomNumber(draw, min, max) \in min .. max
<1> DEFINE size == max - min + 1
<1>1. size \in Nat /\ size > 0
  BY DEF Drawable
<1> HIDE DEF size
<1>2. draw % size \in 0 .. size - 1
  BY <1>1
<1> QED
  BY <1>2 DEF GetRandomNumber, size

\* The target of a game is a number of its range.
LEMMA TargetInRange ==
  ASSUME NEW n \in GameNumbers, NEW p \in Players, NEW range \in GameRanges
  PROVE  /\ TargetNumber(n, p, range) \in range[1] .. range[2]
         /\ range[1] .. range[2] \subseteq Numbers
<1>1. /\ range[1] \in Nat /\ range[2] \in Nat
      /\ range[1] < range[2] /\ range[2] <= LastNumber
  BY GuessAssumption DEF GameRanges, Numbers
<1>2. Drawable(range[1], range[2])
  BY <1>1, GuessAssumption, VrfAssumption DEF Drawable
<1>3. Draw[<<n, p>>] \in Nat
  BY GuessAssumption, VrfAssumption DEF Draws
<1>4. TargetNumber(n, p, range) \in range[1] .. range[2]
  BY <1>1, <1>2, <1>3, RandomNumberInRange DEF TargetNumber
<1> QED
  BY <1>1, <1>4, GuessAssumption DEF Numbers

\* The clue is the comparison of two integers.
LEMMA ClueFacts ==
  ASSUME NEW target \in Int, NEW guess \in Int
  PROVE  /\ Clue(target, guess) \in Clues
         /\ Clue(target, guess) = "Found" <=> target = guess
<1>1. CASE target = guess
  BY <1>1 DEF Clue, Clues
<1>2. CASE target > guess
  BY <1>2 DEF Clue, Clues
<1>3. CASE target < guess
  BY <1>3 DEF Clue, Clues
<1> QED
  BY <1>1, <1>2, <1>3

\* The fields of a response, and when it shows the target.
LEMMA ResponseFacts ==
  ASSUME NEW m \in RequestMessages, NEW limit \in Nat, NEW r, r = Response(m, limit)
  PROVE  /\ r \in ResponseMessages /\ SameGame(r, m) /\ r.attempt = m.attempt
         /\ LET target == TargetNumber(m.game_number, m.player, m.range)
            IN  /\ r.guess = m.guess
                /\ r.max_attempts = limit
                /\ target \in Numbers /\ target \in m.range[1] .. m.range[2]
                /\ r.clue = Clue(target, m.guess)
                /\ r.clue = "Found" <=> m.guess = target
                /\ r.clue = "Found" \/ m.attempt >= limit => r.target = target
<1> DEFINE target == TargetNumber(m.game_number, m.player, m.range)
           clue == Clue(target, m.guess)
           shown == IF ShowsTarget(clue, m.attempt, limit) THEN target ELSE None
<1>1. /\ target \in m.range[1] .. m.range[2] /\ target \in Numbers
      /\ target \in Int /\ m.guess \in Int
  BY TargetInRange, GuessAssumption DEF RequestMessages, Numbers
<1>2. clue \in Clues /\ (clue = "Found" <=> target = m.guess)
  BY <1>1, ClueFacts
<1>3. shown \in Numbers \cup {None}
  BY <1>1
<1>4. r = [game_number |-> m.game_number, player |-> m.player, attempt |-> m.attempt,
           guess |-> m.guess, clue |-> clue, max_attempts |-> limit, target |-> shown]
  BY DEF Response
<1> HIDE DEF clue, shown
<1>5. r \in ResponseMessages
  BY <1>2, <1>3, <1>4 DEF RequestMessages, ResponseMessages
<1>6. SameGame(r, m) /\ r.attempt = m.attempt /\ r.guess = m.guess
      /\ r.max_attempts = limit /\ r.clue = clue /\ r.target = shown
  BY <1>4 DEF SameGame
<1>7. clue = "Found" \/ m.attempt >= limit => shown = target
  BY DEF ShowsTarget, shown
<1> QED
  BY <1>1, <1>2, <1>5, <1>6, <1>7 DEF clue

\* A response is of the game and the attempt of its request.
LEMMA ResponseMatches ==
  ASSUME NEW m \in RequestMessages, NEW r, IsResponse(r, m)
  PROVE  r \in ResponseMessages /\ SameGame(r, m) /\ r.attempt = m.attempt
<1>1. PICK limit \in Nat : r = Response(m, limit)
  BY DEF IsResponse
<1>2. r \in ResponseMessages
  BY <1>1, ResponseFacts
<1>3. SameGame(r, m) /\ r.attempt = m.attempt
  BY <1>1 DEF Response, SameGame
<1> QED
  BY <1>2, <1>3

\* EndingsHonest is about the history only.
LEMMA EndingsUnchanged ==
  ASSUME EndingsHonest, ended' = ended, guesses' = guesses
  PROVE  EndingsHonest'
  BY ZenonT(60) DEF EndingsHonest

\* The requests under way have the type of requests.
LEMMA RequestTypes ==
  ASSUME IInv
  PROVE  /\ \A i \in 1 .. Len(queue) : queue[i] \in RequestMessages
         /\ \A m \in guesses : m \in RequestMessages
  BY DEF IInv, TypeOK

\* The events name players and game numbers.
LEMMA EndedTypes ==
  ASSUME IInv, NEW i \in 1 .. Len(ended)
  PROVE  ended[i].player \in Players /\ ended[i].game_number \in Nat
<1>1. ended[i] \in GameOvers
  BY DEF IInv, TypeOK
<1> QED
  BY <1>1 DEF GameOvers, GameNumbers

-----------------------------------------------------------------------------
(* Each action preserves the invariant.                                    *)

LEMMA InitIInv == Init => IInv
<1> SUFFICES ASSUME Init PROVE IInv
  OBVIOUS
<1>1. TypeOK
  <2>1. games \in [Players -> Games \cup {None}]
    BY DEF Init
  <2>2. next_game_number \in GameNumbers /\ faults \in 0 .. MaxFaults
    BY GuessAssumption DEF Init, GameNumbers
  <2>3. /\ queue \in Seq(RequestMessages) /\ ended \in Seq(GameOvers)
        /\ session \in Seq(ResponseMessages) /\ responses \in Seq(ResponseMessages)
    BY DEF Init
  <2>4. polled \in BOOLEAN /\ guesses \subseteq RequestMessages
    BY DEF Init
  <2> QED
    BY <2>1, <2>2, <2>3, <2>4 DEF TypeOK
<1>2. Known /\ Numbered /\ Genuine /\ Ordered /\ ClueOnce /\ OverHasClue /\ EndedOver
  BY DEF Init, Known, Numbered, Genuine, Ordered, Ascending, ClueOnce, OverHasClue, EndedOver
<1>3. ClueAnswersGuess /\ EndingsHonest
  BY DEF Init, ClueAnswersGuess, EndingsHonest
<1> QED
  BY <1>1, <1>2, <1>3 DEF IInv

\* A new game has a number above all others, so nothing concerns it yet.
LEMMA StartKeepsIInv ==
  ASSUME IInv, NEW p \in Players, NEW range \in Ranges, StartNewGame(p, range)
  PROVE  IInv'
<1> DEFINE new == NewGame(next_game_number, range)
<1>1. /\ UNCHANGED <<queue, session, polled, responses, guesses, ended, faults>>
      /\ games' = [games EXCEPT ![p] = new]
      /\ next_game_number' = next_game_number + 1
      /\ next_game_number < LastGameNumber
  BY DEF StartNewGame, workerVars, CanNumber
<1>2. next_game_number \in Nat /\ LastGameNumber \in Nat
  BY GuessAssumption DEF IInv, TypeOK, GameNumbers
<1>3. new \in Games
  <2>1. range \in GameRanges
    BY DEF StartNewGame, CanPlay, GameRanges
  <2> QED
    BY <1>1, <1>2, <2>1, GuessAssumption DEF NewGame, Games, GameNumbers, Attempts
<1>4. new.game_number = next_game_number /\ new.last_clue = None /\ new.game_over = FALSE
  BY DEF NewGame
<1> HIDE DEF new
<1>5. new # None
  BY <1>3, NoGameAssumption
<1>6. \A q \in Players : games'[q] = IF q = p THEN new ELSE games[q]
  BY <1>1 DEF IInv, TypeOK
<1>7. \A q \in Players : games[q] # None => games[q] \in Games /\ games[q].game_number \in Nat
  BY DEF IInv, TypeOK, Games, GameNumbers
<1>8. \A m \in guesses : m.player \in Players /\ m.game_number \in Nat
  BY RequestTypes DEF RequestMessages, GameNumbers
<1>9. TypeOK'
  BY <1>1, <1>2, <1>3, GuessAssumption DEF IInv, TypeOK, GameNumbers
<1>10. Known'
  BY <1>1, <1>2, <1>4, <1>5, <1>6, <1>7, <1>8 DEF IInv, Known, Numbered
<1>11. Numbered'
  BY <1>1, <1>2, <1>4, <1>6, <1>7 DEF IInv, Numbered
<1>12. Genuine' /\ Ordered' /\ EndingsHonest'
  BY <1>1 DEF IInv, Genuine, Ordered, Ascending, EndingsHonest
<1>13. ClueOnce' /\ OverHasClue'
  BY <1>1, <1>4, <1>6 DEF IInv, ClueOnce, OverHasClue, OfLastAttempt
<1>14. EndedOver'
  <2> SUFFICES ASSUME NEW i \in 1 .. Len(ended)
               PROVE  LET game == games'[ended[i].player] IN
                      /\ game # None
                      /\ ended[i].game_number <= game.game_number
                      /\ ended[i].game_number = game.game_number => game.game_over
    BY <1>1 DEF EndedOver
  <2>1. ended[i].player \in Players /\ ended[i].game_number \in Nat
    BY EndedTypes
  <2>2. /\ games[ended[i].player] # None
        /\ ended[i].game_number <= games[ended[i].player].game_number
        /\ ended[i].game_number = games[ended[i].player].game_number
             => games[ended[i].player].game_over
    BY DEF IInv, EndedOver
  <2> QED
    BY <1>2, <1>4, <1>5, <1>6, <1>7, <2>1, <2>2 DEF IInv, Numbered
<1>15. ClueAnswersGuess'
  BY <1>1, <1>4, <1>6 DEF IInv, ClueAnswersGuess, TargetOf
<1> QED
  BY <1>9, <1>10, <1>11, <1>12, <1>13, <1>14, <1>15 DEF IInv

\* A guess opens a later attempt than all that are under way, without a clue.
LEMMA GuessKeepsIInv ==
  ASSUME IInv, NEW p \in Players, NEW guess \in Numbers, Guess(p, guess)
  PROVE  IInv'
<1> DEFINE new == Guessed(games[p], guess)
           message == [game_number |-> new.game_number, range |-> new.range, player |-> p,
                       attempt |-> new.attempt, guess |-> guess]
<1>1. /\ UNCHANGED <<next_game_number, responses, ended, session, polled, faults>>
      /\ games' = [games EXCEPT ![p] = new]
      /\ queue' = Append(queue, message)
      /\ guesses' = guesses \cup {message}
      /\ responses = <<>>
  BY DEF Guess, workerVars
<1>2. games[p] \in Games /\ ~games[p].game_over /\ games[p].attempt < LastAttempt
  BY DEF Guess, IInv, TypeOK
<1>3. /\ new \in Games
      /\ new.game_number = games[p].game_number /\ new.range = games[p].range
      /\ new.attempt = games[p].attempt + 1 /\ new.last_clue = None
      /\ new.game_over = games[p].game_over
  <2> DEFINE g == games[p]
  <2>1. /\ new = [g EXCEPT !.attempt = g.attempt + 1, !.last_guess = guess, !.last_clue = None]
        /\ g \in Games
    BY <1>2 DEF Guessed
  <2>2. g.attempt + 1 \in Attempts
    BY <1>2, GuessAssumption DEF Games, Attempts
  <2> HIDE DEF g
  <2>3. new \in Games
    BY <2>1, <2>2 DEF Games
  <2> QED
    BY <2>1, <2>3 DEF Games, g
<1> HIDE DEF new
<1>4. /\ message \in RequestMessages
      /\ message.player = p /\ message.game_number = games[p].game_number
      /\ message.range = new.range /\ message.attempt = games[p].attempt + 1
  BY <1>3 DEF Games, RequestMessages
<1> HIDE DEF message
<1>5. new # None
  BY <1>3, NoGameAssumption
<1>6. \A q \in Players : games'[q] = IF q = p THEN new ELSE games[q]
  BY <1>1 DEF IInv, TypeOK
<1>7. \A m \in guesses : m.player \in Players /\ m.game_number \in Nat /\ m.attempt \in Nat
  BY RequestTypes DEF RequestMessages, GameNumbers, Attempts
<1>8. games[p].game_number \in Nat /\ games[p].attempt \in Nat
  BY <1>2 DEF Games, GameNumbers, Attempts
<1>9. queue \in Seq(RequestMessages)
  BY DEF IInv, TypeOK
<1>10. TypeOK'
  BY <1>1, <1>3, <1>4 DEF IInv, TypeOK
<1>11. Known'
  <2> SUFFICES ASSUME NEW m \in guesses'
               PROVE  /\ games'[m.player] # None
                      /\ m.game_number <= games'[m.player].game_number
                      /\ m.game_number = games'[m.player].game_number
                           => /\ m.attempt <= games'[m.player].attempt
                              /\ m.range = games'[m.player].range
    BY DEF Known
  <2>1. CASE m = message
    BY <2>1, <1>3, <1>4, <1>5, <1>6, <1>8
  <2>2. CASE m \in guesses
    <3>1. /\ games[m.player] # None
          /\ m.game_number <= games[m.player].game_number
          /\ m.game_number = games[m.player].game_number
               => m.attempt <= games[m.player].attempt /\ m.range = games[m.player].range
      BY <2>2 DEF IInv, Known
    <3> QED
      BY <2>2, <3>1, <1>3, <1>5, <1>6, <1>7, <1>8
  <2> QED
    BY <2>1, <2>2, <1>1
<1>12. Numbered'
  BY <1>1, <1>3, <1>6 DEF IInv, Numbered, Guess
<1>13. Genuine'
  <2>1. \A i \in 1 .. Len(queue') : queue'[i] \in guesses'
    BY <1>1, <1>9 DEF IInv, Genuine
  <2>2. Len(session') <= Len(queue')
    BY <1>1, <1>9 DEF IInv, Genuine, TypeOK
  <2>3. \A i \in 1 .. Len(session') : IsResponse(session'[i], queue'[i])
    BY <1>1, <1>9 DEF IInv, Genuine, TypeOK
  <2>4. \A i \in 1 .. Len(responses') : \E m \in guesses' : IsResponse(responses'[i], m)
    BY <1>1
  <2> QED
    BY <2>1, <2>2, <2>3, <2>4 DEF Genuine
<1>14. Ordered'
  <2>1. ASSUME NEW i \in 1 .. Len(queue), SameGame(queue[i], message)
        PROVE  queue[i].attempt < message.attempt
    BY <2>1, <1>4, <1>7, <1>8 DEF IInv, Genuine, Known, SameGame
  <2>2. Ascending(queue')
    <3> SUFFICES ASSUME NEW i \in 1 .. Len(queue'), NEW j \in 1 .. Len(queue'), i < j,
                        SameGame(queue'[i], queue'[j])
                 PROVE  queue'[i].attempt < queue'[j].attempt
      BY DEF Ascending
    <3>1. i \in 1 .. Len(queue) /\ queue'[i] = queue[i]
      BY <1>1, <1>9
    <3>2. CASE j = Len(queue) + 1
      BY <3>1, <3>2, <2>1, <1>1, <1>9
    <3>3. CASE j \in 1 .. Len(queue)
      BY <3>1, <3>3, <1>1, <1>9 DEF IInv, Ordered, Ascending
    <3> QED
      BY <3>2, <3>3, <1>1, <1>9
  <2> QED
    BY <2>2, <1>1 DEF Ordered, Ascending
<1>15. ClueOnce'
  <2> SUFFICES ASSUME NEW q \in Players, games'[q] # None, games'[q].last_clue # None
               PROVE  \A i \in 1 .. Len(queue') : ~OfLastAttempt(q, queue[i])' 
    BY <1>1 DEF ClueOnce
  <2>1. q # p /\ games'[q] = games[q]
    BY <1>3, <1>6
  <2>2. \A i \in 1 .. Len(queue) : ~OfLastAttempt(q, queue[i])
    BY <2>1 DEF IInv, ClueOnce
  <2>3. \A i \in 1 .. Len(queue') : queue'[i] = message \/ (i \in 1 .. Len(queue) /\ queue'[i] = queue[i])
    BY <1>1, <1>9
  <2> QED
    BY <2>1, <2>2, <2>3, <1>4 DEF OfLastAttempt
<1>16. OverHasClue'
  BY <1>2, <1>3, <1>6 DEF IInv, OverHasClue
<1>17. EndedOver'
  <2>1. \A i \in 1 .. Len(ended) : ended[i].player \in Players
    BY EndedTypes
  <2> QED
    BY <2>1, <1>1, <1>3, <1>5, <1>6 DEF IInv, EndedOver
<1>18. ClueAnswersGuess'
  BY <1>1, <1>3, <1>6 DEF IInv, ClueAnswersGuess, TargetOf
<1>19. EndingsHonest'
  BY <1>1 DEF IInv, EndingsHonest
<1> QED
  BY <1>10, <1>11, <1>12, <1>13, <1>14, <1>15, <1>16, <1>17, <1>18, <1>19 DEF IInv

\* The session grows by a response to the next request.
LEMMA HandleKeepsIInv ==
  ASSUME IInv, HandleMessage
  PROVE  IInv'
<1>1. PICK limit \in Limits \cup {DEFAULT_MAX_ATTEMPTS} :
        session' = Append(session, Response(queue[Len(session) + 1], limit))
  BY DEF HandleMessage
<1>2. /\ UNCHANGED <<games, next_game_number, queue, polled, responses, guesses, ended, faults>>
      /\ Len(session) < Len(queue)
  BY DEF HandleMessage
<1>3. limit \in Nat
  BY GuessAssumption
<1>4. session \in Seq(ResponseMessages) /\ queue \in Seq(RequestMessages)
  BY DEF IInv, TypeOK
<1> DEFINE r == Response(queue[Len(session) + 1], limit)
<1>5. Len(session) + 1 \in 1 .. Len(queue)
  BY <1>2, <1>4
<1>6. r \in ResponseMessages /\ IsResponse(r, queue[Len(session) + 1])
  BY <1>3, <1>5, RequestTypes, ResponseFacts DEF IsResponse
<1> HIDE DEF r
<1>7. session' = Append(session, r)
  BY <1>1 DEF r
<1>8. TypeOK'
  BY <1>2, <1>4, <1>6, <1>7 DEF IInv, TypeOK
<1>9. Genuine'
  <2>1. Len(session') <= Len(queue')
    BY <1>2, <1>4, <1>7
  <2>2. \A i \in 1 .. Len(session') : IsResponse(session'[i], queue'[i])
    BY <1>2, <1>4, <1>6, <1>7 DEF IInv, Genuine
  <2> QED
    BY <2>1, <2>2, <1>2 DEF IInv, Genuine
<1>10. Known' /\ Numbered' /\ Ordered'
  BY <1>2 DEF IInv, Known, Numbered, Ordered, Ascending
<1>11. ClueOnce' /\ OverHasClue' /\ EndedOver'
  BY <1>2 DEF IInv, ClueOnce, OfLastAttempt, OverHasClue, EndedOver
<1>12. ClueAnswersGuess' /\ EndingsHonest'
  BY <1>2 DEF IInv, ClueAnswersGuess, TargetOf, EndingsHonest
<1> QED
  BY <1>8, <1>9, <1>10, <1>11, <1>12 DEF IInv

\* The end of the loop and a failing run leave the contract alone.
LEMMA RunKeepsIInv ==
  ASSUME IInv, EndOfQueue \/ Abort
  PROVE  IInv'
<1>1. UNCHANGED <<games, next_game_number, queue, responses, guesses, ended>>
  BY DEF EndOfQueue, Abort
<1>2. session' = session \/ session' = <<>>
  BY DEF EndOfQueue, Abort
<1>3. TypeOK'
  <2>1. polled' \in BOOLEAN
    BY DEF EndOfQueue, Abort
  <2>2. faults' \in 0 .. MaxFaults
    BY GuessAssumption DEF IInv, TypeOK, EndOfQueue, Abort
  <2>3. session' \in Seq(ResponseMessages)
    <3>1. session \in Seq(ResponseMessages) /\ <<>> \in Seq(ResponseMessages)
      BY DEF IInv, TypeOK
    <3> QED
      BY <1>2, <3>1
  <2> QED
    BY <1>1, <2>1, <2>2, <2>3 DEF IInv, TypeOK
<1>4. Genuine'
  BY <1>1, <1>2 DEF IInv, Genuine, TypeOK
<1>5. Known' /\ Numbered' /\ Ordered'
  BY <1>1 DEF IInv, Known, Numbered, Ordered, Ascending
<1>6. ClueOnce' /\ OverHasClue' /\ EndedOver'
  BY <1>1 DEF IInv, ClueOnce, OfLastAttempt, OverHasClue, EndedOver
<1>7. ClueAnswersGuess' /\ EndingsHonest'
  BY <1>1 DEF IInv, ClueAnswersGuess, TargetOf, EndingsHonest
<1> QED
  BY <1>3, <1>4, <1>5, <1>6, <1>7 DEF IInv

\* The requests that stay are those behind the popped ones, in their order.
LEMMA RestFacts ==
  ASSUME NEW n \in Nat, n <= Len(queue), queue \in Seq(RequestMessages)
  PROVE  /\ Rest(n) \in Seq(RequestMessages)
         /\ Len(Rest(n)) = Len(queue) - n
         /\ \A i \in 1 .. Len(Rest(n)) : i + n \in 1 .. Len(queue) /\ Rest(n)[i] = queue[i + n]
  BY DEF Rest

\* A commit moves the first requests to the responses, as one block.
LEMMA CommitKeepsIInv ==
  ASSUME IInv, Commit
  PROVE  IInv'
<1> DEFINE n == Len(session)
<1>1. /\ UNCHANGED <<games, next_game_number, guesses, ended, faults>>
      /\ queue' = Rest(n) /\ responses' = session /\ session' = <<>> /\ polled' = FALSE
  BY DEF Commit
<1>2. /\ queue \in Seq(RequestMessages) /\ session \in Seq(ResponseMessages)
      /\ n \in Nat /\ n <= Len(queue)
  BY DEF IInv, TypeOK, Genuine
<1> HIDE DEF n
<1>3. /\ queue' \in Seq(RequestMessages)
      /\ \A i \in 1 .. Len(queue') : i + n \in 1 .. Len(queue) /\ queue'[i] = queue[i + n]
  BY <1>1, <1>2, RestFacts
<1>4. \A i \in 1 .. n : i \in 1 .. Len(queue) /\ SameGame(session[i], queue[i])
                        /\ session[i].attempt = queue[i].attempt
                        /\ IsResponse(session[i], queue[i])
  <2> SUFFICES ASSUME NEW i \in 1 .. n
               PROVE  i \in 1 .. Len(queue) /\ SameGame(session[i], queue[i])
                      /\ session[i].attempt = queue[i].attempt
                      /\ IsResponse(session[i], queue[i])
    OBVIOUS
  <2>1. i \in 1 .. Len(queue)
    BY <1>2
  <2>2. IsResponse(session[i], queue[i])
    BY DEF IInv, Genuine, n
  <2>4. queue[i] \in RequestMessages
    BY <2>1, RequestTypes
  <2>5. SameGame(session[i], queue[i]) /\ session[i].attempt = queue[i].attempt
    BY <2>2, <2>4, ResponseMatches
  <2> QED
    BY <2>1, <2>2, <2>5
<1>5. TypeOK'
  <2>1. responses' \in Seq(ResponseMessages) /\ session' \in Seq(ResponseMessages)
    BY <1>1, <1>2
  <2>2. polled' \in BOOLEAN
    BY <1>1
  <2> QED
    BY <1>1, <1>3, <2>1, <2>2 DEF IInv, TypeOK
<1>6. Genuine'
  <2>1. \A i \in 1 .. Len(queue') : queue'[i] \in guesses'
    BY <1>1, <1>3 DEF IInv, Genuine
  <2>2. Len(session') <= Len(queue') /\ \A i \in 1 .. Len(session') : IsResponse(session'[i], queue'[i])
    BY <1>1, <1>3
  <2>3. \A i \in 1 .. Len(responses') : \E m \in guesses' : IsResponse(responses'[i], m)
    BY <1>1, <1>4 DEF IInv, Genuine, n
  <2> QED
    BY <2>1, <2>2, <2>3 DEF Genuine
<1>7. Ordered'
  <2>1. Ascending(queue')
    <3> SUFFICES ASSUME NEW i \in 1 .. Len(queue'), NEW j \in 1 .. Len(queue'), i < j,
                        SameGame(queue'[i], queue'[j])
                 PROVE  queue'[i].attempt < queue'[j].attempt
      BY DEF Ascending
    <3>1. i + n < j + n
      BY <1>2
    <3>2. /\ i + n \in 1 .. Len(queue) /\ queue'[i] = queue[i + n]
          /\ j + n \in 1 .. Len(queue) /\ queue'[j] = queue[j + n]
      BY <1>3
    <3> QED
      BY <3>1, <3>2 DEF IInv, Ordered, Ascending
  <2>2. Ascending(responses')
    <3> SUFFICES ASSUME NEW i \in 1 .. n, NEW j \in 1 .. n, i < j,
                        SameGame(session[i], session[j])
                 PROVE  session[i].attempt < session[j].attempt
      BY <1>1 DEF Ascending, n
    <3>1. SameGame(queue[i], queue[j])
      BY <1>4 DEF SameGame
    <3> QED
      BY <3>1, <1>4 DEF IInv, Ordered, Ascending
  <2>3. ASSUME NEW i \in 1 .. n, NEW j \in 1 .. Len(queue'), SameGame(session[i], queue'[j])
        PROVE  session[i].attempt < queue'[j].attempt
    <3>1. SameGame(queue[i], queue[j + n]) /\ i < j + n /\ j + n \in 1 .. Len(queue)
      BY <2>3, <1>2, <1>3, <1>4 DEF SameGame
    <3> QED
      BY <3>1, <1>3, <1>4 DEF IInv, Ordered, Ascending
  <2> QED
    BY <2>1, <2>2, <2>3, <1>1 DEF Ordered, Ascending, n
<1>8. ClueOnce'
  <2> SUFFICES ASSUME NEW p \in Players, games[p] # None, games[p].last_clue # None
               PROVE  /\ \A i \in 1 .. Len(queue') : ~OfLastAttempt(p, queue'[i])
                      /\ \A i \in 1 .. Len(responses') : ~OfLastAttempt(p, responses'[i])
    BY <1>1 DEF ClueOnce, OfLastAttempt
  <2>1. \A i \in 1 .. Len(queue) : ~OfLastAttempt(p, queue[i])
    BY DEF IInv, ClueOnce
  <2>2. \A i \in 1 .. Len(queue') : ~OfLastAttempt(p, queue'[i])
    BY <2>1, <1>3
  <2>3. \A i \in 1 .. n : ~OfLastAttempt(p, session[i])
    BY <2>1, <1>4 DEF OfLastAttempt, SameGame
  <2> QED
    BY <2>2, <2>3, <1>1 DEF n
<1>9. Known' /\ Numbered' /\ OverHasClue' /\ EndedOver'
  BY <1>1 DEF IInv, Known, Numbered, OverHasClue, EndedOver
<1>10. ClueAnswersGuess' /\ EndingsHonest'
  BY <1>1 DEF IInv, ClueAnswersGuess, TargetOf, EndingsHonest
<1> QED
  BY <1>5, <1>6, <1>7, <1>8, <1>9, <1>10 DEF IInv

\* The response that is handled next, and the request it answers.
LEMMA HeadFacts ==
  ASSUME IInv, responses # <<>>, NEW r, r = Head(responses)
  PROVE  \E m \in guesses, limit \in Nat :
           /\ m \in RequestMessages /\ r = Response(m, limit) /\ r \in ResponseMessages
           /\ SameGame(r, m) /\ r.attempt = m.attempt
           /\ games[r.player] # None /\ games[r.player] \in Games /\ r.player \in Players
<1>1. responses \in Seq(ResponseMessages) /\ 1 \in 1 .. Len(responses) /\ r = responses[1]
  BY DEF IInv, TypeOK
<1>2. PICK m \in guesses : IsResponse(r, m)
  BY <1>1 DEF IInv, Genuine
<1>3. PICK limit \in Nat : r = Response(m, limit)
  BY <1>2 DEF IsResponse
<1>4. /\ m \in RequestMessages /\ r \in ResponseMessages
      /\ SameGame(r, m) /\ r.attempt = m.attempt
  <2>1. m \in RequestMessages
    BY RequestTypes
  <2> QED
    BY <1>2, <2>1, ResponseMatches
<1>5. r.player = m.player /\ r.player \in Players
  BY <1>4 DEF SameGame, RequestMessages
<1>6. games[r.player] # None /\ games[r.player] \in Games
  BY <1>5 DEF IInv, Known, TypeOK
<1> QED
  BY <1>3, <1>4, <1>5, <1>6

\* A response that concerns a game finds it without a clue, hence not over.
LEMMA ConcernsOpenGame ==
  ASSUME IInv, responses # <<>>, NEW r, r = Head(responses), Concerns(games[r.player], r)
  PROVE  games[r.player].last_clue = None /\ ~games[r.player].game_over
<1>1. r.player \in Players /\ games[r.player] # None
  BY HeadFacts
<1>2. 1 \in 1 .. Len(responses) /\ r = responses[1]
  BY DEF IInv, TypeOK
<1>3. OfLastAttempt(r.player, responses[1])
  BY <1>2 DEF OfLastAttempt, Concerns
<1>4. games[r.player].last_clue = None
  BY <1>1, <1>2, <1>3 DEF IInv, ClueOnce
<1> QED
  BY <1>1, <1>4 DEF IInv, OverHasClue

\* A response that concerns nothing is just dropped.
LEMMA SkipKeepsIInv ==
  ASSUME IInv, OnMessageReceived, ~Concerns(games[Head(responses).player], Head(responses))
  PROVE  IInv'
<1>1. /\ UNCHANGED <<games, next_game_number, queue, guesses, session, polled, ended, faults>>
      /\ responses # <<>> /\ responses' = Tail(responses)
  BY DEF OnMessageReceived, workerVars
<1>2. responses \in Seq(ResponseMessages)
  BY DEF IInv, TypeOK
<1>3. /\ responses' \in Seq(ResponseMessages)
      /\ \A i \in 1 .. Len(responses') : i + 1 \in 1 .. Len(responses)
                                         /\ responses'[i] = responses[i + 1]
  BY <1>1, <1>2
<1>4. TypeOK'
  BY <1>1, <1>3 DEF IInv, TypeOK
<1>5. Genuine'
  BY <1>1, <1>3 DEF IInv, Genuine
<1>6. Ordered'
  <2>1. Ascending(responses')
    <3> SUFFICES ASSUME NEW i \in 1 .. Len(responses'), NEW j \in 1 .. Len(responses'), i < j,
                        SameGame(responses'[i], responses'[j])
                 PROVE  responses'[i].attempt < responses'[j].attempt
      BY DEF Ascending
    <3> QED
      BY <1>3 DEF IInv, Ordered, Ascending
  <2> QED
    BY <2>1, <1>1, <1>3 DEF IInv, Ordered, Ascending
<1>7. ClueOnce'
  BY <1>1, <1>3 DEF IInv, ClueOnce, OfLastAttempt
<1>8. Known' /\ Numbered' /\ OverHasClue' /\ EndedOver'
  BY <1>1 DEF IInv, Known, Numbered, OverHasClue, EndedOver
<1>9. ClueAnswersGuess' /\ EndingsHonest'
  BY <1>1 DEF IInv, ClueAnswersGuess, TargetOf, EndingsHonest
<1> QED
  BY <1>4, <1>5, <1>6, <1>7, <1>8, <1>9 DEF IInv

\* A response that concerns the game of its player: the game gets the clue of
\* its last guess, and ends if the worker thought so.
LEMMA AnswerKeepsIInv ==
  ASSUME IInv, OnMessageReceived, Concerns(games[Head(responses).player], Head(responses))
  PROVE  IInv'
<1> DEFINE r == Head(responses)
           p == r.player
           game == games[p]
           new == Answered(game, r)
           ending == [game_number |-> r.game_number, player |-> p,
                      win |-> r.clue = "Found",
                      target |-> IF r.target = None THEN 0 ELSE r.target]
<1>1. /\ UNCHANGED <<next_game_number, queue, guesses, session, polled, faults>>
      /\ responses # <<>> /\ responses' = Tail(responses)
      /\ games' = [games EXCEPT ![p] = new]
      /\ ended' = IF EndsGame(game, r) THEN Append(ended, ending) ELSE ended
  BY DEF OnMessageReceived, workerVars
<1>2. /\ Concerns(game, r)
      /\ game.game_number = r.game_number /\ game.attempt = r.attempt
  BY DEF Concerns
<1>3. PICK m \in guesses, limit \in Nat :
        /\ m \in RequestMessages /\ r = Response(m, limit) /\ r \in ResponseMessages
        /\ SameGame(r, m) /\ r.attempt = m.attempt
        /\ game # None /\ game \in Games /\ p \in Players
  BY <1>1, HeadFacts
<1> DEFINE target == TargetNumber(m.game_number, m.player, m.range)
<1>4. /\ target \in Numbers /\ target \in m.range[1] .. m.range[2]
      /\ r.guess = m.guess /\ r.max_attempts = limit /\ r.clue = Clue(target, m.guess)
      /\ r.clue = "Found" <=> m.guess = target
      /\ r.clue = "Found" \/ m.attempt >= limit => r.target = target
  BY <1>3, ResponseFacts
<1>5. game.last_clue = None /\ ~game.game_over
  BY <1>1, <1>2, ConcernsOpenGame
<1>6. /\ m.player = p /\ m.game_number = game.game_number /\ m.attempt = game.attempt
      /\ m.range = game.range
  BY <1>2, <1>3 DEF SameGame, IInv, Known
<1>7. /\ new \in Games
      /\ new.game_number = game.game_number /\ new.range = game.range
      /\ new.attempt = game.attempt /\ new.last_guess = r.guess /\ new.last_clue = r.clue
      /\ new.game_over = EndsGame(game, r)
  <2> DEFINE over == EndsGame(game, r)
  <2>1. over \in BOOLEAN
    BY DEF EndsGame
  <2>2. new = [game EXCEPT !.max_attempts = r.max_attempts, !.last_guess = r.guess,
                           !.last_clue = r.clue, !.game_over = over]
    BY DEF Answered
  <2>3. r.max_attempts \in Nat /\ r.guess \in Numbers /\ r.clue \in Clues
    BY <1>3 DEF ResponseMessages
  <2> HIDE DEF over, r, game, new
  <2>4. new \in Games
    BY <1>3, <2>1, <2>2, <2>3 DEF Games
  <2>5. /\ new.game_number = game.game_number /\ new.range = game.range
        /\ new.attempt = game.attempt /\ new.last_guess = r.guess /\ new.last_clue = r.clue
        /\ new.game_over = over
    BY <1>3, <2>2 DEF Games
  <2> QED
    BY <2>4, <2>5 DEF over
<1>8. new # None /\ new.last_clue # None
  BY <1>3, <1>7, GuessAssumption, NoGameAssumption DEF ResponseMessages
<1>9. EndsGame(game, r) => r.target = target
  BY <1>2, <1>3, <1>4 DEF EndsGame
<1>10. target # None
  BY <1>4, GuessAssumption
<1>11. r = responses[1] /\ responses \in Seq(ResponseMessages) /\ 1 \in 1 .. Len(responses)
  BY <1>1 DEF IInv, TypeOK
<1>12. ending \in GameOvers
  <2>1. r.game_number \in GameNumbers /\ (r.clue = "Found") \in BOOLEAN
    BY <1>3 DEF ResponseMessages
  <2>2. (IF r.target = None THEN 0 ELSE r.target) \in Numbers \cup {0}
    BY <1>3 DEF ResponseMessages
  <2> QED
    BY <1>3, <2>1, <2>2 DEF GameOvers
<1>13. EndsGame(game, r) => /\ ending.target = target
                            /\ ending.win <=> m.guess = target
                            /\ ending.player = p /\ ending.game_number = game.game_number
  BY <1>2, <1>4, <1>9, <1>10
<1> HIDE DEF r, game, new, ending, target, p
<1>14. \A q \in Players : games'[q] = IF q = p THEN new ELSE games[q]
  BY <1>1 DEF IInv, TypeOK
<1>15. /\ responses' \in Seq(ResponseMessages)
       /\ \A i \in 1 .. Len(responses') : i + 1 \in 1 .. Len(responses)
                                          /\ responses'[i] = responses[i + 1]
  BY <1>1, <1>11
<1>16. ended \in Seq(GameOvers) /\ ended' \in Seq(GameOvers)
  <2>1. ended \in Seq(GameOvers)
    BY DEF IInv, TypeOK
  <2> QED
    BY <2>1, <1>1, <1>12
<1>17. TypeOK'
  <2>1. games' \in [Players -> Games \cup {None}]
    BY <1>1, <1>7 DEF IInv, TypeOK
  <2> QED
    BY <2>1, <1>1, <1>15, <1>16 DEF IInv, TypeOK
<1>18. Known'
  <2>1. \A x \in guesses : x.player \in Players
    BY RequestTypes DEF RequestMessages
  <2> QED
    BY <2>1, <1>1, <1>7, <1>8, <1>14 DEF IInv, Known, game
<1>19. Numbered'
  BY <1>1, <1>3, <1>7, <1>14 DEF IInv, Numbered, game
<1>20. Genuine'
  BY <1>1, <1>15 DEF IInv, Genuine
<1>21. Ordered'
  <2>1. Ascending(responses')
    <3> SUFFICES ASSUME NEW i \in 1 .. Len(responses'), NEW j \in 1 .. Len(responses'), i < j,
                        SameGame(responses'[i], responses'[j])
                 PROVE  responses'[i].attempt < responses'[j].attempt
      BY DEF Ascending
    <3> QED
      BY <1>15 DEF IInv, Ordered, Ascending
  <2> QED
    BY <2>1, <1>1, <1>15 DEF IInv, Ordered, Ascending
<1>22. ClueOnce'
  <2> SUFFICES ASSUME NEW q \in Players, games'[q] # None, games'[q].last_clue # None
               PROVE  /\ \A i \in 1 .. Len(queue) : ~OfLastAttempt(q, queue[i])'
                      /\ \A i \in 1 .. Len(responses') : ~OfLastAttempt(q, responses[i])'
    BY <1>1 DEF ClueOnce
  <2>1. CASE q # p
    BY <2>1, <1>1, <1>14, <1>15 DEF IInv, ClueOnce, OfLastAttempt
  <2>2. CASE q = p
    <3>1. games'[q].game_number = r.game_number /\ games'[q].attempt = r.attempt /\ r.player = q
      BY <2>2, <1>2, <1>7, <1>14 DEF p
    <3>2. r.attempt \in Nat
      BY <1>3 DEF ResponseMessages, Attempts
    <3>3. ASSUME NEW i \in 1 .. Len(queue), OfLastAttempt(q, queue[i])' PROVE FALSE
      <4>1. SameGame(r, queue[i]) /\ queue[i].attempt = r.attempt
        BY <3>1, <3>3, <1>1 DEF OfLastAttempt, SameGame
      <4> QED
        BY <4>1, <3>2, <1>11 DEF IInv, Ordered
    <3>4. ASSUME NEW i \in 1 .. Len(responses'), OfLastAttempt(q, responses[i])' PROVE FALSE
      <4>1. SameGame(r, responses'[i]) /\ responses'[i].attempt = r.attempt
        BY <3>1, <3>4 DEF OfLastAttempt, SameGame
      <4>2. /\ i + 1 \in 1 .. Len(responses) /\ responses'[i] = responses[i + 1] /\ 1 < i + 1
        BY <1>15
      <4> QED
        BY <4>1, <4>2, <3>2, <1>11 DEF IInv, Ordered, Ascending
    <3> QED
      BY <3>3, <3>4
  <2> QED
    BY <2>1, <2>2
<1>23. OverHasClue'
  BY <1>8, <1>14 DEF IInv, OverHasClue
<1>24. EndedOver'
  <2>1. ASSUME NEW i \in 1 .. Len(ended)
        PROVE  LET g == games'[ended[i].player] IN
               /\ g # None /\ ended[i].game_number <= g.game_number
               /\ ended[i].game_number = g.game_number => g.game_over
    <3>1. ended[i].player \in Players
      BY EndedTypes
    <3>2. LET g == games[ended[i].player] IN
          /\ g # None /\ ended[i].game_number <= g.game_number
          /\ ended[i].game_number = g.game_number => g.game_over
      BY DEF IInv, EndedOver
    <3> QED
      BY <3>1, <3>2, <1>5, <1>7, <1>8, <1>14 DEF game
  <2>2. CASE ~EndsGame(game, r)
    BY <2>1, <2>2, <1>1 DEF EndedOver
  <2>3. CASE EndsGame(game, r)
    <3>1. ended' = Append(ended, ending)
      BY <2>3, <1>1
    <3>2. game.game_number \in Nat
      BY <1>3 DEF Games, GameNumbers
    <3>3. \A i \in 1 .. Len(ended') : \/ i \in 1 .. Len(ended) /\ ended'[i] = ended[i]
                                      \/ ended'[i] = ending
      BY <3>1, <1>16
    <3>4. /\ games'[ending.player] # None
          /\ ending.game_number <= games'[ending.player].game_number
          /\ games'[ending.player].game_over
      <4>1. games'[ending.player] = new /\ ending.game_number = new.game_number
        BY <2>3, <1>3, <1>7, <1>13, <1>14
      <4>2. new.game_over
        BY <2>3, <1>7
      <4>3. new.game_number \in Nat
        BY <3>2, <1>7
      <4> QED
        BY <4>1, <4>2, <4>3, <1>8
    <3> QED
      BY <2>1, <3>3, <3>4 DEF EndedOver
  <2> QED
    BY <2>2, <2>3
<1>25. ClueAnswersGuess'
  <2> SUFFICES ASSUME NEW q \in Players, games'[q] # None, games'[q].last_clue # None
               PROVE  /\ [game_number |-> games'[q].game_number, range |-> games'[q].range,
                          player |-> q, attempt |-> games'[q].attempt,
                          guess |-> games'[q].last_guess] \in guesses
                      /\ games'[q].last_clue = Clue(TargetOf(q)', games'[q].last_guess)
    BY <1>1 DEF ClueAnswersGuess
  <2>1. CASE q # p
    BY <2>1, <1>14 DEF IInv, ClueAnswersGuess, TargetOf
  <2>2. CASE q = p
    <3>1. m = [game_number |-> m.game_number, range |-> m.range, player |-> m.player,
               attempt |-> m.attempt, guess |-> m.guess]
      BY <1>3 DEF RequestMessages
    <3>2. /\ games'[q].game_number = m.game_number /\ games'[q].range = m.range
          /\ games'[q].attempt = m.attempt /\ games'[q].last_guess = m.guess
          /\ games'[q].last_clue = Clue(target, m.guess) /\ m.player = q
      BY <2>2, <1>4, <1>6, <1>7, <1>14
    <3>3. TargetOf(q)' = target
      BY <3>2 DEF TargetOf, target
    <3> QED
      BY <3>1, <3>2, <3>3
  <2> QED
    BY <2>1, <2>2
<1>26. EndingsHonest'
  <2>1. CASE ~EndsGame(game, r)
    <3>1. ended' = ended /\ guesses' = guesses
      BY <2>1, <1>1
    <3>2. EndingsHonest
      BY DEF IInv
    <3> QED
      BY <3>1, <3>2, EndingsUnchanged
  <2>2. CASE EndsGame(game, r)
    <3>1. ended' = Append(ended, ending)
      BY <2>2, <1>1
    <3>2. \A i \in 1 .. Len(ended') : \/ i \in 1 .. Len(ended) /\ ended'[i] = ended[i]
                                      \/ i = Len(ended) + 1 /\ ended'[i] = ending
      BY <3>1, <1>16
    <3>3. ASSUME NEW i \in 1 .. Len(ended), ended[i].player = ending.player,
                 ended[i].game_number = ending.game_number
          PROVE  FALSE
      <4>1. ended[i].game_number = game.game_number /\ games[ended[i].player] = game
        BY <3>3, <2>2, <1>13 DEF game
      <4> QED
        BY <4>1, <1>5 DEF IInv, EndedOver
    <3>4. \A i, j \in 1 .. Len(ended') :
            ended'[i].player = ended'[j].player
              /\ ended'[i].game_number = ended'[j].game_number => i = j
      <4>1. \A i, j \in 1 .. Len(ended) :
              ended[i].player = ended[j].player
                /\ ended[i].game_number = ended[j].game_number => i = j
        BY DEF IInv, EndingsHonest
      <4> QED
        BY <3>2, <3>3, <4>1
    <3>5. Ends(ending, m)
      BY <2>2, <1>4, <1>6, <1>9, <1>13 DEF target, Ends, Verify, TargetNumber
    <3>6. \A i \in 1 .. Len(ended') : \E x \in guesses : Ends(ended'[i], x)
      <4> SUFFICES ASSUME NEW i \in 1 .. Len(ended')
                   PROVE  \E x \in guesses : Ends(ended'[i], x)
        OBVIOUS
      <4>1. CASE i \in 1 .. Len(ended) /\ ended'[i] = ended[i]
        BY <4>1 DEF IInv, EndingsHonest
      <4>2. CASE ended'[i] = ending
        BY <1>3, <3>5, <4>2
      <4> QED
        BY <3>2, <4>1, <4>2
    <3> QED
      BY <3>4, <3>6, <1>1 DEF EndingsHonest
  <2> QED
    BY <2>1, <2>2
<1> QED
  BY <1>17, <1>18, <1>19, <1>20, <1>21, <1>22, <1>23, <1>24, <1>25, <1>26 DEF IInv

LEMMA NextIInv == IInv /\ [Next]_vars => IInv'
<1> SUFFICES ASSUME IInv, [Next]_vars PROVE IInv'
  OBVIOUS
<1>1. ASSUME NEW p \in Players, NEW range \in Ranges, StartNewGame(p, range) PROVE IInv'
  BY <1>1, StartKeepsIInv
<1>2. ASSUME NEW p \in Players, NEW guess \in Numbers, Guess(p, guess) PROVE IInv'
  BY <1>2, GuessKeepsIInv
<1>3. CASE HandleMessage
  BY <1>3, HandleKeepsIInv
<1>4. CASE EndOfQueue \/ Abort
  BY <1>4, RunKeepsIInv
<1>5. CASE Commit
  BY <1>5, CommitKeepsIInv
<1>6. CASE OnMessageReceived
  BY <1>6, SkipKeepsIInv, AnswerKeepsIInv
<1>7. CASE UNCHANGED vars
  <2> USE <1>7 DEF vars, IInv
  <2>1. TypeOK' /\ Known' /\ Numbered' /\ Genuine' /\ Ordered'
    BY DEF TypeOK, Known, Numbered, Genuine, Ordered, Ascending
  <2>2. ClueOnce' /\ OverHasClue' /\ EndedOver' /\ ClueAnswersGuess' /\ EndingsHonest'
    BY DEF ClueOnce, OfLastAttempt, OverHasClue, EndedOver, ClueAnswersGuess, TargetOf,
           EndingsHonest
  <2> QED
    BY <2>1, <2>2
<1> QED
  BY <1>1, <1>2, <1>3, <1>4, <1>5, <1>6, <1>7 DEF Next

-----------------------------------------------------------------------------
(* The theorems.                                                           *)

\* The inductive invariant, types included.
THEOREM GameInvariance == Spec => []IInv
<1> QED
  BY InitIInv, NextIInv, PTL DEF Spec

\* Games and messages keep their types: the number of a game and the attempt do
\* not overflow, and the worker can draw a target for every request.
THEOREM TypeCorrectness == Spec => []TypeOK
<1>1. IInv => TypeOK
  BY DEF IInv
<1> QED
  BY <1>1, GameInvariance, PTL

\* Whatever players do while clues are on their way, a clue that a game shows
\* is the one for its last guess.
THEOREM CluesFit == Spec => []ClueAnswersGuess
<1>1. IInv => ClueAnswersGuess
  BY DEF IInv
<1> QED
  BY GameInvariance, <1>1, PTL

\* Each game has at most one GameOver event, which shows the number that was
\* to be guessed and says truthfully who won.
THEOREM HonestEndings == Spec => []EndingsHonest
<1>1. IInv => EndingsHonest
  BY DEF IInv
<1> QED
  BY GameInvariance, <1>1, PTL

\* No response changes a game that is over.
THEOREM FinishedStays == Spec => FinishedGamesStay
<1> DEFINE Stays ==
      \A p \in Players :
        games[p] # None /\ games[p].game_over
          => games'[p] = games[p] \/ games'[p].game_number # games[p].game_number
<1>1. ASSUME IInv, [Next]_vars PROVE Stays
  <2> SUFFICES ASSUME NEW p \in Players, games[p] # None, games[p].game_over
               PROVE  games'[p] = games[p] \/ games'[p].game_number # games[p].game_number
    OBVIOUS
  <2>1. games \in [Players -> Games \cup {None}]
    BY <1>1 DEF IInv, TypeOK
  <2>2. ASSUME NEW q \in Players, NEW range \in Ranges, StartNewGame(q, range)
        PROVE  games'[p] = games[p] \/ games'[p].game_number # games[p].game_number
    <3>1. games' = [games EXCEPT ![q] = NewGame(next_game_number, range)]
      BY <2>2 DEF StartNewGame
    <3>2. NewGame(next_game_number, range).game_number = next_game_number
      BY DEF NewGame
    <3>3. games[p].game_number < next_game_number /\ games[p].game_number \in Nat
          /\ next_game_number \in Nat
      BY <1>1, <2>1 DEF IInv, Numbered, TypeOK, Games, GameNumbers
    <3> QED
      BY <2>1, <3>1, <3>2, <3>3
  <2>3. ASSUME NEW q \in Players, NEW guess \in Numbers, Guess(q, guess)
        PROVE  games'[p] = games[p]
    BY <2>1, <2>3 DEF Guess
  <2>4. CASE HandleMessage \/ EndOfQueue \/ Abort \/ Commit \/ UNCHANGED vars
    BY <2>4 DEF HandleMessage, EndOfQueue, Abort, Commit, vars
  <2>5. CASE OnMessageReceived
    <3>1. CASE Concerns(games[Head(responses).player], Head(responses))
      <4>1. ~games[Head(responses).player].game_over
        BY <1>1, <2>5, <3>1, ConcernsOpenGame DEF OnMessageReceived
      <4>2. games' = [games EXCEPT ![Head(responses).player] =
                        Answered(games[Head(responses).player], Head(responses))]
        BY <2>5, <3>1 DEF OnMessageReceived
      <4> QED
        BY <2>1, <4>1, <4>2
    <3>2. CASE ~Concerns(games[Head(responses).player], Head(responses))
      BY <2>5, <3>2 DEF OnMessageReceived
    <3> QED
      BY <3>1, <3>2
  <2> QED
    BY <1>1, <2>2, <2>3, <2>4, <2>5 DEF Next
<1>2. IInv /\ [Next]_vars => [Stays]_vars
  BY <1>1
<1> QED
  BY GameInvariance, <1>2, PTL DEF Spec, FinishedGamesStay

-----------------------------------------------------------------------------
(* The game is honest: a refinement.                                       *)

\* A request of the last attempt of a game has the last guess of the game.
LastGuessKnown ==
  \A p \in Players, m \in guesses :
    games[p] # None /\ OfLastAttempt(p, m) => m.guess = games[p].last_guess

\* The worker answers with a number of attempts that the indexer gave, or the default.
LimitsKnown ==
  /\ \A i \in 1 .. Len(session) : session[i].max_attempts \in Limits \cup {DEFAULT_MAX_ATTEMPTS}
  /\ \A i \in 1 .. Len(responses) : responses[i].max_attempts \in Limits \cup {DEFAULT_MAX_ATTEMPTS}

HonestInv == IInv /\ LastGuessKnown /\ LimitsKnown

\* At first there are no games and no answers.
LEMMA HonestInit ==
  ASSUME Init PROVE HonestInv
<1>1. games = [p \in Players |-> None] /\ session = <<>> /\ responses = <<>>
  BY DEF Init
<1>2. LastGuessKnown /\ LimitsKnown
  BY <1>1 DEF LastGuessKnown, LimitsKnown
<1> QED
  BY <1>2, InitIInv DEF HonestInv

\* The number of attempts comes with the response, unchanged.
LEMMA LimitsStep ==
  ASSUME HonestInv, [Next]_vars PROVE LimitsKnown'
<1> DEFINE Given == Limits \cup {DEFAULT_MAX_ATTEMPTS}
<1>1. /\ session \in Seq(ResponseMessages) /\ responses \in Seq(ResponseMessages)
      /\ \A i \in 1 .. Len(session) : session[i].max_attempts \in Given
      /\ \A i \in 1 .. Len(responses) : responses[i].max_attempts \in Given
  BY DEF HonestInv, IInv, TypeOK, LimitsKnown
<1> HIDE DEF Given
<1>2. SUFFICES /\ \A i \in 1 .. Len(session') : session'[i].max_attempts \in Given
               /\ \A i \in 1 .. Len(responses') : responses'[i].max_attempts \in Given
  BY DEF LimitsKnown, Given
<1>3. CASE HandleMessage
  <2>1. PICK limit \in Given :
          session' = Append(session, Response(queue[Len(session) + 1], limit))
    BY <1>3 DEF HandleMessage, Given
  <2> DEFINE r == Response(queue[Len(session) + 1], limit)
  <2>2. r.max_attempts = limit
    BY DEF Response
  <2>3. responses' = responses
    BY <1>3 DEF HandleMessage
  <2> HIDE DEF r
  <2>4. session' = Append(session, r)
    BY <2>1 DEF r
  <2>5. \A i \in 1 .. Len(session') :
          (i \in 1 .. Len(session) /\ session'[i] = session[i]) \/ session'[i] = r
    BY <1>1, <2>4
  <2> QED
    BY <1>1, <2>2, <2>3, <2>5
<1>4. CASE Commit \/ Abort
  BY <1>1, <1>4 DEF Commit, Abort
<1>5. CASE OnMessageReceived
  <2>1. session' = session /\ responses' = Tail(responses) /\ responses # <<>>
    BY <1>5 DEF OnMessageReceived, workerVars
  <2>2. \A i \in 1 .. Len(responses') :
          i + 1 \in 1 .. Len(responses) /\ responses'[i] = responses[i + 1]
    BY <1>1, <2>1
  <2> QED
    BY <1>1, <2>1, <2>2
<1>6. ASSUME \/ \E p \in Players, range \in Ranges : StartNewGame(p, range)
             \/ \E p \in Players, guess \in Numbers : Guess(p, guess)
             \/ EndOfQueue \/ UNCHANGED vars
      PROVE  session' = session /\ responses' = responses
  BY <1>6 DEF StartNewGame, Guess, EndOfQueue, vars, workerVars
<1> QED
  BY <1>1, <1>3, <1>4, <1>5, <1>6 DEF Next

\* What a response that concerns a game was computed from: the last guess.
LEMMA ConcernsLastGuess ==
  ASSUME HonestInv, responses # <<>>, NEW r, r = Head(responses), Concerns(games[r.player], r)
  PROVE  LET game == games[r.player]
             target == TargetNumber(game.game_number, r.player, game.range)
         IN  /\ r.player \in Players /\ game # None /\ game \in Games /\ game.range \in GameRanges
             /\ r \in ResponseMessages /\ r.game_number = game.game_number
             /\ r.guess = game.last_guess /\ r.guess \in Numbers /\ target \in Numbers
             /\ r.clue = Clue(target, r.guess) /\ (r.clue = "Found" <=> r.guess = target)
             /\ r.clue = "Found" \/ game.attempt >= r.max_attempts => r.target = target
             /\ r.max_attempts \in Limits \cup {DEFAULT_MAX_ATTEMPTS}
<1> DEFINE p == r.player
           game == games[p]
<1>1. IInv /\ LastGuessKnown /\ LimitsKnown
  BY DEF HonestInv
<1>2. PICK m \in guesses, limit \in Nat :
        /\ m \in RequestMessages /\ r = Response(m, limit) /\ r \in ResponseMessages
        /\ SameGame(r, m) /\ r.attempt = m.attempt
        /\ game # None /\ game \in Games /\ p \in Players
  BY <1>1, HeadFacts
<1>3. game.game_number = r.game_number /\ game.attempt = r.attempt
  BY DEF Concerns
<1>4. /\ m.player = p /\ m.game_number = game.game_number /\ m.attempt = game.attempt
      /\ m.range = game.range
  BY <1>1, <1>2, <1>3 DEF SameGame, IInv, Known
<1>5. m.guess = game.last_guess
  BY <1>1, <1>2, <1>4 DEF LastGuessKnown, OfLastAttempt
<1>6. r.max_attempts \in Limits \cup {DEFAULT_MAX_ATTEMPTS}
  <2>1. 1 \in 1 .. Len(responses) /\ r = responses[1]
    BY <1>1 DEF IInv, TypeOK
  <2> QED
    BY <1>1, <2>1 DEF LimitsKnown
<1>7. LET target == TargetNumber(m.game_number, m.player, m.range)
      IN  /\ r.guess = m.guess /\ r.max_attempts = limit /\ target \in Numbers
          /\ r.clue = Clue(target, m.guess) /\ (r.clue = "Found" <=> m.guess = target)
          /\ r.clue = "Found" \/ m.attempt >= limit => r.target = target
  BY <1>2, ResponseFacts
<1>8. m.guess \in Numbers /\ m.range \in GameRanges
  BY <1>2 DEF RequestMessages
<1> QED
  BY <1>2, <1>3, <1>4, <1>5, <1>6, <1>7, <1>8

\* A new guess is of a new attempt, and a response repeats the last guess.
LEMMA LastGuessStep ==
  ASSUME HonestInv, [Next]_vars PROVE LastGuessKnown'
<1>1. /\ LastGuessKnown /\ games \in [Players -> Games \cup {None}]
      /\ next_game_number \in GameNumbers /\ guesses \subseteq RequestMessages
      /\ \A m \in guesses :
           /\ games[m.player] # None /\ m.game_number <= games[m.player].game_number
           /\ m.game_number = games[m.player].game_number => m.attempt <= games[m.player].attempt
      /\ \A p \in Players : games[p] # None => games[p].game_number < next_game_number
  BY DEF HonestInv, IInv, TypeOK, Known, Numbered
<1>2. /\ \A m \in guesses : m.game_number \in Nat /\ m.attempt \in Nat /\ m.player \in Players
      /\ \A p \in Players : games[p] # None => games[p].game_number \in Nat /\ games[p].attempt \in Nat
      /\ next_game_number \in Nat
  BY <1>1 DEF RequestMessages, Games, GameNumbers, Attempts
<1>3. SUFFICES ASSUME NEW q \in Players, NEW m \in guesses', games'[q] # None,
                      OfLastAttempt(q, m)'
               PROVE  m.guess = games'[q].last_guess
  BY DEF LastGuessKnown
<1>4. m.player = q /\ m.game_number = games'[q].game_number /\ m.attempt = games'[q].attempt
  BY <1>3 DEF OfLastAttempt
<1>5. ASSUME m \in guesses, games'[q] = games[q]
      PROVE  m.guess = games'[q].last_guess
  BY <1>1, <1>3, <1>4, <1>5 DEF LastGuessKnown, OfLastAttempt
<1>6. ASSUME NEW p \in Players, NEW range \in Ranges, StartNewGame(p, range)
      PROVE  m.guess = games'[q].last_guess
  <2>1. guesses' = guesses /\ games' = [games EXCEPT ![p] = NewGame(next_game_number, range)]
    BY <1>6 DEF StartNewGame
  <2>2. CASE q = p
    <3>1. games'[q].game_number = next_game_number
      BY <1>1, <2>1, <2>2 DEF NewGame
    <3>2. m.game_number < next_game_number
      BY <1>1, <1>2, <1>4, <2>1
    <3> QED
      BY <1>2, <1>4, <2>1, <3>1, <3>2
  <2> QED
    BY <1>1, <1>5, <2>1, <2>2
<1>7. ASSUME NEW p \in Players, NEW guess \in Numbers, Guess(p, guess)
      PROVE  m.guess = games'[q].last_guess
  <2> DEFINE game == Guessed(games[p], guess)
             message == [game_number |-> game.game_number, range |-> game.range, player |-> p,
                         attempt |-> game.attempt, guess |-> guess]
  <2>1. /\ games[p] # None /\ games' = [games EXCEPT ![p] = game]
        /\ guesses' = guesses \cup {message}
    BY <1>7 DEF Guess
  <2>2. /\ game.game_number = games[p].game_number /\ game.attempt = games[p].attempt + 1
        /\ game.last_guess = guess
    BY <1>1, <2>1 DEF Guessed, Games
  <2>3. message.player = p /\ message.guess = guess /\ message.attempt = game.attempt
    OBVIOUS
  <2> HIDE DEF game, message
  <2>4. CASE q = p
    <3>1. games'[q] = game
      BY <1>1, <2>1, <2>4
    <3>2. m \notin guesses
      BY <1>1, <1>2, <1>4, <2>1, <2>2, <2>4, <3>1
    <3> QED
      BY <2>1, <2>2, <2>3, <3>1, <3>2
  <2>5. CASE q # p
    BY <1>1, <1>4, <1>5, <2>1, <2>3, <2>5
  <2> QED
    BY <2>4, <2>5
<1>8. CASE OnMessageReceived
  <2> DEFINE r == Head(responses)
             p == r.player
  <2>1. guesses' = guesses /\ responses # <<>>
    BY <1>8 DEF OnMessageReceived
  <2>2. CASE Concerns(games[p], r)
    <3>1. games' = [games EXCEPT ![p] = Answered(games[p], r)]
      BY <1>8, <2>2 DEF OnMessageReceived
    <3>2. p \in Players /\ games[p] # None /\ games[p] \in Games /\ r.guess = games[p].last_guess
      BY <2>1, <2>2, ConcernsLastGuess
    <3> HIDE DEF r, p
    <3>3. CASE q = p
      <4>1. /\ games'[q].game_number = games[q].game_number
            /\ games'[q].attempt = games[q].attempt
            /\ games'[q].last_guess = games[q].last_guess
        BY <1>1, <3>1, <3>2, <3>3 DEF Answered, Games
      <4> QED
        BY <1>1, <1>4, <2>1, <3>2, <3>3, <4>1 DEF LastGuessKnown, OfLastAttempt
    <3> QED
      BY <1>1, <1>5, <2>1, <3>1, <3>3
  <2>3. CASE ~Concerns(games[p], r)
    <3>1. games' = games
      BY <1>8, <2>3 DEF OnMessageReceived
    <3> QED
      BY <1>5, <2>1, <3>1
  <2> QED
    BY <2>2, <2>3
<1>9. CASE HandleMessage \/ EndOfQueue \/ Abort \/ Commit \/ UNCHANGED vars
  BY <1>5, <1>9 DEF HandleMessage, EndOfQueue, Abort, Commit, vars
<1> QED
  BY <1>6, <1>7, <1>8, <1>9 DEF Next

\* What the board shows of a game.
Row(game) ==
  [number |-> game.game_number, range |-> game.range, attempt |-> game.attempt,
   guess |-> game.last_guess, clue |-> game.last_clue, over |-> game.game_over]

\* A guess in the row of a game.
LEMMA GuessedRow ==
  ASSUME NEW game \in Games, game.attempt < LastAttempt, NEW guess \in Numbers
  PROVE  /\ Guessed(game, guess) \in Games
         /\ Row(Guessed(game, guess)) =
              [Row(game) EXCEPT !.attempt = @ + 1, !.guess = guess, !.clue = None]
<1> DEFINE new == Guessed(game, guess)
<1>1. new = [game EXCEPT !.attempt = game.attempt + 1, !.last_guess = guess, !.last_clue = None]
  BY DEF Guessed
<1>2. game.attempt + 1 \in Attempts
  BY GuessAssumption DEF Games, Attempts
<1> HIDE DEF new
<1>3. new \in Games
  BY <1>1, <1>2 DEF Games
<1>4. /\ new.game_number = game.game_number /\ new.range = game.range
      /\ new.attempt = game.attempt + 1 /\ new.last_guess = guess /\ new.last_clue = None
      /\ new.game_over = game.game_over
  BY <1>1 DEF Games
<1>5. Row(new) = [number |-> game.game_number, range |-> game.range,
                  attempt |-> game.attempt + 1, guess |-> guess, clue |-> None,
                  over |-> game.game_over]
  BY <1>4 DEF Row
<1>6. [Row(game) EXCEPT !.attempt = @ + 1, !.guess = guess, !.clue = None] =
        [number |-> game.game_number, range |-> game.range,
         attempt |-> game.attempt + 1, guess |-> guess, clue |-> None,
         over |-> game.game_over]
  <2> DEFINE row(a, g, c) == [number |-> game.game_number, range |-> game.range, attempt |-> a,
                              guess |-> g, clue |-> c, over |-> game.game_over]
             a1 == game.attempt + 1
  <2>1. Row(game) = row(game.attempt, game.last_guess, game.last_clue) /\ Row(game).attempt + 1 = a1
    BY DEF Row
  <2> HIDE DEF a1
  <2>2. [row(game.attempt, game.last_guess, game.last_clue) EXCEPT !.attempt = a1] =
          row(a1, game.last_guess, game.last_clue)
    OBVIOUS
  <2>3. [row(a1, game.last_guess, game.last_clue) EXCEPT !.guess = guess] =
          row(a1, guess, game.last_clue)
    OBVIOUS
  <2>4. [row(a1, guess, game.last_clue) EXCEPT !.clue = None] = row(a1, guess, None)
    OBVIOUS
  <2> HIDE DEF row
  <2>5. [Row(game) EXCEPT !.attempt = @ + 1, !.guess = guess, !.clue = None] = row(a1, guess, None)
    BY <2>1, <2>2, <2>3, <2>4
  <2> QED
    BY <2>5 DEF row, a1
<1> QED
  BY <1>3, <1>5, <1>6 DEF new

\* A response in the row of the game it concerns.
LEMMA AnsweredRow ==
  ASSUME NEW game \in Games, NEW r \in ResponseMessages, r.guess = game.last_guess
  PROVE  /\ Answered(game, r) \in Games
         /\ Row(Answered(game, r)) = [Row(game) EXCEPT !.clue = r.clue, !.over = EndsGame(game, r)]
<1> DEFINE new == Answered(game, r)
           over == EndsGame(game, r)
<1>1. new = [game EXCEPT !.max_attempts = r.max_attempts, !.last_guess = r.guess,
                         !.last_clue = r.clue, !.game_over = over]
  BY DEF Answered
<1>2. r.max_attempts \in Nat /\ r.guess \in Numbers /\ r.clue \in Clues /\ over \in BOOLEAN
  BY DEF ResponseMessages, EndsGame
<1> HIDE DEF new, over
<1>3. new \in Games
  BY <1>1, <1>2 DEF Games
<1>4. /\ new.game_number = game.game_number /\ new.range = game.range
      /\ new.attempt = game.attempt /\ new.last_guess = r.guess /\ new.last_clue = r.clue
      /\ new.game_over = over
  BY <1>1 DEF Games
<1>5. Row(new) = [number |-> game.game_number, range |-> game.range, attempt |-> game.attempt,
                  guess |-> game.last_guess, clue |-> r.clue, over |-> over]
  BY <1>4 DEF Row
<1>6. [Row(game) EXCEPT !.clue = r.clue, !.over = over] =
        [number |-> game.game_number, range |-> game.range, attempt |-> game.attempt,
         guess |-> game.last_guess, clue |-> r.clue, over |-> over]
  <2> DEFINE row(c, o) == [number |-> game.game_number, range |-> game.range,
                           attempt |-> game.attempt, guess |-> game.last_guess,
                           clue |-> c, over |-> o]
  <2>1. Row(game) = row(game.last_clue, game.game_over)
    BY DEF Row
  <2>2. [row(game.last_clue, game.game_over) EXCEPT !.clue = r.clue] = row(r.clue, game.game_over)
    OBVIOUS
  <2>3. [row(r.clue, game.game_over) EXCEPT !.over = over] = row(r.clue, over)
    OBVIOUS
  <2> HIDE DEF row
  <2>4. [Row(game) EXCEPT !.clue = r.clue, !.over = over] = row(r.clue, over)
    BY <2>1, <2>2, <2>3
  <2> QED
    BY <2>4 DEF row
<1> QED
  BY <1>3, <1>5, <1>6 DEF new, over

\* The board with another row for p.
BoardWith(p, row) == [q \in DOMAIN Board \cup {p} |-> IF q = p THEN row ELSE Board[q]]

\* A step that changes the game of p changes the row of p.
LEMMA BoardChange ==
  ASSUME games \in [Players -> Games \cup {None}], NEW p \in Players, NEW new, new # None,
         games' = [games EXCEPT ![p] = new]
  PROVE  /\ Board' = BoardWith(p, Row(new))
         /\ games[p] # None => p \in DOMAIN Board /\ Board[p] = Row(games[p])
                               /\ Board' = [Board EXCEPT ![p] = Row(new)]
<1>1. /\ Board = [q \in {x \in Players : games[x] # None} |-> Row(games[q])]
      /\ Board' = [q \in {x \in Players : games'[x] # None} |-> Row(games'[q])]
  BY DEF Board, Row
<1> HIDE DEF Board
<1>2. \A q \in Players : games'[q] = IF q = p THEN new ELSE games[q]
  OBVIOUS
<1>3. {x \in Players : games'[x] # None} = {x \in Players : games[x] # None} \cup {p}
  BY <1>2
<1>4. /\ DOMAIN Board = {x \in Players : games[x] # None}
      /\ \A q \in DOMAIN Board : Board[q] = Row(games[q])
  BY <1>1
<1>5. Board' = [q \in DOMAIN Board \cup {p} |-> IF q = p THEN Row(new) ELSE Board[q]]
  <2>1. Board' = [q \in DOMAIN Board \cup {p} |-> Row(games'[q])]
    BY <1>1, <1>3, <1>4
  <2>2. \A q \in DOMAIN Board \cup {p} :
          Row(games'[q]) = IF q = p THEN Row(new) ELSE Board[q]
    BY <1>2, <1>4
  <2> QED
    BY <2>1, <2>2
<1>6. ASSUME games[p] # None
      PROVE  p \in DOMAIN Board /\ Board[p] = Row(games[p])
             /\ Board' = [Board EXCEPT ![p] = Row(new)]
  <2>1. p \in DOMAIN Board /\ Board[p] = Row(games[p]) /\ DOMAIN Board \cup {p} = DOMAIN Board
    BY <1>4, <1>6
  <2> QED
    BY <1>5, <2>1
<1> QED
  BY <1>5, <1>6 DEF BoardWith

\* A player's message is a step of the honest game.
LEMMA PlayersImplement ==
  ASSUME HonestInv, NEW p \in Players,
         \/ \E range \in Ranges : StartNewGame(p, range)
         \/ \E guess \in Numbers : Guess(p, guess)
  PROVE  Honest!Next
<1>1. /\ games \in [Players -> Games \cup {None}] /\ next_game_number \in GameNumbers
  BY DEF HonestInv, IInv, TypeOK
<1>2. ASSUME NEW range \in Ranges, StartNewGame(p, range)
      PROVE  Honest!Start(p, range)
  <2> DEFINE new == NewGame(next_game_number, range)
  <2>1. /\ CanPlay(range) /\ games' = [games EXCEPT ![p] = new]
        /\ next_game_number' = next_game_number + 1 /\ ended' = ended
    BY <1>2 DEF StartNewGame
  <2>2. new \in Games
    BY <1>1, <2>1, GuessAssumption DEF NewGame, Games, GameRanges, CanPlay, Attempts
  <2>3. new # None
    BY <2>2, NoGameAssumption
  <2>4. Row(new) = [number |-> next_game_number, range |-> range, attempt |-> 0,
                    guess |-> None, clue |-> None, over |-> FALSE]
    BY DEF Row, NewGame
  <2> HIDE DEF new
  <2>5. Board' = BoardWith(p, Row(new))
    BY <1>1, <2>1, <2>3, BoardChange
  <2> QED
    BY <2>1, <2>4, <2>5 DEF Honest!Start, CanPlay, BoardWith
<1>3. ASSUME NEW guess \in Numbers, Guess(p, guess)
      PROVE  Honest!Guess(p, guess)
  <2> DEFINE new == Guessed(games[p], guess)
  <2>1. /\ games[p] # None /\ ~games[p].game_over /\ games' = [games EXCEPT ![p] = new]
        /\ next_game_number' = next_game_number /\ ended' = ended
        /\ games[p].attempt < LastAttempt
    BY <1>3 DEF Guess, workerVars
  <2>2. games[p] \in Games
    BY <1>1, <2>1
  <2>3. new \in Games
    BY <2>1, <2>2, GuessedRow
  <2>4. new # None
    BY <2>3, NoGameAssumption
  <2>5. Row(new) = [Row(games[p]) EXCEPT !.attempt = @ + 1, !.guess = guess, !.clue = None]
    BY <2>1, <2>2, GuessedRow
  <2>6. ~Row(games[p]).over
    BY <2>1 DEF Row
  <2> HIDE DEF new
  <2>7. /\ p \in DOMAIN Board /\ Board[p] = Row(games[p])
        /\ Board' = [Board EXCEPT ![p] = Row(new)]
    BY <1>1, <2>1, <2>4, BoardChange
  <2>8. Board' = [Board EXCEPT ![p].attempt = @ + 1, ![p].guess = guess, ![p].clue = None]
    BY <2>5, <2>7
  <2> QED
    BY <2>1, <2>6, <2>7, <2>8 DEF Honest!Guess
<1> QED
  BY <1>2, <1>3 DEF Honest!Next

\* A response is told, if it concerns the last guess, or else changes nothing.
LEMMA ResponsesImplement ==
  ASSUME HonestInv, OnMessageReceived
  PROVE  Honest!Next \/ UNCHANGED <<Board, next_game_number, ended>>
<1> DEFINE r == Head(responses)
           p == r.player
           game == games[p]
           new == Answered(game, r)
           limit == r.max_attempts
           target == TargetNumber(game.game_number, p, game.range)
           over == EndsGame(game, r)
<1>1. responses # <<>> /\ next_game_number' = next_game_number
  BY DEF OnMessageReceived
<1>2. CASE ~Concerns(game, r)
  <2>1. games' = games /\ ended' = ended
    BY <1>2 DEF OnMessageReceived
  <2> QED
    BY <1>1, <2>1 DEF Board
<1>3. CASE Concerns(game, r)
  <2>1. /\ games' = [games EXCEPT ![p] = new]
        /\ ended' = IF over
                    THEN Append(ended, [game_number |-> r.game_number, player |-> p,
                                        win |-> r.clue = "Found",
                                        target |-> IF r.target = None THEN 0 ELSE r.target])
                    ELSE ended
    BY <1>3 DEF OnMessageReceived
  <2>2. /\ p \in Players /\ game # None /\ game \in Games /\ game.range \in GameRanges
        /\ r \in ResponseMessages /\ r.game_number = game.game_number
        /\ r.guess = game.last_guess /\ r.guess \in Numbers /\ target \in Numbers
        /\ r.clue = Clue(target, r.guess) /\ (r.clue = "Found" <=> r.guess = target)
        /\ r.clue = "Found" \/ game.attempt >= limit => r.target = target
        /\ limit \in Limits \cup {DEFAULT_MAX_ATTEMPTS}
    BY <1>1, <1>3, ConcernsLastGuess
  <2>3. game.last_clue = None
    BY <1>1, <1>3, ConcernsOpenGame DEF HonestInv
  <2>4. games \in [Players -> Games \cup {None}]
    BY DEF HonestInv, IInv, TypeOK
  <2>5. new # None
    BY <2>2, AnsweredRow, NoGameAssumption
  <2>6. Row(new) = [Row(game) EXCEPT !.clue = r.clue, !.over = over]
    BY <2>2, AnsweredRow
  <2>7. over <=> game.last_guess = target \/ game.attempt >= limit
    BY <2>2 DEF EndsGame
  <2>8. over => r.target = target /\ target # None
    BY <2>2, GuessAssumption DEF EndsGame
  <2>9. r.clue = IF game.last_guess = target THEN "Found"
                 ELSE IF game.last_guess < target THEN "More" ELSE "Less"
    BY <2>2, GuessAssumption DEF Clue, Numbers
  <2>10. /\ game.last_guess # None /\ target \in Int
         /\ (r.clue = "Found" <=> game.last_guess = target)
    BY <2>2, GuessAssumption DEF Numbers
  <2>11. /\ p \in DOMAIN Board /\ Board[p] = Row(game)
         /\ Board' = [Board EXCEPT ![p] = Row(new)]
    BY <2>1, <2>2, <2>4, <2>5, BoardChange
  <2>12. Honest!TargetOf(p) = target
    BY <2>2, <2>11 DEF Honest!TargetOf, Row, Games
  <2>13. /\ Row(game).number = game.game_number /\ Row(game).attempt = game.attempt
         /\ Row(game).guess = game.last_guess /\ Row(game).clue = game.last_clue
    BY DEF Row
  <2>14. ended' = IF over THEN Append(ended, [game_number |-> game.game_number, player |-> p,
                                              win |-> game.last_guess = target,
                                              target |-> target])
                  ELSE ended
    BY <2>1, <2>2, <2>8, <2>10
  <2>15. Board' = [Board EXCEPT ![p].clue = r.clue, ![p].over = over]
    BY <2>6, <2>11
  <2> HIDE DEF r, p, game, new, limit, target, over
  <2>16. Honest!Tell(p, limit)
    <3>1. /\ p \in DOMAIN Board /\ Board[p].guess # None /\ Board[p].clue = None
          /\ Board[p].guess = game.last_guess /\ Board[p].attempt = game.attempt
          /\ Board[p].number = game.game_number
      BY <2>3, <2>10, <2>11, <2>13
    <3>2. over = (Board[p].guess = Honest!TargetOf(p) \/ Board[p].attempt >= limit)
      BY <2>7, <2>12, <3>1
    <3>3. Honest!Compared(Honest!TargetOf(p), Board[p].guess) = r.clue
      BY <2>9, <2>12, <3>1 DEF Honest!Compared
    <3> QED
      BY <1>1, <2>12, <2>14, <2>15, <3>1, <3>2, <3>3 DEF Honest!Tell
  <2> QED
    BY <2>2, <2>16 DEF Honest!Next
<1> QED
  BY <1>2, <1>3

\* Every step is one of the honest game, or changes nothing that players see.
LEMMA HonestStep ==
  ASSUME HonestInv, [Next]_vars
  PROVE  [Honest!Next]_(Honest!vars)
<1>1. SUFFICES Honest!Next \/ UNCHANGED <<Board, next_game_number, ended>>
  BY DEF Honest!vars
<1>2. CASE \E p \in Players, range \in Ranges : StartNewGame(p, range)
  BY <1>2, PlayersImplement
<1>3. CASE \E p \in Players, guess \in Numbers : Guess(p, guess)
  BY <1>3, PlayersImplement
<1>4. CASE OnMessageReceived
  BY <1>4, ResponsesImplement
<1>5. CASE HandleMessage \/ EndOfQueue \/ Abort \/ Commit \/ UNCHANGED vars
  <2>1. UNCHANGED <<games, next_game_number, ended>>
    BY <1>5 DEF HandleMessage, EndOfQueue, Abort, Commit, vars
  <2> QED
    BY <2>1 DEF Board
<1> QED
  BY <1>2, <1>3, <1>4, <1>5 DEF Next

\* Whatever is late, lost or repeated between the contract and the worker, the
\* players see an honest game: the worker's draw, the queue and the count of
\* attempts on two sides implement one step that compares a guess with the target.
THEOREM HonestPlay == Spec => ImplementsHonestGame
<1>1. Init => HonestInv /\ Honest!Init
  <2> SUFFICES ASSUME Init PROVE Honest!Init
    BY HonestInit
  <2>1. games = [p \in Players |-> None] /\ next_game_number = 0 /\ ended = <<>>
    BY DEF Init
  <2>2. {q \in Players : games[q] # None} = {}
    BY <2>1
  <2>3. Board = [p \in {} |-> None]
    BY <2>2 DEF Board
  <2> QED
    BY <2>1, <2>3 DEF Honest!Init
<1>2. HonestInv /\ [Next]_vars => HonestInv'
  BY NextIInv, LimitsStep, LastGuessStep DEF HonestInv
<1>3. HonestInv /\ [Next]_vars => [Honest!Next]_(Honest!vars)
  BY HonestStep
<1> QED
  BY <1>1, <1>2, <1>3, PTL DEF Spec, ImplementsHonestGame, Honest!Spec
=============================================================================
