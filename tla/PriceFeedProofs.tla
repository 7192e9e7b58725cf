---------------------------- MODULE PriceFeedProofs ----------------------------
(***************************************************************************)
(* A price never replaces one of a later update, if every run has its own  *)
(* client, for any number of runs, pairs and transactions in the pool.     *)
(*                                                                         *)
(* The argument: a session's version was read before its prices were       *)
(* fetched, so while it is the version of the contract, nothing was        *)
(* committed after the fetch; and a transaction with that version is       *)
(* executed while it is the version of the contract, or not at all.        *)
(***************************************************************************)
EXTENDS PriceFeed, TLAPS

\* No two runs use one client.
PrivateClients == \A r, s \in Runs : ClientOf[r] = ClientOf[s] => r = s

\* What a run holds has been made before the await it is at.
Built ==
  \A r \in Runs :
    /\ pc[r] = "reply" => batch[r] \in Batches
    /\ pc[r] \in {"dryRun", "wait"} => tx[r] \in Transactions

TInv == TypeOK /\ Built

\* The prices of the replies are not older than the updates of their pairs.
Fresh(replies) ==
  \A p \in Pairs :
    pairs[p] # None /\ replies[p] # None => pairs[p].last_update <= replies[p]

\* A transaction expects a version that was, and has fresh prices as long as
\* it is the version of the contract.
Fenced(t) ==
  /\ t.condition \in Versions /\ t.condition <= version /\ t.update = t.condition + 1
  /\ t.condition = version => \A i \in 1 .. Len(t.replies) : Fresh(t.replies[i])

UpdatesPast == \A p \in Pairs : pairs[p] # None => pairs[p].last_update <= clock

\* The session of a run until commit.
SessionFenced(r) ==
  LET s == session[ClientOf[r]]
  IN /\ pc[r] = "version" => r \in holders /\ s = NewSession
     /\ pc[r] \in {"fetch", "reply"}
          => s.version \in Versions /\ s.read = s.version /\ s.version <= version /\ s.actions = <<>>
     /\ pc[r] = "reply" /\ s.version = version => Fresh(batch[r])

RunFenced(r) ==
  /\ SessionFenced(r)
  /\ pc[r] \in {"dryRun", "wait"} => Fenced(tx[r])

FInv ==
  /\ TInv
  /\ UpdatesPast
  /\ \A t \in pool : Fenced(t)
  /\ \A r \in Runs : RunFenced(r)

-----------------------------------------------------------------------------
(* Types.                                                                  *)

RunTypes ==
  /\ session \in [Clients -> Sessions]
  /\ holders \subseteq Runs
  /\ pc \in [Runs -> {"idle", "version", "fetch", "reply", "dryRun", "wait", "restart"}]
  /\ batch \in [Runs -> Batches \cup {Undefined}]
  /\ tx \in [Runs -> Transactions \cup {Undefined}]
  /\ Built

\* A new session has the type of sessions.
LEMMA NewSessionType ==
  NewSession \in Sessions
  BY DEF NewSession, Sessions

\* A pair of the contract, or the default one.
LEMMA PairOfType ==
  ASSUME TInv, NEW p \in Pairs
  PROVE  PairOf(p) \in TradingPairs
  BY FeedAssumption DEF TInv, TypeOK, PairOf, NewPair, TradingPairs

\* startSession keeps the types.
LEMMA StartSessionTypes ==
  ASSUME TInv, NEW r \in Runs, StartSession(r)
  PROVE  session' \in [Clients -> Sessions] /\ holders' \subseteq Runs
  BY NewSessionType DEF TInv, TypeOK, StartSession

\* So does a rollback.
LEMMA RollbackTypes ==
  ASSUME TInv, NEW r \in Runs, Rollback(r)
  PROVE  RunTypes'
<1>1. session' \in [Clients -> Sessions] /\ holders' \subseteq Runs
  BY StartSessionTypes DEF Rollback
<1>2. /\ pc' \in [Runs -> {"idle", "version", "fetch", "reply", "dryRun", "wait", "restart"}]
      /\ batch' \in [Runs -> Batches \cup {Undefined}]
      /\ tx' \in [Runs -> Transactions \cup {Undefined}]
  BY DEF TInv, TypeOK, Rollback, GoTo
<1>3. Built'
  BY DEF TInv, TypeOK, Built, Rollback, GoTo
<1> QED
  BY <1>1, <1>2, <1>3 DEF RunTypes

\* The contract receives the replies of a transaction.
LEMMA ReceiveTypes ==
  ASSUME TInv, NEW t \in Transactions, Accepts(t), t.update <= MaxVersion, Receive(t)
  PROVE  /\ pairs' \in [Pairs -> TradingPairs \cup {None}]
         /\ version' \in Versions
<1> DEFINE n == Len(t.replies)
<1>1. n \in Nat /\ t.replies[n] \in Batches
  BY DEF Transactions
<1>2. ASSUME NEW p \in Pairs
      PROVE  /\ PriceOf(t.replies[n][p]) \in {0} \cup Times
             /\ PairOf(p).nb_updates + n \in 0 .. MaxUpdates
  <2>1. PairOf(p) \in TradingPairs
    BY PairOfType
  <2>2. t.replies[n][p] \in Replies
    BY <1>1 DEF Batches
  <2>3. PairOf(p).nb_updates + n <= MaxUpdates
    BY DEF Accepts, RoomForAll
  <2> QED
    BY <1>1, <2>1, <2>2, <2>3, FeedAssumption DEF PriceOf, Replies, TradingPairs
<1>3. pairs' \in [Pairs -> TradingPairs \cup {None}]
  BY <1>2 DEF Receive, Updated, TradingPairs, TInv, TypeOK
<1>4. version' \in Versions
  BY FeedAssumption DEF Receive, Transactions, Versions
<1> QED
  BY <1>3, <1>4

\* The steps of the contract and of the other oracles keep the types.
LEMMA ContractTypes ==
  ASSUME TInv, Tick \/ (\E p \in Pairs : CreateTradingPair(p) \/ OtherOracle(p))
               \/ (\E t \in pool : Execute(t))
  PROVE  TInv'
<1> USE FeedAssumption DEF TInv, TypeOK
<1>1. CASE Tick
  BY <1>1 DEF Tick, Built, contractVars, runVars, Times
<1>2. ASSUME NEW p \in Pairs, CreateTradingPair(p) PROVE TInv'
  BY <1>2 DEF CreateTradingPair, NewPair, TradingPairs, Built, runVars
<1>3. ASSUME NEW p \in Pairs, OtherOracle(p) PROVE TInv'
  <2>1. PriceOf(clock) \in {0} \cup Times
    BY DEF PriceOf
  <2>2. PairOf(p) = pairs[p] /\ pairs[p] \in TradingPairs
    BY <1>3 DEF OtherOracle, PairOf
  <2>3. pairs[p].nb_updates < MaxUpdates => Updated(p, 1, clock) \in TradingPairs
    BY <2>1, <2>2 DEF Updated, TradingPairs
  <2>4. pairs' \in [Pairs -> TradingPairs \cup {None}]
    BY <1>3, <2>3 DEF OtherOracle
  <2>5. version' \in Versions /\ others' \in 0 .. MaxOthers
    BY <1>3 DEF OtherOracle, Versions
  <2> QED
    BY <1>3, <2>4, <2>5 DEF OtherOracle, Built, runVars
<1>4. ASSUME NEW t \in pool, Execute(t) PROVE TInv'
  <2>1. CASE Accepts(t) /\ t.update <= MaxVersion /\ Receive(t)
    BY <1>4, <2>1, ReceiveTypes DEF Execute, Built, runVars
  <2>2. CASE UNCHANGED contractVars
    BY <1>4, <2>2 DEF Execute, Built, runVars, contractVars
  <2> QED
    BY <1>4, <2>1, <2>2 DEF Execute
<1> QED
  BY <1>1, <1>2, <1>3, <1>4

\* The session to which a run adds its replies.
LEMMA AddedActions ==
  ASSUME NEW s \in Sessions, NEW replies
  PROVE  [s EXCEPT !.actions = Append(@, replies)]
           = [version |-> s.version, read |-> s.read, actions |-> Append(s.actions, replies)]
<1> DEFINE added == Append(s.actions, replies)
<1> HIDE DEF added
<1>1. [s EXCEPT !.actions = added]
        = [version |-> s.version, read |-> s.read, actions |-> added]
  BY DEF Sessions
<1> QED
  BY <1>1, Zenon DEF added

\* The steps of a run keep the types.
LEMMA RunTypesKept ==
  ASSUME TInv, NEW r \in Runs, RunStep(r) \/ Fail(r)
  PROVE  TInv'
<1> USE FeedAssumption DEF TInv, TypeOK
<1> DEFINE c == ClientOf[r]
<1>1. c \in Clients /\ session[c] \in Sessions
  OBVIOUS
<1>2. CASE BeginFeed(r)
  BY <1>2, StartSessionTypes DEF BeginFeed, GoTo, Built, contractVars
<1>3. CASE ReadVersion(r)
  <2>1. session' \in [Clients -> Sessions]
    BY <1>1, <1>3 DEF ReadVersion, Sessions
  <2> QED
    BY <1>3, <2>1 DEF ReadVersion, GoTo, Built, contractVars
<1>4. CASE Fetch(r)
  <2>1. ReplySets(clock) \subseteq Batches
    BY DEF ReplySets, Batches, Replies
  <2> QED
    BY <1>4, <2>1 DEF Fetch, GoTo, Built, contractVars
<1>5. CASE Commit(r)
  <2>1. CASE session[c].version = Undefined
    <3>1. Rollback(r)
      BY <1>5, <2>1 DEF Commit
    <3> QED
      BY <1>5, <3>1, RollbackTypes DEF Commit, RunTypes, contractVars
  <2>2. CASE session[c].version # Undefined
    <3> DEFINE s == [session[c] EXCEPT !.actions = Append(@, batch[r])]
               t == [condition |-> s.read, update |-> s.version + 1, replies |-> s.actions]
    <3>1. batch[r] \in Batches /\ session[c].actions \in Seq(Batches)
      BY <1>1, <1>5 DEF Commit, Built, Sessions
    <3>2. Append(session[c].actions, batch[r]) \in Seq(Batches) \ {<<>>}
      BY <3>1
    <3>3. s \in Sessions /\ t \in Transactions
      <4>1. s = [version |-> session[c].version, read |-> session[c].read,
                 actions |-> Append(session[c].actions, batch[r])]
        BY <1>1, AddedActions
      <4>2. session[c].version \in Nat /\ session[c].read \in Versions \cup {Undefined}
        BY <1>1, <2>2 DEF Sessions, Versions
      <4>3. t = [condition |-> session[c].read, update |-> session[c].version + 1,
                 replies |-> Append(session[c].actions, batch[r])]
        BY <4>1
      <4> HIDE DEF s, t
      <4> QED
        BY <1>1, <3>2, <4>1, <4>2, <4>3 DEF Sessions, Transactions
    <3>4. /\ session' = [session EXCEPT ![c] = s]
          /\ tx' = [tx EXCEPT ![r] = t]
          /\ batch' = [batch EXCEPT ![r] = Undefined]
          /\ pc' = [pc EXCEPT ![r] = "dryRun"]
          /\ UNCHANGED <<holders, clock, contractVars, pool, others, faults>>
      BY <1>5, <2>2 DEF Commit, GoTo
    <3> HIDE DEF s, t
    <3> QED
      BY <3>3, <3>4 DEF Built, contractVars
  <2> QED
    BY <2>1, <2>2
<1>6. CASE DryRun(r)
  <2>1. CASE Accepts(tx[r])
    BY <1>6, <2>1 DEF DryRun, GoTo, Built, contractVars
  <2>2. CASE ~Accepts(tx[r])
    <3>1. Rollback(r)
      BY <1>6, <2>2 DEF DryRun
    <3> QED
      BY <1>6, <2>2, <3>1, RollbackTypes DEF DryRun, RunTypes, contractVars
  <2> QED
    BY <2>1, <2>2
<1>7. CASE EndCommit(r)
  BY <1>7, RollbackTypes DEF EndCommit, RunTypes, contractVars
<1>8. CASE Fail(r)
  <2>1. CASE Rollback(r)
    BY <1>8, <2>1, RollbackTypes DEF Fail, RunTypes, contractVars
  <2>2. CASE GoTo(r, "idle") /\ holders' = holders \ {r} /\ UNCHANGED <<session, batch, tx>>
    BY <1>8, <2>2 DEF Fail, GoTo, Built, contractVars
  <2> QED
    BY <1>8, <2>1, <2>2 DEF Fail
<1> QED
  BY <1>2, <1>3, <1>4, <1>5, <1>6, <1>7, <1>8 DEF RunStep

\* Every step keeps the types.
LEMMA NextTypes ==
  ASSUME TInv, [Next]_vars
  PROVE  TInv'
<1>1. CASE Next
  BY <1>1, ContractTypes, RunTypesKept DEF Next
<1>2. CASE UNCHANGED vars
  BY <1>2 DEF TInv, TypeOK, Built, vars, contractVars, runVars
<1> QED
  BY <1>1, <1>2

\* The state of the runs, of the pool and of the contract has its type, for
\* runs that share clients, too: the counters of updates never overflow.
THEOREM FeedInvariance == Spec => []TypeOK
<1>1. Init => TInv
  BY NewSessionType, FeedAssumption
     DEF Init, TInv, TypeOK, Built, Times, Versions
<1>2. TInv => TypeOK
  BY DEF TInv
<1> QED
  BY <1>1, <1>2, NextTypes, PTL DEF Spec

-----------------------------------------------------------------------------
(* The version fences off old prices.                                      *)

\* What a step may do to the contract: it makes a new version, or keeps the
\* version and the pairs, apart from new ones.
ContractMoves ==
  \/ version' > version
  \/ version' = version /\ \A p \in Pairs : pairs'[p] \in {pairs[p], NewPair}

\* Prices stay fresh as long as there is no new version.
LEMMA FreshKept ==
  ASSUME TInv, ContractMoves, version' = version, NEW b \in Batches, Fresh(b)
  PROVE  Fresh(b)'
<1>1. \A p \in Pairs : pairs'[p] \in {pairs[p], NewPair}
  BY DEF ContractMoves, TInv, TypeOK, Versions
<1>2. \A p \in Pairs : b[p] # None => b[p] \in Nat
  BY DEF Batches, Replies, Times
<1> QED
  BY <1>1, <1>2 DEF Fresh, NewPair

\* A fenced transaction stays fenced.
LEMMA FencedKept ==
  ASSUME TInv, TInv', ContractMoves, NEW t \in Transactions, Fenced(t)
  PROVE  Fenced(t)'
<1>1. version \in Nat /\ version' \in Nat /\ t.condition \in Nat
  BY DEF TInv, TypeOK, Versions, Fenced
<1>2. t.condition <= version'
  BY <1>1 DEF Fenced, ContractMoves
<1>3. ASSUME t.condition = version', NEW i \in 1 .. Len(t.replies) PROVE Fresh(t.replies[i])'
  <2>1. version' = version
    BY <1>1, <1>3 DEF Fenced, ContractMoves
  <2>2. t.replies[i] \in Batches /\ Fresh(t.replies[i])
    BY <1>3, <2>1 DEF Transactions, Fenced
  <2> QED
    BY <2>1, <2>2, FreshKept
<1> QED
  BY <1>2, <1>3 DEF Fenced

\* So does a run that does not move, while its client's session stays.
LEMMA RunFencedKept ==
  ASSUME TInv, TInv', ContractMoves, NEW r \in Runs, RunFenced(r),
         pc'[r] = pc[r], batch'[r] = batch[r], tx'[r] = tx[r],
         session'[ClientOf[r]] = session[ClientOf[r]], r \in holders => r \in holders'
  PROVE  RunFenced(r)'
<1> DEFINE s == session[ClientOf[r]]
<1>1. version \in Nat /\ version' \in Nat /\ version' >= version
  BY DEF TInv, TypeOK, Versions, ContractMoves
<1>2. pc[r] \in {"dryRun", "wait"} => Fenced(tx[r])'
  BY FencedKept DEF RunFenced, TInv, Built
<1>3. s.version \in Versions => s.version \in Nat
  BY DEF Versions
<1>4. ASSUME pc[r] = "reply", s.version = version' PROVE Fresh(batch[r])'
  <2>1. s.version <= version /\ batch[r] \in Batches
    BY <1>4 DEF RunFenced, SessionFenced, TInv, Built
  <2>2. version' = version
    BY <1>1, <1>4, <2>1
  <2>3. Fresh(batch[r])
    BY <1>4, <2>2 DEF RunFenced, SessionFenced
  <2> QED
    BY <2>1, <2>2, <2>3, FreshKept
<1>5. SessionFenced(r)'
  BY <1>1, <1>3, <1>4 DEF RunFenced, SessionFenced
<1> QED
  BY <1>2, <1>5 DEF RunFenced

\* The steps of the contract and of the other oracles keep the fences.
LEMMA ContractFences ==
  ASSUME FInv, TInv',
         Tick \/ (\E p \in Pairs : CreateTradingPair(p) \/ OtherOracle(p))
           \/ (\E t \in pool : Execute(t))
  PROVE  FInv'
<1> USE DEF FInv
<1>1. clock \in Nat /\ version \in Nat /\ \A p \in Pairs : pairs[p] # None => pairs[p] \in TradingPairs
  BY DEF TInv, TypeOK, Times, Versions
<1>2. UNCHANGED runVars
  BY DEF Tick, CreateTradingPair, OtherOracle, Execute
<1>3. pool' \subseteq pool
  BY DEF Tick, CreateTradingPair, OtherOracle, Execute
<1>4. ContractMoves /\ UpdatesPast'
  <2>1. CASE Tick
    BY <1>1, <2>1 DEF Tick, ContractMoves, contractVars, UpdatesPast, TradingPairs, Times
  <2>2. ASSUME NEW p \in Pairs, CreateTradingPair(p) PROVE ContractMoves /\ UpdatesPast'
    BY <1>1, <2>2 DEF CreateTradingPair, NewPair, ContractMoves, UpdatesPast, TInv, TypeOK
  <2>3. ASSUME NEW p \in Pairs, OtherOracle(p) PROVE ContractMoves /\ UpdatesPast'
    BY <1>1, <2>3 DEF OtherOracle, Updated, ContractMoves, UpdatesPast, TInv, TypeOK
  <2>4. ASSUME NEW t \in pool, Execute(t) PROVE ContractMoves /\ UpdatesPast'
    <3>1. CASE Accepts(t) /\ Receive(t)
      <4>1. t.condition = version /\ version' = version + 1
        BY <1>1, <2>4, <3>1, FeedAssumption DEF Accepts, Receive, Fenced, Versions
      <4>2. \A p \in Pairs : pairs'[p].last_update = clock /\ clock' = clock
        BY <2>4, <3>1 DEF Receive, Updated, Execute
      <4> QED
        BY <1>1, <4>1, <4>2 DEF ContractMoves, UpdatesPast
    <3>2. CASE UNCHANGED contractVars
      BY <1>1, <2>4, <3>2 DEF Execute, contractVars, ContractMoves, UpdatesPast
    <3> QED
      BY <2>4, <3>1, <3>2 DEF Execute
  <2> QED
    BY <2>1, <2>2, <2>3, <2>4
<1>5. \A t \in pool' : Fenced(t)'
  BY <1>3, <1>4, FencedKept DEF TInv, TypeOK
<1>6. \A r \in Runs : RunFenced(r)'
  BY <1>2, <1>4, RunFencedKept DEF runVars
<1> QED
  BY <1>4, <1>5, <1>6

\* A step of r leaves the other runs and the contract alone.
LEMMA OthersStay ==
  ASSUME PrivateClients, TInv, NEW r \in Runs, RunStep(r) \/ Fail(r)
  PROVE  /\ UNCHANGED <<clock, contractVars>>
         /\ \A q \in Runs \ {r} :
              /\ pc'[q] = pc[q] /\ batch'[q] = batch[q] /\ tx'[q] = tx[q]
              /\ session'[ClientOf[q]] = session[ClientOf[q]]
              /\ q \in holders => q \in holders'
<1> USE DEF contractVars
<1>1. \A q \in Runs \ {r} : ClientOf[q] # ClientOf[r] /\ ClientOf[q] \in Clients
  BY FeedAssumption DEF PrivateClients
<1>2. /\ pc \in [Runs -> {"idle", "version", "fetch", "reply", "dryRun", "wait", "restart"}]
      /\ batch \in [Runs -> Batches \cup {Undefined}]
      /\ tx \in [Runs -> Transactions \cup {Undefined}]
      /\ session \in [Clients -> Sessions] /\ holders \subseteq Runs
  BY DEF TInv, TypeOK
<1> DEFINE Stay == /\ UNCHANGED <<clock, contractVars>>
                   /\ \A q \in Runs \ {r} :
                        /\ pc'[q] = pc[q] /\ batch'[q] = batch[q] /\ tx'[q] = tx[q]
                        /\ session'[ClientOf[q]] = session[ClientOf[q]]
                        /\ q \in holders => q \in holders'
<1>3. ASSUME Rollback(r), UNCHANGED <<clock, contractVars>> PROVE Stay
  BY <1>1, <1>2, <1>3 DEF Rollback, StartSession, GoTo
<1>4. CASE BeginFeed(r)
  BY <1>1, <1>2, <1>4 DEF BeginFeed, StartSession, GoTo
<1>5. CASE ReadVersion(r)
  BY <1>1, <1>2, <1>5 DEF ReadVersion, GoTo
<1>6. CASE Fetch(r)
  BY <1>1, <1>2, <1>6 DEF Fetch, GoTo
<1>7. CASE Commit(r)
  <2>1. CASE Rollback(r)
    BY <1>3, <1>7, <2>1 DEF Commit
  <2>2. CASE ~Rollback(r)
    BY <1>1, <1>2, <1>7, <2>2 DEF Commit, GoTo
  <2> QED
    BY <2>1, <2>2
<1>8. CASE DryRun(r)
  <2>1. CASE Rollback(r)
    BY <1>3, <1>8, <2>1 DEF DryRun
  <2>2. CASE ~Rollback(r)
    BY <1>1, <1>2, <1>8, <2>2 DEF DryRun, GoTo
  <2> QED
    BY <2>1, <2>2
<1>9. CASE EndCommit(r)
  BY <1>3, <1>9 DEF EndCommit
<1>10. CASE Fail(r)
  <2>1. CASE Rollback(r)
    BY <1>3, <1>10, <2>1 DEF Fail
  <2>2. CASE ~Rollback(r)
    BY <1>1, <1>2, <1>10, <2>2 DEF Fail, GoTo
  <2> QED
    BY <2>1, <2>2
<1> QED
  BY <1>4, <1>5, <1>6, <1>7, <1>8, <1>9, <1>10 DEF RunStep

\* The transaction of a session that is fenced is fenced.
LEMMA CommitFences ==
  ASSUME FInv, NEW r \in Runs, Commit(r), ~Rollback(r)
  PROVE  Fenced(tx'[r])
<1> DEFINE s == session[ClientOf[r]]
<1>1. /\ s \in Sessions /\ batch[r] \in Batches
      /\ s.version \in Versions /\ s.read = s.version /\ s.version <= version /\ s.actions = <<>>
      /\ s.version = version => Fresh(batch[r])
  BY FeedAssumption DEF FInv, TInv, TypeOK, Built, Commit, RunFenced, SessionFenced
<1>2. tx'[r] = [condition |-> s.read, update |-> s.version + 1,
                replies |-> Append(s.actions, batch[r])]
  <2>1. tx'[r] = LET a == [s EXCEPT !.actions = Append(@, batch[r])]
                 IN  [condition |-> a.read, update |-> a.version + 1, replies |-> a.actions]
    BY DEF Commit, FInv, TInv, TypeOK
  <2> HIDE DEF s
  <2> QED
    BY <1>1, <2>1, AddedActions
<1> HIDE DEF s
<1>3. tx'[r].replies = <<batch[r]>>
  BY <1>1, <1>2
<1>4. \A i \in 1 .. Len(tx'[r].replies) : tx'[r].replies[i] = batch[r]
  BY <1>3
<1> QED
  BY <1>1, <1>2, <1>4 DEF Fenced

\* The steps of a run with a client of its own keep the fences.
LEMMA RunFences ==
  ASSUME PrivateClients, FInv, TInv', NEW r \in Runs, RunStep(r) \/ Fail(r)
  PROVE  FInv'
<1> DEFINE c == ClientOf[r]
<1>1. TInv /\ RunFenced(r) /\ UpdatesPast
  BY DEF FInv
<1>2. /\ UNCHANGED <<clock, contractVars>>
      /\ \A q \in Runs \ {r} : RunFenced(q)'
  <2>1. /\ UNCHANGED <<clock, contractVars>>
        /\ \A q \in Runs \ {r} :
             /\ pc'[q] = pc[q] /\ batch'[q] = batch[q] /\ tx'[q] = tx[q]
             /\ session'[ClientOf[q]] = session[ClientOf[q]]
             /\ q \in holders => q \in holders'
    BY <1>1, OthersStay
  <2>2. ContractMoves
    BY <2>1 DEF ContractMoves, contractVars
  <2> QED
    BY <1>1, <2>1, <2>2, RunFencedKept DEF FInv
<1>3. UNCHANGED <<clock, pairs, version>>
  BY <1>2 DEF contractVars
<1>4. UpdatesPast'
  BY <1>1, <1>3 DEF UpdatesPast
<1>5. \A t : Fenced(t) => Fenced(t)'
  BY <1>3 DEF Fenced, Fresh
<1>6. c \in Clients /\ session[c] \in Sessions /\ version \in Versions /\ clock \in Nat
  BY <1>1, FeedAssumption DEF TInv, TypeOK, Times
<1>7. ASSUME Rollback(r) PROVE RunFenced(r)'
  BY <1>1, <1>7 DEF Rollback, GoTo, TInv, TypeOK, RunFenced, SessionFenced
<1>8. CASE BeginFeed(r)
  <2>1. pc'[r] = "version" /\ session'[c] = NewSession /\ r \in holders'
    BY <1>1, <1>6, <1>8 DEF BeginFeed, StartSession, GoTo, TInv, TypeOK
  <2>2. RunFenced(r)'
    BY <2>1 DEF RunFenced, SessionFenced
  <2> QED
    BY <1>2, <1>4, <1>5, <1>8, <2>2 DEF FInv, BeginFeed
<1>9. CASE ReadVersion(r)
  <2>1. pc'[r] \in {"fetch", "idle"}
    BY <1>1, <1>9 DEF ReadVersion, GoTo, TInv, TypeOK
  <2>2. ASSUME pc'[r] = "fetch"
        PROVE  LET s == session'[c]
               IN s.version = version /\ s.read = version /\ s.actions = <<>>
    <3>1. pc[r] = "version"
      BY <1>1, <1>9, <2>2 DEF ReadVersion, GoTo, TInv, TypeOK
    <3>2. r \in holders /\ session[c] = NewSession
      BY <1>1, <3>1 DEF RunFenced, SessionFenced
    <3> QED
      BY <1>1, <1>6, <1>9, <3>2 DEF ReadVersion, NewSession, TInv, TypeOK
  <2>3. RunFenced(r)'
    BY <1>3, <1>6, <2>1, <2>2 DEF RunFenced, SessionFenced, Versions
  <2> QED
    BY <1>2, <1>4, <1>5, <1>9, <2>3 DEF FInv, ReadVersion
<1>10. CASE Fetch(r)
  <2>1. pc[r] = "fetch" /\ pc'[r] = "reply" /\ session' = session
    BY <1>1, <1>10 DEF Fetch, GoTo, TInv, TypeOK
  <2>2. Fresh(batch'[r])
    <3>1. batch'[r] \in ReplySets(clock)
      BY <1>1, <1>10 DEF Fetch, TInv, TypeOK
    <3> QED
      BY <1>1, <3>1 DEF Fresh, ReplySets, UpdatesPast
  <2>3. Fresh(batch[r])'
    BY <1>3, <2>2 DEF Fresh
  <2>4. RunFenced(r)'
    BY <1>1, <1>3, <2>1, <2>3 DEF RunFenced, SessionFenced
  <2> QED
    BY <1>2, <1>4, <1>5, <1>10, <2>4 DEF FInv, Fetch
<1>11. CASE Commit(r)
  <2>1. ASSUME ~Rollback(r) PROVE RunFenced(r)'
    <3>1. pc'[r] = "dryRun"
      BY <1>1, <1>11, <2>1 DEF Commit, GoTo, TInv, TypeOK
    <3>2. Fenced(tx'[r])
      BY <1>11, <2>1, CommitFences
    <3>3. Fenced(tx[r])'
      BY <1>3, <3>2 DEF Fenced, Fresh
    <3> QED
      BY <3>1, <3>3 DEF RunFenced, SessionFenced
  <2> QED
    BY <1>2, <1>4, <1>5, <1>7, <1>11, <2>1 DEF FInv, Commit
<1>12. CASE DryRun(r)
  <2>1. Fenced(tx[r])
    BY <1>1, <1>12 DEF DryRun, RunFenced
  <2>2. \A t \in pool' : Fenced(t)'
    BY <1>5, <1>12, <2>1 DEF DryRun, FInv
  <2>3. ASSUME ~Rollback(r) PROVE RunFenced(r)'
    <3>1. pc'[r] = "wait" /\ tx' = tx
      BY <1>1, <1>12, <2>3 DEF DryRun, GoTo, TInv, TypeOK
    <3> QED
      BY <1>5, <2>1, <3>1 DEF RunFenced, SessionFenced
  <2> QED
    BY <1>2, <1>4, <1>7, <2>2, <2>3 DEF FInv
<1>13. CASE EndCommit(r)
  BY <1>2, <1>4, <1>5, <1>7, <1>13 DEF FInv, EndCommit
<1>14. CASE Fail(r)
  <2>1. ASSUME ~Rollback(r) PROVE RunFenced(r)'
    <3>1. pc'[r] = "idle"
      BY <1>1, <1>14, <2>1 DEF Fail, GoTo, TInv, TypeOK
    <3> QED
      BY <3>1 DEF RunFenced, SessionFenced
  <2> QED
    BY <1>2, <1>4, <1>5, <1>7, <1>14, <2>1 DEF FInv, Fail
<1> QED
  BY <1>8, <1>9, <1>10, <1>11, <1>12, <1>13, <1>14 DEF RunStep

\* Every step keeps the fences.
LEMMA NextFences ==
  ASSUME PrivateClients, FInv, [Next]_vars
  PROVE  FInv'
<1>1. TInv'
  BY NextTypes DEF FInv
<1>2. CASE Next
  BY <1>1, <1>2, ContractFences, RunFences DEF Next
<1>3. CASE UNCHANGED vars
  BY <1>1, <1>3 DEF FInv, vars, contractVars, runVars, UpdatesPast, Fenced, Fresh,
                    RunFenced, SessionFenced
<1> QED
  BY <1>2, <1>3

\* The fences of the first state.
LEMMA InitFences ==
  ASSUME Init
  PROVE  FInv
<1>1. TInv
  BY NewSessionType, FeedAssumption DEF Init, TInv, TypeOK, Built, Times, Versions
<1> QED
  BY <1>1 DEF Init, FInv, UpdatesPast, RunFenced, SessionFenced

\* A step that changes a pair registers no price older than its last update.
LEMMA PricesOfStep ==
  ASSUME FInv, [Next]_vars, NEW p \in Pairs, pairs[p] # None, pairs'[p] # pairs[p]
  PROVE  pairs'[p].value = 0 \/ pairs'[p].value >= pairs[p].last_update
<1>1. /\ pairs \in [Pairs -> TradingPairs \cup {None}] /\ pairs[p] \in TradingPairs
      /\ pairs[p].last_update <= clock /\ clock \in Nat
  BY DEF FInv, TInv, TypeOK, UpdatesPast, Times
<1>2. Next
  BY DEF vars, contractVars
<1>3. ASSUME NEW q \in Pairs, CreateTradingPair(q) PROVE pairs'[p].value = 0
  BY <1>1, <1>3 DEF CreateTradingPair, NewPair
<1>4. ASSUME NEW q \in Pairs, OtherOracle(q) PROVE pairs'[p].value >= pairs[p].last_update
  <2>1. pairs'[p] = Updated(p, 1, clock)
    BY <1>1, <1>4 DEF OtherOracle
  <2>2. pairs'[p].value = clock
    BY <1>1, <2>1, FeedAssumption DEF Updated, PriceOf
  <2> QED
    BY <1>1, <2>2 DEF TradingPairs, Times
<1>5. ASSUME NEW t \in pool, Execute(t)
      PROVE  pairs'[p].value = 0 \/ pairs'[p].value >= pairs[p].last_update
  <2> DEFINE n == Len(t.replies)
             reply == t.replies[n][p]
  <2>1. Accepts(t) /\ Receive(t)
    BY <1>5 DEF Execute, contractVars
  <2>2. t \in Transactions /\ Fenced(t)
    BY DEF FInv, TInv, TypeOK
  <2>3. t.condition = version
    BY <2>1, <2>2, FeedAssumption DEF Accepts, Fenced, Versions
  <2>4. n \in 1 .. n /\ t.replies[n] \in Batches
    BY <2>2 DEF Transactions
  <2>5. Fresh(t.replies[n])
    BY <2>2, <2>3, <2>4 DEF Fenced
  <2>6. pairs'[p].value = PriceOf(reply)
    BY <2>1 DEF Receive, Updated
  <2>7. reply \in Replies
    BY <2>4 DEF Batches
  <2>8. reply # None => pairs[p].last_update <= reply
    BY <2>5 DEF Fresh
  <2> QED
    BY <1>1, <2>6, <2>7, <2>8 DEF PriceOf, Replies, TradingPairs, Times
<1>6. CASE Tick
  BY <1>6 DEF Tick, contractVars
<1>7. ASSUME NEW r \in Runs, RunStep(r) \/ Fail(r) PROVE pairs' = pairs
  BY <1>7 DEF RunStep, Fail, BeginFeed, ReadVersion, Fetch, Commit, DryRun, EndCommit, contractVars
<1> QED
  BY <1>2, <1>3, <1>4, <1>5, <1>6, <1>7 DEF Next

\* If no two runs use one client, the contract never replaces a price by one
\* that was fetched before its last update.
THEOREM FencedPrices ==
  ASSUME PrivateClients
  PROVE  Spec => PricesMoveForward
<1>1. FInv /\ [Next]_vars => FInv'
  BY NextFences
<1>2. FInv /\ [Next]_vars
        => [\A p \in Pairs :
              pairs[p] # None /\ pairs'[p] # pairs[p]
                => pairs'[p].value = 0 \/ pairs'[p].value >= pairs[p].last_update]_vars
  BY PricesOfStep
<1> QED
  BY <1>1, <1>2, InitFences, PTL DEF Spec, PricesMoveForward
=============================================================================
