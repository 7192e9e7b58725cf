------------------------------- MODULE PriceFeed -------------------------------
(***************************************************************************)
(* The price feed: runs that start a session, fetch the prices of all the  *)
(* pairs and commit them, and the consumer contract.  Time passes between  *)
(* the fetch and the transaction, which may stay in the pool after its run *)
(* has given up: what keeps an old price from replacing a newer one is the *)
(* version that the session read before the fetch.  A price is named by    *)
(* the time at which it was fetched.                                       *)
(*                                                                         *)
(* The runs of one worker share its client and so one current session (see *)
(* SharedClient): the schedule starts a run every five minutes, and        *)
(* /execute another, even if a run is under way.                           *)
(***************************************************************************)
EXTENDS Integers, Sequences

CONSTANTS
  Runs,         \* the runs that may be under way at the same time
  Clients,      \* the Client objects, one in each worker
  ClientOf,     \* ClientOf[r]: the client of run r
  Pairs,        \* the trading pairs, the same for all workers
  None,         \* the absence of a price or of a trading pair
  Undefined,    \* a variable that is not set
  MaxUpdates,   \* the largest nb_updates (u16::MAX)
  MaxTime,      \* bound on the time
  MaxVersion,   \* bound on the commits
  MaxOthers,    \* bound on the calls of create_trading_pair and of other oracles
  MaxFaults     \* bound on the exceptions of the runs

Times == 1 .. MaxTime
Versions == 0 .. MaxVersion

ASSUME FeedAssumption ==
  /\ ClientOf \in [Runs -> Clients]
  /\ MaxUpdates \in Nat /\ MaxTime \in Nat \ {0} /\ MaxVersion \in Nat
  /\ MaxOthers \in Nat /\ MaxFaults \in Nat
  /\ None \notin Nat /\ Undefined \notin Nat

VARIABLES
  clock,
  pairs,      \* pairs[p]: the trading pair in the contract, or None
  version,    \* the version number in the kv store, 0 if it is absent
  session,    \* session[c]: the current session of client c
  holders,    \* the runs whose startSession will write to the current session
  pc,         \* pc[r]: the await run r is at, "idle" before it starts
  batch,      \* batch[r]: the replies made of the prices that r fetched
  tx,         \* tx[r]: the transaction that r built in commit
  pool,       \* the transactions that are submitted and not executed
  others, faults

contractVars == <<pairs, version>>
runVars == <<session, holders, pc, batch, tx>>
vars == <<clock, contractVars, runVars, pool, others, faults>>

TradingPairs == [value : {0} \cup Times, nb_updates : 0 .. MaxUpdates, last_update : {0} \cup Times]

\* The price of a reply, None with an error number.
Replies == Times \cup {None}

Batches == [Pairs -> Replies]

\* condition and read: the value that values holds for the version key.
Sessions ==
  [version : Versions \cup {Undefined}, read : Versions \cup {Undefined},
   actions : Seq(Batches)]

Transactions ==
  [condition : Versions \cup {Undefined}, update : Nat,
   replies : Seq(Batches) \ {<<>>}]

TypeOK ==
  /\ clock \in Times
  /\ pairs \in [Pairs -> TradingPairs \cup {None}]
  /\ version \in Versions
  /\ session \in [Clients -> Sessions]
  /\ holders \subseteq Runs
  /\ pc \in [Runs -> {"idle", "version", "fetch", "reply", "dryRun", "wait", "restart"}]
  /\ batch \in [Runs -> Batches \cup {Undefined}]
  /\ tx \in [Runs -> Transactions \cup {Undefined}]
  /\ pool \subseteq Transactions
  /\ others \in 0 .. MaxOthers /\ faults \in 0 .. MaxFaults

NewSession == [version |-> Undefined, read |-> Undefined, actions |-> <<>>]

Init ==
  /\ clock = 1
  /\ pairs = [p \in Pairs |-> None] /\ version = 0
  /\ session = [c \in Clients |-> NewSession] /\ holders = {}
  /\ pc = [r \in Runs |-> "idle"]
  /\ batch = [r \in Runs |-> Undefined] /\ tx = [r \in Runs |-> Undefined]
  /\ pool = {} /\ others = 0 /\ faults = 0

Tick ==
  /\ clock < MaxTime
  /\ clock' = clock + 1
  /\ UNCHANGED <<contractVars, runVars, pool, others, faults>>

-----------------------------------------------------------------------------
(* The consumer contract.                                                  *)

NewPair == [value |-> 0, nb_updates |-> 0, last_update |-> 0]

\* A manager creates a pair, or overrides an existing one.
CreateTradingPair(p) ==
  /\ others < MaxOthers /\ others' = others + 1
  /\ pairs' = [pairs EXCEPT ![p] = NewPair]
  /\ UNCHANGED <<clock, version, runVars, pool, faults>>

\* The pair that on_message_received finds: get(..).unwrap_or_default().
PairOf(p) == IF pairs[p] = None THEN NewPair ELSE pairs[p]

\* price.unwrap_or_default()
PriceOf(reply) == IF reply = None THEN 0 ELSE reply

\* Mutant: the counter is checked one update too late.
RoomForOneMore(replies) == \A p \in Pairs : PairOf(p).nb_updates + Len(replies) <= MaxUpdates + 1

\* Mutant: no pair may reach the largest number of updates.
RoomForOneLess(replies) == \A p \in Pairs : PairOf(p).nb_updates + Len(replies) < MaxUpdates

\* No checked_add of on_message_received fails, else the call is reverted.
RoomForAll(replies) == \A p \in Pairs : PairOf(p).nb_updates + Len(replies) <= MaxUpdates

\* Mutant: the condition on the version is left out.
AcceptsAnyVersion(t) == RoomForAll(t.replies)

\* rollup_cond_eq would succeed with the transaction.
Accepts(t) ==
  /\ t.condition \in {version, Undefined}
  /\ RoomForAll(t.replies)

\* A pair after a number of updates, the last of which is the reply.
Updated(p, count, reply) ==
  [value |-> PriceOf(reply), nb_updates |-> PairOf(p).nb_updates + count, last_update |-> clock]

\* on_message_received for each reply of the transaction.  The type of all
\* replies of a run is TYPE_FEED, of the errors, too.
Receive(t) ==
  LET n == Len(t.replies)
  IN /\ pairs' = [p \in Pairs |-> Updated(p, n, t.replies[n][p])]
     /\ version' = t.update

\* Another oracle answers a request_price for p with the price of now
\* (TYPE_RESPONSE) or an error (TYPE_ERROR), in a transaction of the rollup.
OtherOracle(p) ==
  /\ others < MaxOthers /\ others' = others + 1
  /\ pairs[p] # None /\ version < MaxVersion
  /\ version' = version + 1
  /\ \/ /\ pairs[p].nb_updates < MaxUpdates
        /\ pairs' = [pairs EXCEPT ![p] = Updated(p, 1, clock)]
     \/ UNCHANGED pairs
  /\ UNCHANGED <<clock, runVars, pool, faults>>

\* A submitted transaction is executed.
Execute(t) ==
  /\ t \in pool
  /\ pool' = pool \ {t}
  /\ \/ Accepts(t) /\ t.update <= MaxVersion /\ Receive(t)
     \/ ~Accepts(t) /\ UNCHANGED contractVars
  /\ UNCHANGED <<clock, runVars, others, faults>>

-----------------------------------------------------------------------------
(* A run of feedPrices.                                                    *)

GoTo(r, l) == pc' = [pc EXCEPT ![r] = l]

\* startSession replaces the current session, and asks for the version.
StartSession(r) ==
  /\ session' = [session EXCEPT ![ClientOf[r]] = NewSession]
  /\ holders' = {r} \cup {s \in holders : ClientOf[s] # ClientOf[r]}

BeginFeed(r) ==
  /\ pc[r] = "idle"
  /\ StartSession(r)
  /\ GoTo(r, "version")
  /\ UNCHANGED <<clock, contractVars, batch, tx, pool, others, faults>>

\* getValue keeps the version in the session that is current when the answer
\* arrives, startSession assigns it to the session it made.
ReadVersion(r) ==
  /\ pc[r] \in {"version", "restart"}
  /\ session' = [session EXCEPT ![ClientOf[r]].read = version,
                                ![ClientOf[r]].version = IF r \in holders THEN version ELSE @]
  /\ holders' = holders \ {r}
  /\ GoTo(r, IF pc[r] = "version" THEN "fetch" ELSE "idle")
  /\ UNCHANGED <<clock, contractVars, batch, tx, pool, others, faults>>

\* The replies of a run at time t: for each pair CoinGecko has a price, or
\* none, or one that convertPrice throws on, such as a number that toString
\* writes with an exponent.
ReplySets(t) == [Pairs -> {t, None}]

\* CoinGecko answers.
Fetch(r) ==
  /\ pc[r] = "fetch"
  /\ \E replies \in ReplySets(clock) : batch' = [batch EXCEPT ![r] = replies]
  /\ GoTo(r, "reply")
  /\ UNCHANGED <<clock, contractVars, session, holders, tx, pool, others, faults>>

\* The catch block: rollback starts another session.
Rollback(r) ==
  /\ StartSession(r)
  /\ GoTo(r, "restart")
  /\ batch' = [batch EXCEPT ![r] = Undefined]
  /\ tx' = [tx EXCEPT ![r] = Undefined]

\* The replies are added to the current session and commit builds the
\* transaction without awaiting.  It throws if the session has no version.
Commit(r) ==
  LET c == ClientOf[r]
      s == [session[c] EXCEPT !.actions = Append(@, batch[r])]
  IN /\ pc[r] = "reply"
     /\ IF s.version = Undefined
        THEN Rollback(r)
        ELSE /\ session' = [session EXCEPT ![c] = s]
             /\ tx' = [tx EXCEPT ![r] = [condition |-> s.read, update |-> s.version + 1,
                                         replies |-> s.actions]]
             /\ batch' = [batch EXCEPT ![r] = Undefined]
             /\ GoTo(r, "dryRun")
             /\ UNCHANGED holders
     /\ UNCHANGED <<clock, contractVars, pool, others, faults>>

\* The transaction is submitted if the dry run succeeds.
DryRun(r) ==
  /\ pc[r] = "dryRun"
  /\ IF Accepts(tx[r])
     THEN /\ pool' = pool \cup {tx[r]}
          /\ GoTo(r, "wait")
          /\ UNCHANGED <<session, holders, batch, tx>>
     ELSE Rollback(r) /\ UNCHANGED pool
  /\ UNCHANGED <<clock, contractVars, others, faults>>

\* The transaction was executed: commit, or else rollback, starts a session.
EndCommit(r) ==
  /\ pc[r] = "wait" /\ tx[r] \notin pool
  /\ Rollback(r)
  /\ UNCHANGED <<clock, contractVars, pool, others, faults>>

\* A call throws, and a transaction may stay in the pool.  startSession may
\* throw at the end of commit, which is rolled back, or in rollback.
Fail(r) ==
  /\ faults < MaxFaults /\ faults' = faults + 1
  /\ \/ /\ pc[r] \in {"version", "fetch", "dryRun", "wait", "restart"}
        /\ Rollback(r)
     \/ /\ pc[r] = "restart"
        /\ GoTo(r, "idle")
        /\ holders' = holders \ {r}
        /\ UNCHANGED <<session, batch, tx>>
  /\ UNCHANGED <<clock, contractVars, pool, others>>

RunStep(r) == BeginFeed(r) \/ ReadVersion(r) \/ Fetch(r) \/ Commit(r) \/ DryRun(r) \/ EndCommit(r)

Next ==
  \/ Tick
  \/ \E p \in Pairs : CreateTradingPair(p) \/ OtherOracle(p)
  \/ \E t \in pool : Execute(t)
  \/ \E r \in Runs : RunStep(r) \/ Fail(r)

Spec == Init /\ [][Next]_vars

\* The schedule starts the runs, their calls return, and the chain executes
\* the transactions.
FairSpec ==
  /\ Spec
  /\ \A r \in Runs : WF_vars(RunStep(r))
  /\ WF_vars(\E t \in pool : Execute(t))

-----------------------------------------------------------------------------
(* Properties.                                                             *)

\* The contract never replaces a price by one that was fetched before the
\* last update: slow runs, rival workers and transactions that outlive their
\* run are fenced by the version.  It holds if every run has its own client.
PricesMoveForward ==
  [][\A p \in Pairs :
       pairs[p] # None /\ pairs'[p] # pairs[p]
         => pairs'[p].value = 0 \/ pairs'[p].value >= pairs[p].last_update]_vars

CanCommit(n) == version = n /\ n < MaxVersion

\* As long as every pair can count another update, there is another commit:
\* the runs that race, fail or leave a transaction in the pool do not keep
\* each other from feeding the prices.
FeedsWhileRoom ==
  \A n \in Versions :
    CanCommit(n) /\ (\A p \in Pairs : PairOf(p).nb_updates < MaxUpdates) ~> version # n
=============================================================================
