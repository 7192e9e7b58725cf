---------------------------- MODULE OffchainRollup ----------------------------
(***************************************************************************)
(* Off-chain workers driving one rollup contract through the client API.   *)
(*                                                                         *)
(* Each worker owns a Client with its current Session and runs the loop of *)
(* the guess-the-number worker: start a session, poll messages until none  *)
(* is left and answer each one, commit.  Answering also increments one     *)
(* number of the key-value store with getNumber and setNumber, as the      *)
(* tests of the client packages do.  Every await of the client is a        *)
(* program location, so a worker interleaves with the other workers, with  *)
(* the users pushing messages and with the chain including transactions.   *)
(*                                                                         *)
(* Nothing locks the queue: a commit applies only if every value its       *)
(* session read is still current, and always bumps the version number.     *)
(***************************************************************************)
EXTENDS KvQueue, Integers, Sequences

CONSTANTS
  Workers,         \* the off-chain workers, each with an attestor's account
  Counter,         \* the application key the workers increment
  MaxPending,      \* bound on the pending transactions of one account
  MaxFaults,       \* bound on crashes, failed calls, timeouts, lost transactions
  MaxDirect        \* bound on the transactions of other attestors

ASSUME CounterIsAppKey == Counter \in AppKeys
ASSUME BoundsAreNat ==
  /\ MaxPending \in Nat /\ MaxFaults \in Nat /\ MaxDirect \in Nat

VARIABLES
  kv,          \* the storage of the contract
  pool,        \* pool[w]: the pending transactions of w, oldest first
  session,     \* session[w]: the current session of the client of w
  pc,          \* pc[w]: the await the run of w is at, "idle" between runs
  tailIndex,   \* tailIndex[w]: the local variable of pollMessage
  message,     \* message[w]: the message that is being answered
  pushed,      \* history: every message pushed to the queue
  replies,     \* history: every reply the contract has received
  directs,     \* history: number of increments by other attestors
  faults       \* number of faults so far

contractVars == <<kv, pushed, replies, directs>>
clientVars == <<session, tailIndex, message>>
vars == <<contractVars, pool, clientVars, pc, faults>>

Locations == {"idle", "version", "tail", "head", "message", "value",
              "respond", "commit", "submit", "inclusion", "restart"}

-----------------------------------------------------------------------------
(* Sessions and the transactions made from them.                           *)

ClientKeys == {VersionKey} \cup AppKeys
EmptyMap == [k \in ClientKeys |-> Undefined]

NewSession ==
  [version |-> Undefined, values |-> EmptyMap, updates |-> EmptyMap,
   actions |-> <<>>, currentIndex |-> Undefined, indexUpdated |-> FALSE]

HasUpdates(s) ==
  s.indexUpdated \/ s.updates # EmptyMap \/ s.actions # <<>>

\* Mutant: the values read before win over the values set since.
LocalValueOld(s, k) == IF s.values[k] # Undefined THEN s.values[k] ELSE s.updates[k]

\* What getValue finds in the session, Undefined if it has to ask the chain.
LocalValue(s, k) == IF s.updates[k] # Undefined THEN s.updates[k] ELSE s.values[k]

\* A value read remotely is kept: it answers the next reads of the key and is
\* a condition of the commit.
Remember(values, k, v) == [values EXCEPT ![k] = v]

\* Mutant: the version restarts instead of growing.
BumpVersionStuck(s) == 1

BumpVersion(s) == NumberAt(s.version) + 1

\* Mutant: the version number that was read is not a condition.
ConditionsWithoutVersion(s) == [s.values EXCEPT ![VersionKey] = Undefined]

\* Mutant: the version number is the only condition.
ConditionsOnlyVersion(s) == [EmptyMap EXCEPT ![VersionKey] = s.values[VersionKey]]

Conditions(s) == s.values

\* What commit sends: the conditions, the version bump followed by the
\* updates, SetQueueHead when a message was polled, and the replies.
TxOf(s) ==
  [conditions |-> Conditions(s),
   updates |-> IF s.updates[VersionKey] # Undefined THEN s.updates
               ELSE [s.updates EXCEPT ![VersionKey] = BumpVersion(s)],
   head |-> IF s.indexUpdated THEN s.currentIndex ELSE Undefined,
   replies |-> s.actions]

\* rollup_cond_eq on a transaction of a client, whose actions are SetQueueHead,
\* if any, then the replies.  It is all or nothing: an Err reverts the call.
RollupSucceeds(store, tx) ==
  /\ ConditionsMet(store, tx.conditions)
  /\ tx.head # Undefined => ValidPopTarget(store, tx.head)

RollupResult(store, tx) ==
  LET updated == ApplyUpdates(store, tx.updates)
  IN  IF tx.head = Undefined THEN updated ELSE PopTo(updated, tx.head)

-----------------------------------------------------------------------------
Init ==
  /\ kv = [k \in Keys |-> NoValue]
  /\ pool = [w \in Workers |-> <<>>]
  /\ session = [w \in Workers |-> NewSession]
  /\ pc = [w \in Workers |-> "idle"]
  /\ tailIndex = [w \in Workers |-> Undefined]
  /\ message = [w \in Workers |-> Undefined]
  /\ pushed = <<>> /\ replies = <<>> /\ directs = 0 /\ faults = 0

GoTo(w, l) == pc' = [pc EXCEPT ![w] = l]

\* The end of a run, normally or by an exception.  What the run leaves in the
\* client is never used: the next run starts with startSession.
EndRun(w) ==
  /\ GoTo(w, "idle")
  /\ session' = [session EXCEPT ![w] = NewSession]
  /\ tailIndex' = [tailIndex EXCEPT ![w] = Undefined]
  /\ message' = [message EXCEPT ![w] = Undefined]

\* A run on an ink client asks has_message first, and returns if there is none.
StartSession(w) ==
  /\ pc[w] = "idle" /\ (Evm \/ HasMessage(kv))
  /\ session' = [session EXCEPT ![w] = NewSession]
  /\ GoTo(w, "version")
  /\ UNCHANGED <<contractVars, pool, tailIndex, message, faults>>

\* The second half of startSession: the version number is read, and being
\* read through getValue it becomes a value of the session.  After a commit
\* it is the last thing the run does.
ReadVersion(w) ==
  /\ UNCHANGED <<contractVars, pool, faults>>
  /\ \/ /\ pc[w] = "version"
        /\ session' = [session EXCEPT ![w].values = Remember(@, VersionKey, kv[VersionKey]),
                                      ![w].version = kv[VersionKey]]
        /\ GoTo(w, "tail")
        /\ UNCHANGED <<tailIndex, message>>
     \/ /\ pc[w] = "restart"
        /\ EndRun(w)

\* Mutant: a message is read at the tail as well.
PollPastTail(w, index, tail) ==
  GoTo(w, IF index > tail THEN "commit" ELSE "message")

\* pollMessage compares the index with the tail without awaiting in between.
Poll(w, index, tail) ==
  GoTo(w, IF index >= tail THEN "commit" ELSE "message")

ReadTail(w) ==
  /\ pc[w] = "tail"
  /\ tailIndex' = [tailIndex EXCEPT ![w] = QueueTail(kv)]
  /\ IF session[w].currentIndex = Undefined
     THEN GoTo(w, "head")
     ELSE Poll(w, session[w].currentIndex, QueueTail(kv))
  /\ UNCHANGED <<contractVars, pool, session, message, faults>>

ReadHead(w) ==
  /\ pc[w] = "head"
  /\ session' = [session EXCEPT ![w].currentIndex = QueueHead(kv)]
  /\ Poll(w, QueueHead(kv), tailIndex[w])
  /\ UNCHANGED <<contractVars, pool, tailIndex, message, faults>>

\* getMessage and the end of pollMessage.  The message may be gone by now:
\* another worker may have popped it since the head was read.
ReadMessage(w) ==
  LET index == session[w].currentIndex
  IN  /\ pc[w] = "message"
      /\ IF kv[index] = NoValue
         THEN EndRun(w)
         ELSE /\ message' = [message EXCEPT ![w] = kv[index]]
              /\ session' = [session EXCEPT ![w].currentIndex = index + 1,
                                            ![w].indexUpdated = TRUE]
              /\ GoTo(w, IF LocalValue(session[w], Counter) = Undefined THEN "value" ELSE "respond")
              /\ UNCHANGED tailIndex
      /\ UNCHANGED <<contractVars, pool, faults>>

\* getNumber(Counter) when the session does not know the value yet.
ReadCounter(w) ==
  /\ pc[w] = "value"
  /\ session' = [session EXCEPT ![w].values = Remember(@, Counter, kv[Counter])]
  /\ GoTo(w, "respond")
  /\ UNCHANGED <<contractVars, pool, tailIndex, message, faults>>

\* The end of handleMessage: addAction with the response to the message, and
\* setNumber(Counter).
Respond(w) ==
  /\ pc[w] = "respond"
  /\ session' = [session EXCEPT
       ![w].actions = Append(@, message[w]),
       ![w].updates[Counter] = NumberAt(LocalValue(session[w], Counter)) + 1]
  /\ message' = [message EXCEPT ![w] = Undefined]
  /\ GoTo(w, "tail")
  /\ UNCHANGED <<contractVars, pool, tailIndex, faults>>

\* commit up to the dry run, whose failure rejects the commit.  A session
\* with nothing to commit ends the run.
Commit(w) ==
  /\ pc[w] = "commit"
  /\ IF HasUpdates(session[w]) /\ RollupSucceeds(kv, TxOf(session[w]))
     THEN GoTo(w, "submit") /\ UNCHANGED clientVars
     ELSE EndRun(w)
  /\ UNCHANGED <<contractVars, pool, faults>>

\* The transaction is signed and submitted.  The evm client then goes on with
\* the startSession that ends commit; the ink client waits for the inclusion.
Submit(w) ==
  /\ pc[w] = "submit"
  /\ Len(pool[w]) < MaxPending
  /\ pool' = [pool EXCEPT ![w] = Append(@, TxOf(session[w]))]
  /\ IF Evm
     THEN GoTo(w, "restart") /\ session' = [session EXCEPT ![w] = NewSession]
     ELSE GoTo(w, "inclusion") /\ UNCHANGED session
  /\ UNCHANGED <<contractVars, tailIndex, message, faults>>

-----------------------------------------------------------------------------
(* The chain, the users and the faults.                                    *)

\* Is w waiting for its oldest pending transaction?  Transactions of earlier
\* runs, which ended without knowing their outcome, may be ahead of it.
AwaitsOldest(w) == pc[w] = "inclusion" /\ Len(pool[w]) = 1

\* A block executes the oldest pending transaction of w; the nonce of the
\* account orders them.  A worker waiting for this one gets its outcome.
Include(w) ==
  /\ pool[w] # <<>>
  /\ LET tx == Head(pool[w])
         ok == RollupSucceeds(kv, tx)
     IN  /\ kv' = IF ok THEN RollupResult(kv, tx) ELSE kv
         /\ replies' = IF ok THEN replies \o tx.replies ELSE replies
         /\ IF AwaitsOldest(w)
            THEN IF ok
                 THEN /\ session' = [session EXCEPT ![w] = NewSession]
                      /\ GoTo(w, "restart")
                      /\ UNCHANGED <<tailIndex, message>>
                 ELSE EndRun(w)
            ELSE UNCHANGED <<clientVars, pc>>
  /\ pool' = [pool EXCEPT ![w] = Tail(@)]
  /\ UNCHANGED <<pushed, directs, faults>>

\* A contract call of a user queues a message; at the end of the index space
\* it fails and changes nothing.
Push(m) ==
  /\ CanPush(kv)
  /\ kv' = PushMessage(kv, m)
  /\ pushed' = Append(pushed, m)
  /\ UNCHANGED <<replies, directs, pool, clientVars, pc, faults>>

\* Another attestor increments the counter with a rollup_cond_eq of its own,
\* conditioned on the value it read and not on the version number.
DirectUpdate ==
  /\ directs < MaxDirect
  /\ kv' = [kv EXCEPT ![Counter] = NumberAt(kv[Counter]) + 1]
  /\ directs' = directs + 1
  /\ UNCHANGED <<pushed, replies, pool, clientVars, pc, faults>>

\* The run ends at an await by a rejected call, a timeout or a crash of the
\* worker.  What it has submitted stays pending.
Abort(w) ==
  /\ pc[w] # "idle" /\ faults < MaxFaults
  /\ EndRun(w)
  /\ faults' = faults + 1
  /\ UNCHANGED <<contractVars, pool>>

\* The oldest pending transaction of w is never included.
Drop(w) ==
  /\ pool[w] # <<>> /\ faults < MaxFaults
  /\ pool' = [pool EXCEPT ![w] = Tail(@)]
  /\ IF AwaitsOldest(w) THEN EndRun(w) ELSE UNCHANGED <<clientVars, pc>>
  /\ faults' = faults + 1
  /\ UNCHANGED contractVars

\* What a run does until it commits.
SessionStep(w) ==
  \/ StartSession(w) \/ ReadVersion(w) \/ ReadTail(w) \/ ReadHead(w) \/ ReadMessage(w)
  \/ ReadCounter(w) \/ Respond(w)

WorkerStep(w) == SessionStep(w) \/ Commit(w) \/ Submit(w)

Next ==
  \/ \E w \in Workers : WorkerStep(w) \/ Include(w) \/ Abort(w) \/ Drop(w)
  \/ \E m \in Payload : Push(m)
  \/ DirectUpdate

\* Workers keep running (cron restarts an ended run) and blocks keep coming.
Fairness == \A w \in Workers : WF_vars(WorkerStep(w)) /\ WF_vars(Include(w))

Spec == Init /\ [][Next]_vars /\ Fairness

-----------------------------------------------------------------------------
(* Properties.                                                             *)

Maps == [ClientKeys -> Nat \cup {NoValue, Undefined}]

Sessions ==
  [version : Nat \cup {NoValue, Undefined}, values : Maps, updates : Maps,
   actions : Seq(Payload), currentIndex : Indices \cup {Undefined},
   indexUpdated : BOOLEAN]

Txs ==
  [conditions : Maps, updates : Maps, head : Indices \cup {Undefined},
   replies : Seq(Payload)]

\* Every queue index of the contract, of a session and of a transaction fits
\* QueueIndex, the version and the counter hold numbers, a message key holds
\* a message.
TypeOK ==
  /\ kv \in [Keys -> Values]
  /\ \A k \in {HeadKey, TailKey} : kv[k] \in Indices \cup {NoValue}
  /\ \A k \in ClientKeys : kv[k] \in Nat \cup {NoValue}
  /\ \A i \in Indices : kv[i] \in Payload \cup {NoValue}
  /\ pool \in [Workers -> Seq(Txs)]
  /\ session \in [Workers -> Sessions]
  /\ pc \in [Workers -> Locations]
  /\ tailIndex \in [Workers -> Indices \cup {Undefined}]
  /\ message \in [Workers -> Payload \cup {Undefined}]
  /\ pushed \in Seq(Payload) /\ replies \in Seq(Payload)
  /\ directs \in Nat /\ faults \in Nat

\* The queue holds the messages that were pushed and not popped, at their
\* index: pop_to leaves none behind, and nothing overwrites or loses one.
QueueIntact ==
  /\ QueueHead(kv) <= QueueTail(kv)
  /\ QueueTail(kv) = Len(pushed)
  /\ \A i \in Indices :
       kv[i] = IF QueueHead(kv) <= i /\ i < QueueTail(kv) THEN pushed[i + 1] ELSE NoValue

\* Each message popped from the queue got exactly one reply, in the order of
\* the pushes, and no reply went to a message still waiting: whatever several
\* workers, retries after timeouts and late inclusions do.
ExactlyOnceInOrder ==
  /\ Len(replies) = QueueHead(kv)
  /\ QueueHead(kv) <= Len(pushed)
  /\ \A i \in 1 .. Len(replies) : replies[i] = pushed[i]

\* The counter has kept the increment of every reply and of every other
\* attestor: no read-modify-write of a session overwrote another one.
NoLostUpdate == NumberAt(kv[Counter]) = Len(replies) + directs

\* answers are the replies to the messages of asked that follow the first "from".
AreRepliesTo(asked, from, answers) ==
  \A i \in 1 .. Len(answers) : answers[i] = asked[from + i]

\* The messages a session has polled: those it answered, and m if it is one.
Polled(s, m) == IF m = Undefined THEN Len(s.actions) ELSE Len(s.actions) + 1

\* The bookkeeping of a run at location l: what its session s holds follows
\* from the messages it answered and the message m it is answering.
BookkeepingSound(s, m, l, tail, store) ==
  /\ l \in {"idle", "version", "restart"} => s = NewSession
  /\ l \notin {"idle", "version", "restart"} =>
       /\ s.version = s.values[VersionKey] /\ s.version # Undefined
       /\ NumberAt(s.version) <= NumberAt(store[VersionKey])
  /\ \A k \in ClientKeys \ {Counter} : s.updates[k] = Undefined
  /\ s.updates[Counter] = IF s.actions = <<>> THEN Undefined
                          ELSE NumberAt(s.values[Counter]) + Len(s.actions)
  /\ s.actions # <<>> \/ l = "respond" => s.values[Counter] # Undefined
  /\ l = "value" => s.actions = <<>>
  /\ m # Undefined <=> l \in {"value", "respond"}
  /\ s.indexUpdated <=> Polled(s, m) > 0
  /\ s.currentIndex = Undefined =>
       Polled(s, m) = 0 /\ l \in {"idle", "version", "restart", "tail", "head"}
  /\ l = "head" => s.currentIndex = Undefined
  /\ l \in {"head", "message"} => tail # Undefined /\ tail <= QueueTail(store)
  /\ l = "message" => s.currentIndex < tail
  /\ l \in {"submit", "inclusion"} => s.actions # <<>>

\* While the version the session read is current, the session has polled
\* exactly the messages behind the current head.
SnapshotSound(s, m, store, asked) ==
  s.version = store[VersionKey] /\ s.currentIndex # Undefined =>
    /\ s.currentIndex = QueueHead(store) + Polled(s, m)
    /\ s.currentIndex <= QueueTail(store)
    /\ AreRepliesTo(asked, QueueHead(store), s.actions)
    /\ m # Undefined => m = asked[s.currentIndex]

SessionSound(w) ==
  /\ BookkeepingSound(session[w], message[w], pc[w], tailIndex[w], kv)
  /\ SnapshotSound(session[w], message[w], kv, pushed)

\* A transaction carries the version it was built at, and while that version
\* is current it answers the oldest waiting messages.
TxSound(tx) ==
  /\ tx.conditions[VersionKey] # Undefined /\ tx.conditions[Counter] # Undefined
  /\ NumberAt(tx.conditions[VersionKey]) <= NumberAt(kv[VersionKey])
  /\ tx.updates[VersionKey] = NumberAt(tx.conditions[VersionKey]) + 1
  /\ tx.updates[Counter] = NumberAt(tx.conditions[Counter]) + Len(tx.replies)
  /\ tx.head # Undefined /\ Len(tx.replies) > 0
  /\ tx.conditions[VersionKey] = kv[VersionKey] =>
       /\ tx.head = QueueHead(kv) + Len(tx.replies)
       /\ tx.head <= QueueTail(kv)
       /\ AreRepliesTo(pushed, QueueHead(kv), tx.replies)

\* Every session and every pending transaction is sound: the strengthening
\* that makes the safety properties inductive.
ClientsSound ==
  /\ \A w \in Workers : SessionSound(w)
  /\ \A w \in Workers : \A i \in DOMAIN pool[w] : TxSound(pool[w][i])

IInv ==
  TypeOK /\ QueueIntact /\ ExactlyOnceInOrder /\ NoLostUpdate /\ ClientsSound

\* A pending transaction that would pass the conditions now, however long ago
\* and by whichever run it was sent, answers exactly the oldest waiting
\* messages and counts them: the head and the tail it was built from, which
\* are no conditions, are covered by the version number, which is.
InFlightSound ==
  \A w \in Workers : \A i \in DOMAIN pool[w] :
    LET tx == pool[w][i]
    IN  ConditionsMet(kv, tx.conditions) =>
          /\ QueueHead(kv) < tx.head /\ tx.head <= QueueTail(kv)
          /\ tx.head = QueueHead(kv) + Len(tx.replies)
          /\ AreRepliesTo(pushed, QueueHead(kv), tx.replies)
          /\ tx.updates[Counter] = NumberAt(kv[Counter]) + Len(tx.replies)

\* When a commit pops messages, every transaction still pending is dead: of
\* several workers answering the same messages one wins, and the transactions
\* of ended runs never apply behind it.
RivalsFenced ==
  [][kv[HeadKey] # kv'[HeadKey] =>
       \A w \in Workers : \A i \in DOMAIN pool'[w] :
         ~ConditionsMet(kv', pool'[w][i].conditions)]_vars

\* Every message that is pushed is answered in the end, if the faults end.
EveryMessageAnswered ==
  \A n \in 1 .. MaxIndex : Len(pushed) >= n ~> Len(replies) >= n

\* The system implements the queue of ExactlyOnceQueue: what waits is read off
\* the storage of the contract.
Promise ==
  INSTANCE ExactlyOnceQueue WITH
    pending <- [i \in 1 .. QueueTail(kv) - QueueHead(kv) |-> kv[QueueHead(kv) + i - 1]],
    answered <- replies,
    total <- NumberAt(kv[Counter])

ImplementsPromise == Promise!Spec
=============================================================================
