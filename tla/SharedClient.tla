----------------------------- MODULE SharedClient -----------------------------
(***************************************************************************)
(* The runs of one worker process on its one Client object.  The object    *)
(* has one current session, which every run reads and writes through       *)
(* this.currentSession after each await; what a run finds there may be the *)
(* session of another run.  The schedule of the guess-the-number worker    *)
(* starts no run while another is under way; its /execute route does.      *)
(*                                                                         *)
(* An assignment "this.currentSession.x = await ..." chooses the session   *)
(* object before the await.  Such an object matters only while it is the   *)
(* current session, so it is enough to keep which runs hold the current    *)
(* one (holders) and which hold one that has been replaced.                *)
(***************************************************************************)
EXTENDS KvQueue, Integers, Sequences

CONSTANTS
  Runs,         \* the runs that may be under way at the same time
  NaN,          \* the JavaScript value: undefined + 1
  MaxFaults,    \* bound on the runs that end by an exception
  MaxReplies,   \* bound on the replies the contract receives
  MaxActions    \* bound on the replies in a session

ASSUME SharedAssumption ==
  /\ ~Evm
  /\ NaN \notin Nat
  /\ MaxFaults \in Nat /\ MaxReplies \in Nat /\ MaxActions \in Nat

VARIABLES
  kv,          \* the storage of the contract
  session,     \* the current session of the client
  holders,     \* the runs whose pending assignment is to the current session
  pc,          \* pc[r]: the await run r is at, "idle" before it starts
  tailIndex,   \* tailIndex[r]: the local variable of pollMessage
  asked,       \* asked[r]: the index of the message that getMessage waits for
  message,     \* message[r]: the message that r is answering
  tx,          \* tx[r]: the transaction that r has built in commit
  pushed,      \* history: every message pushed to the queue
  replies,     \* history: every reply the contract has received
  overlapped,  \* history: has a run started while another was under way?
  faults       \* number of faults so far

contractVars == <<kv, pushed, replies>>
localVars == <<tailIndex, asked, message, tx>>
vars == <<contractVars, session, holders, pc, localVars, overlapped, faults>>

\* versionRead is the value the session keeps for the version key in values.
NewSession ==
  [version |-> Undefined, versionRead |-> Undefined, actions |-> <<>>,
   currentIndex |-> Undefined, indexUpdated |-> FALSE]

NoTx == [condition |-> Undefined, update |-> Undefined, head |-> Undefined, replies |-> <<>>]

Init ==
  /\ kv = [k \in Keys |-> NoValue]
  /\ session = NewSession /\ holders = {}
  /\ pc = [r \in Runs |-> "idle"]
  /\ tailIndex = [r \in Runs |-> Undefined]
  /\ asked = [r \in Runs |-> Undefined]
  /\ message = [r \in Runs |-> Undefined]
  /\ tx = [r \in Runs |-> NoTx]
  /\ pushed = <<>> /\ replies = <<>> /\ overlapped = FALSE /\ faults = 0

GoTo(r, l) == pc' = [pc EXCEPT ![r] = l]

\* The end of a run leaves the session as it is.
EndRun(r) ==
  /\ GoTo(r, "idle")
  /\ tailIndex' = [tailIndex EXCEPT ![r] = Undefined]
  /\ asked' = [asked EXCEPT ![r] = Undefined]
  /\ message' = [message EXCEPT ![r] = Undefined]
  /\ tx' = [tx EXCEPT ![r] = NoTx]
  /\ holders' = holders \ {r}

-----------------------------------------------------------------------------
(* startSession.                                                           *)

\* Mutant: a session that exists is used again.
SessionForReused(s) == s

\* The session that startSession puts in the place of s.
SessionFor(s) == NewSession

\* The new object replaces the current session, and the run asks for the
\* version, to be assigned to the new object.
StartSession(r) ==
  /\ session' = SessionFor(session)
  /\ holders' = {r}

\* hasMessage is true, but another run may pop the message before the answer
\* arrives.
BeginRun(r) ==
  /\ pc[r] = "idle" /\ HasMessage(kv)
  /\ overlapped' = (overlapped \/ \E s \in Runs : pc[s] # "idle")
  /\ GoTo(r, "begun")
  /\ UNCHANGED <<contractVars, session, holders, localVars, faults>>

BeginSession(r) ==
  /\ pc[r] = "begun"
  /\ StartSession(r)
  /\ GoTo(r, "version")
  /\ UNCHANGED <<contractVars, localVars, overlapped, faults>>

\* getValue keeps the value in the current session, startSession assigns the
\* version to the session it made.
ReadVersion(r) ==
  /\ pc[r] \in {"version", "restart"}
  /\ session' = [session EXCEPT !.versionRead = kv[VersionKey],
                                !.version = IF r \in holders THEN kv[VersionKey] ELSE @]
  /\ IF pc[r] = "version"
     THEN /\ GoTo(r, "tail") /\ holders' = holders \ {r}
          /\ UNCHANGED localVars
     ELSE EndRun(r)
  /\ UNCHANGED <<contractVars, overlapped, faults>>

-----------------------------------------------------------------------------
(* pollMessage and handleMessage.                                          *)

\* The comparison of JavaScript: undefined and NaN are never >= a number.
AtLeast(index, tail) == index \notin {Undefined, NaN} /\ index >= tail

\* The encoders write zero for undefined and NaN.
Encoded(index) == IF index \in {Undefined, NaN} THEN 0 ELSE index

PlusOne(index) == IF index \in {Undefined, NaN} THEN NaN ELSE index + 1

\* The index is passed to getMessage at once.
Poll(r, index, tail) ==
  /\ GoTo(r, IF AtLeast(index, tail) THEN "commit" ELSE "message")
  /\ asked' = [asked EXCEPT ![r] = IF AtLeast(index, tail) THEN Undefined ELSE Encoded(index)]

\* Without an index, the run asks for the head, to be assigned to the session
\* that is current now.
ReadTail(r) ==
  /\ pc[r] = "tail"
  /\ tailIndex' = [tailIndex EXCEPT ![r] = QueueTail(kv)]
  /\ IF session.currentIndex = Undefined
     THEN GoTo(r, "head") /\ holders' = holders \cup {r} /\ UNCHANGED asked
     ELSE Poll(r, session.currentIndex, QueueTail(kv)) /\ UNCHANGED holders
  /\ UNCHANGED <<contractVars, session, message, tx, overlapped, faults>>

ReadHead(r) ==
  /\ pc[r] = "head"
  /\ LET s == IF r \in holders THEN [session EXCEPT !.currentIndex = QueueHead(kv)]
              ELSE session
     IN  session' = s /\ Poll(r, s.currentIndex, tailIndex[r])
  /\ holders' = holders \ {r}
  /\ UNCHANGED <<contractVars, tailIndex, message, tx, overlapped, faults>>

\* The end of pollMessage advances the session that is current by now.
ReadMessage(r) ==
  /\ pc[r] = "message"
  /\ IF kv[asked[r]] = NoValue
     THEN EndRun(r) /\ UNCHANGED session
     ELSE /\ message' = [message EXCEPT ![r] = kv[asked[r]]]
          /\ asked' = [asked EXCEPT ![r] = Undefined]
          /\ session' = [session EXCEPT !.currentIndex = PlusOne(@), !.indexUpdated = TRUE]
          /\ GoTo(r, "respond")
          /\ UNCHANGED <<holders, tailIndex, tx>>
  /\ UNCHANGED <<contractVars, overlapped, faults>>

\* handleMessage waits for the indexer, then adds the response.
Respond(r) ==
  /\ pc[r] = "respond" /\ Len(session.actions) < MaxActions
  /\ session' = [session EXCEPT !.actions = Append(@, message[r])]
  /\ message' = [message EXCEPT ![r] = Undefined]
  /\ GoTo(r, "tail")
  /\ UNCHANGED <<contractVars, holders, tailIndex, asked, tx, overlapped, faults>>

-----------------------------------------------------------------------------
(* commit.                                                                 *)

\* commit builds the transaction without awaiting.
TxOf(s) ==
  [condition |-> s.versionRead,
   update |-> NumberAt(s.version) + 1,
   head |-> IF s.indexUpdated THEN Encoded(s.currentIndex) ELSE Undefined,
   replies |-> s.actions]

\* It ends if there is nothing to commit, and throws if the session has no
\* version.
Commit(r) ==
  /\ pc[r] = "commit"
  /\ IF (session.indexUpdated \/ session.actions # <<>>) /\ session.version # Undefined
     THEN /\ tx' = [tx EXCEPT ![r] = TxOf(session)]
          /\ GoTo(r, "dryRun")
          /\ UNCHANGED <<holders, tailIndex, asked, message>>
     ELSE EndRun(r)
  /\ UNCHANGED <<contractVars, session, overlapped, faults>>

Succeeds(store, t) ==
  /\ ConditionsMet(store, [k \in {VersionKey} |-> t.condition])
  /\ t.head # Undefined => ValidPopTarget(store, t.head)

Result(store, t) ==
  LET updated == ApplyUpdates(store, [k \in {VersionKey} |-> t.update])
  IN  IF t.head = Undefined THEN updated ELSE PopTo(updated, t.head)

DryRun(r) ==
  /\ pc[r] = "dryRun"
  /\ IF Succeeds(kv, tx[r])
     THEN GoTo(r, "submit") /\ UNCHANGED <<holders, localVars>>
     ELSE EndRun(r)
  /\ UNCHANGED <<contractVars, session, overlapped, faults>>

\* The submitted transaction is executed, and the run will learn the outcome.
Include(r) ==
  /\ pc[r] = "submit" /\ Len(replies) + Len(tx[r].replies) <= MaxReplies
  /\ IF Succeeds(kv, tx[r])
     THEN /\ kv' = Result(kv, tx[r])
          /\ replies' = replies \o tx[r].replies
          /\ GoTo(r, "included")
     ELSE GoTo(r, "failed") /\ UNCHANGED <<kv, replies>>
  /\ UNCHANGED <<pushed, session, holders, localVars, overlapped, faults>>

\* A successful commit starts another session, whatever the others put into
\* the current one meanwhile.
AfterCommit(r) ==
  /\ pc[r] = "included"
  /\ StartSession(r)
  /\ GoTo(r, "restart")
  /\ UNCHANGED <<contractVars, localVars, overlapped, faults>>

RejectedCommit(r) ==
  /\ pc[r] = "failed"
  /\ EndRun(r)
  /\ UNCHANGED <<contractVars, session, overlapped, faults>>

-----------------------------------------------------------------------------
\* A run ends by an exception of a call, which the schedule catches.
Abort(r) ==
  /\ pc[r] \notin {"idle", "submit", "included", "failed"} /\ faults < MaxFaults
  /\ EndRun(r)
  /\ faults' = faults + 1
  /\ UNCHANGED <<contractVars, session, overlapped>>

Push(m) ==
  /\ CanPush(kv)
  /\ kv' = PushMessage(kv, m)
  /\ pushed' = Append(pushed, m)
  /\ UNCHANGED <<replies, session, holders, pc, localVars, overlapped, faults>>

RunStep(r) ==
  \/ BeginRun(r) \/ BeginSession(r) \/ ReadVersion(r) \/ ReadTail(r) \/ ReadHead(r)
  \/ ReadMessage(r) \/ Respond(r) \/ Commit(r) \/ DryRun(r) \/ Include(r) \/ AfterCommit(r)
  \/ RejectedCommit(r)

Next ==
  \/ \E r \in Runs : RunStep(r) \/ Abort(r)
  \/ \E m \in Payload : Push(m)

Spec == Init /\ [][Next]_vars

-----------------------------------------------------------------------------
(* Properties.                                                             *)

\* Whatever the runs do to each other's session, the contract keeps every
\* message that was pushed and not popped at its index, and no other.
QueueIntact ==
  /\ QueueHead(kv) <= QueueTail(kv)
  /\ QueueTail(kv) = Len(pushed)
  /\ \A i \in Indices :
       kv[i] = IF QueueHead(kv) <= i /\ i < QueueTail(kv) THEN pushed[i + 1] ELSE NoValue

\* Each request received exactly one response: the popped messages have one
\* reply each, in order, and the others none.
OneResponseEach ==
  /\ Len(replies) = QueueHead(kv)
  /\ \A i \in 1 .. Len(replies) : i <= Len(pushed) /\ replies[i] = pushed[i]

\* As long as runs follow each other, as the schedule makes them, each request
\* receives one response, although a run may find the session that an aborted
\* run left behind.
SequentialRunsAnswerOnce == ~overlapped => OneResponseEach
=============================================================================
