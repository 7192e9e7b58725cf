-------------------------- MODULE SharedClientProofs --------------------------
(***************************************************************************)
(* Proofs about SharedClient: the queue of the contract stays whole        *)
(* however runs overlap, and runs that follow each other answer each       *)
(* message once, for any number of runs and messages.                      *)
(***************************************************************************)
EXTENDS SharedClient, SequenceTheorems, TLAPS

\* What a response or an answered message can be.
Responses == Values \cup {Undefined}

Locations == {"idle", "begun", "version", "tail", "head", "message", "respond", "commit",
              "dryRun", "submit", "included", "failed", "restart"}

Versions == Nat \cup {NoValue, Undefined}

Sessions ==
  [version : Versions, versionRead : Versions, actions : Seq(Responses),
   currentIndex : Nat \cup {Undefined, NaN}, indexUpdated : BOOLEAN]

Txs ==
  [condition : Versions, update : Nat \cup {Undefined}, head : Nat \cup {Undefined},
   replies : Seq(Responses)]

\* Storage, session and local variables keep their types whatever overlaps.
SharedTypeOK ==
  /\ kv \in [Keys -> Values]
  /\ kv[VersionKey] \in Nat \cup {NoValue}
  /\ \A k \in {HeadKey, TailKey} : kv[k] \in Indices \cup {NoValue}
  /\ session \in Sessions
  /\ pc \in [Runs -> Locations]
  /\ tailIndex \in [Runs -> Indices \cup {Undefined}]
  /\ asked \in [Runs -> Indices \cup {Undefined}]
  /\ message \in [Runs -> Responses]
  /\ tx \in [Runs -> Txs]
  /\ pushed \in Seq(Payload) /\ replies \in Seq(Responses)
  /\ \A r \in Runs : /\ pc[r] = "head" => tailIndex[r] # Undefined
                     /\ pc[r] = "message" => asked[r] # Undefined
                     /\ pc[r] \in {"dryRun", "submit"} => tx[r].update # Undefined

SharedInv == SharedTypeOK /\ QueueIntact

\* A session that has polled nothing.
Fresh ==
  session.actions = <<>> /\ ~session.indexUpdated /\ session.currentIndex = Undefined

\* Session s has answered the messages of msgs from the head on, and polled k
\* more.
Follows(s, k, store, msgs) ==
  /\ s.currentIndex = QueueHead(store) + Len(s.actions) + k
  /\ s.currentIndex <= QueueTail(store)
  /\ s.indexUpdated <=> Len(s.actions) + k > 0
  /\ \A i \in 1 .. Len(s.actions) : s.actions[i] = msgs[QueueHead(store) + i]

\* So has the transaction t.
TxFollows(t, store, msgs) ==
  /\ t.head = QueueHead(store) + Len(t.replies)
  /\ t.head <= QueueTail(store)
  /\ \A i \in 1 .. Len(t.replies) : t.replies[i] = msgs[QueueHead(store) + i]

\* What the only run under way knows at each await.
RunSound(r) ==
  /\ pc[r] \in {"version", "head"} => Fresh /\ r \in holders
  /\ pc[r] = "head" => tailIndex[r] <= QueueTail(kv)
  /\ pc[r] = "tail" => Fresh \/ Follows(session, 0, kv, pushed)
  /\ pc[r] = "message" =>
       /\ Follows(session, 0, kv, pushed)
       /\ asked[r] = session.currentIndex /\ session.currentIndex < QueueTail(kv)
  /\ pc[r] = "respond" =>
       Follows(session, 1, kv, pushed) /\ message[r] = pushed[session.currentIndex]
  /\ pc[r] = "commit" => Follows(session, 0, kv, pushed)
  /\ pc[r] \in {"dryRun", "submit"} => TxFollows(tx[r], kv, pushed)

\* Runs that follow each other: at most one is under way, and it is sound.
SequentialInv ==
  ~overlapped =>
    /\ OneResponseEach
    /\ \A r, q \in Runs : pc[r] # "idle" /\ pc[q] # "idle" => r = q
    /\ \A r \in Runs : RunSound(r)

SharedIInv == SharedInv /\ SequentialInv

-----------------------------------------------------------------------------
LEMMA KeyFacts ==
  /\ {VersionKey, HeadKey, TailKey} \subseteq Keys /\ Indices \subseteq Keys
  /\ VersionKey # HeadKey /\ VersionKey # TailKey /\ HeadKey # TailKey
  /\ {VersionKey, HeadKey, TailKey} \cap Indices = {}
  /\ Indices \subseteq Nat /\ Undefined \notin Nat /\ NaN \notin Nat
  /\ 0 \in Indices
BY KeysAreDistinct, MarkersAreDistinct, MaxIndexIsNat, SharedAssumption
   DEF Keys, Indices, SystemKeys

LEMMA NumberFacts ==
  ASSUME SharedInv
  PROVE  /\ QueueHead(kv) \in Indices /\ QueueTail(kv) \in Indices
         /\ QueueHead(kv) \in Nat /\ QueueTail(kv) \in Nat
         /\ QueueHead(kv) <= QueueTail(kv) /\ QueueTail(kv) = Len(pushed)
         /\ pushed \in Seq(Payload)
         /\ kv \in [Keys -> Values]
BY KeyFacts, MaxIndexIsNat
   DEF SharedInv, SharedTypeOK, QueueIntact, QueueHead, QueueTail, NumberAt, Indices

\* The local state of a run has its types.
LEMMA RunFacts ==
  ASSUME SharedTypeOK, NEW r \in Runs
  PROVE  /\ session \in Sessions /\ session.version \in Versions
         /\ session.versionRead \in Versions /\ session.actions \in Seq(Responses)
         /\ session.currentIndex \in Nat \cup {Undefined, NaN}
         /\ session.indexUpdated \in BOOLEAN
         /\ Len(session.actions) \in Nat
         /\ pc \in [Runs -> Locations] /\ tailIndex \in [Runs -> Indices \cup {Undefined}]
         /\ asked \in [Runs -> Indices \cup {Undefined}]
         /\ message \in [Runs -> Responses] /\ tx \in [Runs -> Txs]
         /\ message[r] \in Responses /\ tx[r] \in Txs
         /\ Len(tx[r].replies) \in Nat
BY LenProperties DEF SharedTypeOK, Sessions, Txs

LEMMA InitInv == Init => SharedIInv
<1> SUFFICES ASSUME Init PROVE SharedIInv
  OBVIOUS
<1>1. kv = [k \in Keys |-> NoValue] /\ NoValue \in Values
  BY DEF Init, Values
<1>2. QueueHead(kv) = 0 /\ QueueTail(kv) = 0
  BY <1>1, KeyFacts DEF QueueHead, QueueTail, NumberAt
<1>3. session \in Sessions /\ NoTx \in Txs /\ Undefined \in Responses
  BY DEF Init, NewSession, Sessions, Versions, NoTx, Txs, Responses
<1>4. SharedTypeOK
  BY <1>1, <1>3, KeyFacts DEF Init, Locations, SharedTypeOK
<1>5. QueueIntact
  <2>1. Len(pushed) = 0 /\ \A i \in Indices : kv[i] = NoValue /\ ~(0 <= i /\ i < 0)
    BY <1>1, KeyFacts DEF Init
  <2>2. QED
    BY <1>2, <2>1 DEF QueueIntact
<1>6. SequentialInv
  BY <1>2 DEF Init, SequentialInv, OneResponseEach, RunSound
<1>7. QED
  BY <1>4, <1>5, <1>6 DEF SharedIInv, SharedInv

-----------------------------------------------------------------------------
(* Types.                                                                  *)

LEMMA EndRunTyped ==
  ASSUME SharedTypeOK, NEW r \in Runs, EndRun(r), UNCHANGED contractVars, session' \in Sessions
  PROVE  SharedTypeOK'
<1>1. NoTx \in Txs /\ Undefined \in Responses
  BY DEF NoTx, Txs, Versions, Responses
<1>2. QED
  BY <1>1 DEF EndRun, GoTo, Locations, SharedTypeOK, contractVars

LEMMA PollTyped ==
  ASSUME SharedTypeOK, NEW r \in Runs, NEW index \in Nat \cup {Undefined, NaN},
         NEW tail \in Indices, Poll(r, index, tail)
  PROVE  /\ pc' \in [Runs -> Locations] /\ asked' \in [Runs -> Indices \cup {Undefined}]
         /\ pc'[r] \in {"commit", "message"}
         /\ pc'[r] = "message" => asked'[r] # Undefined
         /\ \A q \in Runs \ {r} : pc'[q] = pc[q] /\ asked'[q] = asked[q]
<1>1. ~AtLeast(index, tail) => Encoded(index) \in Indices
  BY KeyFacts, MaxIndexIsNat DEF AtLeast, Encoded, Indices
<1>2. QED
  BY <1>1, KeyFacts DEF Poll, GoTo, Locations, SharedTypeOK

\* A step of a run at its contract leaves every type as it is.
LEMMA RunTyped ==
  ASSUME SharedInv, NEW r \in Runs, RunStep(r), ~Include(r)
  PROVE  SharedTypeOK'
<1>1. SharedTypeOK
  BY DEF SharedInv
<1>2. NewSession \in Sessions
  BY DEF NewSession, Sessions, Versions
<1>3. CASE BeginRun(r)
  BY <1>1, <1>3 DEF BeginRun, GoTo, Locations, SharedTypeOK, contractVars, localVars
<1>4. CASE BeginSession(r)
  BY <1>1, <1>2, <1>4
     DEF BeginSession, StartSession, SessionFor, GoTo, Locations, SharedTypeOK, contractVars, localVars
<1>5. CASE ReadVersion(r)
  <2>1. session' \in Sessions
    BY <1>1, <1>5, RunFacts DEF ReadVersion, Sessions, Versions, SharedTypeOK
  <2>2. UNCHANGED contractVars
    BY <1>5 DEF ReadVersion
  <2>3. CASE pc[r] = "version"
    BY <1>1, <1>5, <2>1, <2>3 DEF ReadVersion, GoTo, Locations, SharedTypeOK, contractVars, localVars
  <2>4. CASE pc[r] # "version"
    BY <1>1, <1>5, <2>1, <2>2, <2>4, EndRunTyped DEF ReadVersion
  <2>5. QED
    BY <2>3, <2>4
<1>6. CASE ReadTail(r)
  <2>1. QueueTail(kv) \in Indices /\ QueueTail(kv) # Undefined
    BY NumberFacts, KeyFacts
  <2>2. CASE session.currentIndex = Undefined
    BY <1>1, <1>6, <2>1, <2>2 DEF ReadTail, GoTo, Locations, SharedTypeOK, contractVars
  <2>3. CASE session.currentIndex # Undefined
    <3>1. Poll(r, session.currentIndex, QueueTail(kv))
      BY <1>6, <2>3 DEF ReadTail
    <3>2. /\ pc' \in [Runs -> Locations] /\ asked' \in [Runs -> Indices \cup {Undefined}]
          /\ pc'[r] \in {"commit", "message"}
          /\ pc'[r] = "message" => asked'[r] # Undefined
          /\ \A q \in Runs \ {r} : pc'[q] = pc[q] /\ asked'[q] = asked[q]
      BY <1>1, <2>1, <3>1, RunFacts, PollTyped
    <3>3. QED
      BY <1>1, <1>6, <2>1, <3>2 DEF ReadTail, SharedTypeOK, contractVars
  <2>4. QED
    BY <2>2, <2>3
<1>7. CASE ReadHead(r)
  <2>1. /\ session' \in Sessions /\ tailIndex[r] \in Indices
        /\ Poll(r, session'.currentIndex, tailIndex[r])
    BY <1>1, <1>7, NumberFacts, RunFacts DEF ReadHead, Sessions, SharedTypeOK
  <2>2. session'.currentIndex \in Nat \cup {Undefined, NaN}
    BY <2>1 DEF Sessions
  <2>3. /\ pc' \in [Runs -> Locations] /\ asked' \in [Runs -> Indices \cup {Undefined}]
        /\ pc'[r] \in {"commit", "message"}
        /\ pc'[r] = "message" => asked'[r] # Undefined
        /\ \A q \in Runs \ {r} : pc'[q] = pc[q] /\ asked'[q] = asked[q]
    BY <1>1, <2>1, <2>2, PollTyped
  <2>4. QED
    BY <1>1, <1>7, <2>1, <2>3 DEF ReadHead, SharedTypeOK, contractVars
<1>8. CASE ReadMessage(r)
  <2>1. CASE kv[asked[r]] = NoValue
    BY <1>1, <1>8, <2>1, RunFacts, EndRunTyped DEF ReadMessage
  <2>2. CASE kv[asked[r]] # NoValue
    <3>1. asked[r] \in Keys /\ kv[asked[r]] \in Responses
      BY <1>1, <1>8, RunFacts, KeyFacts, NumberFacts DEF ReadMessage, SharedTypeOK, Responses
    <3>2. session' \in Sessions
      <4>1. PlusOne(session.currentIndex) \in Nat \cup {Undefined, NaN}
        BY <1>1, RunFacts DEF PlusOne
      <4>2. session' = [session EXCEPT !.currentIndex = PlusOne(session.currentIndex),
                                       !.indexUpdated = TRUE]
        BY <1>8, <2>2 DEF ReadMessage
      <4>3. QED
        BY <1>1, <4>1, <4>2, RunFacts DEF Sessions
    <3>3. QED
      BY <1>1, <1>8, <2>2, <3>1, <3>2 DEF ReadMessage, GoTo, Locations, SharedTypeOK, contractVars
  <2>3. QED
    BY <2>1, <2>2
<1>9. CASE Respond(r)
  <2>1. Append(session.actions, message[r]) \in Seq(Responses)
    BY <1>1, RunFacts, AppendProperties
  <2>2. session' \in Sessions /\ Undefined \in Responses
    BY <1>1, <1>9, <2>1, RunFacts DEF Respond, Sessions, Responses
  <2>3. QED
    BY <1>1, <1>9, <2>2 DEF Respond, GoTo, Locations, SharedTypeOK, contractVars
<1>10. CASE Commit(r)
  <2>1. CASE EndRun(r)
    BY <1>1, <1>10, <2>1, RunFacts, EndRunTyped DEF Commit
  <2>2. CASE ~EndRun(r)
    <3>1. session.version # Undefined /\ tx' = [tx EXCEPT ![r] = TxOf(session)]
      BY <1>10, <2>2 DEF Commit
    <3>2. TxOf(session) \in Txs /\ TxOf(session).update # Undefined
      BY <1>1, <3>1, RunFacts, KeyFacts DEF TxOf, Txs, Versions, NumberAt, Encoded
    <3>3. QED
      BY <1>1, <1>10, <2>2, <3>1, <3>2 DEF Commit, GoTo, Locations, SharedTypeOK, contractVars
  <2>3. QED
    BY <2>1, <2>2
<1>11. CASE DryRun(r)
  <2>1. CASE EndRun(r)
    BY <1>1, <1>11, <2>1, RunFacts, EndRunTyped DEF DryRun
  <2>2. CASE ~EndRun(r)
    BY <1>1, <1>11, <2>2 DEF DryRun, GoTo, Locations, SharedTypeOK, contractVars, localVars
  <2>3. QED
    BY <2>1, <2>2
<1>12. CASE AfterCommit(r)
  BY <1>1, <1>2, <1>12
     DEF AfterCommit, StartSession, SessionFor, GoTo, Locations, SharedTypeOK, contractVars, localVars
<1>13. CASE RejectedCommit(r)
  BY <1>1, <1>13, RunFacts, EndRunTyped DEF RejectedCommit
<1>14. QED
  BY <1>3, <1>4, <1>5, <1>6, <1>7, <1>8, <1>9, <1>10, <1>11, <1>12, <1>13 DEF RunStep

LEMMA AbortTyped ==
  ASSUME SharedInv, NEW r \in Runs, Abort(r)
  PROVE  SharedTypeOK'
BY RunFacts, EndRunTyped DEF Abort, SharedInv

-----------------------------------------------------------------------------
(* The contract.                                                           *)

\* What a transaction that succeeds does, wherever its head comes from.
LEMMA Applied ==
  ASSUME SharedInv, NEW t \in Txs, t.update # Undefined, Succeeds(kv, t)
  PROVE  LET store == Result(kv, t)
         IN  /\ store \in [Keys -> Values] /\ store[VersionKey] \in Nat
             /\ store[TailKey] = kv[TailKey]
             /\ store[HeadKey] \in Indices \cup {NoValue}
             /\ QueueHead(kv) <= QueueHead(store) /\ QueueHead(store) <= QueueTail(store)
             /\ t.head # Undefined => QueueHead(store) = t.head
             /\ \A i \in Indices :
                  store[i] = IF QueueHead(kv) <= i /\ i < QueueHead(store) THEN NoValue ELSE kv[i]
<1> DEFINE updated == ApplyUpdates(kv, [k \in {VersionKey} |-> t.update])
           h == QueueHead(kv)
           store == Result(kv, t)
<1>1. t.update \in Nat /\ t.head \in Nat \cup {Undefined}
  BY DEF Txs
<1>2. /\ h \in Nat /\ h \in Indices /\ QueueTail(kv) \in Indices /\ kv \in [Keys -> Values]
      /\ h <= QueueTail(kv) /\ Indices = 0 .. MaxIndex
      /\ kv[HeadKey] \in Indices \cup {NoValue}
  BY NumberFacts DEF SharedInv, SharedTypeOK, Indices
<1>3. /\ updated \in [Keys -> Values] /\ updated[VersionKey] = t.update
      /\ \A k \in Keys \ {VersionKey} : updated[k] = kv[k]
  BY <1>1, <1>2, KeyFacts DEF ApplyUpdates, Values
<1>4. QueueHead(updated) = h /\ QueueTail(updated) = QueueTail(kv)
  BY <1>3, KeyFacts DEF QueueHead, QueueTail
<1>5. t.head # Undefined => t.head \in Nat /\ h <= t.head /\ t.head <= QueueTail(kv)
  BY <1>1, SharedAssumption DEF Succeeds, ValidPopTarget
<1> HIDE DEF h, updated
<1>6. CASE t.head = Undefined \/ t.head = h
  <2>1. store = updated
    BY <1>4, <1>6, SharedAssumption DEF Result, PopTo, updated, store
  <2>2. QueueHead(store) = h /\ QueueTail(store) = QueueTail(kv)
    BY <1>4, <2>1
  <2>3. /\ store[VersionKey] \in Nat /\ store[TailKey] = kv[TailKey] /\ store[HeadKey] = kv[HeadKey]
        /\ \A i \in Indices : store[i] = kv[i]
    BY <1>1, <1>3, <2>1, KeyFacts
  <2>4. \A i \in Indices : ~(h <= i /\ i < h)
    BY <1>2
  <2>5. QED
    BY <1>2, <1>3, <1>6, <2>1, <2>2, <2>3, <2>4 DEF h
<1>7. CASE t.head # Undefined /\ t.head # h
  <2>1. store = [k \in DOMAIN updated |->
                   IF k = HeadKey THEN t.head
                   ELSE IF k \in h .. t.head - 1 THEN NoValue ELSE updated[k]]
    BY <1>4, <1>7, SharedAssumption DEF Result, PopTo, updated, store
  <2>2. h .. t.head - 1 \subseteq Indices /\ t.head \in Indices
    BY <1>2, <1>5, <1>7, KeyFacts, MaxIndexIsNat
  <2> HIDE DEF store
  <2>3. /\ store \in [Keys -> Values] /\ store[HeadKey] = t.head
        /\ store[TailKey] = kv[TailKey] /\ store[VersionKey] \in Nat
    BY <1>1, <1>3, <1>5, <1>7, <2>1, <2>2, KeyFacts DEF Values
  <2>4. \A i \in Indices : store[i] = IF i \in h .. t.head - 1 THEN NoValue ELSE kv[i]
    BY <1>3, <2>1, KeyFacts
  <2>5. QueueHead(store) = t.head /\ QueueTail(store) = QueueTail(kv)
    BY <1>5, <1>7, <2>3, MarkersAreDistinct DEF QueueHead, QueueTail, NumberAt
  <2>6. \A i \in Indices : i \in h .. t.head - 1 <=> h <= i /\ i < t.head
    BY <1>2, <1>5, <1>7
  <2>7. QED
    BY <1>5, <1>7, <2>2, <2>3, <2>4, <2>5, <2>6 DEF h, store
<1>8. QED
  BY <1>6, <1>7

LEMMA IncludeKeeps ==
  ASSUME SharedInv, NEW r \in Runs, Include(r)
  PROVE  SharedInv'
<1>1. SharedTypeOK /\ QueueIntact
  BY DEF SharedInv
<1>2. /\ tx[r] \in Txs /\ tx[r].update # Undefined /\ tx[r].replies \in Seq(Responses)
      /\ UNCHANGED <<pushed, session, localVars>> /\ pc[r] = "submit"
  BY <1>1, RunFacts DEF Include, SharedTypeOK, Txs
<1>3. CASE Succeeds(kv, tx[r])
  <2>1. kv' = Result(kv, tx[r]) /\ replies' = replies \o tx[r].replies
    BY <1>3 DEF Include
  <2>2. /\ kv' \in [Keys -> Values] /\ kv'[VersionKey] \in Nat
        /\ kv'[TailKey] = kv[TailKey] /\ kv'[HeadKey] \in Indices \cup {NoValue}
        /\ QueueHead(kv) <= QueueHead(kv') /\ QueueHead(kv') <= QueueTail(kv')
        /\ \A i \in Indices :
             kv'[i] = IF QueueHead(kv) <= i /\ i < QueueHead(kv') THEN NoValue ELSE kv[i]
    BY <1>2, <1>3, <2>1, Applied
  <2>3. replies' \in Seq(Responses)
    BY <1>1, <1>2, <2>1, ConcatProperties DEF SharedTypeOK
  <2>4. SharedTypeOK'
    BY <1>1, <1>2, <1>3, <2>2, <2>3 DEF Include, GoTo, Locations, SharedTypeOK, localVars
  <2>5. QueueTail(kv') = QueueTail(kv) /\ QueueHead(kv') \in Nat
    BY <2>2, KeyFacts DEF QueueTail, QueueHead, NumberAt
  <2>6. \A i \in Indices :
          kv'[i] = IF QueueHead(kv') <= i /\ i < QueueTail(kv) THEN pushed[i + 1] ELSE NoValue
    BY <1>1, <2>2, <2>5, NumberFacts, KeyFacts DEF QueueIntact
  <2>7. QED
    BY <1>1, <1>2, <2>2, <2>4, <2>5, <2>6 DEF SharedInv, QueueIntact
<1>4. CASE ~Succeeds(kv, tx[r])
  <2>1. SharedTypeOK' /\ kv' = kv
    BY <1>1, <1>2, <1>4 DEF Include, GoTo, Locations, SharedTypeOK, localVars
  <2>2. QED
    BY <1>1, <1>2, <2>1 DEF SharedInv, QueueIntact
<1>5. QED
  BY <1>3, <1>4

LEMMA PushKeeps ==
  ASSUME SharedInv, NEW m \in Payload, Push(m)
  PROVE  /\ SharedInv'
         /\ QueueHead(kv') = QueueHead(kv) /\ QueueTail(kv') = QueueTail(kv) + 1
         /\ \A i \in 1 .. Len(pushed) : pushed'[i] = pushed[i]
         /\ Len(pushed') = Len(pushed) + 1
<1> DEFINE q == QueueTail(kv)
<1>1. /\ q + 1 <= MaxIndex /\ pushed' = Append(pushed, m)
      /\ kv' = [kv EXCEPT ![q] = m, ![TailKey] = q + 1]
      /\ UNCHANGED <<replies, session, pc, localVars>>
  BY DEF Push, CanPush, PushMessage
<1>2. /\ q \in Nat /\ q \in Indices /\ q + 1 \in Indices /\ q = Len(pushed)
      /\ QueueHead(kv) \in Nat /\ QueueHead(kv) <= q
      /\ pushed \in Seq(Payload) /\ kv \in [Keys -> Values] /\ SharedTypeOK /\ QueueIntact
  BY <1>1, NumberFacts, MaxIndexIsNat DEF SharedInv, Indices
<1> HIDE DEF q
<1>3. \A k \in Keys : kv'[k] = IF k = TailKey THEN q + 1 ELSE IF k = q THEN m ELSE kv[k]
  BY <1>1, <1>2, KeyFacts
<1>4. /\ kv' \in [Keys -> Values] /\ kv'[TailKey] = q + 1
      /\ kv'[HeadKey] = kv[HeadKey] /\ kv'[VersionKey] = kv[VersionKey]
  <2>1. m \in Values /\ q + 1 \in Values
    BY <1>2 DEF Values
  <2>2. kv' \in [Keys -> Values]
    BY <1>1, <1>2, <2>1
  <2>3. QED
    BY <1>2, <1>3, <2>2, KeyFacts
<1>5. QueueHead(kv') = QueueHead(kv) /\ QueueTail(kv') = q + 1
  BY <1>2, <1>4, MarkersAreDistinct DEF QueueHead, QueueTail, NumberAt
<1>6. /\ pushed' \in Seq(Payload) /\ Len(pushed') = q + 1 /\ pushed'[q + 1] = m
      /\ \A i \in 1 .. q : pushed'[i] = pushed[i]
  BY <1>1, <1>2, AppendProperties
<1>7. SharedTypeOK'
  BY <1>1, <1>2, <1>4, <1>6 DEF SharedTypeOK, localVars
<1>8. ASSUME NEW i \in Indices
      PROVE  kv'[i] = IF QueueHead(kv) <= i /\ i < q + 1 THEN pushed'[i + 1] ELSE NoValue
  <2>1. CASE i = q
    BY <1>2, <1>3, <1>6, <2>1, KeyFacts
  <2>2. CASE i # q
    <3>1. kv'[i] = kv[i] /\ i \in Nat
      BY <1>3, <2>2, KeyFacts
    <3>2. kv[i] = IF QueueHead(kv) <= i /\ i < q THEN pushed[i + 1] ELSE NoValue
      BY <1>2 DEF QueueIntact, q
    <3>3. i < q => pushed'[i + 1] = pushed[i + 1]
      BY <1>2, <1>6, <3>1
    <3>4. i < q + 1 <=> i < q
      BY <1>2, <2>2, <3>1
    <3>5. QED
      BY <3>1, <3>2, <3>3, <3>4
  <2>3. QED
    BY <2>1, <2>2
<1>9. QueueIntact'
  BY <1>2, <1>5, <1>6, <1>8 DEF QueueIntact
<1>10. QED
  BY <1>2, <1>5, <1>6, <1>7, <1>9 DEF SharedInv, q

LEMMA SharedStep ==
  ASSUME SharedInv, [Next]_vars
  PROVE  SharedInv'
<1>1. UNCHANGED contractVars => (QueueIntact)'
  BY DEF contractVars, SharedInv, QueueIntact
<1>2. ASSUME NEW r \in Runs, RunStep(r), ~Include(r) PROVE SharedInv'
  <2>1. UNCHANGED contractVars
    BY <1>2 DEF RunStep, BeginRun, BeginSession, ReadVersion, ReadTail, ReadHead, ReadMessage,
           Respond, Commit, DryRun, AfterCommit, RejectedCommit
  <2>2. QED
    BY <1>1, <1>2, <2>1, RunTyped DEF SharedInv
<1>3. ASSUME NEW r \in Runs, Abort(r) PROVE SharedInv'
  BY <1>1, <1>3, AbortTyped DEF SharedInv, Abort
<1>4. CASE UNCHANGED vars
  BY <1>1, <1>4 DEF vars, contractVars, localVars, SharedInv, SharedTypeOK
<1>5. QED
  BY <1>2, <1>3, <1>4, IncludeKeeps, PushKeeps DEF Next

-----------------------------------------------------------------------------
(* Runs that follow each other.                                            *)

\* Unless runs overlap, a run that takes a step is the only one.
LEMMA OnlyRun ==
  ASSUME SharedInv, SequentialInv, NEW r \in Runs, RunStep(r) \/ Abort(r), ~overlapped'
  PROVE  /\ ~overlapped /\ OneResponseEach /\ RunSound(r)
         /\ \A q \in Runs \ {r} : pc[q] = "idle" /\ pc'[q] = "idle"
<1>1. pc \in [Runs -> Locations]
  BY DEF SharedInv, SharedTypeOK
<1>2. CASE BeginRun(r)
  BY <1>1, <1>2 DEF BeginRun, GoTo, SequentialInv
<1>3. CASE ~BeginRun(r)
  <2>1. pc[r] # "idle" /\ overlapped' = overlapped
    BY <1>3 DEF RunStep, Abort, BeginSession, ReadVersion, ReadTail, ReadHead, ReadMessage,
           Respond, Commit, DryRun, Include, AfterCommit, RejectedCommit
  <2>2. \A q \in Runs \ {r} : pc'[q] = pc[q]
    BY <1>1, <1>3 DEF RunStep, Abort, BeginSession, ReadVersion, ReadTail, ReadHead, ReadMessage,
           Respond, Commit, DryRun, Include, AfterCommit, RejectedCommit, EndRun, Poll, GoTo
  <2>3. QED
    BY <2>1, <2>2 DEF SequentialInv
<1>4. QED
  BY <1>2, <1>3

\* A run that is at no await of its session knows nothing.
LEMMA QuietSound ==
  ASSUME NEW r \in Runs, pc'[r] \in {"idle", "begun", "included", "failed", "restart"}
  PROVE  RunSound(r)'
BY DEF RunSound

LEMMA EndRunSound ==
  ASSUME SharedInv, NEW r \in Runs, EndRun(r)
  PROVE  RunSound(r)'
<1>1. pc \in [Runs -> Locations]
  BY DEF SharedInv, SharedTypeOK
<1>2. QED
  BY <1>1, QuietSound DEF EndRun, GoTo

\* A poll at the place the session has come to.
LEMMA PollSound ==
  ASSUME SharedInv, NEW r \in Runs, session' \in Sessions, Follows(session', 0, kv, pushed),
         NEW tail \in Indices, tail <= QueueTail(kv),
         Poll(r, session'.currentIndex, tail), kv' = kv, pushed' = pushed
  PROVE  RunSound(r)'
<1> DEFINE index == session'.currentIndex
<1>1. index \in Nat
  <2>1. Len(session'.actions) \in Nat
    BY LenProperties DEF Sessions
  <2>2. QED
    BY <2>1, NumberFacts DEF Follows
<1>2. /\ pc \in [Runs -> Locations] /\ asked \in [Runs -> Indices \cup {Undefined}]
      /\ tail \in Nat /\ QueueTail(kv) \in Nat
  BY NumberFacts, KeyFacts DEF SharedInv, SharedTypeOK
<1>3. AtLeast(index, tail) <=> index >= tail
  BY <1>1, KeyFacts DEF AtLeast
<1>4. Encoded(index) = index
  BY <1>1, KeyFacts DEF Encoded
<1>5. CASE index >= tail
  <2>1. pc'[r] = "commit"
    BY <1>2, <1>3, <1>5 DEF Poll, GoTo
  <2>2. QED
    BY <2>1 DEF RunSound
<1>6. CASE index < tail
  <2>1. pc'[r] = "message" /\ asked'[r] = index /\ index < QueueTail(kv)
    BY <1>1, <1>2, <1>3, <1>4, <1>6 DEF Poll, GoTo
  <2>2. QED
    BY <2>1 DEF RunSound
<1>7. QED
  BY <1>1, <1>2, <1>5, <1>6

LEMMA ReadsSound ==
  ASSUME SharedInv, SharedInv', NEW r \in Runs, RunSound(r),
         BeginSession(r) \/ ReadVersion(r) \/ ReadTail(r) \/ ReadHead(r)
  PROVE  RunSound(r)'
<1>1. /\ SharedTypeOK /\ session \in Sessions /\ session' \in Sessions
      /\ pc \in [Runs -> Locations] /\ tailIndex \in [Runs -> Indices \cup {Undefined}]
  BY DEF SharedInv, SharedTypeOK
<1>2. /\ QueueTail(kv) \in Indices /\ QueueTail(kv) \in Nat /\ QueueHead(kv) \in Nat
      /\ QueueHead(kv) <= QueueTail(kv)
  BY NumberFacts
<1>3. CASE BeginSession(r)
  <2>1. pc'[r] = "version" /\ Fresh' /\ r \in holders'
    BY <1>1, <1>3
       DEF BeginSession, StartSession, SessionFor, NewSession, GoTo, Fresh
  <2>2. QED
    BY <2>1 DEF RunSound
<1>4. CASE ReadVersion(r)
  <2>1. CASE pc[r] = "version"
    <3>1. pc'[r] = "tail"
      BY <1>1, <1>4, <2>1 DEF ReadVersion, GoTo
    <3>2. Fresh'
      BY <1>1, <1>4, <2>1 DEF ReadVersion, RunSound, Fresh, Sessions
    <3>3. QED
      BY <3>1, <3>2 DEF RunSound
  <2>2. CASE pc[r] # "version"
    BY <1>4, <2>2, EndRunSound DEF ReadVersion
  <2>3. QED
    BY <2>1, <2>2
<1>5. CASE ReadTail(r)
  <2>1. pc[r] = "tail" /\ session' = session /\ kv' = kv /\ pushed' = pushed
    BY <1>5 DEF ReadTail, contractVars
  <2>2. CASE session.currentIndex = Undefined
    <3>1. ~Follows(session, 0, kv, pushed)
      BY <1>1, <1>2, <2>2, RunFacts, KeyFacts DEF Follows
    <3>2. Fresh /\ Fresh'
      BY <2>1, <3>1 DEF RunSound, Fresh
    <3>3. pc'[r] = "head" /\ r \in holders' /\ tailIndex'[r] = QueueTail(kv)
      BY <1>1, <1>5, <2>2 DEF ReadTail, GoTo
    <3>4. tailIndex'[r] <= QueueTail(kv')
      BY <1>2, <2>1, <3>3
    <3>5. QED
      BY <3>2, <3>3, <3>4 DEF RunSound
  <2>3. CASE session.currentIndex # Undefined
    <3>1. Follows(session', 0, kv, pushed)
      BY <2>1, <2>3 DEF RunSound, Fresh
    <3>2. Poll(r, session'.currentIndex, QueueTail(kv)) /\ QueueTail(kv) <= QueueTail(kv)
      BY <1>2, <1>5, <2>1, <2>3 DEF ReadTail
    <3>3. QED
      BY <1>1, <1>2, <2>1, <3>1, <3>2, PollSound
  <2>4. QED
    BY <2>2, <2>3
<1>6. CASE ReadHead(r)
  <2>1. /\ pc[r] = "head" /\ Fresh /\ r \in holders /\ tailIndex[r] <= QueueTail(kv)
        /\ tailIndex[r] \in Indices /\ kv' = kv /\ pushed' = pushed
    BY <1>1, <1>6 DEF ReadHead, RunSound, SharedTypeOK, contractVars
  <2>2. session' = [session EXCEPT !.currentIndex = QueueHead(kv)]
    BY <1>6, <2>1 DEF ReadHead
  <2>3. Poll(r, session'.currentIndex, tailIndex[r])
    BY <1>6 DEF ReadHead
  <2>4. /\ session'.currentIndex = QueueHead(kv) /\ session'.actions = <<>>
        /\ ~session'.indexUpdated
    BY <1>1, <2>1, <2>2 DEF Fresh, Sessions
  <2>5. Follows(session', 0, kv, pushed)
    BY <1>2, <2>4 DEF Follows
  <2>6. QED
    BY <1>1, <2>1, <2>3, <2>5, PollSound
<1>7. QED
  BY <1>3, <1>4, <1>5, <1>6

LEMMA AnswersSound ==
  ASSUME SharedInv, SharedInv', NEW r \in Runs, RunSound(r), ReadMessage(r) \/ Respond(r)
  PROVE  RunSound(r)'
<1> DEFINE n == Len(session.actions)
           h == QueueHead(kv)
           index == session.currentIndex
<1>1. /\ SharedTypeOK /\ session \in Sessions /\ QueueIntact
      /\ pc \in [Runs -> Locations] /\ message \in [Runs -> Responses]
      /\ kv' = kv /\ pushed' = pushed
  BY DEF SharedInv, SharedTypeOK, ReadMessage, Respond, contractVars
<1>2. n \in Nat /\ h \in Nat /\ QueueTail(kv) \in Nat /\ QueueTail(kv) \in Indices
  BY <1>1, NumberFacts, RunFacts
<1>3. CASE ReadMessage(r)
  <2>1. Follows(session, 0, kv, pushed) /\ asked[r] = index /\ index < QueueTail(kv)
    BY <1>3 DEF ReadMessage, RunSound
  <2>2. index = h + n /\ index \in Nat /\ index \in Indices
    BY <1>2, <2>1, KeyFacts, MaxIndexIsNat DEF Follows, Indices
  <2>3. kv[index] = pushed[index + 1]
    BY <1>1, <1>2, <2>1, <2>2 DEF QueueIntact
  <2>4. CASE kv[index] = NoValue
    BY <1>3, <2>1, <2>4, EndRunSound DEF ReadMessage
  <2>5. CASE kv[index] # NoValue
    <3>1. PlusOne(index) = index + 1
      BY <2>2, KeyFacts DEF PlusOne
    <3>2. /\ session' = [session EXCEPT !.currentIndex = index + 1, !.indexUpdated = TRUE]
          /\ pc'[r] = "respond" /\ message'[r] = kv[index]
      BY <1>1, <1>3, <2>1, <2>5, <3>1 DEF ReadMessage, GoTo
    <3>3. /\ session'.currentIndex = index + 1 /\ session'.indexUpdated
          /\ session'.actions = session.actions
      BY <1>1, <3>2 DEF Sessions
    <3>4. Follows(session', 1, kv', pushed')
      BY <1>1, <1>2, <2>1, <2>2, <3>3 DEF Follows
    <3>5. QED
      BY <1>1, <2>3, <3>2, <3>3, <3>4 DEF RunSound
  <2>6. QED
    BY <2>4, <2>5
<1>4. CASE Respond(r)
  <2>1. Follows(session, 1, kv, pushed) /\ message[r] = pushed[index]
    BY <1>4 DEF Respond, RunSound
  <2>2. session' = [session EXCEPT !.actions = Append(session.actions, message[r])]
        /\ pc'[r] = "tail"
    BY <1>1, <1>4 DEF Respond, GoTo
  <2>3. /\ session'.actions = Append(session.actions, message[r])
        /\ session'.currentIndex = index /\ session'.indexUpdated = session.indexUpdated
    BY <1>1, <2>2 DEF Sessions
  <2>4. /\ session.actions \in Seq(Responses) /\ message[r] \in Responses
    BY <1>1, RunFacts
  <2>5. /\ Len(session'.actions) = n + 1 /\ session'.actions[n + 1] = message[r]
        /\ \A i \in 1 .. n : session'.actions[i] = session.actions[i]
    BY <2>3, <2>4, AppendProperties
  <2>6. index = h + (n + 1) + 0 /\ index <= QueueTail(kv) /\ session.indexUpdated
    BY <1>2, <2>1 DEF Follows
  <2>7. ASSUME NEW i \in 1 .. n + 1 PROVE session'.actions[i] = pushed[h + i]
    <3>1. CASE i = n + 1
      BY <1>2, <2>1, <2>5, <2>6, <3>1
    <3>2. CASE i # n + 1
      BY <1>2, <2>1, <2>5, <3>2 DEF Follows
    <3>3. QED
      BY <3>1, <3>2
  <2>8. Follows(session', 0, kv', pushed')
    BY <1>1, <1>2, <2>3, <2>5, <2>6, <2>7 DEF Follows
  <2>9. QED
    BY <2>2, <2>8 DEF RunSound
<1>5. QED
  BY <1>3, <1>4

LEMMA CommitSound ==
  ASSUME SharedInv, SharedInv', NEW r \in Runs, RunSound(r), Commit(r) \/ DryRun(r)
  PROVE  RunSound(r)'
<1>1. /\ SharedTypeOK /\ session \in Sessions
      /\ pc \in [Runs -> Locations] /\ tx \in [Runs -> Txs]
      /\ kv' = kv /\ pushed' = pushed /\ session' = session
  BY DEF SharedInv, SharedTypeOK, Commit, DryRun, contractVars
<1>2. CASE EndRun(r)
  BY <1>2, EndRunSound
<1>3. CASE Commit(r) /\ ~EndRun(r)
  <2>1. /\ Follows(session, 0, kv, pushed) /\ pc'[r] = "dryRun" /\ tx'[r] = TxOf(session)
        /\ session.indexUpdated \/ session.actions # <<>>
    BY <1>1, <1>3 DEF Commit, RunSound, GoTo
  <2>2. /\ Len(session.actions) \in Nat /\ QueueHead(kv) \in Nat
        /\ session.actions \in Seq(Responses)
    BY <1>1, NumberFacts, RunFacts
  <2>3. session.indexUpdated
    BY <2>1, <2>2, EmptySeq DEF Follows
  <2>4. Encoded(session.currentIndex) = session.currentIndex
    BY <2>1, <2>2, KeyFacts DEF Follows, Encoded
  <2>5. tx'[r].head = session.currentIndex /\ tx'[r].replies = session.actions
    BY <2>1, <2>3, <2>4 DEF TxOf
  <2>6. TxFollows(tx'[r], kv', pushed')
    BY <1>1, <2>1, <2>2, <2>5 DEF TxFollows, Follows
  <2>7. QED
    BY <2>1, <2>6 DEF RunSound
<1>4. CASE DryRun(r) /\ ~EndRun(r)
  <2>1. pc'[r] = "submit" /\ tx' = tx /\ TxFollows(tx[r], kv, pushed)
    BY <1>1, <1>4 DEF DryRun, RunSound, GoTo, localVars
  <2>2. QED
    BY <1>1, <2>1 DEF RunSound
<1>5. QED
  BY <1>2, <1>3, <1>4

\* The commit of the only run pops what it answers.
LEMMA IncludeSound ==
  ASSUME SharedInv, SharedInv', NEW r \in Runs, RunSound(r), OneResponseEach, Include(r)
  PROVE  RunSound(r)' /\ OneResponseEach'
<1>1. /\ SharedTypeOK /\ pc \in [Runs -> Locations] /\ pushed' = pushed
      /\ tx[r] \in Txs /\ tx[r].update # Undefined
      /\ replies \in Seq(Responses) /\ tx[r].replies \in Seq(Responses)
      /\ pc[r] = "submit" /\ TxFollows(tx[r], kv, pushed)
  BY RunFacts DEF SharedInv, SharedTypeOK, Include, RunSound, Txs
<1>2. RunSound(r)'
  BY <1>1, QuietSound DEF Include, GoTo
<1>3. /\ QueueHead(kv) \in Nat /\ QueueTail(kv) \in Nat /\ QueueTail(kv) = Len(pushed)
      /\ Len(tx[r].replies) \in Nat
  BY <1>1, NumberFacts, RunFacts
<1>4. CASE ~Succeeds(kv, tx[r])
  BY <1>1, <1>2, <1>4 DEF Include, OneResponseEach
<1>5. CASE Succeeds(kv, tx[r])
  <2> DEFINE h == QueueHead(kv)
             n == Len(tx[r].replies)
  <2>1. tx[r].head = h + n /\ tx[r].head <= Len(pushed) /\ tx[r].head # Undefined
    BY <1>1, <1>3, KeyFacts DEF TxFollows
  <2>2. QueueHead(kv') = h + n
    BY <1>1, <1>5, <2>1, Applied DEF Include
  <2>3. /\ replies' = replies \o tx[r].replies /\ Len(replies) = h
    BY <1>5 DEF Include, OneResponseEach
  <2>4. /\ Len(replies') = h + n
        /\ \A i \in 1 .. h + n :
             replies'[i] = IF i <= h THEN replies[i] ELSE tx[r].replies[i - h]
    <3>1. /\ Len(replies') = Len(replies) + n
          /\ \A i \in 1 .. Len(replies) + n :
               replies'[i] = IF i <= Len(replies) THEN replies[i]
                             ELSE tx[r].replies[i - Len(replies)]
      BY <1>1, <2>3, ConcatProperties
    <3>2. QED
      BY <2>3, <3>1
  <2>5. ASSUME NEW i \in 1 .. h + n PROVE i <= Len(pushed) /\ replies'[i] = pushed[i]
    <3>1. CASE i <= h
      BY <1>3, <2>1, <2>3, <2>4, <3>1 DEF OneResponseEach
    <3>2. CASE i > h
      <4>1. i - h \in 1 .. n /\ h + (i - h) = i
        BY <1>3, <3>2
      <4>2. tx[r].replies[i - h] = pushed[h + (i - h)]
        BY <1>1, <4>1 DEF TxFollows
      <4>3. QED
        BY <1>3, <2>1, <2>4, <3>2, <4>1, <4>2
    <3>3. QED
      BY <1>3, <3>1, <3>2
  <2>6. QED
    BY <1>1, <1>2, <2>2, <2>4, <2>5 DEF OneResponseEach
<1>6. QED
  BY <1>2, <1>4, <1>5

\* A message that is pushed waits behind those that are answered.
LEMMA PushSound ==
  ASSUME SharedInv, SequentialInv, NEW m \in Payload, Push(m)
  PROVE  SequentialInv'
<1>1. /\ QueueHead(kv') = QueueHead(kv) /\ QueueTail(kv') = QueueTail(kv) + 1
      /\ \A i \in 1 .. Len(pushed) : pushed'[i] = pushed[i]
      /\ Len(pushed') = Len(pushed) + 1
  BY PushKeeps
<1>2. /\ UNCHANGED <<replies, session, holders, pc, localVars, overlapped>>
      /\ QueueHead(kv) \in Nat /\ QueueTail(kv) \in Nat /\ QueueTail(kv) = Len(pushed)
      /\ SharedTypeOK
  BY NumberFacts DEF Push, SharedInv
<1>3. ASSUME NEW k \in Nat, Follows(session, k, kv, pushed)
      PROVE  Follows(session, k, kv', pushed')
  <2>1. Len(session.actions) \in Nat
    BY <1>2, LenProperties DEF SharedTypeOK, Sessions
  <2>2. \A i \in 1 .. Len(session.actions) : QueueHead(kv) + i \in 1 .. Len(pushed)
    BY <1>2, <1>3, <2>1 DEF Follows
  <2>3. QED
    BY <1>1, <1>2, <1>3, <2>1, <2>2 DEF Follows
<1>4. ASSUME NEW r \in Runs, TxFollows(tx[r], kv, pushed)
      PROVE  TxFollows(tx[r], kv', pushed')
  <2>1. Len(tx[r].replies) \in Nat
    BY <1>2, RunFacts
  <2>2. \A i \in 1 .. Len(tx[r].replies) : QueueHead(kv) + i \in 1 .. Len(pushed)
    BY <1>2, <1>4, <2>1 DEF TxFollows
  <2>3. QED
    BY <1>1, <1>2, <1>4, <2>1, <2>2 DEF TxFollows
<1>5. ASSUME NEW r \in Runs, RunSound(r) PROVE RunSound(r)'
  <2>1. pc'[r] = pc[r] /\ Fresh' = Fresh /\ holders' = holders
    BY <1>2 DEF Fresh
  <2>2. pc[r] = "head" => tailIndex'[r] <= QueueTail(kv')
    <3>1. pc[r] = "head" => tailIndex[r] \in Nat /\ tailIndex[r] <= QueueTail(kv)
      BY <1>2, <1>5, KeyFacts DEF RunSound, SharedTypeOK
    <3>2. QED
      BY <1>1, <1>2, <3>1 DEF localVars
  <2>3. pc[r] = "message" => session.currentIndex < QueueTail(kv')
    <3>1. pc[r] = "message" => asked[r] \in Nat /\ asked[r] = session.currentIndex
                               /\ session.currentIndex < QueueTail(kv)
      BY <1>2, <1>5, KeyFacts DEF RunSound, SharedTypeOK
    <3>2. QED
      BY <1>1, <1>2, <3>1
  <2>4. pc[r] = "respond" => pushed'[session.currentIndex] = pushed[session.currentIndex]
    <3>1. pc[r] = "respond" => session.currentIndex \in 1 .. Len(pushed)
      BY <1>2, <1>5, RunFacts DEF RunSound, Follows
    <3>2. QED
      BY <1>1, <3>1
  <2>5. QED
    BY <1>2, <1>3, <1>4, <1>5, <2>1, <2>2, <2>3, <2>4 DEF RunSound, localVars
<1>6. OneResponseEach => OneResponseEach'
  <2> SUFFICES ASSUME OneResponseEach PROVE OneResponseEach'
    OBVIOUS
  <2>1. \A i \in 1 .. Len(replies) : i \in 1 .. Len(pushed) /\ i <= Len(pushed')
    BY <1>1, <1>2 DEF OneResponseEach
  <2>2. QED
    BY <1>1, <1>2, <2>1 DEF OneResponseEach
<1>7. QED
  BY <1>2, <1>5, <1>6 DEF SequentialInv

LEMMA SequentialStep ==
  ASSUME SharedInv, SharedInv', SequentialInv, [Next]_vars
  PROVE  SequentialInv'
<1>1. ASSUME NEW r \in Runs, RunStep(r) \/ Abort(r), ~overlapped'
      PROVE  SequentialInv'
  <2>1. /\ ~overlapped /\ OneResponseEach /\ RunSound(r)
        /\ \A q \in Runs \ {r} : pc[q] = "idle" /\ pc'[q] = "idle"
    BY <1>1, OnlyRun
  <2>2. \A q \in Runs \ {r} : RunSound(q)'
    BY <2>1, QuietSound
  <2>3. ~Include(r) => OneResponseEach'
    BY <1>1, <2>1 DEF RunStep, Abort, BeginRun, BeginSession, ReadVersion, ReadTail, ReadHead,
           ReadMessage, Respond, Commit, DryRun, AfterCommit, RejectedCommit, contractVars,
           OneResponseEach
  <2>4. pc \in [Runs -> Locations]
    BY DEF SharedInv, SharedTypeOK
  <2>5. BeginRun(r) \/ AfterCommit(r) \/ RejectedCommit(r) \/ Abort(r) => RunSound(r)'
    <3>1. BeginRun(r) \/ AfterCommit(r) => RunSound(r)'
      BY <2>4, QuietSound DEF BeginRun, AfterCommit, GoTo
    <3>2. RejectedCommit(r) \/ Abort(r) => RunSound(r)'
      BY EndRunSound DEF RejectedCommit, Abort
    <3>3. QED
      BY <3>1, <3>2
  <2>6. RunSound(r)' /\ OneResponseEach'
    BY <1>1, <2>1, <2>3, <2>5, ReadsSound, AnswersSound, CommitSound, IncludeSound DEF RunStep
  <2>7. QED
    BY <2>1, <2>2, <2>6 DEF SequentialInv
<1>2. overlapped' => SequentialInv'
  BY DEF SequentialInv
<1>3. CASE UNCHANGED vars
  BY <1>3 DEF vars, contractVars, localVars, SequentialInv, OneResponseEach, RunSound, Fresh
<1>4. QED
  BY <1>1, <1>2, <1>3, PushSound DEF Next

-----------------------------------------------------------------------------
\* The invariant from which the two theorems follow.
THEOREM SharedInvariance == Spec => []SharedIInv
<1>1. SharedIInv /\ [Next]_vars => SharedIInv'
  BY SharedStep, SequentialStep DEF SharedIInv
<1>2. QED
  BY InitInv, <1>1, PTL DEF Spec

\* However runs overlap on one client, with undefined and NaN indices, the
\* queue of the contract keeps every message that waits and no other.
THEOREM QueueIntegrity == Spec => []QueueIntact
<1>1. SharedIInv => QueueIntact
  BY DEF SharedIInv, SharedInv
<1>2. QED
  BY <1>1, SharedInvariance, PTL

\* Runs that follow each other answer each message once, for any number of
\* runs, messages and exceptions.
THEOREM SequentialRuns == Spec => []SequentialRunsAnswerOnce
<1>1. SharedIInv => SequentialRunsAnswerOnce
  BY DEF SharedIInv, SequentialInv, SequentialRunsAnswerOnce
<1>2. QED
  BY <1>1, SharedInvariance, PTL
=============================================================================
