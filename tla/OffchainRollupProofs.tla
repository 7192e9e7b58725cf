------------------------- MODULE OffchainRollupProofs -------------------------
(***************************************************************************)
(* Proofs about OffchainRollup for any workers, messages, bounds and index *)
(* width: the inductive invariant IInv, the safety properties that follow  *)
(* from it, and that it implements ExactlyOnceQueue.                       *)
(***************************************************************************)
EXTENDS OffchainRollup, SequenceTheorems, TLAPS

\* The constants, as every proof needs them.
LEMMA KeyFacts ==
  /\ {VersionKey, Counter} \subseteq ClientKeys /\ ClientKeys \subseteq Keys
  /\ {HeadKey, TailKey} \subseteq Keys /\ Indices \subseteq Keys
  /\ \A k \in ClientKeys : k # HeadKey /\ k # TailKey /\ k \notin Indices
  /\ HeadKey \notin Indices /\ TailKey \notin Indices
  /\ HeadKey # TailKey /\ VersionKey # Counter
BY KeysAreDistinct, CounterIsAppKey, MaxIndexIsNat
   DEF ClientKeys, Keys, Indices, SystemKeys

\* The head, the tail, the version and the counter read as numbers.
LEMMA NumberFacts ==
  ASSUME TypeOK
  PROVE  /\ QueueHead(kv) \in Indices /\ QueueTail(kv) \in Indices
         /\ NumberAt(kv[VersionKey]) \in Nat /\ NumberAt(kv[Counter]) \in Nat
         /\ Indices \subseteq Nat
BY KeyFacts, MaxIndexIsNat DEF TypeOK, QueueHead, QueueTail, NumberAt, Indices

\* The inductive invariant holds before the first step.
LEMMA InitIInv == Init => IInv
<1> SUFFICES ASSUME Init PROVE IInv
  OBVIOUS
<1> USE DEF Init
<1>1. kv = [k \in Keys |-> NoValue] /\ QueueHead(kv) = 0 /\ QueueTail(kv) = 0
  BY KeyFacts DEF QueueHead, QueueTail, NumberAt
<1>2. NewSession \in Sessions
  BY DEF NewSession, Sessions, EmptyMap, Maps
<1>3. TypeOK
  BY <1>1, <1>2, KeyFacts DEF TypeOK, Values, Indices, Locations
<1>4. QueueIntact /\ ExactlyOnceInOrder /\ NoLostUpdate
  BY <1>1, KeyFacts
     DEF QueueIntact, ExactlyOnceInOrder, NoLostUpdate, NumberAt, Indices
<1>5. ASSUME NEW w \in Workers PROVE SessionSound(w)
  BY <1>1, MarkersAreDistinct, KeyFacts
     DEF SessionSound, BookkeepingSound, SnapshotSound, Polled, NewSession,
         EmptyMap, NumberAt
<1>6. ClientsSound
  BY <1>5 DEF ClientsSound
<1>7. QED
  BY <1>3, <1>4, <1>6 DEF IInv

-----------------------------------------------------------------------------
(* Steps of one worker: the contract does not change, nor does any other   *)
(* worker, so the invariant is about the new session of the worker.        *)

\* A step that changes one worker's session only keeps the invariant if the
\* session stays sound.
LEMMA LocalStep ==
  ASSUME IInv, NEW w \in Workers, UNCHANGED <<contractVars, pool>>,
         \A v \in Workers \ {w} :
           /\ session'[v] = session[v] /\ pc'[v] = pc[v]
           /\ tailIndex'[v] = tailIndex[v] /\ message'[v] = message[v],
         TypeOK', SessionSound(w)'
  PROVE  IInv'
<1> USE DEF contractVars
<1>1. QueueIntact' /\ ExactlyOnceInOrder' /\ NoLostUpdate'
  BY DEF IInv, QueueIntact, ExactlyOnceInOrder, NoLostUpdate, QueueHead, QueueTail
<1>2. ASSUME NEW v \in Workers PROVE SessionSound(v)'
  <2>1. CASE v = w
    BY <2>1
  <2>2. CASE v # w
    <3>1. /\ session'[v] = session[v] /\ pc'[v] = pc[v] /\ message'[v] = message[v]
          /\ tailIndex'[v] = tailIndex[v] /\ kv' = kv /\ pushed' = pushed
      BY <2>2
    <3>2. SessionSound(v)
      BY DEF IInv, ClientsSound
    <3>3. QED
      BY <3>1, <3>2, Zenon DEF SessionSound
  <2>3. QED
    BY <2>1, <2>2
<1>3. ASSUME NEW v \in Workers, NEW i \in DOMAIN pool'[v] PROVE TxSound(pool[v][i])'
  BY DEF IInv, ClientsSound, TxSound, QueueHead, QueueTail, AreRepliesTo
<1>4. QED
  BY <1>1, <1>2, <1>3 DEF IInv, ClientsSound

\* The end of a run leaves a worker with nothing that could be unsound.
LEMMA EndRunStep ==
  ASSUME TypeOK, NEW w \in Workers, EndRun(w)
  PROVE  /\ session' \in [Workers -> Sessions] /\ pc' \in [Workers -> Locations]
         /\ tailIndex' \in [Workers -> Indices \cup {Undefined}]
         /\ message' \in [Workers -> Payload \cup {Undefined}]
         /\ \A v \in Workers \ {w} :
              /\ session'[v] = session[v] /\ pc'[v] = pc[v]
              /\ tailIndex'[v] = tailIndex[v] /\ message'[v] = message[v]
         /\ SessionSound(w)'
<1>1. NewSession \in Sessions
  BY DEF NewSession, Sessions, EmptyMap, Maps
<1>2. session'[w] = NewSession /\ pc'[w] = "idle" /\ message'[w] = Undefined
  BY DEF EndRun, GoTo, TypeOK
<1>3. SessionSound(w)'
  BY <1>2, KeyFacts, MarkersAreDistinct DEF SessionSound, BookkeepingSound, SnapshotSound, Polled, NewSession, EmptyMap
<1>4. QED
  BY <1>1, <1>3 DEF EndRun, GoTo, TypeOK, Locations

\* A new session holds nothing yet.
LEMMA StartSessionStep ==
  ASSUME IInv, NEW w \in Workers, StartSession(w)
  PROVE  IInv'
<1> USE DEF StartSession, contractVars
<1>1. NewSession \in Sessions
  BY DEF NewSession, Sessions, EmptyMap, Maps
<1>2. TypeOK'
  BY <1>1 DEF IInv, TypeOK, GoTo, Locations
<1>3. session'[w] = NewSession /\ pc'[w] = "version" /\ message'[w] = Undefined
  <2>1. session[w] = NewSession /\ message[w] = Undefined
    BY KeyFacts DEF IInv, ClientsSound, SessionSound, BookkeepingSound
  <2>2. session \in [Workers -> Sessions] /\ pc \in [Workers -> Locations]
    BY DEF IInv, TypeOK
  <2>3. QED
    BY <2>1, <2>2 DEF GoTo
<1>4. SessionSound(w)'
  BY <1>3, KeyFacts, MarkersAreDistinct DEF SessionSound, BookkeepingSound, SnapshotSound, Polled, NewSession, EmptyMap
<1>5. QED
  BY <1>2, <1>4, LocalStep DEF IInv, TypeOK, GoTo

\* The version that is read is the current one.
LEMMA ReadVersionStep ==
  ASSUME IInv, NEW w \in Workers, ReadVersion(w)
  PROVE  IInv'
<1> USE DEF contractVars
<1>1. CASE pc[w] = "restart"
  <2>1. EndRun(w) /\ UNCHANGED <<contractVars, pool, faults>>
    BY <1>1 DEF ReadVersion
  <2>2. TypeOK'
    BY <2>1, EndRunStep DEF IInv, TypeOK
  <2>3. QED
    BY <2>1, <2>2, EndRunStep, LocalStep DEF IInv
<1>2. CASE pc[w] # "restart"
  <2> DEFINE s == session[w]
             t == session'[w]
  <2>1. /\ pc[w] = "version" /\ s = NewSession
        /\ UNCHANGED <<contractVars, pool, faults, tailIndex, message>>
        /\ session' = [session EXCEPT
             ![w].values = Remember(s.values, VersionKey, kv[VersionKey]),
             ![w].version = kv[VersionKey]]
        /\ pc' = [pc EXCEPT ![w] = "tail"]
    BY <1>2 DEF ReadVersion, IInv, ClientsSound, SessionSound, BookkeepingSound, GoTo
  <2>2. /\ s \in Sessions /\ session \in [Workers -> Sessions]
        /\ kv[VersionKey] \in Nat \cup {NoValue}
    BY KeyFacts DEF IInv, TypeOK
  <2>3. /\ t.version = kv[VersionKey] /\ t.updates = s.updates /\ t.actions = s.actions
        /\ t.values = [s.values EXCEPT ![VersionKey] = kv[VersionKey]]
        /\ t.currentIndex = s.currentIndex /\ t.indexUpdated = s.indexUpdated
        /\ t \in Sessions /\ session' \in [Workers -> Sessions]
    BY <2>1, <2>2, KeyFacts DEF Remember, Sessions, Maps
  <2>4. /\ t.updates = EmptyMap /\ t.actions = <<>> /\ t.currentIndex = Undefined
        /\ t.indexUpdated = FALSE /\ t.values[VersionKey] = kv[VersionKey]
    BY <2>1, <2>3, KeyFacts DEF NewSession, EmptyMap
  <2>5. TypeOK'
    BY <2>1, <2>3 DEF IInv, TypeOK, Locations
  <2>6. message[w] = Undefined
    BY <2>1 DEF IInv, TypeOK, ClientsSound, SessionSound, BookkeepingSound
  <2>7. SessionSound(w)'
    BY <2>1, <2>3, <2>4, <2>6, KeyFacts, NumberFacts, MarkersAreDistinct
       DEF SessionSound, BookkeepingSound, SnapshotSound, Polled, EmptyMap, IInv, TypeOK
  <2>8. QED
    BY <2>1, <2>5, <2>7, LocalStep DEF IInv, TypeOK
<1>3. QED
  BY <1>1, <1>2

\* What the invariant says of the worker that takes a step.
LEMMA WorkerFacts ==
  ASSUME IInv, NEW w \in Workers
  PROVE  /\ session[w] \in Sessions /\ session \in [Workers -> Sessions]
         /\ pc \in [Workers -> Locations]
         /\ tailIndex[w] \in Indices \cup {Undefined}
         /\ tailIndex \in [Workers -> Indices \cup {Undefined}]
         /\ message[w] \in Payload \cup {Undefined}
         /\ message \in [Workers -> Payload \cup {Undefined}]
         /\ BookkeepingSound(session[w], message[w], pc[w], tailIndex[w], kv)
         /\ SnapshotSound(session[w], message[w], kv, pushed)
         /\ Len(session[w].actions) \in Nat
         /\ session[w].actions # <<>> => Len(session[w].actions) # 0
         /\ Undefined \notin Nat /\ Undefined \notin Payload
BY MarkersAreDistinct, LenProperties, EmptySeq
   DEF IInv, TypeOK, ClientsSound, SessionSound, Sessions

\* The worker's session is replaced by another one.
LEMMA SessionAssigned ==
  ASSUME session \in [Workers -> Sessions], NEW w \in Workers, NEW new \in Sessions,
         session' = [session EXCEPT ![w] = new]
  PROVE  /\ session'[w] = new /\ session' \in [Workers -> Sessions]
         /\ \A v \in Workers \ {w} : session'[v] = session[v]
OBVIOUS

\* The tail that is read bounds the index that is polled.
LEMMA ReadTailStep ==
  ASSUME IInv, NEW w \in Workers, ReadTail(w)
  PROVE  IInv'
<1> USE DEF ReadTail, contractVars
<1>1. /\ pc[w] = "tail" /\ session' = session /\ message' = message
      /\ tailIndex'[w] = QueueTail(kv) /\ kv' = kv /\ pushed' = pushed
      /\ pc' = [pc EXCEPT ![w] = pc'[w]]
      /\ \/ session[w].currentIndex = Undefined /\ pc'[w] = "head"
         \/ session[w].currentIndex # Undefined /\ pc'[w] = "commit"
         \/ /\ session[w].currentIndex # Undefined /\ pc'[w] = "message"
            /\ session[w].currentIndex < QueueTail(kv)
  BY WorkerFacts, NumberFacts DEF GoTo, Poll, Sessions, IInv
<1>2. TypeOK'
  BY <1>1, NumberFacts DEF IInv, TypeOK, Locations
<1>3. BookkeepingSound(session[w], message[w], pc'[w], tailIndex'[w], kv)
  BY <1>1, WorkerFacts, NumberFacts DEF BookkeepingSound, IInv
<1>4. SessionSound(w)'
  BY <1>1, <1>3, WorkerFacts DEF SessionSound
<1>5. QED
  BY <1>1, <1>2, <1>4, LocalStep DEF IInv, TypeOK

\* The head that is read is the index to poll, if the version is still current.
LEMMA ReadHeadStep ==
  ASSUME IInv, NEW w \in Workers, ReadHead(w)
  PROVE  IInv'
<1> USE DEF contractVars
<1> DEFINE s == session[w]
           t == session'[w]
<1>0. /\ pc[w] = "head" /\ s.currentIndex = Undefined
      /\ tailIndex[w] \in Nat /\ QueueHead(kv) \in Nat /\ tailIndex[w] <= QueueTail(kv)
  BY WorkerFacts, NumberFacts DEF ReadHead, IInv, BookkeepingSound
<1>1. /\ pc[w] = "head" /\ tailIndex' = tailIndex /\ message' = message
      /\ kv' = kv /\ pushed' = pushed /\ pc' = [pc EXCEPT ![w] = pc'[w]]
      /\ \/ pc'[w] = "commit"
         \/ pc'[w] = "message" /\ QueueHead(kv) < tailIndex[w]
  <2>1. /\ tailIndex' = tailIndex /\ message' = message /\ kv' = kv /\ pushed' = pushed
        /\ pc' = [pc EXCEPT ![w] = IF QueueHead(kv) >= tailIndex[w]
                                  THEN "commit" ELSE "message"]
    BY DEF ReadHead, GoTo, Poll
  <2>2. pc \in [Workers -> Locations]
    BY WorkerFacts
  <2>3. pc'[w] = IF QueueHead(kv) >= tailIndex[w] THEN "commit" ELSE "message"
    BY <2>1, <2>2
  <2>4. pc' = [pc EXCEPT ![w] = pc'[w]]
    BY <2>1, <2>3, Zenon
  <2>5. CASE QueueHead(kv) >= tailIndex[w]
    BY <1>0, <2>1, <2>3, <2>4, <2>5, Zenon
  <2>6. CASE ~(QueueHead(kv) >= tailIndex[w])
    <3>1. QueueHead(kv) < tailIndex[w]
      BY <1>0, <2>6
    <3>2. pc'[w] = "message"
      BY <2>3, <2>6
    <3>3. QED
      BY <1>0, <2>1, <2>4, <3>1, <3>2, Zenon
  <2>7. QED
    BY <2>5, <2>6
<1>2. /\ t.version = s.version /\ t.updates = s.updates /\ t.actions = s.actions
      /\ t.values = s.values /\ t.currentIndex = QueueHead(kv)
      /\ t.indexUpdated = s.indexUpdated
      /\ t \in Sessions /\ session' \in [Workers -> Sessions]
  <2> DEFINE new == [s EXCEPT !.currentIndex = QueueHead(kv)]
  <2>1. s \in Sessions /\ session \in [Workers -> Sessions] /\ QueueHead(kv) \in Indices
    BY WorkerFacts, NumberFacts DEF IInv
  <2>2. session' = [session EXCEPT ![w] = new]
    BY DEF ReadHead
  <2> HIDE DEF s
  <2>3. /\ new \in Sessions /\ new.version = s.version /\ new.updates = s.updates
        /\ new.actions = s.actions /\ new.values = s.values
        /\ new.currentIndex = QueueHead(kv) /\ new.indexUpdated = s.indexUpdated
    BY <2>1 DEF Sessions
  <2> HIDE DEF new
  <2>4. t = new /\ session' \in [Workers -> Sessions]
    BY <2>1, <2>2, <2>3, SessionAssigned
  <2>5. QED
    BY <2>3, <2>4
<1>3. TypeOK'
  BY <1>1, <1>2, NumberFacts DEF ReadHead, IInv, TypeOK, Locations
<1>4. Polled(s, message[w]) = 0 /\ Polled(t, message[w]) = 0 /\ s.actions = <<>>
  <2>1. Polled(s, message[w]) = 0
    BY <1>0, WorkerFacts DEF BookkeepingSound
  <2>2. s.actions = <<>>
    <3>1. Len(s.actions) \in Nat
      BY WorkerFacts
    <3>2. Len(s.actions) = 0
      BY <2>1, <3>1 DEF Polled
    <3>3. QED
      BY <3>2, WorkerFacts
  <2>3. QED
    BY <1>2, <2>1, <2>2 DEF Polled
<1>5. BookkeepingSound(t, message[w], pc'[w], tailIndex[w], kv)
  BY <1>1, <1>2, <1>4, WorkerFacts, NumberFacts DEF BookkeepingSound, IInv
<1>6. SnapshotSound(t, message[w], kv, pushed)
  BY <1>1, <1>2, <1>4, WorkerFacts, NumberFacts
     DEF BookkeepingSound, SnapshotSound, AreRepliesTo, IInv, QueueIntact
<1>7. SessionSound(w)'
  BY <1>1, <1>5, <1>6 DEF SessionSound
<1>8. QED
  BY <1>1, <1>3, <1>7, LocalStep DEF ReadHead, IInv, TypeOK

\* The message that is read is the next one the session has not polled.
LEMMA ReadMessageStep ==
  ASSUME IInv, NEW w \in Workers, ReadMessage(w)
  PROVE  IInv'
<1> USE DEF contractVars
<1> DEFINE s == session[w]
           t == session'[w]
           index == s.currentIndex
<1>1. CASE kv[index] = NoValue
  <2>1. EndRun(w) /\ UNCHANGED <<contractVars, pool, faults>>
    BY <1>1 DEF ReadMessage
  <2>2. TypeOK'
    BY <2>1, EndRunStep DEF IInv, TypeOK
  <2>3. QED
    BY <2>1, <2>2, EndRunStep, LocalStep DEF IInv
<1>2. CASE kv[index] # NoValue
  <2>1. /\ pc[w] = "message" /\ UNCHANGED <<contractVars, pool, faults, tailIndex>>
        /\ message' = [message EXCEPT ![w] = kv[index]]
        /\ session' = [session EXCEPT ![w].currentIndex = index + 1,
                                      ![w].indexUpdated = TRUE]
        /\ pc' = [pc EXCEPT ![w] = IF LocalValue(s, Counter) = Undefined
                                  THEN "value" ELSE "respond"]
    BY <1>2 DEF ReadMessage, GoTo
  <2>2. /\ index \in Indices /\ index + 1 \in Indices /\ index < QueueTail(kv)
        /\ kv[index] \in Payload /\ kv[index] # Undefined
    <3>1. /\ index # Undefined /\ tailIndex[w] # Undefined
          /\ index < tailIndex[w] /\ tailIndex[w] <= QueueTail(kv)
      BY <2>1, WorkerFacts DEF BookkeepingSound
    <3>2. /\ index \in Indices /\ tailIndex[w] \in Indices
          /\ QueueTail(kv) \in Indices
      BY <3>1, WorkerFacts, NumberFacts DEF Sessions, IInv
    <3>3. kv[index] \in Payload
      BY <1>2, <3>2 DEF IInv, TypeOK
    <3>4. QED
      BY <3>1, <3>2, <3>3, WorkerFacts, MaxIndexIsNat DEF Indices
  <2>3. /\ t.version = s.version /\ t.updates = s.updates /\ t.actions = s.actions
        /\ t.values = s.values /\ t.currentIndex = index + 1
        /\ t.indexUpdated = TRUE
        /\ t \in Sessions /\ session' \in [Workers -> Sessions]
    <3> DEFINE new == [s EXCEPT !.currentIndex = index + 1, !.indexUpdated = TRUE]
    <3>1. s \in Sessions /\ session \in [Workers -> Sessions]
      BY WorkerFacts
    <3>2. session' = [session EXCEPT ![w] = new]
      BY <2>1
    <3> HIDE DEF s
    <3>3. /\ new \in Sessions /\ new.version = s.version /\ new.updates = s.updates
          /\ new.actions = s.actions /\ new.values = s.values
          /\ new.currentIndex = index + 1 /\ new.indexUpdated = TRUE
      BY <2>2, <3>1 DEF Sessions
    <3> HIDE DEF new
    <3>4. t = new /\ session' \in [Workers -> Sessions]
      BY <3>1, <3>2, <3>3, SessionAssigned
    <3>5. QED
      BY <3>3, <3>4
  <2>4. TypeOK'
    BY <2>1, <2>2, <2>3 DEF IInv, TypeOK, Locations
  <2>5. /\ message[w] = Undefined /\ message'[w] = kv[index]
        /\ Polled(t, message'[w]) = Polled(s, message[w]) + 1
        /\ Polled(s, message[w]) = Len(s.actions)
    <3>1. message[w] = Undefined
      BY <2>1, WorkerFacts DEF BookkeepingSound
    <3>2. message'[w] = kv[index]
      BY <2>1, WorkerFacts
    <3>3. QED
      BY <2>2, <2>3, <3>1, <3>2, WorkerFacts DEF Polled
  <2>6. BookkeepingSound(t, message'[w], pc'[w], tailIndex'[w], kv')
    <3>1. /\ BookkeepingSound(s, message[w], "message", tailIndex[w], kv)
          /\ Len(s.actions) \in Nat /\ (s.actions # <<>> => Len(s.actions) # 0)
          /\ NumberAt(kv[VersionKey]) \in Nat
      BY <2>1, WorkerFacts, NumberFacts DEF IInv
    <3>2. /\ pc'[w] = IF LocalValue(s, Counter) = Undefined THEN "value" ELSE "respond"
          /\ kv' = kv /\ tailIndex' = tailIndex
      BY <2>1, WorkerFacts
    <3> HIDE DEF s, t, index
    <3>3. QED
      <4>1. /\ t.currentIndex # Undefined /\ kv[index] # Undefined
            /\ pc'[w] \in {"value", "respond"}
        BY <2>2, <2>3, <3>2, WorkerFacts DEF Indices
      <4>2. Polled(t, message'[w]) > 0 /\ s.updates[Counter] = t.updates[Counter]
        BY <2>3, <2>5, <3>1
      <4>3. pc'[w] = "value" => s.actions = <<>>
        BY <3>1, <3>2, WorkerFacts DEF BookkeepingSound, LocalValue
      <4>4. pc'[w] = "respond" => s.values[Counter] # Undefined
        BY <3>1, <3>2, WorkerFacts DEF BookkeepingSound, LocalValue
      <4>5. QED
        BY <2>3, <2>5, <3>1, <3>2, <4>1, <4>2, <4>3, <4>4 DEF BookkeepingSound
  <2>7. SnapshotSound(t, message'[w], kv', pushed')
    <3> SUFFICES ASSUME s.version = kv[VersionKey]
                 PROVE  /\ index + 1 = QueueHead(kv) + Polled(t, message'[w])
                        /\ index + 1 <= QueueTail(kv)
                        /\ AreRepliesTo(pushed, QueueHead(kv), s.actions)
                        /\ kv[index] = pushed[index + 1]
      BY <2>1, <2>3, <2>5 DEF SnapshotSound
    <3>1. /\ index = QueueHead(kv) + Len(s.actions)
          /\ AreRepliesTo(pushed, QueueHead(kv), s.actions)
      BY <2>2, <2>5, WorkerFacts, NumberFacts DEF SnapshotSound, IInv
    <3>2. /\ Len(s.actions) \in Nat /\ QueueHead(kv) \in Nat /\ QueueTail(kv) \in Nat
      BY WorkerFacts, NumberFacts DEF IInv
    <3>3. kv[index] = IF QueueHead(kv) <= index /\ index < QueueTail(kv)
                      THEN pushed[index + 1] ELSE NoValue
      BY <2>2 DEF IInv, QueueIntact
    <3> HIDE DEF s, t, index
    <3>4. QueueHead(kv) <= index
      BY <3>1, <3>2
    <3>5. kv[index] = pushed[index + 1]
      BY <2>2, <3>3, <3>4, Zenon
    <3>6. index + 1 <= QueueTail(kv)
      BY <2>2, <3>2 DEF Indices
    <3>7. index + 1 = QueueHead(kv) + (Len(s.actions) + 1)
      BY <3>1, <3>2
    <3>8. QED
      BY <2>5, <3>1, <3>5, <3>6, <3>7
  <2>8. SessionSound(w)'
    BY <2>6, <2>7 DEF SessionSound
  <2>9. QED
    BY <2>1, <2>4, <2>8, LocalStep DEF IInv, TypeOK
<1>3. QED
  BY <1>1, <1>2

\* Respond changes the actions of a session and one of its updates.
LEMMA SessionUpdate ==
  ASSUME session \in [Workers -> Sessions], NEW w \in Workers,
         NEW a \in Seq(Payload), NEW n \in Nat,
         session' = [session EXCEPT ![w].actions = a, ![w].updates[Counter] = n]
  PROVE  LET s == session[w]
             t == session'[w]
         IN  /\ t.version = s.version /\ t.actions = a
             /\ t.updates = [s.updates EXCEPT ![Counter] = n] /\ t.values = s.values
             /\ t.currentIndex = s.currentIndex /\ t.indexUpdated = s.indexUpdated
             /\ session' \in [Workers -> Sessions]
             /\ \A v \in Workers \ {w} : session'[v] = session[v]
BY KeyFacts DEF Sessions, Maps

\* The response goes to the message that was polled last.
LEMMA RespondStep ==
  ASSUME IInv, NEW w \in Workers, Respond(w)
  PROVE  IInv'
<1> DEFINE s == session[w]
           t == session'[w]
           n == NumberAt(LocalValue(s, Counter)) + 1
<1>1. /\ pc[w] = "respond" /\ message' = [message EXCEPT ![w] = Undefined]
      /\ UNCHANGED <<contractVars, pool>> /\ kv' = kv /\ pushed' = pushed
      /\ faults' = faults /\ tailIndex' = tailIndex
      /\ pc' = [pc EXCEPT ![w] = "tail"]
  BY DEF Respond, GoTo, contractVars
<1>2. /\ message[w] \in Payload /\ s.values[Counter] # Undefined
      /\ s.actions \in Seq(Payload) /\ Len(s.actions) \in Nat
      /\ s.values[Counter] \in Nat \cup {NoValue}
  <2>1. message[w] # Undefined /\ s.values[Counter] # Undefined
    BY <1>1, WorkerFacts DEF BookkeepingSound
  <2>2. QED
    BY <2>1, WorkerFacts, KeyFacts DEF Sessions, Maps
<1>3. n = NumberAt(s.values[Counter]) + Len(s.actions) + 1 /\ n \in Nat
  <2>1. NumberAt(s.values[Counter]) \in Nat
    BY <1>2 DEF NumberAt
  <2>2. CASE s.actions = <<>>
    <3>1. s.updates[Counter] = Undefined /\ Len(s.actions) = 0
      BY <2>2, WorkerFacts DEF BookkeepingSound
    <3>2. QED
      BY <2>1, <3>1 DEF LocalValue
  <2>3. CASE s.actions # <<>>
    <3>1. s.updates[Counter] = NumberAt(s.values[Counter]) + Len(s.actions)
      BY <2>3, WorkerFacts DEF BookkeepingSound
    <3>2. NumberAt(s.values[Counter]) + Len(s.actions) \in Nat
      BY <1>2, <2>1
    <3>3. LocalValue(s, Counter) = NumberAt(s.values[Counter]) + Len(s.actions)
      BY <3>1, <3>2, MarkersAreDistinct DEF LocalValue
    <3>4. NumberAt(LocalValue(s, Counter)) = NumberAt(s.values[Counter]) + Len(s.actions)
      BY <3>2, <3>3, MarkersAreDistinct DEF NumberAt
    <3>5. QED
      BY <1>2, <2>1, <3>4
  <2>4. QED
    BY <2>2, <2>3
<1>4. /\ t.version = s.version /\ t.actions = Append(s.actions, message[w])
      /\ t.updates = [s.updates EXCEPT ![Counter] = n] /\ t.values = s.values
      /\ t.currentIndex = s.currentIndex /\ t.indexUpdated = s.indexUpdated
      /\ session' \in [Workers -> Sessions]
      /\ \A v \in Workers \ {w} : session'[v] = session[v]
  <2>1. session' = [session EXCEPT ![w].actions = Append(s.actions, message[w]),
                                   ![w].updates[Counter] = n]
    BY DEF Respond
  <2>2. Append(s.actions, message[w]) \in Seq(Payload)
    BY <1>2
  <2>3. QED
    <3>1. session \in [Workers -> Sessions]
      BY WorkerFacts
    <3>2. QED
      BY <1>3, <2>1, <2>2, <3>1, SessionUpdate
<1>5. TypeOK'
  BY <1>1, <1>4 DEF IInv, TypeOK, Locations, contractVars
<1>6. /\ message'[w] = Undefined /\ Len(t.actions) = Len(s.actions) + 1
      /\ t.actions # <<>>
      /\ Polled(t, message'[w]) = Polled(s, message[w])
      /\ Polled(t, message'[w]) > 0
      /\ t.updates[Counter] = n
      /\ \A k \in ClientKeys \ {Counter} : t.updates[k] = s.updates[k]
      /\ \A i \in 1 .. Len(s.actions) : t.actions[i] = s.actions[i]
      /\ t.actions[Len(s.actions) + 1] = message[w]
  <2>1. message'[w] = Undefined /\ message[w] # Undefined
    BY <1>1, <1>2, WorkerFacts
  <2>2. /\ Len(t.actions) = Len(s.actions) + 1 /\ t.actions # <<>>
        /\ \A i \in 1 .. Len(s.actions) : t.actions[i] = s.actions[i]
        /\ t.actions[Len(s.actions) + 1] = message[w]
    BY <1>2, <1>4, AppendProperties, EmptySeq
  <2>3. /\ t.updates[Counter] = n
        /\ \A k \in ClientKeys \ {Counter} : t.updates[k] = s.updates[k]
    BY <1>4, WorkerFacts, KeyFacts DEF Sessions, Maps
  <2>4. QED
    BY <1>2, <2>1, <2>2, <2>3 DEF Polled
<1>7. BookkeepingSound(t, message'[w], pc'[w], tailIndex'[w], kv')
  <2>1. pc'[w] = "tail" /\ s.indexUpdated /\ s.currentIndex # Undefined
    BY <1>1, <1>6, WorkerFacts DEF BookkeepingSound
  <2>2. /\ s.version = s.values[VersionKey] /\ s.version # Undefined
        /\ NumberAt(s.version) <= NumberAt(kv[VersionKey])
        /\ \A k \in ClientKeys \ {Counter} : s.updates[k] = Undefined
    BY <1>1, WorkerFacts DEF BookkeepingSound
  <2>3. t.updates[Counter] = NumberAt(t.values[Counter]) + Len(t.actions)
    <3>1. NumberAt(s.values[Counter]) \in Nat
      BY <1>2 DEF NumberAt
    <3>2. QED
      BY <1>2, <1>3, <1>4, <1>6, <3>1
  <2>4. QED
    BY <1>1, <1>2, <1>4, <1>6, <2>1, <2>2, <2>3 DEF BookkeepingSound
<1>8. SnapshotSound(t, message'[w], kv', pushed')
  <2> SUFFICES ASSUME s.version = kv[VersionKey]
               PROVE  /\ s.currentIndex = QueueHead(kv) + Polled(t, message'[w])
                      /\ s.currentIndex <= QueueTail(kv)
                      /\ AreRepliesTo(pushed, QueueHead(kv), t.actions)
    BY <1>1, <1>4, <1>6 DEF SnapshotSound
  <2>1. s.currentIndex # Undefined /\ message[w] # Undefined
    BY <1>1, WorkerFacts DEF BookkeepingSound
  <2>2. /\ s.currentIndex = QueueHead(kv) + Polled(s, message[w])
        /\ s.currentIndex <= QueueTail(kv)
        /\ AreRepliesTo(pushed, QueueHead(kv), s.actions)
        /\ message[w] = pushed[s.currentIndex]
    BY <2>1, WorkerFacts DEF SnapshotSound
  <2>3. s.currentIndex = QueueHead(kv) + (Len(s.actions) + 1)
    BY <2>1, <2>2 DEF Polled
  <2>4. ASSUME NEW i \in 1 .. Len(t.actions)
        PROVE  t.actions[i] = pushed[QueueHead(kv) + i]
    <3>1. CASE i \in 1 .. Len(s.actions)
      BY <1>6, <2>2, <3>1 DEF AreRepliesTo
    <3>2. CASE i = Len(s.actions) + 1
      <4> HIDE DEF s, t
      <4>1. QED
        BY <1>6, <2>2, <2>3, <3>2
    <3>3. QED
      <4>1. Len(s.actions) \in Nat
        BY <1>2, WorkerFacts
      <4> HIDE DEF s, t
      <4>2. QED
        BY <1>6, <3>1, <3>2, <4>1
  <2>5. QED
    BY <1>6, <2>2, <2>4 DEF AreRepliesTo
<1>9. SessionSound(w)'
  BY <1>7, <1>8 DEF SessionSound
<1>10. QED
  BY <1>1, <1>4, <1>5, <1>9, LocalStep DEF IInv, TypeOK

\* The counter is read once, before the first response.
LEMMA ReadCounterStep ==
  ASSUME IInv, NEW w \in Workers, ReadCounter(w)
  PROVE  IInv'
<1> DEFINE s == session[w]
           t == session'[w]
<1>1. /\ pc[w] = "value" /\ message' = message /\ tailIndex' = tailIndex
      /\ UNCHANGED <<contractVars, pool>> /\ kv' = kv /\ pushed' = pushed
      /\ faults' = faults
      /\ session' = [session EXCEPT ![w].values = [s.values EXCEPT ![Counter] = kv[Counter]]]
      /\ pc' = [pc EXCEPT ![w] = "respond"]
  BY DEF ReadCounter, Remember, GoTo, contractVars
<1>2. kv[Counter] \in Nat \cup {NoValue} /\ kv[Counter] # Undefined
  BY KeyFacts, MarkersAreDistinct DEF IInv, TypeOK
<1>3. /\ t.version = s.version /\ t.updates = s.updates /\ t.actions = s.actions
      /\ t.values = [s.values EXCEPT ![Counter] = kv[Counter]]
      /\ t.currentIndex = s.currentIndex /\ t.indexUpdated = s.indexUpdated
      /\ t \in Sessions /\ session' \in [Workers -> Sessions]
      /\ \A v \in Workers \ {w} : session'[v] = session[v]
  <2> DEFINE read == [s.values EXCEPT ![Counter] = kv[Counter]]
             new == [s EXCEPT !.values = read]
  <2>1. s \in Sessions /\ session \in [Workers -> Sessions]
    BY WorkerFacts
  <2>2. session' = [session EXCEPT ![w] = new]
    BY <1>1
  <2> HIDE DEF s
  <2>3. read \in Maps
    BY <1>2, <2>1, KeyFacts DEF Sessions, Maps
  <2> HIDE DEF read
  <2>4. /\ new \in Sessions /\ new.version = s.version /\ new.updates = s.updates
        /\ new.actions = s.actions /\ new.values = read
        /\ new.currentIndex = s.currentIndex /\ new.indexUpdated = s.indexUpdated
    BY <2>1, <2>3 DEF Sessions
  <2> HIDE DEF new
  <2>5. /\ t = new /\ session' \in [Workers -> Sessions]
        /\ \A v \in Workers \ {w} : session'[v] = session[v]
    BY <2>1, <2>2, <2>4, SessionAssigned
  <2>6. QED
    BY <2>4, <2>5 DEF read
<1>4. TypeOK'
  BY <1>1, <1>3 DEF IInv, TypeOK, Locations, contractVars
<1>5. t.values[Counter] = kv[Counter] /\ t.values[VersionKey] = s.values[VersionKey]
  BY <1>3, WorkerFacts, KeyFacts DEF Sessions, Maps
<1>6. s.actions = <<>>
  BY <1>1, WorkerFacts DEF BookkeepingSound
<1>7. Polled(t, message[w]) = Polled(s, message[w]) /\ pc'[w] = "respond"
  BY <1>1, <1>3, WorkerFacts DEF Polled
<1>8. BookkeepingSound(t, message[w], pc'[w], tailIndex[w], kv)
  BY <1>1, <1>2, <1>3, <1>5, <1>6, <1>7, WorkerFacts DEF BookkeepingSound
<1>9. SnapshotSound(t, message[w], kv, pushed)
  BY <1>3, <1>7, WorkerFacts DEF SnapshotSound
<1>10. SessionSound(w)'
  BY <1>1, <1>8, <1>9 DEF SessionSound
<1>11. QED
  BY <1>1, <1>3, <1>4, <1>10, LocalStep DEF IInv, TypeOK

\* A session with something to commit has answered something.
LEMMA CommitAnswers ==
  ASSUME IInv, NEW w \in Workers, pc[w] \in {"commit", "submit"}, HasUpdates(session[w])
  PROVE  session[w].actions # <<>>
<1>1. message[w] = Undefined
  BY WorkerFacts DEF BookkeepingSound
<1>2. ASSUME session[w].actions = <<>> PROVE FALSE
  <2>1. Polled(session[w], message[w]) = 0
    BY <1>1, <1>2, EmptySeq DEF Polled
  <2>2. session[w].indexUpdated = FALSE
    BY <2>1, WorkerFacts DEF BookkeepingSound, Sessions
  <2>3. \A k \in ClientKeys : session[w].updates[k] = Undefined
    BY <1>2, WorkerFacts DEF BookkeepingSound
  <2>4. session[w].updates = EmptyMap
    BY <2>3, WorkerFacts DEF EmptyMap, Sessions, Maps
  <2>5. QED
    BY <1>2, <2>2, <2>4 DEF HasUpdates
<1>3. QED
  BY <1>2

\* A session that goes on from its commit stays sound.
LEMMA CommitGoesOn ==
  ASSUME IInv, NEW w \in Workers, pc[w] = "commit", HasUpdates(session[w]),
         UNCHANGED <<contractVars, pool, faults, clientVars>>,
         pc' = [pc EXCEPT ![w] = "submit"]
  PROVE  IInv'
<1>1. session' = session /\ message' = message /\ tailIndex' = tailIndex
      /\ kv' = kv /\ pushed' = pushed
  BY DEF clientVars, contractVars
<1>2. session[w].actions # <<>>
  BY CommitAnswers
<1>3. TypeOK'
  BY <1>1 DEF IInv, TypeOK, Locations, contractVars
<1>4. BookkeepingSound(session[w], message[w], pc'[w], tailIndex[w], kv)
  BY <1>2, WorkerFacts DEF BookkeepingSound
<1>5. SessionSound(w)'
  BY <1>1, <1>4, WorkerFacts DEF SessionSound
<1>6. QED
  BY <1>1, <1>3, <1>5, LocalStep DEF IInv, TypeOK

\* A run that ends, and leaves the contract and the pool alone.
LEMMA EndedStep ==
  ASSUME IInv, NEW w \in Workers, EndRun(w), UNCHANGED <<contractVars, pool>>,
         faults' \in Nat
  PROVE  IInv'
<1>1. TypeOK'
  BY EndRunStep DEF IInv, TypeOK, contractVars
<1>2. QED
  BY <1>1, EndRunStep, LocalStep DEF IInv

\* A commit goes on only with a session that answered something.
LEMMA CommitStep ==
  ASSUME IInv, NEW w \in Workers, Commit(w)
  PROVE  IInv'
<1>1. CASE EndRun(w)
  BY <1>1, EndedStep DEF Commit, IInv, TypeOK
<1>2. CASE ~EndRun(w)
  BY <1>2, CommitGoesOn DEF Commit, GoTo
<1>3. QED
  BY <1>1, <1>2

\* What a session at the end of its run is turned into.
LEMMA TxOfSound ==
  ASSUME IInv, NEW w \in Workers, pc[w] \in {"commit", "submit"},
         session[w].actions # <<>>
  PROVE  TxOf(session[w]) \in Txs /\ TxSound(TxOf(session[w]))
<1> DEFINE s == session[w]
           tx == TxOf(s)
<1>1. /\ message[w] = Undefined /\ s.actions # <<>> /\ s.values[Counter] # Undefined
      /\ s.version = s.values[VersionKey] /\ s.version # Undefined
      /\ NumberAt(s.version) <= NumberAt(kv[VersionKey])
      /\ s.updates[VersionKey] = Undefined /\ s.currentIndex # Undefined
      /\ s.updates[Counter] = NumberAt(s.values[Counter]) + Len(s.actions)
      /\ s.indexUpdated <=> Polled(s, message[w]) > 0
  BY WorkerFacts, KeyFacts DEF BookkeepingSound
<1>2. Len(s.actions) \in Nat /\ Len(s.actions) > 0 /\ s.indexUpdated
  <2>1. Len(s.actions) \in Nat /\ Len(s.actions) # 0
    BY <1>1, WorkerFacts
  <2>2. QED
    BY <1>1, <2>1 DEF Polled
<1>3. BumpVersion(s) = NumberAt(s.version) + 1 /\ BumpVersion(s) \in Nat
  <2>1. s.version \in Nat \cup {NoValue}
    BY <1>1, WorkerFacts DEF Sessions
  <2>2. QED
    BY <2>1 DEF BumpVersion, NumberAt
<1>4. /\ tx.conditions = s.values /\ tx.head = s.currentIndex /\ tx.replies = s.actions
      /\ tx.updates = [s.updates EXCEPT ![VersionKey] = BumpVersion(s)]
      /\ tx = [conditions |-> tx.conditions, updates |-> tx.updates,
               head |-> tx.head, replies |-> tx.replies]
  BY <1>1, <1>2 DEF TxOf, Conditions
<1>5. s.updates \in Maps /\ s.values \in Maps /\ s.actions \in Seq(Payload)
      /\ s.currentIndex \in Indices
  BY <1>1, WorkerFacts DEF Sessions
<1>6. tx.updates \in Maps /\ tx.updates[VersionKey] = BumpVersion(s)
      /\ tx.updates[Counter] = s.updates[Counter]
  BY <1>3, <1>4, <1>5, KeyFacts DEF Maps
<1>7. tx \in Txs
  BY <1>4, <1>5, <1>6 DEF Txs
<1>8. SnapshotSound(s, message[w], kv, pushed) /\ Polled(s, message[w]) = Len(s.actions)
  BY <1>1, WorkerFacts DEF Polled
<1>9. TxSound(tx)
  BY <1>1, <1>2, <1>3, <1>4, <1>5, <1>6, <1>8 DEF TxSound, SnapshotSound
<1>10. QED
  BY <1>7, <1>9

\* The pool may shrink, or grow by sound transactions, as long as the contract
\* stays the same.
LEMMA PoolStep ==
  ASSUME IInv, UNCHANGED contractVars, TypeOK',
         \A w \in Workers : SessionSound(w)',
         \A w \in Workers : \A i \in DOMAIN pool'[w] : TxSound(pool'[w][i])
  PROVE  IInv'
<1>1. kv' = kv /\ pushed' = pushed /\ replies' = replies /\ directs' = directs
  BY DEF contractVars
<1>2. QueueIntact' /\ ExactlyOnceInOrder' /\ NoLostUpdate'
  BY <1>1 DEF IInv, QueueIntact, ExactlyOnceInOrder, NoLostUpdate
<1>3. ASSUME NEW w \in Workers, NEW i \in DOMAIN pool'[w] PROVE TxSound(pool[w][i])'
  <2>1. TxSound(pool'[w][i])
    OBVIOUS
  <2>2. QED
    BY <1>1, <2>1 DEF TxSound
<1>4. QED
  BY <1>2, <1>3 DEF IInv, ClientsSound

\* The sessions that a step leaves alone stay sound if the contract does.
LEMMA OtherSessions ==
  ASSUME IInv, kv' = kv, pushed' = pushed, NEW v \in Workers,
         session'[v] = session[v], pc'[v] = pc[v],
         tailIndex'[v] = tailIndex[v], message'[v] = message[v]
  PROVE  SessionSound(v)'
<1>1. SessionSound(v)
  BY DEF IInv, ClientsSound
<1>2. QED
  BY <1>1, Zenon DEF SessionSound

\* A submission hands the transaction over: the session goes on to wait for
\* it, or to a new session.
LEMMA SubmittedEffect ==
  ASSUME IInv, NEW w \in Workers, pc[w] = "submit", UNCHANGED contractVars,
         faults' = faults, tailIndex' = tailIndex, message' = message,
         \/ session' = session /\ pc' = [pc EXCEPT ![w] = "inclusion"]
         \/ session' = [session EXCEPT ![w] = NewSession] /\ pc' = [pc EXCEPT ![w] = "restart"],
         pool' \in [Workers -> Seq(Txs)],
         \A v \in Workers : \A i \in DOMAIN pool'[v] : TxSound(pool'[v][i])
  PROVE  IInv'
<1>1. /\ pc[w] = "submit" /\ kv' = kv /\ pushed' = pushed
      /\ tailIndex' = tailIndex /\ message' = message
      /\ \/ session' = session /\ pc' = [pc EXCEPT ![w] = "inclusion"]
         \/ session' = [session EXCEPT ![w] = NewSession] /\ pc' = [pc EXCEPT ![w] = "restart"]
  BY DEF contractVars
<1>2. NewSession \in Sessions
  BY DEF NewSession, Sessions, EmptyMap, Maps
<1>3. TypeOK'
  BY <1>1, <1>2 DEF IInv, TypeOK, Locations, contractVars
<1>4. ASSUME NEW v \in Workers PROVE SessionSound(v)'
  <2>1. CASE v # w
    BY <1>1, <2>1, OtherSessions DEF IInv, TypeOK
  <2>2. CASE v = w /\ session' = session /\ pc' = [pc EXCEPT ![w] = "inclusion"]
    <3>1. pc'[w] = "inclusion"
      BY <2>2, WorkerFacts
    <3>2. BookkeepingSound(session[w], message[w], "inclusion", tailIndex[w], kv)
      BY <1>1, WorkerFacts DEF BookkeepingSound
    <3>3. QED
      BY <1>1, <2>2, <3>1, <3>2, WorkerFacts DEF SessionSound
  <2>3. CASE v = w /\ session' = [session EXCEPT ![w] = NewSession]
             /\ pc' = [pc EXCEPT ![w] = "restart"]
    <3>1. session'[w] = NewSession /\ pc'[w] = "restart" /\ message'[w] = Undefined
      BY <1>1, <2>3, WorkerFacts DEF BookkeepingSound
    <3>2. QED
      BY <2>3, <3>1, KeyFacts, MarkersAreDistinct
         DEF SessionSound, BookkeepingSound, SnapshotSound, Polled, NewSession, EmptyMap
  <2>4. QED
    BY <1>1, <2>1, <2>2, <2>3
<1>5. QED
  BY <1>3, <1>4, PoolStep

\* The transaction that is submitted is sound.
LEMMA SubmitStep ==
  ASSUME IInv, NEW w \in Workers, Submit(w)
  PROVE  IInv'
<1> DEFINE tx == TxOf(session[w])
<1>1. /\ pc[w] = "submit" /\ pool' = [pool EXCEPT ![w] = Append(pool[w], tx)]
      /\ UNCHANGED contractVars
      /\ tailIndex' = tailIndex /\ message' = message /\ faults' = faults
      /\ \/ session' = session /\ pc' = [pc EXCEPT ![w] = "inclusion"]
         \/ session' = [session EXCEPT ![w] = NewSession] /\ pc' = [pc EXCEPT ![w] = "restart"]
  BY DEF Submit, GoTo
<1>2. tx \in Txs /\ TxSound(tx)
  <2>1. session[w].actions # <<>>
    BY <1>1, WorkerFacts DEF BookkeepingSound
  <2>2. QED
    BY <1>1, <2>1, TxOfSound
<1>3. pool[w] \in Seq(Txs) /\ Append(pool[w], tx) \in Seq(Txs)
  BY <1>2 DEF IInv, TypeOK
<1>4. pool' \in [Workers -> Seq(Txs)]
  BY <1>1, <1>3 DEF IInv, TypeOK
<1>5. ASSUME NEW v \in Workers, NEW i \in DOMAIN pool'[v] PROVE TxSound(pool'[v][i])
  <2>1. CASE v # w
    <3>1. pool'[v] = pool[v]
      BY <1>1, <2>1 DEF IInv, TypeOK
    <3>2. QED
      BY <3>1 DEF IInv, ClientsSound
  <2>2. CASE v = w
    <3>1. pool'[w] = Append(pool[w], tx)
      BY <1>1 DEF IInv, TypeOK
    <3>2. (i \in 1 .. Len(pool[w]) /\ pool'[w][i] = pool[w][i]) \/ pool'[w][i] = tx
      BY <1>2, <1>3, <2>2, <3>1, AppendProperties, LenProperties
    <3>3. \A j \in 1 .. Len(pool[w]) : TxSound(pool[w][j])
      BY <1>3, LenProperties DEF IInv, ClientsSound
    <3>4. QED
      BY <1>2, <2>2, <3>2, <3>3
  <2>3. QED
    BY <2>1, <2>2
<1>6. QED
  BY <1>1, <1>4, <1>5, SubmittedEffect

\* A run that ends by a fault leaves its transactions as they are.
LEMMA AbortStep ==
  ASSUME IInv, NEW w \in Workers, Abort(w)
  PROVE  IInv'
BY EndedStep DEF Abort, IInv, TypeOK

-----------------------------------------------------------------------------
(* Steps of the chain and of the users.                                    *)

\* The oldest pending transaction of a worker, and the ones behind it.
LEMMA OldestPending ==
  ASSUME IInv, NEW w \in Workers, pool[w] # <<>>,
         pool' = [pool EXCEPT ![w] = Tail(pool[w])]
  PROVE  /\ Head(pool[w]) \in Txs /\ TxSound(Head(pool[w]))
         /\ pool' \in [Workers -> Seq(Txs)]
         /\ \A v \in Workers : \A i \in DOMAIN pool'[v] :
              pool'[v][i] \in Txs /\ TxSound(pool'[v][i])
<1>1. pool \in [Workers -> Seq(Txs)]
  BY DEF IInv, TypeOK
<1>2. /\ Head(pool[w]) \in Txs /\ Tail(pool[w]) \in Seq(Txs)
      /\ Len(pool[w]) \in Nat \ {0} /\ Len(Tail(pool[w])) = Len(pool[w]) - 1
      /\ \A i \in 1 .. Len(Tail(pool[w])) : Tail(pool[w])[i] = pool[w][i + 1]
      /\ Head(pool[w]) = pool[w][1]
  BY <1>1, HeadTailProperties, EmptySeq
<1>3. \A v \in Workers : \A i \in 1 .. Len(pool[v]) : pool[v][i] \in Txs /\ TxSound(pool[v][i])
  BY <1>1, LenProperties DEF IInv, ClientsSound
<1>4. ASSUME NEW v \in Workers, NEW i \in DOMAIN pool'[v]
      PROVE  pool'[v][i] \in Txs /\ TxSound(pool'[v][i])
  <2>1. CASE v = w
    <3>1. pool'[w] = Tail(pool[w])
      BY <1>1
    <3>2. i \in 1 .. Len(Tail(pool[w]))
      BY <1>2, <2>1, <3>1, LenProperties
    <3>3. i + 1 \in 1 .. Len(pool[w])
      BY <1>2, <3>2
    <3>4. Tail(pool[w])[i] = pool[w][i + 1]
      BY <1>2, <3>2
    <3>5. pool'[v][i] = pool[w][i + 1]
      BY <2>1, <3>1, <3>4
    <3>6. QED
      BY <1>3, <3>3, <3>5
  <2>2. CASE v # w
    <3>1. pool'[v] = pool[v]
      BY <1>1, <2>2
    <3>2. i \in 1 .. Len(pool[v])
      BY <1>1, <3>1, LenProperties
    <3>3. QED
      BY <1>3, <3>1, <3>2
  <2>3. QED
    BY <2>1, <2>2
<1>5. pool' \in [Workers -> Seq(Txs)]
  BY <1>1, <1>2
<1>6. TxSound(Head(pool[w])) /\ Head(pool[w]) \in Txs
  BY <1>2, <1>3
<1>7. QED
  BY <1>4, <1>5, <1>6

\* A transaction that is lost changes no other.
LEMMA DropStep ==
  ASSUME IInv, NEW w \in Workers, Drop(w)
  PROVE  IInv'
<1>1. /\ pool[w] # <<>> /\ pool' = [pool EXCEPT ![w] = Tail(pool[w])]
      /\ UNCHANGED contractVars /\ faults' = faults + 1
      /\ kv' = kv /\ pushed' = pushed
      /\ EndRun(w) \/ UNCHANGED <<session, tailIndex, message, pc>>
  BY DEF Drop, contractVars, clientVars
<1>2. TypeOK'
  BY <1>1, OldestPending, EndRunStep DEF IInv, TypeOK, contractVars
<1>3. ASSUME NEW v \in Workers PROVE SessionSound(v)'
  <2>1. CASE EndRun(w)
    BY <1>1, <2>1, EndRunStep, OtherSessions DEF IInv
  <2>2. CASE UNCHANGED <<session, tailIndex, message, pc>>
    BY <1>1, <2>2, OtherSessions
  <2>3. QED
    BY <1>1, <2>1, <2>2
<1>4. QED
  BY <1>1, <1>2, <1>3, OldestPending, PoolStep

\* Every transaction that was sound still is, pending or not.
TxsStaySound == \A tx \in Txs : TxSound(tx) => TxSound(tx)'

LEMMA PoolOfTxs ==
  ASSUME TypeOK, NEW w \in Workers, NEW i \in DOMAIN pool[w]
  PROVE  pool[w][i] \in Txs
BY ElementOfSeq, LenProperties DEF TypeOK

\* A pushed message lands behind everything that was polled.
LEMMA PushStep ==
  ASSUME IInv, NEW m \in Payload, Push(m)
  PROVE  IInv' /\ TxsStaySound
<1> DEFINE h == QueueHead(kv)
           q == QueueTail(kv)
<1>1. /\ q + 1 <= MaxIndex /\ pushed' = Append(pushed, m)
      /\ kv' = [kv EXCEPT ![q] = m, ![TailKey] = q + 1]
      /\ UNCHANGED <<replies, directs, pool, session, tailIndex, message, pc, faults>>
  BY DEF Push, CanPush, PushMessage, clientVars
<1>2. /\ h \in Nat /\ q \in Nat /\ q \in Indices /\ q + 1 \in Indices
      /\ h <= q /\ q = Len(pushed) /\ pushed \in Seq(Payload)
      /\ kv \in [Keys -> Values] /\ Indices = 0 .. MaxIndex
  BY <1>1, NumberFacts, MaxIndexIsNat DEF IInv, TypeOK, QueueIntact, Indices
<1>3. /\ kv'[TailKey] = q + 1 /\ kv'[HeadKey] = kv[HeadKey] /\ kv'[q] = m
      /\ \A k \in ClientKeys : kv'[k] = kv[k]
      /\ \A i \in Indices \ {q} : kv'[i] = kv[i]
      /\ kv' \in [Keys -> Values]
  <2> HIDE DEF h, q
  <2>1. q \in Keys /\ TailKey \in Keys /\ q # TailKey /\ q # HeadKey
    BY <1>2, KeyFacts
  <2>2. \A k \in Keys : kv'[k] = IF k = TailKey THEN q + 1 ELSE IF k = q THEN m ELSE kv[k]
    BY <1>1, <1>2, <2>1
  <2>3. kv' \in [Keys -> Values]
    <3>1. m \in Values /\ q + 1 \in Values
      BY <1>2 DEF Values
    <3>2. QED
      BY <1>1, <1>2, <3>1
  <2>4. \A k \in ClientKeys : k \in Keys /\ k # TailKey /\ k # q
    BY <1>2, KeyFacts
  <2>5. \A i \in Indices : i \in Keys /\ i # TailKey
    BY KeyFacts
  <2>6. HeadKey \in Keys /\ HeadKey # TailKey
    BY KeyFacts
  <2>7. QED
    BY <2>1, <2>2, <2>3, <2>4, <2>5, <2>6, Zenon
<1>4. QueueHead(kv') = h /\ QueueTail(kv') = q + 1
  BY <1>2, <1>3, MarkersAreDistinct DEF QueueHead, QueueTail, NumberAt
<1>5. /\ pushed' \in Seq(Payload) /\ Len(pushed') = q + 1 /\ pushed'[q + 1] = m
      /\ \A i \in 1 .. q : pushed'[i] = pushed[i]
  BY <1>1, <1>2, AppendProperties
<1>6. TypeOK'
  BY <1>1, <1>2, <1>3, <1>5 DEF IInv, TypeOK
<1>7. QueueIntact'
  <2>1. ASSUME NEW i \in Indices
        PROVE  kv'[i] = IF h <= i /\ i < q + 1 THEN pushed'[i + 1] ELSE NoValue
    <3>1. CASE i = q
      BY <1>2, <1>3, <1>5, <3>1
    <3>2. CASE i # q
      <4>1. kv'[i] = IF h <= i /\ i < q THEN pushed[i + 1] ELSE NoValue
        BY <1>3, <3>2 DEF IInv, QueueIntact
      <4>2. i \in Nat /\ (i < q + 1 <=> i < q)
        BY <1>2, <3>2
      <4>3. h <= i /\ i < q => pushed'[i + 1] = pushed[i + 1]
        BY <1>2, <1>5, <4>2
      <4>4. QED
        BY <4>1, <4>2, <4>3
    <3>3. QED
      BY <3>1, <3>2
  <2>2. QED
    BY <1>2, <1>4, <1>5, <2>1 DEF QueueIntact
<1>8. ExactlyOnceInOrder' /\ NoLostUpdate'
  <2>1. ExactlyOnceInOrder'
    BY <1>1, <1>2, <1>4, <1>5 DEF IInv, ExactlyOnceInOrder
  <2>2. NoLostUpdate'
    BY <1>1, <1>3, KeyFacts DEF IInv, NoLostUpdate
  <2>3. QED
    BY <2>1, <2>2
\* Replies to messages that were in the queue already are still their replies.
<1>9. ASSUME NEW answers, Len(answers) \in Nat, h + Len(answers) <= q,
             AreRepliesTo(pushed, h, answers)
      PROVE  AreRepliesTo(pushed', h, answers)
  BY <1>2, <1>5, <1>9 DEF AreRepliesTo
<1>10. ASSUME NEW w \in Workers PROVE SessionSound(w)'
  <2>1. BookkeepingSound(session[w], message[w], pc[w], tailIndex[w], kv')
    <3>1. tailIndex[w] # Undefined => tailIndex[w] \in Nat
      BY <1>2, WorkerFacts
    <3>2. kv'[VersionKey] = kv[VersionKey]
      BY <1>3, KeyFacts
    <3>3. ASSUME tailIndex[w] # Undefined, tailIndex[w] <= q
          PROVE  tailIndex[w] <= q + 1
      BY <1>2, <3>1, <3>3
    <3>4. BookkeepingSound(session[w], message[w], pc[w], tailIndex[w], kv)
      BY WorkerFacts
    <3>5. QED
      BY <1>4, <3>2, <3>3, <3>4, Zenon DEF BookkeepingSound
  <2>2. SnapshotSound(session[w], message[w], kv', pushed')
    <3> DEFINE s == session[w]
    <3> SUFFICES ASSUME s.version = kv[VersionKey], s.currentIndex # Undefined
                 PROVE  /\ s.currentIndex = h + Polled(s, message[w])
                        /\ s.currentIndex <= q + 1
                        /\ AreRepliesTo(pushed', h, s.actions)
                        /\ message[w] # Undefined => message[w] = pushed'[s.currentIndex]
      BY <1>3, <1>4, KeyFacts DEF SnapshotSound
    <3>1. /\ s.currentIndex = h + Polled(s, message[w]) /\ s.currentIndex <= q
          /\ AreRepliesTo(pushed, h, s.actions)
          /\ message[w] # Undefined => message[w] = pushed[s.currentIndex]
      BY WorkerFacts DEF SnapshotSound
    <3>2. /\ Len(s.actions) \in Nat
          /\ Polled(s, message[w]) \in {Len(s.actions), Len(s.actions) + 1}
          /\ message[w] # Undefined => Polled(s, message[w]) = Len(s.actions) + 1
      BY WorkerFacts DEF Polled
    <3>3. h + Len(s.actions) <= q /\ s.currentIndex <= q + 1
      BY <1>2, <3>1, <3>2
    <3>4. message[w] # Undefined => s.currentIndex \in 1 .. q
      BY <1>2, <3>1, <3>2
    <3>5. QED
      BY <1>5, <1>9, <3>1, <3>2, <3>3, <3>4
  <2>3. QED
    BY <1>1, <2>1, <2>2 DEF SessionSound
<1>11. ASSUME NEW tx \in Txs, TxSound(tx) PROVE TxSound(tx)'
  <2>1. TxSound(tx) /\ Len(tx.replies) \in Nat
    BY <1>11, LenProperties DEF Txs
  <2>2. kv[VersionKey] = kv'[VersionKey]
    BY <1>3, KeyFacts
  <2>3. tx.conditions[VersionKey] = kv[VersionKey] =>
          /\ tx.head = h + Len(tx.replies) /\ tx.head <= q + 1
          /\ AreRepliesTo(pushed', h, tx.replies)
    BY <1>2, <1>9, <2>1 DEF TxSound
  <2>4. QED
    BY <1>1, <1>4, <2>1, <2>2, <2>3 DEF TxSound
<1>12. \A w \in Workers : \A i \in DOMAIN pool'[w] : TxSound(pool[w][i])'
  BY <1>1, <1>11, PoolOfTxs DEF IInv, ClientsSound
<1>13. QED
  BY <1>6, <1>7, <1>8, <1>10, <1>11, <1>12 DEF IInv, ClientsSound, TxsStaySound

\* An increment of another attestor is counted, and changes no version.
LEMMA DirectUpdateStep ==
  ASSUME IInv, DirectUpdate
  PROVE  IInv' /\ TxsStaySound
<1>1. /\ kv' = [kv EXCEPT ![Counter] = NumberAt(kv[Counter]) + 1]
      /\ directs' = directs + 1 /\ directs \in Nat
      /\ pushed' = pushed /\ replies' = replies /\ pool' = pool /\ faults' = faults
      /\ session' = session /\ tailIndex' = tailIndex /\ message' = message /\ pc' = pc
  BY DEF DirectUpdate, clientVars, IInv, TypeOK
<1>2. /\ kv \in [Keys -> Values] /\ Counter \in Keys
      /\ NumberAt(kv[Counter]) + 1 \in Nat /\ Nat \subseteq Values
  BY KeyFacts, NumberFacts DEF IInv, TypeOK, Values
<1>3. /\ kv' \in [Keys -> Values] /\ kv'[Counter] = NumberAt(kv[Counter]) + 1
      /\ kv'[VersionKey] = kv[VersionKey] /\ kv'[HeadKey] = kv[HeadKey]
      /\ kv'[TailKey] = kv[TailKey]
      /\ \A k \in ClientKeys \ {Counter} : kv'[k] = kv[k]
      /\ \A i \in Indices : kv'[i] = kv[i]
  BY <1>1, <1>2, KeyFacts
<1>4. QueueHead(kv') = QueueHead(kv) /\ QueueTail(kv') = QueueTail(kv)
  BY <1>3 DEF QueueHead, QueueTail
<1>5. TypeOK'
  <2>1. \A k \in {HeadKey, TailKey} : kv'[k] \in Indices \cup {NoValue}
    BY <1>3 DEF IInv, TypeOK
  <2>2. \A k \in ClientKeys : kv'[k] \in Nat \cup {NoValue}
    BY <1>2, <1>3 DEF IInv, TypeOK
  <2>3. \A i \in Indices : kv'[i] \in Payload \cup {NoValue}
    BY <1>3 DEF IInv, TypeOK
  <2>4. QED
    BY <1>1, <1>3, <2>1, <2>2, <2>3 DEF IInv, TypeOK
<1>6. QueueIntact' /\ ExactlyOnceInOrder'
  BY <1>1, <1>3, <1>4 DEF IInv, QueueIntact, ExactlyOnceInOrder
<1>7. NoLostUpdate'
  <2>1. NumberAt(kv'[Counter]) = kv'[Counter]
    BY <1>2, <1>3, MarkersAreDistinct DEF NumberAt
  <2>2. NumberAt(kv[Counter]) = Len(replies) + directs /\ Len(replies) \in Nat
    BY LenProperties DEF IInv, NoLostUpdate, TypeOK
  <2>3. QED
    BY <1>1, <1>3, <2>1, <2>2 DEF NoLostUpdate
<1>8. ASSUME NEW w \in Workers PROVE SessionSound(w)'
  <2>1. SessionSound(w)
    BY DEF IInv, ClientsSound
  <2>2. QED
    BY <1>1, <1>3, <1>4, <2>1, Zenon DEF SessionSound, BookkeepingSound, SnapshotSound
<1>9. ASSUME NEW tx \in Txs, TxSound(tx) PROVE TxSound(tx)'
  BY <1>1, <1>3, <1>4, <1>9, Zenon DEF TxSound
<1>10. \A w \in Workers : \A i \in DOMAIN pool'[w] : TxSound(pool[w][i])'
  BY <1>1, <1>9, PoolOfTxs DEF IInv, ClientsSound
<1>11. QED
  BY <1>5, <1>6, <1>7, <1>8, <1>9, <1>10 DEF IInv, ClientsSound, TxsStaySound

\* What a sound transaction does to the contract when it is executed.
LEMMA AppliedTx ==
  ASSUME IInv, NEW tx \in Txs, TxSound(tx), RollupSucceeds(kv, tx)
  PROVE  LET store == RollupResult(kv, tx)
             n == Len(tx.replies)
         IN  /\ store \in [Keys -> Values] /\ n \in Nat \ {0}
             /\ tx.head = QueueHead(kv) + n /\ tx.head <= QueueTail(kv)
             /\ AreRepliesTo(pushed, QueueHead(kv), tx.replies)
             /\ store[VersionKey] = NumberAt(kv[VersionKey]) + 1
             /\ store[Counter] = NumberAt(kv[Counter]) + n
             /\ store[HeadKey] = tx.head /\ store[TailKey] = kv[TailKey]
             /\ \A k \in ClientKeys : store[k] \in Nat \cup {NoValue}
             /\ \A i \in Indices :
                  store[i] = IF QueueHead(kv) <= i /\ i < tx.head THEN NoValue ELSE kv[i]
<1> DEFINE updated == ApplyUpdates(kv, tx.updates)
           store == RollupResult(kv, tx)
           n == Len(tx.replies)
           h == QueueHead(kv)
<1>1. /\ tx.conditions \in Maps /\ tx.updates \in Maps /\ tx.replies \in Seq(Payload)
      /\ tx.head \in Indices /\ n \in Nat
  BY LenProperties DEF Txs, TxSound
<1>2. /\ kv[VersionKey] = tx.conditions[VersionKey]
      /\ kv[Counter] = tx.conditions[Counter]
  BY <1>1, KeyFacts DEF RollupSucceeds, ConditionsMet, TxSound, Maps
<1>3. /\ n > 0 /\ tx.head = h + n /\ tx.head <= QueueTail(kv)
      /\ AreRepliesTo(pushed, h, tx.replies)
      /\ tx.updates[VersionKey] = NumberAt(kv[VersionKey]) + 1
      /\ tx.updates[Counter] = NumberAt(kv[Counter]) + n
  BY <1>2 DEF TxSound
<1>4. /\ h \in Nat /\ NumberAt(kv[VersionKey]) \in Nat /\ NumberAt(kv[Counter]) \in Nat
      /\ kv \in [Keys -> Values] /\ Indices \subseteq Nat
  BY NumberFacts DEF IInv, TypeOK
<1>5. /\ DOMAIN updated = Keys /\ updated[HeadKey] = kv[HeadKey]
      /\ updated[TailKey] = kv[TailKey]
      /\ updated[VersionKey] = tx.updates[VersionKey]
      /\ updated[Counter] = tx.updates[Counter]
      /\ \A i \in Indices : updated[i] = kv[i]
      /\ \A k \in ClientKeys : updated[k] \in Nat \cup {NoValue}
  <2>1. DOMAIN tx.updates = ClientKeys
    BY <1>1 DEF Maps
  <2>2. \A k \in Keys : updated[k] =
          IF k \in ClientKeys /\ tx.updates[k] # Undefined THEN tx.updates[k] ELSE kv[k]
    BY <1>4, <2>1 DEF ApplyUpdates
  <2>3. tx.updates[VersionKey] # Undefined /\ tx.updates[Counter] # Undefined
    BY <1>1, <1>3, <1>4, MarkersAreDistinct
  <2>4. \A k \in ClientKeys : updated[k] \in Nat \cup {NoValue}
    BY <1>1, <2>2, KeyFacts DEF Maps, IInv, TypeOK
  <2>5. /\ updated[HeadKey] = kv[HeadKey] /\ updated[TailKey] = kv[TailKey]
        /\ \A i \in Indices : updated[i] = kv[i]
    BY <2>2, KeyFacts
  <2>6. updated[VersionKey] = tx.updates[VersionKey] /\ updated[Counter] = tx.updates[Counter]
    BY <2>2, <2>3, KeyFacts
  <2>7. DOMAIN updated = Keys
    BY <1>4 DEF ApplyUpdates
  <2>8. QED
    BY <2>4, <2>5, <2>6, <2>7
<1>6. store = PopTo(updated, tx.head) /\ QueueHead(updated) = h /\ tx.head # h
  <2>1. tx.head # Undefined
    BY DEF TxSound
  <2>2. tx.head # h
    BY <1>1, <1>3, <1>4
  <2>3. QED
    BY <1>5, <2>1, <2>2 DEF RollupResult, QueueHead
<1>7. store = [k \in Keys |-> IF k = HeadKey THEN tx.head
                              ELSE IF k \in h .. tx.head - 1 THEN NoValue
                              ELSE updated[k]]
  BY <1>5, <1>6 DEF PopTo
<1>8. \A i \in h .. tx.head - 1 : i \in Indices
  BY <1>1, <1>4, MaxIndexIsNat DEF Indices
<1>9. /\ store[HeadKey] = tx.head /\ store[TailKey] = kv[TailKey]
      /\ \A k \in ClientKeys : store[k] = updated[k]
  <2>1. store[HeadKey] = tx.head
    BY <1>7, KeyFacts
  <2>2. store[TailKey] = kv[TailKey]
    BY <1>5, <1>7, <1>8, KeyFacts
  <2>3. \A k \in ClientKeys : store[k] = updated[k]
    BY <1>7, <1>8, KeyFacts
  <2>4. QED
    BY <2>1, <2>2, <2>3
<1>10. ASSUME NEW i \in Indices
       PROVE  store[i] = IF h <= i /\ i < tx.head THEN NoValue ELSE kv[i]
  <2>1. i \in h .. tx.head - 1 <=> h <= i /\ i < tx.head
    BY <1>1, <1>4
  <2>2. i \in Keys /\ i # HeadKey /\ updated[i] = kv[i]
    BY <1>5, KeyFacts
  <2>3. QED
    BY <1>7, <2>1, <2>2
<1>11. store \in [Keys -> Values]
  <2>1. \A k \in Keys : updated[k] \in Values
    <3>1. \A k \in Keys \ ClientKeys : updated[k] = kv[k]
      BY <1>1, <1>4 DEF ApplyUpdates, Maps
    <3>2. QED
      BY <1>4, <1>5, <3>1 DEF Values
  <2>2. tx.head \in Values /\ NoValue \in Values
    BY <1>1, <1>4 DEF Values
  <2>3. QED
    BY <1>7, <2>1, <2>2
<1>12. /\ store[VersionKey] = NumberAt(kv[VersionKey]) + 1
       /\ store[Counter] = NumberAt(kv[Counter]) + n
       /\ \A k \in ClientKeys : store[k] \in Nat \cup {NoValue}
  BY <1>3, <1>5, <1>9, KeyFacts
<1>13. QED
  BY <1>1, <1>3, <1>9, <1>10, <1>11, <1>12

\* A transaction whose conditions or actions fail changes only the pool.
LEMMA RejectedStep ==
  ASSUME IInv, NEW w \in Workers, Include(w), ~RollupSucceeds(kv, Head(pool[w]))
  PROVE  IInv'
<1>1. /\ pool[w] # <<>> /\ pool' = [pool EXCEPT ![w] = Tail(pool[w])]
      /\ kv' = kv /\ pushed' = pushed /\ replies' = replies /\ directs' = directs
      /\ faults' = faults
      /\ EndRun(w) \/ UNCHANGED <<session, tailIndex, message, pc>>
  BY DEF Include, clientVars
<1>2. TypeOK'
  BY <1>1, OldestPending, EndRunStep DEF IInv, TypeOK
<1>3. ASSUME NEW v \in Workers PROVE SessionSound(v)'
  <2>1. CASE EndRun(w)
    BY <1>1, <2>1, EndRunStep, OtherSessions DEF IInv
  <2>2. CASE UNCHANGED <<session, tailIndex, message, pc>>
    BY <1>1, <2>2, OtherSessions
  <2>3. QED
    BY <1>1, <2>1, <2>2
<1>4. QED
  BY <1>1, <1>2, <1>3, OldestPending, PoolStep DEF contractVars

\* The executed transaction pops what it answers and counts it, and its new
\* version makes every other session and transaction stale.  The worker that
\* waits for it, if any, begins a new session.
LEMMA AppliedEffect ==
  ASSUME IInv, NEW tx \in Txs, TxSound(tx), RollupSucceeds(kv, tx),
         kv' = RollupResult(kv, tx), replies' = replies \o tx.replies,
         pushed' = pushed, directs' = directs, faults' = faults,
         pool' \in [Workers -> Seq(Txs)],
         \A v \in Workers : \A i \in DOMAIN pool'[v] : pool'[v][i] \in Txs /\ TxSound(pool'[v][i]),
         NEW w,
         \/ /\ w \in Workers /\ pc[w] = "inclusion"
            /\ session' = [session EXCEPT ![w] = NewSession]
            /\ pc' = [pc EXCEPT ![w] = "restart"]
            /\ tailIndex' = tailIndex /\ message' = message
         \/ UNCHANGED <<session, tailIndex, message, pc>>
  PROVE  IInv' /\ TxsStaySound
<1> DEFINE n == Len(tx.replies)
           h == QueueHead(kv)
           old == NumberAt(kv[VersionKey])
<1>1. /\ kv' = RollupResult(kv, tx) /\ replies' = replies \o tx.replies
      /\ pushed' = pushed /\ directs' = directs /\ faults' = faults
      /\ \/ /\ w \in Workers /\ pc[w] = "inclusion"
            /\ session' = [session EXCEPT ![w] = NewSession]
            /\ pc' = [pc EXCEPT ![w] = "restart"]
            /\ tailIndex' = tailIndex /\ message' = message
         \/ UNCHANGED <<session, tailIndex, message, pc>>
  OBVIOUS
<1>2. /\ tx \in Txs /\ TxSound(tx) /\ pool' \in [Workers -> Seq(Txs)]
      /\ \A v \in Workers : \A i \in DOMAIN pool'[v] :
           pool'[v][i] \in Txs /\ TxSound(pool'[v][i])
  OBVIOUS
<1>3. /\ kv' \in [Keys -> Values] /\ n \in Nat \ {0} /\ tx.head = h + n
      /\ tx.head <= QueueTail(kv) /\ AreRepliesTo(pushed, h, tx.replies)
      /\ kv'[VersionKey] = old + 1
      /\ kv'[Counter] = NumberAt(kv[Counter]) + n
      /\ kv'[HeadKey] = tx.head /\ kv'[TailKey] = kv[TailKey]
      /\ \A k \in ClientKeys : kv'[k] \in Nat \cup {NoValue}
      /\ \A i \in Indices :
           kv'[i] = IF h <= i /\ i < tx.head THEN NoValue ELSE kv[i]
  BY <1>1, <1>2, AppliedTx
<1>4. /\ h \in Nat /\ old \in Nat /\ NumberAt(kv[Counter]) \in Nat
      /\ QueueTail(kv) \in Nat /\ Indices \subseteq Nat /\ tx.head \in Indices
      /\ tx.replies \in Seq(Payload) /\ replies \in Seq(Payload)
      /\ h <= QueueTail(kv) /\ QueueTail(kv) = Len(pushed) /\ Len(replies) = h
  BY <1>2, NumberFacts
     DEF IInv, TypeOK, Txs, TxSound, QueueIntact, ExactlyOnceInOrder
<1>5. /\ QueueHead(kv') = h + n /\ QueueTail(kv') = QueueTail(kv)
      /\ NumberAt(kv'[VersionKey]) = old + 1
      /\ NumberAt(kv'[Counter]) = NumberAt(kv[Counter]) + n
  <2> HIDE DEF n
  <2>1. n \in Nat /\ h + n \in Nat /\ old + 1 \in Nat /\ NumberAt(kv[Counter]) + n \in Nat
    BY <1>3, <1>4
  <2>2. NoValue \notin Nat
    BY MarkersAreDistinct
  <2>3. QED
    BY <1>3, <2>1, <2>2 DEF QueueHead, QueueTail, NumberAt
<1>6. /\ replies' \in Seq(Payload) /\ Len(replies') = h + n
      /\ \A i \in 1 .. h + n :
           replies'[i] = IF i <= h THEN replies[i] ELSE tx.replies[i - h]
  <2>1. /\ replies \o tx.replies \in Seq(Payload)
        /\ Len(replies \o tx.replies) = Len(replies) + n
        /\ \A i \in 1 .. Len(replies) + n :
             (replies \o tx.replies)[i] =
               IF i <= Len(replies) THEN replies[i] ELSE tx.replies[i - Len(replies)]
    BY <1>4, ConcatProperties
  <2>2. Len(replies) = h /\ replies' = replies \o tx.replies
    BY <1>1, <1>4
  <2>3. QED
    BY <2>1, <2>2, Zenon
<1>7. TypeOK'
  <2>1. NewSession \in Sessions
    BY DEF NewSession, Sessions, EmptyMap, Maps
  <2>2. /\ session' \in [Workers -> Sessions] /\ pc' \in [Workers -> Locations]
        /\ tailIndex' = tailIndex /\ message' = message
    <3>1. session \in [Workers -> Sessions] /\ pc \in [Workers -> Locations]
      BY DEF IInv, TypeOK
    <3>2. QED
      BY <1>1, <2>1, <3>1 DEF Locations
  <2>3. \A k \in {HeadKey, TailKey} : kv'[k] \in Indices \cup {NoValue}
    BY <1>3, <1>4 DEF IInv, TypeOK
  <2>4. \A i \in Indices : kv'[i] \in Payload \cup {NoValue}
    BY <1>3 DEF IInv, TypeOK
  <2>5. QED
    BY <1>1, <1>2, <1>3, <1>6, <2>2, <2>3, <2>4 DEF IInv, TypeOK
<1>8. QueueIntact'
  <2>1. ASSUME NEW i \in Indices
        PROVE  kv'[i] = IF h + n <= i /\ i < QueueTail(kv) THEN pushed[i + 1] ELSE NoValue
    <3>1. kv[i] = IF h <= i /\ i < QueueTail(kv) THEN pushed[i + 1] ELSE NoValue
      BY DEF IInv, QueueIntact
    <3>2. kv'[i] = IF h <= i /\ i < h + n THEN NoValue ELSE kv[i]
      BY <1>3
    <3> HIDE DEF h, n, old
    <3>3. /\ i \in Nat /\ h \in Nat /\ h + n \in Nat /\ h + n <= QueueTail(kv)
          /\ h <= h + n /\ QueueTail(kv) \in Nat
      BY <1>3, <1>4
    <3>4. CASE h <= i /\ i < h + n
      BY <3>2, <3>3, <3>4
    <3>5. CASE h + n <= i
      <4>1. kv'[i] = kv[i] /\ h <= i
        BY <3>2, <3>3, <3>5
      <4>2. QED
        BY <3>1, <3>5, <4>1, Zenon
    <3>6. CASE i < h
      <4>1. ~(h <= i)
        BY <3>3, <3>6
      <4>2. ~(h + n <= i)
        BY <3>3, <3>6
      <4>3. QED
        BY <3>1, <3>2, <4>1, <4>2, Zenon
    <3>7. QED
      BY <3>3, <3>4, <3>5, <3>6
  <2>2. QED
    BY <1>1, <1>3, <1>4, <1>5, <2>1 DEF QueueIntact
<1>9. ExactlyOnceInOrder'
  <2>1. ASSUME NEW i \in 1 .. h + n PROVE replies'[i] = pushed[i]
    <3>1. CASE i <= h
      BY <1>4, <1>6, <3>1 DEF IInv, ExactlyOnceInOrder
    <3>2. CASE i > h
      <4>1. i - h \in 1 .. n /\ h + (i - h) = i
        <5>1. h \in Nat /\ n \in Nat
          BY <1>3, <1>4
        <5> HIDE DEF h, n
        <5>2. QED
          BY <3>2, <5>1
      <4>2. tx.replies[i - h] = pushed[i]
        BY <1>3, <4>1 DEF AreRepliesTo
      <4>3. replies'[i] = tx.replies[i - h]
        BY <1>4, <1>6, <3>2
      <4>4. QED
        BY <4>2, <4>3
    <3>3. QED
      BY <1>4, <3>1, <3>2
  <2>2. QED
    BY <1>1, <1>3, <1>4, <1>5, <1>6, <2>1 DEF ExactlyOnceInOrder
<1>10. NoLostUpdate'
  <2>1. NumberAt(kv[Counter]) = Len(replies) + directs /\ directs \in Nat
    BY DEF IInv, NoLostUpdate, TypeOK
  <2>2. Len(replies') = Len(replies) + n /\ Len(replies) \in Nat /\ n \in Nat
    BY <1>3, <1>4, <1>6
  <2>3. NumberAt(kv'[Counter]) = Len(replies) + directs + n
    BY <1>5, <2>1
  <2>4. NumberAt(kv'[Counter]) = Len(replies') + directs'
    <3>1. directs' = directs
      BY <1>1
    <3> HIDE DEF n
    <3>2. QED
      BY <2>1, <2>2, <2>3, <3>1
  <2>5. QED
    BY <2>4 DEF NoLostUpdate
\* No version that was read before is the new one.
<1>11. ASSUME NEW v \in Nat \cup {NoValue, Undefined}, v # Undefined, NumberAt(v) <= old
       PROVE  v # kv'[VersionKey] /\ NumberAt(v) <= NumberAt(kv'[VersionKey])
  <2>1. NumberAt(v) \in Nat
    BY <1>11 DEF NumberAt
  <2>2. NumberAt(v) # NumberAt(kv'[VersionKey]) /\ NumberAt(v) <= NumberAt(kv'[VersionKey])
    BY <1>4, <1>5, <1>11, <2>1
  <2>3. QED
    BY <2>2
<1>12. ASSUME NEW v \in Workers PROVE SessionSound(v)'
  <2> DEFINE s == session[v]
  <2>1. CASE session'[v] = NewSession /\ pc'[v] = "restart" /\ message'[v] = Undefined
    <3>1. kv'[VersionKey] # Undefined
      BY <1>3, <1>4, MarkersAreDistinct
    <3>2. QED
      BY <2>1, <3>1, KeyFacts
         DEF SessionSound, BookkeepingSound, SnapshotSound, Polled, NewSession, EmptyMap
  <2>2. CASE session'[v] = s /\ pc'[v] = pc[v]
    <3>1. /\ BookkeepingSound(s, message[v], pc[v], tailIndex[v], kv)
          /\ s.version \in Nat \cup {NoValue, Undefined}
      BY WorkerFacts DEF Sessions
    <3>2. s.version # kv'[VersionKey]
      <4>1. CASE pc[v] \in {"idle", "version", "restart"}
        <5>1. s.version = Undefined
          BY <3>1, <4>1 DEF BookkeepingSound, NewSession
        <5>2. QED
          BY <1>3, <1>4, <5>1, MarkersAreDistinct
      <4>2. CASE pc[v] \notin {"idle", "version", "restart"}
        <5>1. s.version # Undefined /\ NumberAt(s.version) <= old
          BY <3>1, <4>2 DEF BookkeepingSound
        <5>2. QED
          BY <1>11, <3>1, <5>1
      <4>3. QED
        BY <4>1, <4>2
    <3>3. SnapshotSound(s, message[v], kv', pushed)
      BY <3>2 DEF SnapshotSound
    <3>4. ASSUME s.version # Undefined, NumberAt(s.version) <= old
          PROVE  NumberAt(s.version) <= NumberAt(kv'[VersionKey])
      BY <1>11, <3>1, <3>4
    <3>5. BookkeepingSound(s, message[v], pc[v], tailIndex[v], kv')
      BY <1>5, <3>1, <3>4, Zenon DEF BookkeepingSound
    <3>6. QED
      BY <1>1, <2>2, <3>3, <3>5 DEF SessionSound
  <2>3. QED
    <3>1. w \in Workers /\ pc[w] = "inclusion" => message[w] = Undefined
      BY WorkerFacts DEF BookkeepingSound
    <3>2. \/ session'[v] = NewSession /\ pc'[v] = "restart" /\ message'[v] = Undefined
          \/ session'[v] = s /\ pc'[v] = pc[v]
      BY <1>1, <3>1, WorkerFacts
    <3>3. QED
      BY <2>1, <2>2, <3>2
<1>13. ASSUME NEW t \in Txs, TxSound(t) PROVE TxSound(t)'
  <2>1. /\ TxSound(t) /\ t.conditions[VersionKey] \in Nat \cup {NoValue, Undefined}
    BY <1>13, KeyFacts DEF Txs, Maps
  <2>2. /\ t.conditions[VersionKey] # kv'[VersionKey]
        /\ NumberAt(t.conditions[VersionKey]) <= NumberAt(kv'[VersionKey])
    BY <1>11, <2>1 DEF TxSound
  <2>3. QED
    BY <2>1, <2>2 DEF TxSound
<1>14. ASSUME NEW v \in Workers, NEW i \in DOMAIN pool'[v] PROVE TxSound(pool[v][i])'
  BY <1>2, <1>13, <1>14
<1>15. QED
  BY <1>7, <1>8, <1>9, <1>10, <1>12, <1>13, <1>14 DEF IInv, ClientsSound, TxsStaySound

LEMMA AppliedStep ==
  ASSUME IInv, NEW w \in Workers, Include(w), RollupSucceeds(kv, Head(pool[w]))
  PROVE  IInv' /\ TxsStaySound
<1>1. /\ pool[w] # <<>> /\ pool' = [pool EXCEPT ![w] = Tail(pool[w])]
      /\ kv' = RollupResult(kv, Head(pool[w])) /\ replies' = replies \o Head(pool[w]).replies
      /\ pushed' = pushed /\ directs' = directs /\ faults' = faults
      /\ \/ /\ pc[w] = "inclusion" /\ session' = [session EXCEPT ![w] = NewSession]
            /\ pc' = [pc EXCEPT ![w] = "restart"]
            /\ tailIndex' = tailIndex /\ message' = message
         \/ UNCHANGED <<session, tailIndex, message, pc>>
  BY DEF Include, AwaitsOldest, clientVars, GoTo
<1>2. /\ Head(pool[w]) \in Txs /\ TxSound(Head(pool[w])) /\ pool' \in [Workers -> Seq(Txs)]
      /\ \A v \in Workers : \A i \in DOMAIN pool'[v] :
           pool'[v][i] \in Txs /\ TxSound(pool'[v][i])
  BY <1>1, OldestPending
<1>3. QED
  BY <1>1, <1>2, AppliedEffect

\* A stuttering step changes nothing.
LEMMA StutterStep ==
  ASSUME IInv, UNCHANGED vars
  PROVE  IInv'
<1>1. /\ kv' = kv /\ pushed' = pushed /\ replies' = replies /\ directs' = directs
      /\ session' = session /\ tailIndex' = tailIndex /\ message' = message
      /\ pool' = pool /\ pc' = pc /\ faults' = faults
  BY DEF vars, contractVars, clientVars
<1>2. TypeOK'
  BY <1>1 DEF IInv, TypeOK
<1>3. ASSUME NEW v \in Workers PROVE SessionSound(v)'
  BY <1>1, OtherSessions
<1>4. ASSUME NEW v \in Workers, NEW i \in DOMAIN pool'[v] PROVE TxSound(pool'[v][i])
  BY <1>1 DEF IInv, ClientsSound
<1>5. QED
  BY <1>1, <1>2, <1>3, <1>4, PoolStep DEF contractVars

\* Every step keeps the inductive invariant.
LEMMA NextStep == IInv /\ [Next]_vars => IInv'
<1> SUFFICES ASSUME IInv, [Next]_vars PROVE IInv'
  OBVIOUS
<1>1. ASSUME NEW w \in Workers, WorkerStep(w) PROVE IInv'
  BY <1>1, StutterStep, StartSessionStep, ReadVersionStep, ReadTailStep, ReadHeadStep,
     ReadMessageStep, ReadCounterStep, RespondStep, CommitStep, SubmitStep
     DEF WorkerStep, SessionStep
<1>2. ASSUME NEW w \in Workers, Include(w) PROVE IInv'
  BY <1>2, AppliedStep, RejectedStep
<1>3. ASSUME NEW w \in Workers, Abort(w) \/ Drop(w) PROVE IInv'
  BY <1>3, AbortStep, DropStep
<1>4. ASSUME NEW m \in Payload, Push(m) PROVE IInv'
  BY <1>4, PushStep
<1>5. CASE DirectUpdate
  BY <1>5, DirectUpdateStep
<1>6. CASE UNCHANGED vars
  BY <1>6, StutterStep
<1>7. QED
  BY <1>1, <1>2, <1>3, <1>4, <1>5, <1>6 DEF Next

-----------------------------------------------------------------------------
\* Every reachable state satisfies the inductive invariant: the bookkeeping of
\* client.ts and the conditions of rollup_cond_eq keep each session and each
\* pending transaction consistent with the contract.
THEOREM Invariance == Spec => []IInv
<1>1. Init => IInv
  BY InitIInv
<1>2. IInv /\ [Next]_vars => IInv'
  BY NextStep
<1>3. QED
  BY <1>1, <1>2, PTL DEF Spec

\* The storage, the sessions and the transactions keep their types; no index
\* overflows QueueIndex.
THEOREM TypeCorrectness == Spec => []TypeOK
<1>1. IInv => TypeOK
  BY DEF IInv
<1>2. QED
  BY <1>1, Invariance, PTL

\* However many workers run, whatever is lost or late, each popped message got
\* exactly one reply and the queue still holds all the others.
THEOREM ExactlyOnce == Spec => [](ExactlyOnceInOrder /\ QueueIntact)
<1>1. IInv => ExactlyOnceInOrder /\ QueueIntact
  BY DEF IInv
<1>2. QED
  BY <1>1, Invariance, PTL

\* pop_to removes the messages it pops and no other, and push_message puts each
\* message at the tail, whatever the transactions between them.
THEOREM QueueIntegrity == Spec => []QueueIntact
<1>1. IInv => QueueIntact
  BY DEF IInv
<1>2. QED
  BY <1>1, Invariance, PTL

\* While nobody has moved the version, what a session or a pending transaction
\* holds agrees with the contract, although it was read piece by piece.
THEOREM SoundClients == Spec => []ClientsSound
<1>1. IInv => ClientsSound
  BY DEF IInv
<1>2. QED
  BY <1>1, Invariance, PTL

\* The optimistic locking of getNumber and setNumber loses no increment, even
\* one of an attestor that does not touch the version number.
THEOREM Counting == Spec => []NoLostUpdate
<1>1. IInv => NoLostUpdate
  BY DEF IInv
<1>2. QED
  BY <1>1, Invariance, PTL

\* A pending transaction that could still be applied answers the oldest
\* messages, although the head and the tail are not among its conditions.
THEOREM InFlight == Spec => []InFlightSound
<1>1. ASSUME IInv PROVE InFlightSound
  <2> SUFFICES ASSUME NEW w \in Workers, NEW i \in DOMAIN pool[w],
                      ConditionsMet(kv, pool[w][i].conditions)
               PROVE  LET tx == pool[w][i]
                      IN  /\ QueueHead(kv) < tx.head /\ tx.head <= QueueTail(kv)
                          /\ tx.head = QueueHead(kv) + Len(tx.replies)
                          /\ AreRepliesTo(pushed, QueueHead(kv), tx.replies)
                          /\ tx.updates[Counter] = NumberAt(kv[Counter]) + Len(tx.replies)
    BY DEF InFlightSound
  <2> DEFINE tx == pool[w][i]
  <2>1. tx \in Txs /\ TxSound(tx)
    BY <1>1, ElementOfSeq, LenProperties DEF IInv, TypeOK, ClientsSound
  <2>2. /\ kv[VersionKey] = tx.conditions[VersionKey]
        /\ kv[Counter] = tx.conditions[Counter]
    BY <2>1, KeyFacts DEF ConditionsMet, TxSound, Txs, Maps
  <2>3. Len(tx.replies) \in Nat /\ QueueHead(kv) \in Nat
    BY <1>1, <2>1, NumberFacts, LenProperties DEF IInv, Txs
  <2>4. QED
    BY <2>1, <2>2, <2>3 DEF TxSound
<1>2. QED
  BY <1>1, Invariance, PTL

\* Only an executed transaction moves the head, and then no transaction that
\* is still pending, of any worker or run, can meet its conditions.
LEMMA FencedStep ==
  ASSUME IInv, [Next]_vars, kv[HeadKey] # kv'[HeadKey],
         NEW v \in Workers, NEW i \in DOMAIN pool'[v]
  PROVE  ~ConditionsMet(kv', pool'[v][i].conditions)
<1>1. \A w \in Workers : WorkerStep(w) \/ Abort(w) \/ Drop(w) => kv' = kv
  BY DEF WorkerStep, SessionStep, StartSession, ReadVersion, ReadTail, ReadHead, ReadMessage,
         ReadCounter, Respond, Commit, Submit, Abort, Drop, vars, contractVars
<1>2. \A m \in Payload : Push(m) => kv'[HeadKey] = kv[HeadKey]
  <2>1. QueueTail(kv) # HeadKey
    BY NumberFacts, KeyFacts DEF IInv
  <2>2. QED
    BY <2>1, KeyFacts DEF Push, PushMessage, IInv, TypeOK
<1>3. DirectUpdate => kv'[HeadKey] = kv[HeadKey]
  BY KeyFacts DEF DirectUpdate, IInv, TypeOK
<1>4. PICK w \in Workers : Include(w) /\ RollupSucceeds(kv, Head(pool[w]))
  <2>1. Next
    BY DEF vars, contractVars
  <2>2. \A w \in Workers : Include(w) /\ ~RollupSucceeds(kv, Head(pool[w])) => kv' = kv
    BY DEF Include
  <2>3. QED
    BY <1>1, <1>2, <1>3, <2>1, <2>2 DEF Next
<1>5. pool[w] # <<>> /\ kv' = RollupResult(kv, Head(pool[w])) /\ pool' = [pool EXCEPT ![w] = Tail(pool[w])]
  BY <1>4 DEF Include
<1>6. kv'[VersionKey] = NumberAt(kv[VersionKey]) + 1
  BY <1>4, <1>5, OldestPending, AppliedTx
<1>7. pool'[v][i] \in Txs /\ TxSound(pool'[v][i])
  BY <1>5, OldestPending
<1>8. pool'[v][i].conditions[VersionKey] # kv'[VersionKey]
  <2> DEFINE c == pool'[v][i].conditions[VersionKey]
  <2>1. /\ c \in Nat \cup {NoValue, Undefined} /\ c # Undefined
        /\ NumberAt(c) <= NumberAt(kv[VersionKey]) /\ NumberAt(kv[VersionKey]) \in Nat
    BY <1>7, KeyFacts, NumberFacts DEF TxSound, Txs, Maps, IInv
  <2> HIDE DEF c
  <2>2. CASE c \in Nat
    <3>1. NumberAt(c) = c
      BY <2>2, MarkersAreDistinct DEF NumberAt
    <3>2. c # NumberAt(kv[VersionKey]) + 1
      BY <2>1, <2>2, <3>1
    <3>3. QED
      BY <1>6, <3>2 DEF c
  <2>3. CASE c = NoValue
    BY <1>6, <2>1, <2>3, MarkersAreDistinct DEF c
  <2>4. QED
    BY <2>1, <2>2, <2>3
<1>9. QED
  BY <1>7, <1>8, KeyFacts DEF ConditionsMet, TxSound, Txs, Maps

\* Of several workers that answered the same messages one wins: the commit
\* that pops them fences every transaction still pending.
THEOREM Fencing == Spec => RivalsFenced
<1>1. ASSUME IInv, [Next]_vars
      PROVE  [kv[HeadKey] # kv'[HeadKey] =>
                \A w \in Workers : \A i \in DOMAIN pool'[w] :
                  ~ConditionsMet(kv', pool'[w][i].conditions)]_vars
  BY <1>1, FencedStep
<1>2. QED
  BY <1>1, Invariance, PTL DEF Spec, RivalsFenced

-----------------------------------------------------------------------------
(* OffchainRollup implements ExactlyOnceQueue: every step of a worker, the  *)
(* chain or a user is a step of the abstract queue, or none.                *)

\* The values stored from index h up to index q, as a sequence.
Slice(store, h, q) == [i \in 1 .. q - h |-> store[h + i - 1]]

\* The abstract queue: what the storage holds from the head to the tail.
Waiting == Slice(kv, QueueHead(kv), QueueTail(kv))

\* What waits is what was pushed from the head on.
WaitingIntact ==
  /\ Waiting \in Seq(Payload) /\ pushed \in Seq(Payload) /\ replies \in Seq(Payload)
  /\ QueueHead(kv) \in Nat /\ QueueTail(kv) \in Nat
  /\ QueueHead(kv) <= QueueTail(kv) /\ QueueTail(kv) = Len(pushed)
  /\ Len(Waiting) = QueueTail(kv) - QueueHead(kv)
  /\ \A i \in 1 .. QueueTail(kv) - QueueHead(kv) :
       Waiting[i] = pushed[QueueHead(kv) + i]

\* A function on 1 .. n is a sequence of length n.
LEMMA FunctionIsSeq ==
  ASSUME NEW n \in Nat, NEW f \in [1 .. n -> Payload]
  PROVE  f \in Seq(Payload) /\ Len(f) = n
<1>1. f \in Seq(Payload)
  BY SeqDef
<1>2. 1 .. Len(f) = 1 .. n /\ Len(f) \in Nat
  BY <1>1, LenProperties
<1>3. \A a, b \in Nat : 1 .. a = 1 .. b => a = b
  <2>1. \A a, b \in Nat : 1 .. a = 1 .. b => ~(a < b)
    <3>1. SUFFICES ASSUME NEW a \in Nat, NEW b \in Nat, 1 .. a = 1 .. b, a < b
                   PROVE  FALSE
      OBVIOUS
    <3>2. b \in 1 .. b /\ b \notin 1 .. a
      BY <3>1
    <3>3. QED
      BY <3>1, <3>2
  <2>2. QED
    BY <2>1
<1>4. QED
  BY <1>1, <1>2, <1>3

\* What waits is intact while the invariant holds.
LEMMA WaitingFacts == IInv => WaitingIntact
<1> SUFFICES ASSUME IInv PROVE WaitingIntact
  OBVIOUS
<1> DEFINE h == QueueHead(kv)
           q == QueueTail(kv)
<1>1. /\ h \in Nat /\ q \in Nat /\ h <= q /\ q = Len(pushed) /\ q \in Indices
      /\ pushed \in Seq(Payload) /\ replies \in Seq(Payload)
  BY NumberFacts DEF IInv, TypeOK, QueueIntact
<1>2. ASSUME NEW i \in h .. q - 1 PROVE kv[i] = pushed[i + 1]
  <2>1. i \in Indices /\ h <= i /\ i < q
    BY <1>1, MaxIndexIsNat DEF Indices
  <2>2. QED
    BY <2>1 DEF IInv, QueueIntact
<1> HIDE DEF h, q
<1>3. ASSUME NEW i \in 1 .. q - h
      PROVE  kv[h + i - 1] = pushed[h + i] /\ pushed[h + i] \in Payload
  <2>1. h + i - 1 \in h .. q - 1 /\ (h + i - 1) + 1 = h + i /\ h + i \in 1 .. q
    BY <1>1
  <2>2. kv[h + i - 1] = pushed[h + i]
    BY <1>2, <2>1
  <2>3. pushed[h + i] \in Payload
    BY <1>1, <2>1, ElementOfSeq
  <2>4. QED
    BY <2>2, <2>3
<1>4. /\ Slice(kv, h, q) \in [1 .. q - h -> Payload] /\ q - h \in Nat
      /\ \A i \in 1 .. q - h : Slice(kv, h, q)[i] = pushed[h + i]
  BY <1>1, <1>3 DEF Slice
<1>5. Slice(kv, h, q) \in Seq(Payload) /\ Len(Slice(kv, h, q)) = q - h
  BY <1>4, FunctionIsSeq
<1>6. QED
  BY <1>1, <1>4, <1>5 DEF WaitingIntact, Waiting, h, q

\* The mapping of the module is the sequence of this one.
LEMMA PendingIsWaiting ==
  Waiting = [i \in 1 .. QueueTail(kv) - QueueHead(kv) |-> kv[QueueHead(kv) + i - 1]]
BY DEF Waiting, Slice

\* The contract starts as the empty abstract queue.
LEMMA InitImplements == Init => Promise!Init
<1> SUFFICES ASSUME Init PROVE Promise!Init
  OBVIOUS
<1>1. QueueHead(kv) = 0 /\ QueueTail(kv) = 0 /\ NumberAt(kv[Counter]) = 0
  BY KeyFacts DEF Init, QueueHead, QueueTail, NumberAt
<1>2. Waiting = <<>>
  <2>1. IInv
    BY InitIInv
  <2>2. WaitingIntact
    BY <2>1, WaitingFacts
  <2>3. Waiting \in Seq(Payload) /\ Len(Waiting) = 0
    BY <1>1, <2>2 DEF WaitingIntact
  <2>4. QED
    BY <2>3, EmptySeq
<1>3. replies = <<>>
  BY DEF Init
<1>4. QED
  BY <1>1, <1>2, <1>3, PendingIsWaiting DEF Promise!Init

\* A push is the abstract question.
LEMMA PushImplements ==
  ASSUME IInv, IInv', WaitingIntact, WaitingIntact', NEW m \in Payload, Push(m)
  PROVE  Waiting' = Append(Waiting, m) /\ replies' = replies /\ kv'[Counter] = kv[Counter]
<1> DEFINE h == QueueHead(kv)
           q == QueueTail(kv)
<1>1. /\ kv' = [kv EXCEPT ![q] = m, ![TailKey] = q + 1]
      /\ pushed' = Append(pushed, m) /\ replies' = replies
  BY DEF Push, PushMessage
<1>2. /\ q \in Indices /\ kv \in [Keys -> Values]
  BY NumberFacts DEF IInv, TypeOK
<1>3. kv'[HeadKey] = kv[HeadKey] /\ kv'[Counter] = kv[Counter]
  BY <1>1, <1>2, KeyFacts
<1>4. QueueHead(kv') = h /\ QueueTail(kv') = q + 1
  <2>1. QueueHead(kv') = h
    BY <1>3 DEF QueueHead
  <2>2. pushed \in Seq(Payload) /\ q = Len(pushed) /\ QueueTail(kv') = Len(pushed')
    BY DEF WaitingIntact
  <2>3. QED
    BY <1>1, <2>1, <2>2, AppendProperties
<1>5. /\ Waiting \in Seq(Payload) /\ Waiting' \in Seq(Payload)
      /\ Len(Waiting) = q - h /\ Len(Waiting') = q + 1 - h
      /\ h \in Nat /\ q \in Nat /\ h <= q /\ q = Len(pushed) /\ pushed \in Seq(Payload)
      /\ \A i \in 1 .. q - h : Waiting[i] = pushed[h + i]
      /\ \A i \in 1 .. q + 1 - h : Waiting'[i] = pushed'[h + i]
  <2>1. /\ Waiting \in Seq(Payload) /\ Len(Waiting) = q - h
        /\ h \in Nat /\ q \in Nat /\ h <= q /\ q = Len(pushed) /\ pushed \in Seq(Payload)
        /\ \A i \in 1 .. q - h : Waiting[i] = pushed[h + i]
    BY DEF WaitingIntact
  <2>2. /\ Waiting' \in Seq(Payload) /\ Len(Waiting') = QueueTail(kv') - QueueHead(kv')
        /\ \A i \in 1 .. QueueTail(kv') - QueueHead(kv') :
             Waiting'[i] = pushed'[QueueHead(kv') + i]
    BY DEF WaitingIntact
  <2> HIDE DEF h, q
  <2>3. QED
    BY <1>4, <2>1, <2>2
<1>6. /\ Append(Waiting, m) \in Seq(Payload)
      /\ Len(Append(Waiting, m)) = q - h + 1
      /\ \A i \in 1 .. q - h : Append(Waiting, m)[i] = Waiting[i]
      /\ Append(Waiting, m)[q - h + 1] = m
      /\ pushed'[q + 1] = m
      /\ \A i \in 1 .. q : pushed'[i] = pushed[i]
  BY <1>1, <1>5, AppendProperties
<1> HIDE DEF h, q
<1>7. ASSUME NEW i \in 1 .. q - h + 1 PROVE Waiting'[i] = Append(Waiting, m)[i]
  <2>1. CASE i = q - h + 1
    <3>1. h + i = q + 1 /\ i \in 1 .. q + 1 - h
      BY <1>5, <2>1
    <3>2. QED
      BY <1>5, <1>6, <2>1, <3>1
  <2>2. CASE i # q - h + 1
    <3>1. h \in Nat /\ q \in Nat /\ h <= q
      BY <1>5
    <3>2. i \in 1 .. q - h /\ i \in 1 .. q + 1 - h /\ h + i \in 1 .. q
      BY <2>2, <3>1
    <3>3. QED
      BY <1>5, <1>6, <3>2
  <2>3. QED
    BY <2>1, <2>2
<1>8. Waiting' = Append(Waiting, m)
  <2>1. Len(Waiting') = q - h + 1
    BY <1>5
  <2>2. QED
    BY <1>5, <1>6, <1>7, <2>1, SeqEqual, Zenon
<1>9. QED
  BY <1>1, <1>3, <1>8

\* An executed transaction is the abstract answer to as many of the oldest
\* messages as it carries replies.
LEMMA AnswerImplements ==
  ASSUME IInv, WaitingIntact, WaitingIntact', NEW tx \in Txs, TxSound(tx),
         RollupSucceeds(kv, tx), kv' = RollupResult(kv, tx),
         replies' = replies \o tx.replies, pushed' = pushed
  PROVE  [Promise!Next]_(Promise!vars)
<1> DEFINE n == Len(tx.replies)
           h == QueueHead(kv)
           q == QueueTail(kv)
<1>1. /\ kv' = RollupResult(kv, tx) /\ replies' = replies \o tx.replies
      /\ pushed' = pushed
  OBVIOUS
<1>2. tx \in Txs /\ TxSound(tx)
  OBVIOUS
<1>3. /\ n \in Nat \ {0} /\ tx.head = h + n /\ tx.head <= q
      /\ AreRepliesTo(pushed, h, tx.replies)
      /\ kv'[Counter] = NumberAt(kv[Counter]) + n
      /\ kv'[HeadKey] = tx.head /\ kv'[TailKey] = kv[TailKey]
      /\ tx.replies \in Seq(Payload)
      /\ h \in Nat /\ NumberAt(kv[Counter]) \in Nat
  BY <1>1, <1>2, AppliedTx, NumberFacts DEF Txs, IInv
<1>4. /\ QueueHead(kv') = h + n /\ QueueTail(kv') = q
      /\ NumberAt(kv'[Counter]) = NumberAt(kv[Counter]) + n
  <2> HIDE DEF n, h
  <2>1. h + n \in Nat /\ NumberAt(kv[Counter]) + n \in Nat /\ NoValue \notin Nat
    BY <1>3, MarkersAreDistinct
  <2>2. QED
    BY <1>3, <2>1 DEF QueueHead, QueueTail, NumberAt, q
<1>5. /\ Waiting \in Seq(Payload) /\ Waiting' \in Seq(Payload)
      /\ Len(Waiting) = q - h /\ Len(Waiting') = q - (h + n)
      /\ q \in Nat /\ h + n <= q
      /\ \A i \in 1 .. q - h : Waiting[i] = pushed[h + i]
      /\ \A i \in 1 .. q - (h + n) : Waiting'[i] = pushed[(h + n) + i]
  BY <1>1, <1>3, <1>4 DEF WaitingIntact
<1> HIDE DEF n, h, q
<1>6. n \in 1 .. Len(Waiting) /\ Len(tx.replies) = n
  <2>1. n \in 1 .. q - h
    BY <1>3, <1>5
  <2>2. QED
    BY <1>5, <2>1 DEF n
<1>7. replies' = replies \o SubSeq(Waiting, 1, n)
  <2>1. \A i \in 1 .. n : Waiting[i] \in Payload
    BY <1>3, <1>5, <1>6, ElementOfSeq
  <2>2. /\ SubSeq(Waiting, 1, n) \in Seq(Payload) /\ Len(SubSeq(Waiting, 1, n)) = n
        /\ \A i \in 1 .. n : SubSeq(Waiting, 1, n)[i] = Waiting[i]
    BY <1>3, <2>1, SubSeqProperties
  <2>3. ASSUME NEW i \in 1 .. n PROVE SubSeq(Waiting, 1, n)[i] = tx.replies[i]
    <3>1. i \in 1 .. q - h
      BY <1>3, <1>5
    <3>2. Waiting[i] = pushed[h + i] /\ tx.replies[i] = pushed[h + i]
      BY <1>3, <1>5, <1>6, <3>1 DEF AreRepliesTo
    <3>3. QED
      BY <2>2, <3>2
  <2>4. SubSeq(Waiting, 1, n) = tx.replies
    BY <1>3, <1>6, <2>2, <2>3, SeqEqual
  <2>5. QED
    BY <1>1, <2>4
<1>8. Waiting' = SubSeq(Waiting, n + 1, Len(Waiting))
  <2> DEFINE rest == SubSeq(Waiting, n + 1, q - h)
  <2>1. \A i \in n + 1 .. q - h : Waiting[i] \in Payload
    BY <1>3, <1>5, ElementOfSeq
  <2>2. /\ rest \in Seq(Payload)
        /\ Len(rest) = IF n + 1 <= q - h THEN (q - h) - (n + 1) + 1 ELSE 0
        /\ \A i \in 1 .. (q - h) - (n + 1) + 1 : rest[i] = Waiting[n + 1 + i - 1]
    <3>1. n + 1 \in Int /\ q - h \in Int
      BY <1>3, <1>5
    <3>2. QED
      BY <2>1, <3>1, SubSeqProperties
  <2> HIDE DEF rest
  <2>3. Len(rest) = q - (h + n)
    BY <1>3, <1>5, <2>2
  <2>4. ASSUME NEW i \in 1 .. q - (h + n) PROVE Waiting'[i] = rest[i]
    <3>1. /\ i \in 1 .. (q - h) - (n + 1) + 1 /\ n + 1 + i - 1 = n + i
          /\ n + i \in 1 .. q - h /\ (h + n) + i = h + (n + i)
      BY <1>3, <1>5
    <3>2. rest[i] = Waiting[n + i] /\ Waiting[n + i] = pushed[h + (n + i)]
      BY <1>5, <2>2, <3>1
    <3>3. QED
      BY <1>5, <3>1, <3>2
  <2>5. Waiting' = rest
    BY <1>5, <2>2, <2>3, <2>4, SeqEqual, Zenon
  <2>6. QED
    BY <1>5, <2>5 DEF rest
<1>9. Waiting' = [i \in 1 .. QueueTail(kv) - QueueHead(kv) |-> kv[QueueHead(kv) + i - 1]]'
  BY DEF Waiting, Slice
<1>10. n <= Len(Waiting)
  BY <1>6 DEF WaitingIntact
<1>11. Promise!Answer(n)
  BY <1>4, <1>7, <1>8, <1>9, <1>10, PendingIsWaiting, Zenon DEF Promise!Answer
<1>12. QED
  BY <1>6, <1>11, PendingIsWaiting DEF Promise!Next

\* Every other step leaves the abstract state alone, or is an abstract Add.
LEMMA StepImplements ==
  ASSUME IInv, IInv', WaitingIntact, WaitingIntact', [Next]_vars
  PROVE  [Promise!Next]_(Promise!vars)
<1>1. Waiting' = [i \in 1 .. QueueTail(kv) - QueueHead(kv) |-> kv[QueueHead(kv) + i - 1]]'
  BY DEF Waiting, Slice
<1>2. ASSUME kv' = kv, replies' = replies PROVE UNCHANGED Promise!vars
  BY <1>2 DEF Promise!vars
<1>3. ASSUME NEW w \in Workers, WorkerStep(w) \/ Abort(w) \/ Drop(w)
      PROVE  UNCHANGED Promise!vars
  <2>1. kv' = kv /\ replies' = replies
    BY <1>3 DEF WorkerStep, SessionStep, StartSession, ReadVersion, ReadTail, ReadHead,
       ReadMessage, ReadCounter, Respond, Commit, Submit, Abort, Drop, vars, contractVars
  <2>2. QED
    BY <1>2, <2>1
<1>4. ASSUME NEW w \in Workers, Include(w) PROVE [Promise!Next]_(Promise!vars)
  <2>1. CASE RollupSucceeds(kv, Head(pool[w]))
    BY <1>4, <2>1, OldestPending, AnswerImplements DEF Include
  <2>2. CASE ~RollupSucceeds(kv, Head(pool[w]))
    BY <1>2, <1>4, <2>2 DEF Include
  <2>3. QED
    BY <2>1, <2>2
<1>5. ASSUME NEW m \in Payload, Push(m) PROVE [Promise!Next]_(Promise!vars)
  <2>1. Waiting' = Append(Waiting, m) /\ replies' = replies /\ kv'[Counter] = kv[Counter]
    BY <1>5, PushImplements
  <2>2. Promise!Ask(m)
    BY <1>1, <2>1, PendingIsWaiting DEF Promise!Ask
  <2>3. QED
    BY <2>2 DEF Promise!Next
<1>6. CASE DirectUpdate
  <2>1. /\ kv' = [kv EXCEPT ![Counter] = NumberAt(kv[Counter]) + 1] /\ replies' = replies
        /\ NumberAt(kv[Counter]) + 1 \in Nat /\ kv \in [Keys -> Values]
    BY <1>6, NumberFacts DEF DirectUpdate, IInv, TypeOK
  <2>2. /\ kv'[Counter] = NumberAt(kv[Counter]) + 1
        /\ QueueHead(kv') = QueueHead(kv) /\ QueueTail(kv') = QueueTail(kv)
        /\ \A i \in Indices : kv'[i] = kv[i]
    BY <2>1, KeyFacts DEF QueueHead, QueueTail
  <2>3. NumberAt(kv'[Counter]) = NumberAt(kv[Counter]) + 1
    BY <2>1, <2>2, MarkersAreDistinct DEF NumberAt
  <2>4. Waiting' = Waiting
    <3>1. pushed' = pushed
      BY <1>6 DEF DirectUpdate
    <3>2. /\ Len(Waiting') = Len(Waiting)
          /\ \A i \in 1 .. Len(Waiting) : Waiting'[i] = Waiting[i]
          /\ Waiting \in Seq(Payload) /\ Waiting' \in Seq(Payload)
      BY <2>2, <3>1 DEF WaitingIntact
    <3>3. QED
      BY <3>2, SeqEqual
  <2>5. Promise!Add
    BY <1>1, <2>1, <2>3, <2>4, PendingIsWaiting DEF Promise!Add
  <2>6. QED
    BY <2>5 DEF Promise!Next
<1>7. CASE UNCHANGED vars
  BY <1>2, <1>7 DEF vars, contractVars
<1>8. QED
  BY <1>3, <1>4, <1>5, <1>6, <1>7 DEF Next

\* The whole system, with its races, faults and retries, is the queue that
\* answers some of the oldest messages in one atomic step.
THEOREM Refinement == Spec => ImplementsPromise
<1>1. Init => Promise!Init
  BY InitImplements
<1>2. IInv => WaitingIntact
  BY WaitingFacts
<1>3. IInv /\ IInv' /\ WaitingIntact /\ WaitingIntact' /\ [Next]_vars
        => [Promise!Next]_(Promise!vars)
  BY StepImplements
<1>4. QED
  BY <1>1, <1>2, <1>3, Invariance, PTL DEF Spec, ImplementsPromise, Promise!Spec
=============================================================================
