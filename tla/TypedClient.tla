------------------------------ MODULE TypedClient ------------------------------
(***************************************************************************)
(* The typed interface of the Client: getters, setters, the queue, commit   *)
(* and rollback, down to the bytes that the client and the contract write   *)
(* for each other.  Each edition has its encodings: ink writes SCALE, with  *)
(* little-endian numbers of the size of their type; evm writes words of 32  *)
(* bytes, and takes an empty value for an absent one.                       *)
(*                                                                         *)
(* Several clients, with sessions that the application may drop or commit   *)
(* at any time, share a contract.  A call is one step: what happens between *)
(* the awaits of a call is the matter of OffchainRollup.                    *)
(***************************************************************************)
EXTENDS Integers, Sequences, FiniteSets

CONSTANTS
  Clients,
  AppKeys,         \* the keys of the application, each holding one type
  Types,           \* the types the application uses
  Base,            \* the number of values of a byte (256)
  Numbers,         \* the numbers the application sets
  Texts,           \* the texts and the byte strings it writes
  Messages,        \* the byte strings that users push
  FirstVersions,   \* numbers the version may have come to, None if it is new
  MaxPushes,       \* bound on the messages
  MaxCommits,      \* bound on the commits
  None,            \* Option none, and the absence of a key in a Map
  Undefined        \* a variable that is not set

\* The bytes of each numeric type, which the type coders share.
Size == [u8 |-> 1, u16 |-> 2, u32 |-> 4, u64 |-> 8, u128 |-> 16, u256 |-> 32]
NumericTypes == DOMAIN Size
Word == 32
INDEX_TYPE == "u32"
VERSION_TYPE == "u32"

Limit(type) == Base ^ Size[type]

\* size bytes that spell the number n.
Bytes(size, n) == [size |-> size, n |-> n]
Empty == Bytes(0, 0)

ByteStrings == [size : Nat, n : Nat]

ASSUME TypedAssumption ==
  /\ Base \in Nat /\ Base > 1
  /\ Types \subseteq NumericTypes \cup {"bool", "text", "bytes"}
  /\ Numbers \subseteq Nat
  /\ Texts \cup Messages \subseteq ByteStrings
  /\ \A b \in Texts : b.n < Base ^ b.size /\ b.size < Base
  /\ FirstVersions \subseteq {None} \cup 0 .. Limit(VERSION_TYPE) - 1
  /\ None # Undefined
  /\ None \notin Nat \cup ByteStrings /\ Undefined \notin Nat \cup ByteStrings

\* While a session is open there are fewer pushes than indices, and fewer
\* commits than versions.
ASSUME BoundsAssumption ==
  /\ MaxPushes \in Nat /\ MaxPushes < Limit(INDEX_TYPE)
  /\ MaxCommits \in Nat /\ MaxCommits < Limit(VERSION_TYPE)

\* Arithmetic: the powers that occur are positive, and the first is the base.
ASSUME PowersAssumption ==
  /\ Base ^ 1 = Base
  /\ \A type \in Types \cap NumericTypes : Limit(type) > 0
  /\ \A size \in 0 .. Base - 1 : Base ^ size > 0

VARIABLES
  edition,    \* "ink" or "evm"
  typeOf,     \* typeOf[k]: the type the application keeps under k
  store,      \* the key-value store of the contract
  session,    \* session[c]: the current session of c
  pushed,     \* history: every message that was pushed
  answered,   \* history: every message that a commit has answered
  meant,      \* history: what the last commit that wrote a key meant
  commits     \* number of commits that were applied

vars == <<edition, typeOf, store, session, pushed, answered, meant, commits>>

Evm == edition = "evm"

-----------------------------------------------------------------------------
(* The type coders of the client.                                          *)

\* Can the value be encoded?  The evm coder throws on a number that does not
\* fit its type, the ink coder drops what does not fit.
Encodable(type, v) == Evm /\ type \in NumericTypes => v < Limit(type)

\* Mutant: a number that does not fit becomes the largest one.
EncodeNumberSaturated(v, type) ==
  Bytes(IF Evm THEN Word ELSE Size[type], IF v < Limit(type) THEN v ELSE Limit(type) - 1)

EncodeNumber(v, type) ==
  IF Evm THEN Bytes(Word, v) ELSE Bytes(Size[type], v % Limit(type))

\* SCALE puts the length of a string, one byte here, before its bytes.
EncodeString(v) == IF Evm THEN v ELSE Bytes(v.size + 1, v.size + Base * v.n)

\* abi.encode of dynamic bytes: an offset, a length and the padded bytes.
EncodeBytes(v) == IF Evm THEN Bytes(3 * Word, v.n) ELSE v

Encode(type, v) ==
  CASE type \in NumericTypes -> EncodeNumber(v, type)
    [] type = "bool" -> EncodeNumber(v, "u8")
    [] type = "text" -> EncodeString(v)
    [] type = "bytes" -> EncodeBytes(v)

\* The ink decoder reads the first bytes of its type.
DecodeNumber(b, type) == IF Evm THEN b.n ELSE b.n % Limit(type)

DecodeString(b) ==
  IF Evm THEN b
  ELSE LET size == b.n % Base IN Bytes(size, (b.n \div Base) % (Base ^ size))

\* The evm decoder takes the hexadecimal digits, "0x" included, for a text.
DecodeBytes(b) == IF Evm THEN Bytes(2 + 2 * b.size, b.n) ELSE b

Decode(type, b) ==
  CASE type \in NumericTypes -> DecodeNumber(b, type)
    [] type = "bool" -> DecodeNumber(b, "u8")
    [] type = "text" -> DecodeString(b)
    [] type = "bytes" -> DecodeBytes(b)

\* Option.map(decode)
DecodeOption(type, v) == IF v = None THEN None ELSE Decode(type, v)

-----------------------------------------------------------------------------
(* Keys: a prefix and what follows it.                                     *)

HeadKey == <<"q/", Bytes(5, 0)>>
TailKey == <<"q/", Bytes(5, 1)>>
VersionKey == <<"v/", Bytes(7, 0)>>

\* getMessageKey of the client.
MessageKey(i) == <<"q/", IF Evm THEN Bytes(Word, i) ELSE EncodeNumber(i, INDEX_TYPE)>>

\* The index of the contract: a u32, or a uint of solidity.
ContractIndex(i) == Bytes(IF Evm THEN Word ELSE Size[INDEX_TYPE], i)
ContractKey(i) == <<"q/", ContractIndex(i)>>

AppKey(k) == <<"app", k>>
ClientKeys == {VersionKey} \cup {AppKey(k) : k \in AppKeys}
StoreKeys ==
  ClientKeys \cup {HeadKey, TailKey} \cup {ContractKey(i) : i \in 0 .. MaxPushes}

-----------------------------------------------------------------------------
(* The contract.                                                           *)

\* A solidity mapping holds empty bytes for every key that was not written.
Stored(v) == IF Evm /\ v = Empty THEN None ELSE v

IndexAt(key) == IF store[key] = None THEN 0 ELSE store[key].n
QueueHead == IndexAt(HeadKey)
QueueTail == IndexAt(TailKey)

Push(m) ==
  /\ Len(pushed) < MaxPushes
  /\ store' = [store EXCEPT ![ContractKey(QueueTail)] = Stored(m),
                            ![TailKey] = ContractIndex(QueueTail + 1)]
  /\ pushed' = Append(pushed, m)
  /\ UNCHANGED <<edition, typeOf, session, answered, meant, commits>>

ConditionsMet(conditions) ==
  \A k \in ClientKeys :
    conditions[k] # Undefined => Stored(conditions[k]) = store[k]

Updated(updates) ==
  [k \in StoreKeys |->
     IF k \in ClientKeys /\ updates[k] # Undefined THEN Stored(updates[k]) ELSE store[k]]

\* The actions of a commit; the first byte tells them apart.
ACTION_REPLY == 0
ACTION_SET_QUEUE_HEAD == 1

Action(id, data) == [id |-> id, data |-> data]

Replies(actions) ==
  LET at == {i \in DOMAIN actions : actions[i].id = ACTION_REPLY}
      Nth(n) == CHOOSE i \in at : Cardinality({j \in at : j < i}) = n - 1
  IN  [n \in 1 .. Cardinality(at) |-> actions[Nth(n)].data]

PopTargets(actions) ==
  {actions[i].data.n : i \in {j \in DOMAIN actions : actions[j].id = ACTION_SET_QUEUE_HEAD}}

\* pop_to of a target that lies in the queue.
Popped(kv, target) ==
  [k \in StoreKeys |->
     IF k \in {ContractKey(i) : i \in QueueHead .. target - 1} THEN None
     ELSE IF k = HeadKey THEN ContractIndex(target)
     ELSE kv[k]]

-----------------------------------------------------------------------------
(* The session and the calls of the application.                           *)

EmptyMap == [k \in ClientKeys |-> Undefined]

\* seen and intended are histories: the answers of the contract to the getters,
\* and the arguments of the setters.
NewSession ==
  [started |-> FALSE, version |-> Undefined, values |-> EmptyMap, updates |-> EmptyMap,
   currentIndex |-> Undefined, indexUpdated |-> FALSE, actions |-> <<>>,
   seen |-> [k \in AppKeys |-> Undefined], intended |-> [k \in AppKeys |-> Undefined]]

SessionAt(version) ==
  [NewSession EXCEPT !.started = TRUE,
                     !.version = DecodeOption(VERSION_TYPE, version),
                     !.values[VersionKey] = version]

Init ==
  /\ edition \in {"ink", "evm"}
  /\ typeOf \in [AppKeys -> Types]
  /\ \E n \in FirstVersions :
       store = [k \in StoreKeys |->
                  IF k = VersionKey /\ n # None THEN EncodeNumber(n, VERSION_TYPE) ELSE None]
  /\ session = [c \in Clients |-> NewSession]
  /\ pushed = <<>> /\ answered = <<>>
  /\ meant = [k \in AppKeys |-> None]
  /\ commits = 0

\* startSession, and rollback, which is the same.
StartSession(c) ==
  /\ session' = [session EXCEPT ![c] = SessionAt(store[VersionKey])]
  /\ UNCHANGED <<edition, typeOf, store, pushed, answered, meant, commits>>

\* Mutant: a removed key is asked for again.
LocalValueSome(s, k) ==
  IF s.updates[k] \notin {Undefined, None} THEN s.updates[k] ELSE s.values[k]

\* What getValue finds in the session, Undefined if nothing.
LocalValue(s, k) == IF s.updates[k] # Undefined THEN s.updates[k] ELSE s.values[k]

\* getValue goes to the contract for what is not in the session.
Get(c, k) ==
  LET key == AppKey(k)
  IN  /\ session[c].started
      /\ LocalValue(session[c], key) = Undefined
      /\ session' = [session EXCEPT ![c].values[key] = store[key],
                                    ![c].seen[k] = DecodeOption(typeOf[k], store[key])]
      /\ UNCHANGED <<edition, typeOf, store, pushed, answered, meant, commits>>

\* The values an application sets, numbers past the bound of the type included.
Candidates(type) ==
  CASE type \in NumericTypes -> Numbers
    [] type = "bool" -> {0, 1}
    [] type \in {"text", "bytes"} -> Texts

Set(c, k) ==
  /\ session[c].started
  /\ \E v \in Candidates(typeOf[k]) :
       /\ Encodable(typeOf[k], v)
       /\ session' = [session EXCEPT ![c].updates[AppKey(k)] = Encode(typeOf[k], v),
                                     ![c].intended[k] = v]
  /\ UNCHANGED <<edition, typeOf, store, pushed, answered, meant, commits>>

Remove(c, k) ==
  /\ session[c].started
  /\ session' = [session EXCEPT ![c].updates[AppKey(k)] = None, ![c].intended[k] = None]
  /\ UNCHANGED <<edition, typeOf, store, pushed, answered, meant, commits>>

\* getIndex of the client, which decodes what the contract has encoded.
ClientIndex(key) == IF store[key] = None THEN 0 ELSE DecodeNumber(store[key], INDEX_TYPE)

\* getRemoteValue of a key the contract may never have written.
RemoteValue(key) == IF key \in StoreKeys THEN store[key] ELSE None

\* pollMessage, and the reply to the message.  A message that is not found
\* makes the call fail, once the head is in the session.
PollMessage(c) ==
  LET s == session[c]
      index == IF s.currentIndex = Undefined THEN ClientIndex(HeadKey) ELSE s.currentIndex
      message == RemoteValue(MessageKey(index))
  IN  /\ s.started
      /\ session' = [session EXCEPT ![c] =
           IF index >= ClientIndex(TailKey) \/ message = None
           THEN [s EXCEPT !.currentIndex = index]
           ELSE [s EXCEPT !.currentIndex = index + 1, !.indexUpdated = TRUE,
                          !.actions = Append(@, Action(ACTION_REPLY, message))]]
      /\ UNCHANGED <<edition, typeOf, store, pushed, answered, meant, commits>>

HasUpdates(s) == s.indexUpdated \/ s.updates # EmptyMap \/ s.actions # <<>>

\* bumpVersion: the number that is encoded may not fit VERSION_TYPE.
BumpVersion(s) == IF s.version = None THEN 1 ELSE s.version + 1

\* Mutant: the values the application has read, without the version.
ConditionsOfReads(s) == [s.values EXCEPT ![VersionKey] = Undefined]

ConditionsOf(s) == s.values

UpdatesOf(s) ==
  [s.updates EXCEPT ![VersionKey] = EncodeNumber(BumpVersion(s), VERSION_TYPE)]

\* Mutant: the index of the last message that was polled, not the next one.
SetQueueHeadLast(i) == Action(ACTION_SET_QUEUE_HEAD, ContractIndex(i - 1))

SetQueueHead(i) == Action(ACTION_SET_QUEUE_HEAD, ContractIndex(i))

ActionsOf(s) ==
  (IF s.indexUpdated THEN <<SetQueueHead(s.currentIndex)>> ELSE <<>>) \o s.actions

\* A commit that is applied.  One that is refused, by a condition or by an
\* exception of the encoder, leaves the session to the application.
Commit(c) ==
  LET s == session[c]
      actions == ActionsOf(s)
      store1 == Updated(UpdatesOf(s))
  IN  /\ s.started /\ HasUpdates(s)
      /\ commits < MaxCommits
      /\ Encodable(VERSION_TYPE, BumpVersion(s))
      /\ ConditionsMet(ConditionsOf(s))
      /\ \A t \in PopTargets(actions) : t <= QueueTail /\ (Evm \/ QueueHead <= t)
      /\ IF PopTargets(actions) = {} THEN store' = store1
         ELSE \E t \in PopTargets(actions) : store' = Popped(store1, t)
      /\ session' = [session EXCEPT ![c] = SessionAt(store'[VersionKey])]
      /\ answered' = answered \o Replies(actions)
      /\ meant' = [k \in AppKeys |->
                     IF s.intended[k] = Undefined THEN meant[k] ELSE s.intended[k]]
      /\ commits' = commits + 1
      /\ UNCHANGED <<edition, typeOf, pushed>>

Next ==
  \/ \E m \in Messages : Push(m)
  \/ \E c \in Clients : StartSession(c) \/ PollMessage(c) \/ Commit(c)
  \/ \E c \in Clients, k \in AppKeys : Get(c, k) \/ Set(c, k) \/ Remove(c, k)

Spec == Init /\ [][Next]_vars

-----------------------------------------------------------------------------
(* Properties.                                                             *)

\* Values that come back as they were: a number that fits its type; with evm
\* no empty text, which is no value, and no byte string.
Exact(type, v) ==
  \/ v = None
  \/ type \in NumericTypes /\ v < Limit(type)
  \/ type = "bool"
  \/ type = "text" /\ (Evm => v # Empty)
  \/ type = "bytes" /\ ~Evm

\* What the getter of k answers to c now.
Answer(c, k) ==
  LET local == LocalValue(session[c], AppKey(k))
  IN  DecodeOption(typeOf[k], IF local = Undefined THEN store[AppKey(k)] ELSE local)

\* A getter answers what the session has set or removed, else what it has seen
\* before, else what the last commit that wrote the key meant, although all
\* of it went through bytes, and through another client.
GettersAnswerWhatWasMeant ==
  \A c \in Clients, k \in AppKeys :
    LET s == session[c]
        expected == IF s.intended[k] # Undefined THEN s.intended[k]
                    ELSE IF s.seen[k] # Undefined THEN s.seen[k]
                    ELSE meant[k]
    IN  Exact(typeOf[k], expected) => Answer(c, k) = expected

\* The commits have answered the first messages that were pushed, each of them
\* once and as it was, up to the head of the contract: the client finds the
\* messages where the contract has put them and moves the head accordingly.
\* A message that reads as absent is never passed.
AnswersMatchPushes ==
  /\ answered = SubSeq(pushed, 1, QueueHead)
  /\ \A i \in 1 .. Len(answered) : Stored(answered[i]) # None

\* A commit changes the stored version, also when the number has come to the
\* end of its type, so that the sessions that began before cannot commit.
CommitsChangeVersion ==
  [][commits' # commits =>
       /\ store'[VersionKey] # store[VersionKey]
       /\ \A c \in Clients :
            session'[c] = session[c] /\ session[c].started
              => session[c].values[VersionKey] # store'[VersionKey]]_vars

\* Sessions are serializable: when a session commits, each of its getters
\* would answer again what it has seen, and the messages it has answered
\* follow the head.
CommitsSerializable ==
  [][\A c \in Clients :
       commits' # commits /\ session'[c] # session[c] =>
         /\ \A k \in AppKeys :
              session[c].seen[k] # Undefined =>
                session[c].seen[k] = DecodeOption(typeOf[k], store[AppKey(k)])
         /\ session[c].indexUpdated =>
              session[c].currentIndex = QueueHead + Len(session[c].actions)]_vars
=============================================================================
