--------------------------- MODULE TypedClientProofs ---------------------------
(***************************************************************************)
(* Proofs about the typed interface of the client: what a getter answers   *)
(* is what was meant, sessions are serializable, and the messages that are *)
(* answered are those that were pushed, for any number of clients and      *)
(* keys, any numbers, texts and messages, and both editions.               *)
(***************************************************************************)
EXTENDS TypedClient, SequenceTheorems, FiniteSetTheorems, TLAPS

Options == ByteStrings \cup {None}
Variables == Options \cup {Undefined}
Meanings == Nat \cup ByteStrings \cup {None}

Sessions ==
  [started : BOOLEAN, version : Nat \cup {None, Undefined},
   values : [ClientKeys -> Variables], updates : [ClientKeys -> Variables],
   currentIndex : Nat \cup {Undefined}, indexUpdated : BOOLEAN,
   actions : Seq([id : {ACTION_REPLY}, data : ByteStrings]),
   seen : [AppKeys -> Meanings \cup {Undefined}],
   intended : [AppKeys -> Meanings \cup {Undefined}]]

Typed ==
  /\ edition \in {"ink", "evm"} /\ typeOf \in [AppKeys -> Types]
  /\ store \in [StoreKeys -> Options] /\ session \in [Clients -> Sessions]
  /\ pushed \in Seq(Messages) /\ answered \in Seq(Messages)
  /\ meant \in [AppKeys -> Meanings] /\ commits \in 0 .. MaxCommits

\* The version after k commits, if it was n at first.
VersionAfter(n, k) ==
  IF n = None /\ k = 0 THEN None
  ELSE EncodeNumber(IF n = None THEN k ELSE n + k, VERSION_TYPE)

\* Every session began at one of the versions so far.
VersionsCount ==
  \E n \in FirstVersions :
    /\ store[VersionKey] = VersionAfter(n, commits)
    /\ \A c \in Clients :
         session[c].started =>
           \E k \in 0 .. commits : session[c].values[VersionKey] = VersionAfter(n, k)

\* A setter can write the value v, or nothing is set.
Settable(type, v) == v \in {None, Undefined} \/ (v \in Candidates(type) /\ Encodable(type, v))

EncodeOption(type, v) == IF v \in {None, Undefined} THEN v ELSE Encode(type, v)

\* What the maps of a session and their histories have to do with each other.
Coherent(s) ==
  /\ \A k \in AppKeys :
       /\ s.seen[k] = IF s.values[AppKey(k)] = Undefined THEN Undefined
                      ELSE DecodeOption(typeOf[k], s.values[AppKey(k)])
       /\ Settable(typeOf[k], s.intended[k])
       /\ s.updates[AppKey(k)] = EncodeOption(typeOf[k], s.intended[k])
  /\ s.started => /\ s.values[VersionKey] # Undefined
                  /\ s.version = DecodeOption(VERSION_TYPE, s.values[VersionKey])
  /\ IF s.indexUpdated THEN s.currentIndex # Undefined ELSE s.actions = <<>>

\* A session that nobody has overtaken knows what the contract holds.
Fresh(s) ==
  /\ \A k \in AppKeys :
       s.values[AppKey(k)] # Undefined => s.values[AppKey(k)] = store[AppKey(k)]
  /\ s.currentIndex # Undefined =>
       s.currentIndex = QueueHead + Len(s.actions) /\ s.currentIndex <= QueueTail
  /\ \A i \in 1 .. Len(s.actions) :
       /\ QueueHead + i <= QueueTail
       /\ s.actions[i].data = pushed[QueueHead + i] /\ Stored(pushed[QueueHead + i]) # None

SessionsSound ==
  \A c \in Clients :
    /\ Coherent(session[c])
    /\ session[c].started /\ session[c].values[VersionKey] = store[VersionKey]
         => Fresh(session[c])

\* The messages from the head to the tail wait at their index.
QueueSound ==
  /\ QueueTail = Len(pushed) /\ Len(pushed) <= MaxPushes
  /\ QueueHead = Len(answered) /\ QueueHead <= QueueTail
  /\ \A i \in 0 .. MaxPushes :
       store[ContractKey(i)] =
         IF QueueHead <= i /\ i < QueueTail THEN Stored(pushed[i + 1]) ELSE None
  /\ \A i \in 1 .. Len(answered) :
       answered[i] = pushed[i] /\ Stored(answered[i]) # None

\* The store holds what the commits meant.
StoreMeans ==
  \A k \in AppKeys :
    /\ Settable(typeOf[k], meant[k])
    /\ store[AppKey(k)] = Stored(EncodeOption(typeOf[k], meant[k]))

TypedInv == Typed /\ VersionsCount /\ SessionsSound /\ QueueSound /\ StoreMeans

-----------------------------------------------------------------------------
(* Numbers, bytes and keys.                                                *)

\* Numbers that differ by less than d differ modulo d.
LEMMA ModDiffers ==
  ASSUME NEW d \in Nat, d > 0, NEW a \in Nat, NEW b \in Nat, a < b, b - a < d
  PROVE  a % d # b % d
<1>1. a = (d * (a \div d)) + (a % d) /\ a % d \in 0 .. d - 1 /\ a \div d \in Nat
  OBVIOUS
<1>2. b = (d * (b \div d)) + (b % d) /\ b % d \in 0 .. d - 1 /\ b \div d \in Nat
  OBVIOUS
<1>3. SUFFICES ASSUME a % d = b % d PROVE FALSE
  OBVIOUS
<1>4. b - a = d * ((b \div d) - (a \div d))
  BY <1>1, <1>2, <1>3
<1>5. (b \div d) - (a \div d) >= 1
  BY <1>1, <1>2, <1>4
<1>6. QED
  BY <1>1, <1>2, <1>4, <1>5

\* Quotient and rest of a number that is given by them.
LEMMA QuotientAndRest ==
  ASSUME NEW d \in Nat, d > 0, NEW r \in 0 .. d - 1, NEW q \in Nat
  PROVE  (r + (d * q)) % d = r /\ (r + (d * q)) \div d = q
OBVIOUS

\* A number can be reduced before one is added.
LEMMA ModSuccessor ==
  ASSUME NEW d \in Nat, d > 0, NEW x \in Nat
  PROVE  ((x % d) + 1) % d = (x + 1) % d
<1> DEFINE q == x \div d
           r == x % d
<1>1. x = (d * q) + r /\ r \in 0 .. d - 1 /\ q \in Nat
  OBVIOUS
<1> HIDE DEF q, r
<1>2. CASE r + 1 < d
  <2>1. x + 1 = (r + 1) + (d * q) /\ r + 1 \in 0 .. d - 1
    BY <1>1, <1>2
  <2>2. (x + 1) % d = r + 1
    BY <1>1, <2>1, QuotientAndRest
  <2>3. (r + 1) % d = r + 1
    BY <2>1
  <2>4. QED
    BY <2>2, <2>3 DEF r
<1>3. CASE r + 1 = d
  <2>1. x + 1 = 0 + (d * (q + 1)) /\ 0 \in 0 .. d - 1 /\ q + 1 \in Nat
    BY <1>1, <1>3
  <2>2. (x + 1) % d = 0
    BY <2>1, QuotientAndRest
  <2>3. d % d = 0
    <3>1. d = 0 + (d * 1) /\ 0 \in 0 .. d - 1 /\ 1 \in Nat
      OBVIOUS
    <3>2. QED
      BY <3>1, QuotientAndRest
  <2>4. QED
    BY <1>3, <2>2, <2>3 DEF r
<1>4. QED
  BY <1>1, <1>2, <1>3

\* What the limits of the types are.
LEMMA LimitFacts ==
  /\ NumericTypes = {"u8", "u16", "u32", "u64", "u128", "u256"}
  /\ \A type \in NumericTypes : Size[type] \in Nat \ {0} /\ Limit(type) \in Int
  /\ \A type \in NumericTypes \cap Types : Limit(type) \in Nat /\ Limit(type) > 0
  /\ Limit("u8") = Base /\ Limit("u8") > 1 /\ Limit("u8") \in Nat
  /\ Limit("u32") \in Nat /\ MaxPushes < Limit("u32") /\ MaxCommits < Limit("u32")
  /\ Limit("u32") > 0
<1>1. NumericTypes = {"u8", "u16", "u32", "u64", "u128", "u256"}
  BY DEF NumericTypes, Size
<1>2. \A type \in NumericTypes : Size[type] \in Nat \ {0}
  BY <1>1 DEF Size
<1>3. \A type \in NumericTypes : Limit(type) \in Int
  BY <1>2, TypedAssumption DEF Limit
<1>4. Limit("u8") = Base
  BY PowersAssumption DEF Limit, Size
<1>5. QED
  BY <1>1, <1>2, <1>3, <1>4, TypedAssumption, PowersAssumption, BoundsAssumption
     DEF INDEX_TYPE, VERSION_TYPE

\* The bytes of a number.
LEMMA NumberBytes ==
  ASSUME NEW type \in NumericTypes, Limit(type) > 0, NEW v \in Nat
  PROVE  /\ EncodeNumber(v, type) \in ByteStrings /\ EncodeNumber(v, type) # Empty
         /\ DecodeNumber(EncodeNumber(v, type), type) = IF Evm THEN v ELSE v % Limit(type)
         /\ v < Limit(type) => DecodeNumber(EncodeNumber(v, type), type) = v
<1>1. Limit(type) \in Int /\ Size[type] \in Nat \ {0} /\ Word \in Nat \ {0}
  BY LimitFacts DEF Word
<1>2. v % Limit(type) \in 0 .. Limit(type) - 1
  BY <1>1
<1>3. (v % Limit(type)) % Limit(type) = v % Limit(type)
  BY <1>1, <1>2
<1>4. v < Limit(type) => v % Limit(type) = v
  BY <1>1
<1>5. CASE Evm
  BY <1>1, <1>5 DEF EncodeNumber, DecodeNumber, Bytes, Empty, ByteStrings
<1>6. CASE ~Evm
  <2>1. EncodeNumber(v, type) = [size |-> Size[type], n |-> v % Limit(type)]
    BY <1>6 DEF EncodeNumber, Bytes
  <2>2. EncodeNumber(v, type) \in ByteStrings /\ EncodeNumber(v, type).size # Empty.size
    BY <1>1, <1>2, <2>1 DEF ByteStrings, Empty, Bytes
  <2>3. DecodeNumber(EncodeNumber(v, type), type) = v % Limit(type)
    BY <1>3, <1>6, <2>1 DEF DecodeNumber
  <2>4. QED
    BY <1>4, <1>6, <2>2, <2>3
<1>7. QED
  BY <1>5, <1>6

\* A number is decoded as a number.
LEMMA NumberDecoded ==
  ASSUME NEW type \in NumericTypes, Limit(type) > 0, NEW b \in ByteStrings
  PROVE  DecodeNumber(b, type) \in Nat
BY LimitFacts DEF DecodeNumber, ByteStrings

\* SCALE finds the length of a string in its first byte.
LEMMA StringBytes ==
  ASSUME NEW v \in Texts
  PROVE  /\ EncodeString(v) \in ByteStrings
         /\ DecodeString(EncodeString(v)) = v
<1>1. /\ v \in ByteStrings /\ v.size \in Nat /\ v.n \in Nat /\ v.size \in 0 .. Base - 1
      /\ Base \in Nat /\ Base > 0 /\ v.n < Base ^ v.size
  BY TypedAssumption DEF ByteStrings
<1>2. Base ^ v.size \in Int
  BY <1>1
<1>3. v = [size |-> v.size, n |-> v.n]
  BY <1>1 DEF ByteStrings
<1>4. CASE Evm
  BY <1>1, <1>4 DEF EncodeString, DecodeString
<1>5. CASE ~Evm
  <2> DEFINE x == v.size + (Base * v.n)
  <2>1. EncodeString(v) = [size |-> v.size + 1, n |-> x]
    BY <1>5 DEF EncodeString, Bytes
  <2>2. x \in Nat /\ x % Base = v.size /\ x \div Base = v.n
    <3>1. x % Base = v.size /\ x \div Base = v.n
      BY <1>1, QuotientAndRest
    <3> DEFINE p == Base * v.n
    <3>2. p \in Nat
      BY <1>1
    <3> HIDE DEF p
    <3>3. v.size + p \in Nat
      BY <1>1, <3>2
    <3>4. QED
      BY <3>1, <3>3 DEF p
  <2>3. v.n % (Base ^ v.size) = v.n
    BY <1>1, <1>2
  <2> HIDE DEF x
  <2>4. DecodeString(EncodeString(v)) = [size |-> v.size, n |-> v.n]
    BY <1>5, <2>1, <2>2, <2>3 DEF DecodeString, Bytes
  <2>5. EncodeString(v) \in ByteStrings
    BY <1>1, <2>1, <2>2 DEF ByteStrings
  <2>6. QED
    BY <1>3, <2>4, <2>5
<1>6. QED
  BY <1>4, <1>5

\* Whatever bytes there are, something is decoded.
LEMMA StringDecoded ==
  ASSUME NEW b \in ByteStrings
  PROVE  DecodeString(b) \in ByteStrings
<1>1. b.n \in Nat /\ b.size \in Nat /\ Base \in Nat /\ Base > 0
  BY TypedAssumption DEF ByteStrings
<1>2. CASE Evm
  BY <1>2 DEF DecodeString
<1>3. CASE ~Evm
  <2> DEFINE size == b.n % Base
  <2>1. size \in 0 .. Base - 1 /\ b.n \div Base \in Nat
    BY <1>1
  <2>2. Base ^ size \in Int /\ Base ^ size > 0
    BY <1>1, <2>1, PowersAssumption
  <2>3. (b.n \div Base) % (Base ^ size) \in Nat
    BY <2>1, <2>2
  <2>4. QED
    BY <1>3, <2>1, <2>3 DEF DecodeString, Bytes, ByteStrings
<1>4. QED
  BY <1>2, <1>3

\* What a setter writes is a byte string.
LEMMA EncodeTyped ==
  ASSUME NEW type \in Types, NEW v \in Candidates(type)
  PROVE  /\ Encode(type, v) \in ByteStrings
         /\ v \in Nat \cup ByteStrings
<1>1. /\ "u8" \in NumericTypes /\ Limit("u8") > 0
      /\ Texts \subseteq ByteStrings /\ Numbers \subseteq Nat
      /\ NumericTypes = {"u8", "u16", "u32", "u64", "u128", "u256"}
      /\ type \in NumericTypes \cup {"bool", "text", "bytes"}
  BY LimitFacts, TypedAssumption
<1>2. CASE type \in NumericTypes
  <2>1. Limit(type) > 0 /\ v \in Nat /\ Encode(type, v) = EncodeNumber(v, type)
    BY <1>1, <1>2, LimitFacts DEF Candidates, Encode
  <2>2. QED
    BY <1>2, <2>1, NumberBytes
<1>3. CASE type = "bool"
  <2>1. v \in Nat /\ Encode(type, v) = EncodeNumber(v, "u8")
    BY <1>1, <1>3 DEF Candidates, Encode
  <2>2. QED
    BY <1>1, <2>1, NumberBytes
<1>4. CASE type = "text"
  <2>1. v \in Texts /\ Encode(type, v) = EncodeString(v)
    BY <1>1, <1>4 DEF Candidates, Encode
  <2>2. QED
    BY <1>1, <2>1, StringBytes
<1>5. CASE type = "bytes"
  <2>1. v \in Texts /\ Encode(type, v) = EncodeBytes(v)
    BY <1>1, <1>5 DEF Candidates, Encode
  <2>2. EncodeBytes(v) \in ByteStrings
    BY <1>1, <2>1 DEF EncodeBytes, Bytes, ByteStrings, Word
  <2>3. QED
    BY <1>1, <2>1, <2>2
<1>6. QED
  BY <1>1, <1>2, <1>3, <1>4, <1>5

\* What a getter decodes is a value, whatever the bytes.
LEMMA DecodeTyped ==
  ASSUME NEW type \in Types, NEW b \in ByteStrings
  PROVE  Decode(type, b) \in Nat \cup ByteStrings
<1>1. /\ "u8" \in NumericTypes /\ Limit("u8") > 0
      /\ NumericTypes = {"u8", "u16", "u32", "u64", "u128", "u256"}
      /\ type \in NumericTypes \cup {"bool", "text", "bytes"}
  BY LimitFacts, TypedAssumption
<1>2. CASE type \in NumericTypes
  <2>1. Limit(type) > 0 /\ Decode(type, b) = DecodeNumber(b, type)
    BY <1>1, <1>2, LimitFacts DEF Decode
  <2>2. QED
    BY <1>2, <2>1, NumberDecoded
<1>3. CASE type = "bool"
  <2>1. Decode(type, b) = DecodeNumber(b, "u8")
    BY <1>1, <1>3 DEF Decode
  <2>2. QED
    BY <1>1, <2>1, NumberDecoded
<1>4. CASE type = "text"
  <2>1. Decode(type, b) = DecodeString(b)
    BY <1>1, <1>4 DEF Decode
  <2>2. QED
    BY <2>1, StringDecoded
<1>5. CASE type = "bytes"
  <2>1. Decode(type, b) = DecodeBytes(b)
    BY <1>1, <1>5 DEF Decode
  <2>2. DecodeBytes(b) \in ByteStrings
    BY DEF DecodeBytes, Bytes, ByteStrings
  <2>3. QED
    BY <2>1, <2>2
<1>6. QED
  BY <1>1, <1>2, <1>3, <1>4, <1>5

\* The same of optional values: neither direction gives Undefined for a value.
LEMMA OptionsTyped ==
  ASSUME NEW type \in Types
  PROVE  /\ None \notin ByteStrings /\ Undefined \notin Options /\ Undefined \notin Meanings
         /\ \A v \in Options : DecodeOption(type, v) \in Meanings
         /\ \A v : Settable(type, v) /\ v # Undefined =>
              EncodeOption(type, v) \in Options /\ v \in Meanings
<1>1. None \notin ByteStrings /\ Undefined \notin Options /\ Undefined \notin Meanings
  BY TypedAssumption DEF Options, Meanings
<1>2. \A v \in Options : DecodeOption(type, v) \in Meanings
  BY DecodeTyped DEF DecodeOption, Options, Meanings
<1>3. \A v : Settable(type, v) /\ v # Undefined =>
        EncodeOption(type, v) \in Options /\ v \in Meanings
  BY EncodeTyped DEF Settable, EncodeOption, Options, Meanings
<1>4. QED
  BY <1>1, <1>2, <1>3

\* An exact value comes back as it was.
LEMMA RoundTrip ==
  ASSUME NEW type \in Types, NEW v \in Candidates(type), Exact(type, v)
  PROVE  /\ Decode(type, Encode(type, v)) = v
         /\ Stored(Encode(type, v)) = Encode(type, v)
<1>1. /\ "u8" \in NumericTypes /\ Limit("u8") > 1
      /\ Texts \subseteq ByteStrings /\ Numbers \subseteq Nat
      /\ NumericTypes = {"u8", "u16", "u32", "u64", "u128", "u256"}
      /\ type \in NumericTypes \cup {"bool", "text", "bytes"}
      /\ v # None
  BY LimitFacts, TypedAssumption, EncodeTyped
<1>2. CASE type \in NumericTypes
  <2>1. /\ Limit(type) > 0 /\ v \in Nat /\ v < Limit(type)
        /\ Encode(type, v) = EncodeNumber(v, type)
        /\ Decode(type, EncodeNumber(v, type)) = DecodeNumber(EncodeNumber(v, type), type)
    BY <1>1, <1>2, LimitFacts DEF Candidates, Encode, Decode, Exact
  <2>2. QED
    BY <1>2, <2>1, NumberBytes DEF Stored
<1>3. CASE type = "bool"
  <2>1. /\ v \in Nat /\ v < Limit("u8") /\ Encode(type, v) = EncodeNumber(v, "u8")
        /\ Decode(type, EncodeNumber(v, "u8")) = DecodeNumber(EncodeNumber(v, "u8"), "u8")
    BY <1>1, <1>3, LimitFacts DEF Candidates, Encode, Decode
  <2>2. QED
    BY <1>1, <2>1, NumberBytes, LimitFacts DEF Stored
<1>4. CASE type = "text"
  <2>1. /\ v \in Texts /\ Encode(type, v) = EncodeString(v) /\ (Evm => v # Empty)
        /\ Decode(type, EncodeString(v)) = DecodeString(EncodeString(v))
    BY <1>1, <1>4 DEF Candidates, Encode, Decode, Exact
  <2>2. Evm => EncodeString(v) # Empty
    BY <2>1 DEF EncodeString
  <2>3. QED
    BY <2>1, <2>2, StringBytes DEF Stored
<1>5. CASE type = "bytes"
  <2>1. ~Evm /\ Encode(type, v) = v /\ Decode(type, v) = v
    BY <1>1, <1>5 DEF Encode, Decode, EncodeBytes, DecodeBytes, Exact
  <2>2. QED
    BY <2>1 DEF Stored
<1>6. QED
  BY <1>1, <1>2, <1>3, <1>4, <1>5

\* So do an absent value and the variables of the session that hold one.
LEMMA OptionRoundTrip ==
  ASSUME NEW type \in Types, NEW v, Settable(type, v), v # Undefined, Exact(type, v)
  PROVE  /\ DecodeOption(type, EncodeOption(type, v)) = v
         /\ Stored(EncodeOption(type, v)) = EncodeOption(type, v)
<1>1. CASE v = None
  <2>1. None # Empty
    BY TypedAssumption DEF Empty, Bytes, ByteStrings
  <2>2. QED
    BY <1>1, <2>1 DEF DecodeOption, EncodeOption, Stored
<1>2. CASE v # None
  <2>1. v \in Candidates(type) /\ EncodeOption(type, v) = Encode(type, v)
    BY <1>2 DEF Settable, EncodeOption
  <2>2. Encode(type, v) # None
    BY <2>1, EncodeTyped, TypedAssumption
  <2>3. QED
    BY <2>1, <2>2, RoundTrip DEF DecodeOption
<1>3. QED
  BY <1>1, <1>2

\* The stored version, which the getters of the client decode.
LEMMA VersionBytes ==
  ASSUME NEW n \in FirstVersions, NEW k \in Nat
  PROVE  /\ VersionAfter(n, k) \in Options
         /\ Stored(VersionAfter(n, k)) = VersionAfter(n, k)
         /\ VersionAfter(n, k) = None <=> n = None /\ k = 0
         /\ n # None => n \in Nat
<1>1. VERSION_TYPE \in NumericTypes /\ Limit(VERSION_TYPE) > 0
  BY LimitFacts DEF VERSION_TYPE
<1>2. n # None => n \in Nat
  BY TypedAssumption
<1>3. CASE n = None /\ k = 0
  BY <1>2, <1>3, TypedAssumption DEF VersionAfter, Options, Stored, Empty, Bytes, ByteStrings
<1>4. CASE ~(n = None /\ k = 0)
  <2> DEFINE x == IF n = None THEN k ELSE n + k
  <2>1. x \in Nat /\ VersionAfter(n, k) = EncodeNumber(x, VERSION_TYPE)
    BY <1>2, <1>4 DEF VersionAfter
  <2>2. EncodeNumber(x, VERSION_TYPE) \in ByteStrings /\ EncodeNumber(x, VERSION_TYPE) # Empty
    BY <1>1, <2>1, NumberBytes
  <2>3. QED
    BY <1>2, <1>4, <2>1, <2>2, TypedAssumption DEF Options, Stored
<1>5. QED
  BY <1>3, <1>4

\* There are fewer commits than versions: no version comes back.
LEMMA VersionsDiffer ==
  ASSUME NEW n \in FirstVersions, NEW j \in Nat, NEW k \in Nat, j < k, k <= MaxCommits
  PROVE  VersionAfter(n, j) # VersionAfter(n, k)
<1>1. Limit(VERSION_TYPE) \in Nat /\ Limit(VERSION_TYPE) > 0 /\ MaxCommits < Limit(VERSION_TYPE)
      /\ MaxCommits \in Nat
  BY LimitFacts, BoundsAssumption DEF VERSION_TYPE
<1>2. n # None => n \in Nat
  BY TypedAssumption
<1>3. CASE n = None /\ j = 0
  BY <1>3, VersionBytes
<1>4. CASE ~(n = None /\ j = 0)
  <2> DEFINE x == IF n = None THEN j ELSE n + j
             y == IF n = None THEN k ELSE n + k
  <2>1. x \in Nat /\ y \in Nat /\ x < y /\ y - x < Limit(VERSION_TYPE)
    BY <1>1, <1>2
  <2>2. /\ VersionAfter(n, j) = EncodeNumber(x, VERSION_TYPE)
        /\ VersionAfter(n, k) = EncodeNumber(y, VERSION_TYPE)
    BY <1>4 DEF VersionAfter
  <2> HIDE DEF x, y
  <2>3. x % Limit(VERSION_TYPE) # y % Limit(VERSION_TYPE)
    BY <1>1, <2>1, ModDiffers
  <2>4. QED
    BY <2>1, <2>2, <2>3 DEF EncodeNumber, Bytes
<1>5. QED
  BY <1>3, <1>4

\* bumpVersion turns the version that was read into the next one.
LEMMA VersionBumped ==
  ASSUME NEW n \in FirstVersions, NEW k \in Nat, NEW s,
         s.version = DecodeOption(VERSION_TYPE, VersionAfter(n, k))
  PROVE  EncodeNumber(BumpVersion(s), VERSION_TYPE) = VersionAfter(n, k + 1)
<1>1. /\ VERSION_TYPE \in NumericTypes /\ Limit(VERSION_TYPE) > 0
      /\ Limit(VERSION_TYPE) \in Nat
  BY LimitFacts DEF VERSION_TYPE
<1>2. n # None => n \in Nat
  BY TypedAssumption
<1>3. CASE n = None /\ k = 0
  BY <1>3 DEF VersionAfter, DecodeOption, BumpVersion
<1>4. CASE ~(n = None /\ k = 0)
  <2> DEFINE x == IF n = None THEN k ELSE n + k
             d == Limit(VERSION_TYPE)
  <2>1. /\ x \in Nat /\ VersionAfter(n, k) = EncodeNumber(x, VERSION_TYPE)
        /\ VersionAfter(n, k + 1) = EncodeNumber(x + 1, VERSION_TYPE)
    BY <1>2, <1>4 DEF VersionAfter
  <2> HIDE DEF x
  <2>2. /\ EncodeNumber(x, VERSION_TYPE) # None
        /\ DecodeNumber(EncodeNumber(x, VERSION_TYPE), VERSION_TYPE) = IF Evm THEN x ELSE x % d
    BY <1>1, <2>1, NumberBytes, TypedAssumption
  <2>3. s.version = IF Evm THEN x ELSE x % d
    <3>1. \A b : Decode(VERSION_TYPE, b) = DecodeNumber(b, VERSION_TYPE)
      BY LimitFacts DEF Decode, VERSION_TYPE
    <3>2. QED
      BY <2>1, <2>2, <3>1 DEF DecodeOption
  <2>4. x % d \in Nat /\ ((x % d) + 1) % d = (x + 1) % d
    <3>1. d \in Nat /\ d > 0
      BY <1>1
    <3> HIDE DEF d
    <3>2. x % d \in Nat
      BY <2>1, <3>1
    <3>3. ((x % d) + 1) % d = (x + 1) % d
      BY <2>1, <3>1, ModSuccessor
    <3>4. QED
      BY <3>2, <3>3
  <2>5. BumpVersion(s) = (IF Evm THEN x ELSE x % d) + 1
    BY <2>1, <2>3, <2>4, TypedAssumption DEF BumpVersion
  <2>6. QED
    BY <2>1, <2>4, <2>5 DEF EncodeNumber
<1>5. QED
  BY <1>3, <1>4

\* The keys of the application, of the queue and of the version are apart, and
\* the client asks for the messages where the contract has put them.
LEMMA KeyFacts ==
  /\ HeadKey # TailKey /\ {HeadKey, TailKey} \subseteq StoreKeys \ ClientKeys
  /\ ClientKeys \subseteq StoreKeys /\ VersionKey \in ClientKeys
  /\ \A k \in AppKeys : AppKey(k) \in ClientKeys /\ AppKey(k) # VersionKey
  /\ \A k, l \in AppKeys : AppKey(k) = AppKey(l) => k = l
  /\ \A i : ContractKey(i) \notin ClientKeys \cup {HeadKey, TailKey}
  /\ \A i, j : ContractKey(i) = ContractKey(j) => i = j
  /\ \A i \in 0 .. MaxPushes : ContractKey(i) \in StoreKeys /\ MessageKey(i) = ContractKey(i)
<1>1. /\ \A i : ContractIndex(i) # Bytes(5, 0) /\ ContractIndex(i) # Bytes(5, 1)
      /\ \A i, j : ContractIndex(i) = ContractIndex(j) => i = j
      /\ Bytes(5, 0) # Bytes(5, 1)
  BY DEF ContractIndex, Bytes, Word, Size, INDEX_TYPE
<1>2. \A i \in 0 .. MaxPushes : MessageKey(i) = ContractKey(i)
  <2>1. /\ MaxPushes \in Nat /\ MaxPushes < Limit(INDEX_TYPE) /\ Limit(INDEX_TYPE) \in Nat
        /\ Limit(INDEX_TYPE) > 0
    BY LimitFacts, BoundsAssumption DEF INDEX_TYPE
  <2>2. \A i \in 0 .. MaxPushes : i % Limit(INDEX_TYPE) = i
    BY <2>1
  <2>3. QED
    BY <2>2 DEF MessageKey, ContractKey, ContractIndex, EncodeNumber
<1>3. /\ \A k, l \in AppKeys : AppKey(k) = AppKey(l) => k = l
      /\ \A k \in AppKeys : AppKey(k) # VersionKey /\ AppKey(k) # HeadKey /\ AppKey(k) # TailKey
  BY DEF AppKey, VersionKey, HeadKey, TailKey
<1>4. \A i, k : ContractKey(i) # AppKey(k) /\ ContractKey(i) # VersionKey
  BY DEF AppKey, VersionKey, ContractKey
<1>5. HeadKey # VersionKey /\ TailKey # VersionKey
  BY DEF HeadKey, TailKey, VersionKey
<1>6. QED
  BY <1>1, <1>2, <1>3, <1>4, <1>5 DEF ClientKeys, StoreKeys, ContractKey, HeadKey, TailKey

\* The head and the tail fit their type, so the client decodes them.
LEMMA IndexFacts ==
  ASSUME Typed
  PROVE  /\ QueueHead \in Nat /\ QueueTail \in Nat
         /\ QueueHead <= MaxPushes => ClientIndex(HeadKey) = QueueHead
         /\ QueueTail <= MaxPushes => ClientIndex(TailKey) = QueueTail
<1>1. store[HeadKey] \in Options /\ store[TailKey] \in Options
  BY KeyFacts DEF Typed
<1>2. /\ MaxPushes \in Nat /\ MaxPushes < Limit(INDEX_TYPE) /\ Limit(INDEX_TYPE) \in Nat
      /\ Limit(INDEX_TYPE) > 0
  BY LimitFacts, BoundsAssumption DEF INDEX_TYPE
<1>3. QueueHead \in Nat /\ QueueTail \in Nat
  BY <1>1 DEF QueueHead, QueueTail, IndexAt, Options, ByteStrings
<1>4. \A i \in 0 .. MaxPushes : i % Limit(INDEX_TYPE) = i
  BY <1>2
<1>5. QED
  BY <1>2, <1>3, <1>4 DEF QueueHead, QueueTail, IndexAt, ClientIndex, DecodeNumber

-----------------------------------------------------------------------------
(* Sessions and commits.                                                   *)

\* What the type of a session says of its actions.
LEMMA SessionActions ==
  ASSUME NEW s \in Sessions
  PROVE  /\ s.actions \in Seq([id : {ACTION_REPLY}, data : ByteStrings])
         /\ Len(s.actions) \in Nat /\ DOMAIN s.actions = 1 .. Len(s.actions)
         /\ \A i \in 1 .. Len(s.actions) :
              s.actions[i].id = ACTION_REPLY /\ s.actions[i].data \in ByteStrings
         /\ s.indexUpdated \in BOOLEAN /\ s.currentIndex \in Nat \cup {Undefined}
<1> DEFINE Actions == [id : {ACTION_REPLY}, data : ByteStrings]
<1>1. /\ s.actions \in Seq(Actions) /\ s.indexUpdated \in BOOLEAN
      /\ s.currentIndex \in Nat \cup {Undefined}
  BY DEF Sessions
<1>2. \A a \in Actions : a.id = ACTION_REPLY /\ a.data \in ByteStrings
  OBVIOUS
<1> HIDE DEF Actions
<1>3. /\ Len(s.actions) \in Nat /\ DOMAIN s.actions = 1 .. Len(s.actions)
      /\ \A i \in 1 .. Len(s.actions) : s.actions[i] \in Actions
  BY <1>1
<1>4. QED
  BY <1>1, <1>2, <1>3 DEF Actions

\* The replies that the contract finds among the actions of a commit are those
\* of the session, and the head goes where the session says.
LEMMA RepliesOfSession ==
  ASSUME NEW s \in Sessions, IF s.indexUpdated THEN s.currentIndex # Undefined ELSE s.actions = <<>>
  PROVE  /\ PopTargets(ActionsOf(s)) = IF s.indexUpdated THEN {s.currentIndex} ELSE {}
         /\ Len(Replies(ActionsOf(s))) = Len(s.actions)
         /\ \A i \in 1 .. Len(s.actions) : Replies(ActionsOf(s))[i] = s.actions[i].data
         /\ Replies(ActionsOf(s)) \in Seq(ByteStrings)
<1> DEFINE A == ActionsOf(s)
           L == Len(s.actions)
           at == {i \in DOMAIN A : A[i].id = ACTION_REPLY}
           Nth(n) == CHOOSE i \in at : Cardinality({j \in at : j < i}) = n - 1
<1>1. /\ s.actions \in Seq([id : {ACTION_REPLY}, data : ByteStrings]) /\ L \in Nat
      /\ s.indexUpdated \in BOOLEAN /\ s.currentIndex \in Nat \cup {Undefined}
      /\ DOMAIN s.actions = 1 .. L
      /\ \A i \in 1 .. L : s.actions[i].id = ACTION_REPLY /\ s.actions[i].data \in ByteStrings
  BY SessionActions
<1>2. Replies(A) = [n \in 1 .. Cardinality(at) |-> A[Nth(n)].data]
  BY DEF Replies
<1>3. /\ PopTargets(A) = IF s.indexUpdated THEN {s.currentIndex} ELSE {}
      /\ Replies(A) = [n \in 1 .. L |-> s.actions[n].data]
  <2>1. CASE ~s.indexUpdated
    <3>1. A = <<>> /\ s.actions = <<>>
      BY <2>1 DEF ActionsOf
    <3>2. at = {} /\ Cardinality(at) = 0 /\ L = 0
      BY <3>1, FS_EmptySet
    <3> HIDE DEF at, L, Nth
    <3>3. Replies(A) = [n \in 1 .. L |-> s.actions[n].data]
      BY <1>2, <3>2
    <3>4. PopTargets(A) = {}
      BY <3>1 DEF PopTargets
    <3>5. QED
      BY <2>1, <3>3, <3>4
  <2>2. CASE s.indexUpdated
    <3> DEFINE h == SetQueueHead(s.currentIndex)
    <3>1. A = <<h>> \o s.actions
      BY <2>2 DEF ActionsOf
    <3>2. /\ h.id # ACTION_REPLY /\ h.id = ACTION_SET_QUEUE_HEAD /\ h.data.n = s.currentIndex
          /\ ACTION_REPLY # ACTION_SET_QUEUE_HEAD
      BY DEF SetQueueHead, Action, ContractIndex, Bytes, ACTION_REPLY, ACTION_SET_QUEUE_HEAD
    <3> HIDE DEF A, h
    <3>3. /\ DOMAIN A = 1 .. L + 1 /\ A[1] = h
          /\ \A i \in 2 .. L + 1 : A[i] = s.actions[i - 1]
      BY <1>1, <3>1
    <3>4. at = 2 .. L + 1
      BY <1>1, <3>2, <3>3
    <3>5. PopTargets(A) = {s.currentIndex}
      <4>1. {j \in DOMAIN A : A[j].id = ACTION_SET_QUEUE_HEAD} = {1}
        BY <1>1, <3>2, <3>3
      <4>2. QED
        BY <3>2, <3>3, <4>1 DEF PopTargets
    <3> HIDE DEF at, L
    <3>6. Cardinality(at) = L
      BY <1>1, <3>4, FS_Interval
    <3>7. ASSUME NEW i \in at
          PROVE  Cardinality({j \in at : j < i}) = i - 2
      <4>1. {j \in at : j < i} = 2 .. (i - 1) /\ i \in Int /\ i - 1 \in Int /\ i >= 2
        BY <1>1, <3>4
      <4>2. Cardinality(2 .. (i - 1)) = IF 2 > i - 1 THEN 0 ELSE (i - 1) - 2 + 1
        BY <4>1, FS_Interval
      <4>3. (IF 2 > i - 1 THEN 0 ELSE (i - 1) - 2 + 1) = i - 2
        BY <4>1
      <4>4. QED
        BY <4>1, <4>2, <4>3
    <3>8. ASSUME NEW n \in 1 .. L
          PROVE  Nth(n) = n + 1
      <4>1. n + 1 \in at /\ Cardinality({j \in at : j < n + 1}) = n - 1
        BY <1>1, <3>4, <3>7
      <4>2. Nth(n) \in at /\ Cardinality({j \in at : j < Nth(n)}) = n - 1
        BY <4>1
      <4> HIDE DEF Nth
      <4>3. Nth(n) - 2 = n - 1 /\ Nth(n) \in Int
        BY <1>1, <3>4, <3>7, <4>2
      <4>4. QED
        BY <4>3
    <3> HIDE DEF Nth
    <3>9. \A n \in 1 .. L : A[Nth(n)].data = s.actions[n].data
      BY <1>1, <3>3, <3>8
    <3>10. Replies(A) = [n \in 1 .. L |-> s.actions[n].data]
      BY <1>2, <3>6, <3>9
    <3>11. QED
      BY <2>2, <3>5, <3>10
  <2>3. QED
    BY <1>1, <2>1, <2>2
<1> HIDE DEF L
<1>4. Replies(A) \in Seq(ByteStrings)
  BY <1>1, <1>3, IsASeq
<1>5. Len(Replies(A)) = L
  BY <1>1, <1>3
<1>6. QED
  BY <1>3, <1>4, <1>5 DEF L

\* The coders and the keys depend on the edition only.
LEMMA SameEdition ==
  ASSUME edition' = edition
  PROVE  /\ StoreKeys' = StoreKeys /\ (Evm)' = Evm
         /\ \A v : Stored(v)' = Stored(v)
         /\ \A i : ContractKey(i)' = ContractKey(i) /\ ContractIndex(i)' = ContractIndex(i)
         /\ \A type, v : /\ EncodeOption(type, v)' = EncodeOption(type, v)
                         /\ DecodeOption(type, v)' = DecodeOption(type, v)
                         /\ Settable(type, v)' = Settable(type, v)
         /\ \A n, k : VersionAfter(n, k)' = VersionAfter(n, k)
<1>1. (Evm)' = Evm
  BY DEF Evm
<1>2. \A i : ContractKey(i)' = ContractKey(i) /\ ContractIndex(i)' = ContractIndex(i)
  BY <1>1 DEF ContractKey, ContractIndex
<1>3. StoreKeys' = StoreKeys
  BY <1>2 DEF StoreKeys
<1>4. \A type, v : /\ EncodeNumber(v, type)' = EncodeNumber(v, type)
                   /\ DecodeNumber(v, type)' = DecodeNumber(v, type)
  BY <1>1 DEF EncodeNumber, DecodeNumber
<1>5. \A v : /\ EncodeString(v)' = EncodeString(v) /\ EncodeBytes(v)' = EncodeBytes(v)
             /\ DecodeString(v)' = DecodeString(v) /\ DecodeBytes(v)' = DecodeBytes(v)
             /\ Stored(v)' = Stored(v)
  BY <1>1 DEF EncodeString, EncodeBytes, DecodeString, DecodeBytes, Stored
<1>6. \A type, v : Encode(type, v)' = Encode(type, v) /\ Decode(type, v)' = Decode(type, v)
  BY <1>4, <1>5 DEF Encode, Decode
<1>7. \A type, v : /\ EncodeOption(type, v)' = EncodeOption(type, v)
                   /\ DecodeOption(type, v)' = DecodeOption(type, v)
  BY <1>6 DEF EncodeOption, DecodeOption
<1>8. \A type, v : Settable(type, v)' = Settable(type, v)
  BY <1>1 DEF Settable, Encodable
<1>9. \A n, k : VersionAfter(n, k)' = VersionAfter(n, k)
  BY <1>4 DEF VersionAfter
<1>10. QED
  BY <1>1, <1>2, <1>3, <1>5, <1>7, <1>8, <1>9

\* A step of one session, which the others and the contract do not see.
LEMMA SessionStep ==
  ASSUME TypedInv, NEW c \in Clients, NEW s \in Sessions,
         session' = [session EXCEPT ![c] = s],
         UNCHANGED <<edition, typeOf, store, pushed, answered, meant, commits>>,
         Coherent(s),
         s.started => \/ s.values[VersionKey] = store[VersionKey]
                      \/ /\ session[c].started
                         /\ s.values[VersionKey] = session[c].values[VersionKey],
         s.started /\ s.values[VersionKey] = store[VersionKey] => Fresh(s)
  PROVE  TypedInv'
<1>1. /\ StoreKeys' = StoreKeys /\ \A v : Stored(v)' = Stored(v)
      /\ \A i : ContractKey(i)' = ContractKey(i)
      /\ \A type, v : /\ EncodeOption(type, v)' = EncodeOption(type, v)
                      /\ DecodeOption(type, v)' = DecodeOption(type, v)
                      /\ Settable(type, v)' = Settable(type, v)
      /\ \A n, k : VersionAfter(n, k)' = VersionAfter(n, k)
  BY SameEdition
<1>2. session \in [Clients -> Sessions] /\ commits \in Nat
  BY BoundsAssumption DEF TypedInv, Typed
<1>3. \A d \in Clients : session'[d] = IF d = c THEN s ELSE session[d]
  BY <1>2
<1>4. QueueHead' = QueueHead /\ QueueTail' = QueueTail
  BY DEF QueueHead, QueueTail, IndexAt
<1>5. Typed'
  BY <1>1, <1>2 DEF TypedInv, Typed
<1>6. VersionsCount'
  <2>1. PICK n \in FirstVersions :
          /\ store[VersionKey] = VersionAfter(n, commits)
          /\ \A d \in Clients :
               session[d].started =>
                 \E k \in 0 .. commits : session[d].values[VersionKey] = VersionAfter(n, k)
    BY DEF TypedInv, VersionsCount
  <2>2. \A d \in Clients :
          session'[d].started =>
            \E k \in 0 .. commits : session'[d].values[VersionKey] = VersionAfter(n, k)
    BY <1>2, <1>3, <2>1
  <2>3. QED
    BY <1>1, <2>1, <2>2 DEF VersionsCount
<1>7. SessionsSound'
  <2>1. \A t : Coherent(t) => Coherent(t)'
    BY <1>1 DEF Coherent
  <2>2. \A t : Fresh(t) => Fresh(t)'
    BY <1>1, <1>4 DEF Fresh
  <2>3. \A d \in Clients : Coherent(session'[d]) 
    BY <1>3 DEF TypedInv, SessionsSound
  <2>4. \A d \in Clients :
          session'[d].started /\ session'[d].values[VersionKey] = store[VersionKey]
            => Fresh(session'[d])
    BY <1>3 DEF TypedInv, SessionsSound
  <2>5. QED
    BY <2>1, <2>2, <2>3, <2>4 DEF SessionsSound
<1>8. QueueSound'
  BY <1>1, <1>4 DEF TypedInv, QueueSound
<1>9. StoreMeans'
  BY <1>1 DEF TypedInv, StoreMeans
<1>10. QED
  BY <1>5, <1>6, <1>7, <1>8, <1>9 DEF TypedInv

\* A session that nothing has happened in.
LEMMA NewSessionTyped ==
  NewSession \in Sessions
<1>1. EmptyMap \in [ClientKeys -> Variables]
  BY DEF EmptyMap, Variables
<1>2. [k \in AppKeys |-> Undefined] \in [AppKeys -> Meanings \cup {Undefined}]
  OBVIOUS
<1>3. <<>> \in Seq([id : {ACTION_REPLY}, data : ByteStrings])
  OBVIOUS
<1>4. QED
  BY <1>1, <1>2, <1>3 DEF NewSession, Sessions

\* A session that begins at a version knows nothing but the version.
LEMMA SessionAtSound ==
  ASSUME typeOf \in [AppKeys -> Types], NEW v \in Options
  PROVE  /\ SessionAt(v) \in Sessions /\ SessionAt(v).started
         /\ SessionAt(v).values[VersionKey] = v
         /\ \A k \in AppKeys : SessionAt(v).values[AppKey(k)] = Undefined
         /\ SessionAt(v).currentIndex = Undefined /\ SessionAt(v).actions = <<>>
         /\ Coherent(SessionAt(v)) /\ Fresh(SessionAt(v))
<1> DEFINE S == SessionAt(v)
           w == DecodeOption(VERSION_TYPE, v)
           m == [EmptyMap EXCEPT ![VersionKey] = v]
<1>1. S = [NewSession EXCEPT !.started = TRUE, !.version = w, !.values = m]
  BY DEF SessionAt, NewSession
<1>2. w \in Nat \cup {None}
  <2>1. /\ VERSION_TYPE \in NumericTypes /\ Limit(VERSION_TYPE) > 0
        /\ \A b : Decode(VERSION_TYPE, b) = DecodeNumber(b, VERSION_TYPE)
    BY LimitFacts DEF VERSION_TYPE, Decode
  <2>2. QED
    BY <2>1, NumberDecoded DEF DecodeOption, Options
<1>3. /\ m \in [ClientKeys -> Variables] /\ m[VersionKey] = v
      /\ \A k \in AppKeys : m[AppKey(k)] = Undefined
  BY KeyFacts DEF EmptyMap, Variables
<1> HIDE DEF S, w, m
<1>4. /\ S.started = TRUE /\ S.version = w /\ S.values = m /\ S.updates = EmptyMap
      /\ S.currentIndex = Undefined /\ S.indexUpdated = FALSE /\ S.actions = <<>>
      /\ S.seen = [k \in AppKeys |-> Undefined] /\ S.intended = [k \in AppKeys |-> Undefined]
  BY <1>1 DEF NewSession
<1>5. S \in Sessions
  BY <1>1, <1>2, <1>3, NewSessionTyped DEF Sessions
<1>6. v # Undefined
  BY TypedAssumption DEF Options
<1>7. Coherent(S)
  <2>1. \A k \in AppKeys : S.updates[AppKey(k)] = Undefined
    BY <1>4, KeyFacts DEF EmptyMap
  <2>2. QED
    BY <1>3, <1>4, <1>6, <2>1 DEF Coherent, Settable, EncodeOption, w
<1>8. Fresh(S)
  BY <1>3, <1>4 DEF Fresh
<1>9. QED
  BY <1>3, <1>4, <1>5, <1>7, <1>8 DEF S

\* startSession takes the version that is stored.
LEMMA StartSessionStep ==
  ASSUME TypedInv, NEW c \in Clients, StartSession(c)
  PROVE  TypedInv'
<1> DEFINE s == SessionAt(store[VersionKey])
<1>1. store[VersionKey] \in Options /\ typeOf \in [AppKeys -> Types]
  BY KeyFacts DEF TypedInv, Typed
<1>2. /\ s \in Sessions /\ s.values[VersionKey] = store[VersionKey]
      /\ Coherent(s) /\ Fresh(s)
  BY <1>1, SessionAtSound
<1>3. /\ session' = [session EXCEPT ![c] = s]
      /\ UNCHANGED <<edition, typeOf, store, pushed, answered, meant, commits>>
  BY DEF StartSession
<1> HIDE DEF s
<1>4. QED
  BY <1>2, <1>3, SessionStep

\* getValue sees a value once, and only then.
LEMMA GetStep ==
  ASSUME TypedInv, NEW c \in Clients, NEW l \in AppKeys, Get(c, l)
  PROVE  TypedInv'
<1> DEFINE t == session[c]
           key == AppKey(l)
           d == DecodeOption(typeOf[l], store[key])
           s == [t EXCEPT !.values[key] = store[key], !.seen[l] = d]
<1>1. /\ t \in Sessions /\ key \in ClientKeys /\ key \in StoreKeys /\ key # VersionKey
      /\ store[key] \in Options /\ typeOf[l] \in Types
      /\ \A k \in AppKeys : AppKey(k) \in ClientKeys /\ (AppKey(k) = key => k = l)
  BY KeyFacts DEF TypedInv, Typed
<1>2. d \in Meanings /\ d # Undefined /\ store[key] # Undefined /\ store[key] \in Variables
  BY <1>1, OptionsTyped DEF Variables
<1>3. /\ t.started
      /\ session' = [session EXCEPT ![c] = s]
      /\ UNCHANGED <<edition, typeOf, store, pushed, answered, meant, commits>>
  BY DEF Get
<1> HIDE DEF d, key
<1>4. t.values \in [ClientKeys -> Variables] /\ t.seen \in [AppKeys -> Meanings \cup {Undefined}]
  BY <1>1 DEF Sessions
<1>5. /\ s.started = t.started /\ s.version = t.version /\ s.updates = t.updates
      /\ s.currentIndex = t.currentIndex /\ s.indexUpdated = t.indexUpdated
      /\ s.actions = t.actions /\ s.intended = t.intended
      /\ s.values = [t.values EXCEPT ![key] = store[key]]
      /\ s.seen = [t.seen EXCEPT ![l] = d]
  BY <1>1 DEF Sessions
<1>6. s \in Sessions
  BY <1>1, <1>2, <1>4 DEF Sessions
<1>7. s.values[VersionKey] = t.values[VersionKey]
  BY <1>1, <1>4, <1>5, KeyFacts
<1>8. Coherent(s)
  <2>1. Coherent(t)
    BY DEF TypedInv, SessionsSound
  <2>2. \A k \in AppKeys :
          s.seen[k] = IF s.values[AppKey(k)] = Undefined THEN Undefined
                      ELSE DecodeOption(typeOf[k], s.values[AppKey(k)])
    <3>1. s.seen[l] = d /\ s.values[key] = store[key]
      BY <1>1, <1>4, <1>5
    <3>2. \A k \in AppKeys \ {l} :
            s.seen[k] = t.seen[k] /\ s.values[AppKey(k)] = t.values[AppKey(k)]
      BY <1>1, <1>4, <1>5
    <3>3. QED
      BY <1>2, <2>1, <3>1, <3>2 DEF Coherent, d, key
  <2> HIDE DEF s, t
  <2>3. QED
    BY <1>5, <1>7, <2>1, <2>2 DEF Coherent
<1>9. ASSUME s.values[VersionKey] = store[VersionKey]
      PROVE  Fresh(s)
  <2>1. Fresh(t)
    BY <1>3, <1>7, <1>9 DEF TypedInv, SessionsSound
  <2>2. \A k \in AppKeys :
          s.values[AppKey(k)] # Undefined => s.values[AppKey(k)] = store[AppKey(k)]
    BY <1>1, <1>4, <1>5, <2>1 DEF Fresh
  <2> HIDE DEF s, t
  <2>3. QED
    BY <1>5, <2>1, <2>2 DEF Fresh
<1> HIDE DEF s
<1>10. QED
  BY <1>3, <1>6, <1>7, <1>8, <1>9, SessionStep

\* A setter keeps the bytes and what they mean together.
LEMMA UpdateStep ==
  ASSUME TypedInv, NEW c \in Clients, NEW l \in AppKeys, NEW v,
         Settable(typeOf[l], v), v # Undefined,
         session[c].started,
         session' = [session EXCEPT ![c].updates[AppKey(l)] = EncodeOption(typeOf[l], v),
                                    ![c].intended[l] = v],
         UNCHANGED <<edition, typeOf, store, pushed, answered, meant, commits>>
  PROVE  TypedInv'
<1> DEFINE t == session[c]
           key == AppKey(l)
           e == EncodeOption(typeOf[l], v)
           s == [t EXCEPT !.updates[key] = e, !.intended[l] = v]
<1>1. /\ t \in Sessions /\ key \in ClientKeys /\ key # VersionKey
      /\ typeOf[l] \in Types /\ t.started
      /\ \A k \in AppKeys : AppKey(k) \in ClientKeys /\ (AppKey(k) = key => k = l)
  BY KeyFacts DEF TypedInv, Typed
<1>2. v \in Meanings /\ e \in Variables
  BY <1>1, OptionsTyped DEF Variables
<1>3. session' = [session EXCEPT ![c] = s]
  OBVIOUS
<1> HIDE DEF e, key
<1>4. t.updates \in [ClientKeys -> Variables] /\ t.intended \in [AppKeys -> Meanings \cup {Undefined}]
  BY <1>1 DEF Sessions
<1>5. /\ s.started = t.started /\ s.version = t.version /\ s.values = t.values
      /\ s.currentIndex = t.currentIndex /\ s.indexUpdated = t.indexUpdated
      /\ s.actions = t.actions /\ s.seen = t.seen
      /\ s.updates = [t.updates EXCEPT ![key] = e]
      /\ s.intended = [t.intended EXCEPT ![l] = v]
  BY <1>1 DEF Sessions
<1>6. s \in Sessions
  BY <1>1, <1>2, <1>4 DEF Sessions
<1>7. Coherent(s)
  <2>1. Coherent(t)
    BY DEF TypedInv, SessionsSound
  <2>2. \A k \in AppKeys :
          /\ Settable(typeOf[k], s.intended[k])
          /\ s.updates[AppKey(k)] = EncodeOption(typeOf[k], s.intended[k])
    <3>1. s.intended[l] = v /\ s.updates[key] = e
      BY <1>1, <1>4, <1>5
    <3>2. \A k \in AppKeys \ {l} :
            s.intended[k] = t.intended[k] /\ s.updates[AppKey(k)] = t.updates[AppKey(k)]
      BY <1>1, <1>4, <1>5
    <3>3. QED
      BY <2>1, <3>1, <3>2 DEF Coherent, e, key
  <2> HIDE DEF s, t
  <2>3. QED
    BY <1>5, <2>1, <2>2 DEF Coherent
<1>8. ASSUME s.values[VersionKey] = store[VersionKey]
      PROVE  Fresh(s)
  <2>1. Fresh(t)
    BY <1>1, <1>5, <1>8 DEF TypedInv, SessionsSound
  <2> HIDE DEF s, t
  <2>2. QED
    BY <1>5, <2>1 DEF Fresh
<1>9. t.started /\ s.values[VersionKey] = t.values[VersionKey]
  BY <1>1, <1>5
<1> HIDE DEF s
<1>10. QED
  BY <1>3, <1>6, <1>7, <1>8, <1>9, SessionStep

\* set encodes the value, remove writes none.
LEMMA SettersStep ==
  ASSUME TypedInv, NEW c \in Clients, NEW l \in AppKeys, Set(c, l) \/ Remove(c, l)
  PROVE  TypedInv'
<1>1. CASE Set(c, l)
  <2>1. PICK v \in Candidates(typeOf[l]) :
          /\ Encodable(typeOf[l], v)
          /\ session' = [session EXCEPT ![c].updates[AppKey(l)] = Encode(typeOf[l], v),
                                        ![c].intended[l] = v]
    BY <1>1 DEF Set
  <2>2. typeOf[l] \in Types
    BY DEF TypedInv, Typed
  <2>3. v \notin {None, Undefined}
    BY <2>2, EncodeTyped, TypedAssumption
  <2>4. /\ Settable(typeOf[l], v)
        /\ session' = [session EXCEPT ![c].updates[AppKey(l)] = EncodeOption(typeOf[l], v),
                                      ![c].intended[l] = v]
    BY <2>1, <2>3 DEF Settable, EncodeOption
  <2>5. /\ session[c].started
        /\ UNCHANGED <<edition, typeOf, store, pushed, answered, meant, commits>>
    BY <1>1 DEF Set
  <2>6. QED
    BY <2>3, <2>4, <2>5, UpdateStep
<1>2. CASE Remove(c, l)
  <2>1. EncodeOption(typeOf[l], None) = None /\ Settable(typeOf[l], None)
    BY DEF EncodeOption, Settable
  <2>2. /\ session[c].started
        /\ session' = [session EXCEPT ![c].updates[AppKey(l)] = EncodeOption(typeOf[l], None),
                                      ![c].intended[l] = None]
        /\ UNCHANGED <<edition, typeOf, store, pushed, answered, meant, commits>>
    BY <1>2, <2>1 DEF Remove
  <2>3. None # Undefined
    BY TypedAssumption
  <2>4. QED
    BY <2>1, <2>2, <2>3, UpdateStep
<1>3. QED
  BY <1>1, <1>2

\* pollMessage takes the next message that waits, if the session is fresh.
LEMMA PollStep ==
  ASSUME TypedInv, NEW c \in Clients, PollMessage(c)
  PROVE  TypedInv'
<1> DEFINE t == session[c]
           index == IF t.currentIndex = Undefined THEN ClientIndex(HeadKey) ELSE t.currentIndex
           message == RemoteValue(MessageKey(index))
           reply == Action(ACTION_REPLY, message)
           none == index >= ClientIndex(TailKey) \/ message = None
           s == IF none THEN [t EXCEPT !.currentIndex = index]
                ELSE [t EXCEPT !.currentIndex = index + 1, !.indexUpdated = TRUE,
                               !.actions = Append(@, reply)]
<1>1. t \in Sessions /\ store \in [StoreKeys -> Options] /\ Coherent(t) /\ MaxPushes \in Nat
  BY BoundsAssumption DEF TypedInv, Typed, SessionsSound
<1>2. /\ QueueHead \in Nat /\ QueueTail \in Nat /\ QueueHead <= QueueTail
      /\ QueueTail = Len(pushed) /\ QueueTail <= MaxPushes
      /\ ClientIndex(HeadKey) = QueueHead /\ ClientIndex(TailKey) = QueueTail
  BY <1>1, IndexFacts DEF TypedInv, QueueSound
<1>3. /\ t.started /\ session' = [session EXCEPT ![c] = s]
      /\ UNCHANGED <<edition, typeOf, store, pushed, answered, meant, commits>>
  BY DEF PollMessage
<1>4. index \in Nat /\ (t.currentIndex # Undefined => index = t.currentIndex)
  BY <1>1, <1>2, SessionActions
<1>5. ~none => /\ index < QueueTail /\ message \in ByteStrings
               /\ MessageKey(index) = ContractKey(index)
               /\ message = store[ContractKey(index)] /\ message # None
  BY <1>1, <1>2, <1>4, KeyFacts DEF RemoteValue, Options
<1>6. /\ t.actions \in Seq([id : {ACTION_REPLY}, data : ByteStrings])
      /\ Len(t.actions) \in Nat /\ t.indexUpdated \in BOOLEAN
  BY <1>1, SessionActions
<1>7. ~none => reply \in [id : {ACTION_REPLY}, data : ByteStrings] /\ reply.data = message
  BY <1>5 DEF Action
<1>8. Undefined \notin Nat
  BY TypedAssumption
<1> HIDE DEF index, message, reply, none
<1>9. CASE none
  <2>1. s = [t EXCEPT !.currentIndex = index]
    BY <1>9
  <2> HIDE DEF s
  <2>2. /\ s.started = t.started /\ s.version = t.version /\ s.values = t.values
        /\ s.updates = t.updates /\ s.indexUpdated = t.indexUpdated
        /\ s.actions = t.actions /\ s.seen = t.seen /\ s.intended = t.intended
        /\ s.currentIndex = index
    BY <1>1, <2>1 DEF Sessions
  <2>3. s \in Sessions
    BY <1>1, <1>4, <2>1 DEF Sessions
  <2>4. Coherent(s)
    BY <1>1, <1>4, <1>8, <2>2 DEF Coherent
  <2>5. ASSUME s.values[VersionKey] = store[VersionKey]
        PROVE  Fresh(s)
    <3>1. Fresh(t)
      BY <1>3, <2>2, <2>5 DEF TypedInv, SessionsSound
    <3>2. index = QueueHead + Len(t.actions) /\ index <= QueueTail
      <4>1. CASE t.currentIndex = Undefined
        BY <1>1, <1>2, <4>1 DEF Coherent, index
      <4>2. CASE t.currentIndex # Undefined
        BY <1>4, <3>1, <4>2 DEF Fresh
      <4>3. QED
        BY <4>1, <4>2
    <3>3. QED
      BY <2>2, <3>1, <3>2 DEF Fresh
  <2>6. QED
    BY <1>3, <2>2, <2>3, <2>4, <2>5, SessionStep
<1>10. CASE ~none
  <2> DEFINE a == Append(t.actions, reply)
  <2>1. s = [t EXCEPT !.currentIndex = index + 1, !.indexUpdated = TRUE, !.actions = a]
    BY <1>10
  <2> HIDE DEF s, a
  <2>2. /\ s.started = t.started /\ s.version = t.version /\ s.values = t.values
        /\ s.updates = t.updates /\ s.indexUpdated = TRUE
        /\ s.actions = a /\ s.seen = t.seen /\ s.intended = t.intended
        /\ s.currentIndex = index + 1
    BY <1>1, <2>1 DEF Sessions
  <2>3. a \in Seq([id : {ACTION_REPLY}, data : ByteStrings])
    BY <1>6, <1>7, <1>10 DEF a
  <2>4. s \in Sessions
    <3> DEFINE u == [t EXCEPT !.currentIndex = index + 1]
               w == [u EXCEPT !.indexUpdated = TRUE]
    <3>1. u \in Sessions
      BY <1>1, <1>4 DEF Sessions
    <3> HIDE DEF u
    <3>2. w \in Sessions
      BY <3>1 DEF Sessions
    <3> HIDE DEF w
    <3>3. [w EXCEPT !.actions = a] \in Sessions
      BY <2>3, <3>2 DEF Sessions
    <3>4. s = [w EXCEPT !.actions = a]
      BY <2>1 DEF w, u
    <3>5. QED
      BY <3>3, <3>4
  <2>5. Coherent(s)
    BY <1>1, <1>4, <1>8, <2>2 DEF Coherent
  <2>6. ASSUME s.values[VersionKey] = store[VersionKey]
        PROVE  Fresh(s)
    <3>1. Fresh(t)
      BY <1>3, <2>2, <2>6 DEF TypedInv, SessionsSound
    <3>2. index = QueueHead + Len(t.actions)
      <4>1. CASE t.currentIndex = Undefined
        BY <1>1, <1>2, <4>1 DEF Coherent, index
      <4>2. CASE t.currentIndex # Undefined
        BY <1>4, <3>1, <4>2 DEF Fresh
      <4>3. QED
        BY <4>1, <4>2
    <3>3. message = pushed[index + 1] /\ Stored(pushed[index + 1]) # None
      <4>1. /\ QueueHead <= index /\ index < QueueTail /\ index \in 0 .. MaxPushes
            /\ message = store[ContractKey(index)] /\ message # None
        BY <1>1, <1>2, <1>4, <1>5, <1>6, <1>10, <3>2
      <4>2. message = Stored(pushed[index + 1])
        BY <4>1 DEF TypedInv, QueueSound
      <4>3. QED
        BY <4>1, <4>2 DEF Stored
    <3>4. /\ Len(s.actions) = Len(t.actions) + 1
          /\ s.actions[Len(t.actions) + 1] = reply
          /\ \A i \in 1 .. Len(t.actions) : s.actions[i] = t.actions[i]
      BY <1>6, <2>2 DEF a
    <3>5. \A i \in 1 .. Len(s.actions) :
            /\ QueueHead + i <= QueueTail
            /\ s.actions[i].data = pushed[QueueHead + i] /\ Stored(pushed[QueueHead + i]) # None
      <4>1. ASSUME NEW i \in 1 .. Len(s.actions)
            PROVE  /\ QueueHead + i <= QueueTail
                   /\ s.actions[i].data = pushed[QueueHead + i] /\ Stored(pushed[QueueHead + i]) # None
        <5>1. CASE i = Len(t.actions) + 1
          <6>1. QueueHead + i = index + 1 /\ index + 1 <= QueueTail
            BY <1>2, <1>4, <1>5, <1>6, <1>10, <3>2, <5>1
          <6>2. s.actions[i].data = message
            BY <1>7, <1>10, <3>4, <5>1
          <6>3. QED
            BY <3>3, <6>1, <6>2
        <5>2. CASE i # Len(t.actions) + 1
          <6>1. i \in 1 .. Len(t.actions)
            BY <1>6, <3>4, <5>2
          <6>2. QED
            BY <3>1, <3>4, <6>1 DEF Fresh
        <5>3. QED
          BY <5>1, <5>2
      <4>2. QED
        BY <4>1
    <3>6. index + 1 = QueueHead + Len(s.actions) /\ index + 1 <= QueueTail
      <4>1. index < QueueTail /\ QueueTail \in Nat /\ QueueHead \in Nat
        BY <1>2, <1>5, <1>10
      <4>2. Len(t.actions) \in Nat /\ index = QueueHead + Len(t.actions) /\ index \in Nat
        BY <1>4, <1>6, <3>2
      <4> HIDE DEF QueueHead, QueueTail
      <4>3. QED
        BY <3>4, <4>1, <4>2
    <3>7. QED
      BY <2>2, <3>1, <3>5, <3>6 DEF Fresh
  <2>7. QED
    BY <1>3, <2>2, <2>4, <2>5, <2>6, SessionStep
<1>11. QED
  BY <1>9, <1>10

\* An index is never an absent value.
LEMMA IndexBytes ==
  ASSUME NEW i \in Nat
  PROVE  ContractIndex(i) \in ByteStrings /\ ContractIndex(i).n = i /\ ContractIndex(i) # None
         /\ Stored(ContractIndex(i)) = ContractIndex(i)
<1>1. ContractIndex(i) \in ByteStrings /\ ContractIndex(i).n = i
  BY DEF ContractIndex, Bytes, ByteStrings, Word, Size, INDEX_TYPE
<1>2. ContractIndex(i) # Empty
  BY DEF ContractIndex, Bytes, Word, Size, INDEX_TYPE, Empty
<1>3. QED
  BY <1>1, <1>2, TypedAssumption DEF Stored

\* A message that is pushed waits at the tail, and nothing else changes.
LEMMA PushStep ==
  ASSUME TypedInv, NEW m \in Messages, Push(m)
  PROVE  TypedInv'
<1> DEFINE q == QueueTail
<1>1. /\ store' = [store EXCEPT ![ContractKey(q)] = Stored(m), ![TailKey] = ContractIndex(q + 1)]
      /\ pushed' = Append(pushed, m) /\ Len(pushed) < MaxPushes
      /\ UNCHANGED <<edition, typeOf, session, answered, meant, commits>>
  BY DEF Push
<1>2. /\ store \in [StoreKeys -> Options] /\ MaxPushes \in Nat /\ pushed \in Seq(Messages)
      /\ q \in Nat /\ QueueHead \in Nat /\ q = Len(pushed) /\ QueueHead <= q
      /\ QueueHead = Len(answered)
  BY IndexFacts, BoundsAssumption DEF TypedInv, Typed, QueueSound
<1>3. q \in 0 .. MaxPushes - 1 /\ q + 1 \in Nat
  BY <1>1, <1>2
<1> HIDE DEF q
<1>4. /\ StoreKeys' = StoreKeys /\ \A v : Stored(v)' = Stored(v)
      /\ \A i : ContractKey(i)' = ContractKey(i)
      /\ \A type, v : /\ EncodeOption(type, v)' = EncodeOption(type, v)
                      /\ DecodeOption(type, v)' = DecodeOption(type, v)
                      /\ Settable(type, v)' = Settable(type, v)
      /\ \A n, k : VersionAfter(n, k)' = VersionAfter(n, k)
  BY <1>1, SameEdition
<1>5. Stored(m) \in Options
  BY TypedAssumption DEF Stored, Options
<1>6. /\ store' \in [StoreKeys -> Options]
      /\ store'[VersionKey] = store[VersionKey] /\ store'[HeadKey] = store[HeadKey]
      /\ store'[TailKey] = ContractIndex(q + 1)
      /\ \A k \in AppKeys : store'[AppKey(k)] = store[AppKey(k)]
      /\ \A i \in 0 .. MaxPushes :
           store'[ContractKey(i)] = IF i = q THEN Stored(m) ELSE store[ContractKey(i)]
  <2>1. /\ ContractKey(q) \in StoreKeys /\ TailKey \in StoreKeys /\ HeadKey \in StoreKeys
        /\ VersionKey \in StoreKeys /\ VersionKey # HeadKey /\ VersionKey # TailKey
        /\ \A i \in 0 .. MaxPushes :
             ContractKey(i) \in StoreKeys /\ ContractKey(i) # TailKey
             /\ (ContractKey(i) = ContractKey(q) => i = q)
        /\ \A k \in AppKeys :
             /\ AppKey(k) \in StoreKeys /\ AppKey(k) # TailKey /\ AppKey(k) # ContractKey(q)
        /\ HeadKey # TailKey /\ HeadKey # ContractKey(q) /\ VersionKey # ContractKey(q)
        /\ TailKey # ContractKey(q)
    BY <1>2, <1>3, KeyFacts
  <2>2. ContractIndex(q + 1) \in Options
    BY <1>3, IndexBytes DEF Options
  <2>3. QED
    BY <1>1, <1>2, <1>3, <1>5, <2>1, <2>2
<1>7. QueueHead' = QueueHead /\ QueueTail' = q + 1
  BY <1>3, <1>6, IndexBytes DEF QueueHead, QueueTail, IndexAt
<1>8. /\ pushed' \in Seq(Messages) /\ Len(pushed') = q + 1 /\ pushed'[q + 1] = m
      /\ \A i \in 1 .. q : pushed'[i] = pushed[i]
  BY <1>1, <1>2
<1>9. Typed'
  BY <1>1, <1>4, <1>6, <1>8 DEF TypedInv, Typed
<1>10. VersionsCount'
  BY <1>1, <1>4, <1>6 DEF TypedInv, VersionsCount
<1>11. SessionsSound'
  <2>1. \A t : Coherent(t) => Coherent(t)'
    BY <1>1, <1>4 DEF Coherent
  <2>2. ASSUME NEW c \in Clients, session[c].started,
               session[c].values[VersionKey] = store[VersionKey]
        PROVE  Fresh(session[c])'
    <3> DEFINE s == session[c]
               L == Len(s.actions)
    <3>1. Fresh(s) /\ s \in Sessions
      BY <2>2 DEF TypedInv, SessionsSound, Typed
    <3>2. L \in Nat /\ (s.currentIndex # Undefined => s.currentIndex \in Nat)
      BY <3>1, SessionActions
    <3>3. /\ \A k \in AppKeys :
               s.values[AppKey(k)] # Undefined => s.values[AppKey(k)] = store[AppKey(k)]
          /\ s.currentIndex # Undefined => s.currentIndex = QueueHead + L /\ s.currentIndex <= q
          /\ \A i \in 1 .. L :
               /\ QueueHead + i <= q
               /\ s.actions[i].data = pushed[QueueHead + i] /\ Stored(pushed[QueueHead + i]) # None
      BY <3>1 DEF Fresh, q
    <3> HIDE DEF s, L
    <3>4. s.currentIndex # Undefined => s.currentIndex <= q + 1
      BY <1>2, <3>2, <3>3
    <3>5. \A i \in 1 .. L :
            /\ QueueHead + i \in 1 .. q /\ QueueHead + i <= q + 1
            /\ pushed'[QueueHead + i] = pushed[QueueHead + i]
      BY <1>2, <1>8, <3>2, <3>3
    <3>6. Fresh(s)'
      BY <1>1, <1>4, <1>6, <1>7, <3>3, <3>4, <3>5 DEF Fresh, L, s
    <3>7. QED
      BY <3>6 DEF s
  <2>3. QED
    BY <1>1, <1>6, <2>1, <2>2 DEF TypedInv, SessionsSound
<1>12. QueueSound'
  <2>1. /\ \A i \in 0 .. MaxPushes :
             store[ContractKey(i)] =
               IF QueueHead <= i /\ i < q THEN Stored(pushed[i + 1]) ELSE None
        /\ \A i \in 1 .. Len(answered) : answered[i] = pushed[i] /\ Stored(answered[i]) # None
    BY DEF TypedInv, QueueSound, q
  <2>2. ASSUME NEW i \in 0 .. MaxPushes
        PROVE  store'[ContractKey(i)] =
                 IF QueueHead <= i /\ i < q + 1 THEN Stored(pushed'[i + 1]) ELSE None
    <3>1. CASE i = q
      BY <1>2, <1>3, <1>6, <1>8, <3>1
    <3>2. CASE i # q /\ QueueHead <= i /\ i < q
      <4>1. i + 1 \in 1 .. q
        BY <1>2, <3>2
      <4>2. QED
        BY <1>2, <1>6, <1>8, <2>1, <3>2, <4>1
    <3>3. CASE i # q /\ ~(QueueHead <= i /\ i < q)
      BY <1>2, <1>6, <2>1, <3>3
    <3>4. QED
      BY <3>1, <3>2, <3>3
  <2>3. \A i \in 1 .. Len(answered) : answered[i] = pushed'[i]
    BY <1>2, <1>8, <2>1
  <2>4. (QueueTail = Len(pushed) /\ Len(pushed) <= MaxPushes
           /\ QueueHead = Len(answered) /\ QueueHead <= QueueTail)'
    BY <1>1, <1>2, <1>3, <1>7, <1>8
  <2>5. (\A i \in 0 .. MaxPushes :
           store[ContractKey(i)] =
             IF QueueHead <= i /\ i < QueueTail THEN Stored(pushed[i + 1]) ELSE None)'
    BY <1>4, <1>7, <2>2
  <2>6. (\A i \in 1 .. Len(answered) : answered[i] = pushed[i] /\ Stored(answered[i]) # None)'
    BY <1>1, <1>4, <2>1, <2>3
  <2>7. QED
    BY <2>4, <2>5, <2>6 DEF QueueSound
<1>13. StoreMeans'
  BY <1>1, <1>4, <1>6 DEF TypedInv, StoreMeans
<1>14. QED
  BY <1>9, <1>10, <1>11, <1>12, <1>13 DEF TypedInv

\* The session of a commit that is applied began at the version of the store,
\* so it is fresh: nobody has overtaken it.
LEMMA CommitIsFresh ==
  ASSUME TypedInv, NEW c \in Clients, Commit(c)
  PROVE  /\ session[c].started /\ session[c] \in Sessions
         /\ session[c].values[VersionKey] = store[VersionKey]
         /\ Coherent(session[c]) /\ Fresh(session[c])
<1> DEFINE s == session[c]
<1>1. s.started /\ s \in Sessions /\ Coherent(s)
  BY DEF Commit, TypedInv, Typed, SessionsSound
<1>2. PICK n \in FirstVersions, k \in 0 .. commits : s.values[VersionKey] = VersionAfter(n, k)
  BY <1>1 DEF TypedInv, VersionsCount
<1>3. commits \in Nat /\ k \in Nat
  BY BoundsAssumption DEF TypedInv, Typed
<1>4. Stored(s.values[VersionKey]) = s.values[VersionKey]
  BY <1>2, <1>3, VersionBytes
<1>5. s.values[VersionKey] = store[VersionKey]
  BY <1>1, <1>4, KeyFacts DEF Commit, ConditionsMet, ConditionsOf, Coherent
<1>6. QED
  BY <1>1, <1>5 DEF TypedInv, SessionsSound

\* What a commit that is applied does to the contract.
LEMMA CommitEffects ==
  ASSUME TypedInv, NEW c \in Clients, Commit(c)
  PROVE  LET s == session[c]
             L == Len(s.actions)
         IN  /\ store' \in [StoreKeys -> Options]
             /\ \A n \in FirstVersions :
                  store[VersionKey] = VersionAfter(n, commits)
                    => store'[VersionKey] = VersionAfter(n, commits + 1)
             /\ \A k \in AppKeys :
                  store'[AppKey(k)] = IF s.updates[AppKey(k)] # Undefined
                                      THEN Stored(s.updates[AppKey(k)]) ELSE store[AppKey(k)]
             /\ QueueHead' = QueueHead + L /\ QueueTail' = QueueTail
             /\ \A i \in 0 .. MaxPushes :
                  store'[ContractKey(i)] = IF QueueHead <= i /\ i < QueueHead + L THEN None
                                           ELSE store[ContractKey(i)]
<1> DEFINE s == session[c]
           L == Len(s.actions)
           e == EncodeNumber(BumpVersion(s), VERSION_TYPE)
           u == UpdatesOf(s)
           store1 == Updated(u)
           head == QueueHead
<1>1. /\ s \in Sessions /\ s.values[VersionKey] = store[VersionKey]
      /\ Coherent(s) /\ Fresh(s) /\ s.started
  BY CommitIsFresh
<1>2. /\ store \in [StoreKeys -> Options] /\ commits \in Nat
      /\ MaxPushes \in Nat /\ head \in Nat /\ QueueTail \in Nat
  BY IndexFacts, BoundsAssumption DEF TypedInv, Typed
<1>3. L \in Nat /\ s.indexUpdated \in BOOLEAN /\ s.currentIndex \in Nat \cup {Undefined}
  BY <1>1, SessionActions
<1>4. PopTargets(ActionsOf(s)) = IF s.indexUpdated THEN {s.currentIndex} ELSE {}
  BY <1>1, RepliesOfSession DEF Coherent
<1>5. /\ s.indexUpdated => s.currentIndex \in Nat /\ s.currentIndex = head + L
      /\ ~s.indexUpdated => L = 0
  BY <1>1, <1>3 DEF Coherent, Fresh
<1>6. store' = IF s.indexUpdated THEN Popped(store1, head + L) ELSE store1
  BY <1>4, <1>5 DEF Commit
<1>7. s.version = DecodeOption(VERSION_TYPE, store[VersionKey])
  BY <1>1 DEF Coherent
<1>8. \A n \in FirstVersions :
        store[VersionKey] = VersionAfter(n, commits) => e = VersionAfter(n, commits + 1)
  BY <1>2, <1>7, VersionBumped
<1>9. e \in Options /\ Stored(e) = e /\ e # Undefined
  <2>1. PICK n \in FirstVersions : store[VersionKey] = VersionAfter(n, commits)
    BY DEF TypedInv, VersionsCount
  <2>2. e = VersionAfter(n, commits + 1) /\ commits + 1 \in Nat
    BY <1>2, <1>8, <2>1
  <2> HIDE DEF e
  <2>3. QED
    BY <2>2, VersionBytes, TypedAssumption DEF Options
<1>10. /\ u \in [ClientKeys -> Variables] /\ u[VersionKey] = e
       /\ \A k \in AppKeys : u[AppKey(k)] = s.updates[AppKey(k)]
  <2>1. s.updates \in [ClientKeys -> Variables] /\ u = [s.updates EXCEPT ![VersionKey] = e]
    BY <1>1 DEF Sessions, UpdatesOf
  <2> HIDE DEF u, e
  <2>2. QED
    BY <1>9, <2>1, KeyFacts DEF Variables
<1> HIDE DEF u, e, head, L, s
<1>11. \A v \in Variables : v # Undefined => Stored(v) \in Options
  BY DEF Variables, Stored, Options
<1>12. /\ store1 \in [StoreKeys -> Options]
       /\ store1[VersionKey] = e
       /\ \A k \in AppKeys :
            store1[AppKey(k)] = IF s.updates[AppKey(k)] # Undefined
                                THEN Stored(s.updates[AppKey(k)]) ELSE store[AppKey(k)]
       /\ store1[HeadKey] = store[HeadKey] /\ store1[TailKey] = store[TailKey]
       /\ \A i \in 0 .. MaxPushes : store1[ContractKey(i)] = store[ContractKey(i)]
  <2>1. store1 \in [StoreKeys -> Options]
    BY <1>2, <1>10, <1>11 DEF Updated
  <2>2. \A k \in ClientKeys :
          store1[k] = IF u[k] # Undefined THEN Stored(u[k]) ELSE store[k]
    BY KeyFacts DEF Updated
  <2>3. \A k \in StoreKeys \ ClientKeys : store1[k] = store[k]
    BY DEF Updated
  <2> HIDE DEF store1
  <2>4. QED
    BY <1>9, <1>10, <2>1, <2>2, <2>3, KeyFacts
<1> HIDE DEF store1
<1>13. CASE ~s.indexUpdated
  <2>1. store' = store1 /\ L = 0
    BY <1>5, <1>6, <1>13
  <2>2. QueueHead' = QueueHead /\ QueueTail' = QueueTail
    BY <1>12, <2>1 DEF QueueHead, QueueTail, IndexAt
  <2>3. \A i \in 0 .. MaxPushes : ~(QueueHead <= i /\ i < QueueHead + L)
    BY <1>2, <2>1 DEF head
  <2>4. QueueHead' = QueueHead + L
    BY <1>2, <2>1, <2>2 DEF head
  <2>5. QED
    BY <1>8, <1>12, <2>1, <2>2, <2>3, <2>4 DEF s, L
<1>14. CASE s.indexUpdated
  <2> DEFINE P == {ContractKey(i) : i \in head .. (head + L) - 1}
  <2>1. /\ head + L \in Nat
        /\ store' = [k \in StoreKeys |-> IF k \in P THEN None
                                         ELSE IF k = HeadKey THEN ContractIndex(head + L)
                                         ELSE store1[k]]
    BY <1>2, <1>3, <1>6, <1>14 DEF Popped, head
  <2>2. /\ HeadKey \notin P /\ TailKey \notin P /\ VersionKey \notin P
        /\ \A k \in AppKeys : AppKey(k) \notin P
        /\ \A i \in 0 .. MaxPushes :
             ContractKey(i) \in P <=> head <= i /\ i < head + L
    <3>1. \A i : ContractKey(i) \in P <=> i \in head .. (head + L) - 1
      BY KeyFacts
    <3>2. \A i \in 0 .. MaxPushes : i \in head .. (head + L) - 1 <=> head <= i /\ i < head + L
      BY <1>2, <1>3
    <3>3. QED
      BY <3>1, <3>2, KeyFacts
  <2> HIDE DEF P
  <2>3. ContractIndex(head + L) \in Options /\ None \in Options
    BY <2>1, IndexBytes DEF Options
  <2>4. store' \in [StoreKeys -> Options]
    BY <1>12, <2>1, <2>3
  <2>5. /\ store'[VersionKey] = e /\ store'[HeadKey] = ContractIndex(head + L)
        /\ store'[TailKey] = store[TailKey]
        /\ \A k \in AppKeys : store'[AppKey(k)] = store1[AppKey(k)]
        /\ \A i \in 0 .. MaxPushes :
             store'[ContractKey(i)] = IF head <= i /\ i < head + L THEN None
                                      ELSE store[ContractKey(i)]
    BY <1>12, <2>1, <2>2, KeyFacts
  <2>6. QueueHead' = head + L /\ QueueTail' = QueueTail
    BY <2>1, <2>5, IndexBytes DEF QueueHead, QueueTail, IndexAt
  <2>7. QED
    BY <1>8, <1>12, <2>4, <2>5, <2>6 DEF s, L, head
<1>15. QED
  BY <1>3, <1>13, <1>14

\* The messages that a commit answers are the next ones that were pushed.
LEMMA CommitAnswers ==
  ASSUME TypedInv, NEW c \in Clients, Commit(c)
  PROVE  LET L == Len(session[c].actions)
         IN  /\ L \in Nat /\ QueueHead + L <= QueueTail
             /\ answered' \in Seq(Messages) /\ Len(answered') = QueueHead + L
             /\ \A i \in 1 .. Len(answered') :
                  answered'[i] = pushed[i] /\ Stored(answered'[i]) # None
<1> DEFINE s == session[c]
           L == Len(s.actions)
           R == Replies(ActionsOf(s))
<1>1. s \in Sessions /\ Coherent(s) /\ Fresh(s)
  BY CommitIsFresh
<1>2. /\ pushed \in Seq(Messages) /\ answered \in Seq(Messages)
      /\ QueueHead \in Nat /\ QueueTail \in Nat
      /\ QueueTail = Len(pushed) /\ QueueHead = Len(answered) /\ QueueHead <= QueueTail
      /\ \A i \in 1 .. Len(answered) : answered[i] = pushed[i] /\ Stored(answered[i]) # None
  BY IndexFacts DEF TypedInv, Typed, QueueSound
<1>3. L \in Nat
  BY <1>1, SessionActions
<1>4. /\ R \in Seq(ByteStrings) /\ Len(R) = L
      /\ \A i \in 1 .. L : R[i] = s.actions[i].data
  BY <1>1, RepliesOfSession DEF Coherent
<1>5. \A i \in 1 .. L :
        /\ QueueHead + i <= QueueTail
        /\ R[i] = pushed[QueueHead + i] /\ Stored(pushed[QueueHead + i]) # None
  BY <1>1, <1>4 DEF Fresh
<1>6. answered' = answered \o R
  BY DEF Commit
<1> HIDE DEF s, L, R, QueueHead, QueueTail
<1>7. QueueHead + L <= QueueTail
  <2>1. CASE L = 0
    BY <1>2, <2>1
  <2>2. CASE L # 0
    <3>1. L \in 1 .. L
      BY <1>3, <2>2
    <3>2. QED
      BY <1>5, <3>1
  <2>3. QED
    BY <2>1, <2>2
<1>8. R \in Seq(Messages)
  <2>1. \A i \in 1 .. L : R[i] \in Messages
    <3>1. ASSUME NEW i \in 1 .. L
          PROVE  R[i] \in Messages
      <4>1. QueueHead + i \in 1 .. Len(pushed)
        BY <1>2, <1>5
      <4>2. pushed[QueueHead + i] \in Messages
        BY <1>2, <4>1
      <4>3. QED
        BY <1>5, <4>2
    <3>2. QED
      BY <3>1
  <2>2. R = [i \in 1 .. L |-> R[i]]
    BY <1>4
  <2>3. QED
    BY <1>3, <2>1, <2>2, IsASeq
<1>9. /\ answered' \in Seq(Messages) /\ Len(answered') = QueueHead + L
      /\ \A i \in 1 .. QueueHead : answered'[i] = answered[i]
      /\ \A i \in 1 .. L : answered'[QueueHead + i] = R[i]
  <2>1. answered' \in Seq(Messages) /\ Len(answered') = Len(answered) + Len(R)
    BY <1>2, <1>6, <1>8
  <2>2. \A i \in 1 .. Len(answered) : answered'[i] = answered[i]
    BY <1>2, <1>6, <1>8
  <2>3. \A i \in 1 .. Len(R) : answered'[Len(answered) + i] = R[i]
    BY <1>2, <1>6, <1>8
  <2>4. QED
    BY <1>2, <1>4, <2>1, <2>2, <2>3
<1>10. ASSUME NEW i \in 1 .. Len(answered')
       PROVE  answered'[i] = pushed[i] /\ Stored(answered'[i]) # None
  <2>1. CASE i <= QueueHead
    <3>1. i \in 1 .. QueueHead
      BY <1>2, <2>1
    <3>2. QED
      BY <1>2, <1>9, <3>1
  <2>2. CASE i > QueueHead
    <3>1. i - QueueHead \in 1 .. L /\ i = QueueHead + (i - QueueHead)
      BY <1>2, <1>3, <1>9, <2>2
    <3>2. QED
      BY <1>5, <1>9, <3>1
  <2>3. QED
    BY <1>2, <2>1, <2>2
<1>11. QED
  BY <1>3, <1>7, <1>9, <1>10 DEF s, L

\* A commit that is applied makes every other session stale, and its own new.
LEMMA CommitStep ==
  ASSUME TypedInv, NEW c \in Clients, Commit(c)
  PROVE  TypedInv'
<1> DEFINE s == session[c]
           L == Len(s.actions)
<1>1. s \in Sessions /\ Coherent(s) /\ session \in [Clients -> Sessions]
  BY CommitIsFresh DEF TypedInv, Typed
<1>2. /\ store' \in [StoreKeys -> Options]
      /\ \A n \in FirstVersions :
           store[VersionKey] = VersionAfter(n, commits)
             => store'[VersionKey] = VersionAfter(n, commits + 1)
      /\ \A k \in AppKeys :
           store'[AppKey(k)] = IF s.updates[AppKey(k)] # Undefined
                               THEN Stored(s.updates[AppKey(k)]) ELSE store[AppKey(k)]
      /\ QueueHead' = QueueHead + L /\ QueueTail' = QueueTail
      /\ \A i \in 0 .. MaxPushes :
           store'[ContractKey(i)] = IF QueueHead <= i /\ i < QueueHead + L THEN None
                                    ELSE store[ContractKey(i)]
  BY CommitEffects
<1>3. /\ L \in Nat /\ QueueHead + L <= QueueTail
      /\ answered' \in Seq(Messages) /\ Len(answered') = QueueHead + L
      /\ \A i \in 1 .. Len(answered') : answered'[i] = pushed[i] /\ Stored(answered'[i]) # None
  BY CommitAnswers
<1>4. /\ session' = [session EXCEPT ![c] = SessionAt(store'[VersionKey])]
      /\ meant' = [k \in AppKeys |->
                     IF s.intended[k] = Undefined THEN meant[k] ELSE s.intended[k]]
      /\ commits' = commits + 1 /\ commits < MaxCommits
      /\ UNCHANGED <<edition, typeOf, pushed>>
  BY DEF Commit
<1>5. /\ StoreKeys' = StoreKeys /\ \A v : Stored(v)' = Stored(v)
      /\ \A i : ContractKey(i)' = ContractKey(i)
      /\ \A type, v : /\ EncodeOption(type, v)' = EncodeOption(type, v)
                      /\ DecodeOption(type, v)' = DecodeOption(type, v)
                      /\ Settable(type, v)' = Settable(type, v)
      /\ \A n, k : VersionAfter(n, k)' = VersionAfter(n, k)
  BY <1>4, SameEdition
<1>6. /\ commits \in Nat /\ MaxCommits \in Nat /\ MaxPushes \in Nat
      /\ QueueHead \in Nat /\ QueueTail \in Nat
      /\ typeOf \in [AppKeys -> Types] /\ meant \in [AppKeys -> Meanings]
  BY IndexFacts, BoundsAssumption DEF TypedInv, Typed
<1> HIDE DEF s, L
<1> DEFINE new == SessionAt(store'[VersionKey])
<1>7. /\ new \in Sessions /\ new.started /\ new.values[VersionKey] = store'[VersionKey]
      /\ \A k \in AppKeys : new.values[AppKey(k)] = Undefined
      /\ new.currentIndex = Undefined /\ new.actions = <<>> /\ Coherent(new)
  <2>1. store'[VersionKey] \in Options
    BY <1>2, KeyFacts
  <2>2. QED
    BY <1>6, <2>1, SessionAtSound
<1> HIDE DEF new
<1>8. \A d \in Clients : session'[d] = IF d = c THEN new ELSE session[d]
  BY <1>1, <1>4 DEF new
<1>9. Typed'
  <2>1. meant' \in [AppKeys -> Meanings]
    <3>1. s.intended \in [AppKeys -> Meanings \cup {Undefined}]
      BY <1>1 DEF Sessions
    <3>2. QED
      BY <1>4, <1>6, <3>1
  <2>2. session' \in [Clients -> Sessions]
    BY <1>1, <1>4, <1>7 DEF new
  <2>3. commits' \in 0 .. MaxCommits
    BY <1>4, <1>6
  <2>4. QED
    BY <1>2, <1>3, <1>4, <1>5, <2>1, <2>2, <2>3 DEF TypedInv, Typed
<1>10. PICK n \in FirstVersions :
         /\ store[VersionKey] = VersionAfter(n, commits)
         /\ \A d \in Clients :
              session[d].started =>
                \E k \in 0 .. commits : session[d].values[VersionKey] = VersionAfter(n, k)
  BY DEF TypedInv, VersionsCount
<1>11. store'[VersionKey] = VersionAfter(n, commits + 1)
  BY <1>2, <1>10
<1>12. VersionsCount'
  <2>1. \A d \in Clients :
          session'[d].started =>
            \E k \in 0 .. commits + 1 : session'[d].values[VersionKey] = VersionAfter(n, k)
    <3>1. 0 .. commits \subseteq 0 .. commits + 1 /\ commits + 1 \in 0 .. commits + 1
      BY <1>6
    <3>2. QED
      BY <1>7, <1>8, <1>10, <1>11, <3>1
  <2>2. QED
    BY <1>4, <1>5, <1>11, <2>1 DEF VersionsCount
<1>13. \A d \in Clients \ {c} :
         session[d].started => session[d].values[VersionKey] # store'[VersionKey]
  <2>1. \A k \in 0 .. commits : VersionAfter(n, k) # VersionAfter(n, commits + 1)
    BY <1>4, <1>6, VersionsDiffer
  <2>2. QED
    BY <1>10, <1>11, <2>1
<1>14. SessionsSound'
  <2>1. \A t : Coherent(t) => Coherent(t)'
    BY <1>4, <1>5 DEF Coherent
  <2>2. \A d \in Clients : Coherent(session'[d])
    BY <1>7, <1>8 DEF TypedInv, SessionsSound
  <2>3. ASSUME NEW d \in Clients, session'[d].started,
               session'[d].values[VersionKey] = store'[VersionKey]
        PROVE  Fresh(session[d])'
    <3>1. session'[d] = new
      BY <1>8, <1>13, <2>3
    <3>2. QED
      BY <1>7, <3>1 DEF Fresh
  <2>4. QED
    BY <2>1, <2>2, <2>3 DEF SessionsSound
<1>15. QueueSound'
  <2>1. QueueTail = Len(pushed) /\ Len(pushed) <= MaxPushes
    BY DEF TypedInv, QueueSound
  <2>2. (QueueTail = Len(pushed) /\ Len(pushed) <= MaxPushes
           /\ QueueHead = Len(answered) /\ QueueHead <= QueueTail)'
    BY <1>2, <1>3, <1>4, <2>1
  <2>3. ASSUME NEW i \in 0 .. MaxPushes
        PROVE  store'[ContractKey(i)] =
                 IF QueueHead + L <= i /\ i < QueueTail THEN Stored(pushed[i + 1]) ELSE None
    <3>1. store[ContractKey(i)] =
            IF QueueHead <= i /\ i < QueueTail THEN Stored(pushed[i + 1]) ELSE None
      BY DEF TypedInv, QueueSound
    <3> HIDE DEF QueueHead, QueueTail
    <3>2. QED
      BY <1>2, <1>3, <1>6, <3>1
  <2>4. (\A i \in 0 .. MaxPushes :
           store[ContractKey(i)] =
             IF QueueHead <= i /\ i < QueueTail THEN Stored(pushed[i + 1]) ELSE None)'
    BY <1>2, <1>4, <1>5, <2>3
  <2>5. (\A i \in 1 .. Len(answered) : answered[i] = pushed[i] /\ Stored(answered[i]) # None)'
    BY <1>3, <1>4, <1>5
  <2>6. QED
    BY <2>2, <2>4, <2>5 DEF QueueSound
<1>16. StoreMeans'
  <2>1. ASSUME NEW k \in AppKeys
        PROVE  /\ Settable(typeOf[k], meant'[k])
               /\ store'[AppKey(k)] = Stored(EncodeOption(typeOf[k], meant'[k]))
    <3>1. /\ Settable(typeOf[k], s.intended[k])
          /\ s.updates[AppKey(k)] = EncodeOption(typeOf[k], s.intended[k])
      BY <1>1 DEF Coherent
    <3>2. /\ Settable(typeOf[k], meant[k])
          /\ store[AppKey(k)] = Stored(EncodeOption(typeOf[k], meant[k]))
      BY DEF TypedInv, StoreMeans
    <3>3. s.updates[AppKey(k)] = Undefined <=> s.intended[k] = Undefined
      <4>1. typeOf[k] \in Types
        BY <1>6
      <4>2. QED
        BY <3>1, <4>1, OptionsTyped DEF EncodeOption
    <3>4. QED
      BY <1>2, <1>4, <3>1, <3>2, <3>3
  <2>2. QED
    BY <1>4, <1>5, <2>1 DEF StoreMeans
<1>17. QED
  BY <1>9, <1>12, <1>14, <1>15, <1>16 DEF TypedInv

\* The first states satisfy the invariant.
LEMMA TypedInit ==
  ASSUME Init PROVE TypedInv
<1>1. PICK n \in FirstVersions :
        store = [k \in StoreKeys |->
                   IF k = VersionKey /\ n # None THEN EncodeNumber(n, VERSION_TYPE) ELSE None]
  BY DEF Init
<1>2. /\ edition \in {"ink", "evm"} /\ typeOf \in [AppKeys -> Types]
      /\ session = [c \in Clients |-> NewSession] /\ pushed = <<>> /\ answered = <<>>
      /\ meant = [k \in AppKeys |-> None] /\ commits = 0
  BY DEF Init
<1>3. /\ VersionAfter(n, 0) \in Options
      /\ VersionAfter(n, 0) = IF n = None THEN None ELSE EncodeNumber(n, VERSION_TYPE)
  <2>1. n # None => n \in Nat /\ n + 0 = n
    BY TypedAssumption
  <2>2. VersionAfter(n, 0) = IF n = None THEN None ELSE EncodeNumber(n, VERSION_TYPE)
    BY <2>1 DEF VersionAfter
  <2>3. QED
    BY <2>2, VersionBytes
<1>4. /\ store \in [StoreKeys -> Options] /\ store[VersionKey] = VersionAfter(n, 0)
      /\ \A k \in StoreKeys \ {VersionKey} : store[k] = None
  BY <1>1, <1>3, KeyFacts DEF Options
<1>5. None \in Meanings /\ MaxCommits \in Nat /\ MaxPushes \in Nat
  BY BoundsAssumption DEF Meanings
<1>6. Typed
  BY <1>2, <1>4, <1>5, NewSessionTyped DEF Typed
<1>7. VersionsCount
  <2>1. \A c \in Clients : ~session[c].started
    BY <1>2 DEF NewSession
  <2>2. QED
    BY <1>2, <1>4, <2>1 DEF VersionsCount
<1>8. SessionsSound
  <2>1. Coherent(NewSession)
    <3>1. \A k \in AppKeys : EmptyMap[AppKey(k)] = Undefined
      BY KeyFacts DEF EmptyMap
    <3>2. QED
      BY <3>1 DEF Coherent, NewSession, Settable, EncodeOption
  <2>2. \A c \in Clients : session[c] = NewSession /\ ~session[c].started
    BY <1>2 DEF NewSession
  <2>3. QED
    BY <2>1, <2>2 DEF SessionsSound
<1>9. QueueHead = 0 /\ QueueTail = 0
  BY <1>4, KeyFacts DEF QueueHead, QueueTail, IndexAt
<1>10. QueueSound
  <2>1. \A i \in 0 .. MaxPushes : store[ContractKey(i)] = None
    BY <1>4, KeyFacts
  <2>2. Len(pushed) = 0 /\ Len(answered) = 0
    BY <1>2
  <2>3. QED
    BY <1>5, <1>9, <2>1, <2>2 DEF QueueSound
<1>11. StoreMeans
  <2>1. Stored(None) = None
    BY DEF Stored
  <2>2. QED
    BY <1>2, <1>4, <2>1, KeyFacts DEF StoreMeans, Settable, EncodeOption
<1>12. QED
  BY <1>6, <1>7, <1>8, <1>10, <1>11 DEF TypedInv

\* Every step keeps it, the steps of the environment included.
LEMMA TypedNext ==
  ASSUME TypedInv, [Next]_vars PROVE TypedInv'
<1>1. ASSUME NEW m \in Messages, Push(m) PROVE TypedInv'
  BY <1>1, PushStep
<1>2. ASSUME NEW c \in Clients, StartSession(c) PROVE TypedInv'
  BY <1>2, StartSessionStep
<1>3. ASSUME NEW c \in Clients, PollMessage(c) PROVE TypedInv'
  BY <1>3, PollStep
<1>4. ASSUME NEW c \in Clients, Commit(c) PROVE TypedInv'
  BY <1>4, CommitStep
<1>5. ASSUME NEW c \in Clients, NEW k \in AppKeys, Get(c, k) PROVE TypedInv'
  BY <1>5, GetStep
<1>6. ASSUME NEW c \in Clients, NEW k \in AppKeys, Set(c, k) \/ Remove(c, k) PROVE TypedInv'
  BY <1>6, SettersStep
<1>7. CASE UNCHANGED vars
  <2>1. UNCHANGED <<edition, typeOf, store, session, pushed, answered, meant, commits>>
    BY <1>7 DEF vars
  <2>2. /\ StoreKeys' = StoreKeys /\ \A v : Stored(v)' = Stored(v)
        /\ \A i : ContractKey(i)' = ContractKey(i)
        /\ \A type, v : /\ EncodeOption(type, v)' = EncodeOption(type, v)
                        /\ DecodeOption(type, v)' = DecodeOption(type, v)
                        /\ Settable(type, v)' = Settable(type, v)
        /\ \A n, k : VersionAfter(n, k)' = VersionAfter(n, k)
    BY <2>1, SameEdition
  <2>3. QueueHead' = QueueHead /\ QueueTail' = QueueTail
    BY <2>1 DEF QueueHead, QueueTail, IndexAt
  <2>4. Typed' /\ VersionsCount'
    BY <2>1, <2>2 DEF TypedInv, Typed, VersionsCount
  <2>5. SessionsSound'
    <3>1. \A t : (Coherent(t) => Coherent(t)') /\ (Fresh(t) => Fresh(t)')
      BY <2>1, <2>2, <2>3 DEF Coherent, Fresh
    <3>2. QED
      BY <2>1, <3>1 DEF TypedInv, SessionsSound
  <2>6. QueueSound'
    BY <2>1, <2>2, <2>3 DEF TypedInv, QueueSound
  <2>7. StoreMeans'
    BY <2>1, <2>2 DEF TypedInv, StoreMeans
  <2>8. QED
    BY <2>4, <2>5, <2>6, <2>7 DEF TypedInv
<1>8. QED
  BY <1>1, <1>2, <1>3, <1>4, <1>5, <1>6, <1>7 DEF Next

-----------------------------------------------------------------------------
(* The theorems.                                                           *)

\* Whatever the clients do, the version of the store counts the commits, the
\* bytes of store and sessions are those of what was meant, the messages wait
\* between the head and the tail, and a session at the version is up to date.
THEOREM TypedInvariance == Spec => []TypedInv
<1>1. Init => TypedInv
  BY TypedInit
<1>2. TypedInv /\ [Next]_vars => TypedInv'
  BY TypedNext
<1>3. QED
  BY <1>1, <1>2, PTL DEF Spec

\* What a getter decodes is what a setter, of this client or of another one,
\* has encoded, for each type and edition in which the value is exact.
THEOREM GettersAnswerCorrect == Spec => []GettersAnswerWhatWasMeant
<1>1. TypedInv => GettersAnswerWhatWasMeant
  <2> SUFFICES ASSUME TypedInv, NEW c \in Clients, NEW k \in AppKeys
               PROVE  LET s == session[c]
                          expected == IF s.intended[k] # Undefined THEN s.intended[k]
                                      ELSE IF s.seen[k] # Undefined THEN s.seen[k]
                                      ELSE meant[k]
                      IN  Exact(typeOf[k], expected) => Answer(c, k) = expected
    BY DEF GettersAnswerWhatWasMeant
  <2> DEFINE s == session[c]
             key == AppKey(k)
             type == typeOf[k]
  <2>1. /\ Settable(type, s.intended[k]) /\ s.updates[key] = EncodeOption(type, s.intended[k])
        /\ s.seen[k] = IF s.values[key] = Undefined THEN Undefined
                       ELSE DecodeOption(type, s.values[key])
    BY DEF TypedInv, SessionsSound, Coherent
  <2>2. /\ Settable(type, meant[k]) /\ store[key] = Stored(EncodeOption(type, meant[k]))
        /\ type \in Types /\ meant[k] \in Meanings /\ s \in Sessions
    BY DEF TypedInv, StoreMeans, Typed
  <2>3. Answer(c, k) = IF s.updates[key] # Undefined THEN DecodeOption(type, s.updates[key])
                       ELSE IF s.values[key] # Undefined THEN DecodeOption(type, s.values[key])
                       ELSE DecodeOption(type, store[key])
    BY DEF Answer, LocalValue
  <2>4. Undefined \notin Options /\ Undefined \notin Meanings
    BY <2>2, OptionsTyped
  <2>5. s.values[key] \in Options \cup {Undefined}
    BY <2>2, KeyFacts DEF Sessions, Variables
  <2> HIDE DEF s, key, type
  <2>6. CASE s.intended[k] # Undefined
    <3>1. s.updates[key] # Undefined
      BY <2>1, <2>2, <2>4, <2>6, OptionsTyped
    <3>2. Exact(type, s.intended[k]) => DecodeOption(type, s.updates[key]) = s.intended[k]
      BY <2>1, <2>2, <2>6, OptionRoundTrip
    <3>3. QED
      BY <2>3, <2>6, <3>1, <3>2 DEF s, type
  <2>7. CASE s.intended[k] = Undefined
    <3>1. s.updates[key] = Undefined
      BY <2>1, <2>7 DEF EncodeOption
    <3>2. CASE s.values[key] # Undefined
      <4>1. s.seen[k] = DecodeOption(type, s.values[key]) /\ s.seen[k] # Undefined
        BY <2>1, <2>2, <2>4, <2>5, <3>2, OptionsTyped
      <4>2. QED
        BY <2>3, <2>7, <3>1, <3>2, <4>1 DEF s, type
    <3>3. CASE s.values[key] = Undefined
      <4>1. s.seen[k] = Undefined /\ meant[k] # Undefined
        BY <2>1, <2>2, <2>4, <3>3
      <4>2. Exact(type, meant[k]) => DecodeOption(type, store[key]) = meant[k]
        BY <2>2, <4>1, OptionRoundTrip
      <4>3. QED
        BY <2>3, <2>7, <3>1, <3>3, <4>1, <4>2 DEF s, type
    <3>4. QED
      BY <3>2, <3>3
  <2>8. QED
    BY <2>6, <2>7
<1>2. QED
  BY <1>1, TypedInvariance, PTL

\* The messages that the commits have answered are the first that were pushed.
THEOREM AnswersMatchPushesCorrect == Spec => []AnswersMatchPushes
<1>1. TypedInv => AnswersMatchPushes
  <2> SUFFICES ASSUME TypedInv PROVE AnswersMatchPushes
    OBVIOUS
  <2>1. /\ pushed \in Seq(Messages) /\ answered \in Seq(Messages) /\ QueueHead \in Nat
        /\ QueueHead = Len(answered) /\ QueueHead <= Len(pushed)
        /\ \A i \in 1 .. Len(answered) : answered[i] = pushed[i] /\ Stored(answered[i]) # None
    BY IndexFacts DEF TypedInv, Typed, QueueSound
  <2> HIDE DEF QueueHead
  <2>2. SubSeq(pushed, 1, QueueHead) = [i \in 1 .. QueueHead |-> pushed[i]]
    BY <2>1
  <2>3. answered = [i \in 1 .. QueueHead |-> answered[i]]
    BY <2>1
  <2>4. answered = SubSeq(pushed, 1, QueueHead)
    BY <2>1, <2>2, <2>3
  <2>5. QED
    BY <2>1, <2>4 DEF AnswersMatchPushes
<1>2. QED
  BY <1>1, TypedInvariance, PTL

\* Only a commit changes the counter of commits.
LEMMA OnlyCommits ==
  ASSUME [Next]_vars, commits' # commits
  PROVE  \E c \in Clients : Commit(c)
<1>1. \A m \in Messages : Push(m) => commits' = commits
  BY DEF Push
<1>2. \A c \in Clients : StartSession(c) \/ PollMessage(c) => commits' = commits
  BY DEF StartSession, PollMessage
<1>3. \A c \in Clients, k \in AppKeys :
        Get(c, k) \/ Set(c, k) \/ Remove(c, k) => commits' = commits
  BY DEF Get, Set, Remove
<1>4. QED
  BY <1>1, <1>2, <1>3 DEF Next, vars

\* bumpVersion changes the bytes of the version, with the last number of its
\* type too, and no session that is left knows the new version.
THEOREM CommitsChangeVersionCorrect == Spec => CommitsChangeVersion
<1> DEFINE A == commits' # commits =>
                  /\ store'[VersionKey] # store[VersionKey]
                  /\ \A c \in Clients :
                       session'[c] = session[c] /\ session[c].started
                         => session[c].values[VersionKey] # store'[VersionKey]
<1>1. TypedInv /\ [Next]_vars => [A]_vars
  <2> SUFFICES ASSUME TypedInv, [Next]_vars, commits' # commits PROVE A
    OBVIOUS
  <2>1. PICK d \in Clients : Commit(d)
    BY OnlyCommits
  <2>2. PICK n \in FirstVersions :
          /\ store[VersionKey] = VersionAfter(n, commits)
          /\ \A c \in Clients :
               session[c].started =>
                 \E k \in 0 .. commits : session[c].values[VersionKey] = VersionAfter(n, k)
    BY DEF TypedInv, VersionsCount
  <2>3. store'[VersionKey] = VersionAfter(n, commits + 1)
    BY <2>1, <2>2, CommitEffects
  <2>4. commits \in Nat /\ commits < MaxCommits /\ MaxCommits \in Nat
    BY <2>1, BoundsAssumption DEF TypedInv, Typed, Commit
  <2>5. \A k \in 0 .. commits : VersionAfter(n, k) # VersionAfter(n, commits + 1)
    BY <2>4, VersionsDiffer
  <2>6. QED
    BY <2>2, <2>3, <2>4, <2>5
<1>2. QED
  BY <1>1, TypedInvariance, PTL DEF Spec, CommitsChangeVersion

\* A session whose commit is applied has seen what the store still holds.
THEOREM CommitsSerializableCorrect == Spec => CommitsSerializable
<1> DEFINE A == \A c \in Clients :
                  commits' # commits /\ session'[c] # session[c] =>
                    /\ \A k \in AppKeys :
                         session[c].seen[k] # Undefined =>
                           session[c].seen[k] = DecodeOption(typeOf[k], store[AppKey(k)])
                    /\ session[c].indexUpdated =>
                         session[c].currentIndex = QueueHead + Len(session[c].actions)
<1>1. TypedInv /\ [Next]_vars => [A]_vars
  <2> SUFFICES ASSUME TypedInv, [Next]_vars, commits' # commits,
                      NEW c \in Clients, session'[c] # session[c]
               PROVE  /\ \A k \in AppKeys :
                           session[c].seen[k] # Undefined =>
                             session[c].seen[k] = DecodeOption(typeOf[k], store[AppKey(k)])
                      /\ session[c].indexUpdated =>
                           session[c].currentIndex = QueueHead + Len(session[c].actions)
    OBVIOUS
  <2>1. PICK d \in Clients : Commit(d)
    BY OnlyCommits
  <2>2. d = c
    BY <2>1 DEF Commit, TypedInv, Typed
  <2>3. Coherent(session[c]) /\ Fresh(session[c])
    BY <2>1, <2>2, CommitIsFresh
  <2>4. QED
    BY <2>3 DEF Coherent, Fresh
<1>2. QED
  BY <1>1, TypedInvariance, PTL DEF Spec, CommitsSerializable
=============================================================================
