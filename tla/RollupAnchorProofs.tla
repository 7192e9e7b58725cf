-------------------------- MODULE RollupAnchorProofs --------------------------
(***************************************************************************)
(* Proofs about the on-chain half: whatever calls attestors send and       *)
(* relays repeat, the queue stays intact, no request takes effect twice,   *)
(* and a call takes effect as a whole or not at all.                       *)
(***************************************************************************)
EXTENDS RollupAnchor, SequenceTheorems, FiniteSetTheorems, TLAPS

\* A state that a call can leave behind.
Sound(s) == StateTyped(s) /\ QueueIntactIn(s)

\* Where the keys of the queue are, and what is no index.
LEMMA KeyFacts ==
  /\ VersionKey \in Keys /\ HeadKey \in Keys /\ TailKey \in Keys
  /\ HeadKey # TailKey /\ HeadKey \notin Indices /\ TailKey \notin Indices
  /\ Indices \subseteq Keys /\ Indices \subseteq Nat /\ MaxIndex \in Nat
  /\ 0 \in Indices
  /\ \A k \in AppKeys \cup {VersionKey} :
       k \in Keys /\ k \notin Indices /\ k # HeadKey /\ k # TailKey
BY KeysAreDistinct, MaxIndexIsNat DEF Keys, Indices, SystemKeys

\* The head and the tail of a typed state are indices.
LEMMA NumberFacts ==
  ASSUME NEW s, StateTyped(s)
  PROVE  QueueHead(s.kv) \in Indices /\ QueueTail(s.kv) \in Indices
BY KeyFacts DEF StateTyped, QueueHead, QueueTail, NumberAt

\* Roles and replies are no part of the queue.
LEMMA RolesSound ==
  ASSUME NEW s, Sound(s), NEW a \in Accounts, NEW r \in {"admin", "attestor"}
  PROVE  /\ Sound(GrantTo(s, a, r)) /\ Sound(RevokeFrom(s, a, r))
         /\ GrantTo(s, a, r).nonces = s.nonces /\ RevokeFrom(s, a, r).nonces = s.nonces
<1>1. s \in States
  BY DEF Sound, StateTyped
<1>2. s.roles \cup {<<a, r>>} \in SUBSET Roles /\ s.roles \ {<<a, r>>} \in SUBSET Roles
  BY <1>1 DEF States, Roles
<1> DEFINE g == GrantTo(s, a, r)
           f == RevokeFrom(s, a, r)
<1>3. /\ g \in States /\ g.kv = s.kv /\ g.pushed = s.pushed /\ g.popped = s.popped
      /\ g.nonces = s.nonces
  BY <1>1, <1>2 DEF States, GrantTo
<1>4. /\ f \in States /\ f.kv = s.kv /\ f.pushed = s.pushed /\ f.popped = s.popped
      /\ f.nonces = s.nonces
  BY <1>1, <1>2 DEF States, RevokeFrom
<1> HIDE DEF g, f
<1>5. Sound(g) /\ Sound(f)
  BY <1>3, <1>4 DEF Sound, StateTyped, QueueIntactIn
<1>6. QED
  BY <1>3, <1>4, <1>5 DEF g, f

\* A reply is no part of the queue.
LEMMA ReplySound ==
  ASSUME NEW s, Sound(s), NEW m \in Replies
  PROVE  /\ Sound([s EXCEPT !.replies = Append(@, m)])
         /\ [s EXCEPT !.replies = Append(@, m)].nonces = s.nonces
<1> DEFINE t == [s EXCEPT !.replies = Append(@, m)]
<1>1. s \in States
  BY DEF Sound, StateTyped
<1>2. Append(s.replies, m) \in Seq(Replies)
  BY <1>1, AppendProperties DEF States
<1>3. /\ t \in States /\ t.kv = s.kv /\ t.pushed = s.pushed /\ t.popped = s.popped
      /\ t.nonces = s.nonces
  BY <1>1, <1>2 DEF States
<1> HIDE DEF t
<1>4. Sound(t)
  BY <1>3 DEF Sound, StateTyped, QueueIntactIn
<1>5. QED
  BY <1>3, <1>4 DEF t

\* A used nonce is no part of the queue.
LEMMA NonceSound ==
  ASSUME NEW s, Sound(s), NEW req \in ForwardRequests, req.nonce + 1 <= MaxNonce
  PROVE  /\ Sound(UseNonce(s, req))
         /\ UseNonce(s, req).nonces = [s.nonces EXCEPT ![req.from] = req.nonce + 1]
         /\ UseNonce(s, req).kv = s.kv
<1> DEFINE t == UseNonce(s, req)
<1>1. s \in States
  BY DEF Sound, StateTyped
<1>2. req.from \in Accounts /\ req.nonce + 1 \in 0 .. MaxNonce
  BY BoundsAssumption DEF ForwardRequests
<1>3. [s.nonces EXCEPT ![req.from] = req.nonce + 1] \in [Accounts -> 0 .. MaxNonce]
  BY <1>1, <1>2 DEF States
<1>4. /\ t \in States /\ t.kv = s.kv /\ t.pushed = s.pushed /\ t.popped = s.popped
      /\ t.nonces = [s.nonces EXCEPT ![req.from] = req.nonce + 1]
  BY <1>1, <1>3 DEF States, UseNonce
<1> HIDE DEF t
<1>5. Sound(t)
  BY <1>4 DEF Sound, StateTyped, QueueIntactIn
<1>6. QED
  BY <1>4, <1>5 DEF t

\* The updates of a call touch no key of the queue.
LEMMA UpdatesSound ==
  ASSUME NEW s, Sound(s), NEW c \in Calls
  PROVE  Sound(Updated(s, c)) /\ Updated(s, c).nonces = s.nonces
<1> DEFINE t == Updated(s, c)
           v == ApplyUpdates(s.kv, c.updates)
<1>1. s \in States
  BY DEF Sound, StateTyped
<1>2. c.updates \in [AppKeys \cup {VersionKey} -> Nat \cup {NoValue, Undefined}]
  BY CallsAssumption
<1>3. s.kv \in [Keys -> Values]
  BY <1>1 DEF States
<1>4. /\ DOMAIN v = Keys
      /\ \A k \in Keys \ (AppKeys \cup {VersionKey}) : v[k] = s.kv[k]
  BY <1>2, <1>3 DEF ApplyUpdates
<1>5. \A k \in AppKeys \cup {VersionKey} : v[k] \in Nat \cup {NoValue}
  <2>1. TAKE k \in AppKeys \cup {VersionKey}
  <2>2. k \in Keys /\ s.kv[k] \in Nat \cup {NoValue}
    BY KeyFacts DEF Sound, StateTyped
  <2>3. v[k] = IF c.updates[k] # Undefined THEN c.updates[k] ELSE s.kv[k]
    BY <1>2, <1>3, <2>2 DEF ApplyUpdates
  <2>4. c.updates[k] \in Nat \cup {NoValue, Undefined}
    BY <1>2
  <2>5. QED
    BY <2>2, <2>3, <2>4
<1>6. v \in [Keys -> Values]
  <2>1. \A k \in Keys : v[k] \in Values
    BY <1>3, <1>4, <1>5 DEF Values
  <2>2. v = [k \in Keys |-> v[k]]
    BY <1>3 DEF ApplyUpdates
  <2>3. QED
    BY <2>1, <2>2
<1>7. v[HeadKey] = s.kv[HeadKey] /\ v[TailKey] = s.kv[TailKey]
  BY <1>4, KeyFacts
<1>8. \A i \in Indices : v[i] = s.kv[i]
  BY <1>4, KeyFacts
<1> HIDE DEF v
<1>9. /\ t \in States /\ t.kv = v /\ t.pushed = s.pushed /\ t.popped = s.popped
      /\ t.nonces = s.nonces
  BY <1>1, <1>6 DEF States, Updated, v
<1> HIDE DEF t
<1>10. StateTyped(t)
  BY <1>5, <1>7, <1>9 DEF Sound, StateTyped
<1>11. QueueHead(t.kv) = QueueHead(s.kv) /\ QueueTail(t.kv) = QueueTail(s.kv)
  BY <1>7, <1>9 DEF QueueHead, QueueTail
<1>12. QueueIntactIn(t)
  BY <1>8, <1>9, <1>11 DEF Sound, QueueIntactIn
<1>13. QED
  BY <1>9, <1>10, <1>12 DEF t, Sound

\* A pushed message lands behind the others.
LEMMA PushSound ==
  ASSUME NEW s, Sound(s), NEW m \in Payload, CanPush(s.kv)
  PROVE  LET t == [s EXCEPT !.kv = PushMessage(@, m), !.pushed = Append(@, m)]
         IN  Sound(t) /\ t.nonces = s.nonces
<1> DEFINE t == [s EXCEPT !.kv = PushMessage(@, m), !.pushed = Append(@, m)]
           v == PushMessage(s.kv, m)
           p == Append(s.pushed, m)
           n == QueueTail(s.kv)
<1>1. s \in States
  BY DEF Sound, StateTyped
<1>2. n \in Indices /\ n + 1 \in Indices /\ n \in Nat
  BY NumberFacts, KeyFacts DEF Sound, CanPush, Indices
<1>3. s.kv \in [Keys -> Values] /\ s.pushed \in Seq(Payload)
  BY <1>1 DEF States
<1>4. /\ p \in Seq(Payload) /\ Len(p) = Len(s.pushed) + 1 /\ p[Len(s.pushed) + 1] = m
      /\ \A i \in 1 .. Len(s.pushed) : p[i] = s.pushed[i]
  BY <1>3, AppendProperties
<1>5. v[n] = m /\ v[TailKey] = n + 1 /\ v[HeadKey] = s.kv[HeadKey]
  BY <1>2, <1>3, KeyFacts DEF PushMessage
<1>6. \A k \in Keys : k # n /\ k # TailKey => v[k] = s.kv[k]
  BY <1>3 DEF PushMessage
<1>7. v \in [Keys -> Values]
  BY <1>2, <1>3, KeyFacts DEF PushMessage, Values
<1> HIDE DEF v, p, n
<1>8. /\ t \in States /\ t.kv = v /\ t.pushed = p /\ t.popped = s.popped
      /\ t.nonces = s.nonces
  BY <1>1, <1>4, <1>7 DEF States, v, p
<1> HIDE DEF t
<1>9. \A k \in AppKeys \cup {VersionKey} : v[k] = s.kv[k]
  BY <1>2, <1>6, KeyFacts
<1>10. StateTyped(t)
  <2>1. \A k \in {HeadKey, TailKey} : v[k] \in Indices \cup {NoValue}
    BY <1>2, <1>5 DEF Sound, StateTyped
  <2>2. QED
    BY <1>8, <1>9, <2>1 DEF Sound, StateTyped
<1>11. QueueHead(v) = QueueHead(s.kv) /\ QueueTail(v) = n + 1
  <2>1. n + 1 # NoValue
    BY <1>2, MarkersAreDistinct
  <2>2. QED
    BY <1>5, <2>1 DEF QueueHead, QueueTail, NumberAt
<1>12. n = Len(s.pushed)
  BY DEF Sound, QueueIntactIn, n
<1>13. /\ s.popped \in Nat /\ s.popped <= n
       /\ QueueHead(s.kv) <= s.popped /\ (~Evm => QueueHead(s.kv) = s.popped)
  BY <1>1, KeyFacts DEF Sound, QueueIntactIn, States, n
<1>14. \A i \in Indices :
         v[i] = IF s.popped <= i /\ i < n + 1 THEN p[i + 1] ELSE NoValue
  <2>1. TAKE i \in Indices
  <2>2. i \in Nat /\ i \in Keys /\ i # TailKey
    BY KeyFacts
  <2>3. s.kv[i] = IF s.popped <= i /\ i < n THEN s.pushed[i + 1] ELSE NoValue
    BY DEF Sound, QueueIntactIn, n
  <2>4. CASE i = n
    BY <1>4, <1>5, <1>12, <1>13, <2>2, <2>4
  <2>5. CASE i # n
    <3>1. v[i] = s.kv[i]
      BY <1>6, <2>2, <2>5
    <3>2. i < n => p[i + 1] = s.pushed[i + 1]
      BY <1>2, <1>4, <1>12, <2>2
    <3>3. i < n <=> i < n + 1
      BY <1>2, <2>2, <2>5
    <3>4. QED
      BY <2>3, <3>1, <3>2, <3>3
  <2>6. QED
    BY <2>4, <2>5
<1>15. QueueIntactIn(t)
  BY <1>2, <1>4, <1>8, <1>11, <1>12, <1>13, <1>14 DEF QueueIntactIn
<1>16. QED
  BY <1>8, <1>10, <1>15 DEF t, v, p, Sound

\* Popping up to a valid target removes the messages below it and no other.
LEMMA PopSound ==
  ASSUME NEW s, Sound(s), NEW target \in Nat, ValidPopTarget(s.kv, target)
  PROVE  Sound(PopMessages(s, target)) /\ PopMessages(s, target).nonces = s.nonces
<1> DEFINE t == PopMessages(s, target)
           v == PopTo(s.kv, target)
           h == QueueHead(s.kv)
           q == QueueTail(s.kv)
           n == IF target > s.popped THEN target ELSE s.popped
<1>1. s \in States
  BY DEF Sound, StateTyped
<1>2. /\ h \in Indices /\ q \in Indices /\ h \in Nat /\ q \in Nat /\ target <= q
      /\ s.popped \in Nat /\ h <= s.popped /\ s.popped <= q
      /\ (~Evm => h = s.popped) /\ (~Evm => h <= target)
  BY <1>1, NumberFacts, KeyFacts
     DEF Sound, QueueIntactIn, States, ValidPopTarget
<1>3. target \in Indices
  BY <1>2, MaxIndexIsNat DEF Indices
<1>4. /\ n \in Indices /\ target <= n /\ n <= q /\ s.popped <= n /\ n \in Nat
      /\ (n = target \/ n = s.popped) /\ (~Evm => n = target)
  BY <1>1, <1>2, <1>3 DEF States
<1>5. s.kv \in [Keys -> Values]
  BY <1>1 DEF States
<1>6. s.kv[HeadKey] \in Indices \cup {NoValue} /\ target # NoValue
  BY MarkersAreDistinct DEF Sound, StateTyped
<1>7. v \in [Keys -> Values]
  BY <1>5, KeyFacts DEF PopTo, Values
<1>8. v[TailKey] = s.kv[TailKey]
  <2>1. TailKey \notin h .. target - 1
    BY KeysAreDistinct, <1>2 DEF SystemKeys
  <2>2. QED
    BY <1>5, <2>1, KeyFacts DEF PopTo, h
<1>9. \A k \in AppKeys \cup {VersionKey} : v[k] = s.kv[k]
  <2>1. \A k \in AppKeys \cup {VersionKey} : k \notin Nat
    BY KeysAreDistinct DEF SystemKeys
  <2>2. \A k \in AppKeys \cup {VersionKey} : k \notin h .. target - 1
    BY <1>2, <2>1
  <2>3. QED
    BY <1>5, <2>2, KeyFacts DEF PopTo, h
<1>10. NumberAt(v[HeadKey]) = target /\ v[HeadKey] \in Indices \cup {NoValue}
  <2>1. CASE ~Evm /\ target = h
    BY <1>3, <1>6, <2>1 DEF PopTo, h, QueueHead
  <2>2. CASE ~(~Evm /\ target = h)
    <3>1. v[HeadKey] = target
      BY <1>5, <2>2, KeyFacts DEF PopTo, h
    <3>2. QED
      BY <1>3, <1>6, <3>1 DEF NumberAt
  <2>3. QED
    BY <2>1, <2>2
<1>11. \A i \in Indices : v[i] = IF h <= i /\ i < target THEN NoValue ELSE s.kv[i]
  <2>1. TAKE i \in Indices
  <2>2. i \in Nat /\ i \in Keys /\ i # HeadKey
    BY KeyFacts
  <2>3. i \in h .. target - 1 <=> h <= i /\ i < target
    BY <1>2, <2>2
  <2>4. CASE ~Evm /\ target = h
    <3>1. v[i] = s.kv[i] /\ ~(h <= i /\ i < target)
      BY <1>2, <2>2, <2>4 DEF PopTo, h
    <3>2. QED
      BY <3>1
  <2>5. CASE ~(~Evm /\ target = h)
    BY <1>5, <2>2, <2>3, <2>5 DEF PopTo, h
  <2>6. QED
    BY <2>4, <2>5
<1> HIDE DEF v, h, q
<1>12. \A i \in Indices :
         v[i] = IF n <= i /\ i < q THEN s.pushed[i + 1] ELSE NoValue
  <2>1. TAKE i \in Indices
  <2>2. i \in Nat
    BY KeyFacts
  <2>3. s.kv[i] = IF s.popped <= i /\ i < q THEN s.pushed[i + 1] ELSE NoValue
    BY DEF Sound, QueueIntactIn, q
  <2>4. v[i] = IF h <= i /\ i < target THEN NoValue ELSE s.kv[i]
    BY <1>11
  <2>5. CASE n <= i
    <3>1. ~(i < target) /\ s.popped <= i
      BY <1>2, <1>3, <1>4, <2>2, <2>5
    <3>2. QED
      BY <2>3, <2>4, <2>5, <3>1
  <2>6. CASE ~(n <= i)
    <3>1. (h <= i /\ i < target) \/ ~(s.popped <= i)
      BY <1>2, <1>3, <1>4, <2>2, <2>6
    <3>2. QED
      BY <2>3, <2>4, <2>6, <3>1
  <2>7. QED
    BY <2>5, <2>6
<1> HIDE DEF n
<1>13. /\ t \in States /\ t.kv = v /\ t.pushed = s.pushed /\ t.popped = n
       /\ t.nonces = s.nonces
  BY <1>1, <1>4, <1>7 DEF States, PopMessages, v, n
<1> HIDE DEF t
<1>14. QueueHead(v) = target /\ QueueTail(v) = q
  BY <1>8, <1>10 DEF QueueHead, QueueTail, q
<1>15. StateTyped(t)
  BY <1>8, <1>9, <1>10, <1>13 DEF Sound, StateTyped
<1>16. q = Len(s.pushed)
  BY DEF Sound, QueueIntactIn, q
<1>17. QueueIntactIn(t)
  BY <1>4, <1>12, <1>13, <1>14, <1>16 DEF QueueIntactIn
<1>18. QED
  BY <1>13, <1>15, <1>17 DEF Sound, t

\* Whatever action a call performs, the state it leaves is sound.
LEMMA ActionSound ==
  ASSUME NEW s, Sound(s), NEW action \in Actions, ~ActionFails(s, action)
  PROVE  Sound(AfterAction(s, action)) /\ AfterAction(s, action).nonces = s.nonces
<1>1. CASE action.type = "reply"
  <2>1. action.reply \in Replies
    BY <1>1 DEF Actions
  <2>2. AfterAction(s, action) = [s EXCEPT !.replies = Append(@, action.reply)]
    BY <1>1 DEF AfterAction
  <2>3. QED
    BY <2>1, <2>2, ReplySound
<1>2. CASE action.type = "head"
  <2>1. action.target \in Nat /\ ValidPopTarget(s.kv, action.target)
    BY <1>2 DEF Actions, ActionFails
  <2>2. AfterAction(s, action) = PopMessages(s, action.target)
    BY <1>2 DEF AfterAction
  <2>3. QED
    BY <2>1, <2>2, PopSound
<1>3. CASE action.type = "grant"
  <2>1. action.account \in Accounts
    BY <1>3 DEF Actions
  <2>2. AfterAction(s, action) = GrantTo(s, action.account, "attestor")
    BY <1>3 DEF AfterAction
  <2>3. QED
    <3>1. /\ Sound(GrantTo(s, action.account, "attestor"))
          /\ GrantTo(s, action.account, "attestor").nonces = s.nonces
      BY <2>1, RolesSound
    <3>2. QED
      BY <2>2, <3>1
<1>4. CASE action.type = "revoke"
  <2>1. action.account \in Accounts
    BY <1>4 DEF Actions
  <2>2. AfterAction(s, action) = RevokeFrom(s, action.account, "attestor")
    BY <1>4 DEF AfterAction
  <2>3. QED
    <3>1. /\ Sound(RevokeFrom(s, action.account, "attestor"))
          /\ RevokeFrom(s, action.account, "attestor").nonces = s.nonces
      BY <2>1, RolesSound
    <3>2. QED
      BY <2>2, <3>1
<1>5. QED
  BY <1>1, <1>2, <1>3, <1>4 DEF Actions

-----------------------------------------------------------------------------
(* The invariant.                                                          *)

\* The contract starts sound.
LEMMA InitAnchor == Init => AnchorInv
<1> SUFFICES ASSUME Init PROVE AnchorInv
  OBVIOUS
<1>1. contract \in States
  BY AccountsAssumption, BoundsAssumption, KeyFacts DEF Init, States, Roles, Values
<1>2. \A k \in Keys : contract.kv[k] = NoValue
  BY DEF Init
<1>3. StateTyped(contract)
  BY <1>1, <1>2, KeyFacts DEF StateTyped
<1>4. QueueHead(contract.kv) = 0 /\ QueueTail(contract.kv) = 0
  BY <1>2, KeyFacts DEF QueueHead, QueueTail, NumberAt
<1>5. contract.popped = 0 /\ Len(contract.pushed) = 0 /\ ~Executing
  BY DEF Init, Executing
<1>6. \A i \in Indices : ~(i < 0) /\ i \in Keys
  BY KeyFacts
<1>7. QueueIntact
  BY <1>2, <1>4, <1>5, <1>6 DEF QueueIntact, QueueIntactIn
<1>8. TypeOK
  BY <1>3, <1>5 DEF Init, TypeOK
<1>9. NoReplay
  BY <1>5 DEF Init, NoReplay, NonceSoundOf, Relaying
<1>10. QED
  BY <1>7, <1>8, <1>9 DEF AnchorInv

\* A step between calls that changes no nonce, and nothing but the contract.
LEMMA IdleStep ==
  ASSUME AnchorInv, call = NoCall, Sound(contract'), contract'.nonces = contract.nonces,
         UNCHANGED <<call, requests, executed>>
  PROVE  AnchorInv'
<1>1. ~Executing /\ ~Executing'
  BY DEF Executing
<1>2. TypeOK'
  BY <1>1 DEF AnchorInv, TypeOK, Sound
<1>3. QueueIntact'
  BY <1>1 DEF QueueIntact, Sound
<1>4. NoReplay'
  BY <1>1 DEF AnchorInv, NoReplay, NonceSoundOf, Relaying
<1>5. QED
  BY <1>2, <1>3, <1>4 DEF AnchorInv

\* A change of a role keeps the invariant.
LEMMA RoleSteps ==
  ASSUME AnchorInv, RoleStep
  PROVE  AnchorInv'
<1>1. Sound(contract)
  BY DEF AnchorInv, TypeOK, QueueIntact, Sound
<1>2. PICK a \in Accounts, r \in {"admin", "attestor"} :
        /\ call = NoCall /\ UNCHANGED <<call, requests, executed>>
        /\ contract' = GrantTo(contract, a, r) \/ contract' = RevokeFrom(contract, a, r)
  BY DEF RoleStep, GrantRole, RevokeRole, RenounceRole
<1>3. /\ Sound(GrantTo(contract, a, r)) /\ Sound(RevokeFrom(contract, a, r))
      /\ GrantTo(contract, a, r).nonces = contract.nonces
      /\ RevokeFrom(contract, a, r).nonces = contract.nonces
  BY <1>1, RolesSound
<1>4. Sound(contract') /\ contract'.nonces = contract.nonces
  <2>1. CASE contract' = GrantTo(contract, a, r)
    BY <1>3, <2>1
  <2>2. CASE contract' = RevokeFrom(contract, a, r)
    BY <1>3, <2>2
  <2>3. QED
    BY <1>2, <2>1, <2>2
<1>5. QED
  BY <1>2, <1>4, IdleStep

\* A push between two calls keeps the invariant.
LEMMA PushStep ==
  ASSUME AnchorInv, NEW by \in Accounts, NEW m \in Payload, Push(by, m)
  PROVE  AnchorInv'
<1>1. Sound(contract)
  BY DEF AnchorInv, TypeOK, QueueIntact, Sound
<1>2. Sound(contract') /\ contract'.nonces = contract.nonces
  BY <1>1, PushSound DEF Push
<1>3. QED
  BY <1>2, IdleStep DEF Push

\* A signed request changes nothing in the contract.
LEMMA SignStep ==
  ASSUME AnchorInv, NEW a \in Accounts, NEW to \in Destinations,
         NEW n \in 0 .. MaxNonce, NEW c \in Calls, Sign(a, to, n, c)
  PROVE  AnchorInv'
<1>1. ~Executing /\ ~Executing'
  BY DEF Executing, Sign
<1>2. [from |-> a, to |-> to, nonce |-> n, call |-> c] \in ForwardRequests
  BY DEF ForwardRequests
<1>3. TypeOK'
  BY <1>1, <1>2 DEF AnchorInv, TypeOK, Sign
<1>4. QueueIntact' /\ NoReplay'
  BY <1>1 DEF AnchorInv, QueueIntact, NoReplay, NonceSoundOf, Relaying, Sign
<1>5. QED
  BY <1>3, <1>4 DEF AnchorInv

\* A direct call begins with its updates and can be reverted.
LEMMA BeginCallStep ==
  ASSUME AnchorInv, NEW a \in Accounts, NEW c \in Calls, BeginCall(a, c)
  PROVE  AnchorInv'
<1>1. Sound(contract) /\ ~Executing
  BY DEF AnchorInv, TypeOK, QueueIntact, Sound, BeginCall, Executing
<1>2. Sound(contract') /\ contract'.nonces = contract.nonces
  BY <1>1, UpdatesSound DEF BeginCall
<1>3. call' = [by |-> a, request |-> Direct, todo |-> c.actions, saved |-> contract]
  BY DEF BeginCall
<1>4. contract \in States /\ c.actions \in Seq(Actions)
  BY <1>1, CallsAssumption DEF Sound, StateTyped
<1>5. call' \in ExecutingCalls /\ call'.request = Direct /\ call'.saved = contract
  BY <1>3, <1>4 DEF ExecutingCalls
<1>6. TypeOK'
  BY <1>1, <1>2, <1>5 DEF AnchorInv, TypeOK, Sound, BeginCall
<1>7. QueueIntact'
  BY <1>1, <1>2, <1>5 DEF QueueIntact, Sound
<1>8. \A b \in Accounts : ~Relaying(b) /\ ~Relaying(b)'
  BY <1>1, <1>5 DEF Relaying
<1>9. NoReplay'
  <2>1. executed' = executed
    BY DEF BeginCall
  <2> SUFFICES ASSUME NEW b \in Accounts PROVE NonceSoundOf(b)'
    BY DEF NoReplay
  <2>3. /\ contract.nonces[b] = Len(executed[b])
        /\ \A i \in 1 .. Len(executed[b]) :
             executed[b][i].nonce = i - 1 /\ executed[b][i].to = This
             /\ executed[b][i].from = b
    BY <1>8 DEF AnchorInv, NoReplay, NonceSoundOf
  <2>4. QED
    BY <1>2, <1>5, <1>8, <2>1, <2>3 DEF NonceSoundOf
<1>10. QED
  BY <1>6, <1>7, <1>9 DEF AnchorInv

\* A relayed request uses the nonce that follows those of the requests of its
\* signer that took effect.
LEMMA BeginMetaCallStep ==
  ASSUME AnchorInv, NEW req \in requests, BeginMetaCall(req)
  PROVE  AnchorInv'
<1> DEFINE used == UseNonce(contract, req)
           a == req.from
<1>1. Sound(contract) /\ ~Executing
  BY DEF AnchorInv, TypeOK, QueueIntact, Sound, BeginMetaCall, Executing
<1>2. req \in ForwardRequests /\ req.nonce + 1 <= MaxNonce
  BY DEF AnchorInv, TypeOK, BeginMetaCall
<1>3. a \in Accounts /\ req.call \in Calls /\ req.nonce \in Nat
  BY <1>2 DEF ForwardRequests
<1>4. req.to = This /\ req.nonce = contract.nonces[a]
  BY DEF BeginMetaCall, Verify
<1>5. Sound(used) /\ used.nonces = [contract.nonces EXCEPT ![a] = req.nonce + 1]
  BY <1>1, <1>2, NonceSound
<1>6. contract' = Updated(used, req.call)
  BY DEF BeginMetaCall
<1>7. call' = [by |-> a, request |-> req, todo |-> req.call.actions, saved |-> contract]
  BY DEF BeginMetaCall
<1> HIDE DEF used
<1>8. /\ Sound(contract')
      /\ contract'.nonces = [contract.nonces EXCEPT ![a] = req.nonce + 1]
  BY <1>3, <1>5, <1>6, UpdatesSound
<1>9. contract \in States /\ req.call.actions \in Seq(Actions)
  BY <1>1, <1>3, CallsAssumption DEF Sound, StateTyped
<1>10. /\ call' \in ExecutingCalls /\ call'.request = req /\ call'.saved = contract
       /\ call'.by = a
  BY <1>2, <1>3, <1>7, <1>9 DEF ExecutingCalls
<1>11. Executing' /\ req # Direct
  BY <1>2, <1>10, NothingAssumption DEF Executing
<1>12. TypeOK'
  BY <1>1, <1>8, <1>10 DEF AnchorInv, TypeOK, Sound, BeginMetaCall
<1>13. QueueIntact'
  BY <1>1, <1>8, <1>10 DEF QueueIntact, Sound
<1>14. executed' = executed /\ contract.nonces \in [Accounts -> 0 .. MaxNonce]
  BY <1>9 DEF BeginMetaCall, States
<1>15. \A b \in Accounts : ~Relaying(b) /\ (Relaying(b)' <=> b = a)
  BY <1>1, <1>10, <1>11 DEF Relaying
<1>16. NoReplay'
  <2> SUFFICES ASSUME NEW b \in Accounts PROVE NonceSoundOf(b)'
    BY DEF NoReplay
  <2>2. contract.nonces[b] = Len(executed[b])
    BY <1>15 DEF AnchorInv, NoReplay, NonceSoundOf
  <2>3. \A i \in 1 .. Len(executed[b]) :
          executed[b][i].nonce = i - 1 /\ executed[b][i].to = This /\ executed[b][i].from = b
    BY DEF AnchorInv, NoReplay, NonceSoundOf
  <2>4. contract'.nonces[b] = IF Relaying(b)' THEN Len(executed[b]) + 1 ELSE Len(executed[b])
    <3>1. CASE b = a
      BY <1>3, <1>4, <1>8, <1>14, <1>15, <2>2, <3>1
    <3>2. CASE b # a
      BY <1>8, <1>14, <1>15, <2>2, <3>2
    <3>3. QED
      BY <3>1, <3>2
  <2>5. Relaying(b)' => call'.request.nonce = Len(executed[b]) /\ call'.request.to = This
                        /\ call'.request.from = b
    BY <1>4, <1>10, <1>15, <2>2
  <2>6. call'.saved.nonces[b] = Len(executed[b])
    BY <1>10, <2>2
  <2>7. QED
    BY <1>10, <1>11, <1>14, <2>3, <2>4, <2>5, <2>6 DEF NonceSoundOf
<1>17. QED
  BY <1>12, <1>13, <1>16 DEF AnchorInv

\* An action keeps the contract sound and uses no nonce.
LEMMA HandleActionStep ==
  ASSUME AnchorInv, HandleAction
  PROVE  AnchorInv'
<1>1. Sound(contract) /\ Executing
  BY DEF AnchorInv, TypeOK, QueueIntact, Sound, HandleAction, Executing
<1>2. call \in ExecutingCalls /\ Sound(call.saved)
  BY <1>1 DEF AnchorInv, TypeOK, QueueIntact, Sound
<1>3. call.todo \in Seq(Actions) /\ call.todo # <<>>
  BY <1>2 DEF ExecutingCalls, HandleAction
<1>4. Head(call.todo) \in Actions /\ Tail(call.todo) \in Seq(Actions)
  BY <1>3, HeadTailProperties
<1>5. Sound(contract') /\ contract'.nonces = contract.nonces
  BY <1>1, <1>4, ActionSound DEF HandleAction
<1>6. /\ call' \in ExecutingCalls /\ call'.by = call.by
      /\ call'.request = call.request /\ call'.saved = call.saved
  BY <1>2, <1>4 DEF ExecutingCalls, HandleAction
<1>7. Executing'
  BY <1>6, NothingAssumption DEF Executing
<1>8. requests' = requests /\ executed' = executed
  BY DEF HandleAction
<1>9. TypeOK'
  BY <1>2, <1>5, <1>6, <1>8 DEF AnchorInv, TypeOK, Sound
<1>10. QueueIntact'
  BY <1>2, <1>5, <1>6 DEF QueueIntact, Sound
<1>11. \A a \in Accounts : Relaying(a)' <=> Relaying(a)
  BY <1>1, <1>6, <1>7 DEF Relaying
<1>12. NoReplay'
  <2> SUFFICES ASSUME NEW a \in Accounts PROVE NonceSoundOf(a)'
    BY DEF NoReplay
  <2>2. /\ contract.nonces[a] = IF Relaying(a) THEN Len(executed[a]) + 1 ELSE Len(executed[a])
        /\ call.saved.nonces[a] = Len(executed[a])
        /\ \A i \in 1 .. Len(executed[a]) :
             executed[a][i].nonce = i - 1 /\ executed[a][i].to = This
             /\ executed[a][i].from = a
        /\ Relaying(a) =>
             /\ call.request.nonce = Len(executed[a])
             /\ call.request.to = This /\ call.request.from = a
    BY <1>1 DEF AnchorInv, NoReplay, NonceSoundOf
  <2>3. QED
    BY <1>5, <1>6, <1>8, <1>11, <2>2 DEF NonceSoundOf
<1>13. QED
  BY <1>9, <1>10, <1>12 DEF AnchorInv

\* A reverted call gives the nonce of its request back.
LEMMA RevertStep ==
  ASSUME AnchorInv, Revert
  PROVE  AnchorInv'
<1>1. Executing /\ ~Executing' /\ contract' = call.saved
  BY DEF Revert, Executing
<1>2. Sound(contract')
  BY <1>1 DEF AnchorInv, TypeOK, QueueIntact, Sound
<1>3. requests' = requests /\ executed' = executed
  BY DEF Revert
<1>4. TypeOK' /\ QueueIntact'
  BY <1>1, <1>2, <1>3 DEF AnchorInv, TypeOK, QueueIntact, Sound
<1>5. NoReplay'
  BY <1>1, <1>3 DEF AnchorInv, NoReplay, NonceSoundOf, Relaying
<1>6. QED
  BY <1>4, <1>5 DEF AnchorInv

\* A request that took effect is the next one of its signer.
LEMMA EndCallStep ==
  ASSUME AnchorInv, EndCall
  PROVE  AnchorInv'
<1>1. Executing /\ ~Executing' /\ contract' = contract /\ requests' = requests
  BY DEF EndCall, Executing
<1>2. QueueIntact'
  BY <1>1 DEF AnchorInv, QueueIntact
<1>3. /\ call \in ExecutingCalls /\ executed \in [Accounts -> Seq(ForwardRequests)]
      /\ requests \subseteq ForwardRequests
  BY <1>1 DEF AnchorInv, TypeOK
<1>4. call.by \in Accounts /\ call.request \in ForwardRequests \cup {Direct}
  BY <1>3 DEF ExecutingCalls
<1>5. CASE call.request = Direct
  <2>1. executed' = executed
    BY <1>5 DEF EndCall
  <2>2. TypeOK'
    BY <1>1, <2>1 DEF AnchorInv, TypeOK
  <2>3. \A a \in Accounts : ~Relaying(a) /\ ~Relaying(a)'
    BY <1>1, <1>5 DEF Relaying
  <2>4. NoReplay'
    BY <1>1, <2>1, <2>3 DEF AnchorInv, NoReplay, NonceSoundOf
  <2>5. QED
    BY <1>2, <2>2, <2>4 DEF AnchorInv
<1>6. CASE call.request # Direct
  <2> DEFINE b == call.by
             done == executed[b]
             now == Append(done, call.request)
  <2>1. executed' = [executed EXCEPT ![b] = now]
    BY <1>6 DEF EndCall
  <2>2. done \in Seq(ForwardRequests) /\ call.request \in ForwardRequests
    BY <1>3, <1>4, <1>6
  <2>3. /\ now \in Seq(ForwardRequests) /\ Len(now) = Len(done) + 1 /\ Len(done) \in Nat
        /\ now[Len(done) + 1] = call.request
        /\ \A i \in 1 .. Len(done) : now[i] = done[i]
    BY <2>2, AppendProperties
  <2>4. Relaying(b) /\ \A a \in Accounts : (Relaying(a) <=> a = b) /\ ~Relaying(a)'
    BY <1>1, <1>6 DEF Relaying
  <2>5. /\ contract.nonces[b] = Len(done) + 1
        /\ call.request.nonce = Len(done) /\ call.request.to = This /\ call.request.from = b
        /\ \A i \in 1 .. Len(done) :
             done[i].nonce = i - 1 /\ done[i].to = This /\ done[i].from = b
    BY <1>4, <2>4 DEF AnchorInv, NoReplay, NonceSoundOf
  <2> HIDE DEF now
  <2>6. executed'[b] = now /\ \A a \in Accounts : a # b => executed'[a] = executed[a]
    BY <1>3, <1>4, <2>1
  <2>7. TypeOK'
    BY <1>1, <1>3, <2>1, <2>3 DEF AnchorInv, TypeOK
  <2>8. \A i \in 1 .. Len(now) :
          now[i].nonce = i - 1 /\ now[i].to = This /\ now[i].from = b
    <3>1. TAKE i \in 1 .. Len(now)
    <3>2. CASE i = Len(done) + 1
      BY <2>3, <2>5, <3>2
    <3>3. CASE i # Len(done) + 1
      <4>1. i \in 1 .. Len(done)
        BY <2>3, <3>3
      <4>2. QED
        BY <2>3, <2>5, <4>1
    <3>4. QED
      BY <3>2, <3>3
  <2>9. NoReplay'
    <3> SUFFICES ASSUME NEW a \in Accounts PROVE NonceSoundOf(a)'
      BY DEF NoReplay
    <3>2. CASE a = b
      BY <1>1, <2>3, <2>4, <2>5, <2>6, <2>8, <3>2 DEF NonceSoundOf
    <3>3. CASE a # b
      <4>1. /\ contract.nonces[a] = Len(executed[a])
            /\ \A i \in 1 .. Len(executed[a]) :
                 executed[a][i].nonce = i - 1 /\ executed[a][i].to = This
                 /\ executed[a][i].from = a
        BY <2>4, <3>3 DEF AnchorInv, NoReplay, NonceSoundOf
      <4>2. QED
        BY <1>1, <2>4, <2>6, <3>3, <4>1 DEF NonceSoundOf
    <3>4. QED
      BY <3>2, <3>3
  <2>10. QED
    BY <1>2, <2>7, <2>9 DEF AnchorInv
<1>7. QED
  BY <1>5, <1>6

\* Every step keeps the inductive invariant.
LEMMA NextAnchor == AnchorInv /\ [Next]_vars => AnchorInv'
<1> SUFFICES ASSUME AnchorInv, [Next]_vars PROVE AnchorInv'
  OBVIOUS
<1>1. CASE RoleStep
  BY <1>1, RoleSteps
<1>2. CASE \E by \in Accounts, m \in Payload : Push(by, m)
  BY <1>2, PushStep
<1>3. CASE \E a \in Accounts, to \in Destinations, n \in 0 .. MaxNonce, c \in Calls :
             Sign(a, to, n, c)
  BY <1>3, SignStep
<1>4. CASE \E a \in Accounts, c \in Calls : BeginCall(a, c)
  BY <1>4, BeginCallStep
<1>5. CASE \E req \in requests : BeginMetaCall(req)
  BY <1>5, BeginMetaCallStep
<1>6. CASE HandleAction \/ Revert \/ EndCall
  BY <1>6, HandleActionStep, RevertStep, EndCallStep
<1>7. CASE UNCHANGED vars
  BY <1>7 DEF vars, AnchorInv, TypeOK, QueueIntact, NoReplay, NonceSoundOf, Relaying, Executing
<1>8. QED
  BY <1>1, <1>2, <1>3, <1>4, <1>5, <1>6, <1>7 DEF Next

\* Every reachable state satisfies the inductive invariant, whatever calls
\* attestors make and however requests are relayed.
THEOREM AnchorInvariance == Spec => []AnchorInv
<1>1. Init => AnchorInv
  BY InitAnchor
<1>2. AnchorInv /\ [Next]_vars => AnchorInv'
  BY NextAnchor
<1>3. QED
  BY <1>1, <1>2, PTL DEF Spec

\* useMetaTx and ensure_meta_tx_valid let each signed request take effect at
\* most once, in the order of the nonces, and a request that fails keeps its
\* nonce.
THEOREM ReplayFreedom == Spec => []NoReplay
<1>1. AnchorInv => NoReplay
  BY DEF AnchorInv
<1>2. QED
  BY <1>1, AnchorInvariance, PTL

\* The storage and the stack of the call keep their types: no index or nonce
\* overflows before the call that would need it fails.
THEOREM TypeCorrectness == Spec => []TypeOK
<1>1. AnchorInv => TypeOK
  BY DEF AnchorInv
<1>2. QED
  BY <1>1, AnchorInvariance, PTL

\* push_message and pop_to keep the queue intact under any list of actions,
\* at every step of a call and when it is reverted.
THEOREM QueueIntegrity == Spec => []QueueIntact
<1>1. AnchorInv => QueueIntact
  BY DEF AnchorInv
<1>2. QED
  BY <1>1, AnchorInvariance, PTL

-----------------------------------------------------------------------------
(* The effect of a prefix of a list of actions.                            *)

\* The positions before j of the actions of c that are of one of the types.
Before(c, types, j) == {i \in DOMAIN c.actions : c.actions[i].type \in types /\ i < j}

Latest(S) == CHOOSE x \in S : \A y \in S : x >= y

\* The head of the queue and the attestors when the actions before position j
\* have run in state s.
HeadAt(s, c, j) ==
  LET before == Before(c, {"head"}, j)
  IN  IF before = {} THEN QueueHead(s.kv) ELSE c.actions[Latest(before)].target

AttestorAt(s, c, a, j) ==
  LET before == {i \in Before(c, {"grant", "revoke"}, j) : c.actions[i].account = a}
  IN  IF before = {} THEN HasRole(s, a, "attestor") ELSE c.actions[Latest(before)].type = "grant"

\* The store, when the actions before position j have run.
StoreAt(s, c, j) ==
  [k \in Keys |->
     IF /\ k \in Indices
        /\ \E i \in Before(c, {"head"}, j) : HeadAt(s, c, i) <= k /\ k < c.actions[i].target
     THEN NoValue
     ELSE IF k = HeadKey /\ (\/ HeadAt(s, c, j) # QueueHead(s.kv)
                             \/ Evm /\ Before(c, {"head"}, j) # {}) THEN HeadAt(s, c, j)
     ELSE IF k \in AppKeys \cup {VersionKey} /\ c.updates[k] # Undefined THEN c.updates[k]
     ELSE s.kv[k]]

\* The position of the n-th reply.
NthReply(c, n) ==
  CHOOSE i \in {k \in DOMAIN c.actions : c.actions[k].type = "reply"} :
    Cardinality(Before(c, {"reply"}, i + 1)) = n

RepliesAt(c, j) ==
  [n \in 1 .. Cardinality(Before(c, {"reply"}, j)) |-> c.actions[NthReply(c, n)].reply]

\* The action at position i can run after those before it.
Runs(s, c, i) ==
  LET action == c.actions[i]
  IN  /\ action.type = "reply" => action.reply \notin RefusedReplies
      /\ action.type = "head" =>
           action.target <= QueueTail(s.kv) /\ (Evm \/ HeadAt(s, c, i) <= action.target)
      /\ action.type \in {"grant", "revoke"} =>
           Evm \/ (AttestorAt(s, c, action.account, i) <=> action.type = "revoke")

\* State t is what the actions of c before position j make of state s.
Progress(s, t, c, j) ==
  /\ \A i \in DOMAIN c.actions : i < j => Runs(s, c, i)
  /\ QueueHead(t.kv) = HeadAt(s, c, j)
  /\ Evm \/ QueueHead(s.kv) <= HeadAt(s, c, j)
  /\ t.kv = StoreAt(s, c, j)
  /\ \A a \in Accounts :
       /\ HasRole(t, a, "attestor") <=> AttestorAt(s, c, a, j)
       /\ HasRole(t, a, "admin") <=> HasRole(s, a, "admin")
  /\ t.replies = s.replies \o RepliesAt(c, j)

\* The call that executes has run a prefix of its actions.
Underway ==
  Executing =>
    \E c \in Calls : \E n \in 0 .. Len(c.actions) :
      /\ Len(call.todo) = Len(c.actions) - n
      /\ \A i \in 1 .. Len(call.todo) : call.todo[i] = c.actions[n + i]
      /\ Accepted(call.saved, call.by, c)
      /\ Progress(call.saved, contract, c, n + 1)
      /\ contract.nonces = IF call.request = Direct THEN call.saved.nonces
                           ELSE [call.saved.nonces EXCEPT ![call.by] = @ + 1]

-----------------------------------------------------------------------------
(* One more action.                                                        *)

\* The actions of a call, position by position.
LEMMA CallFacts ==
  ASSUME NEW c \in Calls
  PROVE  /\ c.actions \in Seq(Actions) /\ Len(c.actions) \in Nat
         /\ DOMAIN c.actions = 1 .. Len(c.actions)
         /\ \A i \in DOMAIN c.actions :
              /\ c.actions[i] \in Actions
              /\ c.actions[i].type \in {"reply", "head", "grant", "revoke"}
              /\ c.actions[i].type = "head" => c.actions[i].target \in Nat
              /\ c.actions[i].type = "reply" => c.actions[i].reply \in Replies
              /\ c.actions[i].type \in {"grant", "revoke"} => c.actions[i].account \in Accounts
<1>1. c.actions \in Seq(Actions)
  BY CallsAssumption
<1>2. Len(c.actions) \in Nat /\ DOMAIN c.actions = 1 .. Len(c.actions)
  BY <1>1, LenProperties
<1>3. \A i \in DOMAIN c.actions : c.actions[i] \in Actions
  BY <1>1, <1>2, ElementOfSeq
<1>4. QED
  BY <1>1, <1>2, <1>3 DEF Actions

\* The next position joins those before it, if it is of one of the types.
LEMMA BeforeStep ==
  ASSUME NEW c \in Calls, NEW j \in DOMAIN c.actions, NEW types
  PROVE  Before(c, types, j + 1) =
           IF c.actions[j].type \in types THEN Before(c, types, j) \cup {j}
           ELSE Before(c, types, j)
<1>1. DOMAIN c.actions \subseteq Nat
  BY CallFacts
<1>2. \A i \in DOMAIN c.actions : i < j + 1 <=> i < j \/ i = j
  BY <1>1
<1>3. QED
  BY <1>2 DEF Before

\* The latest of the positions before j + 1 is j, if it is one of them.
LEMMA LatestIsLast ==
  ASSUME NEW S \in SUBSET Nat, NEW j \in S, \A i \in S : i < j + 1
  PROVE  Latest(S) = j
<1>1. \A i \in S : j >= i
  OBVIOUS
<1>2. \A x \in S : (\A y \in S : x >= y) => x = j
  BY <1>1
<1>3. QED
  BY <1>1, <1>2 DEF Latest

\* An action moves the head to its target or leaves it.
LEMMA HeadStep ==
  ASSUME NEW s, NEW c \in Calls, NEW j \in DOMAIN c.actions
  PROVE  HeadAt(s, c, j + 1) = IF c.actions[j].type = "head" THEN c.actions[j].target
                               ELSE HeadAt(s, c, j)
<1> DEFINE B(k) == Before(c, {"head"}, k)
<1>1. B(j + 1) = IF c.actions[j].type = "head" THEN B(j) \cup {j} ELSE B(j)
  BY BeforeStep
<1>2. CASE c.actions[j].type = "head"
  <2>1. j \in B(j + 1) /\ B(j + 1) \in SUBSET Nat /\ \A i \in B(j + 1) : i < j + 1
    BY <1>1, <1>2, CallFacts DEF Before
  <2>2. Latest(B(j + 1)) = j
    BY <2>1, LatestIsLast
  <2>3. QED
    BY <1>2, <2>1, <2>2 DEF HeadAt
<1>3. CASE c.actions[j].type # "head"
  BY <1>1, <1>3 DEF HeadAt
<1>4. QED
  BY <1>2, <1>3

\* An action grants or revokes the role of one account or of none.
LEMMA AttestorStep ==
  ASSUME NEW s, NEW c \in Calls, NEW j \in DOMAIN c.actions, NEW a
  PROVE  AttestorAt(s, c, a, j + 1) <=>
           IF c.actions[j].type \in {"grant", "revoke"} /\ c.actions[j].account = a
           THEN c.actions[j].type = "grant" ELSE AttestorAt(s, c, a, j)
<1> DEFINE A(k) == Before(c, {"grant", "revoke"}, k)
           B(k) == {i \in A(k) : c.actions[i].account = a}
<1>1. B(j + 1) = IF c.actions[j].type \in {"grant", "revoke"} /\ c.actions[j].account = a
                 THEN B(j) \cup {j} ELSE B(j)
  <2>1. A(j + 1) = IF c.actions[j].type \in {"grant", "revoke"} THEN A(j) \cup {j} ELSE A(j)
    BY BeforeStep
  <2> HIDE DEF A
  <2>2. QED
    BY <2>1
<1>2. CASE c.actions[j].type \in {"grant", "revoke"} /\ c.actions[j].account = a
  <2>1. j \in B(j + 1) /\ B(j + 1) \in SUBSET Nat /\ \A i \in B(j + 1) : i < j + 1
    BY <1>1, <1>2, CallFacts DEF Before
  <2>2. Latest(B(j + 1)) = j
    BY <2>1, LatestIsLast
  <2>3. QED
    BY <1>2, <2>1, <2>2 DEF AttestorAt
<1>3. CASE ~(c.actions[j].type \in {"grant", "revoke"} /\ c.actions[j].account = a)
  BY <1>1, <1>3 DEF AttestorAt
<1>4. QED
  BY <1>2, <1>3

\* Only an action on the head changes the store.
LEMMA StoreKept ==
  ASSUME NEW s, NEW c \in Calls, NEW j \in DOMAIN c.actions, c.actions[j].type # "head"
  PROVE  StoreAt(s, c, j + 1) = StoreAt(s, c, j)
<1>1. Before(c, {"head"}, j + 1) = Before(c, {"head"}, j)
  BY BeforeStep
<1>2. HeadAt(s, c, j + 1) = HeadAt(s, c, j)
  BY HeadStep
<1>3. QED
  BY <1>1, <1>2 DEF StoreAt

\* No action changes the tail.
LEMMA TailKept ==
  ASSUME NEW s, NEW c, NEW j
  PROVE  QueueTail(StoreAt(s, c, j)) = QueueTail(s.kv)
BY KeyFacts DEF StoreAt, QueueTail

\* pop_to turns the store before an action on the head into the one after it.
LEMMA StoreStep ==
  ASSUME NEW s, StateTyped(s), NEW c \in Calls, NEW j \in DOMAIN c.actions,
         c.actions[j].type = "head",
         QueueHead(StoreAt(s, c, j)) = HeadAt(s, c, j), HeadAt(s, c, j) \in Nat,
         Evm \/ QueueHead(s.kv) <= HeadAt(s, c, j),
         ValidPopTarget(StoreAt(s, c, j), c.actions[j].target)
  PROVE  /\ PopTo(StoreAt(s, c, j), c.actions[j].target) = StoreAt(s, c, j + 1)
         /\ Evm \/ QueueHead(s.kv) <= HeadAt(s, c, j + 1)
<1> DEFINE v == StoreAt(s, c, j)
           w == StoreAt(s, c, j + 1)
           h == HeadAt(s, c, j)
           g == c.actions[j].target
           B == Before(c, {"head"}, j)
<1>1. g \in Nat /\ h \in Nat /\ QueueHead(s.kv) \in Nat
  BY CallFacts, NumberFacts, KeyFacts
<1>2. Evm \/ h <= g
  BY DEF ValidPopTarget
<1>3. HeadAt(s, c, j + 1) = g /\ Before(c, {"head"}, j + 1) = B \cup {j} /\ j \notin B
  BY HeadStep, BeforeStep, CallFacts DEF Before
<1>4. \A k \in Keys : v[k] =
        IF k \in Indices /\ \E i \in B : HeadAt(s, c, i) <= k /\ k < c.actions[i].target
        THEN NoValue
        ELSE IF k = HeadKey /\ (h # QueueHead(s.kv) \/ (Evm /\ B # {})) THEN h
        ELSE IF k \in AppKeys \cup {VersionKey} /\ c.updates[k] # Undefined THEN c.updates[k]
        ELSE s.kv[k]
  BY DEF StoreAt
<1>5. \A k \in Keys : w[k] =
        IF k \in Indices /\ \E i \in B \cup {j} : HeadAt(s, c, i) <= k /\ k < c.actions[i].target
        THEN NoValue
        ELSE IF k = HeadKey /\ (g # QueueHead(s.kv) \/ Evm) THEN g
        ELSE IF k \in AppKeys \cup {VersionKey} /\ c.updates[k] # Undefined THEN c.updates[k]
        ELSE s.kv[k]
  BY <1>3 DEF StoreAt
<1>6. DOMAIN v = Keys /\ w = [k \in Keys |-> w[k]] /\ v = [k \in Keys |-> v[k]]
  BY DEF StoreAt
<1>7. \A k \in Keys : k \in Nat => k \in Indices
  BY KeysAreDistinct DEF Keys
<1> HIDE DEF v, w, B
<1>8. ASSUME NEW k \in Indices
      PROVE  (\E i \in B \cup {j} : HeadAt(s, c, i) <= k /\ k < c.actions[i].target)
             <=> (\E i \in B : HeadAt(s, c, i) <= k /\ k < c.actions[i].target)
                 \/ k \in h .. g - 1
  <2>1. k \in h .. g - 1 <=> h <= k /\ k < g
    BY <1>1, KeyFacts
  <2>2. QED
    BY <2>1
<1>9. CASE ~Evm /\ g = h
  <2>1. \A k \in Keys : w[k] = v[k]
    <3>1. TAKE k \in Keys
    <3>2. k \notin h .. g - 1
      BY <1>1, <1>9
    <3>3. QED
      BY <1>4, <1>5, <1>8, <1>9, <3>2
  <2>2. w = v
    BY <1>6, <2>1
  <2>3. PopTo(v, g) = v
    BY <1>9 DEF PopTo, v
  <2>4. QED
    BY <1>2, <1>3, <1>9, <2>2, <2>3 DEF v, w
<1>10. CASE ~(~Evm /\ g = h)
  <2>1. PopTo(v, g) = [k \in Keys |-> IF k = HeadKey THEN g
                                      ELSE IF k \in h .. g - 1 THEN NoValue ELSE v[k]]
    BY <1>6, <1>10 DEF PopTo, v
  <2>2. Evm \/ g # QueueHead(s.kv)
    BY <1>1, <1>2, <1>10
  <2>3. ASSUME NEW k \in Keys
        PROVE  w[k] = IF k = HeadKey THEN g
                      ELSE IF k \in h .. g - 1 THEN NoValue ELSE v[k]
    <3>1. CASE k = HeadKey
      BY <1>5, <2>2, <3>1, KeyFacts
    <3>2. CASE k # HeadKey /\ k \in h .. g - 1
      <4>1. k \in Indices
        BY <1>1, <1>7, <3>2
      <4>2. QED
        BY <1>5, <1>8, <3>2, <4>1
    <3>3. CASE k # HeadKey /\ k \notin h .. g - 1
      BY <1>4, <1>5, <1>8, <3>3
    <3>4. QED
      BY <3>1, <3>2, <3>3
  <2>4. w = [k \in Keys |-> IF k = HeadKey THEN g
                            ELSE IF k \in h .. g - 1 THEN NoValue ELSE v[k]]
    BY <1>6, <2>3
  <2>5. QueueHead(s.kv) <= g \/ Evm
    BY <1>1, <1>2
  <2>6. QED
    BY <1>3, <2>1, <2>4, <2>5 DEF v, w
<1>11. QED
  BY <1>9, <1>10

\* A function on 1 .. n is a sequence of length n.
LEMMA FunctionIsSeq ==
  ASSUME NEW S, NEW n \in Nat, NEW f \in [1 .. n -> S]
  PROVE  f \in Seq(S) /\ Len(f) = n
<1>1. f \in Seq(S)
  BY SeqDef
<1>2. DOMAIN f = 1 .. Len(f) /\ Len(f) \in Nat
  BY <1>1, LenProperties
<1>3. ~(n < Len(f)) /\ ~(Len(f) < n)
  <2>1. ~(n < Len(f))
    <3>1. SUFFICES ASSUME n < Len(f) PROVE FALSE
      OBVIOUS
    <3>2. Len(f) \in 1 .. Len(f) /\ Len(f) \notin 1 .. n
      BY <1>2, <3>1
    <3>3. QED
      BY <1>2, <3>2
  <2>2. ~(Len(f) < n)
    <3>1. SUFFICES ASSUME Len(f) < n PROVE FALSE
      OBVIOUS
    <3>2. n \in 1 .. n /\ n \notin 1 .. Len(f)
      BY <1>2, <3>1
    <3>3. QED
      BY <1>2, <3>2
  <2>3. QED
    BY <2>1, <2>2
<1>4. QED
  BY <1>1, <1>2, <1>3

\* The positions before j are finitely many, and more as j grows.
LEMMA BeforeFinite ==
  ASSUME NEW c \in Calls, NEW types, NEW j
  PROVE  /\ IsFiniteSet(Before(c, types, j))
         /\ Cardinality(Before(c, types, j)) \in Nat
<1>1. IsFiniteSet(1 .. Len(c.actions))
  BY CallFacts, FS_Interval
<1>2. Before(c, types, j) \in SUBSET (1 .. Len(c.actions))
  BY CallFacts DEF Before
<1>3. IsFiniteSet(Before(c, types, j))
  BY <1>1, <1>2, FS_Subset
<1>4. QED
  BY <1>3, FS_CardinalityType

\* The reply at position j is the one after those before it.
LEMMA NthReplyIs ==
  ASSUME NEW c \in Calls, NEW j \in DOMAIN c.actions, c.actions[j].type = "reply"
  PROVE  NthReply(c, Cardinality(Before(c, {"reply"}, j)) + 1) = j
<1> DEFINE P == {k \in DOMAIN c.actions : c.actions[k].type = "reply"}
           B(k) == Before(c, {"reply"}, k)
           n == Cardinality(B(j)) + 1
<1>1. P \subseteq Nat /\ j \in P
  BY CallFacts
<1>2. \A k \in P : B(k + 1) = {i \in P : i <= k}
  BY CallFacts DEF Before
<1>3. Cardinality(B(j + 1)) = n
  <2>1. B(j + 1) = B(j) \cup {j} /\ j \notin B(j)
    BY BeforeStep, <1>1 DEF Before
  <2>2. IsFiniteSet(B(j))
    BY BeforeFinite
  <2> HIDE DEF B
  <2>3. QED
    BY <2>1, <2>2, FS_AddElement
<1>4. ASSUME NEW a \in P, NEW b \in P, a < b
      PROVE  Cardinality(B(a + 1)) # Cardinality(B(b + 1))
  <2>1. B(a + 1) \in SUBSET B(b + 1) /\ b \in B(b + 1) /\ b \notin B(a + 1)
    BY <1>1, <1>2, <1>4
  <2>2. IsFiniteSet(B(b + 1))
    BY BeforeFinite
  <2> HIDE DEF B
  <2>3. QED
    BY <2>1, <2>2, FS_Subset
<1>5. ASSUME NEW k \in P, Cardinality(B(k + 1)) = n PROVE k = j
  <2>1. ~(k < j) /\ ~(j < k)
    BY <1>1, <1>3, <1>4, <1>5
  <2>2. QED
    BY <1>1, <2>1
<1>6. NthReply(c, n) = CHOOSE k \in P : Cardinality(B(k + 1)) = n
  BY DEF NthReply
<1> HIDE DEF P, B, n
<1>7. NthReply(c, n) = j
  BY <1>1, <1>3, <1>5, <1>6
<1>8. QED
  BY <1>7 DEF n, B

\* An action that is no reply leaves the replies.
LEMMA RepliesKept ==
  ASSUME NEW c \in Calls, NEW j \in DOMAIN c.actions, c.actions[j].type # "reply"
  PROVE  RepliesAt(c, j + 1) = RepliesAt(c, j)
<1>1. Before(c, {"reply"}, j + 1) = Before(c, {"reply"}, j)
  BY BeforeStep
<1>2. QED
  BY <1>1 DEF RepliesAt

\* A reply follows those before it.
LEMMA RepliesStep ==
  ASSUME NEW s, NEW t, NEW c \in Calls, NEW j \in DOMAIN c.actions,
         c.actions[j].type = "reply",
         s \in Seq(Replies), t \in Seq(Replies), t = s \o RepliesAt(c, j)
  PROVE  Append(t, c.actions[j].reply) = s \o RepliesAt(c, j + 1)
<1> DEFINE n == Cardinality(Before(c, {"reply"}, j))
           f == RepliesAt(c, j)
           g == RepliesAt(c, j + 1)
           m == c.actions[j].reply
           S == Replies \cup {f[i] : i \in 1 .. n}
<1>1. n \in Nat /\ m \in Replies
  BY BeforeFinite, CallFacts
<1>2. Cardinality(Before(c, {"reply"}, j + 1)) = n + 1
  <2> DEFINE B == Before(c, {"reply"}, j)
  <2>1. Before(c, {"reply"}, j + 1) = B \cup {j} /\ j \notin B
    BY BeforeStep, CallFacts DEF Before
  <2>2. IsFiniteSet(B)
    BY BeforeFinite
  <2> HIDE DEF B
  <2>3. Cardinality(B \cup {j}) = Cardinality(B) + 1
    BY <2>1, <2>2, FS_AddElement
  <2>4. QED
    BY <2>1, <2>3 DEF B
<1>3. f = [i \in 1 .. n |-> c.actions[NthReply(c, i)].reply]
  BY DEF RepliesAt
<1>4. g = [i \in 1 .. n + 1 |-> c.actions[NthReply(c, i)].reply]
  BY <1>2 DEF RepliesAt
<1>5. g[n + 1] = m /\ \A i \in 1 .. n : g[i] = f[i]
  BY <1>1, <1>3, <1>4, NthReplyIs
<1>6. f \in [1 .. n -> S] /\ g \in [1 .. n + 1 -> S]
  <2> HIDE DEF f, g, n
  <2>1. \A i \in 1 .. n + 1 : i \in 1 .. n \/ i = n + 1
    BY <1>1
  <2>2. \A i \in 1 .. n + 1 : g[i] \in S
    BY <1>1, <1>5, <2>1
  <2>3. DOMAIN g = 1 .. n + 1 /\ g = [i \in 1 .. n + 1 |-> g[i]]
    BY <1>4
  <2>4. DOMAIN f = 1 .. n /\ f = [i \in 1 .. n |-> f[i]]
    BY <1>3
  <2>5. QED
    BY <2>2, <2>3, <2>4
<1> HIDE DEF f, g, n, S
<1>7. /\ f \in Seq(S) /\ Len(f) = n /\ g \in Seq(S) /\ Len(g) = n + 1
  BY <1>1, <1>6, FunctionIsSeq
<1>8. s \in Seq(S) /\ t \in Seq(S) /\ m \in S
  BY <1>1, SeqMonotonic DEF S
<1>9. /\ s \o g \in Seq(S) /\ Len(s \o g) = Len(s) + n + 1
      /\ \A i \in 1 .. Len(s) + n + 1 :
           (s \o g)[i] = IF i <= Len(s) THEN s[i] ELSE g[i - Len(s)]
  <2>1. Len(s) \in Nat
    BY <1>8, LenProperties
  <2>2. QED
    BY <1>1, <1>7, <1>8, <2>1, ConcatProperties
<1>10. /\ Len(t) = Len(s) + n
       /\ \A i \in 1 .. Len(s) + n : t[i] = IF i <= Len(s) THEN s[i] ELSE f[i - Len(s)]
  BY <1>7, <1>8, ConcatProperties DEF f
<1>11. /\ Append(t, m) \in Seq(S) /\ Len(Append(t, m)) = Len(t) + 1
       /\ Append(t, m)[Len(t) + 1] = m
       /\ \A i \in 1 .. Len(t) : Append(t, m)[i] = t[i]
  BY <1>8, AppendProperties
<1>12. Len(s) \in Nat
  BY <1>8, LenProperties
<1>13. ASSUME NEW i \in 1 .. Len(s) + n + 1 PROVE Append(t, m)[i] = (s \o g)[i]
  <2>1. CASE i = Len(s) + n + 1
    <3>1. Append(t, m)[i] = m
      BY <1>10, <1>11, <2>1
    <3>2. (s \o g)[i] = g[n + 1]
      BY <1>1, <1>9, <1>12, <2>1
    <3>3. QED
      BY <1>5, <3>1, <3>2
  <2>2. CASE i # Len(s) + n + 1
    <3>1. i \in 1 .. Len(s) + n
      BY <1>1, <1>12, <2>2
    <3>2. Append(t, m)[i] = IF i <= Len(s) THEN s[i] ELSE f[i - Len(s)]
      BY <1>10, <1>11, <3>1
    <3>3. ~(i <= Len(s)) => i - Len(s) \in 1 .. n
      BY <1>1, <1>12, <3>1
    <3>4. QED
      BY <1>5, <1>9, <3>2, <3>3
  <2>3. QED
    BY <2>1, <2>2
<1>14. Append(t, m) = s \o g
  <2>1. Len(Append(t, m)) = Len(s \o g)
    BY <1>1, <1>9, <1>10, <1>11, <1>12
  <2>2. \A i \in 1 .. Len(Append(t, m)) : Append(t, m)[i] = (s \o g)[i]
    BY <1>9, <1>13, <2>1
  <2>3. Append(t, m) \in Seq(S) /\ s \o g \in Seq(S)
    BY <1>9, <1>11
  <2>4. QED
    BY <2>1, <2>2, <2>3, SeqEqual
<1>15. QED
  BY <1>14 DEF g

\* A call starts with its updates and none of its actions.
LEMMA ProgressStart ==
  ASSUME NEW s, StateTyped(s), NEW c \in Calls, NEW t,
         t.kv = ApplyUpdates(s.kv, c.updates), t.roles = s.roles, t.replies = s.replies
  PROVE  Progress(s, t, c, 1)
<1>1. \A types : Before(c, types, 1) = {}
  BY CallFacts DEF Before
<1>2. \A i \in DOMAIN c.actions : ~(i < 1)
  BY CallFacts
<1>3. HeadAt(s, c, 1) = QueueHead(s.kv)
  BY <1>1 DEF HeadAt
<1>4. \A a \in Accounts : AttestorAt(s, c, a, 1) <=> HasRole(s, a, "attestor")
  BY <1>1 DEF AttestorAt
<1>5. /\ s.kv \in [Keys -> Values] /\ s.replies \in Seq(Replies)
      /\ c.updates \in [AppKeys \cup {VersionKey} -> Nat \cup {NoValue, Undefined}]
  BY CallsAssumption DEF StateTyped, States
<1>6. t.kv = [k \in Keys |-> IF k \in AppKeys \cup {VersionKey} /\ c.updates[k] # Undefined
                             THEN c.updates[k] ELSE s.kv[k]]
  BY <1>5 DEF ApplyUpdates
<1>7. t.kv = StoreAt(s, c, 1)
  BY <1>1, <1>3, <1>6 DEF StoreAt
<1>8. QueueHead(t.kv) = QueueHead(s.kv)
  BY <1>6, KeyFacts DEF QueueHead
<1>9. t.replies = s.replies \o RepliesAt(c, 1)
  <2>1. Cardinality(Before(c, {"reply"}, 1)) = 0
    BY <1>1, FS_EmptySet
  <2>2. RepliesAt(c, 1) = <<>>
    BY <2>1 DEF RepliesAt
  <2>3. QED
    BY <1>5, <2>2, ConcatEmptySeq
<1>10. QueueHead(s.kv) <= QueueHead(s.kv)
  <2>1. QueueHead(s.kv) \in Nat
    BY NumberFacts, KeyFacts
  <2>2. QED
    BY <2>1
<1>11. QED
  BY <1>2, <1>3, <1>4, <1>7, <1>8, <1>9, <1>10 DEF Progress, HasRole

\* An action that does not fail is one the whole list allows at its position.
LEMMA ActionRuns ==
  ASSUME NEW s, NEW t, NEW c \in Calls, NEW j \in DOMAIN c.actions,
         Progress(s, t, c, j), ~ActionFails(t, c.actions[j])
  PROVE  Runs(s, c, j)
<1> DEFINE action == c.actions[j]
<1>1. QueueTail(t.kv) = QueueTail(s.kv) /\ QueueHead(t.kv) = HeadAt(s, c, j)
  BY TailKept DEF Progress
<1>2. action.type = "head" =>
        action.target <= QueueTail(s.kv) /\ (Evm \/ HeadAt(s, c, j) <= action.target)
  BY <1>1 DEF ActionFails, ValidPopTarget
<1>3. action.type = "reply" => action.reply \notin RefusedReplies
  BY DEF ActionFails
<1>4. action.type \in {"grant", "revoke"} =>
        Evm \/ (AttestorAt(s, c, action.account, j) <=> action.type = "revoke")
  <2>1. SUFFICES ASSUME action.type \in {"grant", "revoke"}, ~Evm
                 PROVE  AttestorAt(s, c, action.account, j) <=> action.type = "revoke"
    OBVIOUS
  <2>2. action.account \in Accounts
    BY <2>1, CallFacts
  <2>3. HasRole(t, action.account, "attestor") <=> AttestorAt(s, c, action.account, j)
    BY <2>2 DEF Progress
  <2>4. QED
    BY <2>1, <2>3 DEF ActionFails, GrantFails, RevokeFails
<1>5. QED
  BY <1>2, <1>3, <1>4 DEF Runs

\* pop_to leaves the head at its target.
LEMMA PopSetsHead ==
  ASSUME NEW s, StateTyped(s), NEW target \in Nat
  PROVE  QueueHead(PopTo(s.kv, target)) = target
<1>1. s.kv \in [Keys -> Values] /\ HeadKey \in Keys /\ target # NoValue
  BY KeyFacts, MarkersAreDistinct DEF StateTyped, States
<1>2. QED
  BY <1>1 DEF PopTo, QueueHead, NumberAt

\* A step of a call takes it one action further.
LEMMA ProgressStep ==
  ASSUME NEW s, StateTyped(s), NEW t, StateTyped(t), NEW c \in Calls,
         NEW j \in DOMAIN c.actions,
         Progress(s, t, c, j), ~ActionFails(t, c.actions[j])
  PROVE  Progress(s, AfterAction(t, c.actions[j]), c, j + 1)
<1> DEFINE action == c.actions[j]
           u == AfterAction(t, action)
<1>1. /\ t \in States /\ s.replies \in Seq(Replies) /\ t.replies \in Seq(Replies)
      /\ t.roles \subseteq Roles
  BY DEF StateTyped, States
<1>2. \A i \in DOMAIN c.actions : i < j + 1 => Runs(s, c, i)
  <2>1. \A i \in DOMAIN c.actions : i < j + 1 => i < j \/ i = j
    BY CallFacts
  <2>2. QED
    BY <2>1, ActionRuns DEF Progress
<1>3. CASE action.type = "head"
  <2>1. u.kv = PopTo(t.kv, action.target) /\ u.roles = t.roles /\ u.replies = t.replies
    BY <1>1, <1>3 DEF AfterAction, PopMessages, States
  <2>2. ValidPopTarget(t.kv, action.target)
    BY <1>3 DEF ActionFails
  <2>3. HeadAt(s, c, j) \in Nat
    BY NumberFacts, KeyFacts DEF Progress
  <2>4. /\ PopTo(t.kv, action.target) = StoreAt(s, c, j + 1)
        /\ Evm \/ QueueHead(s.kv) <= HeadAt(s, c, j + 1)
    BY <1>3, <2>2, <2>3, StoreStep DEF Progress
  <2>5. QueueHead(PopTo(t.kv, action.target)) = action.target
    BY <1>1, <1>3, <2>2, PopSetsHead, CallFacts
  <2>6. HeadAt(s, c, j + 1) = action.target /\ RepliesAt(c, j + 1) = RepliesAt(c, j)
    BY <1>3, HeadStep, RepliesKept
  <2>7. \A a \in Accounts : AttestorAt(s, c, a, j + 1) <=> AttestorAt(s, c, a, j)
    BY <1>3, AttestorStep
  <2>8. QED
    BY <1>2, <2>1, <2>4, <2>5, <2>6, <2>7 DEF Progress, HasRole
<1>4. CASE action.type = "reply"
  <2>1. u.kv = t.kv /\ u.roles = t.roles /\ u.replies = Append(t.replies, action.reply)
    BY <1>1, <1>4 DEF AfterAction, States
  <2>2. HeadAt(s, c, j + 1) = HeadAt(s, c, j) /\ StoreAt(s, c, j + 1) = StoreAt(s, c, j)
    BY <1>4, HeadStep, StoreKept
  <2>3. \A a \in Accounts : AttestorAt(s, c, a, j + 1) <=> AttestorAt(s, c, a, j)
    BY <1>4, AttestorStep
  <2>4. Append(t.replies, action.reply) = s.replies \o RepliesAt(c, j + 1)
    BY <1>1, <1>4, RepliesStep DEF Progress
  <2>5. QED
    BY <1>2, <2>1, <2>2, <2>3, <2>4 DEF Progress, HasRole
<1>5. CASE action.type \in {"grant", "revoke"}
  <2>1. u.kv = t.kv /\ u.replies = t.replies
    BY <1>1, <1>5 DEF AfterAction, GrantTo, RevokeFrom, States
  <2>2. u.roles = IF action.type = "grant" THEN t.roles \cup {<<action.account, "attestor">>}
                  ELSE t.roles \ {<<action.account, "attestor">>}
    BY <1>1, <1>5 DEF AfterAction, GrantTo, RevokeFrom, States
  <2>3. /\ HeadAt(s, c, j + 1) = HeadAt(s, c, j) /\ StoreAt(s, c, j + 1) = StoreAt(s, c, j)
        /\ RepliesAt(c, j + 1) = RepliesAt(c, j)
    BY <1>5, HeadStep, StoreKept, RepliesKept
  <2>4. ASSUME NEW a \in Accounts
        PROVE  /\ HasRole(u, a, "attestor") <=> AttestorAt(s, c, a, j + 1)
               /\ HasRole(u, a, "admin") <=> HasRole(s, a, "admin")
    <3>1. /\ HasRole(t, a, "attestor") <=> AttestorAt(s, c, a, j)
          /\ HasRole(t, a, "admin") <=> HasRole(s, a, "admin")
      BY DEF Progress
    <3>2. <<a, "admin">> # <<action.account, "attestor">>
      OBVIOUS
    <3>3. <<a, "attestor">> = <<action.account, "attestor">> <=> action.account = a
      OBVIOUS
    <3>4. HasRole(u, a, "admin") <=> HasRole(t, a, "admin")
      BY <2>2, <3>2 DEF HasRole
    <3>5. HasRole(u, a, "attestor") <=>
            IF action.account = a THEN action.type = "grant" ELSE HasRole(t, a, "attestor")
      BY <1>5, <2>2, <3>3 DEF HasRole
    <3>6. QED
      BY <1>5, <3>1, <3>4, <3>5, AttestorStep
  <2>5. QED
    BY <1>2, <2>1, <2>3, <2>4 DEF Progress
<1>6. QED
  BY <1>3, <1>4, <1>5, CallFacts

-----------------------------------------------------------------------------
(* A call is one atomic step.                                              *)

\* A direct call starts at its first action.
LEMMA BeginCallUnderway ==
  ASSUME AnchorInv, NEW a \in Accounts, NEW d \in Calls, BeginCall(a, d)
  PROVE  Underway'
<1>1. StateTyped(contract) /\ contract \in States
  BY DEF AnchorInv, TypeOK, StateTyped
<1>2. contract' = Updated(contract, d) /\ Accepted(contract, a, d)
  BY DEF BeginCall
<1>3. /\ contract'.kv = ApplyUpdates(contract.kv, d.updates)
      /\ contract'.roles = contract.roles /\ contract'.replies = contract.replies
      /\ contract'.nonces = contract.nonces
  BY <1>1, <1>2 DEF Updated, States
<1>4. Progress(contract, contract', d, 1)
  BY <1>1, <1>3, ProgressStart
<1>5. /\ call'.by = a /\ call'.request = Direct /\ call'.todo = d.actions
      /\ call'.saved = contract
  BY DEF BeginCall
<1>6. /\ 0 \in 0 .. Len(d.actions) /\ Len(d.actions) = Len(d.actions) - 0 /\ 0 + 1 = 1
      /\ \A i \in 1 .. Len(d.actions) : d.actions[i] = d.actions[0 + i]
  BY CallFacts
<1>7. QED
  BY <1>2, <1>3, <1>4, <1>5, <1>6 DEF Underway

\* So does a relayed one, with its nonce used.
LEMMA BeginMetaCallUnderway ==
  ASSUME AnchorInv, NEW req \in requests, BeginMetaCall(req)
  PROVE  Underway'
<1> DEFINE used == UseNonce(contract, req)
           d == req.call
           a == req.from
<1>1. StateTyped(contract) /\ contract \in States
  BY DEF AnchorInv, TypeOK, StateTyped
<1>2. req \in ForwardRequests /\ d \in Calls /\ a \in Accounts /\ req # Direct
  BY NothingAssumption DEF AnchorInv, TypeOK, ForwardRequests
<1>3. contract' = Updated(used, d) /\ Accepted(used, a, d) /\ req.nonce = contract.nonces[a]
  BY DEF BeginMetaCall, Verify
<1>4. used.kv = contract.kv /\ used.roles = contract.roles
  BY <1>1, <1>3 DEF UseNonce, States
<1>5. /\ contract'.kv = ApplyUpdates(contract.kv, d.updates)
      /\ contract'.roles = contract.roles /\ contract'.replies = contract.replies
      /\ contract'.nonces = [contract.nonces EXCEPT ![a] = contract.nonces[a] + 1]
  BY <1>1, <1>3 DEF Updated, UseNonce, States
<1>6. Accepted(contract, a, d)
  BY <1>3, <1>4 DEF Accepted, HasRole
<1>7. Progress(contract, contract', d, 1)
  BY <1>1, <1>2, <1>5, ProgressStart
<1>8. /\ call'.by = a /\ call'.request = req /\ call'.todo = d.actions
      /\ call'.saved = contract
  BY DEF BeginMetaCall
<1>9. /\ 0 \in 0 .. Len(d.actions) /\ Len(d.actions) = Len(d.actions) - 0 /\ 0 + 1 = 1
      /\ \A i \in 1 .. Len(d.actions) : d.actions[i] = d.actions[0 + i]
  BY <1>2, CallFacts
<1>10. QED
  BY <1>2, <1>5, <1>6, <1>7, <1>8, <1>9 DEF Underway

\* Each action takes the call one position further.
LEMMA HandleActionUnderway ==
  ASSUME AnchorInv, Underway, HandleAction
  PROVE  Underway'
<1>1. /\ Executing /\ StateTyped(contract) /\ StateTyped(call.saved) /\ Sound(contract)
      /\ call \in ExecutingCalls
  BY DEF AnchorInv, TypeOK, QueueIntact, Sound, HandleAction, Executing
<1>2. PICK c \in Calls : \E n \in 0 .. Len(c.actions) :
        /\ Len(call.todo) = Len(c.actions) - n
        /\ \A i \in 1 .. Len(call.todo) : call.todo[i] = c.actions[n + i]
        /\ Accepted(call.saved, call.by, c)
        /\ Progress(call.saved, contract, c, n + 1)
        /\ contract.nonces = IF call.request = Direct THEN call.saved.nonces
                             ELSE [call.saved.nonces EXCEPT ![call.by] = @ + 1]
  BY <1>1 DEF Underway
<1>3. PICK n \in 0 .. Len(c.actions) :
        /\ Len(call.todo) = Len(c.actions) - n
        /\ \A i \in 1 .. Len(call.todo) : call.todo[i] = c.actions[n + i]
        /\ Accepted(call.saved, call.by, c)
        /\ Progress(call.saved, contract, c, n + 1)
        /\ contract.nonces = IF call.request = Direct THEN call.saved.nonces
                             ELSE [call.saved.nonces EXCEPT ![call.by] = @ + 1]
  BY <1>2
<1>4. /\ call.todo \in Seq(Actions) /\ call.todo # <<>> /\ Len(call.todo) \in Nat
      /\ Len(c.actions) \in Nat /\ DOMAIN c.actions = 1 .. Len(c.actions)
  BY <1>1, CallFacts, LenProperties DEF ExecutingCalls, HandleAction
<1>5. Len(call.todo) # 0 /\ Head(call.todo) = call.todo[1]
  BY <1>4, EmptySeq
<1>6. /\ n + 1 \in DOMAIN c.actions /\ n + 1 \in 0 .. Len(c.actions) /\ n \in Nat
      /\ Head(call.todo) = c.actions[n + 1]
  BY <1>3, <1>4, <1>5
<1>7. /\ Tail(call.todo) \in Seq(Actions) /\ Len(Tail(call.todo)) = Len(call.todo) - 1
      /\ \A i \in 1 .. Len(Tail(call.todo)) : Tail(call.todo)[i] = call.todo[i + 1]
  BY <1>4, HeadTailProperties
<1>8. /\ call'.by = call.by /\ call'.request = call.request /\ call'.saved = call.saved
      /\ call'.todo = Tail(call.todo)
  BY <1>1 DEF HandleAction, ExecutingCalls
<1>9. /\ contract' = AfterAction(contract, c.actions[n + 1])
      /\ ~ActionFails(contract, c.actions[n + 1])
  BY <1>6 DEF HandleAction
<1>10. Progress(call'.saved, contract', c, (n + 1) + 1)
  BY <1>1, <1>3, <1>6, <1>8, <1>9, ProgressStep
<1>11. contract'.nonces = contract.nonces
  BY <1>1, <1>6, <1>9, ActionSound, CallFacts
<1>12. /\ Len(call'.todo) = Len(c.actions) - (n + 1)
       /\ \A i \in 1 .. Len(call'.todo) : call'.todo[i] = c.actions[(n + 1) + i]
  <2>1. Len(call'.todo) = Len(c.actions) - (n + 1)
    BY <1>3, <1>4, <1>6, <1>7, <1>8
  <2>2. ASSUME NEW i \in 1 .. Len(call'.todo) PROVE call'.todo[i] = c.actions[(n + 1) + i]
    <3>1. i + 1 \in 1 .. Len(call.todo) /\ n + (i + 1) = (n + 1) + i
      BY <1>4, <1>6, <1>7, <1>8
    <3>2. QED
      BY <1>3, <1>7, <1>8, <3>1
  <2>3. QED
    BY <2>1, <2>2
<1>13. QED
  BY <1>3, <1>6, <1>8, <1>10, <1>11, <1>12 DEF Underway

\* Every step leaves a call that has run a prefix of its actions, or no call.
LEMMA UnderwayStep == AnchorInv /\ Underway /\ [Next]_vars => Underway'
<1> SUFFICES ASSUME AnchorInv, Underway, [Next]_vars PROVE Underway'
  OBVIOUS
<1>1. CASE RoleStep \/ Revert \/ EndCall
  <2>1. ~Executing'
    BY <1>1 DEF RoleStep, GrantRole, RevokeRole, RenounceRole, Revert, EndCall, Executing
  <2>2. QED
    BY <2>1 DEF Underway
<1>2. CASE \E by \in Accounts, m \in Payload : Push(by, m)
  BY <1>2 DEF Push, Underway, Executing
<1>3. CASE \E a \in Accounts, to \in Destinations, n \in 0 .. MaxNonce, c \in Calls :
             Sign(a, to, n, c)
  BY <1>3 DEF Sign, Underway, Executing
<1>4. CASE \E a \in Accounts, c \in Calls : BeginCall(a, c)
  BY <1>4, BeginCallUnderway
<1>5. CASE \E req \in requests : BeginMetaCall(req)
  BY <1>5, BeginMetaCallUnderway
<1>6. CASE HandleAction
  BY <1>6, HandleActionUnderway
<1>7. CASE UNCHANGED vars
  BY <1>7 DEF vars, Underway, Executing
<1>8. QED
  BY <1>1, <1>2, <1>3, <1>4, <1>5, <1>6, <1>7 DEF Next

\* The state of AtomicRollup: what a call that executes has not touched yet.
Mapped == IF Executing THEN call.saved ELSE contract

\* The abstract head of the queue is the one of this module.
LEMMA AtomicHead ==
  ASSUME NEW c, NEW j PROVE Atomic!HeadBefore(c, j) = HeadAt(Mapped, c, j)
BY DEF Atomic!HeadBefore, Atomic!Positions, Atomic!QueueHead, Atomic!NumberAt, Atomic!Max,
  HeadAt, Mapped, Before, QueueHead, NumberAt, Latest

\* An account is an attestor there exactly when it is one here.
LEMMA AtomicAttestor ==
  ASSUME NEW c, NEW a, NEW j
  PROVE  Atomic!AttestorBefore(c, a, j) <=> AttestorAt(Mapped, c, a, j)
<1>1. {i \in Atomic!Positions(c, {"grant", "revoke"}) : i < j /\ c.actions[i].account = a}
        = {i \in Before(c, {"grant", "revoke"}, j) : c.actions[i].account = a}
  BY DEF Atomic!Positions, Before
<1>2. QED
  BY <1>1 DEF Atomic!AttestorBefore, Atomic!Held, Atomic!Max, AttestorAt, HasRole, Mapped, Latest

\* All positions are before the end.
LEMMA AllBefore ==
  ASSUME NEW c \in Calls, NEW types
  PROVE  Before(c, types, Len(c.actions) + 1) = Atomic!Positions(c, types)
<1>1. \A i \in DOMAIN c.actions : i < Len(c.actions) + 1
  BY CallFacts
<1>2. QED
  BY <1>1 DEF Before, Atomic!Positions

\* The abstract effect on the store is the store at the end of the list.
LEMMA AtomicStore ==
  ASSUME NEW c \in Calls
  PROVE  Atomic!NewStore(c) = StoreAt(Mapped, c, Len(c.actions) + 1)
<1> DEFINE n == Len(c.actions) + 1
           P == Atomic!Positions(c, {"head"})
<1>1. Before(c, {"head"}, n) = P
  BY AllBefore
<1>2. Atomic!NewHead(c) = HeadAt(Mapped, c, n)
  BY AtomicHead DEF Atomic!NewHead
<1>3. \A k : Atomic!Popped(c, k) <=>
               \E i \in P : HeadAt(Mapped, c, i) <= k /\ k < c.actions[i].target
  BY AtomicHead DEF Atomic!Popped
<1>4. /\ Atomic!QueueHead(Mapped.kv) = QueueHead(Mapped.kv)
      /\ Atomic!Keys = Keys /\ Atomic!Indices = Indices
  BY DEF Atomic!QueueHead, Atomic!NumberAt, QueueHead, NumberAt, Atomic!Keys, Keys,
     Atomic!Indices, Indices, Atomic!SystemKeys, SystemKeys
<1>5. Atomic!NewStore(c) =
        [k \in Keys |->
           IF k \in Indices /\ Atomic!Popped(c, k) THEN NoValue
           ELSE IF k = HeadKey /\ (\/ Atomic!NewHead(c) # QueueHead(Mapped.kv)
                                   \/ Evm /\ P # {}) THEN Atomic!NewHead(c)
           ELSE IF k \in AppKeys \cup {VersionKey} /\ c.updates[k] # Undefined THEN c.updates[k]
           ELSE Mapped.kv[k]]
  BY <1>4 DEF Atomic!NewStore, Mapped
<1> HIDE DEF P, n
<1>6. QED
  BY <1>1, <1>2, <1>3, <1>5 DEF StoreAt, n

\* The abstract replies are those at the end of the list.
LEMMA AtomicReplies ==
  ASSUME NEW c \in Calls
  PROVE  Atomic!NewReplies(c) = Mapped.replies \o RepliesAt(c, Len(c.actions) + 1)
<1> DEFINE P == Atomic!Positions(c, {"reply"})
           p(i) == CHOOSE j \in P : Cardinality({k \in P : k <= j}) = i
<1>1. Before(c, {"reply"}, Len(c.actions) + 1) = P
  BY AllBefore
<1>2. P = {k \in DOMAIN c.actions : c.actions[k].type = "reply"}
  BY DEF Atomic!Positions
<1>3. \A j \in P : Before(c, {"reply"}, j + 1) = {k \in P : k <= j}
  BY <1>2, CallFacts DEF Before
<1>4. \A i : NthReply(c, i) = p(i)
  BY <1>2, <1>3 DEF NthReply
<1>5. Atomic!NewReplies(c) =
        Mapped.replies \o [i \in 1 .. Cardinality(P) |-> c.actions[p(i)].reply]
  BY DEF Atomic!NewReplies, Mapped, Atomic!Cardinality, Cardinality,
     Atomic!IsFiniteSet, IsFiniteSet
<1> HIDE DEF P, p
<1>6. QED
  BY <1>1, <1>4, <1>5 DEF RepliesAt

\* A list whose actions all run is one the abstract module accepts.
LEMMA AtomicAcceptable ==
  ASSUME NEW a, NEW c \in Calls, Accepted(Mapped, a, c),
         \A i \in DOMAIN c.actions : Runs(Mapped, c, i)
  PROVE  Atomic!Acceptable(a, c)
<1>1. Atomic!Held(a, "attestor")
  BY DEF Accepted, HasRole, Atomic!Held, Mapped
<1>2. Atomic!ConditionsMet(Mapped.kv, c.conditions)
  BY DEF Accepted, ConditionsMet, Atomic!ConditionsMet
<1>3. Atomic!QueueTail(Mapped.kv) = QueueTail(Mapped.kv)
  BY DEF Atomic!QueueTail, Atomic!NumberAt, QueueTail, NumberAt
<1>4. \A i \in Atomic!Positions(c, {"reply"}) : c.actions[i].reply \notin RefusedReplies
  BY DEF Atomic!Positions, Runs
<1>5. \A i \in Atomic!Positions(c, {"head"}) :
        /\ c.actions[i].target <= QueueTail(Mapped.kv)
        /\ Evm \/ Atomic!HeadBefore(c, i) <= c.actions[i].target
  BY AtomicHead DEF Atomic!Positions, Runs
<1>6. Evm \/ \A i \in Atomic!Positions(c, {"grant", "revoke"}) :
               Atomic!AttestorBefore(c, c.actions[i].account, i) <=> c.actions[i].type = "revoke"
  BY AtomicAttestor DEF Atomic!Positions, Runs
<1>7. QED
  BY <1>1, <1>2, <1>3, <1>4, <1>5, <1>6 DEF Atomic!Acceptable, Mapped

\* The contract starts as the abstract one.
LEMMA InitAtomic == Init => Atomic!Init
BY DEF Init, Executing, Atomic!Init, Atomic!Keys, Keys, Atomic!Indices, Indices,
   Atomic!SystemKeys, SystemKeys

\* The end of a call is its whole effect.
LEMMA EndCallAtomic ==
  ASSUME AnchorInv, Underway, EndCall
  PROVE  Atomic!Next
<1>1. /\ Executing /\ ~Executing' /\ contract' = contract /\ call \in ExecutingCalls
      /\ call.todo = <<>> /\ StateTyped(contract) /\ StateTyped(call.saved)
  BY DEF EndCall, Executing, AnchorInv, TypeOK
<1>2. Mapped = call.saved /\ Mapped' = contract
  BY <1>1 DEF Mapped
<1>3. PICK c \in Calls : \E n \in 0 .. Len(c.actions) :
        /\ Len(call.todo) = Len(c.actions) - n
        /\ Accepted(call.saved, call.by, c)
        /\ Progress(call.saved, contract, c, n + 1)
        /\ contract.nonces = IF call.request = Direct THEN call.saved.nonces
                             ELSE [call.saved.nonces EXCEPT ![call.by] = @ + 1]
  BY <1>1 DEF Underway
<1>4. PICK n \in 0 .. Len(c.actions) :
        /\ Len(call.todo) = Len(c.actions) - n
        /\ Accepted(call.saved, call.by, c)
        /\ Progress(call.saved, contract, c, n + 1)
        /\ contract.nonces = IF call.request = Direct THEN call.saved.nonces
                             ELSE [call.saved.nonces EXCEPT ![call.by] = @ + 1]
  BY <1>3
<1>5. n = Len(c.actions)
  BY <1>1, <1>4, CallFacts
<1>6. Progress(Mapped, contract, c, Len(c.actions) + 1)
  BY <1>2, <1>4, <1>5
<1>7. Atomic!Acceptable(call.by, c)
  <2>1. \A i \in DOMAIN c.actions : i < Len(c.actions) + 1
    BY CallFacts
  <2>2. \A i \in DOMAIN c.actions : Runs(Mapped, c, i)
    BY <1>6, <2>1 DEF Progress
  <2>3. QED
    BY <1>2, <1>4, <2>2, AtomicAcceptable
<1>8. contract.kv = Atomic!NewStore(c) /\ contract.replies = Atomic!NewReplies(c)
  BY <1>6, AtomicStore, AtomicReplies DEF Progress
<1>9. contract.roles = Atomic!NewRoles(c)
  <2>1. contract.roles \subseteq Roles /\ Mapped.roles \subseteq Roles
    BY <1>1, <1>2 DEF StateTyped, States
  <2>2. ASSUME NEW a \in Accounts, NEW r \in {"admin", "attestor"}
        PROVE  <<a, r>> \in contract.roles <=>
                 IF r = "attestor" THEN Atomic!AttestorBefore(c, a, Len(c.actions) + 1)
                 ELSE <<a, r>> \in Mapped.roles
    BY <1>6, AtomicAttestor DEF Progress, HasRole
  <2>3. Atomic!NewRoles(c) =
          {p \in Roles : IF p[2] = "attestor"
                         THEN Atomic!AttestorBefore(c, p[1], Len(c.actions) + 1)
                         ELSE p \in Mapped.roles}
    BY DEF Atomic!NewRoles, Roles, Mapped
  <2>4. ASSUME NEW p \in Roles PROVE p \in contract.roles <=> p \in Atomic!NewRoles(c)
    <3>1. PICK a \in Accounts, r \in {"admin", "attestor"} : p = <<a, r>>
      BY DEF Roles
    <3>2. p[1] = a /\ p[2] = r
      BY <3>1
    <3>3. QED
      BY <2>2, <2>3, <3>1, <3>2
  <2>5. QED
    BY <2>1, <2>3, <2>4
<1>10. \/ contract.nonces = Mapped.nonces
       \/ contract.nonces = [Mapped.nonces EXCEPT ![call.by] = @ + 1]
  BY <1>2, <1>4
<1>11. Atomic!Execute(call.by, c)
  BY <1>1, <1>2, <1>7, <1>8, <1>9, <1>10 DEF Atomic!Execute, Mapped
<1>12. call.by \in Accounts
  BY <1>1 DEF ExecutingCalls
<1>13. QED
  BY <1>11, <1>12 DEF Atomic!Next

\* A role that changes between calls changes in the abstract state.
LEMMA RoleStepAtomic ==
  ASSUME AnchorInv, RoleStep
  PROVE  Atomic!Next
<1>1. PICK a \in Accounts, r \in {"admin", "attestor"} :
        \/ \E by \in Accounts : GrantRole(by, a, r) \/ RevokeRole(by, a, r)
        \/ RenounceRole(a, r)
  BY DEF RoleStep
<1>2. ~Executing /\ ~Executing' /\ contract \in States
  BY <1>1 DEF GrantRole, RevokeRole, RenounceRole, Executing, AnchorInv, TypeOK, StateTyped
<1>3. /\ GrantTo(contract, a, r).roles = contract.roles \cup {<<a, r>>}
      /\ RevokeFrom(contract, a, r).roles = contract.roles \ {<<a, r>>}
      /\ GrantTo(contract, a, r).kv = contract.kv /\ RevokeFrom(contract, a, r).kv = contract.kv
      /\ GrantTo(contract, a, r).nonces = contract.nonces
      /\ RevokeFrom(contract, a, r).nonces = contract.nonces
      /\ GrantTo(contract, a, r).replies = contract.replies
      /\ RevokeFrom(contract, a, r).replies = contract.replies
  BY <1>2 DEF GrantTo, RevokeFrom, States
<1>4. /\ contract' = GrantTo(contract, a, r) \/ contract' = RevokeFrom(contract, a, r)
      /\ \/ \E by \in Accounts : HasRole(contract, by, "admin")
         \/ contract' = RevokeFrom(contract, a, r)
  BY <1>1 DEF GrantRole, RevokeRole, RenounceRole
<1>5. Atomic!ChangeRole(a, r)
  BY <1>2, <1>3, <1>4 DEF Atomic!ChangeRole, Atomic!Held, HasRole
<1>6. QED
  BY <1>5 DEF Atomic!Next

\* A pushed message is pushed in the abstract state.
LEMMA PushAtomic ==
  ASSUME AnchorInv, NEW by \in Accounts, NEW m \in Payload, Push(by, m)
  PROVE  Atomic!Next
<1>1. ~Executing /\ ~Executing' /\ contract \in States
  BY DEF Push, Executing, AnchorInv, TypeOK, StateTyped
<1>2. /\ contract'.kv = PushMessage(contract.kv, m) /\ contract'.roles = contract.roles
      /\ contract'.nonces = contract.nonces /\ contract'.replies = contract.replies
      /\ HasRole(contract, by, "admin") /\ CanPush(contract.kv)
  BY <1>1 DEF Push, States
<1>3. Atomic!PushMessage(contract.kv, m) = PushMessage(contract.kv, m)
  BY DEF Atomic!PushMessage, PushMessage, Atomic!QueueTail, QueueTail, Atomic!NumberAt, NumberAt
<1>4. Atomic!CanPush(contract.kv)
  BY <1>2 DEF Atomic!CanPush, CanPush, Atomic!QueueTail, QueueTail, Atomic!NumberAt, NumberAt
<1>5. Atomic!Push(m)
  BY <1>1, <1>2, <1>3, <1>4 DEF Atomic!Push, Atomic!Held, HasRole
<1>6. QED
  BY <1>5 DEF Atomic!Next

\* Every step is an abstract step or none.
LEMMA StepAtomic ==
  AnchorInv /\ Underway /\ [Next]_vars
    => [Atomic!Next]_(IF Executing THEN call.saved ELSE contract)
<1> SUFFICES ASSUME AnchorInv, Underway, [Next]_vars
             PROVE  Atomic!Next \/ Mapped' = Mapped
  BY DEF Mapped
<1>1. CASE RoleStep
  BY <1>1, RoleStepAtomic
<1>2. CASE \E by \in Accounts, m \in Payload : Push(by, m)
  BY <1>2, PushAtomic
<1>3. CASE \E a \in Accounts, to \in Destinations, n \in 0 .. MaxNonce, c \in Calls :
             Sign(a, to, n, c)
  BY <1>3 DEF Sign, Mapped, Executing
<1>4. CASE \E a \in Accounts, c \in Calls : BeginCall(a, c)
  <2>1. ~Executing /\ call' \in ExecutingCalls /\ call'.saved = contract
    <3>1. AnchorInv'
      BY NextAnchor
    <3>2. \E a \in Accounts, c \in Calls :
            call' = [by |-> a, request |-> Direct, todo |-> c.actions, saved |-> contract]
      BY <1>4 DEF BeginCall
    <3>3. contract \in States
      BY DEF AnchorInv, TypeOK, StateTyped
    <3>4. QED
      BY <1>4, <3>2, <3>3, CallsAssumption DEF BeginCall, ExecutingCalls, Executing
  <2>2. Executing'
    BY <2>1, NothingAssumption DEF Executing
  <2>3. QED
    BY <2>1, <2>2 DEF Mapped
<1>5. CASE \E req \in requests : BeginMetaCall(req)
  <2>1. PICK req \in requests : BeginMetaCall(req)
    BY <1>5
  <2>2. /\ ~Executing /\ req \in ForwardRequests /\ contract \in States
        /\ call' = [by |-> req.from, request |-> req, todo |-> req.call.actions,
                    saved |-> contract]
    BY <2>1 DEF BeginMetaCall, Executing, AnchorInv, TypeOK, StateTyped
  <2>3. call' \in ExecutingCalls /\ call'.saved = contract
    BY <2>2, CallsAssumption DEF ForwardRequests, ExecutingCalls
  <2>4. Executing'
    BY <2>3, NothingAssumption DEF Executing
  <2>5. QED
    BY <2>2, <2>3, <2>4 DEF Mapped
<1>6. CASE HandleAction
  <2>1. Executing /\ call \in ExecutingCalls
    BY <1>6 DEF HandleAction, Executing, AnchorInv, TypeOK
  <2>2. /\ call.todo \in Seq(Actions) /\ call.todo # <<>>
        /\ call' = [call EXCEPT !.todo = Tail(call.todo)]
    BY <1>6, <2>1 DEF HandleAction, ExecutingCalls
  <2>3. call' \in ExecutingCalls /\ call'.saved = call.saved
    BY <2>1, <2>2, HeadTailProperties DEF ExecutingCalls
  <2>4. Executing'
    BY <2>3, NothingAssumption DEF Executing
  <2>5. QED
    BY <2>1, <2>3, <2>4 DEF Mapped
<1>7. CASE Revert
  BY <1>7 DEF Revert, Mapped, Executing
<1>8. CASE EndCall
  BY <1>8, EndCallAtomic
<1>9. CASE UNCHANGED vars
  BY <1>9 DEF vars, Mapped, Executing
<1>10. QED
  BY <1>1, <1>2, <1>3, <1>4, <1>5, <1>6, <1>7, <1>8, <1>9 DEF Next

\* Whatever calls attestors send, rollup_cond_eq takes effect as a whole or
\* not at all, and its whole effect is the one AtomicRollup describes.
THEOREM Atomicity == Spec => ImplementsAtomic
<1>1. Init => Atomic!Init
  BY InitAtomic
<1>2. Init => Underway
  BY DEF Init, Underway, Executing
<1>3. AnchorInv /\ Underway /\ [Next]_vars => Underway'
  BY UnderwayStep
<1>4. AnchorInv /\ Underway /\ [Next]_vars
        => [Atomic!Next]_(IF Executing THEN call.saved ELSE contract)
  BY StepAtomic
<1>5. QED
  BY <1>1, <1>2, <1>3, <1>4, AnchorInvariance, PTL DEF Spec, ImplementsAtomic, Atomic!Spec
=============================================================================
