------------------------------- MODULE KvQueue -------------------------------
(***************************************************************************)
(* The storage of a rollup client contract: the key-value store of         *)
(* kv_store.rs and the message queue of message_queue.rs that lives inside *)
(* it, or kvStore and the queue functions of PhatRollupAnchor.sol, as pure *)
(* operators on one function kv from keys to values.                       *)
(*                                                                         *)
(* A key is one of the application's keys, the version number key, the     *)
(* head key, the tail key, or the key "q/" ++ index of a queued message,   *)
(* written here as the index itself.  The byte layouts never collide: the  *)
(* head and tail keys are "q/_head" and "q/_tail", and an index takes four *)
(* bytes, or 32 in the solidity contract.                                  *)
(***************************************************************************)
EXTENDS Naturals

CONSTANTS
  AppKeys,      \* the keys the application reads and writes
  VersionKey,   \* the optimistic-locking key of the off-chain client
  HeadKey,      \* "q/_head": index of the oldest message in the queue
  TailKey,      \* "q/_tail": index the next message is given
  Payload,      \* the messages that can be queued
  NoValue,      \* the absence of a value: Option::None
  Undefined,    \* no entry in a list of conditions or updates; unset variable
  MaxIndex,     \* the largest QueueIndex (u32::MAX in the code)
  Evm           \* the solidity contract (TRUE) or the ink! library (FALSE)

SystemKeys == {VersionKey, HeadKey, TailKey}
Indices == 0 .. MaxIndex
Keys == AppKeys \cup SystemKeys \cup Indices
Values == Nat \cup Payload \cup {NoValue}

ASSUME KeysAreDistinct ==
  /\ VersionKey # HeadKey /\ VersionKey # TailKey /\ HeadKey # TailKey
  /\ \A k \in AppKeys : k \notin SystemKeys /\ k \notin Nat
  /\ \A k \in SystemKeys : k \notin Nat

ASSUME MarkersAreDistinct ==
  /\ Payload \cap Nat = {} /\ NoValue # Undefined
  /\ NoValue \notin Nat \cup Payload /\ Undefined \notin Nat \cup Payload

ASSUME MaxIndexIsNat == MaxIndex \in Nat

ASSUME EvmIsBoolean == Evm \in BOOLEAN

-----------------------------------------------------------------------------
(* The key-value store.  A list of conditions, a list of updates and a Map  *)
(* of a session are functions from keys to an Option, or Undefined where   *)
(* the list or the Map has no entry.                                       *)

\* Mutant: an entry expecting no value is taken for no condition at all.
ConditionsMetIfAny(kv, conditions) ==
  \A k \in DOMAIN conditions :
    conditions[k] \notin {Undefined, NoValue} => kv[k] = conditions[k]

\* Every condition names the value the store holds: present and equal, or
\* absent on both sides.
ConditionsMet(kv, conditions) ==
  \A k \in DOMAIN conditions :
    conditions[k] # Undefined => kv[k] = conditions[k]

\* An update to NoValue removes the key.
ApplyUpdates(kv, updates) ==
  [k \in DOMAIN kv |->
     IF k \in DOMAIN updates /\ updates[k] # Undefined THEN updates[k] ELSE kv[k]]

\* An unsigned number stored under a key, an absent key counting as zero.
NumberAt(v) == IF v = NoValue THEN 0 ELSE v

-----------------------------------------------------------------------------
(* The message queue.                                                      *)

QueueHead(kv) == NumberAt(kv[HeadKey])
QueueTail(kv) == NumberAt(kv[TailKey])

HasMessage(kv) == QueueTail(kv) > QueueHead(kv)

\* Mutant: the last index is used, so that the next one does not fit.
CanPushUnchecked(kv) == QueueTail(kv) <= MaxIndex

\* The new tail must fit a QueueIndex (checked_add, QueueIndexOverflow).
CanPush(kv) == QueueTail(kv) + 1 <= MaxIndex

PushMessage(kv, m) ==
  [kv EXCEPT ![QueueTail(kv)] = m, ![TailKey] = QueueTail(kv) + 1]

\* Mutant: the target is not compared with the tail.
ValidPopTargetPastTail(kv, target) == Evm \/ QueueHead(kv) <= target

\* The solidity contract does not look at the head.
ValidPopTarget(kv, target) ==
  /\ target <= QueueTail(kv)
  /\ Evm \/ QueueHead(kv) <= target

\* Mutant: the loop stops one short and leaves the last popped message.
PopToLeavesLast(kv, target) ==
  IF ~Evm /\ target = QueueHead(kv) THEN kv
  ELSE [k \in DOMAIN kv |->
          IF k = HeadKey THEN target
          ELSE IF k \in QueueHead(kv) .. target - 2 THEN NoValue
          ELSE kv[k]]

\* pop_to, for a target that is valid: the messages from the head up to the
\* target are removed and the head moves.  The ink! library does nothing at
\* the head itself.  The solidity contract can move the head backwards, over
\* messages that are gone.
PopTo(kv, target) ==
  IF ~Evm /\ target = QueueHead(kv) THEN kv
  ELSE [k \in DOMAIN kv |->
          IF k = HeadKey THEN target
          ELSE IF k \in QueueHead(kv) .. target - 1 THEN NoValue
          ELSE kv[k]]
=============================================================================
