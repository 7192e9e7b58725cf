----------------------------- MODULE AtomicRollup -----------------------------
(***************************************************************************)
(* What an attestor relies on: rollup_cond_eq takes effect in one step, if *)
(* the whole list of actions is acceptable, and otherwise does nothing.    *)
(* The effect of the list is described as a whole, not action by action.   *)
(***************************************************************************)
EXTENDS KvQueue, Integers, Sequences, FiniteSetsExt

CONSTANTS Accounts, Deployer, Calls, RefusedReplies

VARIABLE state

Held(a, r) == <<a, r>> \in state.roles

Init ==
  /\ state.kv = [k \in Keys |-> NoValue]
  /\ state.roles = {<<Deployer, "admin">>}
                     \cup (IF Evm THEN {} ELSE {<<Deployer, "attestor">>})
  /\ state.nonces = [a \in Accounts |-> 0]
  /\ state.replies = <<>>

\* The positions of the actions of c that are of one of the types.
Positions(c, types) == {i \in DOMAIN c.actions : c.actions[i].type \in types}

\* The head of the queue when the actions before position j have run.
HeadBefore(c, j) ==
  LET before == {i \in Positions(c, {"head"}) : i < j}
  IN  IF before = {} THEN QueueHead(state.kv) ELSE c.actions[Max(before)].target

\* Is a an attestor when the actions before position j have run?
AttestorBefore(c, a, j) ==
  LET before == {i \in Positions(c, {"grant", "revoke"}) : i < j /\ c.actions[i].account = a}
  IN  IF before = {} THEN Held(a, "attestor") ELSE c.actions[Max(before)].type = "grant"

Acceptable(a, c) ==
  /\ Held(a, "attestor")
  /\ ConditionsMet(state.kv, c.conditions)
  /\ \A i \in Positions(c, {"reply"}) : c.actions[i].reply \notin RefusedReplies
  /\ \A i \in Positions(c, {"head"}) :
       /\ c.actions[i].target <= QueueTail(state.kv)
       /\ Evm \/ HeadBefore(c, i) <= c.actions[i].target
  /\ Evm \/ \A i \in Positions(c, {"grant", "revoke"}) :
              AttestorBefore(c, c.actions[i].account, i) <=> c.actions[i].type = "revoke"

Popped(c, index) ==
  \E i \in Positions(c, {"head"}) :
    HeadBefore(c, i) <= index /\ index < c.actions[i].target

NewHead(c) == HeadBefore(c, Len(c.actions) + 1)

NewStore(c) ==
  [k \in Keys |->
     IF k \in Indices /\ Popped(c, k) THEN NoValue
     ELSE IF k = HeadKey /\ (\/ NewHead(c) # QueueHead(state.kv)
                             \/ Evm /\ Positions(c, {"head"}) # {}) THEN NewHead(c)
     ELSE IF k \in AppKeys \cup {VersionKey} /\ c.updates[k] # Undefined THEN c.updates[k]
     ELSE state.kv[k]]

NewRoles(c) ==
  {p \in Accounts \X {"admin", "attestor"} :
     IF p[2] = "attestor" THEN AttestorBefore(c, p[1], Len(c.actions) + 1) ELSE p \in state.roles}

NewReplies(c) ==
  state.replies \o
    [i \in 1 .. Cardinality(Positions(c, {"reply"})) |->
       LET p == CHOOSE j \in Positions(c, {"reply"}) :
                  Cardinality({k \in Positions(c, {"reply"}) : k <= j}) = i
       IN  c.actions[p].reply]

\* Directly, or by a request of a, which uses the nonce of a.
Execute(a, c) ==
  /\ Acceptable(a, c)
  /\ state'.kv = NewStore(c)
  /\ state'.roles = NewRoles(c)
  /\ state'.replies = NewReplies(c)
  /\ \/ state'.nonces = state.nonces
     \/ state'.nonces = [state.nonces EXCEPT ![a] = @ + 1]

\* An admin changes a role, or an account gives up one of its own.
ChangeRole(a, r) ==
  /\ (\E by \in Accounts : Held(by, "admin")) \/ state'.roles = state.roles \ {<<a, r>>}
  /\ state'.roles \in {state.roles \cup {<<a, r>>}, state.roles \ {<<a, r>>}}
  /\ state'.kv = state.kv /\ state'.nonces = state.nonces /\ state'.replies = state.replies

Push(m) ==
  /\ \E by \in Accounts : Held(by, "admin")
  /\ CanPush(state.kv)
  /\ state'.kv = PushMessage(state.kv, m)
  /\ state'.roles = state.roles /\ state'.nonces = state.nonces
  /\ state'.replies = state.replies

Next ==
  \/ \E a \in Accounts, c \in Calls : Execute(a, c)
  \/ \E a \in Accounts, r \in {"admin", "attestor"} : ChangeRole(a, r)
  \/ \E m \in Payload : Push(m)

Spec == Init /\ [][Next]_state
=============================================================================
