----------------------------- MODULE RollupAnchor -----------------------------
(***************************************************************************)
(* The on-chain half of the rollup: rollup_cond_eq with any list of        *)
(* actions, the roles that protect it, and the meta-transactions by which  *)
(* anybody relays a call that an attestor signed.  Evm chooses between     *)
(* PhatRollupAnchor.sol with OpenZeppelin's AccessControl and the ink!     *)
(* library.                                                                *)
(*                                                                         *)
(* The chain executes one call at a time, but a call takes steps: nonce,   *)
(* conditions and updates first, then one step per action.  An action that *)
(* fails reverts the call to the state it began in.                        *)
(***************************************************************************)
EXTENDS KvQueue, Integers, Sequences, FiniteSets

CONSTANTS
  Accounts,        \* the accounts that can have a role or sign a request
  Deployer,        \* the account that deploys the contract
  This,            \* the address of the contract
  Destinations,    \* the contracts a request can be signed for, This included
  Calls,           \* the calls attestors send or sign
  Replies,         \* the replies to messages
  RefusedReplies,  \* the replies on_message_received answers with an error
  NoCall,          \* between calls
  Direct,          \* instead of a request, for a call that was sent directly
  MaxNonce,        \* the largest nonce (u128::MAX or the largest uint256)
  MaxReplies,      \* bound on the replies before the last call
  MaxRequests      \* bound on the signed requests

Roles == Accounts \X {"admin", "attestor"}

Actions ==
  [type : {"reply"}, reply : Replies]
    \cup [type : {"head"}, target : Nat]
    \cup [type : {"grant", "revoke"}, account : Accounts]

ASSUME AccountsAssumption == Deployer \in Accounts /\ This \in Destinations

\* A call leaves the keys of the queue to push_message and pop_to.
ASSUME CallsAssumption ==
  \A c \in Calls :
    /\ c.conditions \in [Keys -> Values \cup {Undefined}]
    /\ c.updates \in [AppKeys \cup {VersionKey} -> Nat \cup {NoValue, Undefined}]
    /\ c.actions \in Seq(Actions)

ASSUME BoundsAssumption ==
  MaxNonce \in Nat /\ MaxReplies \in Nat /\ MaxRequests \in Nat

VARIABLES
  contract,   \* what the chain stores, with the history of what it received
  call,       \* the call that is executing, or NoCall
  requests,   \* the requests that were signed, for anybody to relay
  executed    \* history: executed[a] are the requests of a that took effect

vars == <<contract, call, requests, executed>>

ForwardRequests ==
  [from : Accounts, to : Destinations, nonce : 0 .. MaxNonce, call : Calls]

States ==
  [kv : [Keys -> Values], roles : SUBSET Roles, nonces : [Accounts -> 0 .. MaxNonce],
   pushed : Seq(Payload), popped : Indices, replies : Seq(Replies)]

ExecutingCalls ==
  [by : Accounts, request : ForwardRequests \cup {Direct}, todo : Seq(Actions), saved : States]

ASSUME NothingAssumption == NoCall \notin ExecutingCalls /\ Direct \notin ForwardRequests

HasRole(s, a, r) == <<a, r>> \in s.roles

\* The ink! constructor makes its caller an attestor; the solidity one does not.
Init ==
  /\ contract = [kv |-> [k \in Keys |-> NoValue],
                 roles |-> {<<Deployer, "admin">>}
                             \cup (IF Evm THEN {} ELSE {<<Deployer, "attestor">>}),
                 nonces |-> [a \in Accounts |-> 0],
                 pushed |-> <<>>, popped |-> 0, replies |-> <<>>]
  /\ call = NoCall
  /\ requests = {}
  /\ executed = [a \in Accounts |-> <<>>]

-----------------------------------------------------------------------------
(* The roles.                                                              *)

\* Mutant: granting a role twice is no error.
GrantFailsNever(s, a, r) == FALSE

\* inner_grant_role_unchecked answers RoleRedundant; _grantRole does nothing.
GrantFails(s, a, r) == ~Evm /\ HasRole(s, a, r)

\* inner_revoke_role_unchecked answers MissingRole; _revokeRole does nothing.
RevokeFails(s, a, r) == ~Evm /\ ~HasRole(s, a, r)

GrantTo(s, a, r) == [s EXCEPT !.roles = @ \cup {<<a, r>>}]
RevokeFrom(s, a, r) == [s EXCEPT !.roles = @ \ {<<a, r>>}]

GrantRole(by, a, r) ==
  /\ call = NoCall
  /\ HasRole(contract, by, "admin") /\ ~GrantFails(contract, a, r)
  /\ contract' = GrantTo(contract, a, r)
  /\ UNCHANGED <<call, requests, executed>>

RevokeRole(by, a, r) ==
  /\ call = NoCall
  /\ HasRole(contract, by, "admin") /\ ~RevokeFails(contract, a, r)
  /\ contract' = RevokeFrom(contract, a, r)
  /\ UNCHANGED <<call, requests, executed>>

RenounceRole(a, r) ==
  /\ call = NoCall
  /\ ~RevokeFails(contract, a, r)
  /\ contract' = RevokeFrom(contract, a, r)
  /\ UNCHANGED <<call, requests, executed>>

\* push_message of the example contracts.
Push(by, m) ==
  /\ call = NoCall
  /\ HasRole(contract, by, "admin") /\ CanPush(contract.kv)
  /\ contract' = [contract EXCEPT !.kv = PushMessage(@, m), !.pushed = Append(@, m)]
  /\ UNCHANGED <<call, requests, executed>>

-----------------------------------------------------------------------------
(* Meta-transactions.                                                      *)

\* A client prepares and signs a request, for this contract or another one it
\* serves.  The ink! contract prepares the current nonce only, the solidity
\* contract any nonce from the current one on.
Sign(a, to, n, c) ==
  /\ call = NoCall
  /\ Cardinality(requests) < MaxRequests
  /\ to = This => IF Evm THEN n >= contract.nonces[a] ELSE n = contract.nonces[a]
  /\ requests' = requests \cup {[from |-> a, to |-> to, nonce |-> n, call |-> c]}
  /\ UNCHANGED <<contract, call, executed>>

\* Mutant: the destination is not compared.
VerifyAnyDestination(s, req) == req.nonce = s.nonces[req.from]

\* The signature is the one of req.from: requests holds signed ones only.
Verify(s, req) == req.to = This /\ req.nonce = s.nonces[req.from]

\* Mutant: the nonce is left as it is.
UseNonceNot(s, req) == s

UseNonce(s, req) == [s EXCEPT !.nonces[req.from] = req.nonce + 1]

-----------------------------------------------------------------------------
(* A rollup call.                                                          *)

\* The call c on behalf of account a passes the checks at the start of
\* rollup_cond_eq, in state s, and its updates are written.
Accepted(s, a, c) ==
  HasRole(s, a, "attestor") /\ ConditionsMet(s.kv, c.conditions)

Updated(s, c) == [s EXCEPT !.kv = ApplyUpdates(@, c.updates)]

BeginCall(a, c) ==
  /\ call = NoCall /\ Len(contract.replies) < MaxReplies
  /\ Accepted(contract, a, c)
  /\ contract' = Updated(contract, c)
  /\ call' = [by |-> a, request |-> Direct, todo |-> c.actions, saved |-> contract]
  /\ UNCHANGED <<requests, executed>>

\* Anybody relays a signed request, again and in any order.  A request whose
\* nonce is the last one fails with NonceOverflow.
BeginMetaCall(req) ==
  /\ call = NoCall /\ Len(contract.replies) < MaxReplies
  /\ Verify(contract, req)
  /\ req.nonce + 1 <= MaxNonce
  /\ LET used == UseNonce(contract, req)
     IN  /\ Accepted(used, req.from, req.call)
         /\ contract' = Updated(used, req.call)
  /\ call' = [by |-> req.from, request |-> req, todo |-> req.call.actions,
              saved |-> contract]
  /\ UNCHANGED <<requests, executed>>

ActionFails(s, action) ==
  \/ action.type = "reply" /\ action.reply \in RefusedReplies
  \/ action.type = "head" /\ ~ValidPopTarget(s.kv, action.target)
  \/ action.type = "grant" /\ GrantFails(s, action.account, "attestor")
  \/ action.type = "revoke" /\ RevokeFails(s, action.account, "attestor")

\* The messages below popped are gone from the storage.
PopMessages(s, target) ==
  [s EXCEPT !.kv = PopTo(@, target), !.popped = IF target > @ THEN target ELSE @]

AfterAction(s, action) ==
  CASE action.type = "reply"  -> [s EXCEPT !.replies = Append(@, action.reply)]
    [] action.type = "head"   -> PopMessages(s, action.target)
    [] action.type = "grant"  -> GrantTo(s, action.account, "attestor")
    [] action.type = "revoke" -> RevokeFrom(s, action.account, "attestor")

HandleAction ==
  /\ call # NoCall /\ call.todo # <<>>
  /\ ~ActionFails(contract, Head(call.todo))
  /\ contract' = AfterAction(contract, Head(call.todo))
  /\ call' = [call EXCEPT !.todo = Tail(@)]
  /\ UNCHANGED <<requests, executed>>

\* The error is propagated and the transaction reverts, its nonce included.
Revert ==
  /\ call # NoCall /\ call.todo # <<>>
  /\ ActionFails(contract, Head(call.todo))
  /\ contract' = call.saved
  /\ call' = NoCall
  /\ UNCHANGED <<requests, executed>>

EndCall ==
  /\ call # NoCall /\ call.todo = <<>>
  /\ call' = NoCall
  /\ executed' = IF call.request = Direct THEN executed
                 ELSE [executed EXCEPT ![call.by] = Append(@, call.request)]
  /\ UNCHANGED <<contract, requests>>

RoleStep ==
  \E a \in Accounts, r \in {"admin", "attestor"} :
    \/ \E by \in Accounts : GrantRole(by, a, r) \/ RevokeRole(by, a, r)
    \/ RenounceRole(a, r)

Next ==
  \/ RoleStep
  \/ \E by \in Accounts, m \in Payload : Push(by, m)
  \/ \E a \in Accounts, to \in Destinations, n \in 0 .. MaxNonce, c \in Calls :
       Sign(a, to, n, c)
  \/ \E a \in Accounts, c \in Calls : BeginCall(a, c)
  \/ \E req \in requests : BeginMetaCall(req)
  \/ HandleAction \/ Revert \/ EndCall

Spec == Init /\ [][Next]_vars

-----------------------------------------------------------------------------
(* Properties.                                                             *)

\* A contract whose queue indices fit QueueIndex and whose version and
\* application values are numbers.
StateTyped(s) ==
  /\ s \in States
  /\ \A k \in {HeadKey, TailKey} : s.kv[k] \in Indices \cup {NoValue}
  /\ \A k \in AppKeys \cup {VersionKey} : s.kv[k] \in Nat \cup {NoValue}

Executing == call # NoCall

\* A request of account a is executing.
Relaying(a) == Executing /\ call.request # Direct /\ call.by = a

\* No queue index and no nonce overflows, also in the middle of a call and in
\* the state that a call can revert to.
TypeOK ==
  /\ StateTyped(contract)
  /\ requests \subseteq ForwardRequests
  /\ executed \in [Accounts -> Seq(ForwardRequests)]
  /\ Executing =>
       call \in ExecutingCalls /\ StateTyped(call.saved)

\* The messages from the highest head so far up to the tail wait at their
\* index and no other message is stored, whatever lists of actions attestors
\* send; the ink! queue never moves back.
QueueIntactIn(s) ==
  /\ QueueHead(s.kv) <= s.popped /\ s.popped <= QueueTail(s.kv)
  /\ ~Evm => QueueHead(s.kv) = s.popped
  /\ QueueTail(s.kv) = Len(s.pushed)
  /\ \A i \in Indices :
       s.kv[i] = IF s.popped <= i /\ i < QueueTail(s.kv) THEN s.pushed[i + 1] ELSE NoValue

QueueIntact == QueueIntactIn(contract) /\ (Executing => QueueIntactIn(call.saved))

\* The bookkeeping of one account: its nonce counts its requests that took
\* effect, and the one that is executing.
NonceSoundOf(a) ==
  /\ contract.nonces[a] = IF Relaying(a) THEN Len(executed[a]) + 1 ELSE Len(executed[a])
  /\ Executing => call.saved.nonces[a] = Len(executed[a])
  /\ \A i \in 1 .. Len(executed[a]) :
       /\ executed[a][i].nonce = i - 1
       /\ executed[a][i].to = This /\ executed[a][i].from = a
  /\ Relaying(a) =>
       /\ call.request.nonce = Len(executed[a])
       /\ call.request.to = This /\ call.request.from = a

\* The requests of an account take effect at most once each, in the order of
\* their nonces and only here: relaying them again, late or to another
\* contract has no effect, and a request that failed has used no nonce.
NoReplay == \A a \in Accounts : NonceSoundOf(a)

AnchorInv == TypeOK /\ QueueIntact /\ NoReplay

\* A call is one atomic step that takes effect as a whole or not at all.
Atomic == INSTANCE AtomicRollup WITH
            state <- IF Executing THEN call.saved ELSE contract

ImplementsAtomic == Atomic!Spec
=============================================================================
