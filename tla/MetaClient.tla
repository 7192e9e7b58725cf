------------------------------ MODULE MetaClient ------------------------------
(***************************************************************************)
(* Workers that commit by meta-transactions: an attestor signs the commit  *)
(* and another account, the sender, submits it and pays for it.            *)
(*                                                                         *)
(* A run is the one of OffchainRollup up to its commit.  From there on,    *)
(* sendMetaTransaction asks the contract for the attestor's nonce, signs   *)
(* the request, tries it and submits it, awaiting in between.  Workers may *)
(* share an attestor, whose nonce is then contended, and a signed request  *)
(* is good for whoever holds it: anybody may relay it at any time, before  *)
(* its client submits it or long after.  Workers that are no meta workers  *)
(* commit directly, as in OffchainRollup.                                  *)
(***************************************************************************)
EXTENDS OffchainRollup

CONSTANTS
  MetaWorkers,     \* the workers that were given a sender's key
  Attestors,       \* the accounts that sign, all with the attestor role
  AttestorOf       \* AttestorOf[w]: the account that signs for w

ASSUME MetaWorkersAssumption ==
  MetaWorkers \subseteq Workers /\ AttestorOf \in [MetaWorkers -> Attestors]

VARIABLES
  nonces,      \* nonces[a]: the nonce the contract expects of a next
  draft,       \* draft[w]: how far sendMetaTransaction of w has come
  requests,    \* every request that was ever signed
  relays       \* relays[w]: the pending transactions of the sender of w

metaVars == <<nonces, draft, requests, relays>>
allVars == <<vars, metaVars>>

NoDraft == [stage |-> "none", nonce |-> 0]

MetaInit ==
  /\ Init
  /\ nonces = [a \in Attestors |-> 0]
  /\ draft = [w \in MetaWorkers |-> NoDraft]
  /\ requests = {}
  /\ relays = [w \in MetaWorkers |-> <<>>]

-----------------------------------------------------------------------------
(* Requests and the contract.                                              *)

\* Mutant: the head to set is one past the last message that was polled.
RequestPastHead(w, n) ==
  [from |-> AttestorOf[w], nonce |-> n,
   data |-> [TxOf(session[w]) EXCEPT !.head = session[w].currentIndex + 1]]

\* The ForwardRequest of the commit of w; data holds what a direct commit of
\* the session would send.
RequestOf(w, n) == [from |-> AttestorOf[w], nonce |-> n, data |-> TxOf(session[w])]

\* verify: the destination and the signature are right in requests.
NonceIsCurrent(r) == r.nonce = nonces[r.from]

\* meta_tx_rollup_cond_eq in the current state.
MetaSucceeds(r) == NonceIsCurrent(r) /\ RollupSucceeds(kv, r.data)

\* The nonce of a request that fails is not used: its transaction reverts.
Execute(r) ==
  IF MetaSucceeds(r)
  THEN /\ kv' = RollupResult(kv, r.data)
       /\ replies' = replies \o r.data.replies
       /\ nonces' = [nonces EXCEPT ![r.from] = r.nonce + 1]
  ELSE UNCHANGED <<kv, replies, nonces>>

-----------------------------------------------------------------------------
(* sendMetaTransaction.                                                    *)

\* The end of a run, also in the middle of sendMetaTransaction.
EndMetaRun(w) ==
  /\ EndRun(w)
  /\ draft' = [draft EXCEPT ![w] = NoDraft]

\* Mutant: the nonce after the one the contract answers.
NextNonceLate(w) == nonces[AttestorOf[w]] + 1

\* prepare: the nonce is read when the commit begins, not when it arrives.
NextNonce(w) == nonces[AttestorOf[w]]

\* The ink client signs as soon as prepare is answered; the evm client asks
\* for the network and the address of the contract first.
Prepare(w) ==
  /\ pc[w] = "commit" /\ draft[w] = NoDraft
  /\ IF HasUpdates(session[w])
     THEN /\ draft' = [draft EXCEPT ![w] = [stage |-> IF Evm THEN "prepared" ELSE "signed",
                                            nonce |-> NextNonce(w)]]
          /\ requests' = IF Evm THEN requests ELSE requests \cup {RequestOf(w, NextNonce(w))}
          /\ UNCHANGED <<clientVars, pc>>
     ELSE EndMetaRun(w) /\ UNCHANGED requests
  /\ UNCHANGED <<contractVars, pool, faults, nonces, relays>>

Sign(w) ==
  /\ pc[w] = "commit" /\ draft[w].stage = "prepared"
  /\ draft' = [draft EXCEPT ![w].stage = "signed"]
  /\ requests' = requests \cup {RequestOf(w, draft[w].nonce)}
  /\ UNCHANGED <<vars, nonces, relays>>

\* The dry run of the ink client and the gas estimate of the evm client.
DryRun(w) ==
  /\ pc[w] = "commit" /\ draft[w].stage = "signed"
  /\ IF MetaSucceeds(RequestOf(w, draft[w].nonce))
     THEN GoTo(w, "submit") /\ UNCHANGED <<clientVars, draft>>
     ELSE EndMetaRun(w)
  /\ UNCHANGED <<contractVars, pool, faults, nonces, requests, relays>>

\* As for a direct commit, the ink client waits and the evm client goes on.
SubmitRequest(w) ==
  /\ pc[w] = "submit"
  /\ Len(relays[w]) < MaxPending
  /\ relays' = [relays EXCEPT ![w] = Append(@, RequestOf(w, draft[w].nonce))]
  /\ draft' = [draft EXCEPT ![w] = NoDraft]
  /\ IF Evm
     THEN GoTo(w, "restart") /\ session' = [session EXCEPT ![w] = NewSession]
     ELSE GoTo(w, "inclusion") /\ UNCHANGED session
  /\ UNCHANGED <<contractVars, pool, tailIndex, message, faults, nonces, requests>>

-----------------------------------------------------------------------------
(* The chain, those who relay, and the faults.                             *)

AwaitsOldestRelay(w) == pc[w] = "inclusion" /\ Len(relays[w]) = 1

\* A block executes the oldest pending transaction of the sender of w.
IncludeRequest(w) ==
  /\ relays[w] # <<>>
  /\ Execute(Head(relays[w]))
  /\ relays' = [relays EXCEPT ![w] = Tail(@)]
  /\ IF AwaitsOldestRelay(w)
     THEN IF MetaSucceeds(Head(relays[w]))
          THEN /\ session' = [session EXCEPT ![w] = NewSession]
               /\ GoTo(w, "restart")
               /\ UNCHANGED <<tailIndex, message>>
          ELSE EndRun(w)
     ELSE UNCHANGED <<clientVars, pc>>
  /\ UNCHANGED <<pushed, directs, pool, faults, draft, requests>>

\* Somebody else relays a signed request; one that fails changes nothing.
Relay(r) ==
  /\ MetaSucceeds(r)
  /\ Execute(r)
  /\ UNCHANGED <<pushed, directs, pool, clientVars, pc, faults, draft, requests, relays>>

AbortMeta(w) ==
  /\ pc[w] # "idle" /\ faults < MaxFaults
  /\ EndMetaRun(w)
  /\ faults' = faults + 1
  /\ UNCHANGED <<contractVars, pool, nonces, requests, relays>>

DropRequest(w) ==
  /\ relays[w] # <<>> /\ faults < MaxFaults
  /\ relays' = [relays EXCEPT ![w] = Tail(@)]
  /\ IF AwaitsOldestRelay(w) THEN EndRun(w) ELSE UNCHANGED <<clientVars, pc>>
  /\ faults' = faults + 1
  /\ UNCHANGED <<contractVars, pool, nonces, draft, requests>>

DirectWorkers == Workers \ MetaWorkers

MetaStep(w) == Prepare(w) \/ Sign(w) \/ DryRun(w) \/ SubmitRequest(w)

\* What a worker does up to its commit, what a direct worker and its account
\* do, and what users and other attestors do, is as in OffchainRollup.
DirectStep ==
  \/ \E w \in Workers : SessionStep(w)
  \/ \E w \in DirectWorkers : Commit(w) \/ Submit(w) \/ Include(w) \/ Abort(w) \/ Drop(w)
  \/ \E m \in Payload : Push(m)
  \/ DirectUpdate

MetaNext ==
  \/ DirectStep /\ UNCHANGED metaVars
  \/ \E w \in MetaWorkers :
       MetaStep(w) \/ IncludeRequest(w) \/ AbortMeta(w) \/ DropRequest(w)
  \/ \E r \in requests : Relay(r)

\* As in OffchainRollup; nobody has to relay a request but its client.
MetaFairness ==
  /\ \A w \in DirectWorkers :
       /\ WF_allVars(WorkerStep(w) /\ UNCHANGED metaVars)
       /\ WF_allVars(Include(w) /\ UNCHANGED metaVars)
  /\ \A w \in MetaWorkers :
       /\ WF_allVars((SessionStep(w) /\ UNCHANGED metaVars) \/ MetaStep(w))
       /\ WF_allVars(IncludeRequest(w))

MetaSpec == MetaInit /\ [][MetaNext]_allVars /\ MetaFairness

-----------------------------------------------------------------------------
(* Properties.                                                             *)

Requests == [from : Attestors, nonce : Nat, data : Txs]

Drafts == [stage : {"none", "prepared", "signed"}, nonce : Nat]

\* Every request is well formed, and what a sender has submitted was signed.
MetaTypeOK ==
  /\ nonces \in [Attestors -> Nat]
  /\ draft \in [MetaWorkers -> Drafts]
  /\ requests \subseteq Requests
  /\ relays \in [MetaWorkers -> Seq(requests)]

\* A meta worker is in sendMetaTransaction with something to commit, at a
\* nonce the contract has reached, and holds the request it has signed.
DraftSound(w) ==
  /\ draft[w].stage = "none" => draft[w] = NoDraft /\ pc[w] # "submit"
  /\ draft[w].stage # "none" =>
       /\ pc[w] \in {"commit", "submit"}
       /\ HasUpdates(session[w])
       /\ draft[w].nonce <= nonces[AttestorOf[w]]
  /\ pc[w] = "submit" => draft[w].stage = "signed"
  /\ draft[w].stage = "signed" => RequestOf(w, draft[w].nonce) \in requests

\* A signed request is not ahead of its attestor, and is sound as a pending
\* transaction is.
RequestSound(r) == r.nonce <= nonces[r.from] /\ TxSound(r.data)

MetaInv ==
  /\ IInv /\ MetaTypeOK
  /\ \A w \in MetaWorkers : DraftSound(w)
  /\ \A r \in requests : RequestSound(r)

\* A signed request that would succeed now, whoever relays it and whatever
\* became of the run that signed it, answers exactly the oldest waiting
\* messages and counts them.
LiveRequestsSound ==
  \A r \in requests :
    MetaSucceeds(r) =>
      /\ QueueHead(kv) < r.data.head /\ r.data.head <= QueueTail(kv)
      /\ r.data.head = QueueHead(kv) + Len(r.data.replies)
      /\ AreRepliesTo(pushed, QueueHead(kv), r.data.replies)
      /\ r.data.updates[Counter] = NumberAt(kv[Counter]) + Len(r.data.replies)

\* A request that was refused stays refused: no request of an ended run comes
\* back to life, and none waits for a nonce to come.
RefusedForGood ==
  [][\A r \in requests : ~MetaSucceeds(r) => ~MetaSucceeds(r)']_allVars

\* When messages are popped, by a request or by a direct commit, every other
\* request and every pending transaction is dead.
RequestsFenced ==
  [][kv[HeadKey] # kv'[HeadKey] =>
       /\ \A r \in requests' : ~MetaSucceeds(r)'
       /\ \A w \in DirectWorkers : \A i \in DOMAIN pool'[w] :
            ~RollupSucceeds(kv', pool'[w][i])]_allVars
=============================================================================
