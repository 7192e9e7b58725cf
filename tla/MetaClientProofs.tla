--------------------------- MODULE MetaClientProofs ---------------------------
(***************************************************************************)
(* Proofs about MetaClient, for any workers, direct or not, any attestors, *)
(* shared or not, and any requests relayed by anybody: the inductive       *)
(* invariant MetaInv, the safety properties, and that the system still     *)
(* implements ExactlyOnceQueue.                                            *)
(***************************************************************************)
EXTENDS MetaClient, OffchainRollupProofs

\* A step that leaves the storage and the pushes alone leaves every
\* transaction as sound as it was.
LEMMA SameContract ==
  ASSUME kv' = kv, pushed' = pushed
  PROVE  TxsStaySound
BY DEF TxsStaySound, TxSound

-----------------------------------------------------------------------------
(* The steps that MetaClient takes from OffchainRollup.                    *)

LEMMA DirectIsNext ==
  ASSUME DirectStep
  PROVE  Next
BY DEF DirectStep, Next, WorkerStep, DirectWorkers

\* A worker that has not come to its commit does not touch the contract, and
\* does not come to its submission.
LEMMA SessionStepEffect ==
  ASSUME IInv, NEW w \in Workers, SessionStep(w)
  PROVE  /\ kv' = kv /\ pushed' = pushed /\ pc[w] \notin {"commit", "submit"}
         /\ pc'[w] # "submit"
         /\ \A v \in Workers \ {w} : session'[v] = session[v] /\ pc'[v] = pc[v]
<1>1. /\ kv' = kv /\ pushed' = pushed /\ pc[w] \notin {"commit", "submit"}
  BY DEF SessionStep, StartSession, ReadVersion, ReadTail, ReadHead, ReadMessage,
         ReadCounter, Respond, vars, contractVars
<1>2. session \in [Workers -> Sessions] /\ pc \in [Workers -> Locations]
  BY DEF IInv, TypeOK
<1>3. /\ pc'[w] # "submit"
      /\ \A v \in Workers \ {w} : session'[v] = session[v] /\ pc'[v] = pc[v]
  BY <1>1, <1>2 DEF SessionStep, StartSession, ReadVersion, ReadTail, ReadHead,
         ReadMessage, ReadCounter, Respond, vars, clientVars, GoTo, EndRun, Poll
<1>4. QED
  BY <1>1, <1>3

\* What a direct worker and its account do is no other worker's business.
LEMMA DirectWorkerEffect ==
  ASSUME IInv, NEW w \in Workers,
         Commit(w) \/ Submit(w) \/ Include(w) \/ Abort(w) \/ Drop(w)
  PROVE  \A v \in Workers \ {w} : session'[v] = session[v] /\ pc'[v] = pc[v]
<1>1. session \in [Workers -> Sessions] /\ pc \in [Workers -> Locations]
  BY DEF IInv, TypeOK
<1>2. QED
  BY <1>1 DEF Commit, Submit, Include, Abort, Drop, clientVars, GoTo, EndRun

LEMMA DirectTxsStay ==
  ASSUME IInv, DirectStep
  PROVE  TxsStaySound
<1>1. ASSUME NEW w \in Workers, SessionStep(w) PROVE TxsStaySound
  BY <1>1, SessionStepEffect, SameContract
<1>2. ASSUME NEW w \in Workers, Commit(w) \/ Submit(w) \/ Abort(w) \/ Drop(w)
      PROVE  TxsStaySound
  BY <1>2, SameContract DEF Commit, Submit, Abort, Drop, contractVars
<1>3. ASSUME NEW w \in Workers, Include(w) PROVE TxsStaySound
  <2>1. CASE RollupSucceeds(kv, Head(pool[w]))
    BY <1>3, <2>1, AppliedStep
  <2>2. CASE ~RollupSucceeds(kv, Head(pool[w]))
    BY <1>3, <2>2, SameContract DEF Include
  <2>3. QED
    BY <2>1, <2>2
<1>4. ASSUME NEW m \in Payload, Push(m) PROVE TxsStaySound
  BY <1>4, PushStep
<1>5. CASE DirectUpdate
  BY <1>5, DirectUpdateStep
<1>6. QED
  BY <1>1, <1>2, <1>3, <1>4, <1>5 DEF DirectStep, DirectWorkers

\* The part of MetaInv about requests, while the requests stay and the nonces
\* do not go back.
LEMMA RequestsStaySound ==
  ASSUME MetaInv, TxsStaySound, requests' = requests,
         nonces' \in [Attestors -> Nat], \A a \in Attestors : nonces[a] <= nonces'[a]
  PROVE  \A r \in requests' : RequestSound(r)'
<1> SUFFICES ASSUME NEW r \in requests PROVE RequestSound(r)'
  OBVIOUS
<1>1. r.from \in Attestors /\ r.nonce \in Nat /\ r.data \in Txs
  BY DEF MetaInv, MetaTypeOK, Requests
<1>2. r.nonce <= nonces[r.from] /\ TxSound(r.data) /\ nonces \in [Attestors -> Nat]
  BY DEF MetaInv, MetaTypeOK, RequestSound
<1>3. r.nonce <= nonces'[r.from]
  BY <1>1, <1>2
<1>4. TxSound(r.data)'
  BY <1>1, <1>2 DEF TxsStaySound
<1>5. QED
  BY <1>3, <1>4 DEF RequestSound

\* The draft of a worker that does not move, or that is nowhere near a commit.
LEMMA DraftStays ==
  ASSUME MetaInv, NEW w \in MetaWorkers, draft'[w] = draft[w], requests \subseteq requests',
         nonces \in [Attestors -> Nat], nonces' \in [Attestors -> Nat],
         \A a \in Attestors : nonces[a] <= nonces'[a],
         \/ session'[w] = session[w] /\ pc'[w] = pc[w]
         \/ pc[w] \notin {"commit", "submit"} /\ pc'[w] # "submit"
  PROVE  DraftSound(w)'
<1>1. DraftSound(w) /\ draft[w] \in Drafts
  BY DEF MetaInv, MetaTypeOK
<1>2. AttestorOf[w] \in Attestors
  BY MetaWorkersAssumption
<1>3. CASE pc[w] \notin {"commit", "submit"} /\ pc'[w] # "submit"
  <2>1. draft[w] = NoDraft /\ draft[w].stage = "none"
    BY <1>1, <1>3 DEF DraftSound
  <2>2. QED
    BY <1>3, <2>1 DEF DraftSound
<1>4. CASE session'[w] = session[w] /\ pc'[w] = pc[w]
  <2>1. draft[w].nonce <= nonces[AttestorOf[w]] => draft[w].nonce <= nonces'[AttestorOf[w]]
    BY <1>1, <1>2 DEF Drafts
  <2>2. RequestOf(w, draft[w].nonce)' = RequestOf(w, draft[w].nonce)
    BY <1>4 DEF RequestOf
  <2>3. HasUpdates(session[w])' = HasUpdates(session[w])
    BY <1>4
  <2>4. QED
    BY <1>1, <1>4, <2>1, <2>2, <2>3 DEF DraftSound
<1>5. QED
  BY <1>3, <1>4

LEMMA DirectStepKeeps ==
  ASSUME MetaInv, DirectStep, UNCHANGED metaVars
  PROVE  MetaInv'
<1>1. IInv'
  BY DirectIsNext, NextStep DEF MetaInv
<1>2. /\ nonces' = nonces /\ draft' = draft /\ requests' = requests /\ relays' = relays
  BY DEF metaVars
<1>3. /\ nonces \in [Attestors -> Nat] /\ nonces' \in [Attestors -> Nat]
      /\ \A a \in Attestors : nonces[a] <= nonces'[a]
  BY <1>2 DEF MetaInv, MetaTypeOK
<1>4. MetaTypeOK'
  BY <1>2 DEF MetaInv, MetaTypeOK
<1>5. \A r \in requests' : RequestSound(r)'
  BY <1>2, <1>3, DirectTxsStay, RequestsStaySound DEF MetaInv
<1>6. ASSUME NEW w \in MetaWorkers PROVE DraftSound(w)'
  <2>1. w \in Workers
    BY MetaWorkersAssumption
  <2>2. \/ session'[w] = session[w] /\ pc'[w] = pc[w]
        \/ pc[w] \notin {"commit", "submit"} /\ pc'[w] # "submit"
    <3>1. ASSUME NEW v \in Workers, SessionStep(v) PROVE <2>2!1 \/ <2>2!2
      BY <2>1, <3>1, SessionStepEffect DEF MetaInv
    <3>2. ASSUME NEW v \in DirectWorkers,
                 Commit(v) \/ Submit(v) \/ Include(v) \/ Abort(v) \/ Drop(v)
          PROVE  <2>2!1
      BY <2>1, <3>2, DirectWorkerEffect DEF MetaInv, DirectWorkers
    <3>3. ASSUME NEW m \in Payload, Push(m) PROVE <2>2!1
      BY <3>3 DEF Push, clientVars
    <3>4. CASE DirectUpdate
      BY <3>4 DEF DirectUpdate, clientVars
    <3>5. QED
      BY <3>1, <3>2, <3>3, <3>4 DEF DirectStep
  <2>3. QED
    BY <1>2, <1>3, <2>2, DraftStays
<1>7. QED
  BY <1>1, <1>4, <1>5, <1>6 DEF MetaInv

-----------------------------------------------------------------------------
(* sendMetaTransaction.                                                    *)

\* More requests are signed, and what was submitted is still among them.
LEMMA SeqGrows ==
  ASSUME NEW A, NEW B, A \subseteq B, NEW q \in Seq(A)
  PROVE  q \in Seq(B)
<1>1. Len(q) \in Nat /\ q \in [1 .. Len(q) -> A]
  BY LenProperties
<1>2. q \in [1 .. Len(q) -> B]
  BY <1>1
<1>3. QED
  BY <1>1, <1>2, SeqDef

\* The facts about a meta worker that the proofs of its steps need.
LEMMA MetaWorkerFacts ==
  ASSUME MetaInv, NEW w \in MetaWorkers
  PROVE  /\ w \in Workers /\ AttestorOf[w] \in Attestors
         /\ DraftSound(w) /\ draft[w] \in Drafts /\ draft \in [MetaWorkers -> Drafts]
         /\ nonces \in [Attestors -> Nat] /\ nonces[AttestorOf[w]] \in Nat
         /\ NoDraft \in Drafts /\ IInv
BY MetaWorkersAssumption DEF MetaInv, MetaTypeOK, NoDraft, Drafts

\* The request of a commit is well formed and sound.
LEMMA RequestOfSound ==
  ASSUME MetaInv, NEW w \in MetaWorkers, pc[w] = "commit", HasUpdates(session[w]),
         NEW n \in Nat, n <= nonces[AttestorOf[w]]
  PROVE  RequestOf(w, n) \in Requests /\ RequestSound(RequestOf(w, n))
<1>1. TxOf(session[w]) \in Txs /\ TxSound(TxOf(session[w]))
  BY MetaWorkerFacts, CommitAnswers, TxOfSound
<1>2. QED
  BY <1>1, MetaWorkerFacts DEF RequestOf, Requests, RequestSound

\* A step that changes the draft and the state of one meta worker, and signs
\* at most one request.
LEMMA OneDraftStep ==
  ASSUME MetaInv, IInv', NEW w \in MetaWorkers,
         nonces' = nonces, kv' = kv, pushed' = pushed,
         draft' \in [MetaWorkers -> Drafts],
         relays' \in [MetaWorkers -> Seq(requests')],
         requests \subseteq requests',
         \A r \in requests' \ requests : r \in Requests /\ RequestSound(r),
         DraftSound(w)',
         \A v \in MetaWorkers \ {w} :
           draft'[v] = draft[v] /\ session'[v] = session[v] /\ pc'[v] = pc[v]
  PROVE  MetaInv'
<1>1. /\ nonces \in [Attestors -> Nat] /\ nonces' \in [Attestors -> Nat]
      /\ \A a \in Attestors : nonces[a] <= nonces'[a]
  BY DEF MetaInv, MetaTypeOK
<1>2. MetaTypeOK'
  BY <1>1 DEF MetaInv, MetaTypeOK
<1>3. ASSUME NEW v \in MetaWorkers PROVE DraftSound(v)'
  <2>1. CASE v = w
    BY <2>1
  <2>2. CASE v # w
    BY <1>1, <2>2, DraftStays
  <2>3. QED
    BY <2>1, <2>2
<1>4. ASSUME NEW r \in requests' PROVE RequestSound(r)'
  <2>1. RequestSound(r) /\ r \in Requests
    BY DEF MetaInv, MetaTypeOK
  <2>2. TxSound(r.data)'
    BY <2>1, SameContract DEF TxsStaySound, RequestSound, Requests
  <2>3. QED
    BY <2>1, <2>2 DEF RequestSound
<1>5. QED
  BY <1>2, <1>3, <1>4 DEF MetaInv

\* The end of a run in sendMetaTransaction.
LEMMA EndMetaRunKeeps ==
  ASSUME MetaInv, NEW w \in MetaWorkers, EndMetaRun(w),
         UNCHANGED <<contractVars, pool, nonces, requests, relays>>, faults' \in Nat
  PROVE  MetaInv'
<1>1. IInv'
  BY EndedStep, MetaWorkerFacts DEF EndMetaRun
<1>2. /\ draft' \in [MetaWorkers -> Drafts] /\ draft'[w] = NoDraft
      /\ \A v \in MetaWorkers \ {w} : draft'[v] = draft[v]
  BY MetaWorkerFacts DEF EndMetaRun
<1>3. /\ pc'[w] = "idle"
      /\ \A v \in Workers \ {w} : session'[v] = session[v] /\ pc'[v] = pc[v]
  BY MetaWorkerFacts, EndRunStep DEF EndMetaRun, EndRun, GoTo, IInv, TypeOK
<1>4. DraftSound(w)'
  BY <1>2, <1>3 DEF DraftSound, NoDraft
<1>5. relays' \in [MetaWorkers -> Seq(requests')]
  BY DEF MetaInv, MetaTypeOK
<1>6. QED
  BY <1>1, <1>2, <1>3, <1>4, <1>5, MetaWorkersAssumption, OneDraftStep DEF contractVars

\* relays after a step that signs a request or none.
LEMMA RelaysTyped ==
  ASSUME MetaInv, relays' = relays, requests \subseteq requests'
  PROVE  relays' \in [MetaWorkers -> Seq(requests')]
<1>1. relays \in [MetaWorkers -> Seq(requests)]
  BY DEF MetaInv, MetaTypeOK
<1>2. \A w \in MetaWorkers : relays[w] \in Seq(requests')
  BY <1>1, SeqGrows
<1>3. QED
  BY <1>1, <1>2

LEMMA PrepareKeeps ==
  ASSUME MetaInv, NEW w \in MetaWorkers, Prepare(w)
  PROVE  MetaInv'
<1>1. CASE ~HasUpdates(session[w])
  BY <1>1, EndMetaRunKeeps, MetaWorkerFacts DEF Prepare, IInv, TypeOK
<1>2. CASE HasUpdates(session[w])
  <2> DEFINE n == nonces[AttestorOf[w]]
             stage == IF Evm THEN "prepared" ELSE "signed"
  <2>1. /\ pc[w] = "commit" /\ draft' = [draft EXCEPT ![w] = [stage |-> stage, nonce |-> n]]
        /\ requests' = IF Evm THEN requests ELSE requests \cup {RequestOf(w, n)}
        /\ UNCHANGED <<contractVars, pool, faults, nonces, relays, clientVars, pc>>
    BY <1>2 DEF Prepare, NextNonce
  <2>2. /\ session' = session /\ pc' = pc /\ UNCHANGED vars
    BY <2>1 DEF vars, clientVars
  <2>3. IInv'
    BY <2>2, StutterStep, MetaWorkerFacts
  <2>4. n \in Nat /\ stage \in {"prepared", "signed"} /\ (stage = "signed" <=> ~Evm)
    BY MetaWorkerFacts
  <2>5. /\ draft' \in [MetaWorkers -> Drafts] /\ draft'[w] = [stage |-> stage, nonce |-> n]
        /\ \A v \in MetaWorkers \ {w} : draft'[v] = draft[v]
    BY <2>1, <2>4, MetaWorkerFacts DEF Drafts
  <2>6. RequestOf(w, n) \in Requests /\ RequestSound(RequestOf(w, n))
    BY <1>2, <2>1, <2>4, RequestOfSound
  <2>7. requests \subseteq requests' /\ requests' \ requests \subseteq {RequestOf(w, n)}
    BY <2>1
  <2>8. DraftSound(w)'
    <3>1. RequestOf(w, draft[w].nonce)' = RequestOf(w, n)
      BY <2>2, <2>5 DEF RequestOf
    <3>2. HasUpdates(session[w])'
      BY <1>2, <2>2
    <3>3. draft'[w].stage = stage /\ draft'[w].nonce = n
      BY <2>5
    <3>4. pc'[w] = "commit" /\ nonces' = nonces
      BY <2>1, <2>2
    <3>5. stage = "signed" => RequestOf(w, n) \in requests'
      BY <2>1, <2>4
    <3>6. n <= nonces[AttestorOf[w]]
      BY <2>4
    <3> HIDE DEF n, stage
    <3>7. QED
      BY <2>4, <3>1, <3>2, <3>3, <3>4, <3>5, <3>6 DEF DraftSound
  <2>9. QED
    BY <2>1, <2>2, <2>3, <2>5, <2>6, <2>7, <2>8, RelaysTyped, OneDraftStep DEF contractVars
<1>3. QED
  BY <1>1, <1>2

LEMMA SignKeeps ==
  ASSUME MetaInv, NEW w \in MetaWorkers, Sign(w)
  PROVE  MetaInv'
<1> DEFINE n == draft[w].nonce
<1>1. /\ pc[w] = "commit" /\ draft[w].stage = "prepared"
      /\ draft' = [draft EXCEPT ![w].stage = "signed"]
      /\ requests' = requests \cup {RequestOf(w, n)}
      /\ UNCHANGED vars /\ nonces' = nonces /\ relays' = relays
      /\ session' = session /\ pc' = pc /\ kv' = kv /\ pushed' = pushed
  BY DEF Sign, vars, clientVars, contractVars
<1>2. IInv'
  BY <1>1, StutterStep, MetaWorkerFacts
<1>3. HasUpdates(session[w]) /\ n <= nonces[AttestorOf[w]] /\ n \in Nat
  BY <1>1, MetaWorkerFacts DEF DraftSound, Drafts
<1>4. /\ draft' \in [MetaWorkers -> Drafts] /\ draft'[w] = [stage |-> "signed", nonce |-> n]
      /\ \A v \in MetaWorkers \ {w} : draft'[v] = draft[v]
  BY <1>1, MetaWorkerFacts DEF Drafts
<1>5. RequestOf(w, n) \in Requests /\ RequestSound(RequestOf(w, n))
  BY <1>1, <1>3, RequestOfSound
<1>6. DraftSound(w)'
  <2>1. RequestOf(w, draft[w].nonce)' = RequestOf(w, n)
    BY <1>1, <1>4 DEF RequestOf
  <2>2. HasUpdates(session[w])'
    BY <1>1, <1>3
  <2>3. QED
    BY <1>1, <1>3, <1>4, <2>1, <2>2 DEF DraftSound
<1>7. QED
  BY <1>1, <1>2, <1>4, <1>5, <1>6, RelaysTyped, OneDraftStep

LEMMA DryRunKeeps ==
  ASSUME MetaInv, NEW w \in MetaWorkers, DryRun(w)
  PROVE  MetaInv'
<1>1. CASE EndMetaRun(w)
  BY <1>1, EndMetaRunKeeps, MetaWorkerFacts DEF DryRun, IInv, TypeOK
<1>2. CASE ~EndMetaRun(w)
  <2>1. /\ pc[w] = "commit" /\ draft[w].stage = "signed"
        /\ pc' = [pc EXCEPT ![w] = "submit"] /\ draft' = draft
        /\ UNCHANGED <<contractVars, pool, faults, clientVars>>
        /\ nonces' = nonces /\ requests' = requests /\ relays' = relays
    BY <1>2 DEF DryRun, GoTo
  <2>2. HasUpdates(session[w])
    BY <2>1, MetaWorkerFacts DEF DraftSound
  <2>3. IInv'
    BY <2>1, <2>2, CommitGoesOn, MetaWorkerFacts
  <2>4. /\ session' = session /\ pc'[w] = "submit" /\ kv' = kv /\ pushed' = pushed
        /\ \A v \in MetaWorkers \ {w} : pc'[v] = pc[v]
    BY <2>1, MetaWorkerFacts, MetaWorkersAssumption DEF clientVars, contractVars, IInv, TypeOK
  <2>5. DraftSound(w)'
    <3>1. RequestOf(w, draft[w].nonce)' = RequestOf(w, draft[w].nonce)
      BY <2>1, <2>4 DEF RequestOf
    <3>2. HasUpdates(session[w])'
      BY <2>2, <2>4
    <3>3. QED
      BY <2>1, <2>4, <3>1, <3>2, MetaWorkerFacts DEF DraftSound
  <2>6. QED
    BY <2>1, <2>3, <2>4, <2>5, MetaWorkerFacts, RelaysTyped, OneDraftStep
<1>3. QED
  BY <1>1, <1>2

LEMMA SubmitRequestKeeps ==
  ASSUME MetaInv, NEW w \in MetaWorkers, SubmitRequest(w)
  PROVE  MetaInv'
<1> DEFINE r == RequestOf(w, draft[w].nonce)
<1>1. /\ pc[w] = "submit" /\ UNCHANGED contractVars /\ faults' = faults /\ pool' = pool
      /\ tailIndex' = tailIndex /\ message' = message
      /\ \/ session' = session /\ pc' = [pc EXCEPT ![w] = "inclusion"]
         \/ session' = [session EXCEPT ![w] = NewSession] /\ pc' = [pc EXCEPT ![w] = "restart"]
      /\ relays' = [relays EXCEPT ![w] = Append(relays[w], r)]
      /\ draft' = [draft EXCEPT ![w] = NoDraft]
      /\ nonces' = nonces /\ requests' = requests
  BY DEF SubmitRequest, GoTo
<1>2. IInv'
  <2>1. pool \in [Workers -> Seq(Txs)]
        /\ \A v \in Workers : \A i \in DOMAIN pool[v] : TxSound(pool[v][i])
    BY MetaWorkerFacts DEF IInv, TypeOK, ClientsSound
  <2>2. QED
    BY <1>1, <2>1, SubmittedEffect, MetaWorkerFacts
<1>3. r \in requests
  BY <1>1, MetaWorkerFacts DEF DraftSound
<1>4. relays' \in [MetaWorkers -> Seq(requests')]
  <2>1. relays \in [MetaWorkers -> Seq(requests)]
    BY DEF MetaInv, MetaTypeOK
  <2>2. Append(relays[w], r) \in Seq(requests)
    BY <1>3, <2>1, AppendProperties
  <2>3. QED
    BY <1>1, <2>1, <2>2
<1>5. /\ draft' \in [MetaWorkers -> Drafts] /\ draft'[w] = NoDraft
      /\ \A v \in MetaWorkers \ {w} : draft'[v] = draft[v]
  BY <1>1, MetaWorkerFacts
<1>6. /\ pc'[w] \in {"inclusion", "restart"}
      /\ \A v \in Workers \ {w} : session'[v] = session[v] /\ pc'[v] = pc[v]
  BY <1>1, MetaWorkerFacts DEF IInv, TypeOK
<1>7. DraftSound(w)'
  BY <1>5, <1>6 DEF DraftSound, NoDraft
<1>8. QED
  BY <1>1, <1>2, <1>4, <1>5, <1>6, <1>7, MetaWorkersAssumption, OneDraftStep DEF contractVars

\* A worker that loses a run elsewhere than in sendMetaTransaction.
LEMMA EndRunKeeps ==
  ASSUME MetaInv, NEW w \in MetaWorkers,
         \/ pc[w] = "inclusion" /\ EndRun(w)
         \/ UNCHANGED <<session, tailIndex, message, pc>>,
         UNCHANGED <<contractVars, pool, nonces, requests, draft>>, faults' \in Nat,
         relays' \in [MetaWorkers -> Seq(requests')]
  PROVE  MetaInv'
<1>1. IInv'
  <2>1. CASE EndRun(w)
    BY <2>1, EndedStep, MetaWorkerFacts
  <2>2. CASE UNCHANGED <<session, tailIndex, message, pc>>
    <3>1. TypeOK'
      BY <2>2, MetaWorkerFacts DEF IInv, TypeOK, contractVars
    <3>2. \A v \in Workers : SessionSound(v)'
      BY <2>2, MetaWorkerFacts, OtherSessions DEF contractVars
    <3>3. \A v \in Workers : \A i \in DOMAIN pool'[v] : TxSound(pool'[v][i])
      BY MetaWorkerFacts DEF IInv, ClientsSound
    <3>4. QED
      BY <3>1, <3>2, <3>3, MetaWorkerFacts, PoolStep
  <2>3. QED
    BY <2>1, <2>2
<1>2. /\ \/ pc[w] \notin {"commit", "submit"} /\ pc'[w] # "submit"
         \/ session'[w] = session[w] /\ pc'[w] = pc[w]
      /\ \A v \in Workers \ {w} : session'[v] = session[v] /\ pc'[v] = pc[v]
  BY MetaWorkerFacts DEF EndRun, GoTo, IInv, TypeOK
<1>3. draft' \in [MetaWorkers -> Drafts] /\ draft'[w] = draft[w]
  BY MetaWorkerFacts
<1>4. nonces \in [Attestors -> Nat] /\ \A a \in Attestors : nonces[a] <= nonces'[a]
  BY MetaWorkerFacts
<1>5. DraftSound(w)'
  BY <1>2, <1>3, <1>4, DraftStays
<1>6. QED
  BY <1>1, <1>2, <1>3, <1>5, MetaWorkersAssumption, OneDraftStep DEF contractVars

-----------------------------------------------------------------------------
(* Requests at the contract.                                               *)

LEMMA RequestFacts ==
  ASSUME MetaInv, NEW r \in requests
  PROVE  /\ r \in Requests /\ r.from \in Attestors /\ r.nonce \in Nat
         /\ r.data \in Txs /\ TxSound(r.data)
         /\ nonces \in [Attestors -> Nat] /\ IInv
BY DEF MetaInv, MetaTypeOK, Requests, RequestSound

\* What was submitted and not yet executed was signed.
LEMMA OldestRelay ==
  ASSUME MetaInv, NEW w \in MetaWorkers, relays[w] # <<>>,
         relays' = [relays EXCEPT ![w] = Tail(relays[w])], requests' = requests
  PROVE  /\ Head(relays[w]) \in requests
         /\ relays' \in [MetaWorkers -> Seq(requests')]
<1>1. relays \in [MetaWorkers -> Seq(requests)]
  BY DEF MetaInv, MetaTypeOK
<1>2. Head(relays[w]) \in requests /\ Tail(relays[w]) \in Seq(requests)
  BY <1>1, HeadTailProperties, EmptySeq
<1>3. QED
  BY <1>1, <1>2

\* The execution of a request, and the nonce it uses up.
LEMMA ExecutedKeeps ==
  ASSUME MetaInv, NEW r \in requests, MetaSucceeds(r), Execute(r),
         UNCHANGED <<pushed, directs, pool, faults, draft, requests>>,
         relays' \in [MetaWorkers -> Seq(requests')],
         NEW w,
         \/ /\ w \in Workers /\ pc[w] = "inclusion"
            /\ session' = [session EXCEPT ![w] = NewSession]
            /\ pc' = [pc EXCEPT ![w] = "restart"]
            /\ tailIndex' = tailIndex /\ message' = message
         \/ UNCHANGED <<session, tailIndex, message, pc>>
  PROVE  MetaInv'
<1>1. /\ kv' = RollupResult(kv, r.data) /\ replies' = replies \o r.data.replies
      /\ nonces' = [nonces EXCEPT ![r.from] = r.nonce + 1]
      /\ r.nonce = nonces[r.from] /\ RollupSucceeds(kv, r.data)
  BY DEF Execute, MetaSucceeds, NonceIsCurrent
<1>2. /\ pool' \in [Workers -> Seq(Txs)]
      /\ \A v \in Workers : \A i \in DOMAIN pool'[v] :
           pool'[v][i] \in Txs /\ TxSound(pool'[v][i])
  BY RequestFacts, PoolOfTxs DEF IInv, TypeOK, ClientsSound
<1>3. IInv' /\ TxsStaySound
  BY <1>1, <1>2, RequestFacts, AppliedEffect
<1>4. /\ nonces \in [Attestors -> Nat] /\ nonces' \in [Attestors -> Nat]
      /\ \A a \in Attestors : nonces[a] <= nonces'[a]
  BY <1>1, RequestFacts
<1>5. MetaTypeOK'
  BY <1>4 DEF MetaInv, MetaTypeOK
<1>6. \A q \in requests' : RequestSound(q)'
  BY <1>3, <1>4, RequestsStaySound
<1>7. ASSUME NEW v \in MetaWorkers PROVE DraftSound(v)'
  <2>1. \/ session'[v] = session[v] /\ pc'[v] = pc[v]
        \/ pc[v] \notin {"commit", "submit"} /\ pc'[v] # "submit"
    BY MetaWorkersAssumption, RequestFacts DEF IInv, TypeOK
  <2>2. QED
    BY <1>4, <2>1, DraftStays
<1>8. QED
  BY <1>3, <1>5, <1>6, <1>7 DEF MetaInv

LEMMA IncludeRequestKeeps ==
  ASSUME MetaInv, NEW w \in MetaWorkers, IncludeRequest(w)
  PROVE  MetaInv'
<1> DEFINE r == Head(relays[w])
<1>1. /\ relays[w] # <<>> /\ Execute(r) /\ relays' = [relays EXCEPT ![w] = Tail(relays[w])]
      /\ UNCHANGED <<pushed, directs, pool, faults, draft, requests>>
      /\ w \in Workers
  BY MetaWorkersAssumption DEF IncludeRequest
<1>2. r \in requests /\ relays' \in [MetaWorkers -> Seq(requests')]
  BY <1>1, OldestRelay
<1>3. CASE MetaSucceeds(r)
  <2>1. \/ /\ pc[w] = "inclusion" /\ session' = [session EXCEPT ![w] = NewSession]
           /\ pc' = [pc EXCEPT ![w] = "restart"]
           /\ tailIndex' = tailIndex /\ message' = message
        \/ UNCHANGED <<session, tailIndex, message, pc>>
    BY <1>3 DEF IncludeRequest, AwaitsOldestRelay, clientVars, GoTo
  <2>2. QED
    BY <1>1, <1>2, <1>3, <2>1, ExecutedKeeps
<1>4. CASE ~MetaSucceeds(r)
  <2>1. \/ pc[w] = "inclusion" /\ EndRun(w)
        \/ UNCHANGED <<session, tailIndex, message, pc>>
    BY <1>4 DEF IncludeRequest, AwaitsOldestRelay, clientVars
  <2>2. UNCHANGED <<contractVars, nonces>> /\ faults' \in Nat
    BY <1>1, <1>4, MetaWorkerFacts DEF Execute, contractVars, IInv, TypeOK
  <2>3. QED
    BY <1>1, <1>2, <2>1, <2>2, EndRunKeeps
<1>5. QED
  BY <1>3, <1>4

LEMMA RelayKeeps ==
  ASSUME MetaInv, NEW r \in requests, Relay(r)
  PROVE  MetaInv'
<1>1. /\ MetaSucceeds(r) /\ Execute(r)
      /\ UNCHANGED <<pushed, directs, pool, faults, draft, requests>>
      /\ UNCHANGED <<session, tailIndex, message, pc>> /\ relays' = relays
  BY DEF Relay, clientVars
<1>2. relays' \in [MetaWorkers -> Seq(requests')]
  BY <1>1 DEF MetaInv, MetaTypeOK
<1>3. QED
  BY <1>1, <1>2, ExecutedKeeps

LEMMA DropRequestKeeps ==
  ASSUME MetaInv, NEW w \in MetaWorkers, DropRequest(w)
  PROVE  MetaInv'
<1>1. /\ relays[w] # <<>> /\ relays' = [relays EXCEPT ![w] = Tail(relays[w])]
      /\ \/ pc[w] = "inclusion" /\ EndRun(w)
         \/ UNCHANGED <<session, tailIndex, message, pc>>
      /\ faults' = faults + 1
      /\ UNCHANGED <<contractVars, pool, nonces, draft, requests>>
  BY DEF DropRequest, AwaitsOldestRelay, clientVars
<1>2. faults' \in Nat
  BY <1>1, MetaWorkerFacts DEF IInv, TypeOK
<1>3. QED
  BY <1>1, <1>2, OldestRelay, EndRunKeeps

LEMMA AbortMetaKeeps ==
  ASSUME MetaInv, NEW w \in MetaWorkers, AbortMeta(w)
  PROVE  MetaInv'
<1>1. faults' \in Nat
  BY MetaWorkerFacts DEF AbortMeta, IInv, TypeOK
<1>2. QED
  BY <1>1, EndMetaRunKeeps DEF AbortMeta

LEMMA MetaStutterKeeps ==
  ASSUME MetaInv, UNCHANGED allVars
  PROVE  MetaInv'
<1>1. UNCHANGED vars /\ UNCHANGED metaVars
  BY DEF allVars
<1>2. IInv'
  BY <1>1, StutterStep DEF MetaInv
<1>3. /\ nonces' = nonces /\ draft' = draft /\ requests' = requests /\ relays' = relays
      /\ kv' = kv /\ pushed' = pushed /\ session' = session /\ pc' = pc
  BY <1>1 DEF vars, contractVars, clientVars, metaVars
<1>4. nonces \in [Attestors -> Nat] /\ \A a \in Attestors : nonces[a] <= nonces'[a]
  BY <1>3 DEF MetaInv, MetaTypeOK
<1>5. MetaTypeOK'
  BY <1>3 DEF MetaInv, MetaTypeOK
<1>6. \A r \in requests' : RequestSound(r)'
  BY <1>3, <1>4, SameContract, RequestsStaySound
<1>7. \A w \in MetaWorkers : DraftSound(w)'
  BY <1>3, <1>4, DraftStays
<1>8. QED
  BY <1>2, <1>5, <1>6, <1>7 DEF MetaInv

\* Every step keeps the inductive invariant.  A request is signed by a worker.
LEMMA MetaNextStep == MetaInv /\ [MetaNext]_allVars => MetaInv'
<1> SUFFICES ASSUME MetaInv, [MetaNext]_allVars PROVE MetaInv'
  OBVIOUS
<1>1. CASE DirectStep /\ UNCHANGED metaVars
  BY <1>1, DirectStepKeeps
<1>2. ASSUME NEW w \in MetaWorkers,
             MetaStep(w) \/ IncludeRequest(w) \/ AbortMeta(w) \/ DropRequest(w)
      PROVE  MetaInv'
  BY <1>2, PrepareKeeps, SignKeeps, DryRunKeeps, SubmitRequestKeeps, IncludeRequestKeeps,
     AbortMetaKeeps, DropRequestKeeps DEF MetaStep
<1>3. ASSUME NEW r \in requests, Relay(r) PROVE MetaInv'
  BY <1>3, RelayKeeps
<1>4. CASE UNCHANGED allVars
  BY <1>4, MetaStutterKeeps
<1>5. QED
  BY <1>1, <1>2, <1>3, <1>4 DEF MetaNext

LEMMA InitMetaInv == MetaInit => MetaInv
<1> SUFFICES ASSUME MetaInit PROVE MetaInv
  OBVIOUS
<1> USE DEF MetaInit
<1>1. IInv
  BY InitIInv
<1>2. MetaTypeOK
  BY EmptySeq DEF MetaTypeOK, NoDraft, Drafts
<1>3. ASSUME NEW w \in MetaWorkers PROVE DraftSound(w)
  <2>1. w \in Workers /\ pc[w] = "idle" /\ draft[w] = NoDraft
    BY MetaWorkersAssumption DEF Init
  <2>2. QED
    BY <2>1 DEF DraftSound, NoDraft
<1>4. QED
  BY <1>1, <1>2, <1>3 DEF MetaInv

-----------------------------------------------------------------------------
\* Every reachable state satisfies the inductive invariant: what is signed is
\* what a direct commit would send, and no signature is ahead of its nonce.
THEOREM MetaInvariance == MetaSpec => []MetaInv
<1>1. MetaInit => MetaInv
  BY InitMetaInv
<1>2. MetaInv /\ [MetaNext]_allVars => MetaInv'
  BY MetaNextStep
<1>3. QED
  BY <1>1, <1>2, PTL DEF MetaSpec

\* Each popped message got exactly one reply and the queue holds all others,
\* also with requests relayed by anybody at any time.
THEOREM MetaExactlyOnce == MetaSpec => [](ExactlyOnceInOrder /\ QueueIntact)
<1>1. MetaInv => ExactlyOnceInOrder /\ QueueIntact
  BY DEF MetaInv, IInv
<1>2. QED
  BY <1>1, MetaInvariance, PTL

\* A signed request that could still succeed answers the oldest messages.
THEOREM LiveRequests == MetaSpec => []LiveRequestsSound
<1>1. ASSUME MetaInv PROVE LiveRequestsSound
  <2> SUFFICES ASSUME NEW r \in requests, MetaSucceeds(r)
               PROVE  /\ QueueHead(kv) < r.data.head /\ r.data.head <= QueueTail(kv)
                      /\ r.data.head = QueueHead(kv) + Len(r.data.replies)
                      /\ AreRepliesTo(pushed, QueueHead(kv), r.data.replies)
                      /\ r.data.updates[Counter]
                           = NumberAt(kv[Counter]) + Len(r.data.replies)
    BY DEF LiveRequestsSound
  <2> DEFINE tx == r.data
  <2>1. tx \in Txs /\ TxSound(tx) /\ IInv
    BY <1>1, RequestFacts
  <2>2. kv[VersionKey] = tx.conditions[VersionKey] /\ kv[Counter] = tx.conditions[Counter]
    BY <2>1, KeyFacts DEF MetaSucceeds, RollupSucceeds, ConditionsMet, TxSound, Txs, Maps
  <2>3. Len(tx.replies) \in Nat /\ QueueHead(kv) \in Nat
    BY <2>1, NumberFacts, LenProperties DEF IInv, Txs
  <2>4. QED
    BY <2>1, <2>2, <2>3 DEF TxSound
<1>2. QED
  BY <1>1, MetaInvariance, PTL

\* A transaction that was sound before the version moved on is dead after it.
LEMMA StaleTx ==
  ASSUME IInv, NEW tx \in Txs, TxSound(tx), kv'[VersionKey] = NumberAt(kv[VersionKey]) + 1
  PROVE  ~ConditionsMet(kv', tx.conditions)
<1> DEFINE c == tx.conditions[VersionKey]
<1>1. /\ c \in Nat \cup {NoValue, Undefined} /\ c # Undefined
      /\ NumberAt(c) <= NumberAt(kv[VersionKey]) /\ NumberAt(kv[VersionKey]) \in Nat
  BY KeyFacts, NumberFacts DEF TxSound, Txs, Maps, IInv
<1> HIDE DEF c
<1>2. c # kv'[VersionKey]
  <2>1. CASE c = NoValue
    BY <1>1, <2>1, MarkersAreDistinct
  <2>2. CASE c \in Nat
    BY <1>1, <2>2, MarkersAreDistinct DEF NumberAt
  <2>3. QED
    BY <1>1, <2>1, <2>2
<1>3. VersionKey \in DOMAIN tx.conditions
  BY KeyFacts DEF Txs, Maps
<1>4. QED
  BY <1>1, <1>2, <1>3 DEF ConditionsMet, c

\* Messages are popped by the execution of a transaction or of a request,
\* which bumps the version; nothing is signed or submitted in that step.
LEMMA PopBumpsVersion ==
  ASSUME MetaInv, [MetaNext]_allVars, kv[HeadKey] # kv'[HeadKey]
  PROVE  /\ kv'[VersionKey] = NumberAt(kv[VersionKey]) + 1
         /\ requests' = requests
         /\ \A v \in Workers : \A i \in DOMAIN pool'[v] :
              pool'[v][i] \in Txs /\ TxSound(pool'[v][i])
<1>1. IInv
  BY DEF MetaInv
<1>2. CASE DirectStep /\ UNCHANGED metaVars
  <2>1. \A w \in Workers :
          SessionStep(w) \/ Commit(w) \/ Submit(w) \/ Abort(w) \/ Drop(w) => kv' = kv
    BY DEF SessionStep, StartSession, ReadVersion, ReadTail, ReadHead, ReadMessage,
           ReadCounter, Respond, Commit, Submit, Abort, Drop, vars, contractVars
  <2>2. \A m \in Payload : Push(m) => kv'[HeadKey] = kv[HeadKey]
    <3>1. QueueTail(kv) # HeadKey
      BY <1>1, NumberFacts, KeyFacts DEF IInv
    <3>2. QED
      BY <1>1, <3>1, KeyFacts DEF Push, PushMessage, IInv, TypeOK
  <2>3. DirectUpdate => kv'[HeadKey] = kv[HeadKey]
    BY <1>1, KeyFacts DEF DirectUpdate, IInv, TypeOK
  <2>4. PICK w \in Workers : Include(w) /\ RollupSucceeds(kv, Head(pool[w]))
    <3>1. \A w \in Workers : Include(w) /\ ~RollupSucceeds(kv, Head(pool[w])) => kv' = kv
      BY DEF Include
    <3>2. QED
      BY <1>2, <2>1, <2>2, <2>3, <3>1 DEF DirectStep, DirectWorkers
  <2>5. /\ pool[w] # <<>> /\ kv' = RollupResult(kv, Head(pool[w]))
        /\ pool' = [pool EXCEPT ![w] = Tail(pool[w])]
    BY <2>4 DEF Include
  <2>6. kv'[VersionKey] = NumberAt(kv[VersionKey]) + 1
    BY <1>1, <2>4, <2>5, OldestPending, AppliedTx
  <2>7. QED
    BY <1>1, <1>2, <2>5, <2>6, OldestPending DEF metaVars
<1>3. ASSUME NEW r \in requests, Execute(r), UNCHANGED <<pool, requests>>
      PROVE  /\ kv'[VersionKey] = NumberAt(kv[VersionKey]) + 1
             /\ requests' = requests
             /\ \A v \in Workers : \A i \in DOMAIN pool'[v] :
                  pool'[v][i] \in Txs /\ TxSound(pool'[v][i])
  <2>1. MetaSucceeds(r)
    BY <1>3 DEF Execute
  <2>2. kv' = RollupResult(kv, r.data) /\ RollupSucceeds(kv, r.data)
    BY <1>3, <2>1 DEF Execute, MetaSucceeds
  <2>3. kv'[VersionKey] = NumberAt(kv[VersionKey]) + 1
    BY <2>2, RequestFacts, AppliedTx
  <2>4. QED
    BY <1>1, <1>3, <2>3, PoolOfTxs DEF IInv, ClientsSound
<1>4. ASSUME NEW w \in MetaWorkers,
             MetaStep(w) \/ AbortMeta(w) \/ DropRequest(w)
      PROVE  kv' = kv
  BY <1>4 DEF MetaStep, Prepare, Sign, DryRun, SubmitRequest, AbortMeta, DropRequest,
              contractVars, vars
<1>5. ASSUME NEW w \in MetaWorkers, IncludeRequest(w)
      PROVE  \E r \in requests : Execute(r) /\ UNCHANGED <<pool, requests>>
  BY <1>5, OldestRelay DEF IncludeRequest
<1>6. ASSUME NEW r \in requests, Relay(r) PROVE Execute(r) /\ UNCHANGED <<pool, requests>>
  BY <1>6 DEF Relay
<1>7. CASE UNCHANGED allVars
  BY <1>7 DEF allVars, vars, contractVars
<1>8. QED
  BY <1>2, <1>3, <1>4, <1>5, <1>6, <1>7 DEF MetaNext

\* Whoever pops messages, the requests and transactions left are all dead.
THEOREM RequestFencing == MetaSpec => RequestsFenced
<1>1. ASSUME MetaInv, [MetaNext]_allVars
      PROVE  [kv[HeadKey] # kv'[HeadKey] =>
                /\ \A r \in requests' : ~MetaSucceeds(r)'
                /\ \A w \in DirectWorkers : \A i \in DOMAIN pool'[w] :
                     ~RollupSucceeds(kv', pool'[w][i])]_allVars
  <2> SUFFICES ASSUME kv[HeadKey] # kv'[HeadKey]
               PROVE  /\ \A r \in requests' : ~MetaSucceeds(r)'
                      /\ \A w \in DirectWorkers : \A i \in DOMAIN pool'[w] :
                           ~RollupSucceeds(kv', pool'[w][i])
    OBVIOUS
  <2>1. kv'[VersionKey] = NumberAt(kv[VersionKey]) + 1 /\ requests' = requests /\ IInv
    BY <1>1, PopBumpsVersion DEF MetaInv
  <2>2. ASSUME NEW r \in requests' PROVE ~MetaSucceeds(r)'
    <3>1. ~ConditionsMet(kv', r.data.conditions)
      BY <1>1, <2>1, RequestFacts, StaleTx
    <3>2. QED
      BY <3>1 DEF MetaSucceeds, RollupSucceeds
  <2>3. ASSUME NEW w \in DirectWorkers, NEW i \in DOMAIN pool'[w]
        PROVE  ~RollupSucceeds(kv', pool'[w][i])
    <3>1. pool'[w][i] \in Txs /\ TxSound(pool'[w][i])
      BY <1>1, PopBumpsVersion DEF DirectWorkers
    <3>2. QED
      BY <2>1, <3>1, StaleTx DEF RollupSucceeds
  <2>4. QED
    BY <2>2, <2>3
<1>2. QED
  BY <1>1, MetaInvariance, PTL DEF MetaSpec, RequestsFenced

-----------------------------------------------------------------------------
(* What was refused stays refused.                                         *)

\* A value that was read is current, or less than what was written since.
NotAhead(v, current) == v = current \/ NumberAt(v) < NumberAt(current)

\* What a session has read, or a transaction expects, is not ahead of the store.
ReadBefore(values, store) ==
  \A k \in ClientKeys :
    values[k] # Undefined => k \in {VersionKey, Counter} /\ NotAhead(values[k], store[k])

ReadsBefore ==
  /\ \A w \in Workers : ReadBefore(session[w].values, kv)
  /\ \A r \in requests : ReadBefore(r.data.conditions, kv)

\* The version and the counter only grow.
NumbersGrow ==
  \A k \in {VersionKey, Counter} :
    kv'[k] = kv[k] \/ (kv'[k] \in Nat /\ NumberAt(kv[k]) < kv'[k])

LEMMA ExecutedGrows ==
  ASSUME IInv, NEW tx \in Txs, TxSound(tx), RollupSucceeds(kv, tx), kv' = RollupResult(kv, tx)
  PROVE  NumbersGrow
BY AppliedTx, NumberFacts DEF NumbersGrow, IInv

LEMMA StoreGrows ==
  ASSUME MetaInv, [MetaNext]_allVars
  PROVE  NumbersGrow
<1>1. IInv
  BY DEF MetaInv
<1>2. kv' = kv => NumbersGrow
  BY DEF NumbersGrow
<1>3. CASE DirectStep /\ UNCHANGED metaVars
  <2>1. ASSUME NEW w \in Workers,
               SessionStep(w) \/ Commit(w) \/ Submit(w) \/ Abort(w) \/ Drop(w)
        PROVE  kv' = kv
    BY <2>1 DEF SessionStep, StartSession, ReadVersion, ReadTail, ReadHead, ReadMessage,
           ReadCounter, Respond, Commit, Submit, Abort, Drop, vars, contractVars
  <2>2. ASSUME NEW m \in Payload, Push(m) PROVE NumbersGrow
    <3>1. QueueTail(kv) \notin {VersionKey, Counter} /\ kv \in [Keys -> Values]
      BY <1>1, NumberFacts, KeyFacts DEF IInv, TypeOK
    <3>2. QED
      BY <2>2, <3>1, KeyFacts DEF Push, PushMessage, NumbersGrow
  <2>3. ASSUME DirectUpdate PROVE NumbersGrow
    <3>1. kv \in [Keys -> Values] /\ NumberAt(kv[Counter]) \in Nat
      BY <1>1, NumberFacts DEF IInv, TypeOK
    <3>2. QED
      BY <2>3, <3>1, KeyFacts DEF DirectUpdate, NumbersGrow
  <2>4. ASSUME NEW w \in Workers, Include(w) PROVE NumbersGrow
    <3>1. pool[w] # <<>> /\ pool' = [pool EXCEPT ![w] = Tail(pool[w])]
      BY <2>4 DEF Include
    <3>2. Head(pool[w]) \in Txs /\ TxSound(Head(pool[w]))
      BY <1>1, <3>1, OldestPending
    <3>3. QED
      BY <1>1, <1>2, <2>4, <3>2, ExecutedGrows DEF Include
  <2>5. QED
    BY <1>2, <1>3, <2>1, <2>2, <2>3, <2>4 DEF DirectStep, DirectWorkers
<1>4. ASSUME NEW r \in requests, Execute(r) PROVE NumbersGrow
  BY <1>2, <1>4, RequestFacts, ExecutedGrows DEF Execute, MetaSucceeds
<1>5. ASSUME NEW w \in MetaWorkers, MetaStep(w) \/ AbortMeta(w) \/ DropRequest(w)
      PROVE  kv' = kv
  BY <1>5 DEF MetaStep, Prepare, Sign, DryRun, SubmitRequest, AbortMeta, DropRequest,
              contractVars, vars
<1>6. ASSUME NEW w \in MetaWorkers, IncludeRequest(w) PROVE \E r \in requests : Execute(r)
  BY <1>6, OldestRelay DEF IncludeRequest
<1>7. CASE UNCHANGED allVars
  BY <1>2, <1>7 DEF allVars, vars, contractVars
<1>8. QED
  BY <1>2, <1>3, <1>4, <1>5, <1>6, <1>7 DEF MetaNext, Relay

\* What is behind the store stays behind it.
LEMMA StaysBehind ==
  ASSUME IInv, IInv', NumbersGrow, NEW values \in Maps, ReadBefore(values, kv)
  PROVE  ReadBefore(values, kv')
<1> SUFFICES ASSUME NEW k \in {VersionKey, Counter}, values[k] # Undefined
             PROVE  NotAhead(values[k], kv'[k])
  BY KeyFacts DEF ReadBefore
<1>1. /\ NotAhead(values[k], kv[k])
      /\ values[k] \in Nat \cup {NoValue} /\ kv[k] \in Nat \cup {NoValue}
      /\ kv'[k] = kv[k] \/ (kv'[k] \in Nat /\ NumberAt(kv[k]) < kv'[k])
  BY KeyFacts DEF ReadBefore, NumbersGrow, Maps, IInv, TypeOK
<1>2. /\ NumberAt(values[k]) \in Nat /\ NumberAt(kv[k]) \in Nat
      /\ kv'[k] \in Nat => NumberAt(kv'[k]) = kv'[k]
  BY <1>1, MarkersAreDistinct DEF NumberAt
<1>3. CASE kv'[k] = kv[k]
  BY <1>1, <1>3
<1>4. CASE kv'[k] \in Nat /\ NumberAt(kv[k]) < kv'[k]
  <2>1. NumberAt(values[k]) <= NumberAt(kv[k])
    BY <1>1, <1>2 DEF NotAhead
  <2>2. QED
    BY <1>2, <1>4, <2>1 DEF NotAhead
<1>5. QED
  BY <1>1, <1>3, <1>4

\* A step reads the version or the counter into a session, or drops a session.
LEMMA ReadsOfStep ==
  ASSUME MetaInv, [MetaNext]_allVars, NEW w \in Workers
  PROVE  \/ session'[w].values \in {session[w].values, EmptyMap}
         \/ \E k \in {VersionKey, Counter} :
              session'[w].values = [session[w].values EXCEPT ![k] = kv[k]]
<1>1. session \in [Workers -> Sessions]
  BY DEF MetaInv, IInv, TypeOK
<1>2. NewSession.values = EmptyMap
  BY DEF NewSession
<1> HIDE DEF NewSession
<1> DEFINE Claim(v) ==
      \/ session'[v].values \in {session[v].values, EmptyMap}
      \/ \E k \in {VersionKey, Counter} :
           session'[v].values = [session[v].values EXCEPT ![k] = kv[k]]
<1>3. ASSUME NEW v \in Workers, session' = session \/ session' = [session EXCEPT ![v] = NewSession]
      PROVE  Claim(w)
  BY <1>1, <1>2, <1>3
<1>4. ASSUME NEW v \in Workers, SessionStep(v) PROVE Claim(w)
  <2>1. CASE ReadVersion(v)
    <3>1. session'[v].values = [session[v].values EXCEPT ![VersionKey] = kv[VersionKey]]
            \/ session' = [session EXCEPT ![v] = NewSession]
      BY <1>1, <2>1 DEF ReadVersion, Remember, EndRun, Sessions
    <3>2. w # v => session'[w] = session[w]
      BY <1>1, <2>1 DEF ReadVersion, EndRun
    <3>3. QED
      BY <1>3, <3>1, <3>2
  <2>2. CASE ReadCounter(v)
    <3>1. session'[v].values = [session[v].values EXCEPT ![Counter] = kv[Counter]]
      BY <1>1, <2>2 DEF ReadCounter, Remember, Sessions
    <3>2. w # v => session'[w] = session[w]
      BY <1>1, <2>2 DEF ReadCounter
    <3>3. QED
      BY <3>1, <3>2
  <2>3. CASE ReadHead(v) \/ ReadMessage(v) \/ Respond(v)
    <3>1. session'[v].values = session[v].values \/ session' = [session EXCEPT ![v] = NewSession]
      BY <1>1, <2>3 DEF ReadHead, ReadMessage, Respond, EndRun, Sessions
    <3>2. w # v => session'[w] = session[w]
      BY <1>1, <2>3 DEF ReadHead, ReadMessage, Respond, EndRun
    <3>3. QED
      BY <1>3, <3>1, <3>2
  <2>4. CASE StartSession(v) \/ ReadTail(v)
    BY <1>3, <2>4 DEF StartSession, ReadTail, vars, clientVars
  <2>5. QED
    BY <1>4, <2>1, <2>2, <2>3, <2>4 DEF SessionStep
<1>5. ASSUME NEW v \in Workers, Commit(v) \/ Submit(v) \/ Include(v) \/ Abort(v) \/ Drop(v)
      PROVE  Claim(w)
  BY <1>3, <1>5 DEF Commit, Submit, Include, Abort, Drop, EndRun, clientVars
<1>6. ASSUME NEW v \in MetaWorkers,
             MetaStep(v) \/ IncludeRequest(v) \/ AbortMeta(v) \/ DropRequest(v)
      PROVE  Claim(w)
  <2>1. v \in Workers
    BY MetaWorkersAssumption
  <2>2. session' = session \/ session' = [session EXCEPT ![v] = NewSession]
    BY <1>6 DEF MetaStep, Prepare, Sign, DryRun, SubmitRequest, IncludeRequest, AbortMeta,
                DropRequest, EndMetaRun, EndRun, vars, clientVars
  <2>3. QED
    BY <1>3, <2>1, <2>2
<1>7. ASSUME session' = session PROVE Claim(w)
  BY <1>7
<1>8. QED
  BY <1>4, <1>5, <1>6, <1>7
     DEF MetaNext, DirectStep, DirectWorkers, Push, DirectUpdate, Relay, allVars, vars, clientVars

\* A new request expects what a session has read.
LEMMA NewRequests ==
  ASSUME [MetaNext]_allVars, NEW r \in requests', r \notin requests
  PROVE  \E w \in Workers : r.data.conditions = session[w].values
<1>1. PICK w \in MetaWorkers : \E n : r = RequestOf(w, n)
  BY DEF MetaNext, metaVars, allVars, MetaStep, Prepare, Sign, DryRun, SubmitRequest,
         IncludeRequest, AbortMeta, DropRequest, EndMetaRun, Relay
<1>2. QED
  BY <1>1, MetaWorkersAssumption DEF RequestOf, TxOf, Conditions

LEMMA ReadsStayBefore ==
  ASSUME MetaInv, MetaInv', ReadsBefore, [MetaNext]_allVars
  PROVE  ReadsBefore'
<1>1. IInv /\ IInv' /\ NumbersGrow
  BY StoreGrows DEF MetaInv
<1>2. ASSUME NEW w \in Workers
      PROVE  session[w].values \in Maps /\ ReadBefore(session[w].values, kv')
  BY <1>1, StaysBehind DEF ReadsBefore, IInv, TypeOK, Sessions
<1>3. ASSUME NEW w \in Workers PROVE ReadBefore(session'[w].values, kv')
  <2>1. CASE session'[w].values \in {session[w].values, EmptyMap}
    BY <1>2, <2>1 DEF ReadBefore, EmptyMap
  <2>2. ASSUME NEW k \in {VersionKey, Counter},
               session'[w].values = [session[w].values EXCEPT ![k] = kv[k]]
        PROVE  ReadBefore(session'[w].values, kv')
    <3>1. NotAhead(kv[k], kv'[k])
      BY <1>1, KeyFacts, MarkersAreDistinct
         DEF NumbersGrow, NotAhead, NumberAt, IInv, TypeOK
    <3>2. QED
      BY <1>2, <2>2, <3>1, KeyFacts DEF ReadBefore, Maps
  <2>3. QED
    BY <2>1, <2>2, ReadsOfStep
<1>4. ASSUME NEW r \in requests' PROVE ReadBefore(r.data.conditions, kv')
  <2>1. CASE r \in requests
    BY <1>1, <2>1, RequestFacts, StaysBehind DEF ReadsBefore, Txs
  <2>2. CASE r \notin requests
    BY <1>2, <2>2, NewRequests
  <2>3. QED
    BY <2>1, <2>2
<1>5. QED
  BY <1>3, <1>4 DEF ReadsBefore

\* A transaction is refused because it expects what was overwritten.
LEMMA RefusedTx ==
  ASSUME IInv, NEW tx \in Txs, TxSound(tx), ReadBefore(tx.conditions, kv)
  PROVE  ~RollupSucceeds(kv, tx) <=>
           \E k \in {VersionKey, Counter} : NumberAt(tx.conditions[k]) < NumberAt(kv[k])
<1>1. /\ tx.conditions \in Maps /\ kv[VersionKey] \in Nat \cup {NoValue}
      /\ kv[Counter] \in Nat \cup {NoValue}
      /\ tx.conditions[VersionKey] # Undefined /\ tx.conditions[Counter] # Undefined
  BY KeyFacts DEF Txs, TxSound, IInv, TypeOK
<1>2. ConditionsMet(kv, tx.conditions) <=>
        \A k \in {VersionKey, Counter} : tx.conditions[k] = kv[k]
  BY <1>1, KeyFacts DEF ConditionsMet, Maps, ReadBefore
<1>3. ASSUME NEW k \in {VersionKey, Counter}
      PROVE  tx.conditions[k] # kv[k] <=> NumberAt(tx.conditions[k]) < NumberAt(kv[k])
  <2>1. NotAhead(tx.conditions[k], kv[k]) /\ NumberAt(kv[k]) \in Nat
    BY <1>1, KeyFacts, NumberFacts DEF ReadBefore, IInv
  <2>2. QED
    BY <2>1 DEF NotAhead
<1>4. ConditionsMet(kv, tx.conditions) => ValidPopTarget(kv, tx.head)
  <2> SUFFICES ASSUME ConditionsMet(kv, tx.conditions) PROVE ValidPopTarget(kv, tx.head)
    OBVIOUS
  <2>1. tx.head = QueueHead(kv) + Len(tx.replies) /\ tx.head <= QueueTail(kv)
    BY <1>2 DEF TxSound
  <2>2. QueueHead(kv) \in Nat /\ Len(tx.replies) \in Nat
    BY NumberFacts, LenProperties DEF IInv, Txs
  <2>3. QED
    BY <2>1, <2>2 DEF ValidPopTarget
<1>5. QED
  BY <1>2, <1>3, <1>4 DEF RollupSucceeds, TxSound

DeadTx(tx) ==
  /\ IInv /\ TxSound(tx) /\ ReadBefore(tx.conditions, kv)
  /\ \E k \in {VersionKey, Counter} : NumberAt(tx.conditions[k]) < NumberAt(kv[k])

LEMMA DeadTxs == \A tx \in Txs : DeadTx(tx) => ~RollupSucceeds(kv, tx)
BY RefusedTx DEF DeadTx

LEMMA NoncesGrow ==
  ASSUME MetaInv, [MetaNext]_allVars, NEW a \in Attestors
  PROVE  nonces[a] \in Nat /\ nonces'[a] \in Nat /\ nonces[a] <= nonces'[a]
<1>1. nonces \in [Attestors -> Nat]
  BY DEF MetaInv, MetaTypeOK
<1>2. ASSUME NEW r \in requests, Execute(r)
      PROVE  nonces' = nonces \/ nonces' = [nonces EXCEPT ![r.from] = nonces[r.from] + 1]
  BY <1>2 DEF Execute, MetaSucceeds, NonceIsCurrent
<1>3. ASSUME NEW w \in MetaWorkers, IncludeRequest(w) PROVE \E r \in requests : Execute(r)
  BY <1>3, OldestRelay DEF IncludeRequest
<1>4. nonces' = nonces \/ \E r \in requests : nonces' = [nonces EXCEPT ![r.from] = nonces[r.from] + 1]
  BY <1>2, <1>3 DEF MetaNext, metaVars, allVars, MetaStep, Prepare, Sign, DryRun, SubmitRequest,
         AbortMeta, DropRequest, Relay
<1>5. QED
  BY <1>1, <1>4

LEMMA RefusedStays ==
  ASSUME MetaInv, MetaInv', ReadsBefore, ReadsBefore', [MetaNext]_allVars,
         NEW r \in requests, r \in requests', ~MetaSucceeds(r)
  PROVE  ~MetaSucceeds(r)'
<1>1. /\ r.data \in Txs /\ TxSound(r.data) /\ TxSound(r.data)' /\ IInv /\ IInv'
      /\ r.from \in Attestors /\ r.nonce \in Nat /\ r.nonce <= nonces[r.from]
  BY DEF MetaInv, MetaTypeOK, Requests, RequestSound
<1>2. ReadBefore(r.data.conditions, kv) /\ ReadBefore(r.data.conditions, kv')
  BY DEF ReadsBefore
<1>3. CASE ~NonceIsCurrent(r)
  <2>1. r.nonce # nonces'[r.from]
    BY <1>1, <1>3, NoncesGrow DEF NonceIsCurrent
  <2>2. QED
    BY <2>1 DEF MetaSucceeds, NonceIsCurrent
<1>4. CASE ~RollupSucceeds(kv, r.data)
  <2>1. PICK k \in {VersionKey, Counter} : NumberAt(r.data.conditions[k]) < NumberAt(kv[k])
    BY <1>1, <1>2, <1>4, RefusedTx
  <2>2. NumberAt(r.data.conditions[k]) < NumberAt(kv'[k])
    <3>1. NumbersGrow /\ r.data.conditions \in Maps
      BY <1>1, StoreGrows DEF Txs
    <3>2. /\ r.data.conditions[k] \in Nat \cup {NoValue}
          /\ NumberAt(kv[k]) \in Nat
          /\ kv'[k] = kv[k] \/ (kv'[k] \in Nat /\ NumberAt(kv[k]) < kv'[k])
      BY <1>1, <3>1, KeyFacts, NumberFacts DEF NumbersGrow, Maps, TxSound, IInv
    <3>3. NumberAt(r.data.conditions[k]) \in Nat /\ (kv'[k] \in Nat => NumberAt(kv'[k]) = kv'[k])
      BY <3>2, MarkersAreDistinct DEF NumberAt
    <3>4. QED
      BY <2>1, <3>2, <3>3
  <2>3. (~RollupSucceeds(kv, r.data))'
    <3>1. (\A tx \in Txs : DeadTx(tx) => ~RollupSucceeds(kv, tx))'
      BY DeadTxs, PTL
    <3>2. DeadTx(r.data)'
      BY <1>1, <1>2, <2>2 DEF DeadTx
    <3>3. QED
      BY <1>1, <3>1, <3>2
  <2>4. QED
    BY <2>3 DEF MetaSucceeds
<1>5. QED
  BY <1>3, <1>4 DEF MetaSucceeds

\* A request that is refused once is refused for good, for any workers,
\* attestors and bounds: nobody has to fear what an ended run has signed.
THEOREM Refusals == MetaSpec => RefusedForGood
<1>1. MetaInit => ReadsBefore
  BY DEF MetaInit, Init, ReadsBefore, ReadBefore, NewSession, EmptyMap
<1>2. MetaInv /\ MetaInv' /\ ReadsBefore /\ [MetaNext]_allVars => ReadsBefore'
  BY ReadsStayBefore
<1>3. ASSUME MetaInv, MetaInv', ReadsBefore, ReadsBefore', [MetaNext]_allVars
      PROVE  [\A r \in requests : ~MetaSucceeds(r) => ~MetaSucceeds(r)']_allVars
  <2>1. requests \subseteq requests'
    BY <1>3 DEF MetaNext, metaVars, allVars, MetaStep, Prepare, Sign, DryRun, SubmitRequest,
         IncludeRequest, AbortMeta, DropRequest, EndMetaRun, Relay
  <2>2. QED
    BY <1>3, <2>1, RefusedStays
<1>4. QED
  BY <1>1, <1>2, <1>3, MetaInvariance, PTL DEF MetaSpec, RefusedForGood

-----------------------------------------------------------------------------
(* The refinement.                                                         *)

LEMMA MetaStepImplements ==
  ASSUME MetaInv, MetaInv', [MetaNext]_allVars
  PROVE  [Promise!Next]_(Promise!vars)
<1>1. IInv /\ IInv' /\ WaitingIntact /\ WaitingIntact'
  <2>1. IInv /\ IInv'
    BY DEF MetaInv
  <2>2. (IInv => WaitingIntact)'
    BY WaitingFacts, PTL
  <2>3. QED
    BY <2>1, <2>2, WaitingFacts
<1>2. ASSUME UNCHANGED contractVars PROVE [Promise!Next]_(Promise!vars)
  BY <1>2 DEF Promise!vars, contractVars
<1>3. CASE DirectStep /\ UNCHANGED metaVars
  BY <1>1, <1>3, DirectIsNext, StepImplements
<1>4. ASSUME NEW r \in requests, Execute(r), pushed' = pushed
      PROVE  [Promise!Next]_(Promise!vars)
  <2>1. CASE MetaSucceeds(r)
    BY <1>1, <1>4, <2>1, RequestFacts, AnswerImplements DEF Execute, MetaSucceeds
  <2>2. CASE ~MetaSucceeds(r)
    BY <1>4, <2>2 DEF Execute, Promise!vars
  <2>3. QED
    BY <2>1, <2>2
<1>5. ASSUME NEW w \in MetaWorkers, MetaStep(w) \/ AbortMeta(w) \/ DropRequest(w)
      PROVE  UNCHANGED contractVars
  BY <1>5 DEF MetaStep, Prepare, Sign, DryRun, SubmitRequest, AbortMeta, DropRequest, vars
<1>6. ASSUME NEW w \in MetaWorkers, IncludeRequest(w)
      PROVE  \E r \in requests : Execute(r) /\ pushed' = pushed
  BY <1>6, OldestRelay DEF IncludeRequest
<1>7. CASE UNCHANGED allVars
  BY <1>2, <1>7 DEF allVars, vars
<1>8. QED
  BY <1>2, <1>3, <1>4, <1>5, <1>6, <1>7 DEF MetaNext, Relay

\* With attestors, relays and front-running, the system is still the queue
\* that answers some of the oldest messages in one atomic step.
THEOREM MetaRefinement == MetaSpec => ImplementsPromise
<1>1. MetaInit => Promise!Init
  BY InitImplements DEF MetaInit
<1>2. MetaInv /\ MetaInv' /\ [MetaNext]_allVars => [Promise!Next]_(Promise!vars)
  BY MetaStepImplements
<1>3. QED
  BY <1>1, <1>2, MetaInvariance, PTL DEF MetaSpec, ImplementsPromise, Promise!Spec

=============================================================================
