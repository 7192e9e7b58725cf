# A verification of sc-rollup

sc-rollup lets an off-chain worker answer messages that a smart contract has queued and update
the contract's key-value store, in transactions guarded by optimistic locking. The client
packages (`sc-rollup-api`) keep a session of what a worker read and wrote; the contract
libraries (`sc-rollup-client`) apply a commit only if every value it read is still current. This
directory models that protocol in TLA+, checks it with TLC and proves its main safety
properties with TLAPS.

## Inventory

### Components, their state and operations

| Component | State | Operations |
| --- | --- | --- |
| core client, `packages/core/src/client.ts`, `session.ts` | `currentSession`: version, values read, values updated, actions, index in the queue | `startSession`, `pollMessage`, `getValue`/`setValue` and their typed forms, `addAction`, `commit`, `rollback` |
| ink clients, `packages/ink-v5`, `ink-v6` | signers | `hasMessage`, `getRemoteValue`, `sendTransaction` (dry run, submit, wait for the inclusion), `sendMetaTransaction` |
| evm client, `packages/evm` | signers | `getRemoteValue`, `sendTransaction` (gas estimate, submit, return), `sendMetaTransaction` |
| key-value store, message queue (ink!), `traits/kv_store.rs`, `message_queue.rs` | one map from keys to values; the queue is kept in it under `q/_head`, `q/_tail`, `q/<index>` | `push_message`, `pop_to`, `has_message` |
| rollup client (ink!), `traits/rollup_client.rs` | none of its own | `rollup_cond_eq`: role, conditions, updates, actions |
| access control (ink!), `traits/access_control.rs` | pairs of account and role | grant, revoke, renounce |
| meta-transactions (ink!), `traits/meta_transaction.rs` | a nonce per account | `prepare`, `meta_tx_rollup_cond_eq` |
| evm anchor, `PhatRollupAnchor.sol`, `MetaTransaction.sol`, `EvmClient.sol` | all of the above | the same, as `rollupU256CondEq` and `metaTxRollupU256CondEq` |
| example contract, `ink_client_example` | the library's | `push_message`, an empty `on_message_received` |
| guess-the-number worker | one client, a cron task | `pollMessages`, `handleMessage`; routes `/start`, `/stop`, `/execute` |
| guess-the-number game | the current game of each player, the next game number | `start_new_game`, `guess`, `on_message_received` |
| guess-the-number NFT, indexer | owners, approvals, operators, counts, `max_attempts` of the tokens; the indexer only answers queries | `mint`, `burn`, `transfer`, `transfer_from`, `approve`, `set_approval_for_all` |
| price feed worker and consumer contract | one client; trading pairs | `feedPrices` (cron, `/execute`); `create_trading_pair`, `request_price`, `on_message_received` |
| type coders and encoders, in the ink and evm clients | none | SCALE and ABI encodings of values, keys, indices, actions |
| `util-crypto`, `vrf.ts` | a key pair | `getRandomNumber`, `verify` |

### How they interact

Users call the contract, which queues messages. A worker reads the version number, the tail, the
head, the messages and application values by separate calls, which other transactions
interleave with. It then sends one transaction with conditions (every value it read through the
session), updates (the version plus one, and what it set) and actions (`SetQueueHead`, the replies,
role changes). The contract executes it as a whole or not at all. A transaction is signed by the
worker's account, or wrapped in a request that a relayer submits.

The head, the tail and the messages are *not* conditions of the commit: `getIndex` and `getMessage`
bypass the session. Only the version number, which `startSession` reads first, protects the queue.
That this is enough is the central claim of the protocol, and the reason for its main invariant.

### What is hard

- Workers race: each step of a session may see another state of the contract.
- A transaction outlives the run that sent it: the client stops waiting (exception, timeout,
  restart), and the next run answers the same messages in a second transaction.
- The evm client does not wait for the inclusion, so a run reads the state before its own
  pending transaction.
- An attestor that is not this client may write an application key and leave the version alone.
- The runs of one process share one `Client`, which looks `this.currentSession` up again after
  each await.
- A call may fail half way through its actions; requests are relayed repeatedly, late, elsewhere.
- A player guesses again, or starts another game, while a clue is under way; the worker and the game
  contract decide separately, with different knowledge, that a game is over.
- A price is fetched between the start of a session and its commit, and a transaction with it may
  wait in the pool while the next run feeds a newer one.
- Workers that share an attestor contend for its nonce, which is asked for, used and submitted in
  separate calls; what was signed stays good for whoever holds it.
- Client and contract build the bytes of keys, indices and conditions separately, and an edition that
  disagrees with itself in one of them fails silently.
- Limits: the queue index, the nonce, the version, the game number, the token count, the u16 `nb_updates`.

`PROJECT.json` lists each of these under "hazards", at its line, with the properties that cover it.

### What makes each component correct

- Queue: the messages from the head to the tail are stored at their index, and no other is.
- Commit: exactly one reply per popped message, in order; no lost update; at most one of several
  competing commits applies.
- Contract call: all or nothing, its nonce included.
- Requests: each takes effect at most once, in the order of the nonces, at its destination only;
  one that is refused stays refused.
- Typed access: a getter answers what was meant by the last setter, through bytes and other clients.
- Worker: each message is answered eventually; overlapping runs do not corrupt each other.
- Game: the clue shown is the one for the last guess; a game ends once, truthfully, and stays ended.
- NFT: balances count tokens, the mappings agree on which tokens exist, approvals end with the ownership.
- Price feed: a price never replaces a newer one, and feeding goes on.

## Modules

| Module | Role |
| --- | --- |
| `KvQueue` | key-value store and queue as operators on one function; `Evm` chooses between the ink! library and the solidity contract |
| `OffchainRollup` | workers, each with its own client, the pending transactions and the contract |
| `ExactlyOnceQueue` | abstract: a queue whose oldest messages are answered in one atomic step |
| `RollupAnchor` | the contract: roles, calls executed action by action with revert, requests and nonces |
| `AtomicRollup` | abstract: a call takes effect in one step that is described as a whole |
| `MetaClient` | extends `OffchainRollup`: workers that commit by signed requests, and who relays them |
| `SharedClient` | the runs of one process on one client object |
| `TypedClient` | the typed calls of the client, down to the bytes in the store, for both editions |
| `Vrf` | the random number and its range |
| `GuessTheNumber` | players, the worker with its answers, the game contract |
| `HonestGame` | abstract: one step compares a guess with the target of its game, and may end the game |
| `Erc721` | the NFT contract |
| `PriceFeed` | feed runs, their clients, the pool, the consumer contract |
| `MC...` | an instance for TLC of each module that is run |
| `...Proofs` | theorems: `OffchainRollupProofs`, `MetaClientProofs`, `SharedClientProofs`, `TypedClientProofs`, `RollupAnchorProofs`, `GuessTheNumberProofs`, `Erc721Proofs`, `PriceFeedProofs` |

`OffchainRollup`, `RollupAnchor` and `SharedClient` all build on `KvQueue`; `MetaClient` composes the
worker of `OffchainRollup` with the nonce rules of the contract. `GuessTheNumber` extends `Vrf` and takes
the rollup between worker and contract as what `OffchainRollup` is shown to implement, `ExactlyOnceQueue`:
a commit answers a prefix of the waiting requests in one step. Each operator named
as a mutant in a comment is a plausible bug in the definition that follows it; no specification
uses it.

### From the code to the model

The ink! v5 and v6 editions of the client, the library and the price feed's consumer contract differ in
the types of addresses and in log lines only; the models stand for both, and `PROJECT.json` cites the one or
the other.

**KvQueue.** A key is an application key, the version key, the head key, the tail key or an
index, which stands for `q/<index>`. A value is a number, a message or `NoValue`. Encodings
are the matter of `TypedClient` and are left out here. A list of conditions or updates is a function that is
`Undefined` where the list has no entry. The two contracts differ in `ValidPopTarget`
(`_popTo` does not compare the target with the head) and in popping to the head itself.

**OffchainRollup.** There is one program location per await of `pollMessages` and of the client
methods it calls, so one action per stretch of code between awaits: `StartSession`, `ReadVersion`,
`ReadTail`, `ReadHead`, `ReadMessage`, `ReadCounter`, `Respond`, `Commit` (which ends with the answer
to the dry run), `Submit`. `Include` executes the oldest pending transaction of an account and,
if its worker still waits, tells it the outcome. `Abort` stands for every exception, timeout and
restart, `Drop` for a transaction that is never included. Answering a message also increments
one number with `getNumber` and `setNumber`, as the tests of the client packages do, so that the
read-modify-write of a session is covered; `DirectUpdate` is another attestor that increments
the same number without touching the version. The dry run of the evm client is the gas
estimate that precedes a submission. Workers are attestors throughout; the role check is in
`RollupAnchor`. The answer to `has_message` and the `startSession` after it are one step: the
session begins by reading the version again, and nothing read before is used.

**RollupAnchor.** `BeginCall` and `BeginMetaCall` do what precedes the actions (nonce, role,
conditions, updates), `HandleAction` one action, `Revert` what an `Err` or a solidity revert does,
`EndCall` the end. The chain runs no other call in between; the steps make visible what a failing
action finds. A reply that the application refuses stands for every failing reply.
A signed request is a member of `requests`, from which anybody may relay it at any time, so a
signature is valid if and only if the signer made it. Assumed of a call: its updates touch
application keys and the version only (an attestor that overwrites the queue's keys can
corrupt it), and it decodes. Reentrancy is excluded by `nonReentrant`.

**MetaClient.** Up to its commit a run is the one of `OffchainRollup`. Then come `Prepare`, which
reads the attestor's nonce, `Sign` (the evm client asks for the network and the contract's address before
it signs; the ink client signs at once, so there the two are one step), `DryRun`, which is the dry run or
the gas estimate, and `SubmitRequest`. `draft` is what the method keeps in local variables. A signed
request enters `requests` and never leaves: `Relay` submits any of them at any time, `IncludeRequest`
executes what the sender's account has submitted. `RollupAnchor` has the contract's half in detail; here
it is one step, which the theorem `Atomicity` justifies. Workers outside of `MetaWorkers` commit directly.

**SharedClient.** The same loop with a session that belongs to the process. `holders` are the
runs whose pending assignment (`this.currentSession.version = await ...`) targets the current
object; a session that was replaced matters to nobody, except that an assignment to it is lost.
Comparing and adding `undefined` follow JavaScript, with `NaN` and its encoding, zero. The history
variable `overlapped` says whether a run has started during another one: the schedule passes
`noOverlap`, but `task.execute()` of the `/execute` route is not subject to it.

**GuessTheNumber.** `StartNewGame` and `Guess` are the messages of a player, with their errors as
guards; `HandleMessage` is one turn of the polling loop, in which the indexer may give any answer or
none, in which case the default counts; `Commit` replaces the answered requests of `queue` by
`responses`, which `OnMessageReceived` handles one at a time while the contract accepts no other
call. The draw is a function of what the VRF is given, so it is the same at every attempt;
`Vrf` reduces it to the range, or throws, which would end every run before its commit. The games that
`start_new_game` refuses are what keeps the requests drawable. A guess outside of the range is
admitted, as by the contract. `HonestGame` has neither worker nor queue: `Tell` compares the last guess
with the target, once, and ends the game if it is right or the limit is reached. `Board` maps a game to its
number, range, attempt, guess, clue and end; a response that still concerns the game is `Tell`, a
late one a stutter, as is all that the worker does.

**TypedClient.** `Bytes(size, n)` are `size` bytes that spell `n`; a key is a prefix and such bytes. The
encoders and decoders of each edition are operators on them: ink drops the bytes a number does not fit
(`u128` and smaller alike), evm throws; an ink string carries its length; evm has words of 32 bytes, and
reads an empty value as an absent one. Each public call of the client is an action, and one step, since
`OffchainRollup` takes them apart. The contract's indices and keys are defined apart from the client's, as
the code has them. `seen`, `intended` and `meant` are histories of what getters answered and setters were
given. A poll replies with the message it has read. `Base` is the number of values of a byte, `Numbers` and
`Texts` are what the application may set, numbers past the end of their type included.

**Erc721.** One action per message of the contract, enabled if the message succeeds, because an
`Err` reverts. `TransferFrom` decrements one count and increments the other one after the other,
also when both are of one account. `approved_by` is a history variable.

**PriceFeed.** One action per await of `feedPrices`: `BeginFeed`, `ReadVersion`, `Fetch`, `Commit`
(the replies and the transaction, without an await), `DryRun`, `EndCommit`, and `Fail` for exceptions,
which go through the `catch` block and its `rollback`. `Execute` is the chain executing a
transaction of the pool, at any time, also after its run has given up. A price is the time of
its fetch; a missing quote, or one that `convertPrice` throws on, is `None`, and the contract turns
it into the price 0. `ClientOf` says which runs share a client. `OtherOracle` stands for whoever
answers `request_price`, which the worker of this repository does not do.

## Runs

| Run | Question | Expectation |
| --- | --- | --- |
| `rollup_evm` | two workers, up to two pending transactions each while they go on, faults, a direct attestor: types, queue, exactly-once, lost updates, what is in flight, the inductive invariant, fencing, refinement of `ExactlyOnceQueue` | pass |
| `meta_ink` | a worker that commits by requests beside one that commits directly, ink clients: the inductive invariant, fencing across the two ways, is every message answered? | pass |
| `meta_evm` | two workers on one attestor's nonce, evm clients, free relaying: exactly-once, what a live request would do, does a refused one stay refused? | pass |
| `typed` | both editions, all kinds of types, a version that comes to its end: do values, messages and versions survive their encodings and the other client? | pass |
| `anchor_ink` | interfering calls, role changes, relays: queue, replays, atomicity | pass |
| `anchor_evm` | the same for the solidity contract | pass |
| `shared` | do overlapping runs on one client leave the contract's queue intact, and do runs that follow each other give one response each? | pass |
| `shared_responses` | do overlapping runs give each request exactly one response, as the library's README says? | violation |
| `nft` | do the mappings of the NFT stay consistent? | pass |
| `guess` | are clues, endings and finished games right whatever is under way, does the whole implement `HonestGame`, and does who waits get a clue? | pass |
| `guess_attempts` | does the number of attempts limit the guesses, as the example's README says? | violation |
| `feed` | do rival workers and late transactions keep prices moving forward, and do they go on? | pass |

The ink client that commits directly is the second worker of `meta_ink`; the invariant checked there,
`MetaInv`, contains that of `OffchainRollup`.

### The two violations

`shared_responses`: run 1 polls a message and waits for the indexer; `/execute` starts run 2, which
replaces the session; run 1's or run 2's advance of the index then lands in a session that lacks
the matching response, and a commit pops the message without a reply. `shared` shows that the same
code is right as long as runs do not overlap, even when a run ends by an exception and leaves its
session behind.

`guess_attempts`: `guess()` does not compare the attempt with `max_attempts`, and the contract ignores
the response to any attempt but the latest. A player who guesses without waiting for the clue is
never told that the game is over until the last of the guesses is answered.

### Remarks that no run is spent on

- Overlapping runs of the price feed share a client too. `PriceFeed` lets them, by `ClientOf`: a run that
  waits for CoinGecko adds its replies to the session that the commit of the other has just started, and
  so commits an older price with the newer version. `FencedPrices` needs that no two runs share one.
- `_popTo` of `PhatRollupAnchor.sol` compares the target with the tail only, so a call without a
  condition on the version may move the head back to a message that is gone; `anchor_evm` includes such a
  call and shows that the waiting messages survive it.
- `nb_updates` is a u16 with `checked_add`: once a pair is full, after 227 days of feeds, every commit
  fails, for all pairs; `FeedsWhileRoom` promises progress only before that.
- The version is a u32. After 2^32 - 1 commits the evm encoder throws and commits end; the ink encoder
  starts again at zero, which differs from every version that a session of that time has read.
- An empty message blocks an evm queue: its value reads as absent, and `pollMessage` throws on it. An
  empty text that a session has set reads as a text before the commit and as absent after it.
- `encodeBytes` of the evm coder is an ABI encoding and `decodeBytes` is none, so `getBytes` does not
  answer what `setBytes` was given. No worker uses the pair; `Exact` excludes it.
- The ink! v6 client signs the accounts of a request as 32 bytes, the v6 contract checks addresses of 20.
  Its test leaves meta-transactions out with a TODO. The model has the request that is meant.
- `getRandomNumber` rejects a bound above 2^32 with a text that says 2^32 is rejected as well; a bound of
  2^32 itself is accepted and never drawn.

### Bounds, and why they are enough

- Two workers or two runs: every property is about a pair that interferes, a commit and a
  rival. The theorems about `OffchainRollup` and `MetaClient` have no bound on the workers.
- `MaxIndex = 2`: two messages, so that one can be popped while another waits, and the push
  that would overflow the index is reached.
- Two distinct messages make order and duplication visible; `meta_ink`, which checks liveness, has one,
  since its invariant counts too.
- `MaxPending`: two in `rollup_evm`, an old transaction ahead of a new one of the same account. One in the
  meta runs, where old requests never go away anyway.
- `MaxFaults`: one or two; a second run after a late inclusion needs one. The theorems have no bound.
- `MaxDirect`: one, a direct update between the read of the counter and the commit; none in `meta_evm`.
- `MaxNonce = 2`, `MaxRequests = 2`: a request that is replayed, a successor, the last nonce.
- `MaxReplies` only caps histories. The calls of `MCRollupAnchor` are chosen to interfere: a
  client's commit, a call that fails after each kind of change, a hand-over by an attestor that
  revokes itself, and a head moved forwards and back.
- `typed`: two clients, one key, of the type u8, bool, text or bytes. A byte has two values, so that a u8
  ends at 1 and a u32 at 15, with values at and past the end; the version starts at 14, so that two
  commits pass its end. Two pushes, of the empty message or another, and two commits.
- `nft`: two callers and the zero address, three tokens, at most two per account, so that the count
  reaches its limit while another token exists.
- `guess`: two players, two game numbers, two attempts each, two waiting requests and one fault; a
  limit of one attempt and a default of two, so that two answers for one game differ; a range that is
  accepted and one that is refused; draws above the range, to both of its ends.
- `feed`: two fetch times are enough for an old and a new price, two updates for a full
  counter, three versions for two rivals and another oracle, one fault for a transaction that
  outlives its run. `FencedPrices` and `FeedInvariance` have no bound.
- The version and the counter of `OffchainRollup` need no bound: each commit pops at least one message,
  and the direct updates are counted.

Workers, clients, runs and messages are symmetric where no liveness property is checked. Runs with
`CHECK_DEADLOCK FALSE` stop because a bound is reached.

### Fairness

`meta_ink` assumes weak fairness of each worker's steps (cron starts a run every 15 seconds,
and a pending call answers or fails) and of the inclusion of what is pending (blocks keep
coming). Nothing is assumed of pushes, faults or direct updates, which are bounded, or of those who
relay the requests of others. No strong fairness is needed: a worker that loses a race does so to a
commit that answered a message.

`guess` assumes weak fairness of the worker's steps and of the handling of a commit by the
chain; players may stop at any time. `feed` assumes weak fairness of the steps of each run (cron
starts one every five minutes, and a pending call answers or fails) and of the execution of
some transaction of the pool. Neither assumes anything of faults, other oracles or time.

## Proofs

`OffchainRollupProofs` proves, for every set of workers and messages and every bound:

- `Invariance`: `IInv` is an invariant. It joins the type invariant, `QueueIntact`,
  `ExactlyOnceInOrder`, `NoLostUpdate` and `ClientsSound`. The first four are not inductive: that
  a commit keeps them depends on what its transaction carries. `ClientsSound` says it: as long as the
  version that a session or a transaction has read is current, its index is the head plus what
  it polled, and its responses answer the messages from the head on. Every commit raises the
  version, which makes the condition false for all others.
- `TypeCorrectness`, `QueueIntegrity`, `ExactlyOnce`, `Counting`, `SoundClients` and `InFlight` follow
  from it, and `Fencing`, an action property, from it and the step that includes a transaction.

It also proves `Refinement`: the whole system implements `ExactlyOnceQueue`. An included
transaction maps to one abstract answer, a push to a question, a direct update to an addition, and
every other step to a stutter.

`MetaClientProofs` proves the same of workers with and without meta-transactions, for any attestors, shared
or not, and whoever relays: `MetaInvariance`, `MetaExactlyOnce`, `LiveRequests`, `RequestFencing`,
`MetaRefinement` and `Refusals`. `MetaInv` adds to `IInv` that every signed request is as sound as a
pending transaction, that its nonce is not ahead of the contract's, and that a run at its submission holds
a request it signed. Since `IInv` says nothing of who submits, the steps taken from `OffchainRollup` keep it by
the lemmas about them, and the execution of a request is the execution of a transaction. `Refusals` needs more: every
value that a session has read is current or less than the current one (`ReadsBefore`), and versions,
counters and nonces only grow; so a condition or a nonce that is wrong once stays wrong.

`SharedClientProofs` proves `QueueIntegrity` for any number of overlapping runs, which follows from the
types alone (the index that reaches the contract is a number, and the contract checks it), and
`SequentialRuns`. Its invariant, `SequentialInv`, says what the only run under way knows at each await: where its
session stands in the queue, and that nobody else has moved the head since.

`TypedClientProofs` proves, for both editions, every base, any clients and keys, and any numbers, texts and
messages, all four properties of the run `typed`: `GettersAnswerCorrect`, `AnswersMatchPushesCorrect`,
`CommitsChangeVersionCorrect` and `CommitsSerializableCorrect`. Its inductive invariant, `TypedInv`, has five parts
(TLC has checked the last four on the instance of `typed` before they were proved, and the fields of the first;
it cannot decide membership in the union of the numbers and the byte strings):

- `Typed`, the types of store, sessions and histories;
- `VersionsCount`: the stored version is what the first one becomes by as many bumps as there were commits, and
  every open session began at one of the versions on the way. Numbers that differ by less than the limit
  of their type differ modulo the limit, so all these versions are different bytes, also across the
  wrap to zero (`VersionsDiffer`), and bumping a version that was decoded gives the next (`VersionBumped`);
- `SessionsSound`: in each session, the bytes that were read or are to be written stand for what was seen or
  meant (`Coherent`); and a session that has the stored version has values that are still in the
  store, an index that is the head plus its replies, and the replies are the messages from the head on (`Fresh`);
- `QueueSound`: the store has, at the keys the contract makes, the messages from the head to the tail, and none
  elsewhere; the answers are the messages before the head;
- `StoreMeans`: the store has the bytes of what the last commit that wrote a key meant.

A commit needs the condition on the version, so its session is fresh (`CommitIsFresh`), and leaves every other
session with a version that is not the stored one. The getters then rest on `OptionRoundTrip`: what is
encoded comes back as it was, if it is `Exact`. That the client finds the messages where the contract puts
them is part of `KeyFacts`: an index below the limit of `u32` is the same bytes on both sides.

`RollupAnchorProofs` proves, for every set of accounts and calls: `AnchorInvariance`,
`TypeCorrectness`, `ReplayFreedom`, `QueueIntegrity` and `Atomicity`. The inductive invariant `AnchorInv` speaks of two states at
once, the contract in the middle of a call and the state saved for a revert, and ties each nonce
to the number of requests of the account that took effect.

`Atomicity` is the refinement: `RollupAnchor` implements `AtomicRollup`, for lists of actions of any
length. Its invariant `Underway` says that the call under way is a member of `Calls` of which some
prefix has run, and `Progress` what that prefix makes of the saved state, in the terms of the abstract
module cut off at a position: where the head is, who is an attestor, which indices are gone, which
replies were given. Each kind of action extends `Progress` by one position (`HeadStep`, `AttestorStep`,
`StoreStep`, `RepliesStep`); at the end of the list the prefix is the whole and `EndCall` is the abstract
`Execute`. Until then the abstract state is the saved one, so the steps of a call and a revert are
stutters.

`GuessTheNumberProofs` proves, for every set of players, ranges, draws and limits: `TypeCorrectness`,
`CluesFit`, `HonestEndings`, `FinishedStays` and `HonestPlay`. Every target lies in the range of its game, because the contract
admits only ranges that the VRF accepts. The inductive invariant `IInv` says what is known of the messages
under way: each comes from a guess that was made, the attempts of a game ascend along the
responses and the queue, a shown clue has nothing left under way for its attempt, and a game that
has ended is over or is no longer its player's game.

`HonestPlay` is the refinement of `HonestGame`. A response names only the game and the attempt it is for, so
its invariant, `HonestInv`, adds that a request of the last attempt of a game has its last guess
(`LastGuessKnown`) and that every limit under way is one of the indexer's or the default (`LimitsKnown`).
Then the clue the worker computed is the one that the abstract step computes from the game as it is
when the response arrives, and the worker has sent the target exactly when the contract ends the game.

`Erc721Proofs` proves `TypeCorrectness`, `BalancesCount`, `Consistency`, `ApprovalsEnd` and `CountsSuffice` for every set of accounts and
tokens; cardinalities change by one with each mint, burn and transfer. `TokenInvariance` joins
the four invariants of the run, which are inductive together.

`PriceFeedProofs` proves `FeedInvariance` for all clients, shared or not, and `FencedPrices` if no two
runs share one. The argument is the protocol's: a session reads its version before its prices are
fetched, so as long as that version is current nothing was committed after the fetch; the
condition of a transaction compares exactly that version. It breaks for shared clients, where the
version may be read by another run after the fetch.

The theorems rest on the named assumptions of the modules: keys are distinct, messages are no
numbers, bounds are natural numbers, a call's updates leave the queue's keys alone, `None` is not
a value, and a draw is a number below 2^32. Three of `TypedClient` deserve a look. `BoundsAssumption`: there are fewer
commits than versions (2^32), as a session that sleeps through all of them would find its version again; and
fewer pushes than indices, where the contract stops. `PowersAssumption` is arithmetic the provers do not know:
the first power of the base is the base, and powers of a positive base are positive. `TypedAssumption` asks of a text
that its length fits the one byte that SCALE gives it in the model, and that its bytes are as many as its
size says; longer lengths of SCALE are not modelled. TLC evaluates all three on the instance.

Only model-checked: liveness (`EveryMessageAnswered`, `GuessesAnswered`, `FeedsWhileRoom`), which is out
of the reach of the provers; every invariant and action property that a run finds to hold is a theorem. The loop of
`pop_to` is given as one function, not as a loop.

## Not modelled

- Generated bindings, ABI and descriptors: about two thirds of the implementation's lines, with
  no behaviour of their own.
- The derivation of a draw, signatures and attestation: cryptography. A draw is an arbitrary function of
  what the VRF is given, a signature is right if and only if the signer made it.
- The pages, routes and chain set-up of the examples, but for the `/execute` route.
- The byte layout inside SCALE and ABI beyond sizes, prefixes and numbers: libraries.
- A run that is starved by its users: `pollMessages` ends only when the queue is empty, and
  every run of TLC bounds the pushes.
- The decoding of a quote, and the values a price feed reports for a pair it cannot fetch.
- Gas, fees and block production beyond their order.

## What is left

1. `OffchainRollup` composed with `GuessTheNumber` through `ExactlyOnceQueue`, instead of taking the one
   for granted in the other.
2. Overlapping runs of the meta client on one client object, as `SharedClient` has for the direct one.
