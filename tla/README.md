# Kaspa Frontier Engine: TLA+ models, checks and proofs

This directory specifies the repository's own logic: how a deposit gets from a
Kaspa node or the REST indexer into the SQLite ledger, how the ledger's events
get to an exchange's webhook, how a withdrawal is followed until it is confirmed
or rejected, and the components around that path: the pool of owned nodes, the
integrator's HTTP API, the webhook receiver, the exchange's wallet view, the
KRC-20 and covenant engines, and the verification of covenant proofs. Paths
below are relative to `src/`.

- `*.tla` without prefix: the system's modules and the abstract specifications.
- `MC*.tla`, `MC*.cfg`: instances for TLC.
- `*_proofs.tla`: theorems checked by TLAPS.
- `PROJECT.json`: components, runs, mutants (a plausible bug for every property),
  the map from definitions to source lines, findings, hazards, theorems.

## 1. The system

Durable state is in SQLite (WAL, `synchronous=FULL`); every operation is one
IMMEDIATE transaction, and an operation that returns `Err` rolls back. Several
processes may open one database.

| Component | Source | State | Operations | Talks to |
|---|---|---|---|---|
| Deposit ledger | `src/deposit_ledger.rs` | tables `deposits`, `legacy_credits`, `deposit_outbox`, schema version | `open` and migrations, `reconcile`, `reverse_credited_on_reorg`, `import_legacy_credit`, `list_deposits` | called by the three ingestion programs and the API |
| Outbox delivery | `src/deposit_ledger.rs`, `src/bin/tn10_outbox.rs` | lease, attempts, dead letter per event | claim, POST, acknowledge, fail, operator acknowledge and requeue | several worker processes, an HTTP receiver |
| Webhook receiver store | `src/outbox_receiver.rs`, `src/bin/tn10_outbox_receiver.rs` | schema version, inbox | open, validate, insert or compare | outbox workers |
| wRPC journal | `src/wrpc.rs` (`WrpcJournal`) | frames by sequence number, checkpoint | `record`, `append`, `append_applied`, `mark_applied`, `mark_applied_through`, `prune_applied` | live ingestion, offline replay |
| wRPC projection | `src/wrpc.rs` (`WrpcDepositProjection`) | live UTXOs, maturity schedule, mature and unobserved sets | `bootstrap_addresses`, `apply_addresses` | turns frames into arguments of `reconcile` |
| Live ingestion | `src/bin/tn10_wrpc_live.rs` | position in the protocol, the projection | subscribe, scan while buffering, replay, live frame, rescan, failover | node, REST, journal, ledger |
| Offline replay | `src/bin/tn10_wrpc_replay.rs` | position in the fixture | record, rebuild, replay | journal, projection, ledger |
| REST deposit polling | `src/bin/tn10_deposits.rs`, `src/watch.rs`, `src/exchange.rs` | seen set, tracker, credited set (memory) | import, poll, tick | REST, ledger |
| Withdrawal ledger | `src/withdrawal_ledger.rs` | table `withdrawals` | `register`, `observe`, `advance` | withdrawal pollers |
| Withdrawal polling | `src/bin/tn10_withdraw.rs`, `src/watch.rs`, `src/exchange.rs` | three REST answers | `poll_durable_withdrawal`, `poll_withdrawal` | REST, withdrawal ledger |
| Owned-node health and failover | `src/owned_node.rs`, `src/owned_node_gate.rs`, `src/bin/tn10_wrpc_live.rs` | three answers of a probe; options, lags, the node in use | probe, assess, gate, select, fail over | nodes, REST, supervisor loop |
| Integrator HTTP API | `src/integrator_api.rs` | watchlist file, the tn10-outbox processes it started | gate, custody routes, acknowledge, deliver, watchlist, pages | ledgers, gate, `tn10-outbox` |
| Return address and fee | `src/return_address.rs` | position of the walk | hop, fee | REST |
| REST client | `src/rest.rs` | attempts and slots of a batch | request, retry, fallback, next chunk | public REST API |
| Covenant proof verification | `src/proof.rs`, `src/bin/tn10_proof.rs` | rows found, two fixture files | online, Kascov-only, capture, offline | REST, Kascov indexer |
| KRC-20 engine | `src/krc20.rs` | tokens, balances, seen transaction ids | deploy, mint, transfer | demo |
| Covenant policies | `src/covenant.rs` | escrow, HTLC, native covenants | register, release, refund, claim, time out, spend | demo |
| CEX wallet view | `src/cex.rs` | reserved outpoints | snapshot, reserve, release | integrators |

The remaining parts keep no state that a property could be about; they are
listed with reasons in section 6 and in `PROJECT.json`.

### What makes it hard

The hazards are listed at their lines in `PROJECT.json`. In short:

- **Torn reads.** Every REST scan joins independent requests, answered at
  different moments (`src/rest.rs:612`, `src/bin/tn10_wrpc_live.rs:103`,
  `src/watch.rs:199`); a page of deposits is followed by a page of another table
  (`src/deposit_ledger.rs:463`), a hop by a pruned parent
  (`src/return_address.rs:63`).
- **Old messages on new snapshots.** Frames are buffered while a scan runs and
  applied after it (`src/wrpc.rs:871`).
- **Several transactions per step.** Append, reconcile and mark are three
  transactions; opening a database is four; a capture writes two files. A crash
  or another process may come between any two.
- **Leases without fencing.** A worker may hold an expired lease while its POST
  is on the way; another worker has the event by then.
- **Memory that dies.** The watch, the tracker and the projection are rebuilt
  after each restart while the ledger remembers.
- **Reorgs** drop a pending deposit or move it to another block.
- **Checks that age.** The gate is evaluated, then a lock or a process is waited
  for (`src/integrator_api.rs:322`); the health of the pool is known once and a
  failover happens later (`src/bin/tn10_wrpc_live.rs:390`).

### What correct means

- Deposit ledger: rows and events agree; a consumer who reads the outbox sees at
  most one credit and at most one reversal per outpoint, in this order; a credit
  is taken back only with reorg evidence; legacy credits are not paid again; no
  file is left between two schema versions.
- Delivery: nothing is lost, first attempts are in order, acknowledgements are
  final, every event settles; the receiver answers 2xx only when its inbox holds
  the facts of the request.
- Journal: a FIFO queue with at-least-once processing whose numbers are never
  reused.
- Ingestion: no credit before the required depth; ledger, projection and journal
  agree while live; a deep deposit is credited in the end.
- Withdrawals: facts are frozen, states move forward, a rejection needs a drop,
  what is completed was paid as agreed and is as deep as agreed.
- Around it: no input is granted twice, no covenant pays twice, no token unit
  appears or disappears, no custody request passes a gate that was never green,
  a failed node is left when another is healthy, a verified proof is a chain of
  accepted transactions.

## 2. Modules

| Module | Models | Kind |
|---|---|---|
| `CreditLifecycle` | the consumer's contract: unknown, credited, revoked | abstract |
| `DepositLedger` | the ledger's three writing operations | component, implements `CreditLifecycle` |
| `LedgerSchema` | opening and migrating the ledger's file by concurrent programs | component |
| `DepositListing` | paging through the ledger while it is reconciled | component |
| `OutboxDelivery` | workers, leases, clock, operator, what a worker sees of the receiver | component |
| `OutboxReceiver` | the receiver's own database and handler | component |
| `FrameQueue` | a FIFO queue of frames | abstract |
| `WrpcJournal` | the journal's six operations | component, implements `FrameQueue` |
| `WrpcProjection` | the projection as pure operators: a projection and an input give a result record | pure |
| `WrpcReplay` | the offline program over `WrpcJournal`, `WrpcProjection`, `DepositLedger` | composition |
| `DepositChain` | external: virtual DAA score, UTXO set, spends, reorgs | environment |
| `WrpcIngest` | the live program over `DepositChain`, `WrpcProjection`, `DepositLedger` and the journal's pending suffix | composition |
| `DepositWatch` | the polling program over `DepositChain` and `DepositLedger` | composition |
| `WithdrawalLifecycle` | unknown, pending, observed, confirmed, rejected | abstract |
| `WithdrawalLedger` | `register`, `observe`, `advance` | component, implements `WithdrawalLifecycle` |
| `WithdrawalPoll` | concurrent pollers with torn answers over `WithdrawalLedger` | composition |
| `OwnedNode` | one probe: three answers in any order, stage and assessment | component |
| `OwnedNodeFailover` | options of the gate, the gate, selection and failover of the supervisor loop | component |
| `IntegratorApi` | requests that interleave over gate, ledger, child process and watchlist file | component |
| `ReturnAddress` | the walk along first inputs while REST prunes; the fee | component |
| `RestClient` | the concurrent address batch with retries and the raw-path fallback | component |
| `CovenantProof` | online, Kascov-only, capture and offline verification | component |
| `Krc20` | the token engine | component |
| `Covenants` | escrow, HTLC and native covenants | component |
| `CexWallet` | address snapshots and the outpoint guard | component |
| `Components` | the bench: the components that share no state with one another, under generic constants, and their properties | composition |
| `MCComponents` | values of the bench's constants | instance |

### How state and actions correspond to the code

One database transaction is one action. An operation's error returns are its
guard: it then changes nothing, and where a caller reacts to the error (process
exit, reconnection, an HTTP status) the caller's module has the second disjunct.
An operator that serves a mutant stands just before the definition it replaces
and says "Mutant"; no specification uses it.

*DepositLedger.* `deposits`, `legacy` and `outbox` are the tables; a missing row
has state `"absent"`. Address, amount, block score and coinbase flag are one
value of `Facts`, as the code only compares them. `Reconcile` runs the three
loops of `reconcile` over arbitrary batches in their order. `last_seen_daa` is in
`DepositListing`, the only reader of it.

*LedgerSchema.* `db` is what `open` looks at: the version, whether there are
tables, and the columns versions 2 and 3 added. Each look, migration and
creation is an action of its own; a program may be killed between any two, and
an earlier version of the program may fill an empty file meanwhile.

*DepositListing.* Deposits are numbered as `(tx_id, output_index)` orders them. A
page is of the rows whose rank among those that match, in the order of
`last_seen_daa DESC, tx_id, output_index`, is in the window that LIMIT and OFFSET
give after the code's clamps: at most 500 rows (`ClampLimit`), skipping at most
a million (`MaxOffset`). The client's offset advances by the rows it got; beyond
`MaxOffset` the same page comes again and the client never ends, which the guard
`reader.offset <= Cardinality(Rows)` cuts off. The export is one page of at most
`EXPORT_MAX_ROWS`. A snapshot has any score, also one below that of the snapshot
before it; `Backward` says that it sends a stored row back in the order. `kept`
is a ghost: the rows no reconcile touched since the client began, or none once
a row went back.

*OutboxDelivery.* `rows` has the delivery columns of `deposit_outbox` in
insertion order. `ReadClock` is the reading `deliver` makes before each claim,
which may be old when `ClaimAndSend`, the claim with the request on the wire,
uses it; `Deliver`, `Refuse`, `GiveUp` and `DeliverLate` are the receiver and
the network, `AcknowledgeClaim` and `FailClaim` the report, guarded by owner and
claim time as the SQL's WHERE is. A restarted worker is the same owner without a
claim. Worker names are assumed distinct.

*OutboxReceiver.* `version` and `table` are what `open` checks and creates, in
separate transactions; `inbox` maps an event key to the facts stored under it.
A delivery's key need not be that of its facts, and one field may be out of its
range. The HMAC only decides whether a request is one of those modelled.

*WrpcJournal.* `frames` is the table, `checkpoint` its row; `issued` is a ghost
log of everything ever recorded, the base of "no number is used twice".
`MaxSequence` stands for SQLite's largest INTEGER.

*WrpcProjection.* An entry is its block DAA score. The maturity schedule keeps
the entry of a removed outpoint, as the code does. A failed `apply` may leave a
half-changed projection in the code; its caller always bootstraps before it uses
it again, and the only thing the difference can reach, the `disappeared` list of
that bootstrap, is subsumed by the pending rows `apply_fetched_snapshot` adds.

*WrpcReplay.* A fixture is any list of decodable frames; it need not begin with a
score. `Readded` are the outpoints a fixture adds at two blocks, the first time
before any score: what the code does with them is in section 3.

*WrpcIngest.* `pc` is the place in `main` and `run_connection`; `wire` holds
what the node sent and the client has not read. Subscription acknowledgements
are not distinguished from frames. Every frame is decoded before it is
journaled, so a frame that does not decode ends the connection (`Break`) and is
not kept. Journal bookkeeping is abstracted to `pending`, the frames beyond the
checkpoint, whose queue behaviour is what `WrpcJournal` is shown to implement.
Which node is chosen is `OwnedNodeFailover`.

*DepositWatch.* `Tick` is `DepositWatch::apply` followed by `reconcile`; an
error of the latter ends the process and its memory, as `?` does in `main`.

*WithdrawalLedger.* `Observe` keeps the columns that are set, as the COALESCE of
the SQL does; `Advance` counts the depth from the block that was kept.

*WithdrawalPoll.* A poller asks three questions in any order, answered at three
moments between which the chain may move, then observes and advances in two
transactions. It ends when the withdrawal is decided, on an error of the ledger,
when it is killed, and when the withdrawal is undecided at its deadline, which
passes at any poll; a request that fails is another poll or, at the deadline,
the end (`FailPoll`). `poll_withdrawal` decides from the first two answers; it is
asked of those a poller has, as the answers to its own would be. `torn` and
`misled` are ghosts: the pollers whose answers are of both sides of a change of
the transaction's acceptance, and whether the row was rejected by one.

*OwnedNode.* `server`, `dag` and `peers` are the decoded answers; a timeout, a
closed socket or an answer out of place sets `failed`. Stage and assessment are
operators over the three. The public score is REST's, read once before the probe
begins (`run_owned_node_gate`): any score, below or above the node's.

*OwnedNodeFailover.* `urls` and `min_healthy` are the options after flags,
environment and `--dual` were resolved; `seen` is the last evaluation: a node's
lag, or Null. What a probe finds is arbitrary here, what a connection does is
`WrpcIngest`.

*IntegratorApi.* A client is a slot for one request at a time; `pc` of a request
is the last point at which its handler can be overtaken. `fs::write` of the
watchlist is `Truncate` and `Write`, since nothing locks the file. `gate` is what
an evaluation would find now and may change at any step; the tn10-outbox a
request starts outlives the request and the API. `green`, `acks` and `disturbed`
are ghosts.

*ReturnAddress.* Transactions are numbered as they spend each other, `horizon`
is how far REST has pruned. REST may serve an input enriched with an address, or
not, and an output with, without or with a foreign one.

*RestClient.* `task` is the request of each address, `slots` the result vector of
the batch; a chunk is a `JoinSet` and the next starts when it is empty. `since`
is a ghost: what an address held since its request began.

*CovenantProof.* `prev` and `fresh` are the true lineage, which the program
never sees (`Lineage` lists the accepted transactions of a covenant in the order
of the chain); it sees what REST still has of the steps, what the indexer answers
(which may be mistaken) and the two fixture files, each absent, torn or what was
captured. A proof file of two steps stands for the apps that have two.

*Krc20, Covenants, CexWallet.* One action per method; `Err` is a guard. Amounts
are bounded by `MaxAmount` and `MaxSompi`, which stand for `u128::MAX` and
`u64::MAX`: additions that do not fit are refused in the model where
`checked_add` refuses them. `Release` frees whatever outpoints the caller
passes, also those another payment reserved. In `Covenants` the caller may
register anything, settled records included. In `CexWallet` the answers of REST
are arbitrary rows.

*Components.* The components that share no variables are checked by one run and
proved in one module: `component` says whose behaviour it is, and the
component's variables are the registers `v1`, `v2`, ... of the bench; the others
stay `Null`. The journal keeps its own variables. Every property of the bench
names the component it is about. Nothing is lost by it: a behaviour of the bench
is a behaviour of exactly one component, from that component's own initial state
under its own next-state relation. `ComponentsAssumption` is the conjunction of
the assumptions the components' modules name. `MCComponents` gives the constants
the values of the run; the theorems are about any values.

## 3. Runs

| Run | Question | Bounds | States |
|---|---|---|---|
| `deposit_ledger` | are rows, events and the consumer's view consistent under any order of calls? | 2 outpoints, 2 facts, 2 scores | 1,156 |
| `outbox_delivery` | leases, crashes, late requests, operator: loss, order, finality, progress | 2 workers, 2 events, lease 2, 3 faults | 1,244k |
| `outbox_attempt_limit` | does the attempt limit dead-letter? | 2 faults | finding |
| `wrpc_ingest` | live ingestion with crash, broken connection, torn scan, reorg | 1 outpoint, scores 1..4, depth 2, wire 2, 1 fault | 741k |
| `wrpc_phantom_credit` | was every credit deep at some time? | consistent scans, no reorg, 2 faults | finding |
| `wrpc_poison` | does the journal drain after a reorg, once nothing is unspent? | no fault | finding |
| `deposit_watch` | polling with forgetful restarts | 1 outpoint, scores 1..5, depth 2, 2 faults | 72k |
| `wrpc_replay` | incremental = full, repeat = no effect | every fixture of up to 4 frames over 1 outpoint and 3 scores, depth 1, 1 crash | 1,134k |
| `withdrawal_poll` | two pollers, torn answers, reorg, spend, faults; rows, lifecycle, what is completed or rejected | 2 terms, scores to 4, depth 2, 1 reorg, 1 fault | 1,580k |
| `withdrawal_rejected` | was every rejected withdrawal dropped? | 1 poller, no reorg, no fault | finding |
| `withdrawal_reincluded` | is every confirmed withdrawal buried, where no poll is torn? | 1 poller, 1 reorg, scores to 5 | finding |
| `components` | the twelve components that share no state, and the journal | below | 1,145k |

What `components` checks, by property:

| Property | Of | Says | Bounds |
|---|---|---|---|
| `ImplementsFrameQueue` | journal | what is pending is a FIFO queue | 2 frame values, numbers up to 5 |
| `MoneyAddsUp` | KRC-20, CEX | holders have what was minted, within the cap; a snapshot counts each outpoint once and at the depth it needs | 1 ticker in 2 spellings, 3 addresses, 4 ids, amounts to 3; 2 outpoints (one coinbase), 2 rows |
| `TakenOnce` | KRC-20, CEX | a transaction id takes effect once; no outpoint is an input of two payments | the same, 2 payments |
| `CovenantsSound` | covenants | one payment per registration, exactly one window open, two of three | 1 id, 3 parties, scores to 2, 2 registrations |
| `NodesSound` | probe and pool | stage and assessment agree, a healthy node is near the public score, the gate can be passed | scores to 3, 2 blocks, 1 peer; up to 3 URLs |
| `ReceiverSound` | receiver | only its own schema is served, 2xx is true, keys name facts | 2 processes, 1 outpoint, 1 crash |
| `ApiSound` | API | fail closed, acknowledged once, the file is whole while undisturbed | 2 clients, 1 event, 3 requests, 4 environments |
| `ProofSound` | proof | what was accepted was the whole lineage, what is verified is a chain | 3 transactions, every proof file that names them in order |
| `AnswersSound` | REST batch, walk, fee, listing | complete or an error; nearest shown sender; exact or unknown fee; paging misses no row left alone | 3 addresses, 2 at a time, 2 attempts; 3 transactions, 2 hops; 3 rows, 2 scores, limits 1 and 3 over a clamp of 2, offsets to 2 |
| `LedgerFileSound` | schema | the version is that of the tables | 2 programs, 2 kills |
| `NothingUndone` | KRC-20, receiver, API | terms and stored rows never change; a served list is whole and passes the checks | as above |
| `FailoverSound` | pool | a failover is to the best healthy node and leaves the failed one | lags 0 and 1 |
| `AllSettle` | REST, pool, schema | a call ends, a failed pool connects again, a program opens the file in the end | as above |

Why these bounds: depth 2 leaves room between "seen", "one short" and "deep";
scores run two beyond that so a deposit can be moved once and still mature. One
outpoint is enough for the ingestion programs, since outpoints interact only by
failing a common batch; the ledger, where the batch is decided, runs with two.
Two workers with a lease of two ticks meet on one event, and three faults allow
a crash, a lost answer and a late request in one behaviour. A connection with
two unread frames holds a removal and the following score. Four frames of a
fixture add an output, remove it, add it at another block and bring its stale
schedule entry due. A withdrawal can be accepted at score 2 and is buried at 4;
the reorg between two answers fits in between (a move to a later block that then
gets deep does not, and has a run of its own with scores to 5). In the bench:
amounts to 3 let a sum overflow, a mint reach the cap and a transfer be partial;
two receivers or programs are what a race needs, and two kills let both die;
three addresses in chunks of two have a second chunk; a clamp below a client's
limit and a page of one row let a row cross a page's edge in both directions,
and a largest offset below the number of rows lets a client run into it; two
clients overlap in every pair of handlers, and a third request reads what the
two left.

`CHECK_DEADLOCK FALSE` is set for the outbox (all events settled, faults spent),
for the replay (the fixture is done) and for the bench (a call that is over, a
proof that is reported): all of them really stop.

### Fairness

Weak fairness of each step of the ingestion and polling programs: an async
runtime polls a ready task, sleeps are bounded (30 s), and a supervisor restarts
a process that ended (`main` returns on errors). The outbox has weak fairness of
each worker and of the clock: a request that is neither refused nor lost (both
are faults) is answered, and somebody keeps starting `tn10-outbox`. A
withdrawal's pollers are fair, deadlines included: the program retains durable
state and says so at its deadline (`src/bin/tn10_withdraw.rs:174`), for it to be
run again. In the bench the supervisor loop and the REST client are fair for the
same reason (one task, every wait has a timeout; an established connection may
last for ever, so `Disconnect` is not fair), and every program that opens the
ledger is, since one that failed is started again. Nothing else is fair: the
API, the receiver and the engines only answer. Faults are bounded, so "in the
end" reads "after the last fault". The chain is never fair: blocks, spends and
reorgs may stop. Liveness of deposits is claimed for behaviours no reorg
touches, because of `wrpc_poison`; `EventuallyConfirmed` for withdrawals no torn
poll has rejected, because of `withdrawal_rejected`. Refusals of an endpoint are
faults too: one that refuses for ever is outside `EveryEventSettles`.

### Findings

1. `wrpc_phantom_credit` (`src/wrpc.rs:895`): a buffered "added" frame applied on
   a snapshot that is newer than the spend revives the output, and it is credited.
2. `wrpc_poison` (`src/deposit_ledger.rs:260`): a pending deposit keeps the block
   it was first seen in. A reorg drops it, a later block accepts it again while a
   scan is under way; the frame that adds it is journaled, and `reconcile` refuses
   it ("outpoint facts changed") at every replay and every restart, even when
   nothing is left unspent.
3. `withdrawal_rejected` (`src/withdrawal_ledger.rs:260`): "not accepted" read
   before the block and the output read after it reject a good withdrawal.
4. `withdrawal_reincluded` (`src/withdrawal_ledger.rs:258`): after a reorg moved
   the transaction and the output was spent unseen, the depth is that of the
   block the output was first seen in.
5. `outbox_attempt_limit` (`src/deposit_ledger.rs:777`): the limit is applied
   only by `fail_claim`; attempts that end in a crash are counted, never limited.

Met on the way and not kept as runs:

- A fixture that adds, removes and adds again an outpoint before its first DAA
  score is credited by the schedule entry of the first block
  (`src/wrpc.rs:1085`), too early. `Consistent` and `DepthRespected` of
  `WrpcReplay` are about every fixture, and name such an outpoint (`Readded`) as
  the one exception.
- `poll_withdrawal` (`src/watch.rs:168-186`) joins two requests: an output read
  before a reorg with a score read after it lets it call a withdrawal confirmed
  that the reorg dropped. `CompletedIsPaid` states this as the one way to it.
- A pending row keeps the old block's facts after a reorg: `tn10-deposits` meets
  "outpoint facts changed" (`src/deposit_ledger.rs:260`) at every poll and exits,
  until the output is spent. A torn poll of it can credit one score before the
  depth was real, as its depth is that of the reported score.
- `observe` may move `last_checked_daa` backwards where `advance` refuses to;
  the poller's properties hold all the same.
- The return-address walk answers with an ancestor's sender when the address of
  an input is hidden, although `src/return_address.rs:3-5` speaks of the first
  input's address only. `NearestSender` states what the code does: the nearest
  one shown.
- `list_deposits` clamps a limit to 500 without saying so
  (`src/deposit_ledger.rs:453`), while `docs/integrator_openapi.yaml` and
  `docs/integrator_go_live.md:56` speak of 10000 for exports: a client that
  advances its offset by the limit it asked for misses rows. Paging with a state
  filter skips rows that leave the state between pages. `PagingMissesNothing` is
  about a client that advances by what it got, and about lists in which no row
  was sent back: wRPC scores do not go back (`src/wrpc.rs:1043`), those of REST
  may.
- `docs/integrator_go_live.md:66` "Custody routes return 503 when owned-node gate
  is red": with the public API down the gate is unknown and the answer is 400.
- `src/bin/tn10_wrpc_live.rs:388` "do not subscribe to an unsynced or lagged
  node": the loop connects to the index it holds, whatever was found of it.
- Programs that race to create or to migrate the ledger's file may end with an
  error that the next start does not meet.
- `load_config` of the API does not call `validate_gate_options`: a URL listed
  twice counts as two nodes. `--dual` of the outbox it starts drops the URLs and
  refuses a count above two, so such a configuration never delivers.
- `list_withdrawals` creates the database it lists.
- `tn10-proof` prints that the REST fields match (`src/bin/tn10_proof.rs:177`)
  also where REST was never asked.

## 4. Proofs

TLAPS proves, for every value of the constants under the named assumptions
(distinct null values, positive bounds, finite sets where something is counted),
every invariant and every action property that a passing run checks, and every
refinement:

| Module | Theorems | Argument |
|---|---|---|
| `DepositLedger_proofs` | `TypeCorrect`, `RowsAgree`, `OutboxFaithful`, `Refinement`, `LegacySafe` | Invariant: types, well-formed rows, outbox mirrors the ledger. Mirroring alone is not inductive: that a new event is never dropped by the UNIQUE key needs the rows' columns to say which events exist. `Refinement` maps a batch to one simultaneous move of all outpoints. |
| `OutboxDelivery_proofs` | `TypeCorrect`, `NothingLost`, `LeaseExcludes`, `FirstAttemptsOrdered`, `AcknowledgedFinal` | Invariant: a process with an event in hand still owns its lease, or the lease was lost to a process whose reading of the clock is a whole lease later (`LeaseHeld`, from `Owns` and `Lost`), which no report, requeue or takeover may break, although a reading may be old when it is used (`ReadingsPast`); a success in hand implies a stored event; a row's attempts tell whether it was ever claimed. |
| `Withdrawal_proofs`, the ledger | `TypeCorrect`, `RowsAgree`, `FactsNeverChange`, `Refinement` | Invariant: types and well-formed rows. One lemma reduces every operation to the update of one row by one of five record updates (`StepRow`); each theorem is then a case analysis of that step. |
| `Withdrawal_proofs`, the pollers | `PaidAsAgreed`, `RejectedWithCause` | For any number of pollers, reorgs and faults, and wherever the chain moves between the answers of a poll. The row alone is not inductive: what a poller holds in its hand must be related to the chain as it has become meanwhile, or the poller is torn (`AnswersTrue`): a score is not newer than the chain's, an output is of the transaction's block unless a reorg came, and a full answer that is deep enough stays deep, since a buried block is not dropped. |
| `DepositWatch_proofs` | `Agreement`, `CreditedDeep`, `LedgerImplemented`, `LedgerGuarantees` | Torn answers, reorgs, restarts and disabled addresses included. `Consistent` is not inductive: that a deposit the tracker no longer announces is in the ledger needs `MemoryKnown` (what the process remembers has a row), which one failing batch would break if the process did not end with it. |
| `WrpcProjection_proofs` | lemmas only | What one application of a snapshot or a frame preserves: `Exact` (the mature set is what a scan would find, and what is not mature is scheduled), `Anchored` (schedule and entries agree with the ledger's facts, entries of outputs that are gone included) and `Settled` (nothing pending is forgotten); `Sync` is all three. |
| `WrpcIngest_proofs` | `Agreement`, `CreditedDeep`, `LedgerImplemented`, `LedgerGuarantees` | Any number of crashes, lost connections, torn scans and reorgs. Invariant: projection and ledger are in `Sync` wherever a frame can be applied; between applying a frame and its transaction (`reconcile`) they were in `Sync` before it. That a stale schedule entry credits nothing early follows from `Anchored`: its facts are those of the row. |
| `WrpcReplay_proofs` | `Agreement`, `CreditedDeep`, `ReplayedOnce`, `LedgerImplemented`, `LedgerGuarantees`, `JournalImplemented` | Fixtures of any length, any number of crashes. The invariant relates the three durable counters (`Positions`: the ledger is ahead of the checkpoint by one frame at most) and says that there is a history of projections, one per reconciled frame, which every later run goes through again (`History`). A repeated frame changes nothing since the ledger already has its effect (`Done`), which later batches do not undo (`ReconcileAgain`). |
| `Components_proofs`, the journal | `TypeCorrect`, `NothingPendingLost`, `JournalIsQueue`, `QueueOnBench` | Invariant (`JournalWindow`): the table is a window of the ghost log ending at its last number, containing everything beyond the checkpoint. |
| `Components_proofs`, the bench | `MoneyConserved`, `UsedOnce`, `CovenantsHold`, `NodesHold`, `ReceiverHolds`, `ApiHolds`, `ProofHolds`, `AnswersHold`, `LedgerFileHolds`, `DoneStaysDone`, `FailoverHolds` | `BenchInv` says of each component its own inductive invariant, below. A step of the bench is a step of one component, whose registers the others do not touch (`BenchMoves`). |

The compositions reuse the theorems of their parts: `LedgerImplemented` shows
that each reaches the tables by ledger transactions only, and `LedgerGuarantees`
draws what `DepositLedger_proofs` proves of them. `JournalImplemented` shows that
the replay's journal behaves as `WrpcJournal` allows, so the journal's theorems
are about it too. `Agreement` and `CreditedDeep` of the replay are about every
fixture; what they except is `Readded`.

### The components of the bench

What has to be added to each property to make it inductive:

- *KRC-20* (`KrcInv`): a ticker's balances add up to its supply, which is within
  the cap (`Balanced`), and the ids remembered are those applied. That a
  transfer conserves the sum, the transfer to oneself included, is an update of
  two terms of a sum.
- *CEX* (`CexInv`): nothing has to be added, whoever releases what. The sums of
  a snapshot are regrouped: over rows, over outpoints, over depths, by lemmas
  that a sum may be split by a partition and renamed by a bijection.
- *Sums.* The installed provers cannot use the induction theorems, which take an
  operator, so `SumStep` and its companions are proved by the least
  counterexample: of the subsets of a finite set, the smallest that breaks an
  equation over sums, if there were one, would lose an element and break it
  still.
- *Covenants* (`CovenantInv`): nothing, `PaidOnce` is inductive with the types;
  the windows and the two of three follow from the types in every state.
- *Owned node* and *pool* (`PoolInv`): what stage and assessment say of each other
  follows from the types; the options of a pool were checked wherever it has not
  exited.
- *Receiver* (`ReceiverInv`): a process that serves opened a database of its own
  version (`ReceiverPlaces`), and whatever was answered had a key
  (`ReceiverAnswered`).
- *HTTP API* (`ApiInv`): while the gate is green every request under way counts
  as having seen it (`GreenSeen`); a write of the watchlist that is under way is
  of a checked list, and the only one unless the file is disturbed
  (`WritesApart`).
- *Ledger file* (`SchemaInv`): a program that is about to migrate from a version
  finds the file at that version or beyond it (`MigrationsAhead`).
- *REST client* (`RestInv`): what is in a slot was held by its address since the
  call began (`HeldSince`).
- *Walk and fee* (`WalkInv`): the walk is at the ancestor its hops say and has
  passed hidden addresses only (`OnTheWay`). `Ancestor` is a recursive function;
  that it is one at all is shown by the solutions over `0 .. n` (`Climbs`, `Up`).
- *Deposit list* (`ListingInv`): a row that was left alone and is not read yet
  has at least as many rows ahead of it as the offset skips (`NotPassed`).
  Reconciling only ever adds rows ahead of it (`TableChanges`), ranks differ
  (`RanksDiffer`), so a page holds no more rows than ranks (`RanksBound`) and an
  empty one means that no rank is left (`NoGap`).
- *Covenant proof* (`ProofInv`): rows found are true of the chain, a fixture
  that would be accepted was captured from a lineage that was whole then
  (`FilesSound`), and a lineage that is complete when it is confirmed leaves no
  room for another transaction (`ConfirmedIsWhole`).

Only model-checked: liveness (`EveryEventSettles`, `EventuallyCredited`,
`JournalDrains`, `VanishedSettles`, `EventuallyConfirmed`, `AllSettle`), which is
out of the prover's reach. The five findings are counterexamples of TLC.

No `RECURSIVE` operator is used.

## 5. Limits of what is modelled

- HTTP requests time out after 15 s and leases last 60 s; the model allows any
  delay, so that a worker may outlive its lease.
- A transaction of `CovenantProof` has one output, the covenant's. The checks of
  `previous_outpoint_index` and `output_index` (`src/proof.rs:386`) are collapsed
  into "spends that transaction".
- A failed delivery and an operator's requeue read the clock where they write;
  only the claim is modelled with a reading that may have aged.
- Worker names of the outbox are assumed distinct, although the code takes them
  from the process id and the second of the start. `release_claim` has no caller
  that delivers with it and is left out.
- Two ingestion programs on one ledger at the same time are not composed; what
  they could do to each other is any order of the ledger's operations, which
  `deposit_ledger` checks.
- Coinbase maturity (1000) is another value of `Required`; a mixture of both
  depths is modelled in `CexWallet` only.
- A failover of `OwnedNodeFailover` reaches a node that reports the same chain in
  `WrpcIngest`; scores of nodes differ in `OwnedNode` only.
- Replay of an old journal after pruning is not composed: `WrpcReplay` keeps all
  frames of its fixture.
- Decoding of JSON is modelled where a refusal matters (duplicate or overlapping
  outpoints, delivery fields, fixture files, watchlists) and left out elsewhere.

## 6. Not modelled

- **Networks and parameters**: constants and address checks.
- **JSON-RPC and EVM clients**: one request, one answer, no state.
- **Covenant JSON-RPC service** (`src/covenant_rpc.rs`): stateless dispatch onto
  the REST and Kascov clients. Its only state is that of the concurrency and
  timeout layers of an external library, whose timeout starts once a request has
  its permit.
- **TLS material**: certificate loading.
- **Status, roadmap and telemetry**: printed tables and one-shot reports.
- **Galleon contracts and bridge**: example Solidity contracts and the Python
  relayers that drive them on an EVM chain.
- **Python scripts and examples**: operator tooling around the binaries.
- Of the **integrator API**, evidence files, receiver statistics and the webhook
  test route: I/O without state of their own. Of **covenant proofs**, the counter
  app's three steps, whose fixtures are compiled in. Of **outbox delivery**,
  argument parsing and transport security.

## 7. Plan

Done: the modules above, in the order ledger, delivery, journal, projection,
replay, ingestion, withdrawals, polling, nodes, receiver, engines, API, clients.
Proved: every safety property the passing runs check, and the refinements.
Next: the parts of components still marked "partly" (three-step covenant proofs,
evidence files of the API); two ingestion programs on one ledger.
