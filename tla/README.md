# Verification of the Agentonomy commerce stack

TLA+ models of the parts of this repository that decide whether money is spent
once, within what its owner signed, and whether the services' records agree with
the chain and with the venue; TLC runs of them on small instances; and TLAPS
proofs that hold for every instance.  Paths below are relative to `src/`.

## 1. Inventory

Agentonomy lets an agent buy a service, or fund and place an order on a prediction
market, under a spending grant that its owner signed.

| part | state | operations | what makes it correct |
| --- | --- | --- | --- |
| **Budget executor contract** `contracts/src/AgentonomyBudgetExecutor.sol` | pinned grant per (owner, grantId), `spent`, `revoked`, `paid` | `execute` (calls the token in the middle), `revoke` | charges stay within one pinned grant, a purchase is paid once, revocation is final |
| **Core funding ledger, budget rail** `apps/core/services/funding_service` (`ledger.py`, `budget_service.py`) | reservations, budget columns of grants, daily and rolling usage, relayer nonce, broadcast state of each attempt | reserve, pin rail, settle (prepare, claim, send, record), recover, reconcile, complete, mark unpaid, finalize, release | accounting exact and within limits; an attempt is sent once; budget is not given back while a transaction may pay; verdicts agree with the final chain; payments get reconciled |
| **Core's own rails** `funding_service/service.py`, `ledger.py` | the same reservations, a relayer nonce, authorizations of the Clink payer, risk state before broadcast | settle by allowance, by payer proxy in two legs, by a payment of the user's wallet; reconcile, replace, release | the user is charged once, the payer never pays with its own money, what is booked was paid |
| **Core accounts** `apps/core/services/account_service` | wallet identities, spending grants, sessions, challenges, allowances | create, supersede, pause, resume, reduce, amend, revoke, expire a grant; suspend, revoke, disconnect an identity | the owner's restrictions are not undone by the ledger |
| **Hosted execution** `apps/facilitator` (`execution_repository.py`, `relayer.py`, `watcher.py`) | one row per execution, nonce row, evidence | allocate, claim, sign, submit, mark, rebroadcast, watch, confirm, finalize, revert, release, reorg review | one transaction per nonce, released means unpaid, verdicts agree with the chain |
| **Pilot gate** `apps/facilitator/pilot_gate.py` and the gate tables of `execution_repository.py` | pauses, in-flight, daily and lifetime counters, gas reservations per UTC day | admit, reserve gas, move it to another day, settle, release, pause, resume | quotas never exceeded and never leaked, everything sent is metered |
| **USDC executor contract** `contracts/src/AgentonomyUSDCExecutor.sol` | used executions, owner, signer, pause | `execute`, ownership, pause, signer rotation | an execution is paid once and before its deadline |
| **Marketplace purchases** `apps/marketplace/services/purchase_service.py`, `marketplace_worker.py` | purchase row with a claim token and lease, cache, reputation event, outbox of finalizations | execute, external checkout, reconcile, deliver, finalize | a paid purchase is not forgotten, an undelivered one is not called delivered, the outbox outlives crashes |
| **Prediction-market funding** `apps/prediction-markets/services/funding_adapter_service` | operation rows, bridge target and the claim that creates it | prepare, confirm, advance, recover, poll the bridge, finalize, recover ambiguous | Core is asked once, an ended operation holds no money, a bridge credit is not attributed twice |
| **Order execution** `apps/prediction-markets/services/execution_service`, `storage/live_trading_repository.py` | signing sessions, live submissions, execution file | create, complete and reconcile a session | an order is posted once, the recorded outcome is the venue's, orders use money that arrived |
| **Relayer gate** `agentonomy_commerce/relayer_gate.py`, passed by `examples/monad_commerce/hosted_canary.py` | file lock, journal of the active and the last completed payment | enter, exit, complete, abort, reconcile | one payment of the relayer at a time, across crashes |
| **Merchant, hosted commerce** `agentonomy_commerce/merchant.py`, `examples/monad_commerce` | orders, deliveries | pay, deliver | a paid order is delivered once |
| **Node credentials** `apps/facilitator` (`app.py`, `enrollment.py`, `repository.py`), `apps/node/clink_node/hosted_enrollment.py` | registrations, rotations and retired credentials at the Facilitator; one bundle in each node's secret store | enroll, prepare and commit a rotation, revoke, resume each of them | an interrupted command can be resumed, no accepted credential is lost, no retired one comes back |
| **Rest of node and Facilitator, OPC pairing, policy, key management, ERC-8004** | configuration, pairings, decisions, keys | request handling and I/O | requests are refused unless they are what was asked for |

Interactions.  The marketplace worker and the prediction-market coordinator call
Core (`reserve_spending`, `settle_reservation`, `reconcile_reservation`,
`finalize_reservation`, `release_reservation`).  Core prepares and signs a call of
the budget contract and sends it through its relayer
(`agentonomy_commerce/budget_backend.py`), or uses its own rails; hosted payments go
to the Facilitator, whose relayer calls the USDC executor and whose watcher reads
the chain, and which takes payments only from a node whose credential is registered.
Orders are admitted only against a finalized funding operation.  All
these parts meet in database rows that several processes read and write, and in
relayer nonces.

Hard behaviours: requests for one purchase overlap and die between two
transactions; the network takes a transaction and does not say so; an answer
arrives after the caller stopped waiting; the mempool drops transactions; blocks are
replaced; clocks are read before locks are taken; leases run out under slow
processes; owners change a grant while a payment is on its way; automatic
reconciliation gives up.  `PROJECT.json` lists these as hazards, each with its line
and the properties that watch it.

## 2. Modules

| module | contents |
| --- | --- |
| `BudgetExecutor` | the budget contract; a token call is two steps, and calls may nest in it |
| `RelayerGate` | extends `BudgetExecutor` with the wallets whose Cores call it through one relayer, and the gate that keeps them apart |
| `BudgetFunding` | grants, ledger, reservations and their settlement through the budget contract |
| `SpendingRails` | reservations settled without the budget contract: allowance, payer proxy, external x402 |
| `HeldPayment` | abstract: what Core, whatever the rail, and the Facilitator promise about one payment |
| `HostedExecution` | repository, relayer workers, operator, watcher, and the chain they use |
| `PilotGate` | the same rows with quotas, gas budgets and pauses, without nonces and chain |
| `Enrollment` | extends `PilotGate` with the nodes' credentials: the Facilitator's tables, the nodes' secret stores and the requests between them |
| `Purchase` | a marketplace purchase on each of its rails, with Core seen through its API |
| `VenueFunding` | funding of a Polymarket account through Core and the bridge |
| `OrderSigning` | extends `VenueFunding` with orders placed with that money |
| `Sums` | the sum over a finite set, with which the ledgers and the gas account add up |
| `SumTheorems` | facts about it, which the proofs of the modules that use it cite |
| `...Proofs` | theorems about the module they extend and those it extends: `RelayerGateProofs` also has those about `BudgetExecutor`, `OrderSigningProofs` those about `VenueFunding`, `FacilitatorProofs` those about `PilotGate` and `Enrollment` |
| `MC...` | instances for TLC; the `.cfg` files give the bounds |

Definitions whose names begin with `Fault` are deliberate mistakes.  Nothing uses
them, except when one replaces the definition that follows it to show that a
property notices that mistake.

### BudgetExecutor

One action per external function that changes storage (`Execute`, `Revoke`), plus
what the token does with the call (`TransferSucceeds`, `TransferReverts`) and time.
`Execute` saves the storage, applies the effects and hands control to the token;
while `call # NoCall` the token may revoke.  A token may move more or less than
asked or refuse, which rolls the storage back.  Digests are modelled by the values
they digest, so hashing and signatures are injective; `OwnerSignatures` and
`ExecutionSignatures` say what was signed.

### RelayerGate

Hosted commerce gives each wallet a Core process of its own, with its own ledger and
nonce allocator, and all of them one relayer account.  A tenant has one wallet, so
the model's tenant is the owner, and an `Order` is a wallet's purchase.

* `lease` is the file lock.  It is one variable because `_acquire_lock` does not wait
  and the lock is held for the whole request; it goes away with its holder.
  `active` and `completed` are the journal, which stays.
* `operation` is what a wallet's Core is working on, `sending` whether it is between
  the committed broadcast claim and the network call, `nextNonce` its allocator,
  `attempt` the attempt of each ledger row with what became of its transaction.
* `Enter`, `ReconcileVerifiedPayment`, `CompleteVerifiedPayment`, `AbortUnsubmitted`
  and `LeaveLease` are the gate's operations as `HostedCanary.request` uses them;
  `TimeOut` ends a request whose Core works on with nobody waiting, `CoreDies` a Core.
* `Prepare`, `Claim`, `Broadcast` and `Record` are the steps of `budget_service.py` that
  change the attempt; `BudgetFunding` has them in full for one Core.

`Mine` runs the attempt's call of the contract and `MinedReturns` the return of its
token call; `Others` is what anybody else does to the contract.  The chain is seen at
its finalized boundary.  A mined call may always revert before it reaches the token:
out of gas, if nothing else.

### BudgetFunding

One wallet, agent and product, one relayer.  `grant`, `usage`, `bound`, `row` and
`nextNonce` are database tables; a ledger transaction holds the global funding
lock (`ledger.py`), so it is one action.  `worker` is a request being served: the
clock reading before the lock (`ReserveBegin`), the pinning of the rail
(`PinRail`), the broadcasting claim (`ClaimBroadcast`), the network call (`Send`),
its record (`RecordBroadcast`), the attempt counter (`ReconcileAttempt`), the chain
verification (`Verify`) and the verdict are all separate, and `Abandon` ends a
request at any of them: a crash, a refused policy or risk check, an RPC error.

`fate` says what happened to a purchase's one transaction, `count` how many of the
relayer's transactions are mined and `final` how many of those are final; the
contract appears as `ContractAccepts` with its own running total `Spent`.  The
owner's actions are those of `account_service/repository.py`; `OwnerMay` selects
which of them an instance has.

### SpendingRails and HeldPayment

`row` is the reservation table, and here the network is explicit: a pull or a
payment is a record of its reservation, leg, nonce or authorization and copy;
`pool`, `ok`, `failed` and `confirmed` say where it is.  Nodes reject, forget and
reorder; the operator replaces and rebroadcasts; the merchant sends the
authorization it was handed, and may send it again, as a new transaction (another
copy), once the others that spend it have reverted; the chain's clock and Core's
differ about its expiry.  After a revert Core signs the next authorization without
waiting for the old one to expire, so a merchant that sends the old one again may be
paid twice.  `PaidOnce` excepts exactly that: of two payments, one spends an
authorization that had reverted for good (`Outlived`).  `RejectionIsFinal = TRUE` (a
node never takes what it definitely rejected) is an assumption about the outside that
the code makes.  `Together` says which reservations an instance opens at the same time.

`HeldPayment` is the promise that both, and `HostedExecution`, implement: held while the money may move, moved
at most once, booked only after it moved, given back only if it never can.  The
mappings are `HoldsPayments` in each module.  In `HostedExecution` each execution is a
held payment of its own, since one replaced block may undo several, and only until the
chain goes back below its finality boundary.

### HostedExecution and PilotGate

`row` is the hosted-execution table, `worker` the program counter and local
variables of each process inside `HostedRelayer.execute` or the operator's
reconciler, `watch` those of the watcher.  Each repository method is one
transaction and one action; RPC calls between them (`ReadPending`, `ReadLatest`,
`Send`) are actions of their own, so that everything they read may be stale when
it is used.  The chain is a pool, a sequence of mined transactions in nonce order
and a finality boundary `safe`; `Reorganise` replaces blocks above the boundary
and, `MaxRevisions` times, below it.

`PilotGate` follows the same rows through admission, gas reservations, moves between
days and closing.  A method takes the gate's advisory locks, hence one action, but
with a timestamp read before them.  The two are kept apart because the gate neither
reads nor writes nonces and chain, and the chain neither reads nor writes the gate.

### Enrollment

A node presents a device key and an access token, which are made, replaced and retired
together; the model calls them a `Key` and numbers keys in the order in which they are
made.  The id of the rotation that brings a key in and the id of the revocation that
ends it are made with it, so they are the same value.  A node is named by the invite
that creates it.

* `invited`, `node`, `rotation` and `retired` are the Facilitator's tables.  A request is
  authenticated in one transaction (`Authenticate`) and carried out in another (`Serve`),
  as in `app.py`; between them other requests come in.  `Accepts` is what the service and
  the repository check within the second one, and `EnrollNode`, `PrepareRotation`,
  `CommitRotation` and `RevokeNode` what they write.
* `bundle` is the secret store and survives everything.  `awaited` is what a client's
  command waits for; a command holds the mutation lock, so there is one.
  `Command` are the entry points of `HostedEnrollmentManager`, and `Resumes` is the
  request that a stored bundle calls for; `SaveAndSend` writes the store before it
  sends, in the order of the code.
* `GiveUp` is a timeout or a crash.  The request goes to `late`, from where it may
  arrive at any later time, any number of times, or never.

Payments meet this in `HostedRequests`: a request to pay begins only for a node that is
registered, and goes on whatever becomes of the node.

### Purchase

One purchase, because rows of different purchases share nothing.  A request owns
the row while its token is on it; the lease may run out under it (`live`), and its
later compare-and-set writes then fail.  Each step ends at a write of the row or at
a call of Core, the merchant or the cache; a request may end at any of them, and an
answer of Core may be lost (`answer = "error"`).  `Scenario` pairs a rail with what
may change underway: the mandate, the offering.

A request ends in one of two ways before its time.  `Abandon` leaves the row as it is: a
process that dies, or an exception in a request of the user, which nobody notes.  An
exception in a pass of the worker reaches `_retry_finalizations`, which saves the
purchase as it was when the pass claimed it, every column of it, with a reason of its
own, and releases the claim: `NoteError`, possible at any step of the pass, writes `note`,
the copy kept since `ClaimReconciliation`.  Whatever the pass has saved since is undone.
Two variables are only read by properties: `lost`, set when `NoteError` takes the current
payment's handoff off the row, and `overtaken`, set when execute's look at a changed
offering or mandate takes a purchase out of the submitted or reserved state.

### VenueFunding and OrderSigning

`op` is the operation table, written only by compare-and-set on the revision;
`StageProof` and `AllowedTransitions` are its consistency conditions; `worker` is a
request inside `prepare`, `confirm` or `advance`; `late` holds the requests to Core
that a worker gave up on but that Core may still carry out.  Core is its gateway:
one single-submission reservation per operation.  Assumed: all operations move the
same amount to one bridge address (the hardest case for attribution), what the
bridge and the venue's buying power show is a free choice within what can be true,
and a transfer that Core blocked before sending is never sent.

`OrderSigning` extends it with sessions, live submissions and the execution file,
which are three stores with three writes, and with posts that reach the venue after
the request stopped waiting.  The two meet in `Ready`: a session may be created for
an operation that is finalized.  `TradingSpec` interleaves both.  Assumed: an order
that the venue refused is not shown by it later.

## 3. Runs

| run | instance | result |
| --- | --- | --- |
| `budget_relay` | 1 owner with 3 grants of which 2 share an id, 3 purchases and a token that misbehaves; or 2 wallets with 3 orders through one relayer | pass |
| `hosted_overlap` | 2 executions with different deadlines, 2 workers, 1 deep reorganisation, 1 watcher restart; refinement of `HeldPayment` | pass |
| `hosted_liveness` | 1 execution, 1 worker, fairness | pass |
| `hosted_confirmed` | as above, `ConfirmedIsFinalized` | violated, finding |
| `funding_payment` | 1 purchase that fills its grant, 2 requests, every owner action that ends or suspends authority, 3 days; refinement of `HeldPayment` | pass |
| `funding_budget` | 3 purchases, 2 requests, 3 days, late clock readings; or reductions and amendments | pass |
| `funding_liveness` | 1 purchase, 2 requests, fairness | pass |
| `facilitator` | 2 executions of a node, one of them older than the gate, 2 workers, 3 days; or 2 clients, an enrolled node and an open invite, 3 keys, 2 late requests | pass |
| `rails` | an allowance pair sharing the relayer, a payer-proxy and an external reservation, 2 requests, merchants that send again after a revert; refinement of `HeldPayment` | pass |
| `purchase` | 2 requests or passes of the worker, each rail, a changing mandate or offering | pass |
| `purchase_drift` | a payer-proxy purchase whose offering changes, `ProvenIsNotFailed` | violated, finding |
| `venue` | 2 operations, 2 requests; 1 session, 3 requests | pass |

Bounds, and why they suffice.  Two workers are the fewest that race; a third adds
only more of the same race, and the proofs cover any number.  Orders have three
requests because the poster, one that reconciles while it waits and one that
reconciles after both are needed to write the three stores in every order.

* Funding: amounts 2, 1 and 1 and limits 2 and 3, so that limits are hit exactly,
  exceeded by one, and a grant becomes exhausted while another reservation under it
  is open.  `MaxTime` covers an expiry, a deadline and a change of day; `Hour = 2` and
  `Day = 1` make the rolling window and the usage date disagree.  `MaxAttempts = 1`
  reaches manual review after one attempt.  `TwoScenarios` keeps either the passing of
  time with three purchases, or the owner's changes with one worker at one instant.
* Hosted execution: `Lease = 1` and deadlines 1 and 2 let a lease run out before, at
  and after the deadline; `MaxTime = 4` leaves time to pass the boundary that releases
  a reverted execution.  `Alternatives` keeps either two executions, or one with
  reorganisations, restarts and late times.  In `PilotGate` a day is one tick, gas
  costs are 1 and 2 and the budgets 2, so that two executions fill a day.
* Enrolment: two clients compete for an invite while one of them may be enrolled
  already; three keys let a client rotate twice, so that a request of the first
  generation arrives in the third; `MaxLate` bounds the requests under way with
  nobody waiting, an authenticated one counted apart, and two let a request of
  one generation race one of the next; the proofs cover any number.
  `Explored` runs the whole life of the
  credentials while nobody pays, and payments while the credentials rest:
  `FacilitatorGate` proves that the gate takes no step beside credential changes that
  it could not take without them, and the credentials' steps do not read the gate.
  A worker's clock is at most a day late.  About 670,000 states.
* Relayer gate: two wallets are the fewest whose nonces can collide; one of them has a
  second order, so that an order enters after another of the same wallet and after
  one of the other wallet.  `Scenarios` keeps either the contract's hard grants with
  nobody at the gate, or ordinary grants with everybody there.  About 275,000 states.
* Rails: two nonces, two authorizations, so that one of each is replaced.  `FewCopies`
  leaves the second copy to a merchant that sends a reservation's first authorization
  again; it gives the relayer one gas price.  About 885,000 states.
* Purchase: one failed merchant payment, so that a second authorization is signed.  The
  allowance purchase may lose its mandate and its offering on the way, the external one
  its offering, and the payer-proxy one neither: there `purchase_drift` changes the
  offering, and the proofs cover every rail with every change.  `ExpiryMatters` lets a
  preview expire while a request still reads it.  About 2,540,000 states.
* Venue: `TradingScenarios` lets the bridge claim be contended only before the first
  operation gets under way, two requests drive one operation but one at a time once a
  second exists, and orders be signed only while no request drives the operation, no
  late message is left, and the operation came the shortest way.  `MaxRevision`
  bounds polls that change nothing.  About 950,000 states.

A constraint cuts behaviours, not interleavings inside them: each alternative is
explored completely.  What a constraint excludes is covered by the proofs where there
is one.

Deadlock is checked for `budget_relay` and the venue.  It is off elsewhere: clocks
are bounded and every purchase ends, so the instances really stop.

### Fairness

* `HostedExecution!Fairness`: the watcher polls for ever
  (`apps/facilitator/watcher_worker.py`, `run_forever`) and takes rows in the order
  of their last attempt (`list_watchable_ids`), so each watchable row gets its turn
  (SF); the watcher's own steps go on once begun, time passes and blocks become
  final (WF).  Nothing is assumed of workers, operator, mempool or miners.
* `BudgetFunding!FairSpec`: `_retry_finalizations` of
  `apps/marketplace/services/marketplace_worker.py` asks again and again, and
  `apps/core/README.md:17` has an operator reconcile what is under review; a
  request may die but not every time (SF on the steps of a reconciliation); every
  request that has begun is answered or dies (WF).

Neither assumes that an honest node mines anything: `DecidedIsReconciled` starts
when the chain has decided.

## 4. What is proved

For every set of grants, purchases, executions, reservations, operations, sessions
and workers and every value of the other constants, from the named assumptions of
each module (`ExecutorAssumption`, `HostedAssumption`, `FundingAssumption`,
`GateAssumption`, `RailsAssumption`, `TxAssumption`, `VenueAssumption`,
`OrderAssumption`, `RelayAssumption`, `EnrollmentAssumption`, `AbsentAssumption`,
`PurchaseAssumption`, `CallAssumption`: types, finitely many purchases, positive windows,
the ordering of limits that `_validate_grant_policy` enforces, and that "nothing" values
are not members of the sets they complete).  Every safety invariant and every action
property of a passing run is a theorem, and so is every refinement.  The type invariants are
theorems too, so no run repeats them; nor does one repeat `VerdictMatchesChain` of
`HostedExecution`, `QuotasHold`, `GateFollowsExecution`,
`NoncesDistinct` and `SubmittedHasExecution`.

**BudgetExecutor** (in `RelayerGateProofs`). `TypeCorrect`, `ChargeBounded`, `PaidOnce`, `Revocation`.  None
of the properties is inductive alone: a call that reverts restores the saved
storage, so each invariant (`ChargeInv`, `PaymentInv`, `RevocationInv`) says the
same of the saved storage of the running call.  `Accounting`
(`AccountingMatchesLog`) is the same argument about sums over the log: while a call
runs, the storage it would restore agrees with the log, and the current one differs
from it by the charge of that call (`AccountInv`).

**Sums** (in `SumTheorems`). A sum is a number, one term can be taken out of it
(`SumWithout`), and it depends on the terms alone (`SumSame`), hence is monotone
(`SumPart`) and additive (`SumUnion`).  The induction theorems take an operator and
cannot be used here, so each fact is proved by least counterexample: a set for which it
fails has a subset of least cardinality for which it fails (`LeastSubset`, from the
well-foundedness of the natural numbers), and taking out one term gives a smaller one.

**RelayerGate.** `RelayTypes`, `LaneInvariant`, then `LaneExclusive` and
`CompletionIsPaid`.  `LaneIsExclusive` is not inductive: a Core that works on after its
request timed out could prepare a payment behind the gate's back.  The invariant
`LaneInv` adds that whatever a Core works on is what the journal names
(`WorkIsActive`), that no allocator is ahead of the chain unless its own attempt is in
flight (`AllocatorBehind`), so that the nonce a Core computes is the chain's next, and
that an attempt pays the order it was prepared for (`AttemptOK`).
`RelayCallsContract` is a refinement: everything in the module takes steps of
`BudgetExecutor!Spec` only, so the contract's theorems hold beside it.

**HostedExecution.** `HostedTypes`, `NoncesExclusive`, `OneTransaction`,
`SignedForGood`, `ReleasedUnpaid`.  The invariant `Ownership` says that the nonce
row is ahead of every nonce handed out, that a row holds a raw transaction exactly
when its status says so, and that whatever a worker is about to send, or the chain
has, is what the row holds; `Released` adds that what was signed and given up is
past its deadline and unpaid, as is what the watcher is about to release.
`VerdictsMatch` (`VerdictMatchesChain`) needs more, because the evidence travels:
from the chain to the watcher's copy, from there to the row, and back to a watcher that
finalizes it after a restart.  `Verdicts` says, as long as the chain has not gone back
below its finality boundary, that blocks are numbered in the order of the nonces
(`BlocksOrdered`), that the evidence of a confirmed, finalized or reverted row is on the
chain at or below the boundary and says so (`RowVerdict`), and the same of the evidence on which the watcher is about to act (`WatchVerdict`).
`ExecutionsAreHeld` is the refinement of `HeldPayment`, step by step for one execution.
It adds that what was signed and given up has its receipt below the boundary (`Ended`), so
that no replaced block can bring it back.

**BudgetFunding.** `FundingInvariant` proves the inductive invariant `Inv`, of four
parts:

* `Typed`: types, plus that a busy worker has a purchase, clock readings are not in
  the future, and existing rows have a grant and limits;
* `Sends`: an attempt that is not claimed is unsent and nobody is about to send or
  to record it; with it `SentOnce`;
* `Nonces`: nonces in use are below the counter; with it `NoncesDistinct`;
* `Verdicts`: evidence that a worker holds is about a final block, hence still true
  when it is used; open reservations have their budget reserved, and budget was
  given up only for a transaction that finally reverted; with it
  `VerdictMatchesChain`.

From it follow `FundingTypes`, `OneSend`, `NoSharedNonce`, `VerdictsAreFinal` and
`PaidStaysHeld`.  Most steps are covered by one lemma, `QuietStep` (nothing is sent,
no nonce is allocated), chain steps by `FateStep`, and the four steps that prepare,
claim, send and record an attempt have a lemma each.  `TotalHolds`
(`CommittedWithinTotal`) and `Revoked` (`RevokedIsFinal`) rest on `Typed`, on
`GrantChanges` (which steps change a grant at all) and on `StepKeepsTotal`.
`ImplementsHeldPayment` is the refinement: under `Inv` every step changes the mapped
budget and money of at most one purchase, and as `HeldPayment` allows.

The books are a second layer on top of `Inv`, with `Booked`: how far a reservation is
decides whether its amount can be settled.  `LedgerInv` adds to
`LedgerMatchesReservations`, whose sums run over all reservations of a grant and of a
grant's usage date, that a grant not yet made has no books; every step moves one
reservation between sums (`HeldMoves`).  With it `LedgerAgrees` (`LedgerMatchesReservations`), and
`HourlyHolds` (`RollingHourBounded`): what `_reserve_unified_spending` counted under its
lock, with a clock read before it, is no less than what any window with the new
reservation contains.  `RoomOnChain` (`ContractHasRoom`) rests on `Room`, that what Core
has claimed for broadcast under a grant fits into the bound SpendGrant: a claim finds
Core's limits equal to the bound ones, and what is claimed is part of what the ledger has
reserved or settled.

**SpendingRails.** `RailsInvariant`, then `RailTypes`, `SettledPaid` and
`PayerFunded`.  The invariant says of each row what its state implies about its
transactions (`RowOK`), of each request that what it carries is still what the row
waits for (`WorkerOK`), and that whatever spends a payer's authorization comes after
a confirmed pull (`Funded`).

`InFlight` (`InFlightIsTracked`) and `NeverTwice` (`PaidOnce`) rest on a second invariant,
`Certainly`: where each row stands, given what its transactions and authorizations have
done (`Places`), that a request gives an attempt up only on a final rejection or a
confirmed revert (`Certain`), and what the chain's sets have to do with each other
(`ChainOK`).  A row changes only in the seven ways of `Moves`.  `RailsPromise` is the refinement of `HeldPayment`.  All three assume
`RejectionIsFinal`, as the run does and the code relies on, and nothing of merchants: a
payment with an authorization that is not outlived is the only one of its kind, because
an authorization is replaced only when it has expired or has reverted for good.

**PilotGate** (in `FacilitatorProofs`). `GateInvariant`, then `GateTypes`, `GateMetersSent`, `GateFollows` and
`GateQuotas` (`QuotasHold`).  The parts of the invariant say who holds a signing claim, that what a
claim holder has reserved covers what it signs, and that a reservation is open as
long as its row is.  `GateQuotas` assumes `LegacyFits`: the executions that the
migration admitted without asking are within the quotas.  `GateGas` (`DailyGasBounded`)
needs `Budgets`, the same for every day and not only those up to `MaxTime`: charging a
row again for another day takes it out of the sum of its old one.

**Enrollment** (in `FacilitatorProofs`). `Enrollments`, then `EnrollmentTypes`,
`EnrollmentResumes` (`ResumeIsAccepted`) and `EnrollmentHeld` (`AcceptedIsHeld`).  Neither
property is inductive, because a request that nobody waits for may be carried out at
any time.  The invariant `EInv` says what registration and rotation each state of a
bundle can meet (`Registered`: a rotation is not begun, prepared or committed, and
nothing else); that keys and nodes have one owner each (`Apart`) and a new key is in no
table (`Made`); that every registered key and every open rotation is in a bundle
(`Owned`, `RotationsOwned`); and, of every request under way, that it is what some
bundle still calls for, or has been overtaken by a commit or a revocation that makes
the Facilitator refuse it (`Asked`).  A step of the Facilitator keeps every `Asked`
(`Served`), and so does a step of a client, because it leaves a bundle only when its
request has been carried out (`BundleStep`, `Continues`).  `FacilitatorGate` is the
refinement: the Facilitator as a whole takes steps of `PilotGate!Spec` only.

**VenueFunding** (in `OrderSigningProofs`). `VenueInvariant`, then `VenueTypes` and
`SettledOnce`.  A worker's copy of a row is at most as new as the row (`Snapshots`), and
only the copy that equals the row can take the step to `settlement_submitting` (`Turn`),
hence one ask.  The money has an invariant of its own, `FundingOK`: a request that has
read that Core released or finalized a reservation has read something that stays so, and
it is at a step that fits the status it saw (`AllLearned`); each row has asked Core for
nothing or has come as far as Core, the money and the bridge let it (`Sound`); one
operation at a time has the bridge (`Alone`), which meanwhile lists nobody else's transfer
(`OwnTransfer`).  With it `EndsClean` (`EndedHoldsNothing`), `StepsAreAllowed`
(`AllowedSteps`), because every write of a row is one of `Advances`, and `CreditsAreOwn`
(`CreditIsOwn`).

**OrderSigning.** `OrderInvariant`, then `OrderTypes`, `OrderPostedOnce`,
`OutcomeIsTrue`, `ExecutionIsWritten` (`SubmittedHasExecution`) and `TradingFunds`.  The argument is one of
ownership: at most one request is between its claim of the session and its post
(`OneOwner`); what every other request knows is what the venue answered or what the
live row says (`Knows`); and each session's status says which of the three stores
are written (`SessionOK`).  `TradingFunds` shows that orders leave funding alone, so
that the theorems about `VenueFunding` carry over, and `OrdersAreFunded`
(`FundedOrder`) needs them: a session is created for a finalized operation only, and an
operation that is finalized stays so and keeps its transfer (`FundsOrders`).

**Purchase.** `PurchaseTypes`, `Delivered` (`DeliveredIsSettled`), `Finalizes`
(`OutboxUntilFinalized`), `Recoverable` (`ProofIsRecoverable`) and `Recording`
(`AttemptIsRecorded`).  Requests whose lease ran out act on old answers, so the invariant
says of each request what its program counter, its token and the answer it holds imply
(`LocalOK`, `TokenOK`, `AnswerOK`): an answer about an end is still true however old it is, and a
request that holds the row's token has read what the row says.  Of the row it says what each status implies about
Core (`RowOK`, `AttemptOK`, `ProofOK`).  An error of the worker writes the row back, so the
invariant also says of every pass what the copy from its claim time may be (`NoteOK`): one
that can be written whenever the pass still holds the row, because nothing that `RowOK` asks
for is younger than the claim but the handoff, and that loss is recorded in `lost`.
`Recoverable` is therefore about everything else: no other step, no crash and no stale
request takes the handoff of a payment that Core knows of.  `Recording` assumes nothing of
mandate and offering.  Execute's look at them does undo a purchase under way on the rails
that do not look at a submitted row first; the invariant carries that as `overtaken`, which
only such a look of this very purchase sets (`Overtakes`); the allowance rail has no exception.

## 5. What is only model-checked

* Liveness under fairness (`UnsignedIsResolved`, `ReceiptIsRecorded`,
  `DecidedIsReconciled`): outside TLAPS here, as is `ENABLED`.
* The two properties of the runs that expect a violation.
* The instances' alternatives (`Alternatives`, `Scenarios`, `Explored` and the like) are
  part of the runs; no theorem has them.

## 6. Findings

Two runs show a disagreement between the code and what its documents or tests say;
`PROJECT.json` quotes the lines.

1. `hosted_confirmed`: a watcher that stops between `confirm` and `finalize` cannot
   replay its evidence once the finality boundary has moved, and the execution
   stays confirmed.
2. `purchase_drift`: a payer-proxy purchase whose merchant payment Core has proven is
   failed when the offering has changed meanwhile.

### Observations

Met while modelling; the models have this behaviour, but no run is spent on it.

* `funding_service/budget_service.py:639`: reducing or amending a grant while a
  payment under it is submitted makes every later reconciliation of it fail
  (`_binding_for_row`), an operator's too.  `DecidedIsReconciled` therefore has an
  owner who only binds.
* `budget_service.py:181`: a crash between creating a reservation and pinning its
  rail leaves a reservation that no retry can use.
* `budget_service.py:833`: an attempt that is prepared and never claimed keeps its
  relayer nonce, and later transactions of the relayer wait behind it.
* `account_service/repository.py:1795`: pausing or superseding an exhausted grant is
  accepted without effect, and a release makes the grant active again;
  `apps/core/README.md:5` reads otherwise.
* `funding_service/ledger.py:1244`: settling one reservation exhausts the grant while
  another one, already within the total, waits to be settled.
* `funding_service/service.py:2709`: a crash while `risk_prebroadcast_state` is pending
  leaves the reservation where no request takes it up, though
  `apps/marketplace/docs/architecture.md:163` has it retried.
* `service.py:2428`: after a merchant payment has reverted Core signs the next
  authorization without waiting for the old one to expire; a merchant that sends the old
  one again may be paid by both.  `PaidOnce` excepts this and nothing else.
* `apps/marketplace/services/marketplace_worker.py:145`: when a pass of the worker fails,
  its handler saves the purchase as it was when the pass claimed it.  If the pass had paid
  the merchant, the `proxy_handoff` that it saved (`purchase_service.py:1148`) is gone; once
  Core has settled, the purchase stays `payment_submitted` with
  `PROXY_DELIVERY_RESULT_UNAVAILABLE`, paid and neither delivered nor given up.
  `ProofIsRecoverable` excepts this and nothing else.  The same write replaces
  `PROXY_COMPATIBILITY_RELEASE_PENDING` by `PAYMENT_RECONCILIATION_ERROR`, so that the
  release is not taken up again.
* `purchase_service.py:334` and `:1583`: a mandate that lapses, or an external input
  that expires from the cache, while a purchase is reserved or submitted fails it
  though its money may have moved.  `AttemptIsRecorded` excepts what execute's looks at
  mandate and offering do on the rails other than the allowance.
* `apps/facilitator/execution_repository.py:732`: a signed row whose worker stopped
  before `claim_submission` is neither watched nor released and keeps its nonce;
  `watcher.py:600`: a finalized transaction that disappears altogether is evidence
  unavailable and is not reviewed; the repository takes status edges that
  `_TRANSITIONS` (`execution_models.py:51`) does not have, for instance from
  `submission_unknown` to `submitted`.
* Prediction-market funding: a lost answer to a release before broadcast leaves the
  operation in `settlement_unknown` (`coordinator.py:813`); `manual_review` is not
  terminal and keeps the bridge target occupied (`repository.py:205`, `:2698`); a
  deposit claim whose holder crashed is never taken over (`service.py:290`, and
  `test_expired_deposit_creation_claim_is_still_busy` asks for that);
  `buying_power_before` is read before the row exists (`coordinator.py:263`).
* Order execution: one order may get two execution records
  (`execution_service/service.py:893` and `:1293`); a live row may say rejected while
  the order was accepted, when credentials are blocked during reconciliation
  (`:1273`); a definite rejection is lost when a poll recorded unknown first
  (`:909`); a request that dies between claiming the session and claiming the live
  row leaves the session submitting for ever (`:1261`); `execute_order_preview` never
  submits for Polymarket.
* `apps/node/clink_node/hosted_enrollment.py:536`: an enrolment whose invite expired, or
  went to another client, leaves a pending bundle that accepts only the same invite,
  and no command of `cli.py` clears it.  `ResumeIsAccepted` therefore asks of a pending
  enrolment only that it can be resumed if it was carried out.
* `apps/facilitator/repository.py:1005`: what makes a repeated prepare the same request
  includes the rotation's status, so a prepare that arrives after its commit is a
  conflict; it can only be a late one, and nobody waits for it.
* `funding_service/hosted_wallet_provisioning.py:413`: the plan that replaces one exported
  bundle by another does not compare their epochs, so an older export can replace a
  newer one.
* `agentonomy_commerce/relayer_gate.py:530`: the journal remembers only the last
  completed purchase.  An older one is kept out by `HostedCanary.request` alone, which
  looks for a verified payment before it enters.
* `examples/monad_commerce/hosted_canary.py:126`: verified evidence of a revert raises,
  before the gate for a later request, so an order whose payment reverted stays the
  active one and no other order of any wallet enters again.  An attempt that was
  prepared or claimed and never sent does the same.
* `hosted_canary.py:23`: a timeout of the Core inside the Marketplace process marks
  that process's own bridge broken (`core_bridge.py:148`), which `broken` does not
  see; the wallet, and the gate if its order is active, stay blocked until the
  tenant is closed or the service restarts.

## 7. What is not modelled, and why

* Signatures, hashes, canonical encodings and Decimal arithmetic: amounts are
  naturals in the token's atomic unit, signatures injective.
* `BudgetFunding`: grants that start later (so there is no pending status), other
  agents and products (they share only the global lock), policy, risk and allowance
  checks (a refusal is `Abandon`).  A purchase has at most one reservation and one
  attempt, as in the code.
* `SpendingRails`: the hosted rail of `service.py` and direct USDC transfers; limits of
  the grant, which `BudgetFunding` has.
* `HostedExecution`: `ExecutionRepository.transition`, which only tests call.
* `Purchase`: previews and quotes, registry, domain verification, reputation beyond the
  event of a purchase.
* Prediction markets: market data, portfolio, account binding, order previews, checks
  that only refuse.
* The administrative functions of the USDC executor; they appear as reverts.
* Relayer gate: file permissions, symlink checks and the schemas of journal and proofs,
  which only refuse.  Of hosted commerce, everything but the request that passes the
  gate: browser sessions, onboarding, OPC credentials, merchant delivery.
* `Enrollment`: the proofs that accompany a single request (their nonces, times and
  signatures only refuse), and the export of a bundle to Core.
* OPC pairing, the recovery of allowances, a node's access for agents and the merchant's
  delivery keep rows of their own and are not modelled yet.
* The rest of the Facilitator's HTTP service, of node and MCP clients, ERC-8004, key
  management, deployment, consoles and pages (more than half of the repository's
  lines): request validation, encoding, configuration and rendering.

## 8. Plan

1. The hosted rail of `service.py` on top of `HostedExecution`, whose executions then are
   the held payments that Core's reservations wait for.
2. The merchant's order and delivery above `Purchase`, and the USDC executor with its
   administrative functions.
3. Above `Enrollment`: the export of a bundle to Core's wallet registry, OPC pairing, and
   the recovery of allowances.
