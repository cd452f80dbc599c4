---------------------------- MODULE VenueFunding ----------------------------
(***************************************************************************)
(* Funding of a Polymarket account from a spending grant                   *)
(* (prediction-markets/services/funding_adapter_service): an operation     *)
(* reserves the amount in Core, asks Core once to send it to the bridge    *)
(* address of the user's venue account, and waits for the bridge to        *)
(* credit it.                                                              *)
(*                                                                         *)
(* A worker is one request (prepare, confirm, advance); any number of them *)
(* drive the same operation, and each may die between two steps.  They     *)
(* share the operation rows, which change only by compare-and-set.  The    *)
(* requests that they send to Core may be lost, answered too late, or      *)
(* carried out after the worker gave up.  Core is seen through its gateway *)
(* and keeps one single-submission reservation per operation.  All         *)
(* operations move the same amount to one bridge address.                  *)
(***************************************************************************)
EXTENDS Integers, FiniteSets

CONSTANTS
    Operation,      \* idempotency keys
    Worker,         \* requests being served
    MaxRevision,    \* bound on polls of one operation that change nothing
    NoOp,
    NoClaim,
    Orphan          \* the claim of a worker that died

ASSUME VenueAssumption ==
    /\ MaxRevision \in Nat
    /\ NoOp \notin Operation
    /\ NoClaim \notin Worker /\ Orphan \notin Worker /\ NoClaim # Orphan

VARIABLES
    op,         \* polymarket_funding_operations rows
    target,     \* whether the bridge deposit target is stored
    claim,      \* bridge_deposit_claims row
    worker,     \* program counter and local variables of each request
    late,       \* requests to Core that nobody waits for any more
    core,       \* Core's reservations
    money,      \* the transfers on the chain
    bridge,     \* the bridge's status of each transfer
    since,      \* operations confirmed when the bridge first listed a transfer
    asked       \* how often Core was asked to settle

repository == <<op, target, claim>>
outside == <<late, core, money, bridge, since>>
vars == <<repository, worker, outside, asked>>

Status == {"none", "created", "confirmed", "action_creating", "action_unknown",
    "action_created", "policy_evaluating", "policy_unknown", "policy_approved",
    "reservation_creating", "reserved", "transaction_prepared", "settlement_submitting",
    "settlement_unknown", "submitted", "chain_confirmed", "bridge_pending", "venue_credited",
    "finalizing", "manual_review", "finalized", "failed", "released"}
Terminal == {"finalized", "failed", "released"}
CoreState == {"none", "spending_reserved", "payment_submitted", "settled", "finalized",
              "released"}

OpRow == [status : Status, core_state : CoreState, revision : Nat]

(* validate_exact_amount_and_time_order, _OPERATION_STAGE_PROOF_SQL: what   *)
(* an operation knows of Core at each stage. *)
StageProof(row) ==
    CASE row.status \in {"reserved", "transaction_prepared", "settlement_submitting"} ->
            row.core_state = "spending_reserved"
      [] row.status = "settlement_unknown" ->
            row.core_state \in {"none", "spending_reserved", "payment_submitted"}
      [] row.status = "submitted" -> row.core_state = "payment_submitted"
      [] row.status \in {"chain_confirmed", "bridge_pending", "venue_credited", "finalizing"} ->
            row.core_state = "settled"
      [] row.status \in {"finalized", "released"} -> row.core_state = row.status
      [] row.status = "failed" -> row.core_state \in {"none", "settled"}
      [] row.status = "manual_review" -> TRUE
      [] OTHER -> row.core_state = "none"

(* _ALLOWED_OPERATION_TRANSITIONS, and the same-status update of a poll. *)
AllowedTransitions(status) ==
    CASE status = "none" -> {"created"}
      [] status = "created" -> {"confirmed", "failed", "released", "manual_review"}
      [] status = "confirmed" -> {"action_creating", "failed", "released", "manual_review"}
      [] status = "action_creating" ->
            {"action_created", "action_unknown", "failed", "released", "manual_review"}
      [] status = "action_unknown" -> {"action_created", "manual_review"}
      [] status = "action_created" ->
            {"policy_evaluating", "failed", "released", "manual_review"}
      [] status = "policy_evaluating" ->
            {"policy_approved", "policy_unknown", "failed", "released", "manual_review"}
      [] status = "policy_unknown" -> {"policy_approved", "manual_review"}
      [] status = "policy_approved" -> {"reservation_creating", "manual_review"}
      [] status = "reservation_creating" -> {"reserved", "manual_review"}
      [] status = "reserved" -> {"transaction_prepared", "settlement_submitting", "failed",
                                 "released", "manual_review"}
      [] status = "transaction_prepared" ->
            {"settlement_submitting", "submitted", "failed", "released", "manual_review"}
      [] status = "settlement_submitting" ->
            {"settlement_unknown", "submitted", "failed", "released", "manual_review"}
      [] status = "settlement_unknown" ->
            {"submitted", "chain_confirmed", "failed", "released", "manual_review"}
      [] status = "submitted" -> {"chain_confirmed", "failed", "released", "manual_review"}
      [] status = "chain_confirmed" -> {"bridge_pending", "failed", "manual_review"}
      [] status = "bridge_pending" ->
            {"bridge_pending", "venue_credited", "failed", "manual_review"}
      [] status = "venue_credited" -> {"finalizing", "manual_review"}
      [] status = "finalizing" -> {"finalized", "manual_review"}
      [] OTHER -> {}

NewOp == [status |-> "none", core_state |-> "none", revision |-> 0]

CoreRow == [state : CoreState,
            risk : {"none", "pending", "ready", "blocked"},  \* risk_prebroadcast_state
            retryable : BOOLEAN,                             \* reconciliation_status
            sealed : BOOLEAN]   \* replacement_forbidden, with the evidence of the failure
NoRow == [state |-> "none", risk |-> "none", retryable |-> FALSE, sealed |-> FALSE]

PC == {"idle", "claim", "deposit", "create", "confirm", "loop", "create_action",
       "evaluate_policy", "reserve", "reserved", "settle", "settled", "reconcile",
       "judge", "prerelease", "consume", "reread", "fail", "failing", "poll", "finalize_read",
       "finalize", "finalized"}
Local == [pc : PC, o : Operation \cup {NoOp}, seen : OpRow, got : CoreRow, held : CoreRow,
          fresh : BOOLEAN]
Idle == [pc |-> "idle", o |-> NoOp, seen |-> NewOp, got |-> NoRow, held |-> NoRow,
         fresh |-> TRUE]

Init ==
    /\ op = [o \in Operation |-> NewOp]
    /\ target = FALSE
    /\ claim = NoClaim
    /\ worker = [w \in Worker |-> Idle]
    /\ late = {}
    /\ core = [o \in Operation |-> NoRow]
    /\ money = [o \in Operation |-> "idle"]
    /\ bridge = [o \in Operation |-> "none"]
    /\ since = [o \in Operation |-> {}]
    /\ asked = [o \in Operation |-> 0]

Become(w, s) == worker' = [worker EXCEPT ![w] = s]
Goto(w, pc) == Become(w, [worker[w] EXCEPT !.pc = pc])
Return(w) == Become(w, Idle)

-----------------------------------------------------------------------------
(* _cas, compare_and_set_funding_operation: the row is replaced if nobody   *)
(* changed it since it was read; the loser reads it again.  The worker goes *)
(* on at won or at lost. *)
FaultMatches(w) == TRUE
Matches(w) == op[worker[w].o].revision = worker[w].seen.revision

Submitting == {"settlement_submitting", "settlement_unknown", "submitted"}

(* "out" is the end of a round of settlement: the request ends unless the   *)
(* operation has moved on. *)
Over(w, status) ==
    \/ status \in Terminal \cup {"settlement_unknown", "submitted", "manual_review"}
    \/ status = "settlement_submitting" /\ worker[w].fresh
Continue(w, pc, seen) ==
    IF pc = "idle" \/ (pc = "out" /\ Over(w, seen.status)) THEN Return(w)
    ELSE IF pc \in {"out", "loop"}
    THEN Become(w, [Idle EXCEPT !.pc = "loop", !.o = worker[w].o, !.seen = seen])
    ELSE Become(w, [worker[w] EXCEPT !.pc = pc, !.seen = seen])
Replacement(w, status, core_state) ==
    [status |-> status, core_state |-> core_state, revision |-> worker[w].seen.revision + 1]

Cas(w, status, core_state, won, lost) ==
    LET o == worker[w].o
        new == Replacement(w, status, core_state) IN
    IF Matches(w)
    THEN op' = [op EXCEPT ![o] = new] /\ Continue(w, won, new)
    ELSE UNCHANGED op /\ Continue(w, lost, op[o])

(* A step that only moves the operation on, or that claims the next call to *)
(* Core for this worker. *)
Move(w, status, won, lost) ==
    /\ Cas(w, status, worker[w].seen.core_state, won, lost)
    /\ UNCHANGED <<target, claim, outside, asked>>
Step(w, from, status, pc) ==
    /\ worker[w].pc = "loop" /\ worker[w].seen.status = from
    /\ Move(w, status, pc, "loop")

-----------------------------------------------------------------------------
(* Core.  What a request does to a reservation, and whether it is refused.  *)
Reconciled(o) ==
    LET r == core[o] IN
    IF r.state = "spending_reserved" THEN [r EXCEPT !.retryable = ~ r.sealed]
    ELSE IF r.state # "payment_submitted" \/ r.risk \in {"pending", "blocked"} THEN r
    ELSE IF money[o] = "moved" THEN [r EXCEPT !.state = "settled"]
    ELSE IF money[o] = "reverted" THEN [r EXCEPT !.state = "spending_reserved", !.sealed = TRUE]
    ELSE r

Refused(kind, o) ==
    LET r == core[o] IN
    CASE kind = "settle" -> r.sealed \/ r.state \in {"none", "released"}
      [] kind = "release" ->
            r.state \in {"none", "payment_submitted", "settled", "finalized"}
      [] kind = "finalize" -> r.state \notin {"settled", "finalized"}
      [] OTHER -> FALSE

Done(kind, o) ==
    LET r == core[o] IN
    IF Refused(kind, o) THEN r
    ELSE CASE kind = "reserve" /\ r.state = "none" -> [r EXCEPT !.state = "spending_reserved"]
           [] kind = "settle" /\ r.state = "spending_reserved" ->
                [r EXCEPT !.state = "payment_submitted", !.risk = "pending", !.retryable = FALSE]
           [] kind = "settle" /\ r.state = "payment_submitted" -> Reconciled(o)
           [] kind = "reconcile" -> Reconciled(o)
           [] kind = "release" -> [r EXCEPT !.state = "released", !.retryable = FALSE]
           [] kind = "finalize" -> [r EXCEPT !.state = "finalized"]
           [] OTHER -> r

(* _core_mutation: the answer, or NoRow if Core refuses, if the answer is   *)
(* lost, or if the worker stops waiting before Core carries the request out. *)
Answer(w, kind, got) ==
    LET o == worker[w].o IN
    \/ /\ core' = [core EXCEPT ![o] = Done(kind, o)]
       /\ got = (IF Refused(kind, o) THEN NoRow ELSE Done(kind, o))
       /\ UNCHANGED late
    \/ /\ core' = [core EXCEPT ![o] = Done(kind, o)]
       /\ got = NoRow
       /\ UNCHANGED late
    \/ /\ late' = late \cup {<<kind, o>>}
       /\ got = NoRow
       /\ UNCHANGED core

Call(w, kind, pc) ==
    /\ \E got \in {NoRow, Done(kind, worker[w].o)} :
          /\ Answer(w, kind, got)
          /\ Become(w, [worker[w] EXCEPT !.pc = pc, !.got = got, !.fresh = kind # "settle"])
    /\ UNCHANGED <<repository, money, bridge, since>>

(* GET of the reservation: the row, or no answer, which ends the request. *)
Read(w, pc) ==
    /\ \/ Become(w, [worker[w] EXCEPT !.pc = pc, !.got = core[worker[w].o]])
       \/ Return(w)
    /\ UNCHANGED <<repository, outside, asked>>

CarryOut(m) ==
    /\ m \in late
    /\ late' = late \ {m}
    /\ core' = [core EXCEPT ![m[2]] = Done(m[1], m[2])]
    /\ UNCHANGED <<repository, worker, money, bridge, since, asked>>

(* Core's own steps: the risk check before the first broadcast, the         *)
(* broadcast, a definite rejection, the block. *)
CorePrebroadcast(o) ==
    LET r == core[o] IN
    /\ r.state = "payment_submitted" /\ money[o] = "idle"
    /\ \/ /\ r.risk = "pending"
          /\ core' = [core EXCEPT ![o].risk = "ready"]
          /\ UNCHANGED money
       \/ /\ r.risk = "ready"
          /\ money' = [money EXCEPT ![o] = "sent"]
          /\ UNCHANGED core
       \/ /\ r.risk = "ready"
          /\ core' = [core EXCEPT ![o].state = "spending_reserved", ![o].sealed = TRUE]
          /\ UNCHANGED money
       \/ /\ r.risk # "blocked"
          /\ core' = [core EXCEPT ![o].risk = "blocked"]
          /\ UNCHANGED money
    /\ UNCHANGED <<repository, worker, late, bridge, since, asked>>

Mine(o) ==
    /\ money[o] = "sent"
    /\ \E end \in {"moved", "reverted"} : money' = [money EXCEPT ![o] = end]
    /\ UNCHANGED <<repository, worker, late, core, bridge, since, asked>>

(* The bridge lists a transfer, then completes it or gives up. *)
BridgeDetects(o) ==
    /\ money[o] = "moved" /\ bridge[o] = "none"
    /\ bridge' = [bridge EXCEPT ![o] = "PROCESSING"]
    /\ since' = [since EXCEPT ![o] =
                    {p \in Operation : op[p].status \notin {"none", "created"}}]
    /\ UNCHANGED <<repository, worker, late, core, money, asked>>

BridgeEnds(o) ==
    /\ bridge[o] = "PROCESSING"
    /\ \E end \in {"COMPLETED", "FAILED"} : bridge' = [bridge EXCEPT ![o] = end]
    /\ UNCHANGED <<repository, worker, late, core, money, since, asked>>

-----------------------------------------------------------------------------
(* prepare, create_deposit_address: the deposit target is created under a   *)
(* claim; who finds the claim taken waits for the target or gives up. *)
Prepare(w, o) ==
    /\ worker[w].pc = "idle"
    /\ op[o].status = "none"
    /\ Become(w, [Idle EXCEPT !.o = o, !.pc = IF target THEN "create" ELSE "claim"])
    /\ UNCHANGED <<repository, outside, asked>>

(* try_claim_deposit_creation: the lease of a claim never runs out. *)
MayClaim(w) == claim = NoClaim

Claim(w) ==
    /\ worker[w].pc = "claim"
    /\ \/ MayClaim(w) /\ claim' = w /\ Goto(w, "deposit")
       \/ ~ MayClaim(w) /\ target /\ Goto(w, "create") /\ UNCHANGED claim
       \/ ~ MayClaim(w) /\ Return(w) /\ UNCHANGED claim
    /\ UNCHANGED <<op, target, outside, asked>>

(* POST /deposit, save_deposit_target and, always, the release of the claim. *)
Deposit(w) ==
    /\ worker[w].pc = "deposit"
    /\ claim' = IF claim = w THEN NoClaim ELSE claim
    /\ \/ target' = TRUE /\ Goto(w, "create")
       \/ UNCHANGED target /\ Return(w)
    /\ UNCHANGED <<op, outside, asked>>

(* create_funding_operation: one operation at a time for a target, and none *)
(* after one that was left to manual review. *)
FaultTargetFree(o) == op[o].status = "none"
TargetFree(o) == \A p \in Operation : op[p].status \in Terminal \cup {"none"}

Create(w) ==
    LET o == worker[w].o IN
    /\ worker[w].pc = "create"
    /\ op' = IF op[o].status = "none" /\ TargetFree(o)
             THEN [op EXCEPT ![o].status = "created"] ELSE op
    /\ Return(w)
    /\ UNCHANGED <<target, claim, outside, asked>>

-----------------------------------------------------------------------------
(* confirm and advance read the operation; the others are _advance_loaded. *)
Load(w, o) ==
    /\ worker[w].pc = "idle"
    /\ op[o].status # "none"
    /\ Become(w, [Idle EXCEPT !.o = o, !.seen = op[o],
                              !.pc = IF op[o].status = "created" THEN "confirm" ELSE "loop"])
    /\ UNCHANGED <<repository, outside, asked>>

Confirm(w) ==
    /\ worker[w].pc = "confirm"
    /\ Move(w, "confirmed", "loop", "loop")

Waits(w) ==
    /\ worker[w].pc = "loop"
    /\ worker[w].seen.status \in Terminal \cup {"created", "manual_review", "action_creating",
          "action_unknown", "policy_evaluating", "policy_unknown", "reservation_creating",
          "finalizing"}
    /\ Return(w)
    /\ UNCHANGED <<repository, outside, asked>>

Advance(w) ==
    \/ Step(w, "confirmed", "action_creating", "create_action")
    \/ Step(w, "action_created", "policy_evaluating", "evaluate_policy")
    \/ Step(w, "policy_approved", "reservation_creating", "reserve")
    \/ Step(w, "reserved", "transaction_prepared", "loop")
    \/ Step(w, "transaction_prepared", "settlement_submitting", "settle")
    \/ Step(w, "chain_confirmed", "bridge_pending", "loop")
    \/ Step(w, "venue_credited", "finalizing", "finalize_read")

(* create_action and evaluate_policy leave nothing in Core that matters     *)
(* here: only what the worker learns is modelled. *)
CreateAction(w) ==
    /\ worker[w].pc = "create_action"
    /\ Move(w, "action_created", "loop", "loop") \/ Move(w, "action_unknown", "idle", "idle")

EvaluatePolicy(w) ==
    /\ worker[w].pc = "evaluate_policy"
    /\ \/ Move(w, "policy_approved", "loop", "loop")
       \/ \E status \in {"policy_unknown", "failed"} : Move(w, status, "idle", "idle")

Reserve(w) ==
    /\ worker[w].pc = "reserve"
    /\ UNCHANGED asked
    /\ Call(w, "reserve", "reserved")

(* A reservation that is not known to exist leaves reservation_creating. *)
Reserved(w) ==
    /\ worker[w].pc = "reserved"
    /\ IF worker[w].got.state = "spending_reserved"
       THEN Cas(w, "reserved", "spending_reserved", "loop", "loop")
       ELSE Return(w) /\ UNCHANGED op
    /\ UNCHANGED <<target, claim, outside, asked>>

Settle(w) ==
    /\ worker[w].pc = "settle"
    /\ asked' = [asked EXCEPT ![worker[w].o] = @ + 1]
    /\ Call(w, "settle", "settled")

(* Core answers once it has checked the risk and sent the transfer, or has  *)
(* been stopped on the way. *)
Answered(w) ==
    LET r == core[worker[w].o] IN
    /\ worker[w].pc = "settled" /\ worker[w].got \notin {NoRow, r}
    /\ Become(w, [worker[w] EXCEPT !.got = r])
    /\ UNCHANGED <<repository, outside, asked>>

(* No answer to settle. *)
Unsettled(w) ==
    /\ worker[w].pc = "settled" /\ worker[w].got = NoRow
    /\ Move(w, "settlement_unknown", "idle", "idle")

-----------------------------------------------------------------------------
(* _recover_core *)
Recover(w) ==
    LET r == core[worker[w].o] IN
    /\ worker[w].pc = "loop" /\ worker[w].seen.status \in Submitting
    /\ \/ Become(w, [worker[w] EXCEPT
             !.fresh = TRUE, !.held = r, !.got = r,
             !.pc = IF r.risk \in {"pending", "blocked"} THEN "consume"
                    ELSE IF r.state \in {"spending_reserved", "payment_submitted"} /\ ~ r.sealed
                    THEN "reconcile" ELSE "judge"])
       \/ Return(w)
    /\ UNCHANGED <<repository, outside, asked>>

Reconcile(w) ==
    /\ worker[w].pc = "reconcile"
    /\ UNCHANGED asked
    /\ Call(w, "reconcile", "judge")

(* _core_retryable_without_transaction and                                  *)
(* _operation_allows_prebroadcast_release. *)
Retryable(r) == r.state = "spending_reserved" /\ r.retryable /\ ~ r.sealed
AllowsRelease(row) ==
    row.status = "settlement_unknown" /\ row.core_state \in {"none", "spending_reserved"}

(* The row read first stands in for a reconcile that did not answer. *)
Known(w) == IF worker[w].got = NoRow THEN worker[w].held ELSE worker[w].got

Judge(w) ==
    /\ worker[w].pc = "judge"
    /\ IF AllowsRelease(worker[w].seen) /\ Retryable(Known(w))
       THEN \E got \in {NoRow, Done("release", worker[w].o)} :
              /\ Answer(w, "release", got)
              /\ Become(w, [worker[w] EXCEPT !.pc = "prerelease", !.held = Known(w),
                                             !.got = got])
       ELSE /\ Become(w, [worker[w] EXCEPT !.pc = "consume", !.got = Known(w)])
            /\ UNCHANGED <<late, core>>
    /\ UNCHANGED <<repository, money, bridge, since, asked>>

(* _core_released_without_transaction *)
FaultReleasedUnsent(r) == r.state \in {"released", "none"}
ReleasedUnsent(r) == r.state = "released" /\ ~ r.sealed

Prerelease(w) ==
    /\ worker[w].pc = "prerelease"
    /\ IF ReleasedUnsent(worker[w].got)
       THEN Cas(w, "released", "released", "idle", "idle")
       ELSE /\ Become(w, [worker[w] EXCEPT !.pc = "consume", !.got = worker[w].held])
            /\ UNCHANGED op
    /\ UNCHANGED <<target, claim, outside, asked>>

(* _consume_core_state.  A settled payment found while still submitting     *)
(* passes through submitted. *)
FaultAfterSettled(status) == "chain_confirmed"
AfterSettled(status) ==
    IF status = "settlement_submitting" THEN "submitted" ELSE "chain_confirmed"

Consume(w) ==
    LET r == worker[w].got
        status == worker[w].seen.status IN
    /\ worker[w].pc \in {"consume", "settled"} /\ r # NoRow
    /\ IF r.risk = "blocked"
       THEN Cas(w, "manual_review", "payment_submitted", "out", "out")
       ELSE IF r.risk = "pending" /\ status = "settlement_submitting"
       THEN Cas(w, "settlement_unknown", "payment_submitted", "out", "out")
       ELSE IF r.sealed
       THEN Goto(w, IF worker[w].fresh THEN "fail" ELSE "reread") /\ UNCHANGED op
       ELSE IF r.state = "payment_submitted" /\ r.risk = "ready" /\ status # "submitted"
       THEN Cas(w, "submitted", "payment_submitted", "out", "out")
       ELSE IF r.state = "settled" /\ status \in Submitting
       THEN IF AfterSettled(status) = "submitted"
            THEN Cas(w, "submitted", "payment_submitted", "consume", "consume")
            ELSE Cas(w, "chain_confirmed", "settled", "loop", "loop")
       ELSE IF r.state = "spending_reserved" /\ status = "settlement_submitting"
       THEN Cas(w, "settlement_unknown", "spending_reserved", "out", "out")
       ELSE Continue(w, "out", worker[w].seen) /\ UNCHANGED op
    /\ UNCHANGED <<target, claim, outside, asked>>

(* _release_core_failure: the answer of settle itself is read once more;    *)
(* the operation is released once Core has released a payment that failed   *)
(* for certain. *)
Reread(w) ==
    LET r == core[worker[w].o] IN
    /\ worker[w].pc = "reread"
    /\ \/ r.sealed /\ Become(w, [worker[w] EXCEPT !.pc = "fail", !.got = r])
       \/ Continue(w, "out", worker[w].seen)
    /\ UNCHANGED <<repository, outside, asked>>

Fail(w) ==
    /\ worker[w].pc = "fail"
    /\ UNCHANGED asked
    /\ IF worker[w].got.state = "released"
       THEN /\ Goto(w, "failing")
            /\ UNCHANGED <<repository, outside>>
       ELSE Call(w, "release", "failing")

Failing(w) ==
    LET r == worker[w].got IN
    /\ worker[w].pc = "failing"
    /\ IF r.state = "released" /\ r.sealed
       THEN Cas(w, "released", "released", "out", "out")
       ELSE IF r.state # "released" /\ worker[w].seen.status = "settlement_submitting"
       THEN Cas(w, "settlement_unknown", worker[w].seen.core_state, "out", "out")
       ELSE Continue(w, "out", worker[w].seen) /\ UNCHANGED op
    /\ UNCHANGED <<target, claim, outside, asked>>

-----------------------------------------------------------------------------
(* _select_status_transaction: the transfer that the bridge lists under     *)
(* Core's transaction hash or, since the bridge may list another hash, the  *)
(* only one of the right amount since the operation was confirmed. *)
Scoped(o) == {p \in Operation : bridge[p] # "none" /\ o \in since[p]}
Selected(o) == {p \in Scoped(o) : p = o \/ Cardinality(Scoped(o)) = 1}

(* _poll_bridge.  The buying power is the venue's: it may or may not cover  *)
(* the amount when the bridge has completed. *)
Poll(w) ==
    LET o == worker[w].o IN
    /\ worker[w].pc = "loop" /\ worker[w].seen.status = "bridge_pending"
    /\ \/ /\ worker[w].seen.revision < MaxRevision
          /\ \E p \in Selected(o) : bridge[p] # "FAILED"
          /\ Cas(w, "bridge_pending", "settled", "idle", "idle")
       \/ \E p \in Selected(o), end \in {"failed", "venue_credited"} :
             /\ bridge[p] = (IF end = "failed" THEN "FAILED" ELSE "COMPLETED")
             /\ Cas(w, end, "settled", "idle", "idle")
       \/ Return(w) /\ UNCHANGED op
    /\ UNCHANGED <<target, claim, outside, asked>>

(* _finalize *)
FinalizeRead(w) ==
    /\ worker[w].pc = "finalize_read"
    /\ Read(w, "finalize")

Finalize(w) ==
    /\ worker[w].pc = "finalize"
    /\ UNCHANGED asked
    /\ CASE worker[w].got.state = "settled" -> Call(w, "finalize", "finalized")
         [] worker[w].got.state = "finalized" ->
              Goto(w, "finalized") /\ UNCHANGED <<repository, outside>>
         [] OTHER -> Return(w) /\ UNCHANGED <<repository, outside>>

Finalized(w) ==
    /\ worker[w].pc = "finalized"
    /\ IF worker[w].got.state = "finalized"
       THEN Cas(w, "finalized", "finalized", "idle", "idle")
       ELSE Return(w) /\ UNCHANGED op
    /\ UNCHANGED <<target, claim, outside, asked>>

-----------------------------------------------------------------------------
(* recover_ambiguous: the operator gives up a call nobody can account for. *)
RecoverAmbiguous(o) ==
    /\ op[o].status \in {"action_creating", "policy_evaluating", "reservation_creating",
                         "finalizing"}
    /\ op' = [op EXCEPT ![o].status = "manual_review", ![o].revision = @ + 1]
    /\ UNCHANGED <<target, claim, worker, outside, asked>>

(* A request dies with its process, and leaves its claim behind. *)
Abandon(w) ==
    /\ worker[w].pc # "idle"
    /\ Return(w)
    /\ claim' = IF claim = w THEN Orphan ELSE claim
    /\ UNCHANGED <<op, target, outside, asked>>

Request(w) ==
    \/ \E o \in Operation : Prepare(w, o) \/ Load(w, o)
    \/ Claim(w) \/ Deposit(w) \/ Create(w) \/ Confirm(w) \/ Waits(w) \/ Advance(w)
    \/ CreateAction(w) \/ EvaluatePolicy(w) \/ Reserve(w) \/ Reserved(w) \/ Settle(w)
    \/ Answered(w) \/ Unsettled(w) \/ Recover(w) \/ Reconcile(w) \/ Judge(w)
    \/ Prerelease(w) \/ Consume(w) \/ Reread(w) \/ Fail(w) \/ Failing(w) \/ Poll(w)
    \/ FinalizeRead(w) \/ Finalize(w) \/ Finalized(w) \/ Abandon(w)

Environment ==
    \/ \E m \in late : CarryOut(m)
    \/ \E o \in Operation : CorePrebroadcast(o) \/ Mine(o) \/ BridgeDetects(o) \/ BridgeEnds(o)

Next ==
    \/ \E w \in Worker : Request(w)
    \/ \E o \in Operation : RecoverAmbiguous(o)
    \/ Environment

Spec == Init /\ [][Next]_vars

-----------------------------------------------------------------------------
(* The type of every variable. *)
TypeOK ==
    /\ op \in [Operation -> OpRow]
    /\ target \in BOOLEAN
    /\ claim \in Worker \cup {NoClaim, Orphan}
    /\ worker \in [Worker -> Local]
    /\ late \subseteq {"reserve", "settle", "reconcile", "release", "finalize"} \X Operation
    /\ core \in [Operation -> CoreRow]
    /\ money \in [Operation -> {"idle", "sent", "moved", "reverted"}]
    /\ bridge \in [Operation -> {"none", "PROCESSING", "COMPLETED", "FAILED"}]
    /\ since \in [Operation -> SUBSET Operation]
    /\ asked \in [Operation -> Nat]

(* No compare-and-set is refused, by the transition table or by the row's   *)
(* validation: a request that applies what it learned, however late, never  *)
(* fails with an error that would leave the operation where it is. *)
AllowedSteps == [][\A o \in Operation : op'[o] # op[o] =>
    op'[o].status \in AllowedTransitions(op[o].status) /\ StageProof(op'[o])]_vars

(* Core is asked to settle an operation at most once, however many requests *)
(* drive it and wherever they die: settlement_submitting is claimed by one  *)
(* compare-and-set and never entered again. *)
AskedOnce == \A o \in Operation : asked[o] <= 1

(* An operation that ends as failed or released leaves nothing behind: Core *)
(* holds no budget for it, and the transfer did not and will never happen,  *)
(* whatever requests are still under way - except that the bridge itself    *)
(* may fail after the transfer. *)
EndedHoldsNothing == \A o \in Operation :
    op[o].status \in {"failed", "released"} =>
        \/ core[o].state \in {"none", "released"} /\ money[o] \in {"idle", "reverted"}
        \/ op[o].status = "failed" /\ bridge[o] = "FAILED"

(* The credit that an operation ends with is its own: although the bridge   *)
(* is asked for an amount and a time rather than for a transaction, an      *)
(* operation never takes the transfer of another one for its own. *)
CreditIsOwn == \A o \in Operation :
    op[o].status \in {"venue_credited", "finalizing", "finalized"} =>
        money[o] = "moved" /\ bridge[o] = "COMPLETED"

=============================================================================
