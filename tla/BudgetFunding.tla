--------------------------- MODULE BudgetFunding ---------------------------
(***************************************************************************)
(* Core's authority over spending: the life of a spending grant            *)
(* (account_service/repository.py), the budget ledger                      *)
(* (funding_service/ledger.py) and the reservations that BudgetFunding-    *)
(* Service settles through the budget contract (budget_service.py,         *)
(* service.py), for one wallet, agent and product and one relayer.         *)
(*                                                                         *)
(* A ledger transaction holds the global funding lock and is one step.     *)
(* Clock readings before it, the network call between two of them and the  *)
(* chain verification are steps of their own.  Policy, risk and allowance  *)
(* checks that refuse a request appear as a worker that stops (Abandon).   *)
(***************************************************************************)
EXTENDS Naturals, Sums

CONSTANTS
    Grant,          \* spending grants: their ids, which are ordered
    Purchase,       \* purchases; each has at most one reservation
    Worker,         \* requests being served
    Amount,         \* immutable amount of each purchase
    Limits,         \* limits that the owner may sign
    Expires,        \* expires_at of each grant
    Hour,           \* the rolling window
    Day,            \* length of a usage_date
    Lifetime,       \* how long a signed execution may be mined
    MaxAttempts,    \* payment_reconciliation_max_attempts
    MaxAge,         \* payment_reconciliation_max_age_seconds
    MaxTime,        \* bound on the clock
    OwnerMay,       \* which of the owner's changes happen
    NoGrant,
    NoJob,
    NoLimits

LimitRecord == [max : Nat, payment : Nat, hourly : Nat, daily : Nat]

ASSUME FundingAssumption ==
    /\ IsFiniteSet(Purchase)
    /\ Amount \in [Purchase -> Nat \ {0}]
    /\ Limits \subseteq LimitRecord
    /\ \A l \in Limits : l.payment <= l.hourly /\ l.hourly <= l.daily /\ l.daily <= l.max
    /\ Grant \subseteq Nat
    /\ Expires \in [Grant -> Nat]
    /\ Hour \in Nat \ {0}
    /\ Day \in Nat \ {0}
    /\ Lifetime \in Nat \ {0}
    /\ MaxAttempts \in Nat
    /\ MaxAge \in Nat
    /\ MaxTime \in Nat
    /\ NoGrant \notin Grant
    /\ NoJob \notin Purchase
    /\ NoLimits \notin LimitRecord

VARIABLES
    now,         \* the clock, also the newest block's timestamp
    identity,    \* status of the wallet identity
    grant,       \* the spending_grants table
    usage,       \* spending_grant_daily_usage, by grant and usage date
    bound,       \* limits of the SpendGrant bound to each grant
    row,         \* the reservation of each purchase
    nextNonce,   \* next_nonce of the relayer
    worker,      \* program counter and local variables of each worker
    fate,        \* what happened to the transaction of each purchase
    count,       \* mined transactions of the relayer
    final,       \* how many of those are final
    stopped      \* grants revoked on chain

ledger == <<grant, usage, bound, row, nextNonce>>
chain == <<fate, count, final, stopped>>
vars == <<now, ledger, chain, identity, worker>>

Days == {t \div Day : t \in 0 .. MaxTime}

GrantRow ==
    [status : {"none", "active", "paused", "security_paused", "exhausted", "expired", "revoked"},
     limits : LimitRecord \cup {NoLimits},
     used : Nat,
     reserved : Nat]

NewGrant == [status |-> "none", limits |-> NoLimits, used |-> 0, reserved |-> 0]

Reservation ==
    [state : {"none", "spending_reserved", "payment_submitted", "settled", "finalized",
              "unpaid_terminal", "released"},
     grant : Grant \cup {NoGrant},
     rail : BOOLEAN,        \* settlement_rail is budget_contract
     accounting : {"none", "reserved", "settled", "released"},
     at : Nat,              \* occurred_at of its rolling usage row
     send : {"none", "pending", "broadcasting", "broadcasted", "ambiguous"},
     nonce : Nat,
     started : Nat,         \* reconciliation_started_at
     deadline : Nat,        \* deadline of the signed execution
     attempts : Nat,        \* reconciliation_attempts
     review : BOOLEAN]      \* reconciliation_status is manual_review_required

NoReservation ==
    [state |-> "none", grant |-> NoGrant, rail |-> FALSE, accounting |-> "none", at |-> 0,
     send |-> "none", nonce |-> 0, started |-> 0, deadline |-> 0, attempts |-> 0,
     review |-> FALSE]

WorkerState ==
    [pc : {"idle", "reserve", "pin", "broadcast", "send", "record", "reconcile", "verify",
           "resolve"},
     job : Purchase \cup {NoJob},
     grant : Grant \cup {NoGrant},   \* the grant that the action was resolved to
     at : Nat,                       \* its clock reading
     operator : BOOLEAN,             \* operator_reconcile
     outcome : {"none", "broadcasted", "ambiguous"},
     evidence : {"none", "paid", "reverted"}]

IdleWorker == [pc |-> "idle", job |-> NoJob, grant |-> NoGrant, at |-> 0,
               operator |-> FALSE, outcome |-> "none", evidence |-> "none"]

Init ==
    /\ now = 0
    /\ identity = "active"
    /\ grant = [g \in Grant |-> NewGrant]
    /\ usage = [g \in Grant |-> [d \in Days |-> [used |-> 0, reserved |-> 0]]]
    /\ bound = [g \in Grant |-> NoLimits]
    /\ row = [p \in Purchase |-> NoReservation]
    /\ nextNonce = 0
    /\ worker = [w \in Worker |-> IdleWorker]
    /\ fate = [p \in Purchase |-> "unsent"]
    /\ count = 0
    /\ final = 0
    /\ stopped = {}

Update(p, r) == row' = [row EXCEPT ![p] = r]
Become(w, s) == worker' = [worker EXCEPT ![w] = s]

-----------------------------------------------------------------------------
(* The owner: account_service/repository.py.                               *)

SetStatus(gs, status) ==
    grant' = [g \in Grant |-> IF g \in gs THEN [grant[g] EXCEPT !.status = status]
                              ELSE grant[g]]

Committed(g) == grant[g].used + grant[g].reserved

(* consume_grant_challenge_and_create_grant: a new mandate, in force from  *)
(* now on, supersedes the overlapping ones.                                *)
Overlapping(g) ==
    {f \in Grant \ {g} : /\ grant[f].status \in {"active", "paused", "security_paused"}
                         /\ now < Expires[f]}

CreateGrant(g, l) ==
    /\ grant[g].status = "none"
    /\ identity = "active"
    /\ now < Expires[g]
    /\ grant' = [f \in Grant |->
                    IF f = g THEN [NewGrant EXCEPT !.status = "active", !.limits = l]
                    ELSE IF f \in Overlapping(g) THEN [grant[f] EXCEPT !.status = "revoked"]
                    ELSE grant[f]]
    /\ UNCHANGED <<now, usage, bound, row, nextNonce, chain, identity, worker>>

(* pause_spending_grant answers normally whatever the grant's status. *)
PauseGrant(g) ==
    /\ "pause" \in OwnerMay
    /\ grant[g].status \notin {"none"}
    /\ SetStatus({g} \cap {f \in Grant : grant[f].status = "active"}, "paused")
    /\ UNCHANGED <<now, usage, bound, row, nextNonce, chain, identity, worker>>

(* resume_spending_grant; one that has expired is marked, an exhausted one *)
(* too, which is otherwise refused like a security-paused one.             *)
ResumeGrant(g) ==
    /\ "pause" \in OwnerMay
    /\ \/ /\ grant[g].status \in {"active", "paused", "security_paused", "exhausted"}
          /\ now >= Expires[g]
          /\ SetStatus({g}, "expired")
       \/ /\ grant[g].status = "paused"
          /\ now < Expires[g]
          /\ identity = "active"
          /\ SetStatus({g}, "active")
    /\ UNCHANGED <<now, usage, bound, row, nextNonce, chain, identity, worker>>

RevokeGrant(g) ==
    /\ "revoke" \in OwnerMay
    /\ grant[g].status \notin {"none", "revoked"}
    /\ SetStatus({g}, "revoked")
    /\ UNCHANGED <<now, usage, bound, row, nextNonce, chain, identity, worker>>

(* active_spending_grants marks what has expired. *)
ExpireGrant(g) ==
    /\ grant[g].status \in {"active", "paused", "security_paused"}
    /\ now >= Expires[g]
    /\ SetStatus({g}, "expired")
    /\ UNCHANGED <<now, usage, bound, row, nextNonce, chain, identity, worker>>

(* revoke_wallet_identity_and_pause_active_grants *)
RevokeIdentity ==
    /\ "identity" \in OwnerMay
    /\ identity # "revoked"
    /\ identity' = "revoked"
    /\ SetStatus({g \in Grant : grant[g].status = "active"}, "security_paused")
    /\ UNCHANGED <<now, usage, bound, row, nextNonce, chain, worker>>

(* prepare_wallet_identity_disconnect suspends the wallet identity,        *)
(* disconnect_wallet_identity revokes it; both revoke its usable grants.   *)
EndIdentity(status) ==
    /\ "identity" \in OwnerMay
    /\ identity' = status
    /\ SetStatus({g \in Grant : grant[g].status \in {"active", "paused", "security_paused"}},
                 "revoked")
    /\ UNCHANGED <<now, usage, bound, row, nextNonce, chain, worker>>

PrepareDisconnect == identity \in {"active", "suspended"} /\ EndIdentity("suspended")

DisconnectWallet == EndIdentity("revoked")

Below(l, m) ==
    l.max <= m.max /\ l.payment <= m.payment /\ l.hourly <= m.hourly /\ l.daily <= m.daily

(* reduce_spending_grant lowers limits without a signature; a signed       *)
(* amendment (consume_grant_challenge_and_amend_grant) may raise them.     *)
ReduceGrant(g, l) ==
    /\ "reduce" \in OwnerMay
    /\ grant[g].status # "none"
    /\ l # grant[g].limits
    /\ Below(l, grant[g].limits)
    /\ Committed(g) <= l.max
    /\ grant' = [grant EXCEPT ![g].limits = l]
    /\ UNCHANGED <<now, usage, bound, row, nextNonce, chain, identity, worker>>

AmendGrant(g, l) ==
    /\ "amend" \in OwnerMay
    /\ grant[g].status = "active"
    /\ identity = "active"
    /\ l # grant[g].limits
    /\ Committed(g) <= l.max
    /\ grant' = [grant EXCEPT ![g].limits = l]
    /\ UNCHANGED <<now, usage, bound, row, nextNonce, chain, identity, worker>>

(* bind_budget_grant: the signed SpendGrant has exactly Core's limits; a   *)
(* second one is refused.                                                  *)
BindGrant(g) ==
    /\ "bind" \in OwnerMay
    /\ bound[g] = NoLimits
    /\ grant[g].status = "active"
    /\ identity = "active"
    /\ bound' = [bound EXCEPT ![g] = grant[g].limits]
    /\ UNCHANGED <<now, grant, usage, row, nextNonce, chain, identity, worker>>

-----------------------------------------------------------------------------
(* The budget ledger: funding_service/ledger.py.                           *)

Total(S) == SumOver(Amount, S)

(* Fault: only the window up to the request's own clock reading counts. *)
FaultWindowUpToReading(g, t) ==
    {p \in Purchase : /\ row[p].grant = g
                      /\ row[p].accounting \in {"reserved", "settled"}
                      /\ row[p].at + Hour > t
                      /\ row[p].at <= t}

(* The rolling usage rows that a reservation made at t is added to. *)
RollingWindow(g, t) ==
    {p \in Purchase : /\ row[p].grant = g
                      /\ row[p].accounting \in {"reserved", "settled"}
                      /\ row[p].at + Hour > t}

(* Fault: amounts that are only reserved are not counted. *)
FaultIgnoreReserved(g, a) == grant[g].used + a <= grant[g].limits.max

FitsTotal(g, a) == Committed(g) + a <= grant[g].limits.max

(* reserve_unified_budget accepts amount a under g at clock reading t. *)
Eligible(g, a, t) ==
    /\ identity = "active"
    /\ grant[g].status = "active"
    /\ t < Expires[g]
    /\ a <= grant[g].limits.payment
    /\ FitsTotal(g, a)
    /\ usage[g][t \div Day].used + usage[g][t \div Day].reserved + a <= grant[g].limits.daily
    /\ Total(RollingWindow(g, t)) + a <= grant[g].limits.hourly

(* It takes the first of these, which must be the one resolved before. *)
MayReserve(g, a, t) ==
    /\ Eligible(g, a, t)
    /\ \A f \in Grant : Eligible(f, a, t) => g <= f

(* Fault: the totals of the day of the request are changed. *)
FaultToday(p) == now \div Day

(* The usage date that p's amount is held under. *)
UsageDate(p) == row[p].at \div Day

(* Change the reserved and used amounts of p's grant and usage date, where *)
(* the reserved ones suffice, and give the grant status st.                *)
Account(p, used, st) ==
    LET g == row[p].grant
        d == UsageDate(p)
        a == Amount[p]
    IN  /\ grant[g].reserved >= a
        /\ usage[g][d].reserved >= a
        /\ grant' = [grant EXCEPT ![g].reserved = @ - a, ![g].used = @ + used, ![g].status = st]
        /\ usage' = [usage EXCEPT ![g][d].reserved = @ - a, ![g][d].used = @ + used]

(* The status of p's grant after its amount is released: an exhausted      *)
(* grant is usable again.                                                  *)
StatusReleased(p) ==
    LET g == row[p].grant
    IN  IF /\ grant[g].status = "exhausted"
           /\ Committed(g) - Amount[p] < grant[g].limits.max
           /\ identity = "active"
           /\ now < Expires[g]
        THEN "active" ELSE grant[g].status

(* release_unified_budget *)
ReleaseBudget(p) ==
    /\ row[p].accounting = "reserved"
    /\ Account(p, 0, StatusReleased(p))

(* Fault: the budget decides, whatever the owner has done to the grant. *)
FaultExhaustAny(p) ==
    IF Committed(row[p].grant) >= grant[row[p].grant].limits.max THEN "exhausted"
    ELSE grant[row[p].grant].status

(* The status of p's grant after its amount is used: no budget is left. *)
StatusSettled(p) ==
    LET g == row[p].grant
    IN  IF /\ grant[g].status \in {"active", "exhausted"}
           /\ Committed(g) >= grant[g].limits.max
        THEN "exhausted" ELSE grant[g].status

(* settle_unified_budget *)
SettleBudget(p) ==
    /\ row[p].accounting = "reserved"
    /\ Account(p, Amount[p], StatusSettled(p))

(* validate_unified_lifecycle *)
LifecycleValid(g) ==
    /\ identity = "active"
    /\ grant[g].status = "active"
    /\ now < Expires[g]

(* Fault: the binding is trusted although Core's limits have changed. *)
FaultAnyBinding(g) == bound[g] # NoLimits

(* _binding_for_row: the bound SpendGrant still has Core's limits. *)
BindingValid(g) ==
    /\ bound[g] # NoLimits
    /\ bound[g].max = grant[g].limits.max
    /\ bound[g].payment = grant[g].limits.payment

-----------------------------------------------------------------------------
(* The chain, as budget_backend.py uses it, and what the contract accepts. *)

Mined == {"paid", "reverted"}

(* eth_getTransactionCount at "pending" answers n. *)
IsPendingNonce(n) ==
    /\ \A k \in count .. n - 1 : \E p \in Purchase : fate[p] = "pool" /\ row[p].nonce = k
    /\ \A p \in Purchase : fate[p] = "pool" => row[p].nonce # n

(* spent[grantHash] of the contract: blocks that are replaced do not count. *)
Spent(g) == Total({p \in Purchase : row[p].grant = g /\ fate[p] = "paid"})

(* The contract charges p to its bound grant. *)
ContractAccepts(p) ==
    /\ now < row[p].deadline
    /\ row[p].grant \notin stopped
    /\ Spent(row[p].grant) + Amount[p] <= bound[row[p].grant].max

Mine(p, verdict) ==
    /\ fate[p] = "pool"
    /\ row[p].nonce = count
    /\ verdict = "paid" => ContractAccepts(p)
    /\ fate' = [fate EXCEPT ![p] = verdict]
    /\ count' = count + 1
    /\ UNCHANGED <<now, ledger, final, stopped, identity, worker>>

(* The newest of the relayer's blocks that is not final is replaced. *)
Reorganise(p) ==
    /\ fate[p] \in Mined
    /\ row[p].nonce + 1 = count
    /\ final < count
    /\ fate' = [fate EXCEPT ![p] = "pool"]
    /\ count' = count - 1
    /\ UNCHANGED <<now, ledger, final, stopped, identity, worker>>

BecomeFinal ==
    /\ final < count
    /\ final' = final + 1
    /\ UNCHANGED <<now, ledger, fate, count, stopped, identity, worker>>

Drop(p) ==
    /\ fate[p] = "pool"
    /\ fate' = [fate EXCEPT ![p] = "dropped"]
    /\ UNCHANGED <<now, ledger, count, final, stopped, identity, worker>>

(* The owner revokes the grant in the contract. *)
RevokeOnChain(g) ==
    /\ "revoke on chain" \in OwnerMay
    /\ g \notin stopped
    /\ stopped' = stopped \cup {g}
    /\ UNCHANGED <<now, ledger, fate, count, final, identity, worker>>

Tick ==
    /\ now < MaxTime
    /\ now' = now + 1
    /\ UNCHANGED <<ledger, chain, identity, worker>>

-----------------------------------------------------------------------------
(* Reservations: BudgetFundingService.reserve_spending.                    *)

(* A purchase that another rail owns is refused, then the clock is read;   *)
(* the action was resolved to grant g some time before.                    *)
ReserveBegin(w, p, g) ==
    /\ worker[w].pc = "idle"
    /\ row[p].state = "none" \/ row[p].rail
    /\ grant[g].status # "none"
    /\ Become(w, [IdleWorker EXCEPT !.pc = "reserve", !.job = p, !.grant = g, !.at = now])
    /\ UNCHANGED <<now, ledger, chain, identity>>

(* _reserve_unified_spending creates the reservation ... *)
Reserve(w) ==
    LET p == worker[w].job
        g == worker[w].grant
        t == worker[w].at
    IN  /\ worker[w].pc = "reserve"
        /\ row[p].state = "none"
        /\ MayReserve(g, Amount[p], t)
        /\ grant' = [grant EXCEPT ![g].reserved = @ + Amount[p]]
        /\ usage' = [usage EXCEPT ![g][t \div Day].reserved = @ + Amount[p]]
        /\ Update(p, [NoReservation EXCEPT !.state = "spending_reserved", !.grant = g,
                                           !.accounting = "reserved", !.at = t])
        /\ Become(w, [worker[w] EXCEPT !.pc = "pin"])
        /\ UNCHANGED <<now, bound, nextNonce, chain, identity>>

(* ... or returns the one that exists, for the same grant. *)
ReserveReplay(w) ==
    LET p == worker[w].job
    IN  /\ worker[w].pc = "reserve"
        /\ row[p].grant = worker[w].grant
        /\ Become(w, IF row[p].rail THEN IdleWorker ELSE [worker[w] EXCEPT !.pc = "pin"])
        /\ UNCHANGED <<now, ledger, chain, identity>>

(* The settlement rail is pinned in a transaction of its own. *)
PinRail(w) ==
    LET p == worker[w].job
    IN  /\ worker[w].pc = "pin"
        /\ row[p].rail \/ row[p].state = "spending_reserved"
        /\ Update(p, [row[p] EXCEPT !.rail = TRUE])
        /\ Become(w, IdleWorker)
        /\ UNCHANGED <<now, grant, usage, bound, nextNonce, chain, identity>>

-----------------------------------------------------------------------------
(* Settlement: settle_reservation and _broadcast_budget_attempt.           *)

Larger(m, n) == IF m >= n THEN m ELSE n
Smaller(m, n) == IF m <= n THEN m ELSE n

(* allocate_relayer_nonce *)
AllocatedNonce(pending) == Larger(nextNonce, pending)

(* Prepare and sign the one attempt of a reservation. *)
Settle(w, p) ==
    LET g == row[p].grant
    IN  /\ worker[w].pc = "idle"
        /\ row[p].state = "spending_reserved"
        /\ row[p].rail
        /\ LifecycleValid(g)
        /\ BindingValid(g)
        /\ \E n \in {count} \cup {row[q].nonce + 1 : q \in Purchase} :
              /\ IsPendingNonce(n)
              /\ nextNonce' = AllocatedNonce(n) + 1
              /\ Update(p, [row[p] EXCEPT !.state = "payment_submitted",
                                          !.send = "pending",
                                          !.nonce = AllocatedNonce(n),
                                          !.started = now,
                                          !.deadline = Smaller(now + Lifetime, Expires[g])])
        /\ Become(w, [IdleWorker EXCEPT !.pc = "broadcast", !.job = p])
        /\ UNCHANGED <<now, grant, usage, bound, chain, identity>>

(* Fault: an attempt whose outcome is unknown is sent again. *)
FaultSendAgain == {"pending", "broadcasting", "ambiguous"}

(* The broadcast states from which an attempt may be sent. *)
Unclaimed == {"pending"}

(* settle_reservation of a submitted one: _recover_budget_attempt. *)
Recover(w, p) ==
    /\ worker[w].pc = "idle"
    /\ row[p].state = "payment_submitted"
    /\ Become(w, [IdleWorker EXCEPT
                     !.pc = IF row[p].send \in Unclaimed THEN "broadcast" ELSE "reconcile",
                     !.job = p])
    /\ UNCHANGED <<now, ledger, chain, identity>>

(* The durable claim, after the last check, and before the network call. *)
ClaimBroadcast(w) ==
    LET p == worker[w].job
    IN  /\ worker[w].pc = "broadcast"
        /\ row[p].state = "payment_submitted"
        /\ row[p].send \in Unclaimed
        /\ LifecycleValid(row[p].grant)
        /\ BindingValid(row[p].grant)
        /\ now < row[p].deadline
        /\ Update(p, [row[p] EXCEPT !.send = "broadcasting"])
        /\ Become(w, [worker[w] EXCEPT !.pc = "send"])
        /\ UNCHANGED <<now, grant, usage, bound, nextNonce, chain, identity>>

(* Somebody else has the claim. *)
BroadcastClaimed(w) ==
    LET p == worker[w].job
    IN  /\ worker[w].pc = "broadcast"
        /\ row[p].state = "payment_submitted"
        /\ row[p].send \notin Unclaimed
        /\ Become(w, [worker[w] EXCEPT !.pc = "reconcile"])
        /\ UNCHANGED <<now, ledger, chain, identity>>

(* backend.broadcast: the node may take the transaction and not say so. *)
Send(w, taken, outcome) ==
    LET p == worker[w].job
    IN  /\ worker[w].pc = "send"
        /\ outcome = "broadcasted" => taken
        /\ fate' = IF taken /\ fate[p] \in {"unsent", "dropped"}
                   THEN [fate EXCEPT ![p] = "pool"] ELSE fate
        /\ Become(w, [worker[w] EXCEPT !.pc = "record", !.outcome = outcome])
        /\ UNCHANGED <<now, ledger, count, final, stopped, identity>>

RecordBroadcast(w) ==
    LET p == worker[w].job
    IN  /\ worker[w].pc = "record"
        /\ IF row[p].state = "payment_submitted"
           THEN Update(p, [row[p] EXCEPT !.send = worker[w].outcome])
           ELSE UNCHANGED row
        /\ Become(w, [IdleWorker EXCEPT !.pc = "reconcile", !.job = p])
        /\ UNCHANGED <<now, grant, usage, bound, nextNonce, chain, identity>>

-----------------------------------------------------------------------------
(* Reconciliation: _reconcile_budget_reservation.                          *)

(* Fault: an operator is refused like everybody else. *)
FaultReviewIsFinal(w, p, operator) ==
    /\ worker[w].pc = "idle"
    /\ row[p].state = "payment_submitted"
    /\ ~row[p].review
    /\ Become(w, [IdleWorker EXCEPT !.pc = "reconcile", !.job = p, !.operator = operator])
    /\ UNCHANGED <<now, ledger, chain, identity>>

ReconcileBegin(w, p, operator) ==
    /\ worker[w].pc = "idle"
    /\ row[p].state = "payment_submitted"
    /\ operator \/ ~row[p].review
    /\ Become(w, [IdleWorker EXCEPT !.pc = "reconcile", !.job = p, !.operator = operator])
    /\ UNCHANGED <<now, ledger, chain, identity>>

(* _reconciliation_limit_reason *)
LimitReached(p) ==
    row[p].attempts >= MaxAttempts \/ now >= row[p].started + MaxAge

(* Automatic reconciliation gives up: manual_review_required. *)
ReconcileLimit(w) ==
    LET p == worker[w].job
    IN  /\ worker[w].pc = "reconcile"
        /\ row[p].state = "payment_submitted"
        /\ ~worker[w].operator
        /\ ~row[p].review
        /\ LimitReached(p)
        /\ Update(p, [row[p] EXCEPT !.review = TRUE])
        /\ Become(w, IdleWorker)
        /\ UNCHANGED <<now, grant, usage, bound, nextNonce, chain, identity>>

(* Count the attempt, then ask the chain. *)
ReconcileAttempt(w) ==
    LET p == worker[w].job
        auto == ~worker[w].operator
    IN  /\ worker[w].pc = "reconcile"
        /\ row[p].state = "payment_submitted"
        /\ auto => ~row[p].review /\ ~LimitReached(p)
        /\ BindingValid(row[p].grant)
        /\ Update(p, IF auto THEN [row[p] EXCEPT !.attempts = @ + 1] ELSE row[p])
        /\ Become(w, [worker[w] EXCEPT !.pc = "verify"])
        /\ UNCHANGED <<now, grant, usage, bound, nextNonce, chain, identity>>

(* Fault: a receipt counts before its block is final. *)
FaultAnyReceipt(p) == IF fate[p] \in Mined THEN fate[p] ELSE "none"

(* What backend.verify proves of p's transaction. *)
ChainEvidence(p) ==
    IF fate[p] \in Mined /\ row[p].nonce < final THEN fate[p] ELSE "none"

Verify(w) ==
    /\ worker[w].pc = "verify"
    /\ Become(w, [worker[w] EXCEPT !.pc = "resolve", !.evidence = ChainEvidence(worker[w].job)])
    /\ UNCHANGED <<now, ledger, chain, identity>>

(* verify fails, or its observations disagree. *)
VerifyFails(w) ==
    /\ worker[w].pc = "verify"
    /\ Become(w, [worker[w] EXCEPT !.pc = "resolve"])
    /\ UNCHANGED <<now, ledger, chain, identity>>

(* _same_pending_payment *)
SamePending(p) == row[p].state = "payment_submitted"

(* _complete_native_reservation *)
CompleteSettled(w) ==
    LET p == worker[w].job
    IN  /\ worker[w].pc = "resolve"
        /\ worker[w].evidence = "paid"
        /\ SamePending(p)
        /\ SettleBudget(p)
        /\ Update(p, [row[p] EXCEPT !.state = "settled", !.accounting = "settled",
                                    !.review = FALSE])
        /\ Become(w, IdleWorker)
        /\ UNCHANGED <<now, bound, nextNonce, chain, identity>>

(* _mark_budget_unpaid *)
MarkUnpaid(w) ==
    LET p == worker[w].job
    IN  /\ worker[w].pc = "resolve"
        /\ worker[w].evidence = "reverted"
        /\ row[p].state = "payment_submitted"
        /\ BindingValid(row[p].grant)
        /\ ReleaseBudget(p)
        /\ Update(p, [row[p] EXCEPT !.state = "unpaid_terminal", !.accounting = "released",
                                    !.review = TRUE])
        /\ Become(w, IdleWorker)
        /\ UNCHANGED <<now, bound, nextNonce, chain, identity>>

(* _pending_budget, also when it takes back a manual review. *)
StayPending(w) ==
    LET p == worker[w].job
    IN  /\ worker[w].pc = "resolve"
        /\ worker[w].evidence = "none"
        /\ row[p].state = "payment_submitted"
        /\ Update(p, [row[p] EXCEPT !.review = FALSE])
        /\ Become(w, IdleWorker)
        /\ UNCHANGED <<now, grant, usage, bound, nextNonce, chain, identity>>

(* finalize_reservation, once the service is delivered *)
FinalizeReservation(p) ==
    /\ row[p].state = "settled"
    /\ Update(p, [row[p] EXCEPT !.state = "finalized"])
    /\ UNCHANGED <<now, grant, usage, bound, nextNonce, chain, identity, worker>>

(* Fault: a payment that has no receipt is taken for unpaid. *)
FaultReleaseUnseen(p) ==
    \/ row[p].state = "spending_reserved"
    \/ row[p].state = "payment_submitted" /\ row[p].review /\ fate[p] \notin Mined

(* What release_reservation does not refuse. *)
Releasable(p) == row[p].state = "spending_reserved"

ReleaseReservation(p) ==
    /\ Releasable(p)
    /\ ReleaseBudget(p)
    /\ Update(p, [row[p] EXCEPT !.state = "released", !.accounting = "released"])
    /\ UNCHANGED <<now, bound, nextNonce, chain, identity, worker>>

(* A worker stops: it crashes, a check refuses, or a call raises. *)
Abandon(w) ==
    /\ worker[w].pc # "idle"
    /\ Become(w, IdleWorker)
    /\ UNCHANGED <<now, ledger, chain, identity>>

-----------------------------------------------------------------------------
OwnerStep ==
    \/ \E g \in Grant :
          \/ \E l \in Limits : CreateGrant(g, l) \/ ReduceGrant(g, l) \/ AmendGrant(g, l)
          \/ PauseGrant(g) \/ ResumeGrant(g) \/ RevokeGrant(g) \/ ExpireGrant(g)
          \/ BindGrant(g)
    \/ RevokeIdentity
    \/ PrepareDisconnect
    \/ DisconnectWallet

ChainStep ==
    \/ \E p \in Purchase : (\E verdict \in Mined : Mine(p, verdict)) \/ Reorganise(p) \/ Drop(p)
    \/ BecomeFinal
    \/ \E g \in Grant : RevokeOnChain(g)

WorkerStep(w) ==
    \/ \E p \in Purchase :
          \/ \E g \in Grant : ReserveBegin(w, p, g)
          \/ Settle(w, p)
          \/ Recover(w, p)
          \/ \E operator \in BOOLEAN : ReconcileBegin(w, p, operator)
    \/ Reserve(w) \/ ReserveReplay(w) \/ PinRail(w)
    \/ ClaimBroadcast(w) \/ BroadcastClaimed(w)
    \/ \E taken \in BOOLEAN, outcome \in {"broadcasted", "ambiguous"} : Send(w, taken, outcome)
    \/ RecordBroadcast(w)
    \/ ReconcileLimit(w) \/ ReconcileAttempt(w)
    \/ Verify(w) \/ VerifyFails(w)
    \/ CompleteSettled(w) \/ MarkUnpaid(w) \/ StayPending(w)
    \/ Abandon(w)

Next ==
    \/ Tick
    \/ OwnerStep
    \/ ChainStep
    \/ \E w \in Worker : WorkerStep(w)
    \/ \E p \in Purchase : FinalizeReservation(p) \/ ReleaseReservation(p)

Spec == Init /\ [][Next]_vars

(* The marketplace worker asks for the reconciliation of every submitted   *)
(* payment again and again, an operator of those under review; a request   *)
(* may die, but not every time.                                            *)
Working(p, A(_)) == \E w \in Worker : worker[w].job = p /\ A(w)

Reconciles(p) ==
    /\ SF_vars(\E w \in Worker : ReconcileBegin(w, p, FALSE))
    /\ SF_vars(\E w \in Worker : ReconcileBegin(w, p, TRUE))
    /\ SF_vars(Working(p, ReconcileLimit))
    /\ SF_vars(Working(p, LAMBDA w : worker[w].operator /\ ReconcileAttempt(w)))
    /\ SF_vars(Working(p, LAMBDA w : ~worker[w].operator /\ ReconcileAttempt(w)))
    /\ SF_vars(Working(p, Verify))
    /\ SF_vars(Working(p, CompleteSettled))
    /\ SF_vars(Working(p, MarkUnpaid))

(* Every request that has begun is answered or dies. *)
Ends(w) == WF_vars(worker[w].pc # "idle" /\ WorkerStep(w))

FairSpec ==
    /\ Spec
    /\ \A p \in Purchase : Reconciles(p)
    /\ \A w \in Worker : Ends(w)

-----------------------------------------------------------------------------
(* Every variable has its type; in particular no amount becomes negative   *)
(* when two requests settle or release one reservation.                    *)
TypeOK ==
    /\ now \in Nat
    /\ identity \in {"active", "suspended", "revoked"}
    /\ grant \in [Grant -> GrantRow]
    /\ usage \in [Grant -> [Days -> [used : Nat, reserved : Nat]]]
    /\ bound \in [Grant -> LimitRecord \cup {NoLimits}]
    /\ row \in [Purchase -> Reservation]
    /\ nextNonce \in Nat
    /\ worker \in [Worker -> WorkerState]
    /\ fate \in [Purchase -> {"unsent", "pool", "dropped"} \cup Mined]
    /\ count \in Nat
    /\ final \in Nat
    /\ stopped \in SUBSET Grant

Held(g, state) == {p \in Purchase : row[p].grant = g /\ row[p].accounting = state}

(* The totals of a grant and of its usage dates are those of the           *)
(* reservations under it, however reserve, settle, revert and release      *)
(* interleave, and whichever day they happen on.                           *)
LedgerMatchesReservations ==
    \A g \in Grant :
        /\ grant[g].reserved = Total(Held(g, "reserved"))
        /\ grant[g].used = Total(Held(g, "settled"))
        /\ \A d \in Days :
              /\ usage[g][d].reserved = Total({p \in Held(g, "reserved") : row[p].at \div Day = d})
              /\ usage[g][d].used = Total({p \in Held(g, "settled") : row[p].at \div Day = d})

(* What is used and reserved under a grant stays within its total, through *)
(* amendments and reductions too.                                          *)
CommittedWithinTotal ==
    \A g \in Grant : grant[g].status # "none" => Committed(g) <= grant[g].limits.max

(* No rolling hour that contains a new reservation exceeds the hourly      *)
(* limit, although requests commit in another order than they read the     *)
(* clock.                                                                  *)
RollingHourBounded ==
    [][\A p \in Purchase :
          row[p].state = "none" /\ row'[p].state # "none" =>
              \A t \in row'[p].at .. row'[p].at + Hour - 1 :
                  LET InHour == {q \in Purchase :
                                    /\ row'[q].grant = row'[p].grant
                                    /\ row'[q].accounting \in {"reserved", "settled"}
                                    /\ t < row'[q].at + Hour
                                    /\ row'[q].at <= t}
                  IN  Total(InHour) <= grant[row'[p].grant].limits.hourly]_vars

(* A purchase whose transaction may still be mined, or has paid, keeps its *)
(* share of the budget: it is never released and reused.                   *)
PaidIsHeld ==
    \A p \in Purchase :
        fate[p] \in {"pool", "paid"} => row[p].accounting \in {"reserved", "settled"}

(* What Core says agrees with the final chain. *)
VerdictMatchesChain ==
    \A p \in Purchase :
        /\ row[p].state \in {"settled", "finalized"} => fate[p] = "paid" /\ row[p].nonce < final
        /\ row[p].state = "unpaid_terminal" => fate[p] = "reverted" /\ row[p].nonce < final

(* An attempt is handed to the network once: whoever is about to send it   *)
(* is alone, and it was not sent before, not even by a request that died   *)
(* (recovery after the broadcasting claim only verifies).                  *)
SentOnce ==
    \A w \in Worker :
        worker[w].pc = "send" =>
            /\ fate[worker[w].job] = "unsent"
            /\ \A v \in Worker : v # w /\ worker[v].job = worker[w].job => worker[v].pc # "send"

(* No two attempts share a relayer nonce. *)
NoncesDistinct ==
    \A p, q \in Purchase :
        row[p].send # "none" /\ row[q].send # "none" /\ p # q => row[p].nonce # row[q].nonce

(* The contract's own total never stands in the way of what Core has sent. *)
ContractHasRoom ==
    \A p \in Purchase :
        fate[p] = "pool" => Spent(row[p].grant) + Amount[p] <= bound[row[p].grant].max

(* Revocation is final: the grant stays revoked, whatever is settled or    *)
(* released under it later, and no further attempt is claimed for sending. *)
RevokedIsFinal ==
    [][\A g \in Grant :
          grant[g].status = "revoked" =>
              /\ grant'[g].status = "revoked"
              /\ \A p \in Purchase :
                    row'[p].grant = g /\ row'[p].send = "broadcasting"
                        => row[p].send = "broadcasting"]_vars

(* What an observer sees of a purchase: its budget, and whether its money  *)
(* has moved or may move.                                                  *)
Budget == [p \in Purchase |-> row[p].accounting]
Money == [p \in Purchase |-> CASE fate[p] = "pool" -> "sent"
                                [] fate[p] = "paid" -> "moved"
                                [] OTHER -> "idle"]

Promise == INSTANCE HeldPayment WITH Payment <- Purchase, budget <- Budget, money <- Money

(* Seen from outside, a purchase is a held payment: what its budget stood  *)
(* for moves at most once, while it is held, and decides what becomes of   *)
(* the budget.                                                             *)
HoldsPayments == Promise!Spec

(* Submitted transactions are reconciled: once the chain has decided for   *)
(* good, Core settles the reservation or frees its budget.                 *)
DecidedIsReconciled ==
    \A p \in Purchase :
        row[p].state = "payment_submitted" /\ ChainEvidence(p) # "none"
            ~> row[p].state # "payment_submitted"
=============================================================================
