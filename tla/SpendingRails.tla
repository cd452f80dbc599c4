--------------------------- MODULE SpendingRails ---------------------------
(***************************************************************************)
(* Core's own payment rails (funding_service/service.py): a spending       *)
(* reservation is settled by pulling the amount from the user's allowance  *)
(* (native_allowance), by a payment that the user's wallet signs           *)
(* (external_x402), or in two legs through the Clink payer                 *)
(* (clink_payer_proxy): pull from the user, then pay the merchant with an  *)
(* EIP-3009 authorization.                                                 *)
(*                                                                         *)
(* A transaction of the ledger holds the global funding lock and is one    *)
(* step, with the network calls made inside it.  A worker is a request     *)
(* between two such steps; it may die there (Abandon).  Policy, risk and   *)
(* allowance checks that refuse a request leave everything as it was, save *)
(* the two that block a transaction before it is sent.                     *)
(***************************************************************************)
EXTENDS Integers, FiniteSets

CONSTANTS
    Reservation,
    AuthorizationRail,  \* authorization_rail of each reservation
    SingleSubmission,   \* reservations of prediction_markets
    Worker,             \* requests being served
    Copy,               \* gas prices of a pull; transactions carrying one authorization
    MaxNonce,           \* bound on relayer nonces
    MaxGeneration,      \* bound on authorizations signed for one reservation
    MaxAttempts,        \* payment_reconciliation_max_attempts
    RejectionIsFinal,   \* a node never accepts what it has rejected
    Together,           \* which reservations are open at the same time
    NoTx,
    NoJob

Rail == {"native_allowance", "external_x402", "clink_payer_proxy"}

ASSUME RailsAssumption ==
    /\ AuthorizationRail \in [Reservation -> Rail]
    /\ SingleSubmission \subseteq {r \in Reservation : AuthorizationRail[r] = "native_allowance"}
    /\ MaxNonce \in Nat
    /\ MaxGeneration \in Nat \ {0}
    /\ MaxAttempts \in Nat
    /\ RejectionIsFinal \in BOOLEAN
    /\ Together \subseteq SUBSET Reservation
    /\ NoJob \notin Reservation

(* A pull carries the relayer's nonce in id, a payment to the merchant the  *)
(* generation of the authorization it spends.  Transactions with the same   *)
(* fields have the same hash.                                              *)
Tx == [r : Reservation, leg : {"pull", "pay"}, id : Nat, copy : Copy]

ASSUME TxAssumption == NoTx \notin Tx

VARIABLES
    row,        \* the reservation rows of the funding ledger
    nextNonce,  \* next_nonce of the relayer's allocator row
    worker,     \* program counter and local variables of each request
    pool,       \* transactions waiting to be mined
    ok,         \* transactions mined with success
    failed,     \* transactions mined and reverted
    confirmed,  \* mined transactions with native_min_confirmations
    count,      \* transactions of the relayer that were mined
    refused,    \* transactions that a node definitely rejected
    handed,     \* authorizations that a merchant or wallet was given
    expired     \* authorizations past valid_before: by Core's clock, by the chain's

ledger == <<row, nextNonce>>
chain == <<pool, ok, failed, confirmed, count, refused, handed, expired>>
vars == <<ledger, chain, worker>>

NoNonce == -1

Row ==
    [state : {"spending_reserved", "proxy_authorization_ready", "payment_submitted",
              "payer_funded", "proxy_payment_ready", "settled", "finalized", "released"},
     rail : {"none", "pull", "pay"},     \* settlement_rail: a pull, or a proven payment
     tx : Tx \cup {NoTx},                \* tx_hash
     pull : Tx \cup {NoTx},              \* reimbursement_tx_hash
     nonce : Int,                        \* settlement_nonce
     auth : Nat,                         \* generation of payment_payload, 0 if cleared
     signed : Nat,                       \* authorizations signed so far
     risk : {"none", "pending", "ready", "blocked"},   \* risk_prebroadcast_state
     status : {"none", "pending", "retryable", "settled", "manual_review_required", "failed"},
     attempts : Nat,                     \* reconciliation_attempts
     sealed : BOOLEAN,                   \* replacement_forbidden
     budget : {"reserved", "settled", "released"}]

NewRow(r) ==
    [state |-> "spending_reserved", rail |-> "none", tx |-> NoTx, pull |-> NoTx,
     nonce |-> NoNonce,
     auth |-> IF AuthorizationRail[r] = "external_x402" THEN 1 ELSE 0,
     signed |-> IF AuthorizationRail[r] = "external_x402" THEN 1 ELSE 0,
     risk |-> "none", status |-> "none", attempts |-> 0, sealed |-> FALSE,
     budget |-> "reserved"]

ClosedRow(r) == [NewRow(r) EXCEPT !.state = "released", !.budget = "released", !.auth = 0]

PC == {"idle", "authorize", "send", "rejected", "reconcile", "lookup", "resend", "complete",
       "reverted", "pend", "review"}
Local == [pc : PC, job : Reservation \cup {NoJob}, tx : Tx \cup {NoTx},
          operator : BOOLEAN, rail : {"none", "pull", "pay"}]
Idle == [pc |-> "idle", job |-> NoJob, tx |-> NoTx, operator |-> FALSE, rail |-> "none"]

Init ==
    /\ \E open \in Together :
          row = [r \in Reservation |-> IF r \in open THEN NewRow(r) ELSE ClosedRow(r)]
    /\ nextNonce = 0
    /\ worker = [w \in Worker |-> Idle]
    /\ pool = {} /\ ok = {} /\ failed = {} /\ confirmed = {} /\ refused = {}
    /\ count = 0
    /\ handed = {}
    /\ expired = [core |-> {}, chain |-> {}]

mined == ok \cup failed
Auth(r) == <<r, row[r].auth>>
Spends(t) == <<t.r, t.id>>
Consumed(a) == \E t \in ok : t.leg = "pay" /\ Spends(t) = a
Proxy(r) == AuthorizationRail[r] = "clink_payer_proxy"

Put(r, new) == row' = [row EXCEPT ![r] = new]
Become(w, s) == worker' = [worker EXCEPT ![w] = s]
Goto(w, pc) == Become(w, [worker[w] EXCEPT !.pc = pc])
ThenReconcile(w) == Become(w, [Idle EXCEPT !.pc = "reconcile", !.job = worker[w].job])
Found(w, pc) ==
    Become(w, [Idle EXCEPT !.pc = pc, !.job = worker[w].job, !.tx = row[worker[w].job].tx])
Return(w) == Become(w, Idle)

(* _same_pending_payment: the row still waits for the worker's transaction. *)
FaultSamePending(w) == row[worker[w].job].state = "payment_submitted"
SamePending(w) ==
    LET r == worker[w].job IN row[r].state = "payment_submitted" /\ row[r].tx = worker[w].tx
PutIfPending(w, new) ==
    IF SamePending(w) THEN Put(worker[w].job, new) ELSE UNCHANGED row

-----------------------------------------------------------------------------
(* prepare_proxy_payment: sign an authorization, or another one once the    *)
(* last has expired.  One that was funded may have reached the merchant and *)
(* is only replaced when the finalized chain shows that it was never used.  *)
RotationSafe(r) == Auth(r) \in expired.chain /\ ~ Consumed(Auth(r))
FaultMaySign(r) ==
    \/ row[r].state \in {"spending_reserved", "payer_funded"}
    \/ row[r].state \in {"proxy_authorization_ready", "proxy_payment_ready"}
       /\ Auth(r) \in expired.core
MaySign(r) ==
    \/ row[r].state \in {"spending_reserved", "payer_funded"}
    \/ row[r].state = "proxy_authorization_ready" /\ Auth(r) \in expired.core
    \/ row[r].state = "proxy_payment_ready" /\ Auth(r) \in expired.core /\ RotationSafe(r)
FaultSignedState(r) == "proxy_payment_ready"
SignedState(r) ==
    IF row[r].state \in {"payer_funded", "proxy_payment_ready"} THEN "proxy_payment_ready"
    ELSE "proxy_authorization_ready"

PrepareProxyPayment(r) ==
    /\ Proxy(r)
    /\ MaySign(r)
    /\ row[r].signed < MaxGeneration
    /\ Put(r, [row[r] EXCEPT
          !.state = SignedState(r),
          !.auth = row[r].signed + 1,
          !.signed = row[r].signed + 1])
    /\ UNCHANGED <<nextNonce, chain, worker>>

(* settle_reservation.  allocate_relayer_nonce keeps a nonce the row owns. *)
SettleState(r) == IF Proxy(r) THEN "proxy_authorization_ready" ELSE "spending_reserved"
PendingNonce == CHOOSE n \in count .. MaxNonce + 1 :
    /\ \A k \in count .. n - 1 : \E t \in pool : t.leg = "pull" /\ t.id = k
    /\ ~ \E t \in pool : t.leg = "pull" /\ t.id = n
AllocatedNonce(r) ==
    IF row[r].nonce # NoNonce THEN row[r].nonce
    ELSE IF nextNonce > PendingNonce THEN nextNonce ELSE PendingNonce

Settle(w, r, c) ==
    LET t == [r |-> r, leg |-> "pull", id |-> AllocatedNonce(r), copy |-> c] IN
    /\ worker[w].pc = "idle"
    /\ AuthorizationRail[r] # "external_x402"
    /\ row[r].state = SettleState(r)
    /\ ~ row[r].sealed
    /\ t.id \in 0 .. MaxNonce
    /\ Put(r, [row[r] EXCEPT !.state = "payment_submitted", !.rail = "pull", !.tx = t,
                             !.nonce = t.id, !.risk = "pending", !.status = "pending",
                             !.attempts = 0])
    /\ nextNonce' = IF row[r].nonce # NoNonce THEN nextNonce ELSE t.id + 1
    /\ Become(w, [pc |-> "authorize", job |-> r, tx |-> t, operator |-> FALSE, rail |-> "pull"])
    /\ UNCHANGED chain

Blocked(r) == [row[r] EXCEPT !.risk = "blocked", !.status = "manual_review_required"]

(* _authorize_native_broadcast *)
AuthorizeBroadcast(w) ==
    LET r == worker[w].job IN
    /\ worker[w].pc = "authorize"
    /\ IF SamePending(w) /\ row[r].risk = "pending"
       THEN Put(r, [row[r] EXCEPT !.risk = "ready"]) /\ Goto(w, "send")
       ELSE Return(w) /\ UNCHANGED row
    /\ UNCHANGED <<nextNonce, chain>>

RefuseBroadcast(w) ==
    /\ worker[w].pc = "authorize"
    /\ PutIfPending(w, Blocked(worker[w].job))
    /\ Return(w)
    /\ UNCHANGED <<nextNonce, chain>>

(* eth_sendRawTransaction: what a node may answer. *)
Acceptable(t) ==
    /\ t \notin pool \cup mined
    /\ t.id >= count
    /\ ~ \E u \in pool : u.leg = "pull" /\ u.id = t.id
    /\ RejectionIsFinal => t \notin refused

(* _send_native_raw_transaction, first sent by settle_reservation or sent   *)
(* again by _reconcile_native_reservation. *)
Sendable(w) == SamePending(w) /\ row[worker[w].job].risk \notin {"pending", "blocked"}

SendDropped(w) ==
    /\ worker[w].pc \in {"send", "resend"}
    /\ ~ Sendable(w)
    /\ Return(w)
    /\ UNCHANGED <<ledger, chain>>

SendBlocked(w) ==
    /\ worker[w].pc \in {"send", "resend"}
    /\ Sendable(w)
    /\ Put(worker[w].job, Blocked(worker[w].job))
    /\ Return(w)
    /\ UNCHANGED <<nextNonce, chain>>

SendAccepted(w) ==
    /\ worker[w].pc \in {"send", "resend"}
    /\ Sendable(w)
    /\ Acceptable(worker[w].tx)
    /\ pool' = pool \cup {worker[w].tx}
    /\ IF worker[w].pc = "send" THEN ThenReconcile(w)
       ELSE \E answer \in {"pend", "review"} : Goto(w, answer)
    /\ UNCHANGED <<ledger, ok, failed, confirmed, count, refused, handed, expired>>

SendUnanswered(w) ==
    /\ worker[w].pc \in {"send", "resend"}
    /\ Sendable(w)
    /\ IF worker[w].pc = "send" THEN ThenReconcile(w) ELSE Goto(w, "review")
    /\ UNCHANGED <<ledger, chain>>

SendRejected(w) ==
    /\ worker[w].pc \in {"send", "resend"}
    /\ Sendable(w)
    /\ worker[w].tx \notin pool \cup mined
    /\ refused' = refused \cup {worker[w].tx}
    /\ Goto(w, IF worker[w].pc = "send" THEN "rejected" ELSE "review")
    /\ UNCHANGED <<ledger, pool, ok, failed, confirmed, count, handed, expired>>

(* _retryable_reservation: the attempt failed for certain.  A rejected one  *)
(* keeps its nonce, so that its replacement excludes it. *)
Retryable(r, keepNonce) ==
    IF r \in SingleSubmission
    THEN [row[r] EXCEPT !.state = "spending_reserved", !.status = "failed", !.sealed = TRUE]
    ELSE [row[r] EXCEPT !.state = "spending_reserved", !.status = "retryable", !.tx = NoTx,
                        !.rail = "none",
                        !.nonce = IF keepNonce THEN @ ELSE NoNonce,
                        !.auth = IF Proxy(r) THEN 0 ELSE @]
Rejected(w) ==
    /\ worker[w].pc = "rejected"
    /\ PutIfPending(w, Retryable(worker[w].job, TRUE))
    /\ Return(w)
    /\ UNCHANGED <<nextNonce, chain>>

-----------------------------------------------------------------------------
(* finalize_external_payment, finalize_proxy_payment: a payment that is     *)
(* visible on the chain and spends the row's authorization is bound. *)
ProvenState(r) == IF Proxy(r) THEN "proxy_payment_ready" ELSE "spending_reserved"
ProofMatches(r, t) == t.leg = "pay" /\ Spends(t) = Auth(r)

FinalizePayment(w, r, t) ==
    /\ worker[w].pc = "idle"
    /\ AuthorizationRail[r] # "native_allowance"
    /\ t \in pool \cup mined
    /\ ProofMatches(r, t)
    /\ \/ /\ row[r].state = ProvenState(r)
          /\ Put(r, [row[r] EXCEPT !.state = "payment_submitted", !.rail = "pay", !.tx = t,
                                   !.status = "pending", !.attempts = 0])
       \/ /\ row[r].state = "payment_submitted" /\ row[r].rail = "pay" /\ row[r].tx = t
          /\ UNCHANGED row
    /\ Become(w, [Idle EXCEPT !.pc = "reconcile", !.job = r])
    /\ UNCHANGED <<nextNonce, chain>>

(* finalize_reservation *)
FinalizeReservation(r) ==
    /\ row[r].state = "settled"
    /\ Put(r, [row[r] EXCEPT !.state = "finalized"])
    /\ UNCHANGED <<nextNonce, chain, worker>>

(* release_reservation *)
FaultReleasable(r) ==
    row[r].state \notin {"payer_funded", "proxy_payment_ready", "settled", "finalized",
                         "released"}
Releasable(r) ==
    row[r].state \notin {"payment_submitted", "payer_funded", "proxy_payment_ready", "settled",
                         "finalized", "released"}

ReleaseReservation(r) ==
    /\ Releasable(r)
    /\ Put(r, [row[r] EXCEPT !.state = "released", !.budget = "released"])
    /\ UNCHANGED <<nextNonce, chain, worker>>

-----------------------------------------------------------------------------
(* reconcile_reservation, which settle_reservation also ends in when the    *)
(* payment is already submitted.  The row is left alone while its risk      *)
(* check is pending or has failed. *)
RiskHeld(r) == row[r].risk \in {"pending", "blocked"}

StartReconcile(w, r, operator) ==
    /\ worker[w].pc = "idle"
    /\ row[r].state = "payment_submitted"
    /\ Become(w, [Idle EXCEPT !.pc = "reconcile", !.job = r, !.operator = operator])
    /\ UNCHANGED <<ledger, chain>>

(* Rows that wait for nothing are only marked. *)
MarkReconciled(r) ==
    /\ ~ RiskHeld(r)
    /\ \/ /\ row[r].state \in {"settled", "finalized", "payer_funded", "proxy_payment_ready"}
          /\ row[r].status # "settled"
          /\ Put(r, [row[r] EXCEPT !.status = "settled"])
       \/ /\ row[r].state = "spending_reserved"
          /\ ~ row[r].sealed
          /\ row[r].status # "retryable"
          /\ Put(r, [row[r] EXCEPT !.status = "retryable"])
    /\ UNCHANGED <<nextNonce, chain, worker>>

Reconcile(w) ==
    LET r == worker[w].job IN
    /\ worker[w].pc = "reconcile"
    /\ IF \/ RiskHeld(r)
          \/ row[r].state # "payment_submitted"
          \/ row[r].status = "manual_review_required" /\ ~ worker[w].operator
       THEN Return(w) /\ UNCHANGED row
       ELSE IF ~ worker[w].operator /\ row[r].attempts >= MaxAttempts
       THEN Put(r, [row[r] EXCEPT !.status = "manual_review_required"]) /\ Return(w)
       ELSE /\ Put(r, [row[r] EXCEPT !.attempts = IF worker[w].operator THEN @ ELSE @ + 1])
            /\ Become(w, [worker[w] EXCEPT !.pc = "lookup", !.rail = row[r].rail])
    /\ UNCHANGED <<nextNonce, chain>>

(* The age limit of automatic reconciliation. *)
ReconcileTooOld(w) ==
    LET r == worker[w].job IN
    /\ worker[w].pc = "reconcile"
    /\ ~ worker[w].operator
    /\ ~ RiskHeld(r)
    /\ row[r].state = "payment_submitted"
    /\ Put(r, [row[r] EXCEPT !.status = "manual_review_required"])
    /\ Return(w)
    /\ UNCHANGED <<nextNonce, chain>>

(* What the chain says of t.  A pull that is nowhere is sent again.  A row  *)
(* that went on to its other leg in between does not match its receipt. *)
FaultVerdict(w, t) ==
    LET still == IF worker[w].operator THEN "review" ELSE "pend" IN
    CASE t \in ok -> "complete"
      [] t \in failed -> "reverted"
      [] t \in pool -> still
      [] OTHER -> IF worker[w].rail = "pay" THEN still
                  ELSE IF t.leg = "pull" THEN "resend" ELSE "review"
Verdict(w, t) ==
    LET still == IF worker[w].operator THEN "review" ELSE "pend" IN
    IF t \in mined /\ t.leg # worker[w].rail THEN "review"
    ELSE CASE t \in ok \cap confirmed -> "complete"
           [] t \in failed \cap confirmed -> "reverted"
           [] t \in (mined \ confirmed) \cup pool -> still
           [] OTHER -> IF worker[w].rail = "pay" THEN still
                       ELSE IF t.leg = "pull" THEN "resend" ELSE "review"

Lookup(w) ==
    LET t == row[worker[w].job].tx IN
    /\ worker[w].pc = "lookup"
    /\ IF t = NoTx THEN Return(w) ELSE Found(w, Verdict(w, t))
    /\ UNCHANGED <<ledger, chain>>

(* The network does not answer, or payments are switched off. *)
LookupFails(w) ==
    /\ worker[w].pc = "lookup"
    /\ row[worker[w].job].tx # NoTx
    /\ \E pc \in {"pend", "review"} :
          /\ worker[w].operator => pc = "review"
          /\ Found(w, pc)
    /\ UNCHANGED <<ledger, chain>>

(* _pending_reservation *)
StayPending(w) ==
    LET r == worker[w].job IN
    /\ worker[w].pc \in {"pend", "review"}
    /\ PutIfPending(w, [row[r] EXCEPT !.status = IF worker[w].pc = "review"
                                                 THEN "manual_review_required" ELSE "pending"])
    /\ Return(w)
    /\ UNCHANGED <<nextNonce, chain>>

(* _complete_native_reservation, end of _reconcile_external_reservation *)
Completed(r) ==
    IF Proxy(r) /\ row[r].rail = "pull"
    THEN [row[r] EXCEPT !.state = IF row[r].auth # 0 THEN "proxy_payment_ready" ELSE "payer_funded",
                        !.pull = row[r].tx, !.status = "settled", !.budget = "settled"]
    ELSE [row[r] EXCEPT !.state = "settled", !.status = "settled", !.budget = "settled"]

Complete(w) ==
    /\ worker[w].pc = "complete"
    /\ PutIfPending(w, Completed(worker[w].job))
    /\ Return(w)
    /\ UNCHANGED <<nextNonce, chain>>

(* A confirmed revert: _retryable_reservation, _retryable_proxy_payment. *)
Unpaid(r) ==
    IF Proxy(r) /\ row[r].rail = "pay"
    THEN [row[r] EXCEPT !.state = "payer_funded", !.status = "retryable", !.tx = row[r].pull,
                        !.rail = "pull", !.auth = 0]
    ELSE Retryable(r, FALSE)

Reverted(w) ==
    /\ worker[w].pc = "reverted"
    /\ PutIfPending(w, Unpaid(worker[w].job))
    /\ Return(w)
    /\ UNCHANGED <<nextNonce, chain>>

(* A request dies with its process. *)
Abandon(w) ==
    /\ worker[w].pc # "idle"
    /\ Return(w)
    /\ UNCHANGED <<ledger, chain>>

-----------------------------------------------------------------------------
(* Wallets, merchants and the chain.                                       *)

(* The user's wallet signs the reservation's challenge; Marketplace gives a *)
(* merchant the payer's authorization once Core reports the payer funded. *)
HandOver(r) ==
    /\ \/ AuthorizationRail[r] = "external_x402"
       \/ Proxy(r) /\ row[r].state = "proxy_payment_ready"
    /\ row[r].auth # 0
    /\ Auth(r) \notin handed \cup expired.core
    /\ handed' = handed \cup {Auth(r)}
    /\ UNCHANGED <<ledger, worker, pool, ok, failed, confirmed, count, refused, expired>>

(* A merchant, or anyone it showed the authorization to, may send it again  *)
(* in another transaction after a revert.                                  *)
MerchantSends(t) ==
    /\ t.leg = "pay"
    /\ Spends(t) \in handed
    /\ t \notin pool \cup mined
    /\ \A u \in pool \cup mined : u.leg = "pay" /\ Spends(u) = Spends(t) => u \in failed
    /\ pool' = pool \cup {t}
    /\ UNCHANGED <<ledger, worker, ok, failed, confirmed, count, refused, handed, expired>>

Mine(t) ==
    /\ t \in pool
    /\ t.leg = "pull" => t.id = count
    /\ \/ /\ t.leg = "pay" => ~ Consumed(Spends(t)) /\ Spends(t) \notin expired.chain
          /\ ok' = ok \cup {t}
          /\ UNCHANGED failed
       \/ failed' = failed \cup {t} /\ UNCHANGED ok
    /\ pool' = pool \ {t}
    /\ count' = IF t.leg = "pull" THEN count + 1 ELSE count
    /\ UNCHANGED <<ledger, worker, confirmed, refused, handed, expired>>

(* Blocks below native_min_confirmations may be replaced. *)
Reorganise(t) ==
    /\ t \in mined \ confirmed
    /\ t.leg = "pull" => t.id = count - 1
    /\ ok' = ok \ {t}
    /\ failed' = failed \ {t}
    /\ pool' = pool \cup {t}
    /\ count' = IF t.leg = "pull" THEN count - 1 ELSE count
    /\ UNCHANGED <<ledger, worker, confirmed, refused, handed, expired>>

Confirm(t) ==
    /\ t \in mined \ confirmed
    /\ \A u \in mined \ confirmed : u.leg = "pull" /\ t.leg = "pull" => t.id <= u.id
    /\ confirmed' = confirmed \cup {t}
    /\ UNCHANGED <<ledger, worker, pool, ok, failed, count, refused, handed, expired>>

Drop(t) ==
    /\ t \in pool
    /\ pool' = pool \ {t}
    /\ UNCHANGED <<ledger, worker, ok, failed, confirmed, count, refused, handed, expired>>

(* valid_before passes on Core's clock, then in the finalized chain, where  *)
(* nothing that spends the authorization is then still unconfirmed. *)
Expire(r) ==
    /\ row[r].auth # 0
    /\ \/ /\ Auth(r) \notin expired.core
          /\ expired' = [expired EXCEPT !.core = @ \cup {Auth(r)}]
       \/ /\ Auth(r) \in expired.core \ expired.chain
          /\ \A t \in mined : t.leg = "pay" /\ Spends(t) = Auth(r) => t \in confirmed
          /\ expired' = [expired EXCEPT !.chain = @ \cup {Auth(r)}]
    /\ UNCHANGED <<ledger, worker, pool, ok, failed, confirmed, count, refused, handed>>

-----------------------------------------------------------------------------
BoundedTx == [r : Reservation, leg : {"pull"}, id : 0 .. MaxNonce, copy : Copy]
             \cup [r : Reservation, leg : {"pay"}, id : 1 .. MaxGeneration, copy : Copy]

Request(w, r) ==
    \/ \E c \in Copy : Settle(w, r, c)
    \/ \E t \in pool \cup mined : FinalizePayment(w, r, t)
    \/ \E operator \in BOOLEAN : StartReconcile(w, r, operator)

Continue(w) ==
    \/ AuthorizeBroadcast(w)
    \/ RefuseBroadcast(w)
    \/ SendDropped(w)
    \/ SendBlocked(w)
    \/ SendAccepted(w)
    \/ SendUnanswered(w)
    \/ SendRejected(w)
    \/ Rejected(w)
    \/ Reconcile(w)
    \/ ReconcileTooOld(w)
    \/ Lookup(w)
    \/ LookupFails(w)
    \/ StayPending(w)
    \/ Complete(w)
    \/ Reverted(w)

Network ==
    \/ \E t \in BoundedTx : MerchantSends(t)
    \/ \E t \in pool \cup mined : Mine(t) \/ Reorganise(t) \/ Confirm(t) \/ Drop(t)

Next ==
    \/ \E w \in Worker, r \in Reservation : Request(w, r)
    \/ \E w \in Worker : Continue(w) \/ Abandon(w)
    \/ \E r \in Reservation : \/ PrepareProxyPayment(r)
                              \/ MarkReconciled(r)
                              \/ FinalizeReservation(r)
                              \/ ReleaseReservation(r)
                              \/ HandOver(r)
                              \/ Expire(r)
    \/ Network

Spec == Init /\ [][Next]_vars

-----------------------------------------------------------------------------
(* The type of every variable. *)
TypeOK ==
    /\ row \in [Reservation -> Row]
    /\ nextNonce \in Nat
    /\ worker \in [Worker -> Local]
    /\ pool \subseteq Tx /\ ok \subseteq Tx /\ failed \subseteq Tx
    /\ confirmed \subseteq ok \cup failed
    /\ refused \subseteq Tx
    /\ count \in Nat
    /\ handed \subseteq Reservation \X Nat
    /\ expired \in [core : SUBSET (Reservation \X Nat), chain : SUBSET (Reservation \X Nat)]

Pulls(r) == {t \in ok : t.r = r /\ t.leg = "pull"}
Payments(r) == {t \in ok : t.r = r /\ t.leg = "pay"}

(* An authorization whose transaction has reverted for good: it may still   *)
(* be good for another one. *)
Outlived(a) == \E t \in failed \cap confirmed : t.leg = "pay" /\ Spends(t) = a

(* universal-payer-design.md: "must never pull the user amount twice".  At  *)
(* most one pull per reservation succeeds, over rejected, replaced and      *)
(* rebroadcast attempts; and of two merchant payments, over expired and     *)
(* renewed authorizations, one spends an authorization that had already     *)
(* reverted for good: after a revert prepare_proxy_payment signs a new one  *)
(* without waiting for the old one to expire. *)
PaidOnce == \A r \in Reservation :
    /\ Cardinality(Pulls(r)) <= 1
    /\ \A t, u \in Payments(r) : t # u => Outlived(Spends(t)) \/ Outlived(Spends(u))

(* A budget is booked as spent only when the money has moved for good, and  *)
(* a reservation is settled only when the merchant has it for good. *)
SettledIsPaid ==
    \A r \in Reservation :
        /\ row[r].budget = "settled" /\ AuthorizationRail[r] # "external_x402" =>
              Pulls(r) \cap confirmed # {}
        /\ row[r].state \in {"settled", "finalized"} /\ AuthorizationRail[r] # "native_allowance" =>
              Payments(r) \cap confirmed # {}

(* The Clink payer never pays a merchant before the user's money arrived. *)
PayerIsFunded ==
    \A t \in ok \cup pool : t.leg = "pay" /\ Proxy(t.r) => Pulls(t.r) \cap confirmed # {}

(* A pull that may still be mined is the one its row is waiting for. *)
InFlightIsTracked ==
    \A t \in pool \cup (ok \ confirmed) : t.leg = "pull" =>
        row[t.r].state = "payment_submitted" /\ row[t.r].tx = t

(* Seen from outside, an allowance-backed reservation is a held payment. *)
AllowanceBacked == {r \in Reservation : AuthorizationRail[r] # "external_x402"}
Budget == [r \in AllowanceBacked |-> row[r].budget]
Money == [r \in AllowanceBacked |->
             IF Pulls(r) # {} THEN "moved"
             ELSE IF \E t \in pool : t.r = r /\ t.leg = "pull" THEN "sent" ELSE "idle"]
Promise == INSTANCE HeldPayment WITH
    Payment <- AllowanceBacked, budget <- Budget, money <- Money
HoldsPayments == Promise!Spec
=============================================================================
