------------------------------ MODULE Purchase ------------------------------
(***************************************************************************)
(* A purchase of Marketplace (purchase_service.py) from its preview to a   *)
(* terminal state, on any of its three rails: Core pulls the price from    *)
(* the user's allowance (clink_allowance); Core pulls it and the Clink     *)
(* payer pays the merchant (clink_payer_proxy); the user's wallet pays the *)
(* merchant (external_x402_signature).                                     *)
(*                                                                         *)
(* A request owns the row while its token is on it; the lease on the token *)
(* may run out under a slow request, whose later writes must then fail.    *)
(* Each step of a request ends at a write of the row or at a call of Core  *)
(* or the merchant, and the request may end there: its process dies, or a  *)
(* call raises something that nobody catches.  Rows of different purchases *)
(* share nothing, so there is one.                                         *)
(***************************************************************************)
EXTENDS Naturals

CONSTANTS
    Request,    \* requests and passes of the worker; also their claim tokens
    Scenario,   \* pairs of an execution_mode and a set of things that may change
    MaxFailed,  \* bound on merchant payments that revert
    NoToken

Mode == {"clink_allowance", "clink_payer_proxy", "external_x402_signature"}
Change == {"mandate", "offering"}

ASSUME PurchaseAssumption ==
    /\ Scenario \subseteq Mode \X SUBSET Change
    /\ MaxFailed \in Nat
    /\ NoToken \notin Request

VARIABLES
    mode,       \* execution_mode of the preview
    changes,    \* whether the mandate lapses or the offering changes underway
    row,        \* the purchase's row
    cache,      \* what Redis still holds for the purchase
    expired,    \* the preview's expires_at has passed
    drifted,    \* the offering no longer has the previewed payment option
    req,        \* program counter and local variables of each request
    core,       \* state of the reservation in Core
    failed,     \* length of its failed_merchant_tx_hashes
    paid,       \* the merchant holds a transaction that pays it
    event,      \* type of the purchase's reputation event
    outbox,     \* its row in purchase_finalizations

    (* Read by the properties only. *)
    overtaken,  \* a changed mandate or offering undid a purchase under way
    lost        \* an error took the current payment's handoff off the row

background == <<mode, changes, overtaken, lost>>
world == <<cache, expired, drifted>>
money == <<core, failed, paid>>
terminal == <<event, outbox>>
vars == <<background, row, world, req, money, terminal>>

Terminal == {"delivered", "paid_but_undelivered", "failed"}
State == {"preview_created", "confirmation_required", "spending_reserved", "signing_required",
          "payment_submitted"} \cup Terminal

(* What a request reads and writes of the row: proxy_handoff numbers the   *)
(* merchant payment whose result came back, 0 for none.                    *)
Fields == [state : State, reserved : BOOLEAN, handoff : Nat,
           reason : {"other", "release_pending", "manual_review"}]
Row == [data : Fields, token : Request \cup {NoToken}, live : BOOLEAN]

Submitted == {"pull_submitted", "pay_submitted"}
CoreState == {"none", "spending_reserved", "proxy_authorization_ready", "payer_funded",
              "proxy_payment_ready", "settled", "finalized", "released"} \cup Submitted
Answer == CoreState \cup {"review", "error"}

PC == {"idle", "claim", "check", "authorize", "reserve", "reserved", "record", "settle",
       "reconcile", "answer", "deliver", "finish", "finalize", "complete", "missing", "release",
       "fail", "downgrade", "failProxy", "handoff", "clear", "challenge", "prepare", "sign", "recordProxy", "continue", "resign",
       "merchant", "saveHandoff", "remember", "prove", "proven", "checkout", "claimExternal",
       "recordExternal", "reconcileExternal", "finalizeExternal", "outbox", "forget"}

Local == [pc : PC, data : Fields, entered : State, answer : Answer,
          result : BOOLEAN,     \* it has the merchant's service result
          worker : BOOLEAN,     \* it is a pass of the worker
          note : Fields,        \* what that writes if it ends in an error
          proof : Nat]          \* the merchant payment that it can prove

Blank == [state |-> "preview_created", reserved |-> FALSE, handoff |-> 0, reason |-> "other"]
Idle == [pc |-> "idle", data |-> Blank, entered |-> "preview_created", answer |-> "error",
         result |-> FALSE, worker |-> FALSE, note |-> Blank, proof |-> 0]

Init ==
    /\ \E s \in Scenario : mode = s[1] /\ changes = s[2]
    /\ row = [data |-> Blank, token |-> NoToken, live |-> FALSE]
    /\ cache = [input |-> TRUE, checkout |-> FALSE, proxy |-> 0, external |-> FALSE]
    /\ expired = FALSE /\ drifted = FALSE
    /\ req = [r \in Request |-> Idle]
    /\ core = "none" /\ failed = 0 /\ paid = FALSE
    /\ event = "none"
    /\ outbox = [due |-> FALSE, token |-> NoToken, live |-> FALSE]
    /\ overtaken = FALSE /\ lost = FALSE

Become(r, s) == req' = [req EXCEPT ![r] = s]
Goto(r, pc) == Become(r, [req[r] EXCEPT !.pc = pc])
Return(r) == Become(r, Idle)
Heard(r, answer, pc) == Become(r, [req[r] EXCEPT !.answer = answer, !.pc = pc])

Allowance == mode = "clink_allowance"
Proxy == mode = "clink_payer_proxy"
External == mode = "external_x402_signature"

-----------------------------------------------------------------------------
(* marketplace_repository.py: claims and claimed writes.                   *)

Free == row.token = NoToken \/ ~ row.live

(* claim_purchase_execution *)
Claim(r, allowed, local) ==
    IF row.data.state \in allowed /\ Free
    THEN /\ row' = [row EXCEPT !.token = r, !.live = TRUE]
         /\ Become(r, [local EXCEPT !.data = row.data, !.entered = row.data.state])
    ELSE Return(r) /\ UNCHANGED row

(* save_claimed_purchase: the row must carry the token and be in an        *)
(* expected state, else "claim lost".  The token comes off when the request *)
(* is over.                                                                *)
Holds(r, expected) == row.token = r /\ row.data.state \in expected

Save(r, new, expected, pc) ==
    IF Holds(r, expected)
    THEN /\ row' = [data |-> new, token |-> IF pc = "idle" THEN NoToken ELSE r,
                    live |-> pc # "idle"]
         /\ Become(r, IF pc = "idle" THEN Idle ELSE [req[r] EXCEPT !.data = new, !.pc = pc])
    ELSE Return(r) /\ UNCHANGED row

(* _save_pending_reconciliation *)
SavePending(r) ==
    Save(r, [req[r].data EXCEPT !.reason = IF req[r].answer = "review" THEN "manual_review"
                                           ELSE "other"],
         {"payment_submitted"}, "idle")

(* _save_proxy_pending *)
SaveProxyPending(r, reason) ==
    Save(r, [req[r].data EXCEPT !.state = "payment_submitted", !.reason = reason],
         {req[r].data.state}, "idle")

(* _fail_claimed *)
Fail(r) ==
    /\ Save(r, [req[r].data EXCEPT !.state = "failed", !.reason = "other"],
            {req[r].data.state}, "idle")
    /\ cache' = [cache EXCEPT !.input = @ /\ ~ Holds(r, {req[r].data.state})]

-----------------------------------------------------------------------------
(* Core, as SpendingRails describes it.  A call changes the reservation or *)
(* is refused; either way its answer may be lost.                          *)

Reading(state) == IF state \in Submitted THEN {state, "review", "error"} ELSE {state, "error"}

(* A call that takes the reservation from one of the states of allowed to  *)
(* state new, and returns it as it is in one of the states of done.        *)
Call(r, allowed, new, done, pc) ==
    /\ \/ core \in allowed /\ core' = new
       \/ UNCHANGED core
    /\ \E answer \in IF core' # core \/ core \in done THEN Reading(core') ELSE {"error"} :
          Heard(r, answer, pc)

SettleState == IF Proxy THEN "proxy_authorization_ready" ELSE "spending_reserved"
Releasable == {"spending_reserved", "proxy_authorization_ready"}

Settled(answer) == answer \in {"settled", "finalized"}
Retryable(answer) == answer = "spending_reserved"
Funded(answer) == answer \in {"payer_funded", "proxy_payment_ready"}

(* The chain decides a submitted payment. *)
ChainAccepts ==
    /\ core \in Submitted
    /\ core' = IF core = "pull_submitted" /\ Proxy THEN "proxy_payment_ready" ELSE "settled"
    /\ UNCHANGED <<background, row, world, req, failed, paid, terminal>>

ChainReverts ==
    /\ core \in Submitted
    /\ \/ core = "pull_submitted" /\ core' = "spending_reserved" /\ UNCHANGED <<failed, paid, lost>>
       \/ /\ core = "pay_submitted"
          /\ failed < MaxFailed
          /\ core' = IF Proxy THEN "payer_funded" ELSE "spending_reserved"
          /\ failed' = failed + 1
          /\ paid' = FALSE
          /\ lost' = FALSE
    /\ UNCHANGED <<mode, changes, overtaken, row, world, req, terminal>>

-----------------------------------------------------------------------------
(* execute *)
Execute(r) ==
    /\ req[r].pc = "idle"
    /\ ~ (External /\ row.data.state \in {"signing_required", "payment_submitted"})
    /\ IF row.data.state \in Terminal
       THEN cache' = [cache EXCEPT !.input = FALSE] /\ UNCHANGED req
       ELSE Goto(r, "claim") /\ UNCHANGED cache
    /\ UNCHANGED <<background, row, expired, drifted, money, terminal>>

ClaimExecution(r) ==
    /\ req[r].pc = "claim"
    /\ Claim(r, {"preview_created", "confirmation_required", "spending_reserved",
                 "payment_submitted"}, [Idle EXCEPT !.pc = "check"])
    /\ UNCHANGED <<background, world, money, terminal>>

Unpaid == {"preview_created", "confirmation_required"}

(* A changed offering fails a purchase whatever its state is, unless it is  *)
(* an allowance purchase that is submitted. *)
Check(r) ==
    LET q == req[r]
        submitted == q.entered = "payment_submitted" IN
    /\ q.pc = "check"
    /\ IF Allowance /\ submitted
       THEN Goto(r, "reconcile") /\ UNCHANGED <<row, cache, overtaken>>
       ELSE IF drifted \/ (expired /\ q.entered \in Unpaid)
       THEN Fail(r) /\ overtaken' = (overtaken \/ Holds(r, {"payment_submitted"}))
       ELSE /\ Goto(r, IF Proxy /\ q.data.reason = "release_pending" THEN "downgrade"
                       ELSE IF cache.input THEN "authorize" ELSE "missing")
            /\ UNCHANGED <<row, cache, overtaken>>
    /\ UNCHANGED <<mode, changes, lost, expired, drifted, money, terminal>>

(* _resolve_authorization, the policy's decision and the user's            *)
(* confirmation; where the payment goes on after them. *)
PayPc == CASE Allowance -> "record" [] Proxy -> "handoff" [] External -> "reconcile"

Authorize(r) ==
    LET q == req[r] IN
    /\ q.pc = "authorize"
    /\ \/ /\ Goto(r, IF q.data.reserved THEN PayPc ELSE "reserve")
          /\ UNCHANGED <<row, overtaken>>
       \/ /\ q.entered \in Unpaid \/ "mandate" \in changes
          /\ Save(r, [q.data EXCEPT !.state = "confirmation_required", !.reason = "other"],
                  {q.data.state}, "idle")
          /\ overtaken' = (overtaken \/ (q.data.reserved /\ Holds(r, {q.data.state})))
    /\ UNCHANGED <<mode, changes, lost, world, money, terminal>>

Reserve(r) ==
    /\ req[r].pc = "reserve"
    /\ core' = IF core = "none" THEN "spending_reserved" ELSE core
    /\ Goto(r, "reserved")
    /\ UNCHANGED <<background, row, world, failed, paid, terminal>>

SaveReserved(r) ==
    LET new == [req[r].data EXCEPT !.reserved = TRUE, !.reason = "other",
                    !.state = IF External THEN "signing_required" ELSE "spending_reserved"] IN
    /\ req[r].pc = "reserved"
    /\ Save(r, new, {req[r].entered}, IF External THEN "idle" ELSE PayPc)
    /\ UNCHANGED <<background, world, money, terminal>>

(* The attempt is on record before Core is asked to settle. *)
FaultRecordSubmission(r) ==
    /\ req[r].pc = "record"
    /\ Goto(r, "settle")
    /\ UNCHANGED <<background, row, world, money, terminal>>
RecordSubmission(r) ==
    /\ req[r].pc = "record"
    /\ Save(r, [req[r].data EXCEPT !.state = "payment_submitted", !.reason = "other"],
            {"spending_reserved"}, "settle")
    /\ UNCHANGED <<background, world, money, terminal>>

Settle(r) ==
    /\ req[r].pc = "settle"
    /\ Call(r, {SettleState}, "pull_submitted", {"settled", "finalized", "pull_submitted"},
            IF Proxy THEN "continue" ELSE "answer")
    /\ UNCHANGED <<background, row, world, failed, paid, terminal>>

(* core.reconcile in execute, _reconcile_submitted_allowance and the       *)
(* worker's process_reconciliation.  Core settles no external reservation. *)
Reconcile(r) ==
    /\ req[r].pc = "reconcile"
    /\ \E answer \in Reading(core) :
          IF Retryable(answer) /\ Allowance THEN Heard(r, answer, "settle")
          ELSE Heard(r, IF Retryable(answer) THEN "error" ELSE answer, "answer")
    /\ UNCHANGED <<background, row, world, money, terminal>>

(* The worker delivers what the wallet's checkout left behind, and leaves  *)
(* any other delivery to the next request.                                 *)
FaultDeliverable(answer) == answer \notin {"spending_reserved", "error"}
Deliverable(answer) == Settled(answer)

HandleAnswer(r) ==
    LET q == req[r] IN
    /\ q.pc = "answer"
    /\ IF Deliverable(q.answer) /\ (q.worker => External /\ cache.external)
       THEN /\ IF q.worker
               THEN Become(r, [q EXCEPT !.pc = "finish", !.data.state = "delivered"])
               ELSE Goto(r, "deliver")
            /\ UNCHANGED row
       ELSE SavePending(r)
    /\ UNCHANGED <<background, world, money, terminal>>

(* The request to the merchant, unless the wallet's checkout made it or    *)
(* the input is gone. *)
Deliver(r) ==
    /\ req[r].pc = "deliver"
    /\ \E ok \in BOOLEAN :
          /\ req[r].result => ok
          /\ Allowance /\ req[r].entered = "payment_submitted" /\ ok => cache.input
          /\ Become(r, [req[r] EXCEPT !.pc = "finish",
                !.data.state = IF ok THEN "delivered" ELSE "paid_but_undelivered"])
    /\ UNCHANGED <<background, row, world, money, terminal>>

(* save_purchase_with_reputation_event: the terminal state, its reputation *)
(* event and the outbox row in one transaction.  A request that lost its   *)
(* claim goes on only when the event that is there says the same. *)
Enqueued == [outbox EXCEPT !.due = TRUE]

SaveTerminal(r) ==
    LET q == req[r] IN
    /\ q.pc = "finish"
    /\ IF event = "none" /\ Holds(r, {"payment_submitted"})
       THEN /\ row' = [data |-> [q.data EXCEPT !.handoff = 0, !.reason = "other"],
                       token |-> NoToken, live |-> FALSE]
            /\ event' = q.data.state
            /\ outbox' = Enqueued
            /\ Goto(r, "finalize")
       ELSE /\ IF event = q.data.state THEN Goto(r, "finalize") ELSE Return(r)
            /\ UNCHANGED <<row, event, outbox>>
    /\ UNCHANGED <<background, world, money>>

(* _finalize_terminal; an error is left to the outbox. *)
FinalizeTerminal(r) ==
    /\ req[r].pc = "finalize"
    /\ Call(r, {"settled"}, "finalized", {"finalized"}, "complete")
    /\ UNCHANGED <<background, row, world, failed, paid, terminal>>

Emptied == [input |-> FALSE, checkout |-> FALSE, proxy |-> 0, external |-> FALSE]
FaultForgettable(answer) == TRUE
Forgettable(answer) == answer # "error"

CompleteFinalization(r) ==
    /\ req[r].pc = "complete"
    /\ outbox' = IF Forgettable(req[r].answer)
                 THEN [due |-> FALSE, token |-> NoToken, live |-> FALSE] ELSE outbox
    /\ cache' = Emptied
    /\ Return(r)
    /\ UNCHANGED <<background, row, expired, drifted, money, event>>

-----------------------------------------------------------------------------
(* _handle_missing_input *)
HandleMissingInput(r) ==
    LET q == req[r] IN
    /\ q.pc = "missing"
    /\ \/ /\ q.entered # "payment_submitted"
          /\ Goto(r, IF q.data.reserved THEN "release" ELSE "fail")
       \/ /\ q.entered = "payment_submitted"
          /\ \E answer \in Reading(core) :
                IF Settled(answer)
                THEN Become(r, [q EXCEPT !.answer = answer, !.pc = "finish",
                                         !.data.state = "paid_but_undelivered"])
                ELSE Heard(r, answer, IF Retryable(answer) THEN "release" ELSE "answer")
    /\ UNCHANGED <<background, row, world, money, terminal>>

(* core.release, in _handle_missing_input and _downgrade_proxy_purchase.   *)
(* A purchase fails only once its reservation is known to be released. *)
Release(r) ==
    /\ req[r].pc \in {"release", "downgrade"}
    /\ Call(r, Releasable, "released", {"released"},
            IF req[r].pc = "release" THEN "fail" ELSE "failProxy")
    /\ UNCHANGED <<background, row, world, failed, paid, terminal>>

MayFail(r) == req[r].answer = "released" \/ ~ req[r].data.reserved

FailReleased(r) ==
    /\ req[r].pc \in {"fail", "failProxy"}
    /\ IF MayFail(r) THEN Fail(r)
       ELSE /\ IF req[r].pc = "failProxy" THEN SaveProxyPending(r, "release_pending")
               ELSE Save(r, [req[r].data EXCEPT !.reason = "other"], {req[r].data.state}, "idle")
            /\ UNCHANGED cache
    /\ UNCHANGED <<background, expired, drifted, money, terminal>>

-----------------------------------------------------------------------------
(* clink_payer_proxy: _execute_proxy_purchase, _continue_proxy_purchase.    *)

Handoff(r) == IF cache.proxy # 0 THEN cache.proxy ELSE req[r].data.handoff

(* Once the merchant's result is in, only Core is asked, unless the        *)
(* merchant's payment failed. *)
HandoffFailed(r, answer) == answer = "payer_funded" /\ Handoff(r) <= failed

ResumeHandoff(r) ==
    LET q == req[r] IN
    /\ q.pc = "handoff"
    /\ IF Handoff(r) = 0 THEN Goto(r, "challenge") /\ UNCHANGED row
       ELSE \E answer \in Reading(core) :
               IF answer = "error" THEN SaveProxyPending(r, "other")
               ELSE IF HandoffFailed(r, answer)
               THEN Save(r, [q.data EXCEPT !.handoff = 0], {"payment_submitted"}, "clear")
               ELSE Heard(r, answer, "continue") /\ UNCHANGED row
    /\ UNCHANGED <<background, world, money, terminal>>

(* _clear_proxy_handoff saves the row first. *)
ClearHandoff(r) ==
    /\ req[r].pc = "clear"
    /\ cache' = [cache EXCEPT !.proxy = 0]
    /\ Goto(r, "challenge")
    /\ UNCHANGED <<background, row, expired, drifted, money, terminal>>

(* _proxy_challenge: a merchant that cannot be paid this way ends the      *)
(* purchase while nothing is submitted. *)
AskChallenge(r) ==
    /\ req[r].pc = "challenge"
    /\ \/ /\ req[r].worker => cache.input
          /\ Goto(r, "prepare")
          /\ UNCHANGED row
       \/ /\ req[r].data.state = "spending_reserved"
          /\ Goto(r, "downgrade")
          /\ UNCHANGED row
       \/ SaveProxyPending(r, "other")
    /\ UNCHANGED <<background, world, money, terminal>>

ReconcileProxy(r) ==
    /\ req[r].pc = "prepare"
    /\ IF req[r].entered # "payment_submitted" THEN Heard(r, "spending_reserved", "sign") /\ UNCHANGED row
       ELSE \E answer \in Reading(core) :
               IF answer = "error" THEN SaveProxyPending(r, "other")
               ELSE /\ Heard(r, answer, IF answer \in {"spending_reserved", "payer_funded"}
                                        THEN "sign" ELSE "recordProxy")
                    /\ UNCHANGED row
    /\ UNCHANGED <<background, world, money, terminal>>

(* core.proxy_prepare, before the pull and again before the merchant is    *)
(* paid. *)
Signed == IF core = "payer_funded" THEN "proxy_payment_ready" ELSE "proxy_authorization_ready"

PrepareProxy(r) ==
    /\ req[r].pc \in {"sign", "resign"}
    /\ Call(r, {"spending_reserved", "payer_funded"}, Signed,
            {"proxy_authorization_ready", "proxy_payment_ready"},
            IF req[r].pc = "sign" THEN "recordProxy" ELSE "merchant")
    /\ UNCHANGED <<background, row, world, failed, paid, terminal>>

RecordProxySubmission(r) ==
    LET q == req[r]
        next == IF q.answer = "proxy_authorization_ready" THEN "settle" ELSE "continue" IN
    /\ q.pc = "recordProxy"
    /\ IF q.answer = "error"
       THEN \/ SaveProxyPending(r, "other")
            \/ q.data.state = "spending_reserved" /\ Goto(r, "downgrade") /\ UNCHANGED row
       ELSE IF q.data.state = "spending_reserved"
       THEN Save(r, [q.data EXCEPT !.state = "payment_submitted", !.reason = "other"],
                 {"spending_reserved"}, next)
       ELSE Goto(r, next) /\ UNCHANGED row
    /\ UNCHANGED <<background, world, money, terminal>>

(* The result that came with a handoff is only in Redis; without it the    *)
(* purchase ends undelivered. *)
Outcome(r) == IF req[r].result \/ cache.proxy # 0 THEN "delivered" ELSE "paid_but_undelivered"

ContinueProxy(r) ==
    LET q == req[r] IN
    /\ q.pc = "continue"
    /\ IF q.answer = "error" \/ (Settled(q.answer) /\ Handoff(r) = 0)
       THEN SaveProxyPending(r, "other")
       ELSE IF Settled(q.answer)
       THEN Become(r, [q EXCEPT !.pc = "finish", !.data.state = Outcome(r)]) /\ UNCHANGED row
       ELSE IF Handoff(r) # 0
       THEN Become(r, [q EXCEPT !.pc = "prove", !.proof = Handoff(r)]) /\ UNCHANGED row
       ELSE IF Funded(q.answer) THEN Goto(r, "resign") /\ UNCHANGED row
       ELSE SaveProxyPending(r, "other")
    /\ UNCHANGED <<background, world, money, terminal>>

(* The merchant submits the authorization and answers with its             *)
(* transaction, or the answer does not arrive, or it refuses. *)
PayMerchant(r) ==
    LET q == req[r] IN
    /\ q.pc = "merchant"
    /\ \/ /\ q.answer = "proxy_payment_ready" /\ core \in {"proxy_payment_ready", "pay_submitted"}
          /\ paid' = TRUE
          /\ \/ /\ Become(r, [q EXCEPT !.pc = "saveHandoff", !.proof = failed + 1, !.result = TRUE])
                /\ UNCHANGED row
             \/ SaveProxyPending(r, "other")
       \/ SaveProxyPending(r, "other") /\ UNCHANGED paid
    /\ UNCHANGED <<background, world, core, failed, terminal>>

(* The handoff is saved before Core is told.  A row that is not submitted  *)
(* takes it through _save_proxy_pending. *)
FaultDurable(r) == req[r].data
Durable(r) == [req[r].data EXCEPT !.handoff = req[r].proof]

SaveHandoff(r) ==
    LET new == Durable(r) IN
    /\ req[r].pc = "saveHandoff"
    /\ IF Holds(r, {"payment_submitted"})
       THEN Save(r, new, {"payment_submitted"}, "remember")
       ELSE Save(r, [new EXCEPT !.state = "payment_submitted", !.reason = "other"],
                 {new.state}, "idle")
    /\ lost' = (lost /\ row'.data.handoff # failed + 1)
    /\ UNCHANGED <<mode, changes, overtaken, world, money, terminal>>

RememberResult(r) ==
    /\ req[r].pc = "remember"
    /\ cache' = [cache EXCEPT !.proxy = req[r].proof]
    /\ Goto(r, "prove")
    /\ UNCHANGED <<background, row, expired, drifted, money, terminal>>

(* core.proxy_finalize *)
ProvePayment(r) ==
    LET q == req[r]
        current == q.proof = failed + 1 IN
    /\ q.pc = "prove"
    /\ Call(r, IF current /\ paid THEN {"proxy_payment_ready"} ELSE {}, "pay_submitted",
            {"settled", "finalized"} \cup IF current THEN {"pay_submitted"} ELSE {}, "proven")
    /\ UNCHANGED <<background, row, world, failed, paid, terminal>>

FinishProxy(r) ==
    /\ req[r].pc = "proven"
    /\ IF Settled(req[r].answer)
       THEN /\ Become(r, [req[r] EXCEPT !.pc = "finish", !.data.state = Outcome(r)])
            /\ UNCHANGED row
       ELSE SaveProxyPending(r, "other")
    /\ UNCHANGED <<background, world, money, terminal>>

-----------------------------------------------------------------------------
(* external_x402_signature: the wallet's checkout and the proof it leads to *)

(* prepare_external_checkout *)
PrepareCheckout ==
    /\ External
    /\ row.data.state = "signing_required"
    /\ ~ expired
    /\ cache.input
    /\ cache' = [cache EXCEPT !.checkout = TRUE]
    /\ UNCHANGED <<background, row, expired, drifted, req, money, terminal>>

(* complete_external_checkout *)
StartCheckout(r) ==
    /\ req[r].pc = "idle"
    /\ External
    /\ row.data.state = "signing_required"
    /\ ~ expired
    /\ cache.checkout
    /\ cache' = [cache EXCEPT !.checkout = FALSE]
    /\ IF cache.input THEN Goto(r, "checkout") ELSE UNCHANGED req
    /\ UNCHANGED <<background, row, expired, drifted, money, terminal>>

WalletPays(r) ==
    /\ req[r].pc = "checkout"
    /\ paid' = TRUE
    /\ \/ /\ Become(r, [req[r] EXCEPT !.pc = "claimExternal", !.result = TRUE])
          /\ cache' = [cache EXCEPT !.external = TRUE]
       \/ Return(r) /\ UNCHANGED cache
    /\ UNCHANGED <<background, row, expired, drifted, core, failed, terminal>>

(* complete_external, with a proof the caller brings *)
CompleteExternal(r) ==
    /\ req[r].pc = "idle"
    /\ External
    /\ row.data.state \in {"signing_required", "payment_submitted"}
    /\ paid
    /\ Goto(r, "claimExternal")
    /\ UNCHANGED <<background, row, world, money, terminal>>

ClaimExternal(r) ==
    /\ req[r].pc = "claimExternal"
    /\ Claim(r, {"signing_required", "payment_submitted"},
             [req[r] EXCEPT !.pc = IF ~ cache.input THEN "missing"
                                   ELSE IF row.data.state = "payment_submitted"
                                   THEN "reconcileExternal" ELSE "recordExternal"])
    /\ UNCHANGED <<background, world, money, terminal>>

RecordExternal(r) ==
    /\ req[r].pc = "recordExternal"
    /\ Save(r, [req[r].data EXCEPT !.state = "payment_submitted", !.reason = "other"],
            {"signing_required"}, "finalizeExternal")
    /\ UNCHANGED <<background, world, money, terminal>>

ReconcileExternal(r) ==
    /\ req[r].pc = "reconcileExternal"
    /\ \E answer \in Reading(core) :
          IF Retryable(answer)
          THEN Save(r, [req[r].data EXCEPT !.reason = "other"], {"payment_submitted"},
                    "finalizeExternal")
          ELSE Heard(r, answer, "answer") /\ UNCHANGED row
    /\ UNCHANGED <<background, world, money, terminal>>

(* core.external_finalize *)
FinalizeExternal(r) ==
    /\ req[r].pc = "finalizeExternal"
    /\ Call(r, IF paid THEN {"spending_reserved"} ELSE {}, "pay_submitted",
            {"settled", "finalized", "pay_submitted"}, "answer")
    /\ UNCHANGED <<background, row, world, failed, paid, terminal>>

-----------------------------------------------------------------------------
(* marketplace_worker.py: _retry_finalizations *)

(* claim_payment_reconciliations *)
ClaimReconciliation(r) ==
    /\ req[r].pc = "idle"
    /\ row.data.reason # "manual_review"
    /\ row.data.state = "payment_submitted"
    /\ Free
    /\ Claim(r, {"payment_submitted"},
             [Idle EXCEPT !.worker = TRUE, !.note = [row.data EXCEPT !.reason = "other"],
                          !.pc = IF ~ Proxy THEN "reconcile"
                                 ELSE IF row.data.reason = "release_pending" THEN "downgrade"
                                 ELSE "handoff"])
    /\ UNCHANGED <<background, world, money, terminal>>

OutboxFree == outbox.token = NoToken \/ ~ outbox.live

ClaimFinalization(r) ==
    /\ req[r].pc = "idle"
    /\ outbox.due
    /\ OutboxFree
    /\ outbox' = [outbox EXCEPT !.token = r, !.live = TRUE]
    /\ Goto(r, "outbox")
    /\ UNCHANGED <<background, row, world, money, event>>

ProcessFinalization(r) ==
    /\ req[r].pc = "outbox"
    /\ Call(r, {"settled"}, "finalized", {"finalized"}, "forget")
    /\ UNCHANGED <<background, row, world, failed, paid, terminal>>

(* finish_finalization *)
FinishFinalization(r) ==
    /\ req[r].pc = "forget"
    /\ outbox' = IF outbox.token # r THEN outbox
                 ELSE [due |-> ~ Forgettable(req[r].answer), token |-> NoToken, live |-> FALSE]
    /\ Return(r)
    /\ UNCHANGED <<background, row, world, money, event>>

-----------------------------------------------------------------------------
(* Time and failures.                                                      *)

LeaseExpires ==
    /\ row.token # NoToken /\ row.live
    /\ row' = [row EXCEPT !.live = FALSE]
    /\ UNCHANGED <<background, world, req, money, terminal>>

OutboxLeaseExpires ==
    /\ outbox.token # NoToken /\ outbox.live
    /\ outbox' = [outbox EXCEPT !.live = FALSE]
    /\ UNCHANGED <<background, row, world, req, money, event>>

CacheExpires ==
    /\ \/ cache.input /\ cache' = [cache EXCEPT !.input = FALSE]
       \/ cache.checkout /\ cache' = [cache EXCEPT !.checkout = FALSE]
       \/ cache.proxy # 0 /\ cache' = [cache EXCEPT !.proxy = 0]
       \/ cache.external /\ cache' = [cache EXCEPT !.external = FALSE]
    /\ UNCHANGED <<background, row, expired, drifted, req, money, terminal>>

PreviewExpires ==
    /\ ~ expired
    /\ expired' = TRUE
    /\ UNCHANGED <<background, row, cache, drifted, req, money, terminal>>

OfferingChanges ==
    /\ "offering" \in changes
    /\ ~ drifted
    /\ drifted' = TRUE
    /\ UNCHANGED <<background, row, cache, expired, req, money, terminal>>

(* The process dies, or a request raises what nobody catches. *)
Abandon(r) ==
    /\ req[r].pc # "idle"
    /\ Return(r)
    /\ UNCHANGED <<background, row, world, money, terminal>>

(* What a pass of the worker raises is noted on the row as it was when it   *)
(* was claimed, which undoes what the pass has saved since. *)
NoteError(r) ==
    /\ req[r].worker
    /\ Save(r, req[r].note, {"payment_submitted"}, "idle")
    /\ lost' = (lost \/ (row.data.handoff = failed + 1 /\ row'.data.handoff # failed + 1))
    /\ UNCHANGED <<mode, changes, overtaken, world, money, terminal>>

-----------------------------------------------------------------------------
Start(r) ==
    \/ Execute(r)
    \/ StartCheckout(r)
    \/ CompleteExternal(r)
    \/ ClaimReconciliation(r)
    \/ ClaimFinalization(r)

Continue(r) ==
    \/ ClaimExecution(r) \/ Check(r) \/ Authorize(r)
    \/ Reserve(r) \/ SaveReserved(r) \/ RecordSubmission(r)
    \/ Settle(r) \/ Reconcile(r) \/ HandleAnswer(r) \/ Deliver(r)
    \/ SaveTerminal(r) \/ FinalizeTerminal(r) \/ CompleteFinalization(r)
    \/ HandleMissingInput(r) \/ Release(r) \/ FailReleased(r)
    \/ ResumeHandoff(r) \/ ClearHandoff(r) \/ AskChallenge(r) \/ ReconcileProxy(r) \/ PrepareProxy(r)
    \/ RecordProxySubmission(r) \/ ContinueProxy(r) \/ PayMerchant(r)
    \/ SaveHandoff(r) \/ RememberResult(r) \/ ProvePayment(r) \/ FinishProxy(r)
    \/ WalletPays(r) \/ ClaimExternal(r) \/ RecordExternal(r)
    \/ ReconcileExternal(r) \/ FinalizeExternal(r)
    \/ ProcessFinalization(r) \/ FinishFinalization(r)

Next ==
    \/ \E r \in Request : Start(r) \/ Continue(r) \/ Abandon(r) \/ NoteError(r)
    \/ PrepareCheckout
    \/ ChainAccepts \/ ChainReverts
    \/ LeaseExpires \/ OutboxLeaseExpires
    \/ CacheExpires \/ PreviewExpires \/ OfferingChanges

Spec == Init /\ [][Next]_vars

-----------------------------------------------------------------------------
(* The type of every variable. *)
TypeOK ==
    /\ <<mode, changes>> \in Scenario
    /\ row \in Row
    /\ cache \in [input : BOOLEAN, checkout : BOOLEAN, proxy : Nat, external : BOOLEAN]
    /\ {expired, drifted, paid, overtaken, lost} \subseteq BOOLEAN
    /\ req \in [Request -> Local]
    /\ core \in CoreState
    /\ failed \in Nat
    /\ event \in {"none", "delivered", "paid_but_undelivered"}
    /\ outbox \in [due : BOOLEAN, token : Request \cup {NoToken}, live : BOOLEAN]

MoneyMayMove == core \in Submitted \cup {"payer_funded", "proxy_payment_ready", "settled",
                                         "finalized"}

(* Only what Core has settled is delivered or declared undelivered. *)
DeliveredIsSettled ==
    row.data.state \in {"delivered", "paid_but_undelivered"} => core \in {"settled", "finalized"}

(* Money can only move while the row says so: whoever finds the row next   *)
(* reconciles instead of starting over, and a failed purchase took no      *)
(* money and cannot take any more, whatever requests that lost their claim *)
(* are still doing.  Only execute's look at the offering and the mandate,  *)
(* on the rails that do not look at a submitted row first, undoes it. *)
AttemptIsRecorded ==
    MoneyMayMove /\ (Allowance \/ ~ overtaken) =>
        row.data.state \in {"payment_submitted", "delivered", "paid_but_undelivered"}

(* A merchant payment that Core knows of has its handoff on the row, from  *)
(* which the purchase can be brought to an end; only an error of a worker's *)
(* pass takes it away, the one of the pass that saved it. *)
ProofIsRecoverable ==
    Proxy /\ core \in {"pay_submitted", "settled"} /\ row.data.state \notin Terminal =>
        row.data.handoff = failed + 1 \/ lost

(* No paid purchase is forgotten before Core has finalized it. *)
OutboxUntilFinalized ==
    row.data.state \in {"delivered", "paid_but_undelivered"} => outbox.due \/ core = "finalized"

(* universal-payer-design.md: "Once merchant settlement is proven, the      *)
(* purchase can only become delivered or paid_but_undelivered".  execute    *)
(* looks for a changed offering before it looks at the state of the row. *)
ProvenIsNotFailed == core \in {"settled", "finalized"} => row.data.state # "failed"
=============================================================================
