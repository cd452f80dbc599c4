------------------------- MODULE SpendingRailsProofs -------------------------
(***************************************************************************)
(* Proofs about SpendingRails, for any reservations, requests, nonces and  *)
(* authorizations.  What is booked only over confirmed transactions is so  *)
(* whether or not a rejection is final and whether or not merchants retry; *)
(* the second half needs rejections that are final, where it says so.      *)
(***************************************************************************)
EXTENDS SpendingRails, FiniteSetTheorems, TLAPS

(* Money that has moved for good. *)
Pulled(r) == \E t \in ok \cap confirmed : t.r = r /\ t.leg = "pull"
Paid(r) == \E t \in ok \cap confirmed : t.r = r /\ t.leg = "pay"

(* A row that waits for a transaction waits for its own, on its own rail,  *)
(* and only a payer whose pull was booked gets to the second leg.          *)
RowOK(r, x) ==
    /\ x.state = "payment_submitted" =>
          /\ x.tx \in Tx /\ x.tx.r = r /\ x.tx.leg = x.rail
          /\ x.rail = "pay" => AuthorizationRail[r] # "native_allowance"
          /\ x.rail = "pull" => AuthorizationRail[r] # "external_x402"
    /\ /\ Proxy(r)
       /\ \/ x.state \in {"payer_funded", "proxy_payment_ready"}
          \/ x.state = "payment_submitted" /\ x.rail = "pay"
       => x.budget = "settled"
    /\ x.budget = "settled" /\ AuthorizationRail[r] # "external_x402" => Pulled(r)
    /\ x.state \in {"settled", "finalized"} /\ AuthorizationRail[r] # "native_allowance" => Paid(r)

(* A request that is about to complete a payment has seen it confirmed. *)
WorkerOK(s) ==
    /\ s.pc # "idle" => s.job \in Reservation
    /\ s.pc \in {"authorize", "send", "resend"} => s.tx \in Tx /\ s.tx.leg = "pull"
    /\ s.pc = "complete" => s.tx \in ok \cap confirmed

(* Authorizations of the payer leave Core only once the user has paid. *)
Funded ==
    /\ \A a \in handed : Proxy(a[1]) => Pulled(a[1])
    /\ \A t \in pool \cup mined : t.leg = "pay" => Spends(t) \in handed

Rows == \A r \in Reservation : RowOK(r, row[r])
Workers == \A w \in Worker : WorkerOK(worker[w])

Inv == TypeOK /\ Rows /\ Workers /\ Funded

LEMMA IdleTyped ==
    /\ Idle \in Local /\ Idle.pc = "idle"
    /\ WorkerOK(Idle)
<1>1. Idle \in Local /\ Idle.pc = "idle"
      BY DEF Idle, Local, PC
<1>. QED  BY <1>1 DEF WorkerOK

LEMMA NewRowTyped ==
    ASSUME NEW r \in Reservation
    PROVE  /\ NewRow(r) \in Row /\ ClosedRow(r) \in Row
           /\ NewRow(r).state = "spending_reserved" /\ NewRow(r).budget = "reserved"
           /\ ClosedRow(r).state = "released" /\ ClosedRow(r).budget = "released"
<1> DEFINE a == IF AuthorizationRail[r] = "external_x402" THEN 1 ELSE 0
<1>1. a \in Nat /\ NoNonce \in Int
      BY DEF NoNonce
<1>2. NewRow(r) = [state |-> "spending_reserved", rail |-> "none", tx |-> NoTx, pull |-> NoTx,
                   nonce |-> NoNonce, auth |-> a, signed |-> a,
                   risk |-> "none", status |-> "none", attempts |-> 0, sealed |-> FALSE,
                   budget |-> "reserved"]
      BY DEF NewRow
<1> HIDE DEF a
<1>3. NewRow(r) \in Row /\ NewRow(r).state = "spending_reserved" /\ NewRow(r).budget = "reserved"
      BY <1>1, <1>2 DEF Row
<1>4. /\ ClosedRow(r) \in Row
      /\ ClosedRow(r).state = "released" /\ ClosedRow(r).budget = "released"
      BY <1>3 DEF ClosedRow, Row
<1>. QED  BY <1>3, <1>4

LEMMA InitInv == Init => Inv
<1> SUFFICES ASSUME Init
             PROVE  Inv
    OBVIOUS
<1>1. ASSUME NEW r \in Reservation
      PROVE  row[r] = NewRow(r) \/ row[r] = ClosedRow(r)
      BY DEF Init
<1>2. ASSUME NEW r \in Reservation
      PROVE  /\ row[r] \in Row /\ row[r].state \in {"spending_reserved", "released"}
             /\ row[r].budget # "settled"
      BY <1>1, NewRowTyped
<1>3. row \in [Reservation -> Row]
  <2>1. row = [r \in Reservation |-> row[r]]
        BY DEF Init
  <2>. QED  BY <1>2, <2>1
<1>4. TypeOK
      BY <1>3, IdleTyped DEF Init, TypeOK
<1>5. Rows
      BY <1>2 DEF Rows, RowOK
<1>6. Workers
      BY IdleTyped DEF Init, Workers
<1>7. Funded
      BY DEF Init, Funded, mined
<1>. QED  BY <1>4, <1>5, <1>6, <1>7 DEF Inv

(* Steps of Core: the chain stands still. *)
LEMMA LedgerInv ==
    ASSUME Inv, UNCHANGED chain, nextNonce' \in Nat,
           row' \in [Reservation -> Row], worker' \in [Worker -> Local],
           \A r \in Reservation : row'[r] = row[r] \/ RowOK(r, row'[r]),
           \A w \in Worker : worker'[w] = worker[w] \/ WorkerOK(worker'[w])
    PROVE  Inv'
<1>1. UNCHANGED <<pool, ok, failed, confirmed, count, refused, handed, expired>>
      BY DEF chain
<1>2. TypeOK'
      BY <1>1 DEF Inv, TypeOK
<1>3. Rows'
      BY <1>1 DEF Inv, Rows, RowOK, Pulled, Paid
<1>4. Workers'
      BY <1>1 DEF Inv, Workers, WorkerOK
<1>5. Funded'
      BY <1>1 DEF Inv, Funded, Pulled, mined
<1>. QED  BY <1>2, <1>3, <1>4, <1>5 DEF Inv

(* One row changes, and perhaps one request goes on. *)
LEMMA PutInv ==
    ASSUME Inv, UNCHANGED chain, nextNonce' \in Nat,
           NEW r \in Reservation, NEW x \in Row, RowOK(r, x), Put(r, x),
           worker' = worker \/ \E w \in Worker, s \in Local : WorkerOK(s) /\ Become(w, s)
    PROVE  Inv'
<1>1. row' \in [Reservation -> Row] /\ \A q \in Reservation : row'[q] = row[q] \/ RowOK(q, row'[q])
      BY DEF Inv, TypeOK, Put
<1>2. worker' \in [Worker -> Local] /\ \A w \in Worker : worker'[w] = worker[w] \/ WorkerOK(worker'[w])
      BY DEF Inv, TypeOK, Become
<1>. QED  BY <1>1, <1>2, LedgerInv

(* Only one request goes on. *)
LEMMA LocalInv ==
    ASSUME Inv, UNCHANGED <<ledger, chain>>,
           NEW w \in Worker, NEW s \in Local, WorkerOK(s), Become(w, s)
    PROVE  Inv'
<1>1. row' = row /\ nextNonce' = nextNonce /\ UNCHANGED chain
      BY DEF ledger
<1>2. worker' \in [Worker -> Local] /\ \A v \in Worker : worker'[v] = worker[v] \/ WorkerOK(worker'[v])
      BY DEF Inv, TypeOK, Become
<1>3. row' \in [Reservation -> Row] /\ nextNonce' \in Nat
      BY <1>1 DEF Inv, TypeOK
<1>. QED  BY <1>1, <1>2, <1>3, LedgerInv

LEMMA ReturnInv ==
    ASSUME Inv, UNCHANGED <<ledger, chain>>, NEW w \in Worker, Return(w)
    PROVE  Inv'
  BY IdleTyped, LocalInv DEF Return

(* A row that keeps its place in the payment. *)
LEMMA SameStage ==
    ASSUME NEW r \in Reservation, NEW x, NEW y, RowOK(r, x),
           y.state = x.state, y.rail = x.rail, y.tx = x.tx, y.budget = x.budget
    PROVE  RowOK(r, y)
  BY DEF RowOK

(* _same_pending_payment. *)
LEMMA PendingInv ==
    ASSUME Inv, UNCHANGED <<nextNonce, chain>>, NEW w \in Worker, worker[w].job \in Reservation,
           NEW x, SamePending(w) => x \in Row /\ RowOK(worker[w].job, x),
           PutIfPending(w, x), Return(w)
    PROVE  Inv'
<1>1. nextNonce' \in Nat /\ UNCHANGED chain
      BY DEF Inv, TypeOK
<1>2. Idle \in Local /\ WorkerOK(Idle) /\ Become(w, Idle)
      BY IdleTyped DEF Return
<1>3. CASE SamePending(w)
      BY <1>1, <1>2, <1>3, PutInv DEF PutIfPending
<1>4. CASE ~ SamePending(w)
      BY <1>4, ReturnInv DEF PutIfPending, ledger
<1>. QED  BY <1>3, <1>4

LEMMA GotoTyped ==
    ASSUME Inv, NEW w \in Worker, NEW pc \in PC, Goto(w, pc), worker[w].job \in Reservation,
           pc \in {"authorize", "send", "resend"} =>
               worker[w].tx \in Tx /\ worker[w].tx.leg = "pull",
           pc # "complete"
    PROVE  \E s \in Local : WorkerOK(s) /\ Become(w, s)
<1> DEFINE s == [worker[w] EXCEPT !.pc = pc]
<1>1. worker[w] \in Local
      BY DEF Inv, TypeOK
<1>2. s \in Local /\ s.pc = pc /\ s.job = worker[w].job /\ s.tx = worker[w].tx
      BY <1>1 DEF Local
<1>3. Become(w, s)
      BY DEF Goto
<1> HIDE DEF s
<1>4. WorkerOK(s)
      BY <1>2 DEF WorkerOK
<1>. QED  BY <1>2, <1>3, <1>4

-----------------------------------------------------------------------------
(* Requests that begin. *)
Marks == {"none", "pending", "retryable", "settled", "manual_review_required", "failed"}

Marked(y, st, k) == [y EXCEPT !.status = st, !.attempts = k]
Begun(y, t, n) == [y EXCEPT !.state = "payment_submitted", !.rail = "pull", !.tx = t,
                            !.nonce = n, !.risk = "pending"]

LEMMA MarkTyped ==
    ASSUME NEW y \in Row, NEW k \in Nat, NEW st \in Marks
    PROVE  /\ Marked(y, st, k) \in Row
           /\ Marked(y, st, k).state = y.state /\ Marked(y, st, k).rail = y.rail
           /\ Marked(y, st, k).tx = y.tx /\ Marked(y, st, k).budget = y.budget
  BY DEF Row, Marks, Marked

LEMMA BegunTyped ==
    ASSUME NEW y \in Row, NEW t \in Tx, NEW n \in Int
    PROVE  /\ Begun(y, t, n) \in Row
           /\ Begun(y, t, n).state = "payment_submitted" /\ Begun(y, t, n).rail = "pull"
           /\ Begun(y, t, n).tx = t /\ Begun(y, t, n).budget = y.budget
  BY DEF Row, Begun

LEMMA SettleInv ==
    ASSUME Inv, NEW w \in Worker, NEW r \in Reservation, NEW c \in Copy, Settle(w, r, c)
    PROVE  Inv'
<1>1. PICK n \in 0 .. MaxNonce : n = AllocatedNonce(r)
      BY DEF Settle
<1> DEFINE t == [r |-> r, leg |-> "pull", id |-> n, copy |-> c]
           x == [row[r] EXCEPT !.state = "payment_submitted", !.rail = "pull", !.tx = t,
                               !.nonce = n, !.risk = "pending", !.status = "pending",
                               !.attempts = 0]
           s == [pc |-> "authorize", job |-> r, tx |-> t, operator |-> FALSE, rail |-> "pull"]
<1>2. n \in Nat /\ n \in Int /\ row[r] \in Row /\ RowOK(r, row[r])
      BY RailsAssumption DEF Inv, TypeOK, Rows
<1>3. t \in Tx /\ t.r = r /\ t.leg = "pull"
      BY <1>2 DEF Tx
<1>4. Put(r, x) /\ Become(w, s) /\ UNCHANGED chain /\ AuthorizationRail[r] # "external_x402"
      BY <1>1 DEF Settle
<1>5. nextNonce' \in Nat
      BY <1>1, <1>2 DEF Inv, TypeOK, Settle
<1> HIDE DEF t
<1>6. /\ x \in Row /\ x.state = "payment_submitted" /\ x.rail = "pull" /\ x.tx = t
      /\ x.budget = row[r].budget
  <2>1. x = Marked(Begun(row[r], t, n), "pending", 0)
        BY DEF Marked, Begun
  <2> HIDE DEF x
  <2>2. "pending" \in Marks /\ 0 \in Nat /\ n \in Int /\ t \in Tx /\ row[r] \in Row
        BY <1>2, <1>3 DEF Marks
  <2>. QED  BY <2>1, <2>2, MarkTyped, BegunTyped
<1>7. s \in Local /\ s.pc = "authorize" /\ s.job = r /\ s.tx = t
      BY <1>3 DEF Local, PC
<1> HIDE DEF x, s
<1>8. RowOK(r, x)
      BY <1>2, <1>3, <1>4, <1>6 DEF RowOK
<1>9. WorkerOK(s)
      BY <1>3, <1>7 DEF WorkerOK
<1>. QED  BY <1>4, <1>5, <1>6, <1>7, <1>8, <1>9, PutInv

LEMMA BeginTyped ==
    ASSUME NEW r \in Reservation, NEW operator \in BOOLEAN
    PROVE  /\ [Idle EXCEPT !.pc = "reconcile", !.job = r, !.operator = operator] \in Local
           /\ WorkerOK([Idle EXCEPT !.pc = "reconcile", !.job = r, !.operator = operator])
           /\ [Idle EXCEPT !.pc = "reconcile", !.job = r] \in Local
           /\ WorkerOK([Idle EXCEPT !.pc = "reconcile", !.job = r])
  BY DEF Idle, Local, PC, WorkerOK

LEMMA RequestInv ==
    ASSUME Inv, NEW w \in Worker, NEW r \in Reservation, Request(w, r)
    PROVE  Inv'
<1>1. row[r] \in Row /\ RowOK(r, row[r]) /\ nextNonce \in Nat
      BY DEF Inv, TypeOK, Rows
<1>2. ASSUME NEW operator \in BOOLEAN, StartReconcile(w, r, operator)
      PROVE  Inv'
      BY <1>2, BeginTyped, LocalInv DEF StartReconcile
<1>3. ASSUME NEW t \in pool \cup mined, FinalizePayment(w, r, t)
      PROVE  Inv'
  <2> DEFINE x == [row[r] EXCEPT !.state = "payment_submitted", !.rail = "pay", !.tx = t,
                                 !.status = "pending", !.attempts = 0]
             s == [Idle EXCEPT !.pc = "reconcile", !.job = r]
  <2>1. /\ Become(w, s) /\ UNCHANGED <<nextNonce, chain>> /\ t.leg = "pay" /\ t.r = r
        /\ AuthorizationRail[r] # "native_allowance"
        BY <1>3 DEF FinalizePayment, ProofMatches, Spends, Auth
  <2>2. s \in Local /\ WorkerOK(s)
        BY BeginTyped
  <2>3. t \in Tx
        BY DEF Inv, TypeOK, mined
  <2>4. CASE row[r].state = ProvenState(r) /\ Put(r, x)
    <3>1. /\ x \in Row /\ x.state = "payment_submitted" /\ x.rail = "pay" /\ x.tx = t
          /\ x.budget = row[r].budget
          BY <1>1, <2>3 DEF Row
    <3> HIDE DEF x, s
    <3>2. Proxy(r) => row[r].budget = "settled"
          BY <1>1, <2>4 DEF ProvenState, RowOK
    <3>3. RowOK(r, x)
          BY <1>1, <2>1, <2>3, <3>1, <3>2 DEF RowOK
    <3>. QED  BY <1>1, <2>1, <2>2, <2>4, <3>1, <3>3, PutInv
  <2>5. CASE row' = row
    <3> HIDE DEF s
    <3>. QED  BY <2>1, <2>2, <2>5, LocalInv DEF ledger
  <2>. QED  BY <1>3, <2>4, <2>5 DEF FinalizePayment
<1>. QED  BY <1>2, <1>3, SettleInv DEF Request

-----------------------------------------------------------------------------
(* Requests that go on. *)
LEMMA SendInv ==
    ASSUME Inv, NEW w \in Worker,
           AuthorizeBroadcast(w) \/ RefuseBroadcast(w) \/ SendDropped(w) \/ SendBlocked(w)
           \/ SendUnanswered(w)
    PROVE  Inv'
<1> DEFINE r == worker[w].job
<1>1. r \in Reservation /\ worker[w] \in Local
      BY DEF Inv, TypeOK, Workers, WorkerOK, AuthorizeBroadcast, RefuseBroadcast, SendDropped,
             SendBlocked, SendUnanswered
<1>2. row[r] \in Row /\ RowOK(r, row[r]) /\ nextNonce \in Nat
      BY <1>1 DEF Inv, TypeOK, Rows
<1>3. Blocked(r) \in Row /\ RowOK(r, Blocked(r))
  <2>1. /\ Blocked(r) \in Row /\ Blocked(r).state = row[r].state /\ Blocked(r).rail = row[r].rail
        /\ Blocked(r).tx = row[r].tx /\ Blocked(r).budget = row[r].budget
        BY <1>2 DEF Blocked, Row
  <2>. QED  BY <1>1, <1>2, <2>1, SameStage
<1>4. CASE AuthorizeBroadcast(w)
  <2>1. UNCHANGED <<nextNonce, chain>>
        BY <1>4 DEF AuthorizeBroadcast
  <2>2. CASE Return(w) /\ row' = row
        BY <2>1, <2>2, ReturnInv DEF ledger
  <2>3. CASE SamePending(w) /\ Put(r, [row[r] EXCEPT !.risk = "ready"]) /\ Goto(w, "send")
    <3> DEFINE x == [row[r] EXCEPT !.risk = "ready"]
    <3>1. /\ x \in Row /\ x.state = row[r].state /\ x.rail = row[r].rail
          /\ x.tx = row[r].tx /\ x.budget = row[r].budget
          BY <1>2 DEF Row
    <3>2. Put(r, x)
          BY <2>3
    <3> HIDE DEF x
    <3>3. RowOK(r, x)
          BY <1>1, <1>2, <3>1, SameStage
    <3>4. worker[w].tx \in Tx /\ worker[w].tx.leg = "pull"
          BY <1>4 DEF AuthorizeBroadcast, Inv, Workers, WorkerOK
    <3>5. \E s \in Local : WorkerOK(s) /\ Become(w, s)
          BY <1>1, <2>3, <3>4, GotoTyped DEF PC
    <3>. QED  BY <1>1, <1>2, <2>1, <3>1, <3>2, <3>3, <3>5, PutInv
  <2>. QED  BY <1>4, <2>2, <2>3 DEF AuthorizeBroadcast
<1>5. CASE RefuseBroadcast(w)
      BY <1>1, <1>3, <1>5, PendingInv DEF RefuseBroadcast
<1>6. CASE SendDropped(w)
      BY <1>6, ReturnInv DEF SendDropped
<1>7. CASE SendBlocked(w)
      BY <1>1, <1>2, <1>3, <1>7, PutInv, IdleTyped DEF SendBlocked, Return
<1>8. CASE SendUnanswered(w)
  <2>1. UNCHANGED <<ledger, chain>>
        BY <1>8 DEF SendUnanswered
  <2>2. \E s \in Local : WorkerOK(s) /\ Become(w, s)
    <3>1. CASE ThenReconcile(w)
          BY <1>1, <3>1, BeginTyped DEF ThenReconcile
    <3>2. CASE Goto(w, "review")
          BY <1>1, <3>2, GotoTyped DEF PC
    <3>. QED  BY <1>8, <3>1, <3>2 DEF SendUnanswered
  <2>. QED  BY <2>1, <2>2, LocalInv
<1>. QED  BY <1>4, <1>5, <1>6, <1>7, <1>8

(* What is recorded once the outcome of an attempt is known. *)
LEMMA RetryableOK ==
    ASSUME Inv, NEW r \in Reservation, NEW keep \in BOOLEAN
    PROVE  Retryable(r, keep) \in Row /\ RowOK(r, Retryable(r, keep))
<1> DEFINE x == Retryable(r, keep)
<1>1. row[r] \in Row /\ RowOK(r, row[r]) /\ NoNonce \in Int
      BY DEF Inv, TypeOK, Rows, NoNonce
<1>2. x \in Row /\ x.state = "spending_reserved" /\ x.budget = row[r].budget
  <2>1. CASE r \in SingleSubmission
        BY <1>1, <2>1 DEF Retryable, Row
  <2>2. CASE r \notin SingleSubmission
    <3> DEFINE n == IF keep THEN row[r].nonce ELSE NoNonce
               a == IF Proxy(r) THEN 0 ELSE row[r].auth
               y == [row[r] EXCEPT !.state = "spending_reserved", !.status = "retryable",
                                   !.tx = NoTx, !.rail = "none"]
    <3>1. y \in Row /\ y.state = "spending_reserved" /\ y.budget = row[r].budget
          BY <1>1 DEF Row
    <3>2. n \in Int /\ a \in Nat
          BY <1>1 DEF Row
    <3>3. x = [y EXCEPT !.nonce = n, !.auth = a]
          BY <1>1, <2>2 DEF Retryable, Row
    <3> HIDE DEF n, a, y
    <3>. QED  BY <3>1, <3>2, <3>3 DEF Row
  <2>. QED  BY <2>1, <2>2
<1> HIDE DEF x
<1>3. RowOK(r, x)
      BY <1>1, <1>2 DEF RowOK
<1>. QED  BY <1>2, <1>3 DEF x

LEMMA UnpaidOK ==
    ASSUME Inv, NEW r \in Reservation, row[r].state = "payment_submitted"
    PROVE  Unpaid(r) \in Row /\ RowOK(r, Unpaid(r))
<1>1. row[r] \in Row /\ RowOK(r, row[r])
      BY DEF Inv, TypeOK, Rows
<1>2. CASE Proxy(r) /\ row[r].rail = "pay"
  <2> DEFINE x == [row[r] EXCEPT !.state = "payer_funded", !.status = "retryable",
                                 !.tx = row[r].pull, !.rail = "pull", !.auth = 0]
  <2>1. x \in Row /\ x.state = "payer_funded" /\ x.budget = row[r].budget
        BY <1>1 DEF Row
  <2>2. Unpaid(r) = x
        BY <1>2 DEF Unpaid
  <2> HIDE DEF x
  <2>3. RowOK(r, x)
        BY <1>1, <1>2, <2>1 DEF RowOK
  <2>. QED  BY <2>1, <2>2, <2>3
<1>3. CASE ~ (Proxy(r) /\ row[r].rail = "pay")
      BY <1>3, RetryableOK DEF Unpaid
<1>. QED  BY <1>2, <1>3

LEMMA CompletedOK ==
    ASSUME Inv, NEW r \in Reservation, row[r].state = "payment_submitted",
           row[r].tx \in ok \cap confirmed
    PROVE  Completed(r) \in Row /\ RowOK(r, Completed(r))
<1>1. row[r] \in Row /\ RowOK(r, row[r])
      BY DEF Inv, TypeOK, Rows
<1>2. /\ row[r].tx.r = r /\ row[r].tx.leg = row[r].rail
      /\ row[r].rail = "pay" => AuthorizationRail[r] # "native_allowance"
      /\ row[r].rail = "pull" => AuthorizationRail[r] # "external_x402"
      /\ row[r].tx \in Tx
      BY <1>1 DEF RowOK
<1>3. row[r].rail \in {"pull", "pay"}
      BY <1>2 DEF Tx
<1>4. (row[r].rail = "pull" => Pulled(r)) /\ (row[r].rail = "pay" => Paid(r))
      BY <1>2 DEF Pulled, Paid
<1>5. CASE Proxy(r) /\ row[r].rail = "pull"
  <2> DEFINE st == IF row[r].auth # 0 THEN "proxy_payment_ready" ELSE "payer_funded"
             x == [row[r] EXCEPT !.state = st, !.pull = row[r].tx, !.status = "settled",
                                 !.budget = "settled"]
  <2>1. st \in {"proxy_payment_ready", "payer_funded"}
        OBVIOUS
  <2>2. Completed(r) = x
        BY <1>5 DEF Completed
  <2> HIDE DEF st
  <2>3. x \in Row /\ x.state = st /\ x.budget = "settled"
        BY <1>1, <1>2, <2>1 DEF Row
  <2> HIDE DEF x
  <2>4. RowOK(r, x)
        BY <1>4, <1>5, <2>1, <2>3 DEF RowOK
  <2>. QED  BY <2>2, <2>3, <2>4
<1>6. CASE ~ (Proxy(r) /\ row[r].rail = "pull")
  <2> DEFINE x == [row[r] EXCEPT !.state = "settled", !.status = "settled", !.budget = "settled"]
  <2>1. x \in Row /\ x.state = "settled" /\ x.budget = "settled"
        BY <1>1 DEF Row
  <2>2. Completed(r) = x
        BY <1>6 DEF Completed
  <2> HIDE DEF x
  <2>3. AuthorizationRail[r] \in Rail
        BY RailsAssumption
  <2>4. AuthorizationRail[r] # "external_x402" => Pulled(r)
        BY <1>1, <1>2, <1>3, <1>4, <1>6, <2>3 DEF Rail, Proxy, RowOK
  <2>5. AuthorizationRail[r] # "native_allowance" => Paid(r)
        BY <1>2, <1>3, <1>4, <1>6, <2>3 DEF Rail, Proxy
  <2>6. RowOK(r, x)
        BY <2>1, <2>4, <2>5 DEF RowOK
  <2>. QED  BY <2>1, <2>2, <2>6
<1>. QED  BY <1>5, <1>6

LEMMA OutcomeInv ==
    ASSUME Inv, NEW w \in Worker,
           Rejected(w) \/ StayPending(w) \/ Complete(w) \/ Reverted(w)
    PROVE  Inv'
<1> DEFINE r == worker[w].job
<1>1. r \in Reservation
      BY DEF Inv, Workers, WorkerOK, Rejected, StayPending, Complete, Reverted
<1>2. row[r] \in Row /\ RowOK(r, row[r])
      BY <1>1 DEF Inv, TypeOK, Rows
<1>3. CASE Rejected(w)
      BY <1>1, <1>3, RetryableOK, PendingInv DEF Rejected
<1>4. CASE Reverted(w)
      BY <1>1, <1>4, UnpaidOK, PendingInv DEF Reverted, SamePending
<1>5. CASE Complete(w)
  <2>1. worker[w].tx \in ok \cap confirmed
        BY <1>5 DEF Complete, Inv, Workers, WorkerOK
  <2>. QED  BY <1>1, <1>5, <2>1, CompletedOK, PendingInv DEF Complete, SamePending
<1>6. CASE StayPending(w)
  <2> DEFINE st == IF worker[w].pc = "review" THEN "manual_review_required" ELSE "pending"
             x == [row[r] EXCEPT !.status = st]
  <2>1. st \in {"manual_review_required", "pending"}
        OBVIOUS
  <2>2. PutIfPending(w, x) /\ Return(w) /\ UNCHANGED <<nextNonce, chain>>
        BY <1>6 DEF StayPending
  <2> HIDE DEF st
  <2>3. /\ x \in Row /\ x.state = row[r].state /\ x.rail = row[r].rail
        /\ x.tx = row[r].tx /\ x.budget = row[r].budget
        BY <1>2, <2>1 DEF Row
  <2> HIDE DEF x
  <2>4. RowOK(r, x)
        BY <1>1, <1>2, <2>3, SameStage
  <2>. QED  BY <1>1, <2>2, <2>3, <2>4, PendingInv
<1>. QED  BY <1>3, <1>4, <1>5, <1>6
LEMMA ReconcileInv ==
    ASSUME Inv, NEW w \in Worker, Reconcile(w) \/ ReconcileTooOld(w)
    PROVE  Inv'
<1>1. PICK r \in Reservation : r = worker[w].job
      BY DEF Inv, Workers, WorkerOK, Reconcile, ReconcileTooOld
<1>2. row[r] \in Row /\ RowOK(r, row[r]) /\ worker[w] \in Local /\ nextNonce \in Nat
      BY DEF Inv, TypeOK, Rows
<1>3. UNCHANGED <<nextNonce, chain>>
      BY DEF Reconcile, ReconcileTooOld
<1>4. CASE Return(w) /\ row' = row
      BY <1>3, <1>4, ReturnInv DEF ledger
<1>5. CASE Put(r, [row[r] EXCEPT !.status = "manual_review_required"]) /\ Return(w)
  <2> DEFINE x == [row[r] EXCEPT !.status = "manual_review_required"]
  <2>1. /\ x \in Row /\ x.state = row[r].state /\ x.rail = row[r].rail
        /\ x.tx = row[r].tx /\ x.budget = row[r].budget
        BY <1>2 DEF Row
  <2>2. Put(r, x)
        BY <1>5
  <2> HIDE DEF x
  <2>3. RowOK(r, x)
        BY <1>2, <2>1, SameStage
  <2>4. Idle \in Local /\ WorkerOK(Idle) /\ Become(w, Idle)
        BY <1>5, IdleTyped DEF Return
  <2>. QED  BY <1>2, <1>3, <2>1, <2>2, <2>3, <2>4, PutInv
<1>6. CASE /\ Put(r, [row[r] EXCEPT !.attempts = IF worker[w].operator THEN @ ELSE @ + 1])
           /\ Become(w, [worker[w] EXCEPT !.pc = "lookup", !.rail = row[r].rail])
  <2> DEFINE k == IF worker[w].operator THEN row[r].attempts ELSE row[r].attempts + 1
             x == [row[r] EXCEPT !.attempts = k]
             s == [worker[w] EXCEPT !.pc = "lookup", !.rail = row[r].rail]
  <2>1. k \in Nat /\ row[r].rail \in {"none", "pull", "pay"}
    <3>1. row[r].attempts \in Nat /\ row[r].rail \in {"none", "pull", "pay"}
          BY <1>2 DEF Row
    <3>. QED  BY <3>1
  <2>2. Put(r, x) /\ Become(w, s)
        BY <1>2, <1>6 DEF Row
  <2> HIDE DEF k
  <2>3. /\ x \in Row /\ x.state = row[r].state /\ x.rail = row[r].rail
        /\ x.tx = row[r].tx /\ x.budget = row[r].budget
        BY <1>2, <2>1 DEF Row
  <2>4. s \in Local /\ s.pc = "lookup" /\ s.job = r
        BY <1>1, <1>2, <2>1 DEF Local, PC
  <2> HIDE DEF x, s
  <2>5. RowOK(r, x)
        BY <1>2, <2>3, SameStage
  <2>6. WorkerOK(s)
        BY <2>4 DEF WorkerOK
  <2>. QED  BY <1>2, <1>3, <2>2, <2>3, <2>4, <2>5, <2>6, PutInv
<1>. QED  BY <1>1, <1>4, <1>5, <1>6 DEF Reconcile, ReconcileTooOld

(* The verdict on a transaction, from its receipt. *)
LEMMA VerdictOK ==
    ASSUME NEW w, NEW t \in Tx
    PROVE  /\ Verdict(w, t) \in PC \ {"idle", "authorize", "send"}
           /\ Verdict(w, t) = "complete" => t \in ok \cap confirmed
           /\ Verdict(w, t) = "resend" => t.leg = "pull"
<1>1. CASE t \in mined /\ t.leg # worker[w].rail
      BY <1>1 DEF Verdict, PC
<1>2. CASE ~ (t \in mined /\ t.leg # worker[w].rail) /\ t \in ok \cap confirmed
      BY <1>2 DEF Verdict, PC
<1>3. CASE /\ ~ (t \in mined /\ t.leg # worker[w].rail) /\ t \notin ok \cap confirmed
      BY <1>3 DEF Verdict, PC
<1>. QED  BY <1>1, <1>2, <1>3

LEMMA LookupInv ==
    ASSUME Inv, NEW w \in Worker, Lookup(w) \/ LookupFails(w)
    PROVE  Inv'
<1>1. PICK r \in Reservation : r = worker[w].job
      BY DEF Inv, Workers, WorkerOK, Lookup, LookupFails
<1>2. row[r] \in Row /\ UNCHANGED <<ledger, chain>>
      BY DEF Inv, TypeOK, Lookup, LookupFails
<1>3. CASE Return(w)
      BY <1>2, <1>3, ReturnInv
<1>4. ASSUME row[r].tx # NoTx, NEW pc \in PC \ {"idle", "authorize", "send"}, Found(w, pc),
             pc = "complete" => row[r].tx \in ok \cap confirmed,
             pc = "resend" => row[r].tx.leg = "pull"
      PROVE  Inv'
  <2> DEFINE s == [Idle EXCEPT !.pc = pc, !.job = r, !.tx = row[r].tx]
  <2>1. row[r].tx \in Tx
        BY <1>2, <1>4 DEF Row
  <2>2. s \in Local /\ s.pc = pc /\ s.job = r /\ s.tx = row[r].tx
        BY <2>1 DEF Local, Idle
  <2>3. Become(w, s)
        BY <1>1, <1>4 DEF Found
  <2> HIDE DEF s
  <2>4. WorkerOK(s)
        BY <1>4, <2>1, <2>2 DEF WorkerOK
  <2>. QED  BY <1>2, <2>2, <2>3, <2>4, LocalInv
<1>5. row[r].tx # NoTx => row[r].tx \in Tx
      BY <1>2 DEF Row
<1>6. CASE Lookup(w) /\ row[r].tx # NoTx
  <2> DEFINE v == Verdict(w, row[r].tx)
  <2>1. Found(w, v)
        BY <1>1, <1>6 DEF Lookup
  <2>2. /\ v \in PC \ {"idle", "authorize", "send"}
        /\ v = "complete" => row[r].tx \in ok \cap confirmed
        /\ v = "resend" => row[r].tx.leg = "pull"
        BY <1>5, <1>6, VerdictOK
  <2> HIDE DEF v
  <2>. QED  BY <1>4, <1>6, <2>1, <2>2
<1>7. CASE LookupFails(w)
      BY <1>1, <1>4, <1>7 DEF LookupFails, PC
<1>. QED  BY <1>1, <1>3, <1>6, <1>7 DEF Lookup

-----------------------------------------------------------------------------
(* Requests that are one transaction of the ledger. *)
LEMMA RowStepInv ==
    ASSUME Inv, NEW r \in Reservation,
           PrepareProxyPayment(r) \/ MarkReconciled(r) \/ FinalizeReservation(r)
           \/ ReleaseReservation(r)
    PROVE  Inv'
<1>1. row[r] \in Row /\ RowOK(r, row[r]) /\ nextNonce \in Nat
      BY DEF Inv, TypeOK, Rows
<1>2. UNCHANGED <<nextNonce, chain, worker>>
      BY DEF PrepareProxyPayment, MarkReconciled, FinalizeReservation, ReleaseReservation
<1>3. ASSUME NEW x \in Row, RowOK(r, x), Put(r, x)
      PROVE  Inv'
      BY <1>1, <1>2, <1>3, PutInv
<1>4. CASE PrepareProxyPayment(r)
  <2> DEFINE n == row[r].signed + 1
             x == [row[r] EXCEPT !.state = SignedState(r), !.auth = n, !.signed = n]
  <2>1. Put(r, x) /\ Proxy(r) /\ MaySign(r)
        BY <1>4 DEF PrepareProxyPayment
  <2>2. n \in Nat
    <3>1. row[r].signed \in Nat
          BY <1>1 DEF Row
    <3>. QED  BY <3>1
  <2>3. /\ SignedState(r) \in {"proxy_payment_ready", "proxy_authorization_ready"}
        /\ SignedState(r) = "proxy_payment_ready" =>
              row[r].state \in {"payer_funded", "proxy_payment_ready"}
        BY DEF SignedState
  <2> HIDE DEF n
  <2>4. /\ x \in Row /\ x.state = SignedState(r) /\ x.rail = row[r].rail
        /\ x.tx = row[r].tx /\ x.budget = row[r].budget
        BY <1>1, <2>2, <2>3 DEF Row
  <2> HIDE DEF x
  <2>5. RowOK(r, x)
        BY <1>1, <2>1, <2>3, <2>4 DEF RowOK
  <2>. QED  BY <1>3, <2>1, <2>4, <2>5
<1>5. CASE MarkReconciled(r)
  <2>1. PICK st \in {"settled", "retryable"} : Put(r, [row[r] EXCEPT !.status = st])
        BY <1>5 DEF MarkReconciled
  <2> DEFINE x == [row[r] EXCEPT !.status = st]
  <2>2. /\ x \in Row /\ x.state = row[r].state /\ x.rail = row[r].rail
        /\ x.tx = row[r].tx /\ x.budget = row[r].budget
        BY <1>1 DEF Row
  <2>3. Put(r, x)
        BY <2>1
  <2> HIDE DEF x
  <2>4. RowOK(r, x)
        BY <1>1, <2>2, SameStage
  <2>. QED  BY <1>3, <2>2, <2>3, <2>4
<1>6. CASE FinalizeReservation(r)
  <2> DEFINE x == [row[r] EXCEPT !.state = "finalized"]
  <2>1. x \in Row /\ x.state = "finalized" /\ x.budget = row[r].budget
        BY <1>1 DEF Row
  <2>2. Put(r, x) /\ row[r].state = "settled"
        BY <1>6 DEF FinalizeReservation
  <2> HIDE DEF x
  <2>3. RowOK(r, x)
        BY <1>1, <2>1, <2>2 DEF RowOK
  <2>. QED  BY <1>3, <2>1, <2>2, <2>3
<1>7. CASE ReleaseReservation(r)
  <2> DEFINE x == [row[r] EXCEPT !.state = "released", !.budget = "released"]
  <2>1. x \in Row /\ x.state = "released" /\ x.budget = "released"
        BY <1>1 DEF Row
  <2>2. Put(r, x)
        BY <1>7 DEF ReleaseReservation
  <2> HIDE DEF x
  <2>3. RowOK(r, x)
        BY <2>1 DEF RowOK
  <2>. QED  BY <1>3, <2>1, <2>2, <2>3
<1>. QED  BY <1>4, <1>5, <1>6, <1>7
-----------------------------------------------------------------------------
(* Steps of the chain: the ledger stands still, and what is confirmed stays. *)
ChainTyped ==
    /\ pool \subseteq Tx /\ ok \subseteq Tx /\ failed \subseteq Tx
    /\ confirmed \subseteq ok \cup failed
    /\ refused \subseteq Tx
    /\ count \in Nat
    /\ handed \subseteq Reservation \X Nat
    /\ expired \in [core : SUBSET (Reservation \X Nat), chain : SUBSET (Reservation \X Nat)]

LEMMA ChainInv ==
    ASSUME Inv, UNCHANGED ledger, worker' \in [Worker -> Local],
           \A w \in Worker : worker'[w] = worker[w] \/ WorkerOK(worker'[w]),
           ChainTyped', Funded', ok \cap confirmed \subseteq ok' \cap confirmed'
    PROVE  Inv'
<1>1. row' = row /\ nextNonce' = nextNonce
      BY DEF ledger
<1>2. TypeOK'
      BY <1>1 DEF Inv, TypeOK, ChainTyped
<1>3. ASSUME NEW r \in Reservation
      PROVE  (Pulled(r) => Pulled(r)') /\ (Paid(r) => Paid(r)')
      BY DEF Pulled, Paid
<1>4. Rows'
      BY <1>1, <1>3 DEF Inv, Rows, RowOK
<1>5. Workers'
  <2> SUFFICES ASSUME NEW w \in Worker
               PROVE  WorkerOK(worker[w])'
      BY DEF Workers
  <2>1. WorkerOK(worker'[w])
        BY DEF Inv, Workers
  <2>. QED  BY <2>1 DEF WorkerOK
<1>. QED  BY <1>2, <1>4, <1>5 DEF Inv

(* What a request sends is a pull. *)
LEMMA SubmitInv ==
    ASSUME Inv, NEW w \in Worker, SendAccepted(w) \/ SendRejected(w)
    PROVE  Inv'
<1> DEFINE t == worker[w].tx
<1>1. worker[w].job \in Reservation /\ t \in Tx /\ t.leg = "pull" /\ worker[w] \in Local
      BY DEF Inv, TypeOK, Workers, WorkerOK, SendAccepted, SendRejected
<1>2. \E s \in Local : WorkerOK(s) /\ Become(w, s)
  <2>1. CASE ThenReconcile(w)
        BY <1>1, <2>1, BeginTyped DEF ThenReconcile
  <2>2. ASSUME NEW pc \in {"pend", "review", "rejected"}, Goto(w, pc)
        PROVE  \E s \in Local : WorkerOK(s) /\ Become(w, s)
        BY <1>1, <2>2, GotoTyped DEF PC
  <2>. QED  BY <2>1, <2>2 DEF SendAccepted, SendRejected
<1>3. worker' \in [Worker -> Local] /\ \A v \in Worker : worker'[v] = worker[v] \/ WorkerOK(worker'[v])
      BY <1>2 DEF Inv, TypeOK, Become
<1>4. /\ UNCHANGED <<ledger, ok, failed, confirmed, count, handed, expired>>
      /\ pool' \subseteq pool \cup {t} /\ refused' \subseteq refused \cup {t}
      BY DEF SendAccepted, SendRejected
<1>5. ChainTyped'
      BY <1>1, <1>4 DEF Inv, TypeOK, ChainTyped
<1>6. Funded'
      BY <1>1, <1>4 DEF Inv, Funded, Pulled, mined, Spends
<1>. QED  BY <1>3, <1>4, <1>5, <1>6, ChainInv

LEMMA AuthorizationInv ==
    ASSUME Inv, NEW r \in Reservation, HandOver(r) \/ Expire(r)
    PROVE  Inv'
<1>1. row[r] \in Row /\ RowOK(r, row[r]) /\ Auth(r) \in Reservation \X Nat /\ Auth(r)[1] = r
  <2>1. row[r] \in Row /\ RowOK(r, row[r])
        BY DEF Inv, TypeOK, Rows
  <2>. QED  BY <2>1 DEF Row, Auth
<1>2. /\ UNCHANGED <<ledger, worker, pool, ok, failed, confirmed, count, refused>>
      /\ handed \subseteq handed' /\ handed' \subseteq handed \cup {Auth(r)}
      BY DEF HandOver, Expire
<1>3. /\ worker' \in [Worker -> Local]
      /\ \A v \in Worker : worker'[v] = worker[v] \/ WorkerOK(worker'[v])
      BY <1>2 DEF Inv, TypeOK
<1>4. CASE HandOver(r)
  <2>1. expired' = expired
        BY <1>4 DEF HandOver
  <2>2. ChainTyped'
        BY <1>1, <1>2, <2>1 DEF Inv, TypeOK, ChainTyped
  <2>3. Proxy(r) => Pulled(r)
        BY <1>1, <1>4 DEF HandOver, RowOK, Proxy
  <2>4. Funded'
        BY <1>1, <1>2, <2>3 DEF Inv, Funded, Pulled, mined
  <2>. QED  BY <1>2, <1>3, <2>2, <2>4, ChainInv
<1>5. CASE Expire(r)
  <2>1. handed' = handed
        BY <1>5 DEF Expire
  <2>2. expired' \in [core : SUBSET (Reservation \X Nat), chain : SUBSET (Reservation \X Nat)]
        BY <1>1, <1>5 DEF Expire, Inv, TypeOK
  <2>3. ChainTyped'
        BY <1>2, <2>1, <2>2 DEF Inv, TypeOK, ChainTyped
  <2>4. Funded'
        BY <1>2, <2>1 DEF Inv, Funded, Pulled, mined
  <2>. QED  BY <1>2, <1>3, <2>3, <2>4, ChainInv
<1>. QED  BY <1>4, <1>5

LEMMA NetworkInv ==
    ASSUME Inv, Network
    PROVE  Inv'
<1>1. PICK t \in BoundedTx \cup pool \cup mined :
         MerchantSends(t) \/ Mine(t) \/ Reorganise(t) \/ Confirm(t) \/ Drop(t)
      BY DEF Network
<1>2. t \in Tx /\ t.id \in Nat
      BY RailsAssumption DEF BoundedTx, Tx, Inv, TypeOK, mined
<1>3. UNCHANGED <<ledger, worker, refused, handed, expired>>
      BY <1>1 DEF MerchantSends, Mine, Reorganise, Confirm, Drop
<1>4. /\ worker' \in [Worker -> Local]
      /\ \A v \in Worker : worker'[v] = worker[v] \/ WorkerOK(worker'[v])
      BY <1>3 DEF Inv, TypeOK
<1>5. count' \in Nat
  <2>1. count \in Nat
        BY DEF Inv, TypeOK
  <2>. QED  BY <1>1, <1>2, <2>1 DEF MerchantSends, Mine, Reorganise, Confirm, Drop
<1>6. /\ ok' \subseteq ok \cup {t} /\ failed' \subseteq failed \cup {t}
      /\ pool' \subseteq pool \cup {t}
      /\ confirmed \subseteq confirmed' /\ confirmed' \subseteq ok' \cup failed'
      /\ ok \cap confirmed \subseteq ok'
      /\ t \in pool \cup mined \/ (t.leg = "pay" => Spends(t) \in handed)
      BY <1>1 DEF MerchantSends, Mine, Reorganise, Confirm, Drop, mined, Inv, TypeOK
<1>7. ChainTyped'
      BY <1>2, <1>3, <1>5, <1>6 DEF Inv, TypeOK, ChainTyped
<1>8. \A r \in Reservation : Pulled(r) => Pulled(r)'
      BY <1>6 DEF Pulled
<1>9. Funded'
  <2>1. \A a \in handed' : Proxy(a[1]) => Pulled(a[1])'
        BY <1>3, <1>8 DEF Inv, TypeOK, Funded
  <2>2. \A u \in (pool \cup mined)' : u.leg = "pay" => Spends(u) \in handed
        BY <1>6 DEF Inv, Funded, mined
  <2>. QED  BY <1>3, <2>1, <2>2 DEF Funded, Spends, Proxy
<1>. QED  BY <1>3, <1>4, <1>6, <1>7, <1>9, ChainInv

-----------------------------------------------------------------------------
LEMMA NextInv == Inv /\ [Next]_vars => Inv'
<1> SUFFICES ASSUME Inv, [Next]_vars
             PROVE  Inv'
    OBVIOUS
<1>1. CASE UNCHANGED vars
  <2>1. UNCHANGED <<ledger, chain, worker>>
        BY <1>1 DEF vars
  <2>. QED  BY <2>1, LedgerInv DEF Inv, TypeOK, ledger
<1>2. ASSUME NEW w \in Worker, Continue(w)
      PROVE  Inv'
      BY <1>2, SendInv, SubmitInv, OutcomeInv, ReconcileInv, LookupInv DEF Continue
<1>3. ASSUME NEW w \in Worker, Abandon(w)
      PROVE  Inv'
      BY <1>3, ReturnInv DEF Abandon
<1>. QED  BY <1>1, <1>2, <1>3, RequestInv, RowStepInv, AuthorizationInv, NetworkInv DEF Next

(* The inductive invariant of the rails: rows, requests and authorizations *)
(* only get as far as the confirmed chain lets them.                       *)
THEOREM RailsInvariant == Spec => []Inv
  BY InitInv, NextInv, PTL DEF Spec

(* Every variable keeps its type: no request stops for want of a field,    *)
(* whatever the others did to its row in between.                          *)
THEOREM RailTypes == Spec => []TypeOK
<1>1. Inv => TypeOK
      BY DEF Inv
<1>. QED  BY <1>1, RailsInvariant, PTL

(* _complete_native_reservation and _reconcile_external_reservation book a *)
(* budget as spent, and a reservation as settled, only over a confirmed    *)
(* transaction of that reservation: however requests interleave, die or    *)
(* are retried.                                                            *)
THEOREM SettledPaid == Spec => []SettledIsPaid
<1>1. Inv => SettledIsPaid
  <2>1. ASSUME NEW r \in Reservation
        PROVE  (Pulled(r) => Pulls(r) \cap confirmed # {}) /\ (Paid(r) => Payments(r) \cap confirmed # {})
        BY DEF Pulled, Paid, Pulls, Payments
  <2>. QED  BY <2>1 DEF Inv, Rows, RowOK, SettledIsPaid
<1>. QED  BY <1>1, RailsInvariant, PTL

(* The Clink payer's money reaches a merchant, or waits to be mined, only  *)
(* after the user's own pull is confirmed.                                 *)
THEOREM PayerFunded == Spec => []PayerIsFunded
<1>1. Inv => PayerIsFunded
  <2> SUFFICES ASSUME Inv, NEW t \in ok \cup pool, t.leg = "pay", Proxy(t.r)
               PROVE  Pulls(t.r) \cap confirmed # {}
      BY DEF PayerIsFunded
  <2>1. Spends(t) \in handed
        BY DEF Inv, Funded, mined
  <2>2. Pulled(t.r)
        BY <2>1 DEF Inv, Funded, Spends
  <2>. QED  BY <2>2 DEF Pulled, Pulls
<1>. QED  BY <1>1, RailsInvariant, PTL

-----------------------------------------------------------------------------
(* Money that may still move, or be taken back.                            *)
Unsettled == pool \cup (mined \ confirmed)

(* What has become of an authorization that can no longer be spent: it     *)
(* expired unused, or a transaction of it is confirmed as reverted: then   *)
(* Core has no more to do with it, though a merchant may send it again.           *)
Dead(a) ==
    \/ a \in expired.chain /\ ~ Consumed(a)
    \/ \E t \in failed \cap confirmed : t.leg = "pay" /\ Spends(t) = a

(* The user's pull is behind this row.                                     *)
Past(x) ==
    \/ x.state \in {"payer_funded", "proxy_payment_ready", "settled", "finalized"}
    \/ x.state = "payment_submitted" /\ x.rail = "pay"

Waits(x, t) == x.state = "payment_submitted" /\ x.tx = t

(* A row stands where the transactions and authorizations of its           *)
(* reservation have brought it.                                            *)
Pulling(r, x) ==
    /\ \A t \in Unsettled : t.r = r /\ t.leg = "pull" => Waits(x, t)
    /\ \A t \in ok : t.r = r /\ t.leg = "pull" => Waits(x, t) \/ Past(x)
Paying(r, x) ==
    /\ \A a \in handed : a[1] = r =>
          \/ Dead(a)
          \/ a[2] = x.auth /\ (Proxy(r) => Past(x) /\ x.state # "payer_funded")
    /\ x.state = "payment_submitted" /\ x.rail = "pay" => Spends(x.tx) = <<r, x.auth>>
Booking(r, x) ==
    /\ AuthorizationRail[r] # "external_x402"
    /\ \/ x.state \in {"spending_reserved", "proxy_authorization_ready"}
       \/ x.state = "payment_submitted" /\ x.rail = "pull"
    => x.budget = "reserved"
PlaceOK(r, x) == Pulling(r, x) /\ Paying(r, x) /\ Booking(r, x)
Places == \A r \in Reservation : PlaceOK(r, row[r])

(* A request that gives an attempt up has seen it fail for certain.        *)
CertainOK(s) ==
    /\ s.pc = "rejected" => s.tx \in refused
    /\ s.pc = "reverted" => s.tx \in failed \cap confirmed
Certain == \A w \in Worker : CertainOK(worker[w])

(* Transactions are in one place, and one of each kind gets through.       *)
Apart == pool \cap mined = {} /\ ok \cap failed = {}
Refusals == \A t \in refused : t.leg = "pull" /\ t \notin pool \cup mined
OnePull == \A t, u \in ok : t.leg = "pull" /\ u.leg = "pull" /\ t.r = u.r => t = u
OnePay == \A t, u \in ok : t.leg = "pay" /\ u.leg = "pay" /\ Spends(t) = Spends(u) => t = u
OwnRail ==
    /\ \A a \in handed : AuthorizationRail[a[1]] # "native_allowance"
    /\ \A t \in pool \cup mined : t.leg = "pull" => AuthorizationRail[t.r] # "external_x402"

ChainOK == Apart /\ Refusals /\ OnePull /\ OnePay /\ OwnRail

Certainly == Inv /\ Places /\ Certain /\ ChainOK

-----------------------------------------------------------------------------
(* What a step of Core may do to a row: x becomes y.                       *)
Same(x, y) ==
    y.state = x.state /\ y.rail = x.rail /\ y.tx = x.tx /\ y.auth = x.auth /\ y.budget = x.budget

Submits(r, x, y) ==
    /\ AuthorizationRail[r] # "external_x402"
    /\ x.state \in {"spending_reserved", "proxy_authorization_ready"}
    /\ y.state = "payment_submitted" /\ y.rail = "pull"
    /\ y.auth = x.auth /\ y.budget = x.budget

Binds(r, x, y) ==
    /\ AuthorizationRail[r] # "native_allowance"
    /\ x.state = (IF Proxy(r) THEN "proxy_payment_ready" ELSE "spending_reserved")
    /\ y.state = "payment_submitted" /\ y.rail = "pay" /\ Spends(y.tx) = <<r, x.auth>>
    /\ y.auth = x.auth /\ y.budget = x.budget

Signs(r, x, y) ==
    /\ Proxy(r)
    /\ \/ /\ x.state \in {"spending_reserved", "proxy_authorization_ready"}
          /\ y.state = "proxy_authorization_ready"
       \/ x.state = "payer_funded" /\ y.state = "proxy_payment_ready"
       \/ /\ x.state = "proxy_payment_ready" /\ y.state = "proxy_payment_ready"
          /\ Dead(<<r, x.auth>>)
    /\ y.budget = x.budget

Finalizes(x, y) ==
    /\ x.state = "settled" /\ y.state = "finalized"
    /\ y.auth = x.auth /\ y.budget = x.budget

Releases(r, x, y) ==
    /\ x.state \in {"spending_reserved", "proxy_authorization_ready"}
    /\ y.state = "released" /\ y.budget = "released" /\ y.auth = x.auth

(* The row's attempt failed for certain. *)
Retries(r, x, y) ==
    /\ x.state = "payment_submitted" /\ x.tx \in refused \cup (failed \cap confirmed)
    /\ y.budget = x.budget
    /\ \/ Proxy(r) /\ x.rail = "pay" /\ y.state = "payer_funded"
       \/ Proxy(r) /\ x.rail = "pull" /\ y.state = "spending_reserved"
       \/ ~ Proxy(r) /\ y.state = "spending_reserved" /\ y.auth = x.auth

Completes(r, x, y) ==
    /\ x.state = "payment_submitted" /\ x.tx \in ok \cap confirmed
    /\ y.auth = x.auth /\ y.budget = "settled"
    /\ \/ Proxy(r) /\ x.rail = "pull" /\ y.state = "payer_funded"
       \/ Proxy(r) /\ x.rail = "pull" /\ y.state = "proxy_payment_ready"
       \/ ~ (Proxy(r) /\ x.rail = "pull") /\ y.state = "settled"

Moves(r, x, y) ==
    Same(x, y) \/ Submits(r, x, y) \/ Binds(r, x, y) \/ Signs(r, x, y) \/ Finalizes(x, y)
    \/ Releases(r, x, y) \/ Retries(r, x, y) \/ Completes(r, x, y)

(* Only one row changes, and it moves. *)
RowMoves ==
    \/ row' = row
    \/ \E r \in Reservation : /\ Moves(r, row[r], row'[r])
                              /\ \A q \in Reservation \ {r} : row'[q] = row[q]

LEMMA PutMoves ==
    ASSUME Inv, NEW r \in Reservation, NEW x, Put(r, x), Moves(r, row[r], x)
    PROVE  RowMoves
  BY DEF RowMoves, Put, Inv, TypeOK

LEMMA PendingMoves ==
    ASSUME Inv, NEW w \in Worker, worker[w].job \in Reservation, NEW x, PutIfPending(w, x),
           SamePending(w) => Moves(worker[w].job, row[worker[w].job], x)
    PROVE  RowMoves
  BY PutMoves DEF PutIfPending, RowMoves

LEMMA SettleMoves ==
    ASSUME Inv, NEW w \in Worker, NEW r \in Reservation, NEW c \in Copy, Settle(w, r, c)
    PROVE  RowMoves
<1>1. row[r] \in Row
      BY DEF Inv, TypeOK
<1>2. PICK t, n : Put(r, [row[r] EXCEPT !.state = "payment_submitted", !.rail = "pull", !.tx = t,
                                        !.nonce = n, !.risk = "pending", !.status = "pending",
                                        !.attempts = 0])
      BY DEF Settle
<1>3. PICK x : x = [row[r] EXCEPT !.state = "payment_submitted", !.rail = "pull", !.tx = t,
                                  !.nonce = n, !.risk = "pending", !.status = "pending",
                                  !.attempts = 0]
      OBVIOUS
<1>4. /\ x.state = "payment_submitted" /\ x.rail = "pull"
      /\ x.auth = row[r].auth /\ x.budget = row[r].budget
      BY <1>1, <1>3 DEF Row
<1>5. /\ AuthorizationRail[r] # "external_x402"
      /\ row[r].state \in {"spending_reserved", "proxy_authorization_ready"}
      BY DEF Settle, SettleState
<1>6. Moves(r, row[r], x)
      BY <1>4, <1>5 DEF Moves, Submits
<1>. QED  BY <1>2, <1>3, <1>6, PutMoves

LEMMA FinalizeMoves ==
    ASSUME Inv, NEW w \in Worker, NEW r \in Reservation, NEW t \in pool \cup mined,
           FinalizePayment(w, r, t)
    PROVE  RowMoves
<1>1. row[r] \in Row
      BY DEF Inv, TypeOK
<1>2. CASE row' = row
      BY <1>2 DEF RowMoves
<1>3. CASE /\ row[r].state = ProvenState(r)
           /\ Put(r, [row[r] EXCEPT !.state = "payment_submitted", !.rail = "pay", !.tx = t,
                                    !.status = "pending", !.attempts = 0])
  <2>1. PICK x : x = [row[r] EXCEPT !.state = "payment_submitted", !.rail = "pay", !.tx = t,
                                    !.status = "pending", !.attempts = 0]
        OBVIOUS
  <2>2. /\ x.state = "payment_submitted" /\ x.rail = "pay" /\ x.tx = t
        /\ x.auth = row[r].auth /\ x.budget = row[r].budget
        BY <1>1, <2>1 DEF Row
  <2>3. AuthorizationRail[r] # "native_allowance" /\ Spends(t) = <<r, row[r].auth>>
        BY DEF FinalizePayment, ProofMatches, Auth
  <2>4. Moves(r, row[r], x)
        BY <1>3, <2>2, <2>3 DEF Moves, Binds, ProvenState
  <2>. QED  BY <1>3, <2>1, <2>4, PutMoves
<1>. QED  BY <1>2, <1>3 DEF FinalizePayment

LEMMA RowStepMoves ==
    ASSUME Inv, NEW r \in Reservation,
           PrepareProxyPayment(r) \/ MarkReconciled(r) \/ FinalizeReservation(r)
           \/ ReleaseReservation(r)
    PROVE  RowMoves
<1>1. row[r] \in Row
      BY DEF Inv, TypeOK
<1>2. CASE PrepareProxyPayment(r)
  <2>1. PICK x : x = [row[r] EXCEPT !.state = SignedState(r), !.auth = row[r].signed + 1,
                                    !.signed = row[r].signed + 1]
        OBVIOUS
  <2>2. Put(r, x) /\ Proxy(r) /\ MaySign(r)
        BY <1>2, <2>1 DEF PrepareProxyPayment
  <2>3. x.state = SignedState(r) /\ x.budget = row[r].budget
        BY <1>1, <2>1 DEF Row
  <2>4. RotationSafe(r) => Dead(<<r, row[r].auth>>)
        BY DEF RotationSafe, Dead, Auth
  <2>5. Signs(r, row[r], x)
        BY <2>2, <2>3, <2>4 DEF Signs, MaySign, SignedState
  <2>. QED  BY <2>2, <2>5, PutMoves DEF Moves
<1>3. CASE MarkReconciled(r)
  <2>1. PICK st : Put(r, [row[r] EXCEPT !.status = st])
        BY <1>3 DEF MarkReconciled
  <2>2. PICK x : x = [row[r] EXCEPT !.status = st]
        OBVIOUS
  <2>3. Same(row[r], x)
        BY <1>1, <2>2 DEF Row, Same
  <2>. QED  BY <2>1, <2>2, <2>3, PutMoves DEF Moves
<1>4. CASE FinalizeReservation(r)
  <2>1. PICK x : x = [row[r] EXCEPT !.state = "finalized"]
        OBVIOUS
  <2>2. Put(r, x) /\ row[r].state = "settled"
        BY <1>4, <2>1 DEF FinalizeReservation
  <2>3. Finalizes(row[r], x)
        BY <1>1, <2>1, <2>2 DEF Row, Finalizes
  <2>. QED  BY <2>2, <2>3, PutMoves DEF Moves
<1>5. CASE ReleaseReservation(r)
  <2>1. PICK x : x = [row[r] EXCEPT !.state = "released", !.budget = "released"]
        OBVIOUS
  <2>2. Put(r, x) /\ row[r].state \in {"spending_reserved", "proxy_authorization_ready"}
        BY <1>1, <1>5, <2>1 DEF ReleaseReservation, Releasable, Row
  <2>3. Releases(r, row[r], x)
        BY <1>1, <2>1, <2>2 DEF Row, Releases
  <2>. QED  BY <2>2, <2>3, PutMoves DEF Moves
<1>. QED  BY <1>2, <1>3, <1>4, <1>5

(* What the row is given once the outcome of its attempt is known. *)
LEMMA RetryableMoves ==
    ASSUME Inv, NEW r \in Reservation, NEW keep \in BOOLEAN, row[r].state = "payment_submitted",
           row[r].tx \in refused \cup (failed \cap confirmed), ~ (Proxy(r) /\ row[r].rail = "pay")
    PROVE  Retries(r, row[r], Retryable(r, keep))
<1>1. row[r] \in Row /\ row[r].rail \in {"pull", "pay"}
  <2>1. row[r].tx \in Tx /\ row[r].tx.leg = row[r].rail
        BY DEF Inv, Rows, RowOK
  <2>. QED  BY <2>1 DEF Inv, TypeOK, Tx
<1>2. CASE r \in SingleSubmission
  <2>1. PICK x : x = [row[r] EXCEPT !.state = "spending_reserved", !.status = "failed", !.sealed = TRUE]
        OBVIOUS
  <2>2. x.state = "spending_reserved" /\ x.auth = row[r].auth /\ x.budget = row[r].budget
        BY <1>1, <2>1 DEF Row
  <2>3. Retryable(r, keep) = x
        BY <1>2, <2>1 DEF Retryable
  <2>. QED  BY <1>1, <2>2, <2>3 DEF Retries
<1>3. CASE r \notin SingleSubmission
  <2> DEFINE n == IF keep THEN row[r].nonce ELSE NoNonce
             a == IF Proxy(r) THEN 0 ELSE row[r].auth
             y == [row[r] EXCEPT !.state = "spending_reserved", !.status = "retryable",
                                 !.tx = NoTx, !.rail = "none"]
  <2>1. y.state = "spending_reserved" /\ y.budget = row[r].budget /\ y.auth = row[r].auth /\ y \in Row
        BY <1>1 DEF Row
  <2>2. Retryable(r, keep) = [y EXCEPT !.nonce = n, !.auth = a]
        BY <1>1, <1>3 DEF Retryable, Row
  <2>3. ~ Proxy(r) => a = row[r].auth
        OBVIOUS
  <2> HIDE DEF n, a, y
  <2>4. PICK x : x = [y EXCEPT !.nonce = n, !.auth = a]
        OBVIOUS
  <2>5. x.state = "spending_reserved" /\ x.auth = a /\ x.budget = row[r].budget
        BY <2>1, <2>4 DEF Row
  <2>6. Retries(r, row[r], x)
        BY <1>1, <2>3, <2>5 DEF Retries
  <2>. QED  BY <2>2, <2>4, <2>6
<1>. QED  BY <1>2, <1>3

LEMMA UnpaidMoves ==
    ASSUME Inv, NEW r \in Reservation, row[r].state = "payment_submitted",
           row[r].tx \in failed \cap confirmed
    PROVE  Retries(r, row[r], Unpaid(r))
<1>1. row[r] \in Row
      BY DEF Inv, TypeOK
<1>2. CASE Proxy(r) /\ row[r].rail = "pay"
  <2>1. PICK x : x = [row[r] EXCEPT !.state = "payer_funded", !.status = "retryable",
                                    !.tx = row[r].pull, !.rail = "pull", !.auth = 0]
        OBVIOUS
  <2>2. x.state = "payer_funded" /\ x.budget = row[r].budget
        BY <1>1, <2>1 DEF Row
  <2>3. Unpaid(r) = x
        BY <1>2, <2>1 DEF Unpaid
  <2>. QED  BY <1>2, <2>2, <2>3 DEF Retries
<1>3. CASE ~ (Proxy(r) /\ row[r].rail = "pay")
      BY <1>3, RetryableMoves DEF Unpaid
<1>. QED  BY <1>2, <1>3

LEMMA CompletedMoves ==
    ASSUME Inv, NEW r \in Reservation, row[r].state = "payment_submitted",
           row[r].tx \in ok \cap confirmed
    PROVE  Completes(r, row[r], Completed(r))
<1>1. row[r] \in Row
      BY DEF Inv, TypeOK
<1>2. CASE Proxy(r) /\ row[r].rail = "pull"
  <2> DEFINE st == IF row[r].auth # 0 THEN "proxy_payment_ready" ELSE "payer_funded"
  <2>1. st \in {"proxy_payment_ready", "payer_funded"}
        OBVIOUS
  <2>2. Completed(r) = [row[r] EXCEPT !.state = st, !.pull = row[r].tx, !.status = "settled",
                                      !.budget = "settled"]
        BY <1>2 DEF Completed
  <2> HIDE DEF st
  <2>3. PICK x : x = [row[r] EXCEPT !.state = st, !.pull = row[r].tx, !.status = "settled",
                                    !.budget = "settled"]
        OBVIOUS
  <2>4. x.state = st /\ x.budget = "settled" /\ x.auth = row[r].auth
        BY <1>1, <2>3 DEF Row
  <2>. QED  BY <1>2, <2>1, <2>2, <2>3, <2>4 DEF Completes
<1>3. CASE ~ (Proxy(r) /\ row[r].rail = "pull")
  <2>1. PICK x : x = [row[r] EXCEPT !.state = "settled", !.status = "settled", !.budget = "settled"]
        OBVIOUS
  <2>2. x.state = "settled" /\ x.budget = "settled" /\ x.auth = row[r].auth
        BY <1>1, <2>1 DEF Row
  <2>3. Completed(r) = x
        BY <1>3, <2>1 DEF Completed
  <2>. QED  BY <1>3, <2>2, <2>3 DEF Completes
<1>. QED  BY <1>2, <1>3

LEMMA OutcomeMoves ==
    ASSUME Inv, Certain, ChainOK, NEW w \in Worker,
           Rejected(w) \/ StayPending(w) \/ Complete(w) \/ Reverted(w)
    PROVE  RowMoves
<1> DEFINE r == worker[w].job
<1>1. r \in Reservation
      BY DEF Inv, Workers, WorkerOK, Rejected, StayPending, Complete, Reverted
<1>2. row[r] \in Row
      BY <1>1 DEF Inv, TypeOK
<1>3. CASE Rejected(w)
  <2>1. worker[w].tx \in refused /\ worker[w].tx.leg = "pull"
        BY <1>3 DEF Certain, CertainOK, Rejected, ChainOK, Refusals
  <2>2. SamePending(w) => Moves(r, row[r], Retryable(r, TRUE))
    <3> SUFFICES ASSUME SamePending(w) PROVE Retries(r, row[r], Retryable(r, TRUE))
        BY DEF Moves
    <3>1. row[r].state = "payment_submitted" /\ row[r].tx = worker[w].tx
          BY DEF SamePending
    <3>2. row[r].rail = "pull"
          BY <1>1, <2>1, <3>1 DEF Inv, Rows, RowOK
    <3>. QED  BY <1>1, <2>1, <3>1, <3>2, RetryableMoves
  <2>. QED  BY <1>1, <1>3, <2>2, PendingMoves DEF Rejected
<1>4. CASE Reverted(w)
  <2>1. worker[w].tx \in failed \cap confirmed
        BY <1>4 DEF Certain, CertainOK, Reverted
  <2>2. SamePending(w) => Moves(r, row[r], Unpaid(r))
        BY <1>1, <2>1, UnpaidMoves DEF SamePending, Moves
  <2>. QED  BY <1>1, <1>4, <2>2, PendingMoves DEF Reverted
<1>5. CASE Complete(w)
  <2>1. worker[w].tx \in ok \cap confirmed
        BY <1>5 DEF Complete, Inv, Workers, WorkerOK
  <2>2. SamePending(w) => Moves(r, row[r], Completed(r))
        BY <1>1, <2>1, CompletedMoves DEF SamePending, Moves
  <2>. QED  BY <1>1, <1>5, <2>2, PendingMoves DEF Complete
<1>6. CASE StayPending(w)
  <2>1. PICK st : PutIfPending(w, [row[r] EXCEPT !.status = st])
        BY <1>6 DEF StayPending
  <2>2. PICK x : x = [row[r] EXCEPT !.status = st]
        OBVIOUS
  <2>3. Same(row[r], x)
        BY <1>2, <2>2 DEF Row, Same
  <2>. QED  BY <1>1, <2>1, <2>2, <2>3, PendingMoves DEF Moves
<1>. QED  BY <1>3, <1>4, <1>5, <1>6

LEMMA SendMoves ==
    ASSUME Inv, NEW w \in Worker,
           AuthorizeBroadcast(w) \/ RefuseBroadcast(w) \/ SendBlocked(w)
           \/ Reconcile(w) \/ ReconcileTooOld(w)
    PROVE  RowMoves
<1> DEFINE r == worker[w].job
<1>1. r \in Reservation
      BY DEF Inv, Workers, WorkerOK, AuthorizeBroadcast, RefuseBroadcast, SendBlocked,
             Reconcile, ReconcileTooOld
<1>2. row[r] \in Row
      BY <1>1 DEF Inv, TypeOK
<1>3. CASE row' = row
      BY <1>3 DEF RowMoves
<1>4. CASE Put(r, Blocked(r))
  <2>1. PICK x : x = [row[r] EXCEPT !.risk = "blocked", !.status = "manual_review_required"]
        OBVIOUS
  <2>2. Same(row[r], x)
        BY <1>2, <2>1 DEF Row, Same
  <2>. QED  BY <1>1, <1>4, <2>1, <2>2, PutMoves DEF Moves, Blocked
<1>5. CASE Put(r, [row[r] EXCEPT !.risk = "ready"])
  <2>1. PICK x : x = [row[r] EXCEPT !.risk = "ready"]
        OBVIOUS
  <2>2. Same(row[r], x)
        BY <1>2, <2>1 DEF Row, Same
  <2>. QED  BY <1>1, <1>5, <2>1, <2>2, PutMoves DEF Moves
<1>6. CASE Put(r, [row[r] EXCEPT !.status = "manual_review_required"])
  <2>1. PICK x : x = [row[r] EXCEPT !.status = "manual_review_required"]
        OBVIOUS
  <2>2. Same(row[r], x)
        BY <1>2, <2>1 DEF Row, Same
  <2>. QED  BY <1>1, <1>6, <2>1, <2>2, PutMoves DEF Moves
<1>7. CASE Put(r, [row[r] EXCEPT !.attempts = IF worker[w].operator THEN @ ELSE @ + 1])
  <2>1. PICK x : x = [row[r] EXCEPT !.attempts = IF worker[w].operator THEN @ ELSE @ + 1]
        OBVIOUS
  <2>2. Same(row[r], x)
        BY <1>2, <2>1 DEF Row, Same
  <2>. QED  BY <1>1, <1>7, <2>1, <2>2, PutMoves DEF Moves
<1>. QED  BY <1>3, <1>4, <1>5, <1>6, <1>7
          DEF AuthorizeBroadcast, RefuseBroadcast, SendBlocked, Reconcile, ReconcileTooOld,
              PutIfPending

LEMMA NextMoves ==
    ASSUME Inv, Certain, ChainOK, [Next]_vars
    PROVE  RowMoves
<1>1. CASE row' = row
      BY <1>1 DEF RowMoves
<1>2. ASSUME NEW w \in Worker, Continue(w) \/ Abandon(w), row' # row
      PROVE  RowMoves
  <2>1. \/ AuthorizeBroadcast(w) \/ RefuseBroadcast(w) \/ SendBlocked(w)
        \/ Reconcile(w) \/ ReconcileTooOld(w)
        \/ Rejected(w) \/ StayPending(w) \/ Complete(w) \/ Reverted(w)
        BY <1>2 DEF Continue, Abandon, SendDropped, SendAccepted, SendUnanswered, SendRejected,
                    Lookup, LookupFails, ledger
  <2>. QED  BY <2>1, SendMoves, OutcomeMoves
<1>3. ASSUME NEW w \in Worker, NEW r \in Reservation, Request(w, r), row' # row
      PROVE  RowMoves
  <2>1. (\E c \in Copy : Settle(w, r, c)) \/ (\E t \in pool \cup mined : FinalizePayment(w, r, t))
        BY <1>3 DEF Request, StartReconcile, ledger
  <2>. QED  BY <2>1, SettleMoves, FinalizeMoves
<1>4. ASSUME NEW r \in Reservation, row' # row, HandOver(r) \/ Expire(r)
      PROVE  FALSE
      BY <1>4 DEF HandOver, Expire, ledger
<1>5. ASSUME Network, row' # row
      PROVE  FALSE
      BY <1>5 DEF Network, MerchantSends, Mine, Reorganise, Confirm, Drop, ledger
<1>6. ASSUME row' # row
      PROVE  Next
      BY <1>6 DEF vars, ledger
<1>. QED  BY <1>1, <1>2, <1>3, <1>4, <1>5, <1>6, RowStepMoves DEF Next

-----------------------------------------------------------------------------
(* A row that moves stays where its transactions have brought it.          *)
LEMMA MovesPlace ==
    ASSUME Certainly, NEW r \in Reservation, NEW y, Moves(r, row[r], y)
    PROVE  PlaceOK(r, y)
<1> DEFINE x == row[r]
<1>1. PlaceOK(r, x) /\ RowOK(r, x) /\ x \in Row
      BY DEF Certainly, Places, Inv, Rows, TypeOK
<1>2. /\ AuthorizationRail[r] \in Rail
      /\ Apart /\ Refusals /\ OwnRail
      BY RailsAssumption DEF Certainly, ChainOK
<1>3. x.state = "payment_submitted" => x.tx.r = r /\ x.tx.leg = x.rail /\ x.rail \in {"pull", "pay"}
      BY <1>1 DEF RowOK, Tx
<1>4. ASSUME NEW t \in ok, t.r = r, t.leg = "pull"
      PROVE  Waits(x, t) \/ Past(x)
      BY <1>1, <1>4 DEF PlaceOK, Pulling
<1>5. ASSUME NEW t \in Unsettled, t.r = r, t.leg = "pull"
      PROVE  Waits(x, t)
      BY <1>1, <1>5 DEF PlaceOK, Pulling
<1>6. ASSUME NEW a \in handed, a[1] = r
      PROVE  Dead(a) \/ (a[2] = x.auth /\ (Proxy(r) => Past(x) /\ x.state # "payer_funded"))
      BY <1>1, <1>6 DEF PlaceOK, Paying
<1>7. ASSUME NEW a \in handed, a[1] = r
      PROVE  a = <<r, a[2]>>
      BY <1>7 DEF Certainly, Inv, TypeOK
<1> HIDE DEF x
<1>8. CASE Same(x, y)
      BY <1>1, <1>8 DEF Same, PlaceOK, Pulling, Paying, Booking, Waits, Past
<1>9. CASE Submits(r, x, y)
  <2>1. Pulling(r, y)
        BY <1>4, <1>5, <1>9 DEF Submits, Pulling, Waits, Past
  <2>2. Paying(r, y)
        BY <1>6, <1>9 DEF Submits, Paying, Past
  <2>3. Booking(r, y)
        BY <1>1, <1>9 DEF Submits, Booking, PlaceOK
  <2>. QED  BY <2>1, <2>2, <2>3 DEF PlaceOK
<1>10. CASE Binds(r, x, y)
  <2>1. Pulling(r, y)
    <3>1. ASSUME NEW t \in Unsettled, t.r = r, t.leg = "pull"
          PROVE  FALSE
          BY <1>5, <1>10, <3>1 DEF Binds, Waits
    <3>. QED  BY <3>1, <1>10 DEF Binds, Pulling, Past
  <2>2. Paying(r, y)
        BY <1>6, <1>10 DEF Binds, Paying, Past
  <2>3. Booking(r, y)
        BY <1>10 DEF Binds, Booking
  <2>. QED  BY <2>1, <2>2, <2>3 DEF PlaceOK
<1>11. CASE Signs(r, x, y)
  <2>1. Pulling(r, y)
        BY <1>4, <1>5, <1>11 DEF Signs, Pulling, Waits, Past
  <2>2. Paying(r, y)
        BY <1>6, <1>7, <1>11 DEF Signs, Paying, Past
  <2>3. Booking(r, y)
        BY <1>1, <1>11 DEF Signs, Booking, PlaceOK
  <2>. QED  BY <2>1, <2>2, <2>3 DEF PlaceOK
<1>12. CASE Finalizes(x, y)
  <2>1. Pulling(r, y)
        BY <1>4, <1>5, <1>12 DEF Finalizes, Pulling, Waits, Past
  <2>2. Paying(r, y)
        BY <1>6, <1>12 DEF Finalizes, Paying, Past
  <2>3. Booking(r, y)
        BY <1>12 DEF Finalizes, Booking
  <2>. QED  BY <2>1, <2>2, <2>3 DEF PlaceOK
<1>13. CASE Releases(r, x, y)
  <2>1. Pulling(r, y)
        BY <1>4, <1>5, <1>13 DEF Releases, Pulling, Waits, Past
  <2>2. Paying(r, y)
        BY <1>6, <1>13 DEF Releases, Paying, Past
  <2>3. Booking(r, y)
        BY <1>13 DEF Releases, Booking
  <2>. QED  BY <2>1, <2>2, <2>3 DEF PlaceOK
<1>14. CASE Retries(r, x, y)
  <2>1. x.tx \notin ok \cup Unsettled
    <3>1. x.tx \in refused => x.tx \notin pool \cup mined
          BY <1>2 DEF Refusals
    <3>2. x.tx \in failed \cap confirmed => x.tx \notin ok \cup Unsettled
          BY <1>2 DEF Apart, Unsettled, mined
    <3>. QED  BY <3>1, <3>2, <1>14 DEF Retries, Unsettled, mined
  <2>2. ASSUME NEW t \in ok \cup Unsettled, t.r = r, t.leg = "pull"
        PROVE  t \in ok /\ Proxy(r) /\ x.rail = "pay"
    <3>1. Waits(x, t) => FALSE
          BY <2>1, <2>2 DEF Waits
    <3>2. t \in ok /\ Past(x)
          BY <1>4, <1>5, <2>2, <3>1
    <3>3. x.state = "payment_submitted" /\ x.rail = "pay"
          BY <1>14, <3>2 DEF Retries, Past
    <3>5. AuthorizationRail[r] # "external_x402"
          BY <1>2, <2>2, <3>2 DEF OwnRail, mined
    <3>. QED  BY <1>1, <1>2, <3>2, <3>3, <3>5 DEF RowOK, Rail, Proxy
  <2>3. Pulling(r, y)
        BY <2>2, <1>14, <1>5, <1>3 DEF Retries, Pulling, Waits, Past, Unsettled
  <2>4. ASSUME x.rail = "pay"
        PROVE  Dead(<<r, x.auth>>)
    <3>1. x.tx \in failed \cap confirmed
          BY <1>2, <1>3, <1>14, <2>4 DEF Retries, Refusals
    <3>2. x.tx.leg = "pay" /\ Spends(x.tx) = <<r, x.auth>>
          BY <1>1, <1>3, <1>14, <2>4 DEF Retries, PlaceOK, Paying
    <3>. QED  BY <3>1, <3>2 DEF Dead
  <2>5. Paying(r, y)
        BY <1>3, <1>6, <1>7, <1>14, <2>4 DEF Retries, Paying, Past
  <2>6. Booking(r, y)
        BY <1>1, <1>2, <1>3, <1>14 DEF Retries, Booking, PlaceOK, Proxy, Rail, RowOK
  <2>. QED  BY <2>3, <2>5, <2>6 DEF PlaceOK
<1>15. CASE Completes(r, x, y)
  <2>1. Past(y) /\ y.state # "payment_submitted" /\ (y.state = "payer_funded" => Proxy(r) /\ x.rail = "pull")
        BY <1>15 DEF Completes, Past
  <2>2. x.tx \notin Unsettled
        BY <1>2, <1>15 DEF Completes, Apart, Unsettled, mined
  <2>3. Pulling(r, y)
        BY <1>5, <2>1, <2>2 DEF Pulling, Waits
  <2>4. Paying(r, y)
        BY <1>3, <1>6, <1>15, <2>1 DEF Completes, Paying, Past
  <2>5. Booking(r, y)
        BY <1>15, <2>1 DEF Completes, Booking
  <2>. QED  BY <2>3, <2>4, <2>5 DEF PlaceOK
<1>. QED  BY <1>8, <1>9, <1>10, <1>11, <1>12, <1>13, <1>14, <1>15 DEF Moves, x

-----------------------------------------------------------------------------
(* The ledger moves: the chain stands still.                               *)
LEMMA CertainStep ==
    ASSUME Inv, Certain, [Next]_vars,
           refused \subseteq refused', failed \cap confirmed \subseteq failed' \cap confirmed'
    PROVE  Certain'
<1> SUFFICES ASSUME NEW w \in Worker
             PROVE  CertainOK(worker[w])'
    BY DEF Certain
<1>1. ASSUME CertainOK(worker'[w])
      PROVE  CertainOK(worker[w])'
      BY <1>1 DEF CertainOK
<1>2. CASE worker'[w] = worker[w]
      BY <1>1, <1>2 DEF Certain
<1>3. ASSUME NEW v \in Worker, NEW s, Become(v, s), CertainOK(s)'
      PROVE  CertainOK(worker[w])'
  <2>1. worker'[w] = s \/ worker'[w] = worker[w]
        BY <1>3 DEF Become, Inv, TypeOK
  <2>. QED  BY <1>2, <1>3, <2>1 DEF CertainOK
<1>4. ASSUME NEW v \in Worker, NEW s, Become(v, s), s.pc \notin {"rejected", "reverted"}
      PROVE  CertainOK(worker[w])'
  <2>1. worker'[w] = s \/ worker'[w] = worker[w]
        BY <1>4 DEF Become, Inv, TypeOK
  <2>. QED  BY <1>2, <1>4, <2>1 DEF CertainOK
<1>5. ASSUME NEW v \in Worker, Return(v)
      PROVE  CertainOK(worker[w])'
      BY <1>4, <1>5, IdleTyped DEF Return
<1>6. ASSUME NEW v \in Worker, NEW pc, Goto(v, pc), pc \notin {"rejected", "reverted"}
      PROVE  CertainOK(worker[w])'
  <2>1. PICK s : s = [worker[v] EXCEPT !.pc = pc]
        OBVIOUS
  <2>2. s.pc = pc
        BY <2>1 DEF Inv, TypeOK, Local
  <2>. QED  BY <1>4, <1>6, <2>1, <2>2 DEF Goto
<1>7. ASSUME NEW v \in Worker, NEW pc, Found(v, pc), pc # "rejected",
             pc = "reverted" => row[worker[v].job].tx \in failed \cap confirmed
      PROVE  CertainOK(worker[w])'
  <2>1. PICK s : s = [Idle EXCEPT !.pc = pc, !.job = worker[v].job, !.tx = row[worker[v].job].tx]
        OBVIOUS
  <2>2. s.pc = pc /\ s.tx = row[worker[v].job].tx
        BY <2>1 DEF Idle
  <2>3. CertainOK(s)'
        BY <1>7, <2>2 DEF CertainOK
  <2>. QED  BY <1>3, <1>7, <2>1, <2>3 DEF Found
<1>8. ASSUME NEW v \in Worker, ThenReconcile(v)
      PROVE  CertainOK(worker[w])'
  <2>1. PICK s : s = [Idle EXCEPT !.pc = "reconcile", !.job = worker[v].job]
        OBVIOUS
  <2>2. s.pc = "reconcile"
        BY <2>1 DEF Idle
  <2>. QED  BY <1>4, <1>8, <2>1, <2>2 DEF ThenReconcile
<1>9. ASSUME NEW v \in Worker, NEW r \in Reservation, Request(v, r)
      PROVE  CertainOK(worker[w])'
  <2>1. ASSUME NEW c \in Copy, Settle(v, r, c)
        PROVE  CertainOK(worker[w])'
    <3>1. PICK t : Become(v, [pc |-> "authorize", job |-> r, tx |-> t, operator |-> FALSE, rail |-> "pull"])
          BY <2>1 DEF Settle
    <3>. QED  BY <1>4, <3>1
  <2>2. ASSUME NEW t \in pool \cup mined, FinalizePayment(v, r, t)
        PROVE  CertainOK(worker[w])'
    <3>1. PICK s : s = [Idle EXCEPT !.pc = "reconcile", !.job = r]
          OBVIOUS
    <3>2. s.pc = "reconcile"
          BY <3>1 DEF Idle
    <3>. QED  BY <1>4, <2>2, <3>1, <3>2 DEF FinalizePayment
  <2>3. ASSUME NEW operator \in BOOLEAN, StartReconcile(v, r, operator)
        PROVE  CertainOK(worker[w])'
    <3>1. PICK s : s = [Idle EXCEPT !.pc = "reconcile", !.job = r, !.operator = operator]
          OBVIOUS
    <3>2. s.pc = "reconcile"
          BY <3>1 DEF Idle
    <3>. QED  BY <1>4, <2>3, <3>1, <3>2 DEF StartReconcile
  <2>. QED  BY <1>9, <2>1, <2>2, <2>3 DEF Request
<1>10. ASSUME NEW v \in Worker, Continue(v) \/ Abandon(v)
       PROVE  CertainOK(worker[w])'
  <2>1. ASSUME NEW x, PutIfPending(v, x), Return(v)
        PROVE  CertainOK(worker[w])'
        BY <1>5, <2>1
  <2>2. CASE AuthorizeBroadcast(v)
        BY <1>5, <1>6, <2>2 DEF AuthorizeBroadcast
  <2>3. CASE RefuseBroadcast(v) \/ SendDropped(v) \/ SendBlocked(v) \/ Rejected(v)
             \/ ReconcileTooOld(v) \/ StayPending(v) \/ Complete(v) \/ Reverted(v) \/ Abandon(v)
        BY <1>5, <2>3 DEF RefuseBroadcast, SendDropped, SendBlocked, Rejected, ReconcileTooOld,
                         StayPending, Complete, Reverted, Abandon
  <2>4. CASE SendAccepted(v) \/ SendUnanswered(v)
        BY <1>6, <1>8, <2>4 DEF SendAccepted, SendUnanswered
  <2>5. CASE SendRejected(v)
    <3>1. PICK pc \in {"rejected", "review"} : Goto(v, pc)
          BY <2>5 DEF SendRejected
    <3>2. PICK s : s = [worker[v] EXCEPT !.pc = pc]
          OBVIOUS
    <3>3. s.pc = pc /\ s.tx = worker[v].tx
          BY <3>2 DEF Inv, TypeOK, Local
    <3>4. worker[v].tx \in refused'
          BY <2>5 DEF SendRejected
    <3>5. CertainOK(s)'
          BY <3>3, <3>4 DEF CertainOK
    <3>. QED  BY <1>3, <3>1, <3>2, <3>5 DEF Goto
  <2>6. CASE Reconcile(v)
    <3>1. CASE Become(v, [worker[v] EXCEPT !.pc = "lookup", !.rail = row[worker[v].job].rail])
      <4>1. PICK s : s = [worker[v] EXCEPT !.pc = "lookup", !.rail = row[worker[v].job].rail]
            OBVIOUS
      <4>2. s.pc = "lookup"
            BY <4>1 DEF Inv, TypeOK, Local
      <4>. QED  BY <1>4, <3>1, <4>1, <4>2
    <3>. QED  BY <1>5, <2>6, <3>1 DEF Reconcile
  <2>7. CASE Lookup(v)
    <3>1. PICK t : t = row[worker[v].job].tx
          OBVIOUS
    <3>2. Return(v) \/ Found(v, Verdict(v, t))
          BY <2>7, <3>1 DEF Lookup
    <3>3. /\ Verdict(v, t) # "rejected"
          /\ Verdict(v, t) = "reverted" => t \in failed \cap confirmed
          BY DEF Verdict
    <3>. QED  BY <1>5, <1>7, <3>1, <3>2, <3>3
  <2>8. CASE LookupFails(v)
        BY <1>7, <2>8 DEF LookupFails
  <2>. QED  BY <1>10, <2>2, <2>3, <2>4, <2>5, <2>6, <2>7, <2>8 DEF Continue
<1>11. CASE worker' = worker
       BY <1>2, <1>11
<1>12. ASSUME NEW r \in Reservation,
              PrepareProxyPayment(r) \/ MarkReconciled(r) \/ FinalizeReservation(r)
              \/ ReleaseReservation(r) \/ HandOver(r) \/ Expire(r)
       PROVE  worker' = worker
       BY <1>12 DEF PrepareProxyPayment, MarkReconciled, FinalizeReservation, ReleaseReservation,
                    HandOver, Expire
<1>13. ASSUME Network
       PROVE  worker' = worker
       BY <1>13 DEF Network, MerchantSends, Mine, Reorganise, Confirm, Drop
<1>14. CASE Next
       BY <1>9, <1>10, <1>11, <1>12, <1>13, <1>14 DEF Next
<1>. QED  BY <1>11, <1>14 DEF vars

LEMMA LedgerPlaces ==
    ASSUME Certainly, [Next]_vars, UNCHANGED chain
    PROVE  Certainly'
<1>1. UNCHANGED <<pool, ok, failed, confirmed, count, refused, handed, expired>>
      BY DEF chain
<1>2. Inv' /\ Certain'
      BY <1>1, NextInv, CertainStep DEF Certainly
<1>3. ChainOK'
      BY <1>1 DEF Certainly, ChainOK, Apart, Refusals, OnePull, OnePay, OwnRail, mined, Spends
<1>4. ASSUME NEW r \in Reservation, NEW y, PlaceOK(r, y)
      PROVE  PlaceOK(r, y)'
      BY <1>1, <1>4 DEF PlaceOK, Pulling, Paying, Booking, Unsettled, mined, Dead, Consumed, Spends,
                        Waits, Past, Proxy
<1>5. ASSUME NEW r \in Reservation
      PROVE  PlaceOK(r, row'[r])
  <2>1. row'[r] = row[r] \/ Moves(r, row[r], row'[r])
        BY NextMoves DEF Certainly, RowMoves
  <2>. QED  BY <2>1, MovesPlace DEF Certainly, Places
<1>6. Places'
  <2> SUFFICES ASSUME NEW r \in Reservation
               PROVE  PlaceOK(r, row[r])'
      BY DEF Places
  <2>1. PICK y : y = row'[r] /\ PlaceOK(r, y)
        BY <1>5
  <2>2. PlaceOK(r, y)'
        BY <1>4, <2>1
  <2>. QED  BY <2>1, <2>2 DEF PlaceOK, Pulling, Paying, Booking, Waits, Past
<1>. QED  BY <1>2, <1>3, <1>6 DEF Certainly

-----------------------------------------------------------------------------
(* The chain moves: the ledger stands still.                               *)
LEMMA ChainPlaces ==
    ASSUME Certainly, row' = row,
           \A t \in Unsettled' : t.leg = "pull" => t \in Unsettled \/ Waits(row[t.r], t),
           \A t \in ok' : t.leg = "pull" => t \in ok \cup Unsettled,
           failed \cap confirmed \subseteq failed' \cap confirmed',
           expired.chain \subseteq expired'.chain,
           \A t \in ok' : t \in ok \/ (t.leg = "pay" => Spends(t) \notin expired.chain),
           \A a \in expired'.chain : a \in expired.chain \/ ok' = ok,
           \A a \in handed' : \/ a \in handed
                              \/ /\ a[2] = row[a[1]].auth
                                 /\ Proxy(a[1]) => row[a[1]].state = "proxy_payment_ready"
    PROVE  Places'
<1> SUFFICES ASSUME NEW r \in Reservation
             PROVE  PlaceOK(r, row[r])'
    BY DEF Places
<1>1. PICK x : x = row[r]
      OBVIOUS
<1>2. PlaceOK(r, x)
      BY <1>1 DEF Certainly, Places
<1>3. Pulling(r, x)'
      BY <1>1, <1>2 DEF PlaceOK, Pulling, Waits, Past
<1>4. ASSUME NEW a, Dead(a)
      PROVE  Dead(a)'
  <2>1. CASE a \in expired.chain /\ ~ Consumed(a)
        BY <2>1 DEF Dead, Consumed, Spends
  <2>2. CASE \E t \in failed \cap confirmed : t.leg = "pay" /\ Spends(t) = a
        BY <2>2 DEF Dead, Spends
  <2>. QED  BY <1>4, <2>1, <2>2 DEF Dead
<1>5. Paying(r, x)'
  <2>1. ASSUME NEW a \in handed', a[1] = r
        PROVE  Dead(a)' \/ (a[2] = x.auth /\ (Proxy(r) => Past(x) /\ x.state # "payer_funded"))
        BY <1>1, <1>2, <1>4, <2>1 DEF PlaceOK, Paying, Past
  <2>2. x.state = "payment_submitted" /\ x.rail = "pay" => Spends(x.tx) = <<r, x.auth>>
        BY <1>2 DEF PlaceOK, Paying
  <2>. QED  BY <2>1, <2>2 DEF Paying, Proxy, Past, Spends
<1>6. Booking(r, x)'
      BY <1>2 DEF PlaceOK, Booking
<1>. QED  BY <1>1, <1>3, <1>5, <1>6 DEF PlaceOK, Pulling, Paying, Booking, Waits, Past

LEMMA SubmitPlaces ==
    ASSUME RejectionIsFinal, Certainly, NEW w \in Worker, SendAccepted(w) \/ SendRejected(w)
    PROVE  Places' /\ ChainOK'
<1>1. PICK t : t = worker[w].tx
      OBVIOUS
<1>2. t \in Tx /\ t.leg = "pull" /\ worker[w].job \in Reservation
      BY <1>1 DEF Certainly, Inv, Workers, WorkerOK, SendAccepted, SendRejected
<1>3. Apart /\ Refusals /\ OnePull /\ OnePay /\ OwnRail
      BY DEF Certainly, ChainOK
<1>4. UNCHANGED <<row, ok, failed, confirmed, handed, expired>>
      BY DEF SendAccepted, SendRejected, ledger
<1>5. Waits(row[t.r], t) /\ AuthorizationRail[t.r] # "external_x402"
  <2>1. PICK r \in Reservation : r = worker[w].job
        BY <1>2
  <2>2. row[r].state = "payment_submitted" /\ row[r].tx = t
        BY <1>1, <2>1 DEF SendAccepted, SendRejected, Sendable, SamePending
  <2>3. RowOK(r, row[r])
        BY DEF Certainly, Inv, Rows
  <2>4. t.r = r /\ AuthorizationRail[r] # "external_x402"
        BY <1>2, <2>2, <2>3 DEF RowOK
  <2>. QED  BY <2>2, <2>4 DEF Waits
<1>6. pool' \subseteq pool \cup {t}
      BY <1>1 DEF SendAccepted, SendRejected
<1>7. Places'
      BY <1>4, <1>5, <1>6, ChainPlaces DEF Unsettled, mined
<1>8. Refusals' /\ (t \in pool' => t \notin mined)
  <2>1. CASE SendAccepted(w)
    <3>1. pool' = pool \cup {t} /\ refused' = refused /\ t \notin pool \cup mined /\ t \notin refused
          BY <1>1, <2>1 DEF SendAccepted, Acceptable
    <3>. QED  BY <1>3, <1>4, <3>1 DEF Refusals, mined
  <2>2. CASE SendRejected(w)
    <3>1. pool' = pool /\ refused' = refused \cup {t} /\ t \notin pool \cup mined
          BY <1>1, <2>2 DEF SendRejected
    <3>. QED  BY <1>2, <1>3, <1>4, <3>1 DEF Refusals, mined
  <2>. QED  BY <2>1, <2>2
<1>9. Apart' /\ OnePull' /\ OnePay' /\ OwnRail'
      BY <1>2, <1>3, <1>4, <1>5, <1>6, <1>8 DEF Apart, OnePull, OnePay, OwnRail, mined, Spends
<1>. QED  BY <1>7, <1>8, <1>9 DEF ChainOK

LEMMA AuthorizationPlaces ==
    ASSUME Certainly, NEW r \in Reservation, HandOver(r) \/ Expire(r)
    PROVE  Places' /\ ChainOK'
<1>1. UNCHANGED <<row, pool, ok, failed, confirmed, refused>>
      BY DEF HandOver, Expire, ledger
<1>2. \A a \in handed' : \/ a \in handed
                         \/ /\ a = <<r, row[r].auth>>
                            /\ AuthorizationRail[r] # "native_allowance"
                            /\ Proxy(r) => row[r].state = "proxy_payment_ready"
      BY DEF HandOver, Expire, Auth, Proxy
<1>3. expired.chain \subseteq expired'.chain
  <2>1. expired \in [core : SUBSET (Reservation \X Nat), chain : SUBSET (Reservation \X Nat)]
        BY DEF Certainly, Inv, TypeOK
  <2>. QED  BY <2>1 DEF HandOver, Expire
<1>4. Places'
      BY <1>1, <1>2, <1>3, ChainPlaces DEF Unsettled, mined
<1>5. ChainOK'
      BY <1>1, <1>2 DEF Certainly, ChainOK, Apart, Refusals, OnePull, OnePay, OwnRail, mined, Spends
<1>. QED  BY <1>4, <1>5

(* A pull that may still move is the one its row waits for, and there is   *)
(* no other: neither under way nor done.                                   *)
LEMMA Tracked ==
    ASSUME Certainly, NEW t \in Unsettled, t.leg = "pull"
    PROVE  /\ t.r \in Reservation /\ AuthorizationRail[t.r] # "external_x402"
           /\ row[t.r].state = "payment_submitted" /\ row[t.r].tx = t
           /\ row[t.r].budget = "reserved"
           /\ \A u \in Unsettled \cup ok : u.leg = "pull" /\ u.r = t.r => u = t
<1>1. PICK r \in Reservation : r = t.r
      BY DEF Certainly, Inv, TypeOK, Tx, Unsettled, mined
<1>2. Pulling(r, row[r]) /\ Booking(r, row[r]) /\ RowOK(r, row[r])
      BY DEF Certainly, Places, PlaceOK, Inv, Rows
<1>3. Waits(row[r], t)
      BY <1>1, <1>2 DEF Pulling
<1>4. row[r].rail = "pull" /\ AuthorizationRail[r] # "external_x402"
      BY <1>2, <1>3 DEF RowOK, Waits
<1>5. row[r].budget = "reserved"
      BY <1>2, <1>3, <1>4 DEF Booking, Waits
<1>6. ASSUME NEW u \in Unsettled \cup ok, u.leg = "pull", u.r = t.r
      PROVE  u = t
  <2>1. Waits(row[r], u) \/ Past(row[r])
        BY <1>1, <1>2, <1>6 DEF Pulling
  <2>. QED  BY <1>3, <1>4, <2>1 DEF Waits, Past
<1>. QED  BY <1>1, <1>3, <1>4, <1>5, <1>6 DEF Waits

(* A pull that is mined is the only one of its reservation.                *)
LEMMA MinePulls ==
    ASSUME Certainly, NEW t \in pool, t.leg = "pull", NEW u \in ok, u.leg = "pull", u.r = t.r
    PROVE  FALSE
<1>1. u = t
      BY Tracked DEF Unsettled
<1>. QED  BY <1>1 DEF Certainly, ChainOK, Apart, mined

LEMMA NetworkPlaces ==
    ASSUME Certainly, Network
    PROVE  Places' /\ ChainOK'
<1>1. PICK t \in BoundedTx \cup pool \cup mined :
         MerchantSends(t) \/ Mine(t) \/ Reorganise(t) \/ Confirm(t) \/ Drop(t)
      BY DEF Network
<1>2. UNCHANGED <<row, refused, handed, expired>>
      BY <1>1 DEF MerchantSends, Mine, Reorganise, Confirm, Drop, ledger
<1>3. Apart /\ Refusals /\ OnePull /\ OnePay /\ OwnRail /\ Funded
      BY DEF Certainly, ChainOK, Inv
<1>4. CASE MerchantSends(t)
  <2>1. /\ pool' = pool \cup {t} /\ t.leg = "pay" /\ t \notin pool \cup mined
        /\ UNCHANGED <<ok, failed, confirmed>>
        BY <1>4 DEF MerchantSends
  <2>2. Places'
        BY <1>2, <2>1, ChainPlaces DEF Unsettled, mined
  <2>. QED  BY <1>2, <1>3, <2>1, <2>2 DEF ChainOK, Apart, Refusals, OnePull, OnePay, OwnRail, mined
<1>5. CASE Mine(t)
  <2>1. /\ t \in pool /\ pool' = pool \ {t} /\ confirmed' = confirmed
        /\ \/ /\ t.leg = "pay" => ~ Consumed(Spends(t)) /\ Spends(t) \notin expired.chain
              /\ ok' = ok \cup {t} /\ failed' = failed
           \/ failed' = failed \cup {t} /\ ok' = ok
        BY <1>5 DEF Mine
  <2>2. Places'
        BY <1>2, <2>1, ChainPlaces DEF Unsettled, mined
  <2>3. Apart' /\ Refusals' /\ OwnRail'
        BY <1>2, <1>3, <2>1 DEF Apart, Refusals, OwnRail, mined
  <2>4. OnePay'
        BY <1>3, <2>1 DEF OnePay, Consumed, Spends
  <2>5. OnePull'
        BY <1>3, <2>1, MinePulls DEF OnePull
  <2>. QED  BY <2>2, <2>3, <2>4, <2>5 DEF ChainOK
<1>6. CASE Reorganise(t)
  <2>1. /\ t \in mined \ confirmed /\ pool' = pool \cup {t} /\ confirmed' = confirmed
        /\ ok' = ok \ {t} /\ failed' = failed \ {t}
        BY <1>6 DEF Reorganise
  <2>2. Places'
        BY <1>2, <2>1, ChainPlaces DEF Unsettled, mined
  <2>3. Apart' /\ Refusals' /\ OwnRail'
        BY <1>2, <1>3, <2>1 DEF Apart, Refusals, OwnRail, mined
  <2>4. OnePay' /\ OnePull'
        BY <1>3, <2>1 DEF OnePay, OnePull, mined, Spends
  <2>. QED  BY <2>2, <2>3, <2>4 DEF ChainOK
<1>7. CASE Confirm(t) \/ Drop(t)
  <2>1. /\ pool' \subseteq pool /\ confirmed \subseteq confirmed'
        /\ UNCHANGED <<ok, failed>>
        BY <1>7 DEF Confirm, Drop
  <2>2. Places'
        BY <1>2, <2>1, ChainPlaces DEF Unsettled, mined
  <2>3. Apart' /\ Refusals' /\ OwnRail'
        BY <1>2, <1>3, <2>1 DEF Apart, Refusals, OwnRail, mined
  <2>4. OnePay' /\ OnePull'
        BY <1>3, <2>1 DEF OnePay, OnePull, mined, Spends
  <2>. QED  BY <2>2, <2>3, <2>4 DEF ChainOK
<1>. QED  BY <1>1, <1>4, <1>5, <1>6, <1>7

-----------------------------------------------------------------------------
LEMMA InitCertainly == Init => Certainly
<1> SUFFICES ASSUME Init
             PROVE  Certainly
    OBVIOUS
<1>1. /\ pool = {} /\ ok = {} /\ failed = {} /\ handed = {} /\ refused = {}
      /\ \A w \in Worker : worker[w] = Idle
      BY DEF Init
<1>2. ChainOK
      BY <1>1 DEF ChainOK, Apart, Refusals, OnePull, OnePay, OwnRail, mined
<1>3. Certain
      BY <1>1, IdleTyped DEF Certain, CertainOK
<1>4. ASSUME NEW r \in Reservation
      PROVE  PlaceOK(r, row[r])
  <2>1. row[r] = NewRow(r) \/ row[r] = ClosedRow(r)
        BY DEF Init
  <2>2. \/ row[r].state = "spending_reserved" /\ row[r].budget = "reserved"
        \/ row[r].state = "released"
        BY <2>1, NewRowTyped
  <2>. QED  BY <1>1, <2>2 DEF PlaceOK, Pulling, Paying, Booking, Unsettled, mined
<1>. QED  BY <1>2, <1>3, <1>4, InitInv DEF Certainly, Places

(* A step leaves the chain alone, or is one of these.                      *)
LEMMA NextKinds ==
    ASSUME [Next]_vars
    PROVE  \/ UNCHANGED chain
           \/ \E w \in Worker : SendAccepted(w) \/ SendRejected(w)
           \/ \E r \in Reservation : HandOver(r) \/ Expire(r)
           \/ Network
<1>1. ASSUME NEW w \in Worker, Continue(w) \/ Abandon(w)
      PROVE  UNCHANGED chain \/ SendAccepted(w) \/ SendRejected(w)
      BY <1>1 DEF Continue, Abandon, AuthorizeBroadcast, RefuseBroadcast, SendDropped, SendBlocked,
                  SendUnanswered, Rejected, Reconcile, ReconcileTooOld, Lookup, LookupFails,
                  StayPending, Complete, Reverted
<1>2. ASSUME NEW w \in Worker, NEW r \in Reservation, Request(w, r)
      PROVE  UNCHANGED chain
      BY <1>2 DEF Request, Settle, FinalizePayment, StartReconcile
<1>3. ASSUME NEW r \in Reservation,
             PrepareProxyPayment(r) \/ MarkReconciled(r) \/ FinalizeReservation(r)
             \/ ReleaseReservation(r)
      PROVE  UNCHANGED chain
      BY <1>3 DEF PrepareProxyPayment, MarkReconciled, FinalizeReservation, ReleaseReservation
<1>4. UNCHANGED vars => UNCHANGED chain
      BY DEF vars
<1>. QED  BY <1>1, <1>2, <1>3, <1>4 DEF Next

LEMMA NextCertainly ==
    ASSUME RejectionIsFinal, Certainly, [Next]_vars
    PROVE  Certainly'
<1>1. CASE UNCHANGED chain
      BY <1>1, LedgerPlaces
<1>2. ASSUME Places', ChainOK', refused \subseteq refused',
             failed \cap confirmed \subseteq failed' \cap confirmed'
      PROVE  Certainly'
      BY <1>2, NextInv, CertainStep DEF Certainly
<1>3. ASSUME NEW w \in Worker, SendAccepted(w) \/ SendRejected(w)
      PROVE  Certainly'
      BY <1>2, <1>3, SubmitPlaces DEF SendAccepted, SendRejected
<1>4. ASSUME NEW r \in Reservation, HandOver(r) \/ Expire(r)
      PROVE  Certainly'
      BY <1>2, <1>4, AuthorizationPlaces DEF HandOver, Expire
<1>5. ASSUME Network
      PROVE  Certainly'
  <2>1. refused \subseteq refused' /\ failed \cap confirmed \subseteq failed' \cap confirmed'
        BY <1>5 DEF Network, MerchantSends, Mine, Reorganise, Confirm, Drop
  <2>. QED  BY <1>2, <1>5, <2>1, NetworkPlaces
<1>. QED  BY <1>1, <1>3, <1>4, <1>5, NextKinds

LEMMA CertainInvariant == ASSUME RejectionIsFinal PROVE Spec => []Certainly
<1>1. Certainly /\ [Next]_vars => Certainly'
      BY NextCertainly
<1>. QED  BY <1>1, InitCertainly, PTL DEF Spec

(* A pull that may still be mined is the one its row waits for, however    *)
(* requests interleave, as long as a node's definite rejection is final:   *)
(* _retryable_reservation forgets a pull only on such a rejection or on a  *)
(* confirmed revert.                                                       *)
THEOREM InFlight == ASSUME RejectionIsFinal PROVE Spec => []InFlightIsTracked
<1>1. Certainly => InFlightIsTracked
      BY Tracked DEF InFlightIsTracked, Unsettled, mined
<1>. QED  BY <1>1, CertainInvariant, PTL

(* The user is pulled from at most once per reservation, and the merchant  *)
(* paid at most once but for an authorization that is sent again after it  *)
(* has reverted for good, over every attempt, replacement and              *)
(* authorization: settle_reservation, _retryable_reservation,              *)
(* _retryable_proxy_payment and prepare_proxy_payment together.            *)
THEOREM NeverTwice == ASSUME RejectionIsFinal PROVE Spec => []PaidOnce
<1>1. Certainly => PaidOnce
  <2> SUFFICES ASSUME Certainly, NEW r \in Reservation
               PROVE  /\ Cardinality(Pulls(r)) <= 1
                      /\ \A t, u \in Payments(r) :
                            t # u => Outlived(Spends(t)) \/ Outlived(Spends(u))
      BY DEF PaidOnce
  <2>1. Cardinality(Pulls(r)) <= 1
    <3>1. \A t, u \in Pulls(r) : t = u
          BY DEF Pulls, Certainly, ChainOK, OnePull
    <3>2. CASE Pulls(r) = {}
          BY <3>2, FS_EmptySet
    <3>3. ASSUME NEW t \in Pulls(r)
          PROVE  Cardinality(Pulls(r)) <= 1
      <4>1. Pulls(r) = {t}
            BY <3>1
      <4>2. Cardinality({t}) = 1
            BY FS_Singleton
      <4>. QED  BY <4>1, <4>2
    <3>. QED  BY <3>2, <3>3
  <2>2. ASSUME NEW t \in Payments(r)
        PROVE  Outlived(Spends(t)) \/ Spends(t) = <<r, row[r].auth>>
    <3>1. t \in ok /\ t.leg = "pay" /\ Spends(t) \in handed /\ Spends(t) = <<r, t.id>>
          BY <2>2 DEF Payments, Certainly, Inv, Funded, mined, Spends
    <3>2. CASE Dead(Spends(t))
          BY <3>1, <3>2 DEF Dead, Consumed, Outlived
    <3>3. Paying(r, row[r])
          BY DEF Certainly, Places, PlaceOK
    <3>. QED  BY <3>1, <3>2, <3>3 DEF Paying
  <2>3. ASSUME NEW t \in Payments(r), NEW u \in Payments(r), Spends(t) = Spends(u)
        PROVE  t = u
        BY <2>3 DEF Payments, Certainly, ChainOK, OnePay
  <2>. QED  BY <2>1, <2>2, <2>3
<1>. QED  BY <1>1, CertainInvariant, PTL

-----------------------------------------------------------------------------
(* The refinement: budget and money of an allowance-backed reservation.    *)
Held == [Promise!Next]_(Promise!vars)

(* One reservation at a time, by a step of HeldPayment.                    *)
LEMMA NothingHeld ==
    ASSUME row' = row, ok' = ok,
           \A t : t.leg = "pull" => (t \in pool' <=> t \in pool)
    PROVE  Held
<1>1. Budget' = Budget
      BY DEF Budget, AllowanceBacked
<1>2. Money' = Money
      BY DEF Money, Pulls, AllowanceBacked
<1>. QED  BY <1>1, <1>2 DEF Held, Promise!vars

LEMMA OneHeld ==
    ASSUME NEW p \in AllowanceBacked, Budget[p] = "reserved",
           \A r \in AllowanceBacked \ {p} : Budget'[r] = Budget[r] /\ Money'[r] = Money[r],
           \/ /\ Budget'[p] = "reserved"
              /\ \/ Money[p] = "idle" /\ Money'[p] = "sent"
                 \/ Money[p] = "sent" /\ Money'[p] \in {"moved", "idle"}
                 \/ Money[p] = "moved" /\ Money'[p] = "sent"
           \/ Money[p] = "moved" /\ Money'[p] = "moved" /\ Budget'[p] = "settled"
           \/ Money[p] = "idle" /\ Money'[p] = "idle" /\ Budget'[p] = "released"
    PROVE  Held
<1>1. /\ Budget' = [Budget EXCEPT ![p] = Budget'[p]] /\ Money' = [Money EXCEPT ![p] = Money'[p]]
      /\ Budget = [Budget EXCEPT ![p] = Budget[p]] /\ Money = [Money EXCEPT ![p] = Money[p]]
  <2>1. /\ Budget = [r \in AllowanceBacked |-> Budget[r]]
        /\ Money = [r \in AllowanceBacked |-> Money[r]]
        /\ Budget' = [r \in AllowanceBacked |-> Budget'[r]]
        /\ Money' = [r \in AllowanceBacked |-> Money'[r]]
        BY DEF Budget, Money, AllowanceBacked
  <2>. QED  BY <2>1
<1>2. Budget'[p] = Budget[p] => Budget' = Budget
      BY <1>1
<1>3. Money'[p] = Money[p] => Money' = Money
      BY <1>1
<1>5. CASE Budget'[p] = "reserved" /\ Money[p] \in {"idle", "moved"} /\ Money'[p] = "sent"
      BY <1>1, <1>2, <1>5 DEF Held, Promise!Next, Promise!Undo
<1>6. CASE Budget'[p] = "reserved" /\ Money[p] = "sent" /\ Money'[p] = "moved"
      BY <1>1, <1>2, <1>6 DEF Held, Promise!Next, Promise!Move
<1>7. CASE Budget'[p] = "reserved" /\ Money[p] = "sent" /\ Money'[p] = "idle"
      BY <1>1, <1>2, <1>7 DEF Held, Promise!Next, Promise!Fail
<1>8. CASE Money[p] = "moved" /\ Money'[p] = "moved" /\ Budget'[p] = "settled"
      BY <1>1, <1>3, <1>8 DEF Held, Promise!Next, Promise!Settle
<1>9. CASE Money[p] = "idle" /\ Money'[p] = "idle" /\ Budget'[p] = "released"
      BY <1>1, <1>3, <1>9 DEF Held, Promise!Next, Promise!Release
<1>. QED  BY <1>5, <1>6, <1>7, <1>8, <1>9

(* The money of a reservation whose pull is under way.                     *)
MoneyTracked ==
    \A t \in Unsettled : t.leg = "pull" =>
        /\ t.r \in AllowanceBacked /\ Budget[t.r] = "reserved"
        /\ t \in pool => Money[t.r] = "sent"
        /\ t \in ok => Money[t.r] = "moved"
        /\ t \in failed => Money[t.r] = "idle"
        /\ \A u \in Unsettled \cup ok : u.leg = "pull" /\ u.r = t.r => u = t

LEMMA TracksMoney == Certainly => MoneyTracked
<1> SUFFICES ASSUME Certainly, NEW t \in Unsettled, t.leg = "pull"
             PROVE  /\ t.r \in AllowanceBacked /\ Budget[t.r] = "reserved"
                    /\ t \in pool => Money[t.r] = "sent"
                    /\ t \in ok => Money[t.r] = "moved"
                    /\ t \in failed => Money[t.r] = "idle"
                    /\ \A u \in Unsettled \cup ok : u.leg = "pull" /\ u.r = t.r => u = t
    BY DEF MoneyTracked
<1>1. /\ t.r \in AllowanceBacked /\ Budget[t.r] = "reserved"
      /\ \A u \in Unsettled \cup ok : u.leg = "pull" /\ u.r = t.r => u = t
      BY Tracked DEF AllowanceBacked, Budget
<1>2. pool \subseteq Unsettled
      BY DEF Unsettled
<1>3. pool \cap ok = {} /\ pool \cap failed = {} /\ ok \cap failed = {}
      BY DEF Certainly, ChainOK, Apart, mined
<1>. QED  BY <1>1, <1>2, <1>3 DEF Money, Pulls

(* Nothing changes for the others when a pull of one reservation moves.    *)
LEMMA OthersKeep ==
    ASSUME NEW t, row' = row, NEW r \in AllowanceBacked, r # t.r,
           pool' \ {t} = pool \ {t}, ok' \ {t} = ok \ {t}
    PROVE  Budget'[r] = Budget[r] /\ Money'[r] = Money[r]
<1>1. Pulls(r)' = Pulls(r)
  <2>1. ASSUME NEW u
        PROVE  u \in Pulls(r)' <=> u \in Pulls(r)
        BY DEF Pulls
  <2>. QED  BY <2>1 DEF Pulls
<1>2. (\E u \in pool' : u.r = r /\ u.leg = "pull") <=> (\E u \in pool : u.r = r /\ u.leg = "pull")
      OBVIOUS
<1>. QED  BY <1>1, <1>2 DEF Budget, Money, AllowanceBacked

LEMMA PullHeld ==
    ASSUME Certainly, Certainly', NEW t, t.leg = "pull", row' = row,
           t \in Unsettled, t \in Unsettled',
           pool' \ {t} = pool \ {t}, ok' \ {t} = ok \ {t},
           t \in pool \/ t \in pool',
           t \in pool => t \in ok' \cup failed', t \in pool' => t \in ok \cup failed
    PROVE  Held
<1>1. MoneyTracked /\ MoneyTracked'
      BY TracksMoney, PTL
<1>2. /\ t.r \in AllowanceBacked /\ Budget[t.r] = "reserved"
      /\ t \in pool => Money[t.r] = "sent"
      /\ t \in ok => Money[t.r] = "moved"
      /\ t \in failed => Money[t.r] = "idle"
      BY <1>1 DEF MoneyTracked
<1>3. /\ t \in pool' => Money'[t.r] = "sent"
      /\ t \in ok' => Money'[t.r] = "moved"
      /\ t \in failed' => Money'[t.r] = "idle"
      BY <1>1 DEF MoneyTracked
<1>4. Budget'[t.r] = Budget[t.r]
      BY <1>2 DEF Budget, AllowanceBacked
<1>5. \A r \in AllowanceBacked \ {t.r} : Budget'[r] = Budget[r] /\ Money'[r] = Money[r]
      BY OthersKeep
<1>. QED  BY <1>2, <1>3, <1>4, <1>5, OneHeld

(* Accepted by a node, or forgotten by all of them.                        *)
LEMMA AcceptedHeld ==
    ASSUME Certainly, Certainly', NEW w \in Worker, SendAccepted(w)
    PROVE  Held
<1>1. PICK t : t = worker[w].tx
      OBVIOUS
<1>2. /\ pool' = pool \cup {t} /\ t \notin pool \cup mined /\ row' = row /\ ok' = ok
      /\ t.leg = "pull"
      BY <1>1 DEF SendAccepted, Acceptable, ledger, Certainly, Inv, Workers, WorkerOK
<1>3. MoneyTracked'
      BY TracksMoney, PTL
<1>4. /\ t.r \in AllowanceBacked /\ Budget'[t.r] = "reserved" /\ Money'[t.r] = "sent"
      /\ \A u \in Unsettled' \cup ok' : u.leg = "pull" /\ u.r = t.r => u = t
      BY <1>2, <1>3 DEF MoneyTracked, Unsettled, AllowanceBacked
<1>5. Money[t.r] = "idle"
      BY <1>2, <1>4 DEF Money, Pulls, Unsettled, mined
<1>6. Budget[t.r] = Budget'[t.r]
      BY <1>2, <1>4 DEF Budget, AllowanceBacked
<1>7. \A r \in AllowanceBacked \ {t.r} : Budget'[r] = Budget[r] /\ Money'[r] = Money[r]
      BY <1>2, OthersKeep
<1>. QED  BY <1>4, <1>5, <1>6, <1>7, OneHeld

LEMMA DroppedHeld ==
    ASSUME Certainly, NEW t, t.leg = "pull", Drop(t)
    PROVE  Held
<1>1. t \in pool /\ pool' = pool \ {t} /\ row' = row /\ ok' = ok
      BY DEF Drop, ledger
<1>2. MoneyTracked
      BY TracksMoney
<1>3. /\ t.r \in AllowanceBacked /\ Budget[t.r] = "reserved" /\ Money[t.r] = "sent"
      /\ \A u \in Unsettled \cup ok : u.leg = "pull" /\ u.r = t.r => u = t
      BY <1>1, <1>2 DEF MoneyTracked, Unsettled
<1>4. t \notin ok
      BY <1>1 DEF Certainly, ChainOK, Apart, mined
<1>5. Money'[t.r] = "idle"
      BY <1>1, <1>3, <1>4 DEF Money, Pulls, Unsettled, AllowanceBacked
<1>6. Budget[t.r] = Budget'[t.r]
      BY <1>1, <1>3 DEF Budget, AllowanceBacked
<1>7. \A r \in AllowanceBacked \ {t.r} : Budget'[r] = Budget[r] /\ Money'[r] = Money[r]
      BY <1>1, OthersKeep
<1>. QED  BY <1>3, <1>5, <1>6, <1>7, OneHeld

LEMMA NetworkHeld ==
    ASSUME Certainly, Certainly', Network
    PROVE  Held
<1>1. PICK t \in BoundedTx \cup pool \cup mined :
         MerchantSends(t) \/ Mine(t) \/ Reorganise(t) \/ Confirm(t) \/ Drop(t)
      BY DEF Network
<1>2. row' = row
      BY <1>1 DEF MerchantSends, Mine, Reorganise, Confirm, Drop, ledger
<1>3. CASE t.leg # "pull" /\ ~ Confirm(t)
  <2>1. \A u : u.leg = "pull" => (u \in pool' <=> u \in pool) /\ (u \in ok' <=> u \in ok)
        BY <1>1, <1>3 DEF MerchantSends, Mine, Reorganise, Drop
  <2>2. Budget' = Budget
        BY <1>2 DEF Budget, AllowanceBacked
  <2>3. \A r : Pulls(r)' = Pulls(r)
        BY <2>1 DEF Pulls
  <2>4. Money' = Money
        BY <2>1, <2>3 DEF Money, AllowanceBacked
  <2>. QED  BY <2>2, <2>4 DEF Held, Promise!vars
<1>4. CASE Confirm(t)
      BY <1>2, <1>4, NothingHeld DEF Confirm
<1>5. CASE Drop(t) /\ t.leg = "pull"
      BY <1>5, DroppedHeld
<1>6. CASE Mine(t) /\ t.leg = "pull"
  <2>1. /\ t \in pool /\ pool' = pool \ {t} /\ confirmed' = confirmed
        /\ \/ ok' = ok \cup {t} /\ failed' = failed
           \/ failed' = failed \cup {t} /\ ok' = ok
        BY <1>6 DEF Mine
  <2>2. t \notin confirmed
        BY <2>1 DEF Certainly, ChainOK, Apart, mined, Inv, TypeOK
  <2>3. t \in Unsettled /\ t \in Unsettled'
        BY <2>1, <2>2 DEF Unsettled, mined
  <2>4. /\ pool' \ {t} = pool \ {t} /\ ok' \ {t} = ok \ {t}
        /\ t \in pool /\ t \in ok' \cup failed' /\ t \notin pool'
        BY <2>1
  <2>. QED  BY <1>2, <1>6, <2>3, <2>4, PullHeld
<1>7. CASE Reorganise(t) /\ t.leg = "pull"
  <2>1. /\ t \in mined \ confirmed /\ pool' = pool \cup {t} /\ ok' = ok \ {t}
        BY <1>7 DEF Reorganise
  <2>2. t \in Unsettled /\ t \in Unsettled'
        BY <2>1 DEF Unsettled
  <2>3. t \notin pool /\ t \in ok \cup failed
        BY <2>1 DEF Certainly, ChainOK, Apart, mined
  <2>4. pool' \ {t} = pool \ {t} /\ ok' \ {t} = ok \ {t} /\ t \in pool'
        BY <2>1
  <2>. QED  BY <1>2, <1>7, <2>2, <2>3, <2>4, PullHeld
<1>. QED  BY <1>1, <1>3, <1>4, <1>5, <1>6, <1>7 DEF MerchantSends

LEMMA LedgerHeld ==
    ASSUME Certainly, [Next]_vars, UNCHANGED chain
    PROVE  Held
<1>1. pool' = pool /\ ok' = ok
      BY DEF chain
<1>2. RowMoves
      BY NextMoves DEF Certainly
<1>3. Money' = Money
      BY <1>1 DEF Money, Pulls, AllowanceBacked
<1>4. CASE row' = row
      BY <1>1, <1>4, NothingHeld
<1>5. ASSUME NEW r \in Reservation, Moves(r, row[r], row'[r]),
             \A q \in Reservation \ {r} : row'[q] = row[q]
      PROVE  Held
  <2>1. PICK x, y : x = row[r] /\ y = row'[r]
        OBVIOUS
  <2>2. \A q \in AllowanceBacked \ {r} : Budget'[q] = Budget[q] /\ Money'[q] = Money[q]
        BY <1>3, <1>5 DEF Budget, AllowanceBacked
  <2>3. CASE r \notin AllowanceBacked \/ y.budget = x.budget
    <3>1. \A q \in AllowanceBacked : Budget'[q] = Budget[q]
          BY <2>1, <2>2, <2>3 DEF Budget, AllowanceBacked
    <3>2. Budget' = Budget
          BY <3>1 DEF Budget, AllowanceBacked
    <3>. QED  BY <1>3, <3>2 DEF Held, Promise!vars
  <2>4. CASE r \in AllowanceBacked /\ y.budget # x.budget
    <3>1. Budget[r] = x.budget /\ Budget'[r] = y.budget /\ Money'[r] = Money[r]
          BY <1>3, <2>1, <2>4 DEF Budget, AllowanceBacked
    <3>2. Pulling(r, x) /\ Booking(r, x) /\ RowOK(r, x)
          BY <2>1 DEF Certainly, Places, PlaceOK, Inv, Rows
    <3>3. AuthorizationRail[r] # "external_x402" /\ AuthorizationRail[r] \in Rail
          BY <2>4, RailsAssumption DEF AllowanceBacked
    <3>4. CASE Releases(r, x, y)
      <4>1. x.budget = "reserved" /\ y.budget = "released"
            BY <3>2, <3>3, <3>4 DEF Booking, Releases
      <4>2. ASSUME NEW t \in ok \cup pool, t.r = r, t.leg = "pull"
            PROVE  FALSE
            BY <3>2, <3>4, <4>2 DEF Pulling, Releases, Waits, Past, Unsettled
      <4>3. Money[r] = "idle"
            BY <2>4, <4>2 DEF Money, Pulls
      <4>. QED  BY <2>2, <2>4, <3>1, <4>1, <4>3, OneHeld
    <3>5. CASE Completes(r, x, y)
      <4>1. x.tx \in Tx /\ x.tx.r = r /\ x.tx.leg = x.rail /\ x.tx \in ok
            BY <3>2, <3>5 DEF RowOK, Completes
      <4>2. x.rail = "pull"
        <5>1. x.rail \in {"pull", "pay"}
              BY <4>1 DEF Tx
        <5>2. ASSUME x.rail = "pay"
              PROVE  FALSE
          <6>1. Proxy(r)
                BY <3>2, <3>3, <3>5, <5>2 DEF RowOK, Completes, Rail, Proxy
          <6>2. x.budget = "settled"
                BY <3>2, <3>5, <5>2, <6>1 DEF RowOK, Completes
          <6>. QED  BY <2>4, <3>5, <6>2 DEF Completes
        <5>. QED  BY <5>1, <5>2
      <4>3. x.budget = "reserved" /\ y.budget = "settled"
            BY <3>2, <3>3, <3>5, <4>2 DEF Booking, Completes
      <4>4. Money[r] = "moved"
            BY <2>4, <4>1, <4>2 DEF Money, Pulls
      <4>. QED  BY <2>2, <2>4, <3>1, <4>3, <4>4, OneHeld
    <3>. QED  BY <1>5, <2>1, <2>4, <3>4, <3>5
              DEF Moves, Same, Submits, Binds, Signs, Finalizes, Retries
  <2>. QED  BY <2>3, <2>4
<1>. QED  BY <1>2, <1>4, <1>5 DEF RowMoves

LEMMA NextHeld ==
    ASSUME RejectionIsFinal, Certainly, [Next]_vars
    PROVE  Held
<1>1. Certainly'
      BY NextCertainly
<1>2. CASE UNCHANGED chain
      BY <1>2, LedgerHeld
<1>3. ASSUME NEW w \in Worker, SendRejected(w)
      PROVE  Held
      BY <1>3, NothingHeld DEF SendRejected, ledger
<1>4. ASSUME NEW r \in Reservation, HandOver(r) \/ Expire(r)
      PROVE  Held
      BY <1>4, NothingHeld DEF HandOver, Expire, ledger
<1>. QED  BY <1>1, <1>2, <1>3, <1>4, NextKinds, AcceptedHeld, NetworkHeld

(* Seen from outside an allowance-backed reservation is a held payment:    *)
(* whatever Core's requests, the relayer, the payer and the chain do, each *)
(* step is one of HeldPayment's or none.                                   *)
THEOREM RailsPromise == ASSUME RejectionIsFinal PROVE Spec => HoldsPayments
<1>1. Init => Promise!Init
  <2> SUFFICES ASSUME Init
               PROVE  Promise!Init
      OBVIOUS
  <2>1. ASSUME NEW r \in Reservation
        PROVE  row[r].budget \in {"reserved", "released"}
    <3>1. row[r] = NewRow(r) \/ row[r] = ClosedRow(r)
          BY DEF Init
    <3>. QED  BY <3>1, NewRowTyped
  <2>2. Budget \in [AllowanceBacked -> {"none", "reserved", "released"}]
        BY <2>1 DEF Budget, AllowanceBacked
  <2>3. Money = [r \in AllowanceBacked |-> "idle"]
        BY DEF Money, Pulls, Init
  <2>. QED  BY <2>2, <2>3 DEF Promise!Init
<1>2. Certainly /\ [Next]_vars => [Promise!Next]_(Promise!vars)
      BY NextHeld DEF Held
<1>. QED  BY <1>1, <1>2, CertainInvariant, PTL DEF Spec, HoldsPayments, Promise!Spec
=============================================================================
