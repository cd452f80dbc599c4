-------------------------- MODULE PurchaseProofs ---------------------------
(***************************************************************************)
(* Proofs about Purchase, for any number of requests and passes of the     *)
(* worker, on each of the three rails.                                     *)
(***************************************************************************)
EXTENDS Purchase, TLAPS

Done == {"delivered", "paid_but_undelivered"}
Recorded == {"payment_submitted"} \cup Done
Decided == core \in {"settled", "finalized"}

(* Only clink_allowance looks at a submitted row before it looks at the    *)
(* mandate and the offering; on the other rails that look may undo it.     *)
Calm == Allowance \/ ~ overtaken

(* What a row, or what a request has read of one, says is reserved. *)
FieldsOK(d) ==
    /\ d.state \in {"spending_reserved", "signing_required", "payment_submitted"} => d.reserved
    /\ d.reason = "release_pending" => d.reserved
    /\ d.state = "signing_required" => External
    /\ Calm /\ ~ Allowance /\ d.reserved => d.state \notin Unpaid

ProxyPC == {"handoff", "clear", "challenge", "prepare", "sign", "recordProxy", "continue", "resign",
            "merchant", "saveHandoff", "remember", "prove", "proven"}
ExternalPC == {"checkout", "claimExternal", "recordExternal", "reconcileExternal",
               "finalizeExternal"}

(* What a request knows at each point, of the row that it has read and of  *)
(* the state that it found it in.                                          *)
LocalAt(d, entered, pc) ==
    /\ FieldsOK(d)
    /\ d.state \in Terminal => pc \in {"finish", "finalize", "complete"}
    /\ pc = "finish" => d.state \in Done
    /\ pc \in {"check", "authorize", "reserve", "reserved"} => entered = d.state
    /\ pc \in {"reserve", "reserved"} => ~ d.reserved
    /\ pc \in ProxyPC \cup {"record", "settle", "recordExternal"} => d.reserved
    /\ pc \in {"settle", "finalizeExternal", "reconcileExternal"} /\ Calm
          => d.state = "payment_submitted"
    /\ pc = "reconcile" /\ Allowance => d.state = "payment_submitted"
    /\ pc = "authorize" /\ Allowance => d.state # "payment_submitted"
    /\ pc \in ProxyPC \cup {"downgrade", "failProxy"} => Proxy
    /\ pc \in ExternalPC => External
    /\ pc \in {"resign", "merchant", "saveHandoff"} => d.handoff = 0

LocalOK(q) == LocalAt(q.data, q.entered, q.pc)

(* What a worker's pass writes if it ends in an error was claimed submitted. *)
NoteOK(q) ==
    q.worker => q.note.state = "payment_submitted" /\ q.note.reason = "other" /\ q.note.reserved

(* Between its claim and its last write, a request whose token is on the   *)
(* row has read what the row says.                                         *)
Holding == PC \ {"idle", "claim", "checkout", "claimExternal", "outbox", "forget", "finish",
                 "finalize", "complete"}

TokenOK(r) == row.token = r /\ req[r].pc \in Holding => row.data = req[r].data

(* An answer about an end is still true, however old it is. *)
AnswerAt(answer, pc) ==
    /\ Settled(answer) => Decided
    /\ answer = "finalized" => core = "finalized"
    /\ answer = "released" => core = "released"
    /\ pc \in {"deliver", "finish"} => Decided
    /\ pc \in {"complete", "forget"} => answer \in {"finalized", "error"}

AnswerOK(q) == AnswerAt(q.answer, q.pc)

RowOK ==
    /\ FieldsOK(row.data)
    /\ row.data.state \in Done => Decided /\ (outbox.due \/ core = "finalized")

(* Whoever has read that a payment is submitted, it is on record, unless   *)
(* the reservation was released for good.                                  *)
AttemptOK ==
    Calm => /\ AttemptIsRecorded
            /\ \A r \in Request :
                  req[r].data.state = "payment_submitted"
                      => row.data.state \in Recorded \/ core = "released"

(* No merchant payment has the next number before the merchant can be      *)
(* paid again ...                                                          *)
May == core \in {"proxy_payment_ready", "pay_submitted", "settled", "finalized"}
Known(n) == n <= failed + 1 /\ (n = failed + 1 => May)

(* ... and the current one is on the row before anybody can prove it,      *)
(* unless an error has taken it away. *)
OnRow(n) ==
    n = failed + 1 /\ row.data.state \notin Terminal => row.data.handoff = failed + 1 \/ lost

ProofOK ==
    /\ Known(row.data.handoff) /\ Known(cache.proxy) /\ OnRow(cache.proxy)
    /\ \A r \in Request :
          /\ Known(req[r].data.handoff) /\ OnRow(req[r].data.handoff)
          /\ Known(req[r].proof) /\ Known(req[r].note.handoff)
          /\ req[r].pc \in {"remember", "prove"} => OnRow(req[r].proof)
    /\ ProofIsRecoverable

Inv ==
    /\ TypeOK
    /\ \A r \in Request : LocalOK(req[r]) /\ TokenOK(r) /\ AnswerOK(req[r]) /\ NoteOK(req[r])
    /\ RowOK /\ AttemptOK /\ ProofOK

RestTyped ==
    /\ <<mode, changes>> \in Scenario
    /\ cache \in [input : BOOLEAN, checkout : BOOLEAN, proxy : Nat, external : BOOLEAN]
    /\ expired \in BOOLEAN /\ drifted \in BOOLEAN /\ paid \in BOOLEAN
    /\ overtaken \in BOOLEAN /\ lost \in BOOLEAN
    /\ core \in CoreState
    /\ failed \in Nat
    /\ event \in {"none", "delivered", "paid_but_undelivered"}
    /\ outbox \in [due : BOOLEAN, token : Request \cup {NoToken}, live : BOOLEAN]

LEMMA RestIs ==
    ASSUME TypeOK, UNCHANGED <<background, world, money, terminal>>
    PROVE  RestTyped'
  BY DEF TypeOK, RestTyped, background, world, money, terminal

-----------------------------------------------------------------------------
(* Steps by shape.  What a step may do to Core's reservation while the row *)
(* and the count of failed payments stay as they are.                      *)
CoreMoves ==
    /\ Decided => Decided'
    /\ core = "finalized" => core' = "finalized"
    /\ core = "released" => core' = "released"
    /\ May => May'
    /\ Calm /\ MoneyMayMove' => MoneyMayMove \/ row.data.state \in Recorded
    /\ ProofIsRecoverable'

LEMMA CoreStays == Inv /\ UNCHANGED <<core, failed, row, mode, lost>> => CoreMoves
  BY DEF Inv, CoreMoves, Decided, May, MoneyMayMove, ProofOK, ProofIsRecoverable, Proxy

(* A request goes on with what it has read, or has no more need of it. *)
GoesOn(q, s) ==
    /\ \/ s.data = q.data /\ (s.pc \in Holding => q.pc \in Holding)
       \/ /\ s.pc \notin Holding
          /\ s.data.handoff \in {0, q.data.handoff}
          /\ s.data.state # "payment_submitted"
    /\ \/ s.worker = q.worker /\ s.note = q.note
       \/ ~ s.worker /\ s.note.handoff = 0

(* A step of a request that does not write the row. *)
LEMMA MovesOn ==
    ASSUME Inv, NEW r \in Request, NEW s \in Local, Become(r, s), GoesOn(req[r], s),
           UNCHANGED <<mode, changes, overtaken, row, failed>>,
           lost => lost' \/ row.data.handoff = failed + 1, RestTyped', CoreMoves,
           LocalOK(s), AnswerOK(s)', Known(s.proof),
           s.pc \in {"remember", "prove"} => OnRow(s.proof),
           Known(cache'.proxy) /\ OnRow(cache'.proxy),
           outbox.due => outbox'.due \/ core' = "finalized"
    PROVE  Inv'
<1>1. TypeOK /\ failed \in Nat /\ row \in Row /\ req \in [Request -> Local]
      BY DEF Inv, TypeOK
<1>2. /\ req' = [req EXCEPT ![r] = s] /\ mode' = mode /\ changes' = changes
      /\ overtaken' = overtaken /\ row' = row /\ failed' = failed
      BY DEF Become
<1>3. req'[r] = s /\ \A q \in Request : q # r => req'[q] = req[q]
      BY <1>1, <1>2
<1>4. TypeOK'
      BY <1>1, <1>2 DEF TypeOK, RestTyped
<1>5. \A x : FieldsOK(x)' <=> FieldsOK(x)
      BY <1>2 DEF FieldsOK, External, Calm, Allowance
<1>6. \A d, e, pc : LocalAt(d, e, pc) => LocalAt(d, e, pc)'
      BY <1>2 DEF LocalAt, FieldsOK, External, Calm, Allowance, Proxy
<1>7. ASSUME NEW q \in Request
      PROVE  LocalOK(req[q])'
      BY <1>3, <1>6 DEF Inv, LocalOK
<1>8. ASSUME NEW q \in Request
      PROVE  TokenOK(q)' /\ NoteOK(req[q])'
      BY <1>2, <1>3 DEF Inv, TokenOK, NoteOK, GoesOn
<1>9. \A a, pc : AnswerAt(a, pc) => AnswerAt(a, pc)'
      BY DEF AnswerAt, CoreMoves
<1>10. ASSUME NEW q \in Request
       PROVE  AnswerOK(req[q])'
  <2>1. CASE q = r
        BY <1>3, <2>1 DEF AnswerOK, AnswerAt
  <2>2. CASE q # r
        BY <1>3, <1>9, <2>2 DEF Inv, AnswerOK
  <2>. QED  BY <2>1, <2>2
<1>11. RowOK'
      BY <1>2, <1>5 DEF Inv, RowOK, CoreMoves
<1>12. AttemptOK'
  <2> SUFFICES ASSUME Calm'
               PROVE  /\ AttemptIsRecorded'
                      /\ \A q \in Request :
                            req'[q].data.state = "payment_submitted"
                               => row'.data.state \in Recorded \/ core' = "released"
      BY DEF AttemptOK
  <2>1. Calm
        BY <1>2 DEF Calm, Allowance
  <2>2. AttemptIsRecorded /\ \A q \in Request :
                            req[q].data.state = "payment_submitted"
                               => row.data.state \in Recorded \/ core = "released"
        BY <2>1 DEF Inv, AttemptOK
  <2>3. AttemptIsRecorded'
        BY <1>2, <2>1, <2>2 DEF AttemptIsRecorded, CoreMoves, Recorded, Done, Calm
  <2>4. ASSUME NEW q \in Request, req'[q].data.state = "payment_submitted"
        PROVE  row'.data.state \in Recorded \/ core' = "released"
    <3>1. req[q].data.state = "payment_submitted"
          BY <1>3, <2>4 DEF GoesOn
    <3>. QED  BY <1>2, <2>2, <3>1 DEF CoreMoves
  <2>. QED  BY <2>3, <2>4
<1>13. ProofOK'
  <2>1. \A n : Known(n) => n <= failed' + 1 /\ (n = failed' + 1 => May')
        BY <1>2 DEF Known, CoreMoves
  <2>2. \A n : OnRow(n) =>
            (n = failed' + 1 /\ row'.data.state \notin Terminal
                => row'.data.handoff = failed' + 1 \/ lost')
        BY <1>2 DEF OnRow
  <2>3. Known(row.data.handoff)' /\ Known(cache.proxy)' /\ OnRow(cache.proxy)'
    <3>1. Known(row.data.handoff)
          BY DEF Inv, ProofOK
    <3>. QED  BY <1>2, <2>1, <2>2, <3>1 DEF Known, OnRow
  <2>4. Known(0) /\ OnRow(0)
        BY <1>1 DEF Known, OnRow
  <2>5. ASSUME NEW q \in Request
        PROVE  /\ Known(req[q].data.handoff)' /\ OnRow(req[q].data.handoff)'
               /\ Known(req[q].proof)' /\ Known(req[q].note.handoff)'
               /\ (req[q].pc \in {"remember", "prove"} => OnRow(req[q].proof))'
    <3>1. PICK z : z = req'[q]
          OBVIOUS
    <3>2. /\ Known(z.data.handoff) /\ OnRow(z.data.handoff) /\ Known(z.proof)
          /\ Known(z.note.handoff)
          /\ z.pc \in {"remember", "prove"} => OnRow(z.proof)
      <4>1. CASE q = r
        <5>1. s.data.handoff \in {0, req[r].data.handoff}
              BY DEF GoesOn
        <5>2. Known(s.data.handoff) /\ OnRow(s.data.handoff) /\ Known(s.note.handoff)
              BY <2>4, <5>1 DEF Inv, ProofOK, GoesOn
        <5>. QED  BY <1>3, <3>1, <4>1, <5>2
      <4>2. CASE q # r
            BY <1>3, <3>1, <4>2 DEF Inv, ProofOK
      <4>. QED  BY <4>1, <4>2
    <3>. QED  BY <2>1, <2>2, <3>1, <3>2 DEF Known, OnRow
  <2>. QED  BY <2>3, <2>5 DEF ProofOK, CoreMoves
<1>. QED  BY <1>4, <1>7, <1>8, <1>10, <1>11, <1>12, <1>13 DEF Inv

LEMMA Moves ==
    ASSUME Inv, NEW r \in Request, NEW s \in Local, Become(r, s), GoesOn(req[r], s),
           UNCHANGED <<background, row, failed>>, RestTyped', CoreMoves,
           LocalOK(s), AnswerOK(s)', Known(s.proof),
           s.pc \in {"remember", "prove"} => OnRow(s.proof),
           Known(cache'.proxy) /\ OnRow(cache'.proxy),
           outbox.due => outbox'.due \/ core' = "finalized"
    PROVE  Inv'
<1>1. UNCHANGED <<mode, changes, overtaken, row, failed>> /\ lost' = lost
      BY DEF background
<1>. QED  BY <1>1, MovesOn

LEMMA IdleIs ==
    /\ Idle \in Local /\ Idle.pc = "idle" /\ Idle.data = Blank /\ Idle.answer = "error"
    /\ Idle.proof = 0 /\ Idle.entered = "preview_created"
    /\ ~ Idle.worker /\ Idle.note = Blank
    /\ Blank \in Fields /\ Blank.state = "preview_created" /\ Blank.handoff = 0
    /\ ~ Blank.reserved /\ Blank.reason = "other"
  BY DEF Idle, Blank, Local, Fields, State, Terminal, PC, Answer, CoreState

LEMMA IdleOK ==
    /\ FieldsOK(Blank) /\ LocalOK(Idle) /\ NoteOK(Idle)
    /\ AnswerOK(Idle) /\ AnswerOK(Idle)'
<1>1. LocalAt(Blank, "preview_created", "idle") /\ FieldsOK(Blank)
      BY IdleIs DEF LocalAt, FieldsOK, Terminal, ProxyPC, ExternalPC
<1>2. AnswerAt("error", "idle") /\ AnswerAt("error", "idle")'
      BY DEF AnswerAt, Settled
<1>. QED  BY <1>1, <1>2, IdleIs DEF LocalOK, AnswerOK, NoteOK

(* The request is over. *)
LEMMA Returns ==
    ASSUME Inv, NEW r \in Request, Return(r), UNCHANGED <<background, row, failed>>, RestTyped',
           CoreMoves, Known(cache'.proxy) /\ OnRow(cache'.proxy),
           outbox.due => outbox'.due \/ core' = "finalized"
    PROVE  Inv'
<1>1. Become(r, Idle) /\ Idle \in Local /\ Idle.pc = "idle" /\ Idle.data.handoff = 0
      /\ Idle.data.state = "preview_created" /\ Idle.proof = 0
      /\ ~ Idle.worker /\ Idle.note.handoff = 0
      BY IdleIs DEF Return
<1>2. GoesOn(req[r], Idle)
      BY <1>1 DEF GoesOn, Holding
<1>3. Known(Idle.proof)
      BY <1>1 DEF Inv, TypeOK, Known
<1>. QED  BY <1>1, <1>2, <1>3, IdleOK, Moves

(* It goes on with an answer. *)
LEMMA Goes ==
    ASSUME Inv, NEW r \in Request, NEW a \in Answer, NEW pc \in PC, Heard(r, a, pc),
           pc \in Holding => req[r].pc \in Holding,
           UNCHANGED <<background, row, failed>>, RestTyped', CoreMoves,
           LocalAt(req[r].data, req[r].entered, pc), AnswerAt(a, pc)',
           pc \in {"remember", "prove"} => OnRow(req[r].proof),
           Known(cache'.proxy) /\ OnRow(cache'.proxy),
           outbox.due => outbox'.due \/ core' = "finalized"
    PROVE  Inv'
<1>1. req[r] \in Local
      BY DEF Inv, TypeOK
<1>2. PICK s \in Local :
         /\ s = [req[r] EXCEPT !.answer = a, !.pc = pc]
         /\ s.data = req[r].data /\ s.entered = req[r].entered /\ s.proof = req[r].proof
         /\ s.answer = a /\ s.pc = pc /\ s.worker = req[r].worker /\ s.note = req[r].note
  <2>1. [req[r] EXCEPT !.answer = a, !.pc = pc] \in Local
        BY <1>1 DEF Local
  <2>. QED  BY <1>1, <2>1 DEF Local
<1>3. Become(r, s)
      BY <1>2 DEF Heard
<1>4. GoesOn(req[r], s)
      BY <1>2 DEF GoesOn
<1>5. LocalOK(s)
      BY <1>2 DEF LocalOK
<1>6. AnswerOK(s)'
      BY <1>2 DEF AnswerOK, AnswerAt
<1>7. Known(s.proof)
      BY <1>2 DEF Inv, ProofOK
<1>. QED  BY <1>2, <1>3, <1>4, <1>5, <1>6, <1>7, Moves

LEMMA GotoHears ==
    ASSUME Inv, NEW r \in Request, NEW pc \in PC, Goto(r, pc)
    PROVE  Heard(r, req[r].answer, pc) /\ req[r].answer \in Answer
<1>1. req[r] \in Local
      BY DEF Inv, TypeOK
<1>2. [req[r] EXCEPT !.pc = pc] = [req[r] EXCEPT !.answer = req[r].answer, !.pc = pc]
      BY <1>1 DEF Local
<1>. QED  BY <1>1, <1>2 DEF Goto, Heard, Local

(* It goes on without one. *)
LEMMA GoesQuietly ==
    ASSUME Inv, NEW r \in Request, NEW pc \in PC, Goto(r, pc),
           pc \in Holding => req[r].pc \in Holding,
           UNCHANGED <<background, row, failed>>, RestTyped', CoreMoves,
           LocalAt(req[r].data, req[r].entered, pc),
           pc \in {"deliver", "finish"} => Decided, pc \notin {"complete", "forget"},
           pc \in {"remember", "prove"} => OnRow(req[r].proof),
           Known(cache'.proxy) /\ OnRow(cache'.proxy),
           outbox.due => outbox'.due \/ core' = "finalized"
    PROVE  Inv'
<1>1. Heard(r, req[r].answer, pc) /\ req[r].answer \in Answer
      BY GotoHears
<1>2. AnswerAt(req[r].answer, req[r].pc)
      BY DEF Inv, AnswerOK
<1>3. PICK a \in Answer : a = req[r].answer
      BY <1>1
<1>4. AnswerAt(a, pc)'
      BY <1>2, <1>3 DEF AnswerAt, CoreMoves
<1>. QED  BY <1>1, <1>3, <1>4, Goes

(* It calls Core. *)
LEMMA Calls ==
    ASSUME Inv, NEW r \in Request, NEW allowed, NEW new \in CoreState, NEW done, NEW pc \in PC,
           Call(r, allowed, new, done, pc),
           pc \in Holding => req[r].pc \in Holding,
           UNCHANGED <<background, row, world, failed, paid, terminal>>,
           LocalAt(req[r].data, req[r].entered, pc),
           pc \notin {"remember", "prove", "deliver", "finish"},
           core \in allowed /\ core' = new => CoreMoves,
           pc \in {"complete", "forget"} => done = {"finalized"} /\ new = "finalized"
    PROVE  Inv'
<1>0. TypeOK /\ core \in CoreState
      BY DEF Inv, TypeOK
<1>1. PICK a \in IF core' # core \/ core \in done THEN Reading(core') ELSE {"error"} :
          Heard(r, a, pc)
      BY DEF Call
<1>2. core' \in CoreState /\ RestTyped'
      BY <1>0 DEF Call, TypeOK, RestTyped, background, world, terminal
<1>3. CoreMoves
  <2>1. CASE core' = core
        BY <2>1, CoreStays DEF background
  <2>2. CASE core' # core
        BY <2>2 DEF Call
  <2>. QED  BY <2>1, <2>2
<1>4. a \in Answer /\ (a = core' \/ a \in {"review", "error"})
      BY <1>1, <1>2 DEF Reading, Answer
<1>5. AnswerAt(a, pc)'
  <2>1. pc \in {"complete", "forget"} => a \in {"finalized", "error"}
        BY <1>1, <1>4 DEF Call, Reading, Submitted
  <2>2. /\ a \in {"settled", "finalized"} => core' \in {"settled", "finalized"}
        /\ a = "finalized" => core' = "finalized"
        /\ a = "released" => core' = "released"
        BY <1>4
  <2>. QED  BY <2>1, <2>2 DEF AnswerAt, Settled, Decided
<1>6. Known(cache'.proxy) /\ OnRow(cache'.proxy)
      BY DEF Inv, ProofOK, world
<1>. QED  BY <1>1, <1>2, <1>3, <1>4, <1>5, <1>6, Goes DEF terminal

-----------------------------------------------------------------------------
(* What a write of a request may put on a row that is not terminal.        *)
WritesRow(r, new, pc) ==
    /\ FieldsOK(new)' /\ Known(new.handoff)
    /\ new.state \notin Done
    /\ pc # "idle" => LocalAt(new, req[r].entered, pc) /\ AnswerAt(req[r].answer, pc)
    /\ Calm' /\ row.data.state = "payment_submitted"
          => new.state = "payment_submitted" \/ core = "released"
    /\ row.data.handoff = failed + 1 /\ core # "payer_funded"
          => new.handoff = failed + 1 \/ lost'
    /\ pc \in {"remember", "prove"} => new.handoff = req[r].proof

(* A request whose claim still holds writes the row.                       *)
LEMMA Writing ==
    ASSUME Inv, NEW r \in Request, NEW new \in Fields, NEW pc \in Holding \cup {"idle"},
           row.token = r, row.data.state \notin Terminal,
           row' = [data |-> new, token |-> IF pc = "idle" THEN NoToken ELSE r,
                   live |-> pc # "idle"],
           Become(r, IF pc = "idle" THEN Idle ELSE [req[r] EXCEPT !.data = new, !.pc = pc]),
           UNCHANGED <<mode, changes, core, failed, terminal>>, cache'.proxy = cache.proxy,
           Calm' => Calm, lost => lost' \/ new.handoff = failed + 1,
           RestTyped', WritesRow(r, new, pc)
    PROVE  Inv'
<1>1. TypeOK /\ failed \in Nat /\ row \in Row /\ req \in [Request -> Local] /\ req[r] \in Local
      BY DEF Inv, TypeOK
<1>2. /\ mode' = mode /\ changes' = changes /\ failed' = failed /\ core' = core
      /\ outbox' = outbox /\ event' = event
      BY DEF terminal
<1>3. row'.data = new /\ row' \in Row /\ row'.token \in {r, NoToken}
      BY DEF Row
<1>4. PICK s \in Local :
         /\ req' = [req EXCEPT ![r] = s]
         /\ pc = "idle" => s = Idle
         /\ pc # "idle" => /\ s.data = new /\ s.pc = pc /\ s.entered = req[r].entered
                           /\ s.answer = req[r].answer /\ s.proof = req[r].proof
                           /\ s.worker = req[r].worker /\ s.note = req[r].note
  <2>1. CASE pc = "idle"
        BY <2>1, IdleIs DEF Become
  <2>2. CASE pc # "idle"
    <3>1. pc \in PC
          BY <2>2 DEF Holding
    <3>2. [req[r] EXCEPT !.data = new, !.pc = pc] \in Local
          BY <1>1, <3>1 DEF Local
    <3>. QED  BY <1>1, <2>2, <3>1, <3>2 DEF Become, Local
  <2>. QED  BY <2>1, <2>2
<1>5. req'[r] = s /\ \A q \in Request : q # r => req'[q] = req[q]
      BY <1>1, <1>4
<1>7. TypeOK'
      BY <1>1, <1>3, <1>4 DEF TypeOK, RestTyped
<1>9. \A d, e, p : LocalAt(d, e, p) => LocalAt(d, e, p)'
      BY <1>2 DEF LocalAt, FieldsOK, External, Allowance, Proxy
<1>10. \A a, p : AnswerAt(a, p) => AnswerAt(a, p)'
       BY <1>2 DEF AnswerAt, Decided
<1>11. ASSUME NEW q \in Request
       PROVE  LocalOK(req[q])' /\ TokenOK(q)' /\ AnswerOK(req[q])' /\ NoteOK(req[q])'
  <2>1. CASE q = r /\ pc = "idle"
    <3>1. req'[q] = Idle
          BY <1>4, <1>5, <2>1
    <3>2. LocalAt(Idle.data, Idle.entered, Idle.pc)' /\ AnswerAt(Idle.answer, Idle.pc)'
          BY <1>9, IdleOK DEF LocalOK, AnswerOK
    <3>. QED  BY <3>1, <3>2, IdleIs DEF LocalOK, AnswerOK, LocalAt, FieldsOK, AnswerAt, TokenOK,
                                        Holding, NoteOK
  <2>2. CASE q = r /\ pc # "idle"
    <3>1. LocalAt(new, s.entered, s.pc)' /\ AnswerAt(s.answer, s.pc)'
          BY <1>4, <1>9, <1>10, <2>2 DEF WritesRow
    <3>2. /\ req'[q] = s /\ s.data = new
          /\ s.worker = req[r].worker /\ s.note = req[r].note
          BY <1>4, <1>5, <2>2
    <3>3. LocalOK(req[q])' /\ AnswerOK(req[q])'
          BY <3>1, <3>2 DEF LocalOK, AnswerOK, LocalAt, FieldsOK, AnswerAt
    <3>4. TokenOK(q)'
          BY <1>3, <3>2 DEF TokenOK
    <3>5. NoteOK(req[q])'
          BY <2>2, <3>2 DEF Inv, NoteOK
    <3>. QED  BY <3>3, <3>4, <3>5
  <2>3. CASE q # r
    <3>1. LocalOK(req[q]) /\ AnswerOK(req[q]) /\ NoteOK(req[q])
          BY DEF Inv
    <3>2. req'[q] = req[q] /\ row'.token # q
          BY <1>3, <1>5, <2>3, PurchaseAssumption
    <3>. QED  BY <1>9, <1>10, <3>1, <3>2 DEF LocalOK, AnswerOK, TokenOK, NoteOK
  <2>. QED  BY <2>1, <2>2, <2>3
<1>12. RowOK'
       BY <1>3 DEF RowOK, WritesRow
<1>13. AttemptOK'
  <2> SUFFICES ASSUME Calm'
               PROVE  /\ AttemptIsRecorded'
                      /\ \A q \in Request :
                            req'[q].data.state = "payment_submitted"
                               => new.state \in Recorded \/ core = "released"
      BY <1>2, <1>3 DEF AttemptOK
  <2>1. AttemptIsRecorded /\ \A q \in Request :
                            req[q].data.state = "payment_submitted"
                               => row.data.state \in Recorded \/ core = "released"
        BY DEF Inv, AttemptOK
  <2>2. row.data.state = "payment_submitted"
           => new.state = "payment_submitted" \/ core = "released"
        BY DEF WritesRow
  <2>3. row.data.state \in Recorded => row.data.state = "payment_submitted"
        BY DEF Recorded, Done, Terminal
  <2>4. AttemptIsRecorded'
    <3>1. MoneyMayMove => core # "released"
          BY DEF MoneyMayMove, Submitted
    <3>2. MoneyMayMove => new.state = "payment_submitted"
          BY <2>1, <2>2, <2>3, <3>1 DEF AttemptIsRecorded, Recorded, Done, Calm
    <3>. QED  BY <1>2, <1>3, <3>2 DEF AttemptIsRecorded, MoneyMayMove
  <2>5. ASSUME NEW q \in Request, req'[q].data.state = "payment_submitted"
        PROVE  new.state \in Recorded \/ core = "released"
    <3>1. CASE q = r
      <4>1. s.data.state = "payment_submitted"
            BY <1>5, <2>5, <3>1
      <4>2. pc # "idle"
            BY <1>4, <4>1, IdleIs
      <4>. QED  BY <1>4, <4>1, <4>2 DEF Recorded
    <3>2. CASE q # r
      <4>1. req[q].data.state = "payment_submitted"
            BY <1>5, <2>5, <3>2
      <4>2. row.data.state \in Recorded \/ core = "released"
            BY <2>1, <4>1
      <4>. QED  BY <2>2, <2>3, <4>2 DEF Recorded
    <3>. QED  BY <3>1, <3>2
  <2>. QED  BY <2>4, <2>5
<1>14. ProofOK'
  <2>1. \A n : Known(n) => n <= failed' + 1 /\ (n = failed' + 1 => May')
        BY <1>2 DEF Known, May
  <2>2. /\ row.data.handoff = failed + 1 /\ core # "payer_funded"
              => new.handoff = failed + 1 \/ lost'
        /\ lost => lost' \/ new.handoff = failed + 1
        BY DEF WritesRow
  <2>3. May => core # "payer_funded"
        BY DEF May
  <2>4. \A n : Known(n) /\ OnRow(n) => (n = failed' + 1 => new.handoff = failed' + 1 \/ lost')
        BY <1>2, <2>2, <2>3 DEF Known, OnRow
  <2>5. Known(0) /\ OnRow(0)
        BY <1>1 DEF Known, OnRow
  <2>6. Known(new.handoff)
        BY DEF WritesRow
  <2>7. Known(row.data.handoff)' /\ Known(cache.proxy)' /\ OnRow(cache.proxy)'
    <3>1. Known(cache.proxy) /\ OnRow(cache.proxy)
          BY DEF Inv, ProofOK
    <3>. QED  BY <1>3, <2>1, <2>4, <2>6, <3>1 DEF Known, OnRow
  <2>8. ASSUME NEW q \in Request
        PROVE  /\ Known(req[q].data.handoff)' /\ OnRow(req[q].data.handoff)'
               /\ Known(req[q].proof)' /\ Known(req[q].note.handoff)'
               /\ (req[q].pc \in {"remember", "prove"} => OnRow(req[q].proof))'
    <3>1. PICK z : z = req'[q]
          OBVIOUS
    <3>2. /\ Known(z.data.handoff) /\ Known(z.proof) /\ Known(z.note.handoff)
          /\ z.data.handoff = failed' + 1 => new.handoff = failed' + 1 \/ lost'
          /\ z.pc \in {"remember", "prove"}
                => (z.proof = failed' + 1 => new.handoff = failed' + 1 \/ lost')
      <4>1. CASE q = r /\ pc = "idle"
        <5>1. z = Idle
              BY <1>4, <1>5, <3>1, <4>1
        <5>. QED  BY <1>1, <1>2, <2>5, <5>1, IdleIs
      <4>2. CASE q = r /\ pc # "idle"
        <5>1. z.data = new /\ z.pc = pc /\ z.proof = req[r].proof /\ z.note = req[r].note
              BY <1>4, <1>5, <3>1, <4>2
        <5>2. Known(req[r].proof) /\ Known(req[r].note.handoff)
              BY DEF Inv, ProofOK
        <5>. QED  BY <2>6, <5>1, <5>2 DEF WritesRow
      <4>3. CASE q # r
        <5>1. z = req[q]
              BY <1>5, <3>1, <4>3
        <5>2. /\ Known(req[q].data.handoff) /\ OnRow(req[q].data.handoff)
              /\ Known(req[q].proof) /\ Known(req[q].note.handoff)
              /\ req[q].pc \in {"remember", "prove"} => OnRow(req[q].proof)
              BY DEF Inv, ProofOK
        <5>. QED  BY <2>4, <5>1, <5>2
      <4>. QED  BY <4>1, <4>2, <4>3
    <3>. QED  BY <1>3, <2>1, <3>1, <3>2 DEF Known, OnRow
  <2>9. ProofIsRecoverable'
    <3>1. ProofIsRecoverable
          BY DEF Inv, ProofOK
    <3>. QED  BY <1>2, <1>3, <2>2, <3>1 DEF ProofIsRecoverable, Proxy
  <2>. QED  BY <2>7, <2>8, <2>9 DEF ProofOK
<1>. QED  BY <1>7, <1>11, <1>12, <1>13, <1>14 DEF Inv

(* The same, of what the request has read while its claim holds. *)
Writes(r, new, pc) ==
    /\ FieldsOK(new)
    /\ new.state \notin Done
    /\ pc # "idle" => LocalAt(new, req[r].entered, pc) /\ AnswerAt(req[r].answer, pc)
    /\ Calm /\ req[r].data.state = "payment_submitted"
          => new.state = "payment_submitted" \/ core = "released"
    /\ \/ new.handoff = req[r].data.handoff
       \/ core = "payer_funded" /\ new.handoff = 0
       \/ req[r].data.handoff = 0 /\ new.handoff = req[r].proof
    /\ pc \in {"remember", "prove"} => new.handoff = req[r].proof

LEMMA RowRead ==
    ASSUME Inv, NEW r \in Request, req[r].pc \in Holding, row.token = r
    PROVE  req[r].data = row.data /\ row.data.state \notin Terminal
<1>1. TokenOK(r) /\ LocalOK(req[r])
      BY DEF Inv
<1>2. req[r].data = row.data
      BY <1>1 DEF TokenOK
<1>. QED  BY <1>1, <1>2 DEF LocalOK, LocalAt, Holding

LEMMA WritesOne ==
    ASSUME Inv, NEW r \in Request, NEW new, NEW pc, req[r].pc \in Holding, row.token = r,
           UNCHANGED <<mode, overtaken>>, Writes(r, new, pc)
    PROVE  WritesRow(r, new, pc)
<1>1. req[r].data = row.data
      BY RowRead
<1>2. mode' = mode /\ overtaken' = overtaken
      OBVIOUS
<1>3. FieldsOK(new)' /\ (Calm' => Calm)
      BY <1>2 DEF Writes, FieldsOK, External, Calm, Allowance
<1>4. Known(new.handoff)
  <2>1. Known(req[r].data.handoff) /\ Known(req[r].proof) /\ Known(0)
        BY DEF Inv, ProofOK, Known, TypeOK
  <2>. QED  BY <2>1 DEF Writes
<1>5. row.data.handoff = failed + 1 /\ core # "payer_funded" => new.handoff = failed + 1
      BY <1>1 DEF Inv, TypeOK, Writes
<1>. QED  BY <1>1, <1>3, <1>4, <1>5 DEF Writes, WritesRow

(* save_claimed_purchase writes the row, or the request is over.           *)
LEMMA Saves ==
    ASSUME Inv, NEW r \in Request, NEW new \in Fields, NEW expected,
           NEW pc \in Holding \cup {"idle"}, Save(r, new, expected, pc),
           req[r].pc \in Holding,
           UNCHANGED <<background, core, failed, terminal>>, cache'.proxy = cache.proxy,
           RestTyped', Holds(r, expected) => Writes(r, new, pc)
    PROVE  Inv'
<1>1. CASE Holds(r, expected)
  <2>1. row.token = r /\ Writes(r, new, pc)
        BY <1>1 DEF Holds
  <2>2. row.data.state \notin Terminal /\ WritesRow(r, new, pc)
        BY <2>1, RowRead, WritesOne DEF background
  <2>3. UNCHANGED <<mode, changes, core, failed, terminal>> /\ lost' = lost /\ (Calm' => Calm)
        BY DEF background, Calm, Allowance
  <2>4. /\ row' = [data |-> new, token |-> IF pc = "idle" THEN NoToken ELSE r,
                   live |-> pc # "idle"]
        /\ Become(r, IF pc = "idle" THEN Idle ELSE [req[r] EXCEPT !.data = new, !.pc = pc])
        BY <1>1 DEF Save
  <2>. QED  BY <2>1, <2>2, <2>3, <2>4, Writing
<1>2. CASE ~ Holds(r, expected)
  <2>1. Return(r) /\ UNCHANGED row
        BY <1>2 DEF Save
  <2>2. CoreMoves
        BY <2>1, CoreStays DEF background
  <2>3. Known(cache'.proxy) /\ OnRow(cache'.proxy)
        BY DEF Inv, ProofOK
  <2>. QED  BY <2>1, <2>2, <2>3, Returns DEF terminal
<1>. QED  BY <1>1, <1>2

(* A claim puts the request's token on the row and reads the row.          *)
LEMMA Claims ==
    ASSUME Inv, NEW r \in Request, NEW allowed, NEW local \in Local, Claim(r, allowed, local),
           UNCHANGED <<background, world, money, terminal>>,
           row.data.state \in allowed => LocalAt(row.data, row.data.state, local.pc),
           AnswerAt(local.answer, local.pc), Known(local.proof),
           NoteOK(local), Known(local.note.handoff),
           local.pc \in Holding \ {"remember", "prove"}
    PROVE  Inv'
<1>1. TypeOK /\ failed \in Nat /\ row \in Row /\ req \in [Request -> Local] /\ RestTyped'
      BY RestIs DEF Inv, TypeOK
<1>2. /\ mode' = mode /\ changes' = changes /\ failed' = failed /\ core' = core
      /\ outbox' = outbox /\ event' = event /\ cache' = cache
      /\ overtaken' = overtaken /\ lost' = lost
      BY DEF background, terminal, money, world
<1>3. CASE ~ (row.data.state \in allowed /\ Free)
  <2>1. Return(r) /\ UNCHANGED row
        BY <1>3 DEF Claim
  <2>2. CoreMoves
        BY <1>2, <2>1, CoreStays
  <2>3. Known(cache'.proxy) /\ OnRow(cache'.proxy)
        BY <1>2 DEF Inv, ProofOK
  <2>. QED  BY <1>1, <1>2, <2>1, <2>2, <2>3, Returns
<1>4. CASE row.data.state \in allowed /\ Free
  <2>1. row' = [row EXCEPT !.token = r, !.live = TRUE]
        BY <1>4 DEF Claim
  <2>2. row'.data = row.data /\ row'.token = r /\ row' \in Row
        BY <1>1, <2>1 DEF Row
  <2>3. PICK s \in Local :
           /\ req' = [req EXCEPT ![r] = s]
           /\ s.data = row.data /\ s.entered = row.data.state /\ s.pc = local.pc
           /\ s.answer = local.answer /\ s.proof = local.proof
           /\ s.worker = local.worker /\ s.note = local.note
    <3>1. row.data \in Fields /\ row.data.state \in State
          BY <1>1 DEF Row, Fields
    <3>2. [local EXCEPT !.data = row.data, !.entered = row.data.state] \in Local
          BY <3>1 DEF Local
    <3>. QED  BY <1>4, <3>1, <3>2 DEF Claim, Become, Local
  <2>4. req'[r] = s /\ \A q \in Request : q # r => req'[q] = req[q]
        BY <1>1, <2>3
  <2>5. TypeOK'
        BY <1>1, <2>2, <2>3 DEF TypeOK, RestTyped
  <2>6. \A d, e, p : LocalAt(d, e, p) => LocalAt(d, e, p)'
        BY <1>2 DEF LocalAt, FieldsOK, External, Calm, Allowance, Proxy
  <2>7. \A a, p : AnswerAt(a, p) => AnswerAt(a, p)'
        BY <1>2 DEF AnswerAt, Decided
  <2>8. ASSUME NEW q \in Request
        PROVE  LocalOK(req[q])' /\ TokenOK(q)' /\ AnswerOK(req[q])' /\ NoteOK(req[q])'
    <3>1. CASE q = r
      <4>1. LocalAt(s.data, s.entered, s.pc) /\ AnswerAt(s.answer, s.pc)
            BY <1>4, <2>3
      <4>. QED  BY <2>2, <2>3, <2>4, <2>6, <2>7, <3>1, <4>1 DEF LocalOK, AnswerOK, TokenOK, NoteOK
    <3>2. CASE q # r
      <4>1. LocalOK(req[q]) /\ AnswerOK(req[q]) /\ NoteOK(req[q])
            BY DEF Inv
      <4>. QED  BY <2>2, <2>4, <2>6, <2>7, <3>2, <4>1 DEF LocalOK, AnswerOK, TokenOK, NoteOK
    <3>. QED  BY <3>1, <3>2
  <2>9. RowOK'
        BY <1>2, <2>2 DEF Inv, RowOK, Decided, FieldsOK, External, Calm, Allowance
  <2>10. AttemptOK'
    <3> SUFFICES ASSUME Calm
                 PROVE  /\ AttemptIsRecorded'
                        /\ \A q \in Request :
                              req'[q].data.state = "payment_submitted"
                                 => row.data.state \in Recorded \/ core = "released"
        BY <1>2, <2>2 DEF AttemptOK, Calm, Allowance
    <3>1. AttemptIsRecorded /\ \A q \in Request :
                              req[q].data.state = "payment_submitted"
                                 => row.data.state \in Recorded \/ core = "released"
          BY DEF Inv, AttemptOK
    <3>2. AttemptIsRecorded'
          BY <1>2, <2>2, <3>1 DEF AttemptIsRecorded, MoneyMayMove, Calm, Allowance
    <3>3. ASSUME NEW q \in Request, req'[q].data.state = "payment_submitted"
          PROVE  row.data.state \in Recorded \/ core = "released"
      <4>1. CASE q = r
            BY <2>3, <2>4, <3>3, <4>1 DEF Recorded
      <4>2. CASE q # r
            BY <2>4, <3>1, <3>3, <4>2
      <4>. QED  BY <4>1, <4>2
    <3>. QED  BY <3>2, <3>3
  <2>11. ProofOK'
    <3>1. \A n : (Known(n) => n <= failed' + 1 /\ (n = failed' + 1 => May'))
          BY <1>2 DEF Known, May
    <3>2. \A n : OnRow(n) =>
             (n = failed' + 1 /\ row'.data.state \notin Terminal
                 => row'.data.handoff = failed' + 1 \/ lost')
          BY <1>2, <2>2 DEF OnRow
    <3>3. Known(row.data.handoff)' /\ Known(cache.proxy)' /\ OnRow(cache.proxy)'
      <4>1. Known(row.data.handoff) /\ Known(cache.proxy) /\ OnRow(cache.proxy)
            BY DEF Inv, ProofOK
      <4>. QED  BY <1>2, <2>2, <3>1, <3>2, <4>1 DEF Known, OnRow
    <3>4. ASSUME NEW q \in Request
          PROVE  /\ Known(req[q].data.handoff)' /\ OnRow(req[q].data.handoff)'
                 /\ Known(req[q].proof)' /\ Known(req[q].note.handoff)'
                 /\ (req[q].pc \in {"remember", "prove"} => OnRow(req[q].proof))'
      <4>1. PICK z : z = req'[q]
            OBVIOUS
      <4>2. /\ Known(z.data.handoff) /\ OnRow(z.data.handoff) /\ Known(z.proof)
            /\ Known(z.note.handoff)
            /\ z.pc \in {"remember", "prove"} => OnRow(z.proof)
        <5>1. CASE q = r
          <6>1. Known(row.data.handoff) /\ OnRow(row.data.handoff)
                BY DEF Inv, ProofOK, OnRow
          <6>. QED  BY <2>3, <2>4, <4>1, <5>1, <6>1
        <5>2. CASE q # r
              BY <2>4, <4>1, <5>2 DEF Inv, ProofOK
        <5>. QED  BY <5>1, <5>2
      <4>. QED  BY <3>1, <3>2, <4>1, <4>2 DEF Known, OnRow
    <3>5. ProofIsRecoverable'
      <4>1. ProofIsRecoverable
            BY DEF Inv, ProofOK
      <4>. QED  BY <1>2, <2>2, <4>1 DEF ProofIsRecoverable, Proxy
    <3>. QED  BY <3>3, <3>4, <3>5 DEF ProofOK
  <2>. QED  BY <2>5, <2>8, <2>9, <2>10, <2>11 DEF Inv
<1>. QED  BY <1>3, <1>4

(* save_purchase_with_reputation_event ends the purchase.                  *)
LEMMA SavesTerminal ==
    ASSUME Inv, NEW r \in Request, SaveTerminal(r)
    PROVE  Inv'
<1>1. TypeOK /\ failed \in Nat /\ row \in Row /\ req \in [Request -> Local] /\ req[r] \in Local
      BY DEF Inv, TypeOK
<1>2. /\ mode' = mode /\ changes' = changes /\ failed' = failed /\ core' = core
      /\ cache' = cache /\ expired' = expired /\ drifted' = drifted /\ paid' = paid
      /\ overtaken' = overtaken /\ lost' = lost
      /\ req[r].pc = "finish"
      BY DEF SaveTerminal, background, money, world
<1>3. /\ LocalAt(req[r].data, req[r].entered, "finish") /\ AnswerAt(req[r].answer, "finish")
      /\ req[r].data.state \in Done /\ Decided
      BY <1>2 DEF Inv, LocalOK, AnswerOK, LocalAt, AnswerAt
<1>4. /\ LocalAt(req[r].data, req[r].entered, "finalize")
      /\ AnswerAt(req[r].answer, "finalize")
      BY <1>3 DEF LocalAt, AnswerAt, Done, ProxyPC, ExternalPC
<1>5. CASE ~ (event = "none" /\ Holds(r, {"payment_submitted"}))
  <2>1. UNCHANGED <<row, event, outbox>> /\ (Goto(r, "finalize") \/ Return(r))
        BY <1>5 DEF SaveTerminal
  <2>2. CoreMoves /\ RestTyped'
        BY <1>1, <1>2, <2>1, CoreStays DEF TypeOK, RestTyped
  <2>3. Known(cache'.proxy) /\ OnRow(cache'.proxy)
        BY <1>2 DEF Inv, ProofOK
  <2>4. CASE Goto(r, "finalize")
        BY <1>2, <1>4, <2>1, <2>2, <2>3, <2>4, GoesQuietly DEF background, PC, Holding
  <2>5. CASE Return(r)
        BY <1>2, <2>1, <2>2, <2>3, <2>5, Returns DEF background
  <2>. QED  BY <2>1, <2>4, <2>5
<1>6. CASE event = "none" /\ Holds(r, {"payment_submitted"})
  <2>1. PICK d : d = [req[r].data EXCEPT !.handoff = 0, !.reason = "other"]
        OBVIOUS
  <2>2. /\ row' = [data |-> d, token |-> NoToken, live |-> FALSE]
        /\ event' = req[r].data.state
        /\ outbox' = Enqueued
        /\ Goto(r, "finalize")
        BY <1>6, <2>1 DEF SaveTerminal
  <2>3. /\ d \in Fields /\ d.handoff = 0 /\ d.reason = "other" /\ d.state = req[r].data.state
        /\ d.reserved = req[r].data.reserved
        BY <1>1, <2>1 DEF Local, Fields
  <2>4. row' \in Row /\ row'.data = d /\ row'.token = NoToken
        BY <2>2, <2>3 DEF Row
  <2>5. PICK s \in Local :
           /\ req' = [req EXCEPT ![r] = s]
           /\ s.data = req[r].data /\ s.entered = req[r].entered /\ s.answer = req[r].answer
           /\ s.proof = req[r].proof /\ s.pc = "finalize"
           /\ s.worker = req[r].worker /\ s.note = req[r].note
    <3>1. [req[r] EXCEPT !.pc = "finalize"] \in Local
          BY <1>1 DEF Local, PC
    <3>. QED  BY <1>1, <2>2, <3>1 DEF Goto, Become, Local
  <2>6. req'[r] = s /\ \A q \in Request : q # r => req'[q] = req[q]
        BY <1>1, <2>5
  <2>7. /\ outbox' \in [due : BOOLEAN, token : Request \cup {NoToken}, live : BOOLEAN]
        /\ outbox'.due
        BY <1>1, <2>2 DEF Enqueued, TypeOK
  <2>8. TypeOK'
        BY <1>1, <1>2, <1>3, <2>2, <2>4, <2>5, <2>7 DEF TypeOK, Done
  <2>9. \A x, e, p : LocalAt(x, e, p) => LocalAt(x, e, p)'
        BY <1>2 DEF LocalAt, FieldsOK, External, Calm, Allowance, Proxy
  <2>10. \A a, p : AnswerAt(a, p) => AnswerAt(a, p)'
        BY <1>2 DEF AnswerAt, Decided
  <2>11. ASSUME NEW q \in Request
         PROVE  LocalOK(req[q])' /\ TokenOK(q)' /\ AnswerOK(req[q])' /\ NoteOK(req[q])'
    <3>1. row'.token # q
          BY <2>4, PurchaseAssumption
    <3>2. CASE q = r
      <4>1. LocalAt(s.data, s.entered, s.pc) /\ AnswerAt(s.answer, s.pc)
            BY <1>4, <2>5
      <4>2. NoteOK(req[r])
            BY DEF Inv
      <4>. QED  BY <2>5, <2>6, <2>9, <2>10, <3>1, <3>2, <4>1, <4>2
                DEF LocalOK, AnswerOK, TokenOK, NoteOK
    <3>3. CASE q # r
      <4>1. LocalOK(req[q]) /\ AnswerOK(req[q]) /\ NoteOK(req[q])
            BY DEF Inv
      <4>. QED  BY <2>6, <2>9, <2>10, <3>1, <3>3, <4>1 DEF LocalOK, AnswerOK, TokenOK, NoteOK
    <3>. QED  BY <3>2, <3>3
  <2>12. RowOK'
    <3>1. FieldsOK(d)'
          BY <1>2, <1>3, <2>3 DEF Done, FieldsOK, Unpaid, External, Calm, Allowance
    <3>. QED  BY <1>2, <1>3, <2>4, <2>7, <3>1 DEF RowOK, FieldsOK, Decided
  <2>13. row'.data.state \in Recorded /\ row'.data.state \in Terminal
        BY <1>3, <2>3, <2>4 DEF Recorded, Terminal, Done
  <2>14. AttemptOK'
        BY <2>13 DEF AttemptOK, AttemptIsRecorded, Recorded, Done
  <2>15. ProofOK'
    <3>1. \A n : Known(n) => n <= failed' + 1 /\ (n = failed' + 1 => May')
          BY <1>2 DEF Known, May
    <3>2. Known(0)
          BY <1>1 DEF Known
    <3>3. Known(row.data.handoff)' /\ Known(cache.proxy)' /\ OnRow(cache.proxy)'
      <4>1. Known(cache.proxy)
            BY DEF Inv, ProofOK
      <4>. QED  BY <1>2, <2>3, <2>4, <2>13, <3>1, <3>2, <4>1 DEF Known, OnRow
    <3>4. ASSUME NEW q \in Request
          PROVE  /\ Known(req[q].data.handoff)' /\ OnRow(req[q].data.handoff)'
                 /\ Known(req[q].proof)' /\ Known(req[q].note.handoff)'
                 /\ (req[q].pc \in {"remember", "prove"} => OnRow(req[q].proof))'
      <4>1. PICK z : z = req'[q]
            OBVIOUS
      <4>2. Known(z.data.handoff) /\ Known(z.proof) /\ Known(z.note.handoff)
        <5>1. Known(req[q].data.handoff) /\ Known(req[q].proof) /\ Known(req[q].note.handoff)
              BY DEF Inv, ProofOK
        <5>. QED  BY <2>5, <2>6, <4>1, <5>1
      <4>. QED  BY <2>13, <3>1, <4>1, <4>2 DEF Known, OnRow
    <3>5. ProofIsRecoverable'
          BY <2>13 DEF ProofIsRecoverable
    <3>. QED  BY <3>3, <3>4, <3>5 DEF ProofOK
  <2>. QED  BY <2>8, <2>11, <2>12, <2>14, <2>15 DEF Inv
<1>. QED  BY <1>5, <1>6

-----------------------------------------------------------------------------
(* Steps of the environment: the row says what it said, and no request     *)
(* moves.                                                                  *)
LEMMA Elsewhere ==
    ASSUME Inv, UNCHANGED <<background, req, failed>>, row' \in Row, row'.data = row.data,
           row'.token = row.token, RestTyped', CoreMoves, cache'.proxy \in {0, cache.proxy},
           outbox.due => outbox'.due \/ core' = "finalized"
    PROVE  Inv'
<1>1. TypeOK /\ failed \in Nat /\ row \in Row /\ req \in [Request -> Local]
      BY DEF Inv, TypeOK
<1>2. /\ mode' = mode /\ changes' = changes /\ failed' = failed /\ req' = req
      /\ overtaken' = overtaken /\ lost' = lost
      BY DEF background
<1>3. TypeOK'
      BY <1>1, <1>2 DEF TypeOK, RestTyped
<1>4. \A d, e, p : LocalAt(d, e, p) => LocalAt(d, e, p)'
      BY <1>2 DEF LocalAt, FieldsOK, External, Calm, Allowance, Proxy
<1>5. \A a, p : AnswerAt(a, p) => AnswerAt(a, p)'
      BY DEF AnswerAt, CoreMoves
<1>6. ASSUME NEW q \in Request
      PROVE  LocalOK(req[q])' /\ TokenOK(q)' /\ AnswerOK(req[q])' /\ NoteOK(req[q])'
  <2>1. LocalOK(req[q]) /\ AnswerOK(req[q]) /\ TokenOK(q) /\ NoteOK(req[q])
        BY DEF Inv
  <2>. QED  BY <1>2, <1>4, <1>5, <2>1 DEF LocalOK, AnswerOK, TokenOK, NoteOK
<1>7. RowOK'
      BY <1>2 DEF Inv, RowOK, CoreMoves, FieldsOK, External, Calm, Allowance
<1>8. AttemptOK'
      BY <1>2 DEF Inv, AttemptOK, AttemptIsRecorded, CoreMoves, Recorded, Done, Calm, Allowance
<1>9. ProofOK'
  <2>1. \A n : (Known(n) => n <= failed' + 1 /\ (n = failed' + 1 => May'))
        BY <1>2 DEF Known, CoreMoves
  <2>2. \A n : OnRow(n) =>
           (n = failed' + 1 /\ row'.data.state \notin Terminal
               => row'.data.handoff = failed' + 1 \/ lost')
        BY <1>2 DEF OnRow
  <2>3. Known(0) /\ OnRow(0)
        BY <1>1 DEF Known, OnRow
  <2>4. Known(row.data.handoff)' /\ Known(cache.proxy)' /\ OnRow(cache.proxy)'
    <3>1. Known(row.data.handoff) /\ Known(cache.proxy) /\ OnRow(cache.proxy)
          BY DEF Inv, ProofOK
    <3>. QED  BY <2>1, <2>2, <2>3, <3>1 DEF Known, OnRow
  <2>5. ASSUME NEW q \in Request
        PROVE  /\ Known(req[q].data.handoff)' /\ OnRow(req[q].data.handoff)'
               /\ Known(req[q].proof)' /\ Known(req[q].note.handoff)'
               /\ (req[q].pc \in {"remember", "prove"} => OnRow(req[q].proof))'
    <3>1. /\ Known(req[q].data.handoff) /\ OnRow(req[q].data.handoff)
          /\ Known(req[q].proof) /\ Known(req[q].note.handoff)
          /\ req[q].pc \in {"remember", "prove"} => OnRow(req[q].proof)
          BY DEF Inv, ProofOK
    <3>2. req'[q] = req[q]
          BY <1>2
    <3>. QED  BY <2>1, <2>2, <3>1, <3>2 DEF Known, OnRow
  <2>. QED  BY <2>4, <2>5 DEF ProofOK, CoreMoves
<1>. QED  BY <1>3, <1>6, <1>7, <1>8, <1>9 DEF Inv

LEMMA TimePasses ==
    ASSUME Inv,
           \/ LeaseExpires \/ OutboxLeaseExpires \/ CacheExpires \/ PreviewExpires
           \/ OfferingChanges \/ PrepareCheckout \/ UNCHANGED vars
    PROVE  Inv'
<1>1. TypeOK
      BY DEF Inv
<1>2. UNCHANGED <<background, req, core, failed>>
      BY DEF LeaseExpires, OutboxLeaseExpires, CacheExpires, PreviewExpires, OfferingChanges,
             PrepareCheckout, vars, world, money, terminal
<1>3. row' \in Row /\ row'.data = row.data /\ row'.token = row.token
      BY <1>1 DEF TypeOK, Row, LeaseExpires, OutboxLeaseExpires, CacheExpires, PreviewExpires,
             OfferingChanges, PrepareCheckout, vars
<1>4. /\ cache' \in [input : BOOLEAN, checkout : BOOLEAN, proxy : Nat, external : BOOLEAN]
      /\ cache'.proxy \in {0, cache.proxy}
  <2>1. cache \in [input : BOOLEAN, checkout : BOOLEAN, proxy : Nat, external : BOOLEAN]
        BY <1>1 DEF TypeOK
  <2>2. CASE CacheExpires
    <3>1. CASE cache' = [cache EXCEPT !.input = FALSE]
          BY <2>1, <3>1
    <3>2. CASE cache' = [cache EXCEPT !.checkout = FALSE]
          BY <2>1, <3>2
    <3>3. CASE cache' = [cache EXCEPT !.proxy = 0]
          BY <2>1, <3>3
    <3>4. CASE cache' = [cache EXCEPT !.external = FALSE]
          BY <2>1, <3>4
    <3>. QED  BY <2>2, <3>1, <3>2, <3>3, <3>4 DEF CacheExpires
  <2>3. CASE PrepareCheckout
        BY <2>1, <2>3 DEF PrepareCheckout
  <2>4. CASE ~ CacheExpires /\ ~ PrepareCheckout
    <3>1. cache' = cache
          BY <2>4 DEF LeaseExpires, OutboxLeaseExpires, PreviewExpires, OfferingChanges, vars, world
    <3>. QED  BY <2>1, <3>1
  <2>. QED  BY <2>2, <2>3, <2>4
<1>5. /\ outbox' \in [due : BOOLEAN, token : Request \cup {NoToken}, live : BOOLEAN]
      /\ outbox'.due = outbox.due
  <2>1. outbox \in [due : BOOLEAN, token : Request \cup {NoToken}, live : BOOLEAN]
        BY <1>1 DEF TypeOK
  <2>2. CASE OutboxLeaseExpires
        BY <2>1, <2>2 DEF OutboxLeaseExpires
  <2>3. CASE ~ OutboxLeaseExpires
    <3>1. outbox' = outbox
          BY <2>3 DEF LeaseExpires, CacheExpires, PreviewExpires, OfferingChanges,
                 PrepareCheckout, vars, terminal
    <3>. QED  BY <2>1, <3>1
  <2>. QED  BY <2>2, <2>3
<1>6. /\ expired' \in BOOLEAN /\ drifted' \in BOOLEAN /\ paid' \in BOOLEAN /\ event' = event
      BY <1>1 DEF TypeOK, LeaseExpires, OutboxLeaseExpires, CacheExpires, PreviewExpires,
             OfferingChanges, PrepareCheckout, vars, terminal, money, world
<1>7. RestTyped'
      BY <1>1, <1>2, <1>4, <1>5, <1>6 DEF TypeOK, RestTyped, background
<1>8. CoreMoves
      BY <1>2, <1>3 DEF Inv, CoreMoves, Decided, May, MoneyMayMove, ProofOK, ProofIsRecoverable,
                        Proxy, background
<1>. QED  BY <1>2, <1>3, <1>4, <1>5, <1>7, <1>8, Elsewhere

LEMMA ChainDecides ==
    ASSUME Inv, ChainAccepts \/ ChainReverts
    PROVE  Inv'
<1>1. TypeOK /\ failed \in Nat /\ row \in Row /\ ProofIsRecoverable
      BY DEF Inv, TypeOK, ProofOK
<1>2. /\ UNCHANGED <<mode, changes, overtaken, row, world, req, terminal>> /\ core \in Submitted
      /\ failed' = failed => UNCHANGED background
  <2>1. CASE ChainAccepts
        BY <2>1 DEF ChainAccepts, background
  <2>2. CASE ChainReverts
    <3>1. failed' = failed => lost' = lost
          BY <1>1, <2>2 DEF ChainReverts
    <3>. QED  BY <2>2, <3>1 DEF ChainReverts, background
  <2>. QED  BY <2>1, <2>2
<1>3. /\ mode' = mode /\ changes' = changes /\ row' = row /\ cache' = cache /\ req' = req
      /\ outbox' = outbox /\ event' = event /\ expired' = expired /\ drifted' = drifted
      /\ overtaken' = overtaken
      BY <1>2 DEF world, terminal
<1>4. core' \in CoreState /\ paid' \in BOOLEAN /\ failed' \in Nat /\ lost' \in BOOLEAN
  <2>1. core \in CoreState /\ paid \in BOOLEAN /\ lost \in BOOLEAN
        BY <1>1 DEF TypeOK
  <2>2. CASE ChainAccepts
        BY <1>1, <2>1, <2>2 DEF ChainAccepts, CoreState, background
  <2>3. CASE ChainReverts
    <3>1. core' \in {"spending_reserved", "payer_funded"} /\ failed' \in {failed, failed + 1}
          /\ paid' \in {paid, FALSE} /\ lost' \in {lost, FALSE}
          BY <2>3 DEF ChainReverts
    <3>2. failed + 1 \in Nat
          BY <1>1
    <3>. QED  BY <1>1, <2>1, <3>1, <3>2 DEF CoreState
  <2>. QED  BY <2>2, <2>3
<1>5. RestTyped' /\ TypeOK'
      BY <1>1, <1>3, <1>4 DEF TypeOK, RestTyped
<1>6. CASE failed' = failed
  <2>1. /\ ~ Decided /\ core \notin {"finalized", "released"}
        BY <1>2 DEF Submitted, Decided
  <2>2. May => May'
    <3>1. CASE ChainAccepts
          BY <3>1 DEF May, ChainAccepts, Submitted
    <3>2. CASE ChainReverts
          BY <1>1, <1>6, <3>2 DEF May, ChainReverts, Submitted
    <3>. QED  BY <3>1, <3>2
  <2>3. MoneyMayMove
        BY <1>2 DEF MoneyMayMove
  <2>4. ProofIsRecoverable'
    <3>1. CASE ChainAccepts
          BY <1>1, <1>2, <1>3, <1>6, <3>1 DEF ProofIsRecoverable, ChainAccepts, Submitted, Proxy,
                                              background
    <3>2. CASE ChainReverts
          BY <3>2 DEF ProofIsRecoverable, ChainReverts
    <3>. QED  BY <3>1, <3>2
  <2>5. CoreMoves
        BY <2>1, <2>2, <2>3, <2>4 DEF CoreMoves
  <2>. QED  BY <1>1, <1>2, <1>3, <1>5, <1>6, <2>5, Elsewhere
<1>7. CASE failed' # failed
  <2>1. ChainReverts /\ core = "pay_submitted" /\ failed' = failed + 1
        /\ core' \in {"payer_funded", "spending_reserved"}
        BY <1>7 DEF ChainAccepts, ChainReverts
  <2>2. ASSUME NEW q \in Request
        PROVE  LocalOK(req[q])' /\ TokenOK(q)' /\ AnswerOK(req[q])' /\ NoteOK(req[q])'
    <3>1. LocalOK(req[q]) /\ AnswerOK(req[q]) /\ TokenOK(q) /\ NoteOK(req[q])
          BY DEF Inv
    <3>2. LocalOK(req[q])' /\ TokenOK(q)'
          BY <1>3, <3>1 DEF LocalOK, TokenOK, LocalAt, FieldsOK, External, Calm, Allowance, Proxy
    <3>3. AnswerOK(req[q])'
          BY <1>3, <2>1, <3>1 DEF AnswerOK, AnswerAt, Decided
    <3>4. NoteOK(req[q])'
          BY <1>3, <3>1 DEF NoteOK
    <3>. QED  BY <3>2, <3>3, <3>4
  <2>3. RowOK'
    <3>1. row.data.state \notin Done /\ FieldsOK(row.data)
          BY <2>1 DEF Inv, RowOK, Decided
    <3>. QED  BY <1>3, <3>1 DEF RowOK, FieldsOK, External, Calm, Allowance
  <2>4. AttemptOK'
        BY <1>3, <2>1 DEF Inv, AttemptOK, AttemptIsRecorded, MoneyMayMove, Submitted, Recorded,
                          Done, Calm, Allowance
  <2>5. \A n \in Nat : Known(n) => n <= failed' + 1 /\ n # failed' + 1
        BY <1>1, <2>1 DEF Known
  <2>6. ProofOK'
    <3>1. Known(row.data.handoff)' /\ Known(cache.proxy)' /\ OnRow(cache.proxy)'
      <4>1. /\ Known(row.data.handoff) /\ Known(cache.proxy)
            /\ row.data.handoff \in Nat /\ cache.proxy \in Nat
            BY <1>1 DEF Inv, ProofOK, TypeOK, Row, Fields
      <4>. QED  BY <1>3, <2>5, <4>1 DEF Known, OnRow
    <3>2. ASSUME NEW q \in Request
          PROVE  /\ Known(req[q].data.handoff)' /\ OnRow(req[q].data.handoff)'
                 /\ Known(req[q].proof)' /\ OnRow(req[q].proof)'
                 /\ Known(req[q].note.handoff)'
      <4>1. /\ Known(req[q].data.handoff) /\ Known(req[q].proof) /\ Known(req[q].note.handoff)
            /\ req[q].data.handoff \in Nat /\ req[q].proof \in Nat
            /\ req[q].note.handoff \in Nat
            BY <1>1 DEF Inv, ProofOK, TypeOK, Local, Fields
      <4>. QED  BY <1>3, <2>5, <4>1 DEF Known, OnRow
    <3>3. ProofIsRecoverable'
          BY <2>1 DEF ProofIsRecoverable
    <3>. QED  BY <3>1, <3>2, <3>3 DEF ProofOK
  <2>. QED  BY <1>5, <2>2, <2>3, <2>4, <2>6 DEF Inv
<1>. QED  BY <1>6, <1>7

-----------------------------------------------------------------------------
(* Steps of a request, by what they do.                                    *)
LEMMA Quiet ==
    ASSUME Inv, UNCHANGED <<background, world, money, terminal>>
    PROVE  /\ RestTyped' /\ (row' = row => CoreMoves)
           /\ Known(cache'.proxy) /\ OnRow(cache'.proxy) /\ cache'.proxy = cache.proxy
           /\ UNCHANGED <<background, core, failed, terminal>> /\ outbox' = outbox
<1>1. /\ mode' = mode /\ lost' = lost /\ core' = core /\ failed' = failed /\ cache' = cache /\ outbox' = outbox
      BY DEF background, world, money, terminal
<1>2. row' = row => CoreMoves
      BY <1>1, CoreStays
<1>3. Known(cache'.proxy) /\ OnRow(cache'.proxy)
      BY <1>1 DEF Inv, ProofOK
<1>4. TypeOK
      BY DEF Inv
<1>. QED  BY <1>1, <1>2, <1>3, <1>4, RestIs

LEMMA OnlyGoto ==
    ASSUME Inv, NEW r \in Request, NEW pc \in PC, Goto(r, pc),
           pc \in Holding => req[r].pc \in Holding,
           UNCHANGED <<background, row, world, money, terminal>>,
           LocalAt(req[r].data, req[r].entered, pc),
           pc \in {"deliver", "finish"} => Decided,
           pc \notin {"complete", "forget", "remember", "prove"}
    PROVE  Inv'
<1>1. UNCHANGED <<background, world, money, terminal>> /\ row' = row
      OBVIOUS
<1>2. /\ RestTyped' /\ CoreMoves /\ Known(cache'.proxy) /\ OnRow(cache'.proxy)
      /\ UNCHANGED <<background, row, failed>> /\ outbox' = outbox
      BY <1>1, Quiet
<1>. QED  BY <1>2, GoesQuietly

LEMMA OnlyHeard ==
    ASSUME Inv, NEW r \in Request, NEW a, NEW pc \in PC, Heard(r, a, pc),
           a \in Reading(core) \cup {"error", "spending_reserved"},
           pc \in Holding => req[r].pc \in Holding,
           UNCHANGED <<background, row, world, money, terminal>>,
           LocalAt(req[r].data, req[r].entered, pc),
           pc \notin {"complete", "forget", "remember", "prove", "deliver", "finish"}
    PROVE  Inv'
<1>1. UNCHANGED <<background, world, money, terminal>> /\ row' = row
      OBVIOUS
<1>2. /\ RestTyped' /\ CoreMoves /\ Known(cache'.proxy) /\ OnRow(cache'.proxy)
      /\ UNCHANGED <<background, row, failed>> /\ outbox' = outbox /\ core' = core
      BY <1>1, Quiet
<1>3. core \in CoreState
      BY DEF Inv, TypeOK
<1>4. a \in Answer /\ (a = core \/ a \in {"review", "error", "spending_reserved"})
      BY <1>3 DEF Reading, Answer, CoreState
<1>5. AnswerAt(a, pc)'
      BY <1>2, <1>4 DEF AnswerAt, Settled, Decided
<1>. QED  BY <1>2, <1>4, <1>5, Goes

LEMMA OnlyReturn ==
    ASSUME Inv, NEW r \in Request, Return(r),
           UNCHANGED <<background, row, world, money, terminal>>
    PROVE  Inv'
<1>1. UNCHANGED <<background, world, money, terminal>> /\ row' = row
      OBVIOUS
<1>2. /\ RestTyped' /\ CoreMoves /\ Known(cache'.proxy) /\ OnRow(cache'.proxy)
      /\ UNCHANGED <<background, row, failed>> /\ outbox' = outbox
      BY <1>1, Quiet
<1>. QED  BY <1>2, Returns

(* It has an end to save. *)
LEMMA Ends ==
    ASSUME Inv, NEW r \in Request, NEW e \in Done, NEW a \in Answer, req[r].pc \in Holding,
           Become(r, [req[r] EXCEPT !.answer = a, !.pc = "finish", !.data.state = e]),
           UNCHANGED <<background, row, world, money, terminal>>,
           Decided, AnswerAt(a, "answer")
    PROVE  Inv'
<1>1. UNCHANGED <<background, world, money, terminal>> /\ row' = row
      OBVIOUS
<1>2. /\ RestTyped' /\ CoreMoves /\ Known(cache'.proxy) /\ OnRow(cache'.proxy)
      /\ UNCHANGED <<background, row, failed>> /\ outbox' = outbox
      BY <1>1, Quiet
<1>3. req[r] \in Local /\ e \in State /\ "finish" \in PC
      BY DEF Inv, TypeOK, Done, State, Terminal, PC
<1>4. PICK s \in Local :
         /\ s = [req[r] EXCEPT !.answer = a, !.pc = "finish", !.data.state = e]
         /\ s.data.state = e /\ s.data.handoff = req[r].data.handoff
         /\ s.data.reserved = req[r].data.reserved /\ s.data.reason = req[r].data.reason
         /\ s.proof = req[r].proof /\ s.answer = a /\ s.pc = "finish"
         /\ s.worker = req[r].worker /\ s.note = req[r].note
  <2>1. [req[r] EXCEPT !.answer = a, !.pc = "finish", !.data.state = e] \in Local
        BY <1>3 DEF Local, Fields
  <2>. QED  BY <1>3, <2>1 DEF Local, Fields
<1>5. Become(r, s)
      BY <1>4
<1>6. GoesOn(req[r], s)
      BY <1>4 DEF GoesOn, Holding, Done
<1>7. LocalOK(s)
  <2>1. LocalAt(req[r].data, req[r].entered, req[r].pc)
        BY DEF Inv, LocalOK
  <2>. QED  BY <1>4, <2>1 DEF LocalOK, LocalAt, FieldsOK, Done, Terminal, Unpaid, ProxyPC, ExternalPC
<1>8. AnswerOK(s)'
      BY <1>2, <1>4 DEF AnswerOK, AnswerAt, CoreMoves
<1>9. Known(s.proof)
      BY <1>4 DEF Inv, ProofOK
<1>. QED  BY <1>2, <1>4, <1>5, <1>6, <1>7, <1>8, <1>9, Moves

LEMMA EndsPlainly ==
    ASSUME Inv, NEW r \in Request, NEW e \in Done, req[r].pc \in Holding,
           Become(r, [req[r] EXCEPT !.pc = "finish", !.data.state = e]),
           UNCHANGED <<background, row, world, money, terminal>>, Decided
    PROVE  Inv'
<1>1. req[r] \in Local
      BY DEF Inv, TypeOK
<1>2. PICK a \in Answer : a = req[r].answer
      BY <1>1 DEF Local
<1>3. [req[r] EXCEPT !.pc = "finish", !.data.state = e]
         = [req[r] EXCEPT !.answer = a, !.pc = "finish", !.data.state = e]
      BY <1>1, <1>2 DEF Local
<1>4. AnswerAt(a, "answer")
      BY <1>2 DEF Inv, AnswerOK, AnswerAt
<1>. QED  BY <1>2, <1>3, <1>4, Ends

(* It writes the row and is over.                                          *)
LEMMA LastWrite ==
    ASSUME Inv, NEW r \in Request, NEW st \in State \ Done,
           NEW why \in {"other", "release_pending", "manual_review"}, NEW expected,
           Save(r, [req[r].data EXCEPT !.state = st, !.reason = why], expected, "idle"),
           req[r].pc \in Holding,
           UNCHANGED <<background, core, failed, terminal>>, cache'.proxy = cache.proxy, RestTyped',
           Holds(r, expected) =>
              /\ FieldsOK([req[r].data EXCEPT !.state = st, !.reason = why])
              /\ Calm /\ req[r].data.state = "payment_submitted"
                    => st = "payment_submitted" \/ core = "released"
    PROVE  Inv'
<1>1. req[r].data \in Fields
      BY DEF Inv, TypeOK, Local
<1>2. PICK new \in Fields :
         /\ new = [req[r].data EXCEPT !.state = st, !.reason = why]
         /\ new.state = st /\ new.handoff = req[r].data.handoff
  <2>1. [req[r].data EXCEPT !.state = st, !.reason = why] \in Fields
        BY <1>1 DEF Fields
  <2>. QED  BY <1>1, <2>1 DEF Fields
<1>3. Holds(r, expected) => Writes(r, new, "idle")
      BY <1>2 DEF Writes
<1>4. Save(r, new, expected, "idle")
      BY <1>2
<1>. QED  BY <1>2, <1>3, <1>4, Saves

(* _save_proxy_pending.                                                    *)
LEMMA Pending ==
    ASSUME Inv, NEW r \in Request, NEW why \in {"other", "release_pending"},
           SaveProxyPending(r, why), req[r].pc \in Holding, req[r].data.reserved,
           UNCHANGED <<background, core, failed, terminal>>, cache'.proxy = cache.proxy, RestTyped'
    PROVE  Inv'
<1>1. req[r].data \in Fields
      BY DEF Inv, TypeOK, Local
<1>2. FieldsOK([req[r].data EXCEPT !.state = "payment_submitted", !.reason = why])
      BY <1>1 DEF Fields, FieldsOK, Unpaid
<1>3. Save(r, [req[r].data EXCEPT !.state = "payment_submitted", !.reason = why],
           {req[r].data.state}, "idle")
      BY DEF SaveProxyPending
<1>. QED  BY <1>2, <1>3, LastWrite DEF State, Done

LEMMA OnlyPending ==
    ASSUME Inv, NEW r \in Request, NEW why \in {"other", "release_pending"},
           SaveProxyPending(r, why), req[r].pc \in Holding, req[r].data.reserved,
           UNCHANGED <<background, world, money, terminal>>
    PROVE  Inv'
  BY Quiet, Pending

(* _fail_claimed: nothing of what was submitted can go on.                 *)
LEMMA Fails ==
    ASSUME Inv, NEW r \in Request, Fail(r), req[r].pc \in Holding,
           UNCHANGED <<background, expired, drifted, money, terminal>>,
           Holds(r, {req[r].data.state}) /\ Calm /\ req[r].data.state = "payment_submitted"
              => core = "released"
    PROVE  Inv'
<1>1. TypeOK /\ req[r].data \in Fields
      BY DEF Inv, TypeOK, Local
<1>2. cache' \in [input : BOOLEAN, checkout : BOOLEAN, proxy : Nat, external : BOOLEAN]
      /\ cache'.proxy = cache.proxy
      BY <1>1 DEF Fail, TypeOK
<1>3. RestTyped'
      BY <1>1, <1>2 DEF TypeOK, RestTyped, background, money, terminal
<1>4. FieldsOK([req[r].data EXCEPT !.state = "failed", !.reason = "other"])
      BY <1>1 DEF Fields, FieldsOK, Unpaid
<1>5. Save(r, [req[r].data EXCEPT !.state = "failed", !.reason = "other"],
           {req[r].data.state}, "idle")
      BY DEF Fail
<1>6. UNCHANGED <<background, core, failed, terminal>>
      BY DEF money
<1>. QED  BY <1>2, <1>3, <1>4, <1>5, <1>6, LastWrite DEF State, Terminal, Done

-----------------------------------------------------------------------------
(* Each action of a request.                                               *)
LEMMA Known0 == Inv => Known(0) /\ OnRow(0)
  BY DEF Inv, TypeOK, Known, OnRow

LEMMA Here ==
    ASSUME Inv, NEW r \in Request
    PROVE  /\ req[r] \in Local /\ LocalAt(req[r].data, req[r].entered, req[r].pc)
           /\ AnswerAt(req[r].answer, req[r].pc) /\ TokenOK(r) /\ NoteOK(req[r])
           /\ Known(req[r].proof) /\ Known(req[r].data.handoff) /\ OnRow(req[r].data.handoff)
           /\ Known(req[r].note.handoff)
           /\ req[r].pc \in {"remember", "prove"} => OnRow(req[r].proof)
           /\ mode \in Mode /\ TypeOK /\ Mode = {"clink_allowance", "clink_payer_proxy",
                                                 "external_x402_signature"}
<1>1. <<mode, changes>> \in Mode \X SUBSET Change
      BY PurchaseAssumption DEF Inv, TypeOK
<1>. QED  BY <1>1 DEF Inv, TypeOK, LocalOK, AnswerOK, ProofOK, Mode

LEMMA StepExecute ==
    ASSUME Inv, NEW r \in Request, Execute(r)
    PROVE  Inv'
<1>1. req[r].pc = "idle" /\ UNCHANGED <<background, row, expired, drifted, money, terminal>>
      BY DEF Execute
<1>2. CASE row.data.state \in Terminal
  <2>1. cache' = [cache EXCEPT !.input = FALSE] /\ UNCHANGED req
        BY <1>2 DEF Execute
  <2>2. TypeOK
        BY DEF Inv
  <2>3. /\ cache' \in [input : BOOLEAN, checkout : BOOLEAN, proxy : Nat, external : BOOLEAN]
        /\ cache'.proxy = cache.proxy
        BY <2>1, <2>2 DEF TypeOK
  <2>4. /\ UNCHANGED <<background, req, core, failed, row>> /\ outbox' = outbox /\ event' = event
        /\ paid' = paid /\ expired' = expired /\ drifted' = drifted
        BY <1>1, <2>1 DEF money, terminal
  <2>5. RestTyped' /\ row' \in Row
        BY <2>2, <2>3, <2>4 DEF TypeOK, RestTyped, background
  <2>6. CoreMoves
        BY <2>4, CoreStays DEF background
  <2>. QED  BY <2>3, <2>4, <2>5, <2>6, Elsewhere
<1>3. CASE row.data.state \notin Terminal
  <2>1. Goto(r, "claim") /\ UNCHANGED <<background, row, world, money, terminal>>
        BY <1>1, <1>3 DEF Execute, world
  <2>2. LocalAt(req[r].data, req[r].entered, "claim")
        BY <1>1, Here DEF LocalAt, ProxyPC, ExternalPC
  <2>. QED  BY <2>1, <2>2, OnlyGoto DEF PC, Holding
<1>. QED  BY <1>2, <1>3

LEMMA StepClaimExecution ==
    ASSUME Inv, NEW r \in Request, ClaimExecution(r)
    PROVE  Inv'
<1>1. PICK local \in Local :
         /\ local = [Idle EXCEPT !.pc = "check"]
         /\ local.pc = "check" /\ local.answer = "error" /\ local.proof = 0
         /\ ~ local.worker /\ local.note.handoff = 0
  <2>1. [Idle EXCEPT !.pc = "check"] \in Local
        BY IdleIs DEF Local, PC
  <2>. QED  BY <2>1, IdleIs DEF Local
<1>2. /\ Claim(r, {"preview_created", "confirmation_required", "spending_reserved",
                   "payment_submitted"}, local)
      /\ UNCHANGED <<background, world, money, terminal>>
      BY <1>1 DEF ClaimExecution
<1>3. ASSUME row.data.state \in {"preview_created", "confirmation_required", "spending_reserved",
                                 "payment_submitted"}
      PROVE  LocalAt(row.data, row.data.state, local.pc)
  <2>1. FieldsOK(row.data)
        BY DEF Inv, RowOK
  <2>. QED  BY <1>1, <1>3, <2>1 DEF LocalAt, Terminal, ProxyPC, ExternalPC
<1>4. /\ AnswerAt(local.answer, local.pc) /\ Known(local.proof)
      /\ NoteOK(local) /\ Known(local.note.handoff)
      BY <1>1, Known0 DEF AnswerAt, Settled, NoteOK
<1>. QED  BY <1>1, <1>2, <1>3, <1>4, Claims DEF Holding, PC

(* The look at the mandate or the offering that undoes what is under way.   *)
LEMMA Overtakes ==
    ASSUME Inv, NEW r \in Request, NEW st \in {"failed", "confirmation_required"},
           Save(r, [req[r].data EXCEPT !.state = st, !.reason = "other"], {req[r].data.state},
                "idle"),
           req[r].pc \in Holding, Holds(r, {req[r].data.state}),
           Calm' => Calm /\ Allowance /\ req[r].data.state # "payment_submitted",
           UNCHANGED <<mode, changes, lost, core, failed, terminal>>,
           cache'.proxy = cache.proxy, RestTyped'
    PROVE  Inv'
<1>1. /\ req[r].data \in Fields /\ Known(req[r].data.handoff)
      BY Here DEF Local
<1>2. PICK new \in Fields :
         /\ new = [req[r].data EXCEPT !.state = st, !.reason = "other"]
         /\ new.state = st /\ new.handoff = req[r].data.handoff /\ new.reason = "other"
  <2>1. [req[r].data EXCEPT !.state = st, !.reason = "other"] \in Fields
        BY <1>1 DEF Fields, State, Terminal
  <2>. QED  BY <1>1, <2>1 DEF Fields
<1>3. row.token = r /\ req[r].data = row.data /\ row.data.state \notin Terminal
      BY RowRead DEF Holds
<1>4. FieldsOK(new)'
      BY <1>2 DEF FieldsOK, Allowance, Unpaid
<1>5. WritesRow(r, new, "idle")
      BY <1>1, <1>2, <1>3, <1>4 DEF WritesRow, Done
<1>6. /\ row' = [data |-> new, token |-> NoToken, live |-> FALSE]
      /\ Become(r, Idle)
      BY <1>2 DEF Save
<1>. QED  BY <1>3, <1>5, <1>6, Writing

LEMMA StepCheck ==
    ASSUME Inv, NEW r \in Request, Check(r)
    PROVE  Inv'
<1>1. /\ req[r].pc = "check" /\ req[r].pc \in Holding
      /\ UNCHANGED <<mode, changes, lost, expired, drifted, money, terminal>>
      BY DEF Check, Holding, PC
<1>2. LocalAt(req[r].data, req[r].entered, "check")
      BY <1>1, Here
<1>3. req[r].entered = req[r].data.state /\ req[r].data.state \notin Terminal /\ FieldsOK(req[r].data)
      BY <1>2 DEF LocalAt
<1>4. CASE Allowance /\ req[r].entered = "payment_submitted"
  <2>1. Goto(r, "reconcile") /\ UNCHANGED <<background, row, world, money, terminal>>
        BY <1>1, <1>4 DEF Check, world, background
  <2>2. LocalAt(req[r].data, req[r].entered, "reconcile")
        BY <1>3, <1>4 DEF LocalAt, ProxyPC, ExternalPC
  <2>. QED  BY <1>1, <2>1, <2>2, OnlyGoto DEF PC
<1>5. CASE ~ (Allowance /\ req[r].entered = "payment_submitted")
           /\ (drifted \/ (expired /\ req[r].entered \in Unpaid))
  <2>1. Fail(r) /\ overtaken' = (overtaken \/ Holds(r, {"payment_submitted"}))
        BY <1>5 DEF Check
  <2>2. CASE Holds(r, {"payment_submitted"}) /\ req[r].data.state = "payment_submitted"
    <3>1. ~ Allowance' /\ overtaken'
          BY <1>1, <1>3, <1>5, <2>1, <2>2 DEF Allowance
    <3>2. TypeOK
          BY DEF Inv
    <3>3. cache' \in [input : BOOLEAN, checkout : BOOLEAN, proxy : Nat, external : BOOLEAN]
          /\ cache'.proxy = cache.proxy
          BY <2>1, <3>2 DEF Fail, TypeOK
    <3>4. RestTyped'
          BY <1>1, <3>1, <3>2, <3>3 DEF TypeOK, RestTyped, money, terminal
    <3>5. Save(r, [req[r].data EXCEPT !.state = "failed", !.reason = "other"],
               {req[r].data.state}, "idle")
          BY <2>1 DEF Fail
    <3>6. ~ Calm' /\ Holds(r, {req[r].data.state})
          BY <2>2, <3>1 DEF Calm
    <3>7. UNCHANGED <<mode, changes, lost, core, failed, terminal>>
          BY <1>1 DEF money
    <3>. QED  BY <1>1, <3>3, <3>4, <3>5, <3>6, <3>7, Overtakes
  <2>3. CASE ~ (Holds(r, {"payment_submitted"}) /\ req[r].data.state = "payment_submitted")
    <3>1. ~ Holds(r, {"payment_submitted"})
          BY <1>1, <2>3, RowRead DEF Holds
    <3>2. TypeOK
          BY DEF Inv
    <3>3. UNCHANGED <<background, expired, drifted, money, terminal>>
          BY <1>1, <2>1, <3>1, <3>2 DEF background, TypeOK
    <3>4. Holds(r, {req[r].data.state}) => req[r].data.state # "payment_submitted"
          BY <2>3 DEF Holds
    <3>. QED  BY <1>1, <2>1, <3>3, <3>4, Fails
  <2>. QED  BY <2>2, <2>3
<1>6. CASE ~ (Allowance /\ req[r].entered = "payment_submitted")
           /\ ~ (drifted \/ (expired /\ req[r].entered \in Unpaid))
  <2>1. PICK pc \in {"downgrade", "authorize", "missing"} :
           /\ pc = IF Proxy /\ req[r].data.reason = "release_pending" THEN "downgrade"
                   ELSE IF cache.input THEN "authorize" ELSE "missing"
        OBVIOUS
  <2>2. Goto(r, pc) /\ UNCHANGED <<background, row, world, money, terminal>>
        BY <1>1, <1>6, <2>1 DEF Check, world, background
  <2>3. LocalAt(req[r].data, req[r].entered, pc)
        BY <1>3, <1>6, <2>1 DEF LocalAt, ProxyPC, ExternalPC
  <2>4. pc \in PC /\ pc \in Holding
        BY <2>1 DEF PC, Holding
  <2>. QED  BY <1>1, <2>1, <2>2, <2>3, <2>4, OnlyGoto
<1>. QED  BY <1>4, <1>5, <1>6

LEMMA StepAuthorize ==
    ASSUME Inv, NEW r \in Request, Authorize(r)
    PROVE  Inv'
<1>1. /\ req[r].pc = "authorize" /\ req[r].pc \in Holding
      /\ UNCHANGED <<mode, changes, lost, world, money, terminal>>
      BY DEF Authorize, Holding, PC
<1>2. LocalAt(req[r].data, req[r].entered, "authorize") /\ mode \in Mode
      BY <1>1, Here
<1>3. req[r].entered = req[r].data.state /\ req[r].data.state \notin Terminal /\ FieldsOK(req[r].data)
      BY <1>2 DEF LocalAt
<1>4. CASE /\ Goto(r, IF req[r].data.reserved THEN PayPc ELSE "reserve")
           /\ UNCHANGED <<row, overtaken>>
  <2>1. PICK pc \in {"record", "handoff", "reconcile", "reserve"} :
           /\ pc = IF req[r].data.reserved THEN PayPc ELSE "reserve"
           /\ pc = "record" => Allowance /\ req[r].data.reserved
           /\ pc = "handoff" => Proxy /\ req[r].data.reserved
           /\ pc = "reconcile" => External
           /\ pc = "reserve" => ~ req[r].data.reserved
        BY <1>2 DEF PayPc, Allowance, Proxy, External, Mode
  <2>2. Goto(r, pc) /\ UNCHANGED <<background, row, world, money, terminal>>
        BY <1>1, <1>4, <2>1 DEF background
  <2>3. LocalAt(req[r].data, req[r].entered, pc)
        BY <1>3, <2>1 DEF LocalAt, ProxyPC, ExternalPC, Allowance, Proxy, External
  <2>4. pc \in PC /\ pc \in Holding
        BY <2>1 DEF PC, Holding
  <2>. QED  BY <1>1, <2>1, <2>2, <2>3, <2>4, OnlyGoto
<1>5. CASE /\ req[r].entered \in Unpaid \/ "mandate" \in changes
           /\ Save(r, [req[r].data EXCEPT !.state = "confirmation_required", !.reason = "other"],
                   {req[r].data.state}, "idle")
           /\ overtaken' = (overtaken \/ (req[r].data.reserved /\ Holds(r, {req[r].data.state})))
  <2>1. TypeOK /\ req[r].data \in Fields
        BY Here DEF Local
  <2>2. CASE req[r].data.reserved /\ Holds(r, {req[r].data.state})
    <3>1. overtaken' /\ (Allowance' <=> Allowance)
          BY <1>1, <1>5, <2>2 DEF Allowance
    <3>2. Calm' => Calm /\ Allowance /\ req[r].data.state # "payment_submitted"
          BY <1>2, <3>1 DEF Calm, LocalAt
    <3>3. /\ RestTyped' /\ cache'.proxy = cache.proxy
          /\ UNCHANGED <<mode, changes, lost, core, failed, terminal>>
          BY <1>1, <2>1, <3>1 DEF TypeOK, RestTyped, world, money, terminal
    <3>. QED  BY <1>1, <1>5, <2>2, <3>2, <3>3, Overtakes
  <2>3. CASE ~ (req[r].data.reserved /\ Holds(r, {req[r].data.state}))
    <3>1. UNCHANGED <<background, world, money, terminal>>
          BY <1>1, <1>5, <2>1, <2>3 DEF background, TypeOK
    <3>2. Holds(r, {req[r].data.state})
             => /\ FieldsOK([req[r].data EXCEPT !.state = "confirmation_required",
                                                !.reason = "other"])
                /\ req[r].data.state # "payment_submitted"
          BY <1>3, <2>1, <2>3 DEF FieldsOK, Fields
    <3>. QED  BY <1>1, <1>5, <3>1, <3>2, Quiet, LastWrite DEF State, Done
  <2>. QED  BY <2>2, <2>3
<1>. QED  BY <1>4, <1>5 DEF Authorize

LEMMA StepReserve ==
    ASSUME Inv, NEW r \in Request, Reserve(r)
    PROVE  Inv'
<1>1. /\ req[r].pc = "reserve" /\ Goto(r, "reserved") /\ req[r].pc \in Holding
      /\ core' = IF core = "none" THEN "spending_reserved" ELSE core
      /\ UNCHANGED <<background, row, world, failed, paid, terminal>>
      BY DEF Reserve, Holding, PC
<1>2. TypeOK
      BY DEF Inv
<1>3. RestTyped'
      BY <1>1, <1>2 DEF TypeOK, RestTyped, CoreState, background, world, terminal
<1>4. CoreMoves
  <2>1. CASE core = "none"
    <3>1. core' = "spending_reserved"
          BY <1>1, <2>1
    <3>. QED  BY <2>1, <3>1 DEF CoreMoves, Decided, May, MoneyMayMove, Submitted, ProofIsRecoverable
  <2>2. CASE core # "none"
        BY <1>1, <2>2, CoreStays DEF background
  <2>. QED  BY <2>1, <2>2
<1>5. LocalAt(req[r].data, req[r].entered, "reserved")
      BY <1>1, Here DEF LocalAt, ProxyPC, ExternalPC
<1>6. Known(cache'.proxy) /\ OnRow(cache'.proxy) /\ outbox' = outbox
      BY <1>1 DEF Inv, ProofOK, world, terminal
<1>. QED  BY <1>1, <1>3, <1>4, <1>5, <1>6, GoesQuietly DEF PC

LEMMA StepSaveReserved ==
    ASSUME Inv, NEW r \in Request, SaveReserved(r)
    PROVE  Inv'
<1>1. req[r].pc = "reserved" /\ UNCHANGED <<background, world, money, terminal>>
      /\ req[r].pc \in Holding
      BY DEF SaveReserved, Holding, PC
<1>2. /\ LocalAt(req[r].data, req[r].entered, "reserved") /\ mode \in Mode
      /\ AnswerAt(req[r].answer, "reserved") /\ req[r].data \in Fields
      BY <1>1, Here DEF Local
<1>3. PICK new \in Fields :
         /\ new = [req[r].data EXCEPT !.reserved = TRUE, !.reason = "other",
                      !.state = IF External THEN "signing_required" ELSE "spending_reserved"]
         /\ new.reserved /\ new.reason = "other" /\ new.handoff = req[r].data.handoff
         /\ new.state = IF External THEN "signing_required" ELSE "spending_reserved"
  <2>1. [req[r].data EXCEPT !.reserved = TRUE, !.reason = "other",
                      !.state = IF External THEN "signing_required" ELSE "spending_reserved"]
           \in Fields
        BY <1>2 DEF Fields, State
  <2>. QED  BY <1>2, <2>1 DEF Fields
<1>4. PICK pc \in {"idle", "record", "handoff"} :
         /\ pc = IF External THEN "idle" ELSE PayPc
         /\ pc = "record" => Allowance
         /\ pc = "handoff" => Proxy
         /\ pc # "idle" => ~ External
      BY <1>2 DEF PayPc, Allowance, Proxy, External, Mode
<1>5. Save(r, new, {req[r].entered}, pc)
      BY <1>3, <1>4 DEF SaveReserved
<1>6. FieldsOK(new)
      BY <1>3 DEF FieldsOK, Unpaid
<1>7. pc # "idle" => LocalAt(new, req[r].entered, pc)
      BY <1>3, <1>4, <1>6 DEF LocalAt, Terminal, ProxyPC, ExternalPC
<1>8. pc # "idle" => AnswerAt(req[r].answer, pc)
      BY <1>2, <1>4 DEF AnswerAt
<1>9. req[r].data.state # "payment_submitted" /\ new.state \notin Done
      BY <1>2, <1>3 DEF LocalAt, FieldsOK, Done
<1>10. Writes(r, new, pc)
      BY <1>3, <1>4, <1>6, <1>7, <1>8, <1>9 DEF Writes
<1>11. pc \in Holding \cup {"idle"}
      BY DEF Holding, PC
<1>. QED  BY <1>1, <1>5, <1>10, <1>11, Quiet, Saves

LEMMA StepRecordSubmission ==
    ASSUME Inv, NEW r \in Request, RecordSubmission(r)
    PROVE  Inv'
<1>1. req[r].pc = "record" /\ UNCHANGED <<background, world, money, terminal>>
      /\ req[r].pc \in Holding
      BY DEF RecordSubmission, Holding, PC
<1>2. /\ LocalAt(req[r].data, req[r].entered, "record")
      /\ AnswerAt(req[r].answer, "record") /\ req[r].data \in Fields
      BY <1>1, Here DEF Local
<1>3. PICK new \in Fields :
         /\ new = [req[r].data EXCEPT !.state = "payment_submitted", !.reason = "other"]
         /\ new.state = "payment_submitted" /\ new.reason = "other"
         /\ new.reserved = req[r].data.reserved /\ new.handoff = req[r].data.handoff
  <2>1. [req[r].data EXCEPT !.state = "payment_submitted", !.reason = "other"] \in Fields
        BY <1>2 DEF Fields, State
  <2>. QED  BY <1>2, <2>1 DEF Fields
<1>4. Save(r, new, {"spending_reserved"}, "settle")
      BY <1>3 DEF RecordSubmission
<1>5. FieldsOK(new) /\ new.reserved
      BY <1>2, <1>3 DEF LocalAt, FieldsOK, Unpaid
<1>6. LocalAt(new, req[r].entered, "settle")
      BY <1>3, <1>5 DEF LocalAt, Terminal, ProxyPC, ExternalPC
<1>7. Writes(r, new, "settle")
      BY <1>2, <1>3, <1>5, <1>6 DEF Writes, AnswerAt, Done
<1>. QED  BY <1>1, <1>4, <1>7, Quiet, Saves DEF Holding, PC

(* What a step that calls Core does to it.                                 *)
LEMMA StepSettle ==
    ASSUME Inv, NEW r \in Request, Settle(r)
    PROVE  Inv'
<1>1. req[r].pc = "settle" /\ UNCHANGED <<background, row, world, failed, paid, terminal>>
      /\ req[r].pc \in Holding
      BY DEF Settle, Holding, PC
<1>2. LocalAt(req[r].data, req[r].entered, "settle")
      BY <1>1, Here
<1>3. PICK pc \in {"continue", "answer"} : pc = IF Proxy THEN "continue" ELSE "answer"
      OBVIOUS
<1>4. LocalAt(req[r].data, req[r].entered, pc)
      BY <1>2, <1>3 DEF LocalAt, ProxyPC, ExternalPC
<1>5. PICK allowed : allowed = {SettleState}
      OBVIOUS
<1>6. Call(r, allowed, "pull_submitted", {"settled", "finalized", "pull_submitted"}, pc)
      BY <1>3, <1>5 DEF Settle
<1>7. ASSUME core \in allowed, core' = "pull_submitted"
      PROVE  CoreMoves
  <2>1. core \in {"spending_reserved", "proxy_authorization_ready"}
        BY <1>5, <1>7 DEF SettleState
  <2>2. Calm => row.data.state \in Recorded
        BY <1>2, <2>1 DEF Inv, AttemptOK, LocalAt
  <2>. QED  BY <1>7, <2>1, <2>2 DEF CoreMoves, Decided, May, ProofIsRecoverable
<1>. QED  BY <1>1, <1>3, <1>4, <1>6, <1>7, Calls DEF PC, CoreState, Submitted

LEMMA StepReconcile ==
    ASSUME Inv, NEW r \in Request, Reconcile(r)
    PROVE  Inv'
<1>1. req[r].pc = "reconcile" /\ UNCHANGED <<background, row, world, money, terminal>>
      /\ req[r].pc \in Holding
      BY DEF Reconcile, Holding, PC
<1>2. LocalAt(req[r].data, req[r].entered, "reconcile")
      BY <1>1, Here
<1>3. PICK a \in Reading(core) :
         IF Retryable(a) /\ Allowance THEN Heard(r, a, "settle")
         ELSE Heard(r, IF Retryable(a) THEN "error" ELSE a, "answer")
      BY DEF Reconcile
<1>4. CASE Retryable(a) /\ Allowance
  <2>1. LocalAt(req[r].data, req[r].entered, "settle")
        BY <1>2, <1>4 DEF LocalAt, FieldsOK, ProxyPC, ExternalPC
  <2>. QED  BY <1>1, <1>3, <1>4, <2>1, OnlyHeard DEF PC
<1>5. CASE ~ (Retryable(a) /\ Allowance)
  <2>1. PICK b : b = IF Retryable(a) THEN "error" ELSE a
        OBVIOUS
  <2>2. LocalAt(req[r].data, req[r].entered, "answer")
        BY <1>2 DEF LocalAt, ProxyPC, ExternalPC
  <2>. QED  BY <1>1, <1>3, <1>5, <2>1, <2>2, OnlyHeard DEF PC
<1>. QED  BY <1>4, <1>5

LEMMA StepHandleAnswer ==
    ASSUME Inv, NEW r \in Request, HandleAnswer(r)
    PROVE  Inv'
<1>1. req[r].pc = "answer" /\ UNCHANGED <<background, world, money, terminal>>
      /\ req[r].pc \in Holding
      BY DEF HandleAnswer, Holding, PC
<1>2. /\ LocalAt(req[r].data, req[r].entered, "answer") /\ req[r].data \in Fields
      /\ AnswerAt(req[r].answer, "answer")
      BY <1>1, Here DEF Local
<1>3. CASE Deliverable(req[r].answer) /\ (req[r].worker => External /\ cache.external)
  <2>1. Decided /\ UNCHANGED <<background, row, world, money, terminal>>
        BY <1>1, <1>2, <1>3 DEF AnswerAt, Deliverable, HandleAnswer
  <2>2. CASE req[r].worker
    <3>1. Become(r, [req[r] EXCEPT !.pc = "finish", !.data.state = "delivered"])
          BY <1>3, <2>2 DEF HandleAnswer
    <3>. QED  BY <1>1, <2>1, <3>1, EndsPlainly DEF Done
  <2>3. CASE ~ req[r].worker
    <3>1. Goto(r, "deliver")
          BY <1>3, <2>3 DEF HandleAnswer
    <3>2. LocalAt(req[r].data, req[r].entered, "deliver")
          BY <1>2 DEF LocalAt, ProxyPC, ExternalPC
    <3>. QED  BY <1>1, <2>1, <3>1, <3>2, OnlyGoto DEF PC
  <2>. QED  BY <2>2, <2>3
<1>4. CASE ~ (Deliverable(req[r].answer) /\ (req[r].worker => External /\ cache.external))
  <2>1. PICK why \in {"other", "manual_review"} :
           why = IF req[r].answer = "review" THEN "manual_review" ELSE "other"
        OBVIOUS
  <2>2. Save(r, [req[r].data EXCEPT !.reason = why], {"payment_submitted"}, "idle")
        BY <1>4, <2>1 DEF HandleAnswer, SavePending
  <2>3. PICK st \in State : st = req[r].data.state
        BY <1>2 DEF Fields
  <2>4. st \notin Done
        BY <1>2, <2>3 DEF LocalAt, Done, Terminal
  <2>5. [req[r].data EXCEPT !.reason = why] = [req[r].data EXCEPT !.state = st, !.reason = why]
        BY <1>2, <2>3 DEF Fields
  <2>6. FieldsOK([req[r].data EXCEPT !.state = st, !.reason = why])
    <3>1. FieldsOK(req[r].data)
          BY <1>2 DEF LocalAt
    <3>. QED  BY <1>2, <2>1, <2>3, <3>1 DEF FieldsOK, Fields
  <2>. QED  BY <1>1, <2>2, <2>3, <2>4, <2>5, <2>6, Quiet, LastWrite
<1>. QED  BY <1>3, <1>4

LEMMA StepDeliver ==
    ASSUME Inv, NEW r \in Request, Deliver(r)
    PROVE  Inv'
<1>1. req[r].pc = "deliver" /\ UNCHANGED <<background, row, world, money, terminal>>
      /\ req[r].pc \in Holding
      BY DEF Deliver, Holding, PC
<1>2. Decided
      BY <1>1, Here DEF AnswerAt
<1>3. PICK e \in Done : Become(r, [req[r] EXCEPT !.pc = "finish", !.data.state = e])
      BY DEF Deliver, Done
<1>. QED  BY <1>1, <1>2, <1>3, EndsPlainly

LEMMA StepFinalizeTerminal ==
    ASSUME Inv, NEW r \in Request, FinalizeTerminal(r) \/ ProcessFinalization(r)
    PROVE  Inv'
<1>1. PICK pc \in {"complete", "forget"} :
         /\ req[r].pc \in {"finalize", "outbox"}
         /\ pc = "complete" <=> req[r].pc = "finalize"
         /\ Call(r, {"settled"}, "finalized", {"finalized"}, pc)
         /\ UNCHANGED <<background, row, world, failed, paid, terminal>>
      BY DEF FinalizeTerminal, ProcessFinalization
<1>2. LocalAt(req[r].data, req[r].entered, pc)
      BY <1>1, Here DEF LocalAt, ProxyPC, ExternalPC
<1>3. core = "settled" /\ core' = "finalized" => CoreMoves
      BY DEF CoreMoves, Decided, May, MoneyMayMove, ProofIsRecoverable
<1>4. pc \notin Holding /\ pc \in PC /\ "finalized" \in CoreState
      BY <1>1 DEF Holding, PC, CoreState
<1>. QED  BY <1>1, <1>2, <1>3, <1>4, Calls

LEMMA StepCompleteFinalization ==
    ASSUME Inv, NEW r \in Request, CompleteFinalization(r) \/ FinishFinalization(r)
    PROVE  Inv'
<1>1. /\ req[r].pc \in {"complete", "forget"} /\ Return(r)
      /\ UNCHANGED <<background, row, expired, drifted, money, event>>
      /\ cache' \in {cache, Emptied}
      BY DEF CompleteFinalization, FinishFinalization, world
<1>2. TypeOK
      BY DEF Inv
<1>3. req[r].answer # "error" => core = "finalized"
      BY <1>1, Here DEF AnswerAt
<1>4. /\ outbox' \in [due : BOOLEAN, token : Request \cup {NoToken}, live : BOOLEAN]
      /\ outbox.due => outbox'.due \/ core = "finalized"
  <2>1. outbox \in [due : BOOLEAN, token : Request \cup {NoToken}, live : BOOLEAN]
        BY <1>2 DEF TypeOK
  <2>2. CASE outbox' = outbox
        BY <2>1, <2>2
  <2>3. CASE outbox' # outbox
    <3>1. PICK due \in BOOLEAN : outbox' = [due |-> due, token |-> NoToken, live |-> FALSE]
          BY <2>3 DEF CompleteFinalization, FinishFinalization
    <3>2. due \/ core = "finalized"
      <4>1. CASE core = "finalized"
            BY <4>1
      <4>2. CASE core # "finalized"
        <5>1. req[r].answer = "error"
              BY <1>3, <4>2
        <5>2. outbox' = [due |-> TRUE, token |-> NoToken, live |-> FALSE]
              BY <2>3, <5>1 DEF CompleteFinalization, FinishFinalization, Forgettable
        <5>. QED  BY <3>1, <5>2
      <4>. QED  BY <4>1, <4>2
    <3>3. outbox'.due = due
          BY <3>1
    <3>. QED  BY <3>1, <3>2, <3>3
  <2>. QED  BY <2>2, <2>3
<1>5. /\ cache' \in [input : BOOLEAN, checkout : BOOLEAN, proxy : Nat, external : BOOLEAN]
      /\ cache'.proxy \in {0, cache.proxy}
  <2>1. cache \in [input : BOOLEAN, checkout : BOOLEAN, proxy : Nat, external : BOOLEAN]
        BY <1>2 DEF TypeOK
  <2>2. CASE cache' = cache
        BY <2>1, <2>2
  <2>3. CASE cache' = Emptied
        BY <2>3 DEF Emptied
  <2>. QED  BY <1>1, <2>2, <2>3
<1>6. core' = core /\ failed' = failed /\ paid' = paid
      BY <1>1 DEF money
<1>7. RestTyped'
      BY <1>1, <1>2, <1>4, <1>5, <1>6 DEF TypeOK, RestTyped, background
<1>8. CoreMoves
      BY <1>1, <1>6, CoreStays DEF background
<1>9. Known(cache'.proxy) /\ OnRow(cache'.proxy)
      BY <1>5, Known0 DEF Inv, ProofOK
<1>. QED  BY <1>1, <1>4, <1>6, <1>7, <1>8, <1>9, Returns

LEMMA StepHandleMissingInput ==
    ASSUME Inv, NEW r \in Request, HandleMissingInput(r)
    PROVE  Inv'
<1>1. req[r].pc = "missing" /\ UNCHANGED <<background, row, world, money, terminal>>
      /\ req[r].pc \in Holding
      BY DEF HandleMissingInput, Holding, PC
<1>2. LocalAt(req[r].data, req[r].entered, "missing")
      BY <1>1, Here
<1>3. \A pc \in {"release", "fail", "answer"} : LocalAt(req[r].data, req[r].entered, pc)
      BY <1>2 DEF LocalAt, ProxyPC, ExternalPC
<1>4. CASE Goto(r, IF req[r].data.reserved THEN "release" ELSE "fail")
  <2>1. PICK pc \in {"release", "fail"} : pc = IF req[r].data.reserved THEN "release" ELSE "fail"
        OBVIOUS
  <2>. QED  BY <1>1, <1>3, <1>4, <2>1, OnlyGoto DEF PC
<1>5. CASE \E a \in Reading(core) :
              IF Settled(a)
              THEN Become(r, [req[r] EXCEPT !.answer = a, !.pc = "finish",
                                            !.data.state = "paid_but_undelivered"])
              ELSE Heard(r, a, IF Retryable(a) THEN "release" ELSE "answer")
  <2>1. PICK a \in Reading(core) :
              IF Settled(a)
              THEN Become(r, [req[r] EXCEPT !.answer = a, !.pc = "finish",
                                            !.data.state = "paid_but_undelivered"])
              ELSE Heard(r, a, IF Retryable(a) THEN "release" ELSE "answer")
        BY <1>5
  <2>2. CASE Settled(a)
    <3>1. core \in CoreState
          BY DEF Inv, TypeOK
    <3>2. a \in Answer /\ a = core
          BY <2>1, <2>2, <3>1 DEF Reading, Settled, Answer
    <3>3. Decided /\ AnswerAt(a, "answer")
          BY <2>2, <3>2 DEF Settled, Decided, AnswerAt
    <3>. QED  BY <1>1, <2>1, <2>2, <3>2, <3>3, Ends DEF Done
  <2>3. CASE ~ Settled(a)
    <3>1. PICK pc \in {"release", "answer"} : pc = IF Retryable(a) THEN "release" ELSE "answer"
          OBVIOUS
    <3>. QED  BY <1>1, <1>3, <2>1, <2>3, <3>1, OnlyHeard DEF PC
  <2>. QED  BY <2>2, <2>3
<1>. QED  BY <1>4, <1>5 DEF HandleMissingInput

LEMMA StepRelease ==
    ASSUME Inv, NEW r \in Request, Release(r)
    PROVE  Inv'
<1>1. /\ req[r].pc \in {"release", "downgrade"} /\ req[r].pc \in Holding
      /\ UNCHANGED <<background, row, world, failed, paid, terminal>>
      BY DEF Release, Holding, PC
<1>2. PICK pc \in {"fail", "failProxy"} :
         pc = IF req[r].pc = "release" THEN "fail" ELSE "failProxy"
      OBVIOUS
<1>3. LocalAt(req[r].data, req[r].entered, pc)
      BY <1>1, <1>2, Here DEF LocalAt, ProxyPC, ExternalPC
<1>4. Call(r, Releasable, "released", {"released"}, pc)
      BY <1>2 DEF Release
<1>5. core \in Releasable /\ core' = "released" => CoreMoves
      BY DEF Releasable, CoreMoves, Decided, May, MoneyMayMove, Submitted, ProofIsRecoverable
<1>. QED  BY <1>1, <1>3, <1>4, <1>5, Calls DEF PC, CoreState

LEMMA StepFailReleased ==
    ASSUME Inv, NEW r \in Request, FailReleased(r)
    PROVE  Inv'
<1>1. /\ req[r].pc \in {"fail", "failProxy"} /\ req[r].pc \in Holding
      /\ UNCHANGED <<background, expired, drifted, money, terminal>>
      BY DEF FailReleased, Holding, PC
<1>2. /\ FieldsOK(req[r].data) /\ req[r].data.state \notin Terminal /\ req[r].data \in Fields
      /\ req[r].answer = "released" => core = "released"
      BY <1>1, Here DEF LocalAt, AnswerAt, Local
<1>3. CASE MayFail(r)
  <2>1. Fail(r)
        BY <1>3 DEF FailReleased
  <2>2. req[r].data.state = "payment_submitted" => core = "released"
        BY <1>2, <1>3 DEF MayFail, FieldsOK
  <2>. QED  BY <1>1, <2>1, <2>2, Fails
<1>4. CASE ~ MayFail(r)
  <2>1. UNCHANGED <<background, world, money, terminal>> /\ req[r].data.reserved
        BY <1>1, <1>4 DEF FailReleased, world, MayFail
  <2>2. CASE req[r].pc = "failProxy"
        BY <1>1, <1>4, <2>1, <2>2, OnlyPending DEF FailReleased
  <2>3. CASE req[r].pc = "fail"
    <3>1. Save(r, [req[r].data EXCEPT !.reason = "other"], {req[r].data.state}, "idle")
          BY <1>4, <2>3 DEF FailReleased
    <3>2. PICK st \in State : st = req[r].data.state
          BY <1>2 DEF Fields
    <3>3. st \notin Done
          BY <1>2, <3>2 DEF Done, Terminal
    <3>4. [req[r].data EXCEPT !.reason = "other"]
             = [req[r].data EXCEPT !.state = st, !.reason = "other"]
          BY <1>2, <3>2 DEF Fields
    <3>5. FieldsOK([req[r].data EXCEPT !.state = st, !.reason = "other"])
          BY <1>2, <3>2 DEF FieldsOK, Fields
    <3>. QED  BY <1>1, <2>1, <3>1, <3>2, <3>3, <3>4, <3>5, Quiet, LastWrite
  <2>. QED  BY <1>1, <2>2, <2>3
<1>. QED  BY <1>3, <1>4

LEMMA HandoffIs ==
    ASSUME Inv, NEW r \in Request
    PROVE  /\ Known(Handoff(r)) /\ OnRow(Handoff(r)) /\ Handoff(r) \in Nat
           /\ Handoff(r) = 0 => req[r].data.handoff = 0
  BY DEF Handoff, Inv, ProofOK, TypeOK, Local, Fields

LEMMA StepResumeHandoff ==
    ASSUME Inv, NEW r \in Request, ResumeHandoff(r)
    PROVE  Inv'
<1>1. /\ req[r].pc = "handoff" /\ req[r].pc \in Holding
      /\ UNCHANGED <<background, world, money, terminal>>
      BY DEF ResumeHandoff, Holding, PC
<1>2. /\ LocalAt(req[r].data, req[r].entered, "handoff") /\ req[r].data \in Fields
      /\ AnswerAt(req[r].answer, "handoff") /\ req[r].data.reserved
      BY <1>1, Here DEF Local, LocalAt, ProxyPC
<1>3. \A pc \in {"challenge", "continue"} : LocalAt(req[r].data, req[r].entered, pc)
      BY <1>2 DEF LocalAt, ProxyPC, ExternalPC
<1>4. CASE Handoff(r) = 0
  <2>1. Goto(r, "challenge") /\ UNCHANGED row
        BY <1>4 DEF ResumeHandoff
  <2>. QED  BY <1>1, <1>3, <2>1, OnlyGoto DEF PC
<1>5. CASE Handoff(r) # 0
  <2>1. PICK a \in Reading(core) :
           IF a = "error" THEN SaveProxyPending(r, "other")
           ELSE IF HandoffFailed(r, a)
           THEN Save(r, [req[r].data EXCEPT !.handoff = 0], {"payment_submitted"}, "clear")
           ELSE Heard(r, a, "continue") /\ UNCHANGED row
        BY <1>5 DEF ResumeHandoff
  <2>2. CASE a = "error"
        BY <1>1, <1>2, <2>1, <2>2, OnlyPending
  <2>3. CASE a # "error" /\ ~ HandoffFailed(r, a)
        BY <1>1, <1>3, <2>1, <2>3, OnlyHeard DEF PC
  <2>4. CASE a # "error" /\ HandoffFailed(r, a)
    <3>1. core = "payer_funded"
          BY <2>1, <2>4 DEF HandoffFailed, Reading
    <3>2. PICK new \in Fields :
             /\ new = [req[r].data EXCEPT !.handoff = 0]
             /\ new.state = req[r].data.state /\ new.reserved = req[r].data.reserved
             /\ new.reason = req[r].data.reason /\ new.handoff = 0
      <4>1. [req[r].data EXCEPT !.handoff = 0] \in Fields
            BY <1>2 DEF Fields
      <4>. QED  BY <1>2, <4>1 DEF Fields
    <3>3. Save(r, new, {"payment_submitted"}, "clear")
          BY <2>1, <2>4, <3>2
    <3>4. LocalAt(new, req[r].entered, "clear")
          BY <1>2, <3>2 DEF LocalAt, FieldsOK, ProxyPC, ExternalPC
    <3>5. new.state \notin Done /\ FieldsOK(new)
          BY <3>4 DEF LocalAt, Terminal, Done
    <3>6. Writes(r, new, "clear")
          BY <1>2, <3>1, <3>2, <3>4, <3>5 DEF Writes, AnswerAt
    <3>. QED  BY <1>1, <3>3, <3>6, Quiet, Saves DEF Holding, PC
  <2>. QED  BY <2>2, <2>3, <2>4
<1>. QED  BY <1>4, <1>5

LEMMA StepClearHandoff ==
    ASSUME Inv, NEW r \in Request, ClearHandoff(r)
    PROVE  Inv'
<1>1. /\ req[r].pc = "clear" /\ req[r].pc \in Holding /\ Goto(r, "challenge")
      /\ cache' = [cache EXCEPT !.proxy = 0]
      /\ UNCHANGED <<background, row, expired, drifted, money, terminal>>
      BY DEF ClearHandoff, Holding, PC
<1>2. TypeOK
      BY DEF Inv
<1>3. /\ cache' \in [input : BOOLEAN, checkout : BOOLEAN, proxy : Nat, external : BOOLEAN]
      /\ cache'.proxy = 0
      BY <1>1, <1>2 DEF TypeOK
<1>4. core' = core /\ failed' = failed /\ paid' = paid /\ outbox' = outbox /\ event' = event
      BY <1>1 DEF money, terminal
<1>5. RestTyped' /\ CoreMoves
      BY <1>1, <1>2, <1>3, <1>4, CoreStays DEF TypeOK, RestTyped, background
<1>6. LocalAt(req[r].data, req[r].entered, "challenge")
      BY <1>1, Here DEF LocalAt, ProxyPC, ExternalPC
<1>. QED  BY <1>1, <1>3, <1>4, <1>5, <1>6, Known0, GoesQuietly DEF PC

LEMMA StepAskChallenge ==
    ASSUME Inv, NEW r \in Request, AskChallenge(r)
    PROVE  Inv'
<1>1. /\ req[r].pc = "challenge" /\ req[r].pc \in Holding
      /\ UNCHANGED <<background, world, money, terminal>>
      BY DEF AskChallenge, Holding, PC
<1>2. /\ LocalAt(req[r].data, req[r].entered, "challenge") /\ req[r].data.reserved
      BY <1>1, Here DEF LocalAt, ProxyPC
<1>3. \A pc \in {"prepare", "downgrade"} : LocalAt(req[r].data, req[r].entered, pc)
      BY <1>2 DEF LocalAt, ProxyPC, ExternalPC
<1>4. \/ \E pc \in {"prepare", "downgrade"} : Goto(r, pc) /\ UNCHANGED row
      \/ SaveProxyPending(r, "other")
      BY DEF AskChallenge
<1>5. ASSUME NEW pc \in {"prepare", "downgrade"}, Goto(r, pc), UNCHANGED row
      PROVE  Inv'
      BY <1>1, <1>3, <1>5, OnlyGoto DEF PC
<1>6. CASE SaveProxyPending(r, "other")
      BY <1>1, <1>2, <1>6, OnlyPending
<1>. QED  BY <1>4, <1>5, <1>6

LEMMA StepReconcileProxy ==
    ASSUME Inv, NEW r \in Request, ReconcileProxy(r)
    PROVE  Inv'
<1>1. /\ req[r].pc = "prepare" /\ req[r].pc \in Holding
      /\ UNCHANGED <<background, world, money, terminal>>
      BY DEF ReconcileProxy, Holding, PC
<1>2. /\ LocalAt(req[r].data, req[r].entered, "prepare") /\ req[r].data.reserved
      BY <1>1, Here DEF LocalAt, ProxyPC
<1>3. \A pc \in {"sign", "recordProxy"} : LocalAt(req[r].data, req[r].entered, pc)
      BY <1>2 DEF LocalAt, ProxyPC, ExternalPC
<1>4. CASE req[r].entered # "payment_submitted"
  <2>1. Heard(r, "spending_reserved", "sign") /\ UNCHANGED row
        BY <1>4 DEF ReconcileProxy
  <2>. QED  BY <1>1, <1>3, <2>1, OnlyHeard DEF PC
<1>5. CASE req[r].entered = "payment_submitted"
  <2>1. PICK a \in Reading(core) :
           IF a = "error" THEN SaveProxyPending(r, "other")
           ELSE /\ Heard(r, a, IF a \in {"spending_reserved", "payer_funded"}
                               THEN "sign" ELSE "recordProxy")
                /\ UNCHANGED row
        BY <1>5 DEF ReconcileProxy
  <2>2. CASE a = "error"
        BY <1>1, <1>2, <2>1, <2>2, OnlyPending
  <2>3. CASE a # "error"
    <3>1. PICK pc \in {"sign", "recordProxy"} :
             pc = IF a \in {"spending_reserved", "payer_funded"} THEN "sign" ELSE "recordProxy"
          OBVIOUS
    <3>. QED  BY <1>1, <1>3, <2>1, <2>3, <3>1, OnlyHeard DEF PC
  <2>. QED  BY <2>2, <2>3
<1>. QED  BY <1>4, <1>5

LEMMA StepPrepareProxy ==
    ASSUME Inv, NEW r \in Request, PrepareProxy(r)
    PROVE  Inv'
<1>1. /\ req[r].pc \in {"sign", "resign"} /\ req[r].pc \in Holding
      /\ UNCHANGED <<background, row, world, failed, paid, terminal>>
      BY DEF PrepareProxy, Holding, PC
<1>2. PICK pc \in {"recordProxy", "merchant"} :
         pc = IF req[r].pc = "sign" THEN "recordProxy" ELSE "merchant"
      OBVIOUS
<1>3. LocalAt(req[r].data, req[r].entered, pc)
      BY <1>1, <1>2, Here DEF LocalAt, ProxyPC, ExternalPC
<1>4. PICK new \in CoreState : new = Signed
      BY DEF Signed, CoreState
<1>5. Call(r, {"spending_reserved", "payer_funded"}, new,
           {"proxy_authorization_ready", "proxy_payment_ready"}, pc)
      BY <1>2, <1>4 DEF PrepareProxy
<1>6. core \in {"spending_reserved", "payer_funded"} /\ core' = new => CoreMoves
      BY <1>4 DEF Signed, CoreMoves, Decided, May, MoneyMayMove, Submitted, ProofIsRecoverable
<1>. QED  BY <1>1, <1>3, <1>5, <1>6, Calls DEF PC

LEMMA StepRecordProxySubmission ==
    ASSUME Inv, NEW r \in Request, RecordProxySubmission(r)
    PROVE  Inv'
<1>1. /\ req[r].pc = "recordProxy" /\ req[r].pc \in Holding
      /\ UNCHANGED <<background, world, money, terminal>>
      BY DEF RecordProxySubmission, Holding, PC
<1>2. /\ LocalAt(req[r].data, req[r].entered, "recordProxy") /\ req[r].data \in Fields
      /\ AnswerAt(req[r].answer, "recordProxy") /\ req[r].data.reserved /\ Proxy
      /\ req[r].data.state \notin Terminal /\ FieldsOK(req[r].data)
      BY <1>1, Here DEF Local, LocalAt, ProxyPC
<1>3. PICK next \in {"settle", "continue"} :
         next = IF req[r].answer = "proxy_authorization_ready" THEN "settle" ELSE "continue"
      OBVIOUS
<1>4. ~ Allowance /\ ~ External
      BY <1>2 DEF Proxy, Allowance, External
<1>5. CASE SaveProxyPending(r, "other")
      BY <1>1, <1>2, <1>5, OnlyPending
<1>6. CASE Goto(r, "downgrade") /\ UNCHANGED row
  <2>1. LocalAt(req[r].data, req[r].entered, "downgrade")
        BY <1>2 DEF LocalAt, ProxyPC, ExternalPC
  <2>. QED  BY <1>1, <1>6, <2>1, OnlyGoto DEF PC
<1>7. CASE Goto(r, next) /\ UNCHANGED row /\ req[r].data.state # "spending_reserved"
  <2>1. Calm => req[r].data.state = "payment_submitted"
        BY <1>2, <1>4, <1>7 DEF FieldsOK, Unpaid, Fields, State
  <2>2. LocalAt(req[r].data, req[r].entered, next)
        BY <1>2, <1>4, <2>1 DEF LocalAt, ProxyPC, ExternalPC
  <2>. QED  BY <1>1, <1>7, <2>2, OnlyGoto DEF PC
<1>8. CASE Save(r, [req[r].data EXCEPT !.state = "payment_submitted", !.reason = "other"],
                {"spending_reserved"}, next)
  <2>1. PICK new \in Fields :
           /\ new = [req[r].data EXCEPT !.state = "payment_submitted", !.reason = "other"]
           /\ new.state = "payment_submitted" /\ new.reason = "other"
           /\ new.reserved = req[r].data.reserved /\ new.handoff = req[r].data.handoff
    <3>1. [req[r].data EXCEPT !.state = "payment_submitted", !.reason = "other"] \in Fields
          BY <1>2 DEF Fields, State
    <3>. QED  BY <1>2, <3>1 DEF Fields
  <2>2. FieldsOK(new) /\ new.reserved
        BY <1>2, <2>1 DEF FieldsOK, Unpaid
  <2>3. LocalAt(new, req[r].entered, next)
        BY <1>2, <1>4, <2>1, <2>2 DEF LocalAt, Terminal, ProxyPC, ExternalPC
  <2>4. Writes(r, new, next)
        BY <1>2, <2>1, <2>2, <2>3 DEF Writes, AnswerAt, Done
  <2>. QED  BY <1>1, <1>8, <2>1, <2>4, Quiet, Saves DEF Holding, PC
<1>. QED  BY <1>3, <1>5, <1>6, <1>7, <1>8 DEF RecordProxySubmission

LEMMA StepContinueProxy ==
    ASSUME Inv, NEW r \in Request, ContinueProxy(r)
    PROVE  Inv'
<1>1. /\ req[r].pc = "continue" /\ req[r].pc \in Holding
      /\ UNCHANGED <<background, world, money, terminal>>
      BY DEF ContinueProxy, Holding, PC
<1>2. /\ LocalAt(req[r].data, req[r].entered, "continue") /\ req[r].data.reserved
      /\ AnswerAt(req[r].answer, "continue") /\ req[r] \in Local
      BY <1>1, Here DEF LocalAt, ProxyPC
<1>3. CASE SaveProxyPending(r, "other")
      BY <1>1, <1>2, <1>3, OnlyPending
<1>4. CASE /\ Settled(req[r].answer) /\ UNCHANGED row
           /\ Become(r, [req[r] EXCEPT !.pc = "finish", !.data.state = Outcome(r)])
  <2>1. PICK e \in Done : e = Outcome(r)
        BY DEF Outcome, Done
  <2>. QED  BY <1>1, <1>2, <1>4, <2>1, EndsPlainly DEF AnswerAt
<1>5. CASE Handoff(r) = 0 /\ Goto(r, "resign") /\ UNCHANGED row
  <2>1. LocalAt(req[r].data, req[r].entered, "resign")
        BY <1>2, <1>5, HandoffIs DEF LocalAt, ProxyPC, ExternalPC
  <2>. QED  BY <1>1, <1>5, <2>1, OnlyGoto DEF PC
<1>6. CASE Become(r, [req[r] EXCEPT !.pc = "prove", !.proof = Handoff(r)]) /\ UNCHANGED row
  <2>1. PICK s \in Local :
           /\ s = [req[r] EXCEPT !.pc = "prove", !.proof = Handoff(r)]
           /\ s.data = req[r].data /\ s.entered = req[r].entered /\ s.answer = req[r].answer
           /\ s.pc = "prove" /\ s.proof = Handoff(r)
           /\ s.worker = req[r].worker /\ s.note = req[r].note
    <3>1. [req[r] EXCEPT !.pc = "prove", !.proof = Handoff(r)] \in Local
          BY <1>2, HandoffIs DEF Local, PC
    <3>. QED  BY <1>2, <3>1 DEF Local
  <2>2. LocalOK(s)
        BY <1>2, <2>1 DEF LocalOK, LocalAt, ProxyPC, ExternalPC
  <2>3. Known(s.proof) /\ OnRow(s.proof)
        BY <2>1, HandoffIs
  <2>4. GoesOn(req[r], s) /\ Become(r, s)
        BY <1>1, <1>6, <2>1 DEF GoesOn
  <2>5. row' = row
        BY <1>6
  <2>6. /\ RestTyped' /\ CoreMoves /\ Known(cache'.proxy) /\ OnRow(cache'.proxy)
        /\ UNCHANGED <<background, row, failed>> /\ outbox' = outbox
        BY <1>1, <2>5, Quiet
  <2>7. AnswerOK(s)'
        BY <1>2, <2>1, <2>6 DEF AnswerOK, AnswerAt, CoreMoves
  <2>. QED  BY <2>2, <2>3, <2>4, <2>6, <2>7, Moves
<1>. QED  BY <1>3, <1>4, <1>5, <1>6 DEF ContinueProxy

LEMMA StepPayMerchant ==
    ASSUME Inv, NEW r \in Request, PayMerchant(r)
    PROVE  Inv'
<1>1. /\ req[r].pc = "merchant" /\ req[r].pc \in Holding
      /\ UNCHANGED <<background, world, core, failed, terminal>> /\ paid' \in {paid, TRUE}
      BY DEF PayMerchant, Holding, PC
<1>2. /\ LocalAt(req[r].data, req[r].entered, "merchant") /\ req[r].data.reserved
      /\ AnswerAt(req[r].answer, "merchant") /\ req[r] \in Local /\ TypeOK
      BY <1>1, Here DEF LocalAt, ProxyPC
<1>3. /\ RestTyped' /\ cache'.proxy = cache.proxy /\ outbox' = outbox
      BY <1>1, <1>2 DEF TypeOK, RestTyped, background, world, terminal
<1>4. CASE SaveProxyPending(r, "other")
      BY <1>1, <1>2, <1>3, <1>4, Pending
<1>5. CASE /\ core \in {"proxy_payment_ready", "pay_submitted"} /\ UNCHANGED row
           /\ Become(r, [req[r] EXCEPT !.pc = "saveHandoff", !.proof = failed + 1, !.result = TRUE])
  <2>1. PICK s \in Local :
           /\ s = [req[r] EXCEPT !.pc = "saveHandoff", !.proof = failed + 1, !.result = TRUE]
           /\ s.data = req[r].data /\ s.entered = req[r].entered /\ s.answer = req[r].answer
           /\ s.pc = "saveHandoff" /\ s.proof = failed + 1
           /\ s.worker = req[r].worker /\ s.note = req[r].note
    <3>1. failed + 1 \in Nat
          BY <1>2 DEF TypeOK
    <3>2. [req[r] EXCEPT !.pc = "saveHandoff", !.proof = failed + 1, !.result = TRUE] \in Local
          BY <1>2, <3>1 DEF Local, PC
    <3>. QED  BY <1>2, <3>2 DEF Local
  <2>2. LocalOK(s)
        BY <1>2, <2>1 DEF LocalOK, LocalAt, ProxyPC, ExternalPC
  <2>3. Known(s.proof)
        BY <1>2, <1>5, <2>1 DEF Known, May, TypeOK
  <2>4. GoesOn(req[r], s) /\ Become(r, s)
        BY <1>1, <1>5, <2>1 DEF GoesOn
  <2>5. UNCHANGED <<background, row, failed>> /\ CoreMoves
        BY <1>1, <1>5, CoreStays DEF background
  <2>6. Known(cache'.proxy) /\ OnRow(cache'.proxy)
        BY <1>3 DEF Inv, ProofOK
  <2>7. AnswerOK(s)'
        BY <1>1, <1>2, <2>1 DEF AnswerOK, AnswerAt, Decided
  <2>. QED  BY <1>3, <2>1, <2>2, <2>3, <2>4, <2>5, <2>6, <2>7, Moves
<1>. QED  BY <1>4, <1>5 DEF PayMerchant

LEMMA StepSaveHandoff ==
    ASSUME Inv, NEW r \in Request, SaveHandoff(r)
    PROVE  Inv'
<1>1. /\ req[r].pc = "saveHandoff" /\ req[r].pc \in Holding
      /\ lost' = (lost /\ row'.data.handoff # failed + 1)
      /\ UNCHANGED <<mode, changes, overtaken, world, money, terminal>>
      BY DEF SaveHandoff, Holding, PC
<1>2. /\ LocalAt(req[r].data, req[r].entered, "saveHandoff") /\ req[r].data \in Fields
      /\ AnswerAt(req[r].answer, "saveHandoff") /\ req[r] \in Local /\ TokenOK(r)
      BY <1>1, Here DEF Local
<1>3. /\ req[r].data.reserved /\ req[r].data.handoff = 0 /\ Proxy
      /\ req[r].data.state \notin Terminal /\ FieldsOK(req[r].data)
      BY <1>2 DEF LocalAt, ProxyPC
<1>4. PICK new \in Fields :
         /\ new = Durable(r)
         /\ new.state = req[r].data.state /\ new.reserved = req[r].data.reserved
         /\ new.reason = req[r].data.reason /\ new.handoff = req[r].proof
  <2>1. [req[r].data EXCEPT !.handoff = req[r].proof] \in Fields
        BY <1>2 DEF Fields, Local
  <2>. QED  BY <1>2, <2>1 DEF Fields, Durable
<1>5. /\ RestTyped' /\ cache'.proxy = cache.proxy /\ (Calm' => Calm) /\ outbox' = outbox
      /\ UNCHANGED <<mode, changes, core, failed, terminal>>
      BY <1>1, Here DEF TypeOK, RestTyped, world, money, terminal, Calm, Allowance
<1>6. CASE Holds(r, {"payment_submitted"})
  <2>1. Save(r, new, {"payment_submitted"}, "remember")
        BY <1>4, <1>6 DEF SaveHandoff
  <2>2. LocalAt(new, req[r].entered, "remember")
        BY <1>2, <1>4 DEF LocalAt, FieldsOK, ProxyPC, ExternalPC
  <2>3. Writes(r, new, "remember")
        BY <1>2, <1>3, <1>4, <2>2 DEF Writes, AnswerAt, LocalAt, Done, Terminal
  <2>4. row.token = r /\ row.data.state \notin Terminal
        BY <1>6 DEF Holds, Terminal
  <2>5. WritesRow(r, new, "remember")
        BY <1>1, <2>3, <2>4, WritesOne
  <2>6. /\ row' = [data |-> new, token |-> r, live |-> TRUE]
        /\ Become(r, [req[r] EXCEPT !.data = new, !.pc = "remember"])
        BY <1>6, <2>1 DEF Save
  <2>7. lost => lost' \/ new.handoff = failed + 1
        BY <1>1, <2>6
  <2>. QED  BY <1>5, <2>4, <2>5, <2>6, <2>7, Writing DEF Holding, PC
<1>7. CASE ~ Holds(r, {"payment_submitted"})
  <2>1. PICK new2 \in Fields :
           /\ new2 = [new EXCEPT !.state = "payment_submitted", !.reason = "other"]
           /\ new2.state = "payment_submitted" /\ new2.reason = "other"
           /\ new2.reserved = req[r].data.reserved /\ new2.handoff = req[r].proof
    <3>1. [new EXCEPT !.state = "payment_submitted", !.reason = "other"] \in Fields
          BY DEF Fields, State
    <3>. QED  BY <1>4, <3>1 DEF Fields
  <2>2. Save(r, new2, {new.state}, "idle")
        BY <1>4, <1>7, <2>1 DEF SaveHandoff
  <2>3. CASE Holds(r, {new.state})
    <3>1. Writes(r, new2, "idle")
          BY <1>3, <2>1 DEF Writes, FieldsOK, Unpaid, Done
    <3>2. row.token = r /\ row.data.state \notin Terminal
          BY <1>3, <1>4, <2>3 DEF Holds
    <3>3. WritesRow(r, new2, "idle")
          BY <1>1, <3>1, <3>2, WritesOne
    <3>4. /\ row' = [data |-> new2, token |-> NoToken, live |-> FALSE]
          /\ Become(r, Idle)
          BY <2>2, <2>3 DEF Save
    <3>5. lost => lost' \/ new2.handoff = failed + 1
          BY <1>1, <3>4
    <3>. QED  BY <1>5, <3>2, <3>3, <3>4, <3>5, Writing
  <2>4. CASE ~ Holds(r, {new.state})
    <3>1. Become(r, Idle) /\ row' = row
          BY <2>2, <2>4 DEF Save, Return
    <3>2. /\ Idle \in Local /\ Idle.pc = "idle" /\ GoesOn(req[r], Idle)
          /\ Known(Idle.proof)
          BY IdleIs, Known0 DEF GoesOn, Holding
    <3>3. lost => lost' \/ row.data.handoff = failed + 1
          BY <1>1, <3>1
    <3>4. CoreMoves
          BY <1>1, <1>5, <3>1 DEF Inv, CoreMoves, Decided, May, MoneyMayMove, ProofOK,
                                  ProofIsRecoverable, Proxy
    <3>5. Known(cache'.proxy) /\ OnRow(cache'.proxy)
          BY <1>5 DEF Inv, ProofOK
    <3>. QED  BY <1>1, <1>5, <3>1, <3>2, <3>3, <3>4, <3>5, IdleOK, MovesOn
  <2>. QED  BY <2>3, <2>4
<1>. QED  BY <1>6, <1>7

LEMMA StepRememberResult ==
    ASSUME Inv, NEW r \in Request, RememberResult(r)
    PROVE  Inv'
<1>1. /\ req[r].pc = "remember" /\ req[r].pc \in Holding /\ Goto(r, "prove")
      /\ cache' = [cache EXCEPT !.proxy = req[r].proof]
      /\ UNCHANGED <<background, row, expired, drifted, money, terminal>>
      BY DEF RememberResult, Holding, PC
<1>2. TypeOK /\ req[r] \in Local /\ Known(req[r].proof) /\ OnRow(req[r].proof)
      BY <1>1, Here
<1>3. /\ cache' \in [input : BOOLEAN, checkout : BOOLEAN, proxy : Nat, external : BOOLEAN]
      /\ cache'.proxy = req[r].proof
      BY <1>1, <1>2 DEF TypeOK, Local
<1>4. core' = core /\ failed' = failed /\ paid' = paid /\ outbox' = outbox /\ event' = event
      BY <1>1 DEF money, terminal
<1>5. RestTyped' /\ CoreMoves
      BY <1>1, <1>2, <1>3, <1>4, CoreStays DEF TypeOK, RestTyped, background
<1>6. LocalAt(req[r].data, req[r].entered, "prove")
      BY <1>1, Here DEF LocalAt, ProxyPC, ExternalPC
<1>. QED  BY <1>1, <1>2, <1>3, <1>4, <1>5, <1>6, GoesQuietly DEF PC

LEMMA StepProvePayment ==
    ASSUME Inv, NEW r \in Request, ProvePayment(r)
    PROVE  Inv'
<1>1. /\ req[r].pc = "prove" /\ req[r].pc \in Holding
      /\ UNCHANGED <<background, row, world, failed, paid, terminal>>
      BY DEF ProvePayment, Holding, PC
<1>2. LocalAt(req[r].data, req[r].entered, "proven")
      BY <1>1, Here DEF LocalAt, ProxyPC, ExternalPC
<1>3. PICK allowed, done :
         /\ allowed = IF req[r].proof = failed + 1 /\ paid THEN {"proxy_payment_ready"} ELSE {}
         /\ Call(r, allowed, "pay_submitted", done, "proven")
      BY DEF ProvePayment
<1>4. ASSUME core \in allowed, core' = "pay_submitted"
      PROVE  CoreMoves
  <2>1. core = "proxy_payment_ready" /\ req[r].proof = failed + 1
        BY <1>3, <1>4
  <2>2. row.data.state \notin Terminal => row.data.handoff = failed + 1 \/ lost
        BY <1>1, <2>1, Here DEF OnRow
  <2>3. ProofIsRecoverable'
        BY <1>1, <2>2 DEF ProofIsRecoverable, background
  <2>. QED  BY <1>4, <2>1, <2>3 DEF CoreMoves, Decided, May, MoneyMayMove
<1>. QED  BY <1>1, <1>2, <1>3, <1>4, Calls DEF PC, CoreState, Submitted

LEMMA StepFinishProxy ==
    ASSUME Inv, NEW r \in Request, FinishProxy(r)
    PROVE  Inv'
<1>1. /\ req[r].pc = "proven" /\ req[r].pc \in Holding
      /\ UNCHANGED <<background, world, money, terminal>>
      BY DEF FinishProxy, Holding, PC
<1>2. /\ LocalAt(req[r].data, req[r].entered, "proven") /\ req[r].data.reserved
      /\ AnswerAt(req[r].answer, "proven")
      BY <1>1, Here DEF LocalAt, ProxyPC
<1>3. CASE Settled(req[r].answer)
  <2>1. PICK e \in Done : e = Outcome(r)
        BY DEF Outcome, Done
  <2>2. Become(r, [req[r] EXCEPT !.pc = "finish", !.data.state = e]) /\ UNCHANGED row
        BY <1>3, <2>1 DEF FinishProxy
  <2>. QED  BY <1>1, <1>2, <1>3, <2>1, <2>2, EndsPlainly DEF AnswerAt
<1>4. CASE ~ Settled(req[r].answer)
      BY <1>1, <1>2, <1>4, OnlyPending DEF FinishProxy
<1>. QED  BY <1>3, <1>4

LEMMA StepStartCheckout ==
    ASSUME Inv, NEW r \in Request, StartCheckout(r)
    PROVE  Inv'
<1>1. /\ req[r].pc = "idle" /\ External /\ cache' = [cache EXCEPT !.checkout = FALSE]
      /\ UNCHANGED <<background, row, expired, drifted, money, terminal>>
      /\ Goto(r, "checkout") \/ UNCHANGED req
      BY DEF StartCheckout
<1>2. TypeOK
      BY DEF Inv
<1>3. /\ cache' \in [input : BOOLEAN, checkout : BOOLEAN, proxy : Nat, external : BOOLEAN]
      /\ cache'.proxy = cache.proxy
      BY <1>1, <1>2 DEF TypeOK
<1>4. core' = core /\ failed' = failed /\ paid' = paid /\ outbox' = outbox /\ event' = event
      BY <1>1 DEF money, terminal
<1>5. RestTyped' /\ CoreMoves /\ row' \in Row
      BY <1>1, <1>2, <1>3, <1>4, CoreStays DEF TypeOK, RestTyped, background
<1>6. Known(cache'.proxy) /\ OnRow(cache'.proxy)
      BY <1>3 DEF Inv, ProofOK
<1>7. CASE Goto(r, "checkout")
  <2>1. LocalAt(req[r].data, req[r].entered, "checkout")
        BY <1>1, Here DEF LocalAt, ProxyPC, ExternalPC
  <2>. QED  BY <1>1, <1>4, <1>5, <1>6, <1>7, <2>1, GoesQuietly DEF PC, Holding
<1>8. CASE UNCHANGED req
      BY <1>1, <1>3, <1>4, <1>5, <1>8, Elsewhere
<1>. QED  BY <1>1, <1>7, <1>8

LEMMA StepWalletPays ==
    ASSUME Inv, NEW r \in Request, WalletPays(r)
    PROVE  Inv'
<1>1. /\ req[r].pc = "checkout" /\ paid' = TRUE
      /\ UNCHANGED <<background, row, expired, drifted, core, failed, terminal>>
      BY DEF WalletPays
<1>2. /\ LocalAt(req[r].data, req[r].entered, "checkout")
      /\ AnswerAt(req[r].answer, "checkout") /\ req[r] \in Local /\ TypeOK
      BY <1>1, Here
<1>3. /\ cache' \in [input : BOOLEAN, checkout : BOOLEAN, proxy : Nat, external : BOOLEAN]
      /\ cache'.proxy = cache.proxy
  <2>1. cache' \in {cache, [cache EXCEPT !.external = TRUE]}
        BY DEF WalletPays
  <2>. QED  BY <1>2, <2>1 DEF TypeOK
<1>4. outbox' = outbox /\ event' = event
      BY <1>1 DEF terminal
<1>5. RestTyped' /\ CoreMoves
      BY <1>1, <1>2, <1>3, <1>4, CoreStays DEF TypeOK, RestTyped, background
<1>6. Known(cache'.proxy) /\ OnRow(cache'.proxy)
      BY <1>3 DEF Inv, ProofOK
<1>7. CASE Return(r)
      BY <1>1, <1>4, <1>5, <1>6, <1>7, Returns
<1>8. CASE Become(r, [req[r] EXCEPT !.pc = "claimExternal", !.result = TRUE])
  <2>1. PICK s \in Local :
           /\ s = [req[r] EXCEPT !.pc = "claimExternal", !.result = TRUE]
           /\ s.data = req[r].data /\ s.entered = req[r].entered /\ s.answer = req[r].answer
           /\ s.pc = "claimExternal" /\ s.proof = req[r].proof
           /\ s.worker = req[r].worker /\ s.note = req[r].note
    <3>1. [req[r] EXCEPT !.pc = "claimExternal", !.result = TRUE] \in Local
          BY <1>2 DEF Local, PC
    <3>. QED  BY <1>2, <3>1 DEF Local
  <2>2. LocalOK(s)
        BY <1>2, <2>1 DEF LocalOK, LocalAt, ProxyPC, ExternalPC
  <2>3. Known(s.proof)
        BY <2>1, Here
  <2>4. GoesOn(req[r], s) /\ Become(r, s)
        BY <1>8, <2>1 DEF GoesOn, Holding
  <2>5. AnswerOK(s)'
        BY <1>1, <1>2, <2>1 DEF AnswerOK, AnswerAt, Decided
  <2>. QED  BY <1>1, <1>4, <1>5, <1>6, <2>1, <2>2, <2>3, <2>4, <2>5, Moves
<1>. QED  BY <1>7, <1>8 DEF WalletPays

LEMMA StepCompleteExternal ==
    ASSUME Inv, NEW r \in Request, CompleteExternal(r)
    PROVE  Inv'
<1>1. /\ req[r].pc = "idle" /\ External /\ Goto(r, "claimExternal")
      /\ UNCHANGED <<background, row, world, money, terminal>>
      BY DEF CompleteExternal
<1>2. LocalAt(req[r].data, req[r].entered, "claimExternal")
      BY <1>1, Here DEF LocalAt, ProxyPC, ExternalPC
<1>. QED  BY <1>1, <1>2, OnlyGoto DEF PC, Holding

LEMMA StepClaimExternal ==
    ASSUME Inv, NEW r \in Request, ClaimExternal(r)
    PROVE  Inv'
<1>1. req[r].pc = "claimExternal" /\ UNCHANGED <<background, world, money, terminal>>
      BY DEF ClaimExternal
<1>2. /\ LocalAt(req[r].data, req[r].entered, "claimExternal")
      /\ AnswerAt(req[r].answer, "claimExternal") /\ req[r] \in Local /\ Known(req[r].proof)
      BY <1>1, Here
<1>3. External
      BY <1>2 DEF LocalAt, ExternalPC
<1>4. PICK pc \in {"missing", "reconcileExternal", "recordExternal"} :
         pc = IF ~ cache.input THEN "missing"
              ELSE IF row.data.state = "payment_submitted"
              THEN "reconcileExternal" ELSE "recordExternal"
      OBVIOUS
<1>5. PICK local \in Local :
         /\ local = [req[r] EXCEPT !.pc = pc]
         /\ local.pc = pc /\ local.answer = req[r].answer /\ local.proof = req[r].proof
         /\ local.worker = req[r].worker /\ local.note = req[r].note
  <2>1. [req[r] EXCEPT !.pc = pc] \in Local
        BY <1>2 DEF Local, PC
  <2>. QED  BY <1>2, <2>1 DEF Local
<1>6. Claim(r, {"signing_required", "payment_submitted"}, local)
      BY <1>4, <1>5 DEF ClaimExternal
<1>7. ASSUME row.data.state \in {"signing_required", "payment_submitted"}
      PROVE  LocalAt(row.data, row.data.state, local.pc)
  <2>1. FieldsOK(row.data)
        BY DEF Inv, RowOK
  <2>. QED  BY <1>3, <1>4, <1>5, <1>7, <2>1 DEF LocalAt, FieldsOK, Terminal, ProxyPC, External,
                                                Allowance
<1>8. AnswerAt(local.answer, local.pc) /\ Known(local.proof)
      BY <1>2, <1>5 DEF AnswerAt
<1>9. NoteOK(local) /\ Known(local.note.handoff)
      BY <1>5, Here DEF NoteOK
<1>. QED  BY <1>1, <1>5, <1>6, <1>7, <1>8, <1>9, Claims DEF Holding, PC

LEMMA StepRecordExternal ==
    ASSUME Inv, NEW r \in Request, RecordExternal(r)
    PROVE  Inv'
<1>1. req[r].pc = "recordExternal" /\ UNCHANGED <<background, world, money, terminal>>
      /\ req[r].pc \in Holding
      BY DEF RecordExternal, Holding, PC
<1>2. /\ LocalAt(req[r].data, req[r].entered, "recordExternal") /\ req[r].data \in Fields
      /\ AnswerAt(req[r].answer, "recordExternal")
      BY <1>1, Here DEF Local
<1>3. PICK new \in Fields :
         /\ new = [req[r].data EXCEPT !.state = "payment_submitted", !.reason = "other"]
         /\ new.state = "payment_submitted" /\ new.reason = "other"
         /\ new.reserved = req[r].data.reserved /\ new.handoff = req[r].data.handoff
  <2>1. [req[r].data EXCEPT !.state = "payment_submitted", !.reason = "other"] \in Fields
        BY <1>2 DEF Fields, State
  <2>. QED  BY <1>2, <2>1 DEF Fields
<1>4. Save(r, new, {"signing_required"}, "finalizeExternal")
      BY <1>3 DEF RecordExternal
<1>5. FieldsOK(new) /\ External
      BY <1>2, <1>3 DEF LocalAt, FieldsOK, Unpaid, ExternalPC
<1>6. LocalAt(new, req[r].entered, "finalizeExternal")
      BY <1>3, <1>5 DEF LocalAt, Terminal, ProxyPC, ExternalPC
<1>7. Writes(r, new, "finalizeExternal")
      BY <1>2, <1>3, <1>5, <1>6 DEF Writes, AnswerAt, Done
<1>. QED  BY <1>1, <1>4, <1>7, Quiet, Saves DEF Holding, PC

LEMMA StepReconcileExternal ==
    ASSUME Inv, NEW r \in Request, ReconcileExternal(r)
    PROVE  Inv'
<1>1. req[r].pc = "reconcileExternal" /\ UNCHANGED <<background, world, money, terminal>>
      /\ req[r].pc \in Holding
      BY DEF ReconcileExternal, Holding, PC
<1>2. /\ LocalAt(req[r].data, req[r].entered, "reconcileExternal") /\ req[r].data \in Fields
      /\ AnswerAt(req[r].answer, "reconcileExternal")
      BY <1>1, Here DEF Local
<1>3. PICK a \in Reading(core) :
         IF Retryable(a)
         THEN Save(r, [req[r].data EXCEPT !.reason = "other"], {"payment_submitted"},
                   "finalizeExternal")
         ELSE Heard(r, a, "answer") /\ UNCHANGED row
      BY DEF ReconcileExternal
<1>4. CASE Retryable(a)
  <2>1. PICK new \in Fields :
           /\ new = [req[r].data EXCEPT !.reason = "other"]
           /\ new.state = req[r].data.state /\ new.reason = "other"
           /\ new.reserved = req[r].data.reserved /\ new.handoff = req[r].data.handoff
    <3>1. [req[r].data EXCEPT !.reason = "other"] \in Fields
          BY <1>2 DEF Fields
    <3>. QED  BY <1>2, <3>1 DEF Fields
  <2>2. Save(r, new, {"payment_submitted"}, "finalizeExternal")
        BY <1>3, <1>4, <2>1
  <2>3. LocalAt(new, req[r].entered, "finalizeExternal")
        BY <1>2, <2>1 DEF LocalAt, FieldsOK, ProxyPC, ExternalPC
  <2>4. Writes(r, new, "finalizeExternal")
        BY <1>2, <2>1, <2>3 DEF Writes, AnswerAt, LocalAt, Done, Terminal
  <2>. QED  BY <1>1, <2>2, <2>4, Quiet, Saves DEF Holding, PC
<1>5. CASE ~ Retryable(a)
  <2>1. LocalAt(req[r].data, req[r].entered, "answer")
        BY <1>2 DEF LocalAt, ProxyPC, ExternalPC
  <2>. QED  BY <1>1, <1>3, <1>5, <2>1, OnlyHeard DEF PC
<1>. QED  BY <1>4, <1>5

LEMMA StepFinalizeExternal ==
    ASSUME Inv, NEW r \in Request, FinalizeExternal(r)
    PROVE  Inv'
<1>1. /\ req[r].pc = "finalizeExternal" /\ req[r].pc \in Holding
      /\ UNCHANGED <<background, row, world, failed, paid, terminal>>
      BY DEF FinalizeExternal, Holding, PC
<1>2. LocalAt(req[r].data, req[r].entered, "finalizeExternal") /\ External
      BY <1>1, Here DEF LocalAt, ExternalPC
<1>3. LocalAt(req[r].data, req[r].entered, "answer")
      BY <1>2 DEF LocalAt, ProxyPC, ExternalPC
<1>4. PICK allowed :
         /\ allowed = IF paid THEN {"spending_reserved"} ELSE {}
         /\ Call(r, allowed, "pay_submitted", {"settled", "finalized", "pay_submitted"}, "answer")
      BY DEF FinalizeExternal
<1>5. ASSUME core \in allowed, core' = "pay_submitted"
      PROVE  CoreMoves
  <2>1. core = "spending_reserved"
        BY <1>4, <1>5
  <2>2. Calm => row.data.state \in Recorded
        BY <1>2, <2>1 DEF Inv, AttemptOK, LocalAt
  <2>3. ~ Proxy'
        BY <1>1, <1>2 DEF External, Proxy, background
  <2>. QED  BY <1>5, <2>1, <2>2, <2>3 DEF CoreMoves, Decided, May, ProofIsRecoverable
<1>. QED  BY <1>1, <1>3, <1>4, <1>5, Calls DEF PC, CoreState, Submitted

LEMMA StepClaimReconciliation ==
    ASSUME Inv, NEW r \in Request, ClaimReconciliation(r)
    PROVE  Inv'
<1>1. /\ UNCHANGED <<background, world, money, terminal>>
      /\ row.data.state = "payment_submitted"
      BY DEF ClaimReconciliation
<1>2. PICK pc \in {"reconcile", "downgrade", "handoff"} :
         /\ pc = IF ~ Proxy THEN "reconcile"
                 ELSE IF row.data.reason = "release_pending" THEN "downgrade" ELSE "handoff"
         /\ pc \in {"downgrade", "handoff"} => Proxy
      OBVIOUS
<1>3. PICK note \in Fields :
         /\ note = [row.data EXCEPT !.reason = "other"]
         /\ note.state = row.data.state /\ note.reserved = row.data.reserved
         /\ note.handoff = row.data.handoff /\ note.reason = "other"
  <2>1. row.data \in Fields
        BY DEF Inv, TypeOK, Row
  <2>2. [row.data EXCEPT !.reason = "other"] \in Fields
        BY <2>1 DEF Fields
  <2>. QED  BY <2>1, <2>2 DEF Fields
<1>4. PICK local \in Local :
         /\ local = [Idle EXCEPT !.worker = TRUE, !.note = note, !.pc = pc]
         /\ local.pc = pc /\ local.answer = "error" /\ local.proof = 0 /\ local.note = note
  <2>1. [Idle EXCEPT !.worker = TRUE, !.note = note, !.pc = pc] \in Local
        BY IdleIs DEF Local, PC
  <2>. QED  BY <2>1, IdleIs DEF Local
<1>5. Claim(r, {"payment_submitted"}, local)
      BY <1>2, <1>3, <1>4 DEF ClaimReconciliation
<1>6. LocalAt(row.data, row.data.state, local.pc)
  <2>1. FieldsOK(row.data)
        BY DEF Inv, RowOK
  <2>. QED  BY <1>1, <1>2, <1>4, <2>1 DEF LocalAt, FieldsOK, Terminal, ProxyPC, ExternalPC
<1>7. AnswerAt(local.answer, local.pc) /\ Known(local.proof)
      BY <1>2, <1>4, Known0 DEF AnswerAt, Settled
<1>8. NoteOK(local) /\ Known(local.note.handoff)
  <2>1. FieldsOK(row.data) /\ Known(row.data.handoff)
        BY DEF Inv, RowOK, ProofOK
  <2>. QED  BY <1>1, <1>3, <1>4, <2>1 DEF NoteOK, FieldsOK
<1>. QED  BY <1>1, <1>4, <1>5, <1>6, <1>7, <1>8, Claims DEF Holding, PC

LEMMA StepClaimFinalization ==
    ASSUME Inv, NEW r \in Request, ClaimFinalization(r)
    PROVE  Inv'
<1>1. /\ req[r].pc = "idle" /\ Goto(r, "outbox")
      /\ outbox' = [outbox EXCEPT !.token = r, !.live = TRUE]
      /\ UNCHANGED <<background, row, world, money, event>>
      BY DEF ClaimFinalization
<1>2. TypeOK
      BY DEF Inv
<1>3. /\ outbox' \in [due : BOOLEAN, token : Request \cup {NoToken}, live : BOOLEAN]
      /\ outbox'.due = outbox.due
      BY <1>1, <1>2 DEF TypeOK
<1>4. /\ core' = core /\ failed' = failed /\ paid' = paid /\ cache' = cache
      /\ expired' = expired /\ drifted' = drifted
      BY <1>1 DEF money, world
<1>5. RestTyped' /\ CoreMoves
      BY <1>1, <1>2, <1>3, <1>4, CoreStays DEF TypeOK, RestTyped, background
<1>6. Known(cache'.proxy) /\ OnRow(cache'.proxy)
      BY <1>4 DEF Inv, ProofOK
<1>7. LocalAt(req[r].data, req[r].entered, "outbox")
      BY <1>1, Here DEF LocalAt, ProxyPC, ExternalPC
<1>. QED  BY <1>1, <1>3, <1>4, <1>5, <1>6, <1>7, GoesQuietly DEF PC, Holding

(* The worker's note of an error keeps the row submitted.                  *)
LEMMA StepNoteError ==
    ASSUME Inv, NEW r \in Request, NoteError(r)
    PROVE  Inv'
<1>1. /\ req[r].worker /\ Save(r, req[r].note, {"payment_submitted"}, "idle")
      /\ lost' = (lost \/ (row.data.handoff = failed + 1 /\ row'.data.handoff # failed + 1))
      /\ UNCHANGED <<mode, changes, overtaken, world, money, terminal>>
      BY DEF NoteError
<1>2. /\ req[r].note \in Fields /\ req[r].note.state = "payment_submitted"
      /\ req[r].note.reason = "other" /\ req[r].note.reserved /\ Known(req[r].note.handoff)
      /\ TypeOK
      BY <1>1, Here DEF NoteOK, Local
<1>3. /\ RestTyped' /\ cache'.proxy = cache.proxy /\ (Calm' => Calm) /\ lost' \in BOOLEAN
      /\ UNCHANGED <<mode, changes, core, failed, terminal>>
      BY <1>1, <1>2 DEF TypeOK, RestTyped, world, money, terminal, Calm, Allowance
<1>4. CASE Holds(r, {"payment_submitted"})
  <2>1. PICK new \in Fields :
           /\ new = req[r].note /\ new.state = "payment_submitted" /\ new.reason = "other"
           /\ new.reserved /\ Known(new.handoff)
        BY <1>2
  <2>2. /\ row' = [data |-> new, token |-> NoToken, live |-> FALSE] /\ Become(r, Idle)
        /\ row.token = r /\ row.data.state \notin Terminal
        BY <1>1, <1>4, <2>1 DEF Save, Holds, Terminal
  <2>3. FieldsOK(new)'
        BY <2>1 DEF FieldsOK, Unpaid
  <2>4. /\ row.data.handoff = failed + 1 => new.handoff = failed + 1 \/ lost'
        /\ lost => lost'
        BY <1>1, <2>2
  <2>5. WritesRow(r, new, "idle")
        BY <2>1, <2>3, <2>4 DEF WritesRow, Done
  <2>. QED  BY <1>3, <2>2, <2>4, <2>5, Writing
<1>5. CASE ~ Holds(r, {"payment_submitted"})
  <2>1. Return(r) /\ row' = row
        BY <1>1, <1>5 DEF Save
  <2>2. lost' = lost
        BY <1>1, <1>2, <2>1 DEF TypeOK
  <2>3. UNCHANGED <<background, row, world, money, terminal>>
        BY <1>1, <2>1, <2>2 DEF background
  <2>. QED  BY <2>1, <2>3, OnlyReturn
<1>. QED  BY <1>4, <1>5

-----------------------------------------------------------------------------
LEMMA InitInv == Init => Inv
<1> SUFFICES ASSUME Init
             PROVE  Inv
    OBVIOUS
<1>1. /\ row = [data |-> Blank, token |-> NoToken, live |-> FALSE]
      /\ cache = [input |-> TRUE, checkout |-> FALSE, proxy |-> 0, external |-> FALSE]
      /\ expired = FALSE /\ drifted = FALSE /\ req = [r \in Request |-> Idle]
      /\ core = "none" /\ failed = 0 /\ paid = FALSE /\ event = "none"
      /\ outbox = [due |-> FALSE, token |-> NoToken, live |-> FALSE]
      /\ overtaken = FALSE /\ lost = FALSE
      BY DEF Init
<1>2. <<mode, changes>> \in Scenario
  <2>1. PICK s \in Scenario : mode = s[1] /\ changes = s[2]
        BY DEF Init
  <2>2. s \in Mode \X SUBSET Change
        BY PurchaseAssumption
  <2>3. s = <<s[1], s[2]>>
        BY <2>2
  <2>. QED  BY <2>1, <2>3
<1>3. TypeOK
      BY <1>1, <1>2, IdleIs DEF TypeOK, Row, CoreState
<1>4. row.data = Blank /\ row.token = NoToken /\ \A r \in Request : req[r] = Idle
      BY <1>1
<1>5. \A r \in Request : LocalOK(req[r]) /\ TokenOK(r) /\ AnswerOK(req[r]) /\ NoteOK(req[r])
      BY <1>4, IdleOK, IdleIs, PurchaseAssumption DEF TokenOK
<1>6. RowOK
      BY <1>4, IdleOK, IdleIs DEF RowOK, Done
<1>7. AttemptOK
      BY <1>1, <1>4, IdleIs DEF AttemptOK, AttemptIsRecorded, MoneyMayMove, Submitted
<1>8. cache.proxy = 0
      BY <1>1
<1>9. ProofOK
      BY <1>1, <1>4, <1>8, IdleIs DEF ProofOK, Known, OnRow, ProofIsRecoverable
<1>. QED  BY <1>1, <1>3, <1>5, <1>6, <1>7, <1>9 DEF Inv

LEMMA NextInv == Inv /\ [Next]_vars => Inv'
<1> SUFFICES ASSUME Inv, [Next]_vars
             PROVE  Inv'
    OBVIOUS
<1>1. ASSUME NEW r \in Request, Start(r)
      PROVE  Inv'
      BY <1>1, StepExecute, StepStartCheckout, StepCompleteExternal, StepClaimReconciliation,
         StepClaimFinalization DEF Start
<1>2. ASSUME NEW r \in Request, Continue(r)
      PROVE  Inv'
      BY <1>2, StepClaimExecution, StepCheck, StepAuthorize, StepReserve, StepSaveReserved,
         StepRecordSubmission, StepSettle, StepReconcile, StepHandleAnswer, StepDeliver,
         SavesTerminal, StepFinalizeTerminal, StepCompleteFinalization, StepHandleMissingInput,
         StepRelease, StepFailReleased, StepResumeHandoff, StepClearHandoff, StepAskChallenge,
         StepReconcileProxy, StepPrepareProxy, StepRecordProxySubmission, StepContinueProxy,
         StepPayMerchant, StepSaveHandoff, StepRememberResult, StepProvePayment,
         StepFinishProxy, StepWalletPays, StepClaimExternal, StepRecordExternal,
         StepReconcileExternal, StepFinalizeExternal DEF Continue
<1>3. ASSUME NEW r \in Request, Abandon(r)
      PROVE  Inv'
      BY <1>3, OnlyReturn DEF Abandon
<1>4. ASSUME NEW r \in Request, NoteError(r)
      PROVE  Inv'
      BY <1>4, StepNoteError
<1>. QED  BY <1>1, <1>2, <1>3, <1>4, TimePasses, ChainDecides DEF Next

LEMMA Invariant == Spec => []Inv
  BY InitInv, NextInv, PTL DEF Spec

-----------------------------------------------------------------------------
(* Every variable keeps its type.                                          *)
THEOREM PurchaseTypes == Spec => []TypeOK
<1>1. Inv => TypeOK
      BY DEF Inv
<1>. QED  BY <1>1, Invariant, PTL

(* Only what Core has settled is delivered or declared undelivered, by     *)
(* whichever request, however old its answer.                              *)
THEOREM Delivered == Spec => []DeliveredIsSettled
<1>1. Inv => DeliveredIsSettled
      BY DEF Inv, RowOK, DeliveredIsSettled, Done, Decided
<1>. QED  BY <1>1, Invariant, PTL

(* No paid purchase is forgotten before Core has finalized it.             *)
THEOREM Finalizes == Spec => []OutboxUntilFinalized
<1>1. Inv => OutboxUntilFinalized
      BY DEF Inv, RowOK, OutboxUntilFinalized, Done
<1>. QED  BY <1>1, Invariant, PTL

(* A merchant payment that Core knows of has its handoff on the row, saved *)
(* by SaveHandoff before anybody can prove it.  Only the note of an error  *)
(* in the worker's pass that saved it takes it away.                       *)
THEOREM Recoverable == Spec => []ProofIsRecoverable
<1>1. Inv => ProofIsRecoverable
      BY DEF Inv, ProofOK
<1>. QED  BY <1>1, Invariant, PTL

(* Money moves only while the row says so, whatever mandates lapse and     *)
(* offerings change.  On clink_allowance nothing undoes it; on the other   *)
(* rails only execute's look at a changed offering or mandate, of this     *)
(* very purchase, does.                                                    *)
THEOREM Recording == Spec => []AttemptIsRecorded
<1>1. Inv => AttemptIsRecorded
      BY DEF Inv, AttemptOK, AttemptIsRecorded, Calm
<1>. QED  BY <1>1, Invariant, PTL
=============================================================================
