--------------------------- MODULE FacilitatorProofs ---------------------------
(***************************************************************************)
(* Proofs about the pilot gate, for any executions, nodes, tenants,        *)
(* workers, quotas and budgets, and about the credentials of the nodes,    *)
(* for any clients, nodes and number of keys.                              *)
(***************************************************************************)
EXTENDS Enrollment, SumTheorems

(* Where a worker holds a signing claim. *)
Signing == {"claimed", "reserve_gas", "reserved", "persist"}

Jobs == \A w \in Worker : worker[w].pc # "idle" => worker[w].job \in Execution

(* A claim has one holder, and what its holder reserved is still charged   *)
(* as long as the claim is the current one.                                *)
Claims == \A w \in Worker : worker[w].pc \in Signing =>
    LET e == worker[w].job IN
    /\ worker[w].generation <= row[e].generation
    /\ \A v \in Worker : v # w /\ worker[v].pc \in Signing /\ worker[v].job = e
          => worker[v].generation # worker[w].generation
    /\ /\ worker[w].pc \in {"reserved", "persist"}
       /\ worker[w].generation = row[e].generation
       /\ row[e].status = "signing"
       => gate[e].gas = worker[w].cost

(* A signed transaction is charged in full, or it was signed before the    *)
(* gate existed and its gas fits in a day of its node.                     *)
Metered(e) ==
    \/ row[e].cost > 0 /\ gate[e].gas >= row[e].cost /\ gate[e].gasDay # NoDay
    \/ e \in Legacy /\ gate[e].gas = 0 /\ row[e].cost <= NodeGas /\ row[e].cost > 0

SignedStatus == {"signed", "confirmed"} \cup Broadcast \cup Settled

Meter == \A e \in Execution :
    /\ row[e].status \in SignedStatus \/ e \in sent => Metered(e)
    /\ e \in sent => row[e].status \notin Unsigned \cup {"none"}

(* The state of the reservation of an execution. *)
GateState(status) ==
    IF status = "none" THEN "none" ELSE IF status \in Settled THEN "settled"
    ELSE IF status = "released" THEN "released" ELSE "reserved"

Follows == \A e \in Execution : gate[e].state = GateState(row[e].status)

Inv == TypeOK /\ Jobs /\ Claims /\ Meter /\ Follows

LEMMA IdleTyped == Idle \in Local /\ Idle.pc = "idle"
  BY DEF Idle, Local, PC

LEMMA MinTyped ==
    ASSUME NEW a \in Nat, NEW b \in Nat
    PROVE  Min({a, b}) \in Nat
<1>1. \E x \in {a, b} : \A y \in {a, b} : x <= y
      OBVIOUS
<1>2. Min({a, b}) \in {a, b}
      BY <1>1 DEF Min
<1>. QED  BY <1>2

LEMMA DayTyped ==
    ASSUME NEW t \in Nat
    PROVE  utc_day(t) \in Nat /\ utc_day(t) # NoDay
  BY GateAssumption DEF utc_day, NoDay

LEMMA InitInv == Init => Inv
<1> SUFFICES ASSUME Init
             PROVE  Inv
    OBVIOUS
<1>1. \A w \in Worker : worker[w] = Idle
      BY DEF Init
<1>2. ASSUME NEW e \in Execution
      PROVE  /\ row[e] \in Row
             /\ row[e].status \in {"none", "preflight_approved", "signed", "submission_unknown"}
             /\ row[e].status = "none" <=> e \notin Legacy
             /\ row[e].status \in {"signed", "submission_unknown"} =>
                   row[e].cost \in Cost /\ row[e].cost <= NodeGas
      BY GateAssumption DEF Init, Row, Status, Unsigned, Broadcast, Settled
<1>3. ASSUME NEW e \in Execution
      PROVE  /\ gate[e] \in Gate /\ gate[e].gas = 0
             /\ gate[e].state = IF e \in Legacy THEN "reserved" ELSE "none"
      BY GateAssumption DEF Init, Gate, NewGate, NoDay
<1>4. row \in [Execution -> Row] /\ gate \in [Execution -> Gate]
  <2>1. row = [e \in Execution |-> row[e]] /\ gate = [e \in Execution |-> gate[e]]
        BY DEF Init
  <2>. QED  BY <1>2, <1>3, <2>1
<1>5. TypeOK
      BY <1>4, IdleTyped DEF Init, TypeOK, Scope
<1>6. Jobs /\ Claims
      BY <1>1, IdleTyped DEF Jobs, Claims, Signing
<1>7. \A e \in Execution : e \in sent => row[e].status = "submission_unknown"
      BY DEF Init
<1>8. Meter
  <2>1. ASSUME NEW e \in Execution, row[e].status \in SignedStatus \/ e \in sent
        PROVE  Metered(e)
    <3>1. row[e].status \in {"signed", "submission_unknown"}
          BY <1>2, <1>7, <2>1 DEF SignedStatus, Broadcast, Settled
    <3>2. e \in Legacy /\ row[e].cost \in Cost /\ row[e].cost <= NodeGas
          BY <1>2, <3>1
    <3>3. \A c \in Cost : c > 0
          BY GateAssumption
    <3>4. gate[e].gas = 0
          BY <1>3
    <3>. QED  BY <3>2, <3>3, <3>4 DEF Metered
  <2>. QED  BY <1>7, <2>1 DEF Meter, Unsigned
<1>9. Follows
      BY <1>2, <1>3 DEF Follows, GateState, Settled
<1>. QED  BY <1>5, <1>6, <1>8, <1>9 DEF Inv

(* A step that changes only its worker. *)
LEMMA LocalInv ==
    ASSUME Inv, NEW w \in Worker, UNCHANGED <<now, paused, row, gate, sent>>,
           NEW s \in Local, Become(w, s),
           s.pc # "idle" => s.job \in Execution,
           s.pc \in Signing => /\ worker[w].pc \in Signing
                               /\ s.job = worker[w].job /\ s.generation = worker[w].generation,
           s.pc \in {"reserved", "persist"} =>
               worker[w].pc \in {"reserved", "persist"} /\ s.cost = worker[w].cost
    PROVE  Inv'
<1>1. worker'[w] = s /\ \A v \in Worker : v # w => worker'[v] = worker[v]
      BY DEF Inv, TypeOK, Become
<1>2. TypeOK'
      BY DEF Inv, TypeOK, Become
<1>3. Jobs'
      BY <1>1 DEF Inv, Jobs
<1>4. Claims'
      BY <1>1 DEF Inv, Claims
<1>5. Meter' /\ Follows'
      BY DEF Inv, Meter, Metered, Follows
<1>. QED  BY <1>2, <1>3, <1>4, <1>5 DEF Inv

LEMMA LeaveInv ==
    ASSUME Inv, NEW w \in Worker, Denied(w)
    PROVE  Inv'
<1>1. Idle \in Local /\ Idle.pc = "idle"
      BY IdleTyped
<1>2. Become(w, Idle) /\ UNCHANGED <<now, paused, row, gate, sent>>
      BY DEF Denied, Leave
<1>3. Idle.pc \notin Signing /\ Idle.pc \notin {"reserved", "persist"}
      BY <1>1 DEF Signing
<1>. QED  BY <1>1, <1>2, <1>3, LocalInv

(* A step that moves one execution on. *)
LEMMA RowInv ==
    ASSUME Inv, NEW e \in Execution, NEW r \in Row, NEW g \in Gate,
           row' = [row EXCEPT ![e] = r], gate' = [gate EXCEPT ![e] = g],
           UNCHANGED <<now, paused, worker, sent>>,
           r.generation = row[e].generation, r.cost = row[e].cost,
           r.status \notin Unsigned \cup {"none"},
           r.status \in SignedStatus \/ e \in sent =>
               /\ row[e].status \in SignedStatus \/ e \in sent
               /\ g.gas = gate[e].gas /\ g.gasDay = gate[e].gasDay,
           g.state = GateState(r.status)
    PROVE  Inv'
<1>1. /\ row'[e] = r /\ gate'[e] = g
      /\ \A d \in Execution : d # e => row'[d] = row[d] /\ gate'[d] = gate[d]
      BY DEF Inv, TypeOK
<1>2. TypeOK'
      BY DEF Inv, TypeOK
<1>3. Jobs'
      BY DEF Inv, Jobs
<1>4. Claims'
  <2>1. ASSUME NEW w \in Worker, worker[w].pc \in Signing
        PROVE  worker[w].job \in Execution
        BY <2>1 DEF Inv, Jobs, Signing
  <2>. QED  BY <1>1, <2>1 DEF Inv, Claims, Unsigned
<1>5. Meter'
      BY <1>1 DEF Inv, Meter, Metered
<1>6. Follows'
      BY <1>1 DEF Inv, Follows
<1>. QED  BY <1>2, <1>3, <1>4, <1>5, <1>6 DEF Inv

(* The outcomes, recorded by the relayer and the watcher. *)
LEMMA OutcomeInv ==
    ASSUME Inv, NEW e \in Execution, RowNext(e)
    PROVE  Inv'
<1>1. TypeOK /\ row[e] \in Row /\ gate[e] \in Gate
      BY DEF Inv, TypeOK
<1>2. gate[e].state = GateState(row[e].status)
      BY DEF Inv, Follows
<1>3. e \in sent => row[e].status \notin Unsigned \cup {"none"}
      BY DEF Inv, Meter
<1>4. gate = [gate EXCEPT ![e] = gate[e]]
      BY <1>1 DEF TypeOK
<1>5. ASSUME NEW st \in Status, row[e].status \in SignedStatus,
             st \in SignedStatus \cup {"released"},
             row' = [row EXCEPT ![e] = [row[e] EXCEPT !.status = st]],
             NEW g \in Gate, gate' = [gate EXCEPT ![e] = g],
             g.gas = gate[e].gas, g.gasDay = gate[e].gasDay, g.state = GateState(st),
             UNCHANGED <<now, paused, worker, sent>>
      PROVE  Inv'
  <2> DEFINE r == [row[e] EXCEPT !.status = st]
  <2>1. r \in Row /\ r.status = st /\ r.generation = row[e].generation /\ r.cost = row[e].cost
        BY <1>1 DEF Row
  <2>2. row' = [row EXCEPT ![e] = r]
        BY <1>5
  <2> HIDE DEF r
  <2>3. r.status \notin Unsigned \cup {"none"}
        BY <1>5, <2>1 DEF SignedStatus, Broadcast, Settled, Unsigned
  <2>. QED  BY <1>5, <2>1, <2>2, <2>3, RowInv
<1>6. ASSUME NEW st \in Status, Move(e, st)
      PROVE  row' = [row EXCEPT ![e] = [row[e] EXCEPT !.status = st]]
      BY <1>1, <1>6 DEF Move, TypeOK
<1>7. ASSUME NEW state \in {"settled", "released"}, gate[e].state \in {"reserved", "settled"},
             gate' = [gate EXCEPT ![e].state = state]
      PROVE  \E g \in Gate : /\ gate' = [gate EXCEPT ![e] = g] /\ g.state = state
                             /\ g.gas = gate[e].gas /\ g.gasDay = gate[e].gasDay
  <2> DEFINE g == [gate[e] EXCEPT !.state = state]
  <2>1. g \in Gate /\ g.state = state /\ g.gas = gate[e].gas /\ g.gasDay = gate[e].gasDay
        BY <1>1 DEF Gate
  <2>2. gate' = [gate EXCEPT ![e] = g]
        BY <1>1, <1>7 DEF TypeOK
  <2>. QED  BY <2>1, <2>2
<1>8. CASE ReleaseExpired(e)
  <2> DEFINE r == [row[e] EXCEPT !.status = "released", !.lease = 0]
             g == [gate[e] EXCEPT !.state = "released", !.gas = 0, !.gasDay = NoDay]
  <2>1. row[e].status \in Unsigned /\ gate[e].state = "reserved" /\ e \notin sent
        BY <1>2, <1>3, <1>8 DEF ReleaseExpired, GateState, Unsigned, Settled
  <2>2. /\ r \in Row /\ r.status = "released"
        /\ r.generation = row[e].generation /\ r.cost = row[e].cost
        BY <1>1 DEF Row, Status
  <2>3. g \in Gate /\ g.state = "released"
    <3>1. NoDay \in Int
          BY DEF NoDay
    <3>. QED  BY <1>1, <3>1 DEF Gate
  <2>4. row' = [row EXCEPT ![e] = r] /\ UNCHANGED <<now, paused, worker, sent>>
        BY <1>1, <1>8 DEF ReleaseExpired, TypeOK
  <2>5. gate' = [gate EXCEPT ![e] = g]
        BY <1>1, <1>8, <2>1 DEF ReleaseExpired, MarkGateTerminal, TypeOK
  <2> HIDE DEF r, g
  <2>6. "released" \notin SignedStatus \cup Unsigned \cup {"none"} /\ GateState("released") = "released"
        BY DEF SignedStatus, Broadcast, Settled, Unsigned, GateState
  <2>. QED  BY <2>1, <2>2, <2>3, <2>4, <2>5, <2>6, RowInv
<1>9. ASSUME NEW st \in {"submitted", "submission_rejected", "confirmed", "reorg_review"},
             row[e].status \in SignedStatus,
             st = "reorg_review" => row[e].status \in Settled,
             st # "reorg_review" => row[e].status \notin Settled,
             Move(e, st), UNCHANGED <<now, paused, gate, worker, sent>>
      PROVE  Inv'
  <2>1. st \in Status /\ st \in SignedStatus /\ GateState(row[e].status) = GateState(st)
        BY <1>9 DEF Status, SignedStatus, Broadcast, Settled, Unsigned, GateState
  <2>2. row' = [row EXCEPT ![e] = [row[e] EXCEPT !.status = st]]
        BY <1>6, <1>9, <2>1
  <2>3. gate' = [gate EXCEPT ![e] = gate[e]]
        BY <1>4, <1>9
  <2>. QED  BY <1>1, <1>2, <1>5, <1>9, <2>1, <2>2, <2>3
<1>10. CASE \E st \in {"submitted", "submission_rejected"} : MarkSubmission(e, st)
       BY <1>9, <1>10 DEF MarkSubmission, SignedStatus, Broadcast, Settled
<1>11. CASE Confirm(e)
       BY <1>9, <1>11 DEF Confirm, SignedStatus, Broadcast, Settled
<1>12. CASE MarkReorgReview(e)
       BY <1>9, <1>12 DEF MarkReorgReview, SignedStatus, Settled
<1>13. ASSUME NEW st \in {"finalized", "reverted"}, row[e].status \in SignedStatus \ Settled,
              Move(e, st), MarkGateTerminal(e, "settled", FALSE),
              UNCHANGED <<now, paused, worker, sent>>
       PROVE  Inv'
  <2>1. st \in Status /\ st \in SignedStatus /\ GateState(st) = "settled"
        BY DEF Status, SignedStatus, Broadcast, Settled, Unsigned, GateState
  <2>2. gate[e].state = "reserved"
        BY <1>2, <1>13 DEF SignedStatus, Broadcast, Settled, GateState
  <2>3. gate' = [gate EXCEPT ![e].state = "settled"]
        BY <1>1, <1>13, <2>2 DEF MarkGateTerminal, TypeOK, Gate
  <2>4. row' = [row EXCEPT ![e] = [row[e] EXCEPT !.status = st]]
        BY <1>6, <1>13, <2>1
  <2>5. PICK g \in Gate : /\ gate' = [gate EXCEPT ![e] = g] /\ g.state = "settled"
                          /\ g.gas = gate[e].gas /\ g.gasDay = gate[e].gasDay
        BY <1>7, <2>2, <2>3
  <2>. QED  BY <1>5, <1>13, <2>1, <2>4, <2>5
<1>14. CASE Finalize(e)
       BY <1>13, <1>14 DEF Finalize, SignedStatus, Broadcast, Settled
<1>15. CASE Revert(e)
       BY <1>13, <1>15 DEF Revert, SignedStatus, Broadcast, Settled
<1>16. CASE ReleaseReverted(e)
  <2>1. /\ row[e].status \in SignedStatus /\ GateState("released") = "released"
        /\ "released" \in Status
        BY <1>16 DEF ReleaseReverted, SignedStatus, Settled, GateState, Status
  <2>2. row' = [row EXCEPT ![e] = [row[e] EXCEPT !.status = "released"]]
        BY <1>6, <1>16, <2>1 DEF ReleaseReverted
  <2>3. PICK g \in Gate : /\ gate' = [gate EXCEPT ![e] = g] /\ g.state = "released"
                          /\ g.gas = gate[e].gas /\ g.gasDay = gate[e].gasDay
        BY <1>7, <1>16 DEF ReleaseReverted
  <2>4. UNCHANGED <<now, paused, worker, sent>>
        BY <1>16 DEF ReleaseReverted
  <2>. QED  BY <1>5, <2>1, <2>2, <2>3, <2>4
<1>. QED  BY <1>8, <1>10, <1>11, <1>12, <1>14, <1>15, <1>16 DEF RowNext

-----------------------------------------------------------------------------
(* Workers. *)
LEMMA BeginInv ==
    ASSUME Inv, NEW w \in Worker, NEW e \in Execution,
           Execute(w, e) \/ BeginRebroadcast(w, e)
    PROVE  Inv'
<1>1. PICK pc \in {"allocate", "claim_signing", "claim_submission", "rebroadcast"} :
          Become(w, [Idle EXCEPT !.pc = pc, !.job = e, !.clock = now])
      BY DEF Execute, BeginRebroadcast
<1> DEFINE s == [Idle EXCEPT !.pc = pc, !.job = e, !.clock = now]
<1>2. now \in Nat /\ UNCHANGED <<now, paused, row, gate, sent>>
      BY DEF Inv, TypeOK, Execute, BeginRebroadcast
<1>3. s \in Local /\ s.pc = pc /\ s.job = e
      BY <1>2, IdleTyped DEF Local, PC
<1>4. Become(w, s)
      BY <1>1
<1> HIDE DEF s
<1>5. s.pc \notin Signing /\ s.pc \notin {"reserved", "persist"}
      BY <1>3 DEF Signing
<1>. QED  BY <1>2, <1>3, <1>4, <1>5, LocalInv

LEMMA ReadInv ==
    ASSUME Inv, NEW w \in Worker,
           (\E cost \in Cost : Quote(w, cost)) \/ ReadClock(w) \/ Abandon(w)
    PROVE  Inv'
<1>1. worker[w] \in Local /\ now \in Nat /\ (worker[w].pc # "idle" => worker[w].job \in Execution)
      BY DEF Inv, TypeOK, Jobs
<1>2. ASSUME NEW cost \in Cost, Quote(w, cost)
      PROVE  Inv'
  <2> DEFINE s == [worker[w] EXCEPT !.pc = "reserve_gas", !.cost = cost, !.clock = now]
  <2>1. cost \in Nat
        BY GateAssumption
  <2>2. /\ s \in Local /\ s.pc = "reserve_gas" /\ s.job = worker[w].job
        /\ s.generation = worker[w].generation
        BY <1>1, <2>1 DEF Local, PC
  <2>3. /\ Become(w, s) /\ UNCHANGED <<now, paused, row, gate, sent>>
        /\ worker[w].pc = "claimed"
        BY <1>2 DEF Quote
  <2> HIDE DEF s
  <2>. QED  BY <1>1, <2>2, <2>3, LocalInv DEF Signing
<1>3. CASE ReadClock(w)
  <2>1. PICK pc \in {"persist", "claim_submission"} :
            /\ Become(w, [worker[w] EXCEPT !.clock = now, !.pc = pc])
            /\ pc = "persist" => worker[w].pc = "reserved"
        BY <1>1, <1>3 DEF ReadClock, Local
  <2> DEFINE s == [worker[w] EXCEPT !.clock = now, !.pc = pc]
  <2>2. /\ s \in Local /\ s.pc = pc /\ s.job = worker[w].job
        /\ s.generation = worker[w].generation /\ s.cost = worker[w].cost
        BY <1>1 DEF Local, PC
  <2>3. /\ Become(w, s) /\ UNCHANGED <<now, paused, row, gate, sent>>
        /\ worker[w].pc # "idle"
        BY <1>3, <2>1 DEF ReadClock
  <2> HIDE DEF s
  <2>. QED  BY <1>1, <2>1, <2>2, <2>3, LocalInv DEF Signing
<1>. QED  BY <1>2, <1>3, LeaveInv DEF Abandon

(* allocate_or_return: the reservation is created with its execution. *)
LEMMA AllocateInv ==
    ASSUME Inv, NEW w \in Worker, Allocate(w)
    PROVE  Inv'
<1> DEFINE e == worker[w].job
<1>1. TypeOK /\ worker[w] \in Local /\ worker[w].pc = "allocate" /\ e \in Execution
      BY DEF Inv, TypeOK, Jobs, Allocate
<1>2. row[e] \in Row /\ gate[e] \in Gate /\ utc_day(worker[w].clock) \in Nat
      BY <1>1, DayTyped DEF TypeOK, Local
<1> DEFINE s == [worker[w] EXCEPT !.pc = "claim_signing"]
           u == [Idle EXCEPT !.pc = "persisted", !.job = e]
<1>3. s \in Local /\ s.pc = "claim_signing" /\ s.job = e
      BY <1>1 DEF Local, PC
<1>4. u \in Local /\ u.pc = "persisted" /\ u.job = e
      BY <1>1, IdleTyped DEF Local, PC
<1>5. ASSUME UNCHANGED <<now, paused, row, gate, sent>>, Become(w, s) \/ Become(w, u)
      PROVE  Inv'
  <2> HIDE DEF s, u
  <2>. QED  BY <1>1, <1>3, <1>4, <1>5, LocalInv DEF Signing
<1>6. CASE /\ row[e].status = "none"
           /\ row' = [row EXCEPT ![e].status = "preflight_approved"]
           /\ gate' = [gate EXCEPT ![e] = NewGate(utc_day(worker[w].clock))]
           /\ Become(w, s)
           /\ UNCHANGED <<now, paused, sent>>
  <2> DEFINE g == NewGate(utc_day(worker[w].clock))
  <2>1. g \in Gate /\ g.state = "reserved"
        BY <1>2 DEF NewGate, Gate, NoDay
  <2>2. /\ row'[e].status = "preflight_approved" /\ row'[e].generation = row[e].generation
        /\ row'[e].cost = row[e].cost /\ gate'[e] = g
        /\ \A d \in Execution : d # e => row'[d] = row[d] /\ gate'[d] = gate[d]
        BY <1>1, <1>2, <1>6 DEF TypeOK, Row
  <2>3. worker'[w] = s /\ \A v \in Worker : v # w => worker'[v] = worker[v]
        BY <1>1, <1>6 DEF TypeOK, Become
  <2>4. row' \in [Execution -> Row]
        BY <1>1, <1>2, <1>6 DEF TypeOK, Row, Status, Unsigned
  <2> HIDE DEF s, g
  <2>5. gate' \in [Execution -> Gate] /\ worker' \in [Worker -> Local]
        BY <1>1, <1>3, <1>6, <2>1 DEF TypeOK, Become, g
  <2>6. TypeOK'
        BY <1>1, <1>6, <2>4, <2>5 DEF TypeOK
  <2>7. Jobs'
        BY <1>1, <1>3, <2>3 DEF Inv, Jobs
  <2>8. Claims'
    <3>1. \A v \in Worker : worker'[v].pc \in Signing =>
              v # w /\ worker'[v] = worker[v] /\ worker[v].job \in Execution
          BY <1>3, <2>3 DEF Inv, Jobs, Signing
    <3>. QED  BY <2>2, <3>1 DEF Inv, Claims
  <2>9. e \notin sent
        BY <1>1, <1>6 DEF Inv, Meter
  <2>10. Meter'
        BY <1>6, <2>2, <2>9 DEF Inv, Meter, Metered, SignedStatus, Broadcast, Settled
  <2>11. Follows'
        BY <2>1, <2>2 DEF Inv, Follows, GateState, Settled
  <2>. QED  BY <2>6, <2>7, <2>8, <2>10, <2>11 DEF Inv
<1>. QED  BY <1>5, <1>6, LeaveInv DEF Allocate, Job

(* claim_signing: the new claim is above every other. *)
LEMMA ClaimInv ==
    ASSUME Inv, NEW w \in Worker, ClaimSigning(w)
    PROVE  Inv'
<1> DEFINE e == worker[w].job
           lease == Min({Deadline[e], worker[w].clock + Lease})
           next == row[e].generation + 1
           r == [row[e] EXCEPT !.status = "signing", !.generation = next, !.lease = lease]
           s == [worker[w] EXCEPT !.pc = "claimed", !.clock = 0, !.generation = next]
<1>1. TypeOK /\ worker[w] \in Local /\ e \in Execution
      BY DEF Inv, TypeOK, Jobs, ClaimSigning
<1>2. row[e] \in Row
      BY <1>1 DEF TypeOK
<1>3. CASE Denied(w)
      BY <1>3, LeaveInv
<1>4. CASE ~ Denied(w)
  <2>1. /\ row[e].status \in Unsigned
        /\ row' = [row EXCEPT ![e] = r]
        /\ Become(w, s)
        /\ UNCHANGED <<now, paused, gate, sent>>
        BY <1>1, <1>4 DEF ClaimSigning, Unsigned, TypeOK, Job
  <2>2. lease \in Nat /\ next \in Nat
    <3>1. Deadline[e] \in Nat /\ worker[w].clock + Lease \in Nat
          BY <1>1, GateAssumption DEF Local
    <3>2. row[e].generation \in Nat
          BY <1>2 DEF Row
    <3>. QED  BY <3>1, <3>2, MinTyped
  <2> HIDE DEF lease, next
  <2>3. r \in Row /\ r.status = "signing" /\ r.generation = next /\ r.cost = row[e].cost
        BY <1>2, <2>2 DEF Row, Status, Unsigned
  <2>4. s \in Local /\ s.pc = "claimed" /\ s.job = e /\ s.generation = next
        BY <1>1, <2>2 DEF Local, PC
  <2> HIDE DEF r, s
  <2> USE DEF next
  <2>5. row'[e] = r /\ \A d \in Execution : d # e => row'[d] = row[d]
        BY <1>1, <2>1 DEF TypeOK
  <2>6. worker'[w] = s /\ \A v \in Worker : v # w => worker'[v] = worker[v]
        BY <1>1, <2>1 DEF TypeOK, Become
  <2>7. TypeOK'
        BY <1>1, <2>1, <2>3, <2>4 DEF TypeOK, Become
  <2>8. Jobs'
        BY <1>1, <2>4, <2>6 DEF Inv, Jobs
  <2>9. ASSUME NEW v \in Worker, v # w, worker[v].pc \in Signing, worker[v].job = e
        PROVE  worker[v].generation < row[e].generation + 1
    <3>1. worker[v].generation <= row[e].generation
          BY <2>9 DEF Inv, Claims
    <3>2. worker[v].generation \in Nat /\ row[e].generation \in Nat
          BY <1>1, <1>2 DEF TypeOK, Local, Row
    <3>. QED  BY <3>1, <3>2
  <2>10. Claims'
    <3>1. row[e].generation \in Nat
          BY <1>2 DEF Row
    <3>2. ASSUME NEW v \in Worker, v # w, worker[v].pc \in Signing
          PROVE  /\ worker[v].job \in Execution /\ worker[v].generation \in Nat
                 /\ worker[v].generation <= row'[worker[v].job].generation
                 /\ worker[v].job = e => worker[v].generation < row'[e].generation
          BY <1>1, <2>3, <2>5, <2>9, <3>1, <3>2 DEF Inv, Jobs, Claims, Signing, TypeOK, Local
    <3>3. ASSUME NEW v \in Worker, worker'[v].pc \in Signing
          PROVE  /\ worker'[v].generation <= row'[worker'[v].job].generation
                 /\ \A x \in Worker :
                       x # v /\ worker'[x].pc \in Signing /\ worker'[x].job = worker'[v].job
                       => worker'[x].generation # worker'[v].generation
                 /\ /\ worker'[v].pc \in {"reserved", "persist"}
                    /\ worker'[v].generation = row'[worker'[v].job].generation
                    /\ row'[worker'[v].job].status = "signing"
                    => gate'[worker'[v].job].gas = worker'[v].cost
      <4>1. CASE v = w
            BY <2>3, <2>4, <2>5, <2>6, <3>1, <3>2, <4>1
      <4>2. CASE v # w
        <5>1. worker'[v] = worker[v] /\ worker[v].pc \in Signing
              BY <2>6, <3>3, <4>2
        <5>2. \A x \in Worker :
                 x # v /\ worker'[x].pc \in Signing /\ worker'[x].job = worker[v].job
                 => worker'[x].generation # worker[v].generation
          <6>1. ASSUME NEW x \in Worker, x # v, worker'[x].pc \in Signing,
                       worker'[x].job = worker[v].job
                PROVE  worker'[x].generation # worker[v].generation
            <7>1. CASE x = w
                  BY <2>3, <2>4, <2>5, <2>6, <3>1, <3>2, <4>2, <5>1, <6>1, <7>1
            <7>2. CASE x # w
                  BY <2>6, <5>1, <6>1, <7>2 DEF Inv, Claims
            <7>. QED  BY <7>1, <7>2
          <6>. QED  BY <6>1
        <5>3. worker[v].job # e => row'[worker[v].job] = row[worker[v].job]
              BY <2>5, <3>2, <4>2, <5>1
        <5>. QED  BY <2>1, <2>3, <2>5, <3>1, <3>2, <4>2, <5>1, <5>2, <5>3 DEF Inv, Claims
      <4>. QED  BY <4>1, <4>2
    <3>. QED  BY <3>3 DEF Claims
  <2>11. e \notin sent
        BY <1>1, <2>1 DEF Inv, Meter
  <2>12. Meter'
        BY <2>1, <2>3, <2>5, <2>11 DEF Inv, Meter, Metered, SignedStatus, Broadcast, Settled
  <2>13. Follows'
        BY <1>1, <2>1, <2>3, <2>5 DEF Inv, Follows, GateState, Settled, Unsigned
  <2>. QED  BY <2>7, <2>8, <2>10, <2>12, <2>13 DEF Inv
<1>. QED  BY <1>3, <1>4

(* reserve_pilot_gas: only the holder of the current claim replaces what    *)
(* is charged.                                                              *)
LEMMA ReserveInv ==
    ASSUME Inv, NEW w \in Worker, ReservePilotGas(w)
    PROVE  Inv'
<1> DEFINE e == worker[w].job
           day == utc_day(worker[w].clock)
           g == [gate[e] EXCEPT !.gas = worker[w].cost, !.gasDay = day]
           s == [worker[w] EXCEPT !.pc = "reserved", !.clock = 0]
<1>1. TypeOK /\ worker[w] \in Local /\ worker[w].pc = "reserve_gas" /\ e \in Execution
      BY DEF Inv, TypeOK, Jobs, ReservePilotGas
<1>2. CASE Denied(w)
      BY <1>2, LeaveInv
<1>3. CASE ~ Denied(w)
  <2>1. /\ row[e].status = "signing" /\ worker[w].generation = row[e].generation
        /\ gate' = [gate EXCEPT ![e] = g]
        /\ Become(w, s) /\ UNCHANGED <<now, paused, row, sent>>
        BY <1>1, <1>3 DEF ReservePilotGas, ClaimHeld, Charged, Job, TypeOK
  <2>2. gate[e] \in Gate /\ worker[w].cost \in Nat /\ day \in Int
        BY <1>1, DayTyped DEF TypeOK, Local
  <2> HIDE DEF day
  <2>3. g \in Gate /\ g.gas = worker[w].cost /\ g.state = gate[e].state
        BY <2>2 DEF Gate
  <2>4. /\ s \in Local /\ s.pc = "reserved" /\ s.job = e
        /\ s.generation = worker[w].generation /\ s.cost = worker[w].cost
        BY <1>1 DEF Local, PC
  <2> HIDE DEF g, s
  <2>5. gate'[e] = g /\ \A d \in Execution : d # e => gate'[d] = gate[d]
        BY <1>1, <2>1 DEF TypeOK
  <2>6. worker'[w] = s /\ \A v \in Worker : v # w => worker'[v] = worker[v]
        BY <1>1, <2>1 DEF TypeOK, Become
  <2>7. TypeOK'
        BY <1>1, <2>1, <2>3, <2>4 DEF TypeOK, Become
  <2>8. Jobs'
        BY <1>1, <2>4, <2>6 DEF Inv, Jobs
  <2>9. Claims'
    <3>1. ASSUME NEW v \in Worker
          PROVE  /\ worker'[v].pc \in Signing <=> worker[v].pc \in Signing
                 /\ worker'[v].job = worker[v].job
                 /\ worker'[v].generation = worker[v].generation
                 /\ worker'[v].cost = worker[v].cost
          BY <1>1, <2>4, <2>6 DEF Signing
    <3>2. ASSUME NEW v \in Worker, worker[v].pc \in Signing, v # w, worker[v].job = e
          PROVE  worker[v].generation # row[e].generation
          BY <1>1, <2>1, <3>2 DEF Inv, Claims, Signing
    <3>3. \A v \in Worker : worker[v].pc \in Signing => worker[v].job \in Execution
          BY DEF Inv, Jobs, Signing
    <3>. QED  BY <2>1, <2>3, <2>4, <2>5, <2>6, <3>1, <3>2, <3>3 DEF Inv, Claims
  <2>10. e \notin sent
        BY <1>1, <2>1 DEF Inv, Meter, Unsigned
  <2>11. Meter'
        BY <2>1, <2>5, <2>10 DEF Inv, Meter, Metered, SignedStatus, Broadcast, Settled
  <2>12. Follows'
        BY <2>1, <2>3, <2>5 DEF Inv, Follows
  <2>. QED  BY <2>7, <2>8, <2>9, <2>11, <2>12 DEF Inv
<1>. QED  BY <1>2, <1>3

(* persist_signed_transaction: the transaction costs what was reserved. *)
LEMMA PersistInv ==
    ASSUME Inv, NEW w \in Worker, PersistSigned(w)
    PROVE  Inv'
<1>0. PICK e \in Execution : e = worker[w].job
      BY DEF Inv, Jobs, PersistSigned
<1> DEFINE cost == worker[w].cost
           r == [row[e] EXCEPT !.status = "signed", !.lease = 0, !.cost = cost]
           s == [Idle EXCEPT !.pc = "persisted", !.job = e]
<1>1. TypeOK /\ worker[w] \in Local /\ worker[w].pc = "persist"
      BY DEF Inv, TypeOK, PersistSigned
<1>2. CASE Denied(w)
      BY <1>2, LeaveInv
<1>3. CASE ~ Denied(w)
  <2>1. /\ row[e].status = "signing" /\ worker[w].generation = row[e].generation
        /\ gate[e].gas > 0 /\ gate[e].gasDay # NoDay
        /\ row' = [row EXCEPT ![e] = r]
        /\ Become(w, s) /\ UNCHANGED <<now, paused, gate, sent>>
        BY <1>0, <1>1, <1>3 DEF PersistSigned, Job, TypeOK
  <2>2. gate[e].gas = cost
        BY <1>0, <1>1, <2>1 DEF Inv, Claims, Signing
  <2>3. row[e] \in Row /\ cost \in Nat /\ gate[e] \in Gate
        BY <1>1 DEF TypeOK, Local
  <2> HIDE DEF cost
  <2>4. r \in Row /\ r.status = "signed" /\ r.cost = cost /\ r.generation = row[e].generation
        BY <2>3 DEF Row, Status
  <2>5. s \in Local /\ s.pc = "persisted" /\ s.job = e
        BY <1>1, IdleTyped DEF Local, PC
  <2> HIDE DEF r, s
  <2>6. row'[e] = r /\ \A d \in Execution : d # e => row'[d] = row[d]
        BY <1>1, <2>1 DEF TypeOK
  <2>7. worker'[w] = s /\ \A v \in Worker : v # w => worker'[v] = worker[v]
        BY <1>1, <2>1 DEF TypeOK, Become
  <2>8. TypeOK'
        BY <1>1, <2>1, <2>4, <2>5 DEF TypeOK, Become
  <2>9. Jobs'
        BY <1>1, <2>5, <2>7 DEF Inv, Jobs
  <2>10. Claims'
    <3>1. \A v \in Worker : worker'[v].pc \in Signing =>
              v # w /\ worker'[v] = worker[v] /\ worker[v].job \in Execution
          BY <2>5, <2>7 DEF Inv, Jobs, Signing
    <3>. QED  BY <2>1, <2>4, <2>6, <3>1 DEF Inv, Claims
  <2>11. Meter'
    <3>1. Metered(e)'
          BY <2>1, <2>2, <2>3, <2>4, <2>6 DEF Metered
    <3>2. r.status \notin Unsigned \cup {"none"}
          BY <2>4 DEF Unsigned
    <3>. QED  BY <2>1, <2>6, <3>1, <3>2 DEF Inv, Meter, Metered
  <2>12. Follows'
        BY <1>1, <2>1, <2>4, <2>6 DEF Inv, Follows, GateState, Settled
  <2>. QED  BY <2>8, <2>9, <2>10, <2>11, <2>12 DEF Inv
<1>. QED  BY <1>2, <1>3

(* claim_submission and the rebroadcast: the charge moves to the day of the *)
(* broadcast and does not shrink.                                           *)
LEMMA ChargeInv ==
    ASSUME Inv, NEW w \in Worker, ClaimSubmission(w) \/ Rebroadcast(w)
    PROVE  Inv'
<1>0. PICK e \in Execution : e = worker[w].job
      BY DEF Inv, Jobs, ClaimSubmission, Rebroadcast
<1> DEFINE day == utc_day(worker[w].clock)
           due == GasDue(e)
           g == [gate[e] EXCEPT !.gas = due, !.gasDay = day]
<1>1. TypeOK /\ worker[w] \in Local
      BY DEF Inv, TypeOK
<1>2. CASE Denied(w)
      BY <1>2, LeaveInv
<1>3. CASE ~ Denied(w)
  <2>1. /\ row[e].status \in {"signed"} \cup Broadcast
        /\ gate' = [gate EXCEPT ![e] = g]
        /\ Leave(w) /\ UNCHANGED <<now, paused>>
        BY <1>0, <1>1, <1>3 DEF ClaimSubmission, Rebroadcast, Charged, Job, TypeOK, Broadcast
  <2>2. \/ row' = row /\ sent' = sent /\ row[e].status \in Broadcast
        \/ row' = [row EXCEPT ![e].status = "submission_unknown"] /\ sent' = sent \cup {e}
        BY <1>0, <1>3 DEF ClaimSubmission, Rebroadcast, Job
  <2>3. row[e] \in Row /\ gate[e] \in Gate /\ day \in Int /\ day # NoDay
        BY <1>1, DayTyped DEF TypeOK, Local
  <2>4. Metered(e)
        BY <1>1, <2>1 DEF Inv, Meter, SignedStatus
  <2>5. due \in Nat /\ due >= row[e].cost /\ row[e].cost > 0
    <3>1. NodeGas \in Nat /\ gate[e].gas \in Nat /\ row[e].cost \in Nat
          BY <2>3, GateAssumption DEF Gate, Row
    <3>. QED  BY <2>4, <3>1 DEF GasDue, Metered
  <2> HIDE DEF due, day
  <2>6. g \in Gate /\ g.gas = due /\ g.gasDay = day /\ g.state = gate[e].state
        BY <2>3, <2>5 DEF Gate
  <2> HIDE DEF g
  <2>7. gate'[e] = g /\ \A d \in Execution : d # e => gate'[d] = gate[d]
        BY <1>1, <2>1 DEF TypeOK
  <2>8. /\ row' \in [Execution -> Row] /\ row'[e].status \in Broadcast
        /\ row'[e].cost = row[e].cost /\ row'[e].generation = row[e].generation
        /\ \A d \in Execution : d # e => row'[d] = row[d]
        BY <1>1, <2>2, <2>3 DEF TypeOK, Row, Status, Broadcast
  <2>9. worker'[w] = Idle /\ \A v \in Worker : v # w => worker'[v] = worker[v]
        BY <1>1, <2>1 DEF TypeOK, Leave, Become
  <2>10. TypeOK'
    <3>1. gate' \in [Execution -> Gate] /\ worker' \in [Worker -> Local] /\ sent' \subseteq Execution
          BY <1>1, <2>1, <2>2, <2>6, IdleTyped DEF TypeOK, Leave, Become
    <3>. QED  BY <1>1, <2>1, <2>8, <3>1 DEF TypeOK
  <2>11. Jobs'
        BY <2>9, IdleTyped DEF Inv, Jobs
  <2>12. Claims'
    <3>1. \A v \in Worker : worker'[v].pc \in Signing =>
              v # w /\ worker'[v] = worker[v] /\ worker[v].job \in Execution
          BY <2>9, IdleTyped DEF Inv, Jobs, Signing
    <3>2. row'[e].status # "signing"
          BY <2>8 DEF Broadcast
    <3>. QED  BY <2>7, <2>8, <3>1, <3>2 DEF Inv, Claims
  <2>13. Meter'
    <3>1. Metered(e)'
          BY <2>3, <2>5, <2>6, <2>7, <2>8 DEF Metered
    <3>2. row'[e].status \notin Unsigned \cup {"none"}
          BY <2>8 DEF Broadcast, Unsigned
    <3>3. \A d \in Execution : d # e => (d \in sent' <=> d \in sent)
          BY <2>2
    <3>. QED  BY <2>7, <2>8, <3>1, <3>2, <3>3 DEF Inv, Meter, Metered
  <2>14. Follows'
        BY <1>1, <2>1, <2>6, <2>7, <2>8 DEF Inv, Follows, GateState, Settled, Broadcast
  <2>. QED  BY <2>10, <2>11, <2>12, <2>13, <2>14 DEF Inv
<1>. QED  BY <1>2, <1>3

LEMMA NextInv ==
    ASSUME Inv, [Next]_vars
    PROVE  Inv'
<1>1. ASSUME NEW w \in Worker, WorkerNext(w)
      PROVE  Inv'
      BY <1>1, BeginInv, ReadInv, AllocateInv, ClaimInv, ReserveInv, PersistInv, ChargeInv
      DEF WorkerNext
<1>2. ASSUME UNCHANGED <<row, gate, worker, sent>>, TypeOK'
      PROVE  Inv'
      BY <1>2 DEF Inv, Jobs, Claims, Meter, Metered, Follows
<1>3. ASSUME NEW scope \in Controlled, SetPilotPause(scope)
      PROVE  Inv'
  <2>1. TypeOK' /\ UNCHANGED <<row, gate, worker, sent>>
        BY <1>3, GateAssumption DEF Inv, TypeOK, SetPilotPause
  <2>. QED  BY <1>2, <2>1
<1>4. CASE Tick
  <2>1. TypeOK' /\ UNCHANGED <<row, gate, worker, sent>>
        BY <1>4 DEF Inv, TypeOK, Tick
  <2>. QED  BY <1>2, <2>1
<1>5. CASE UNCHANGED vars
  <2>1. TypeOK' /\ UNCHANGED <<row, gate, worker, sent>>
        BY <1>5 DEF Inv, TypeOK, vars
  <2>. QED  BY <1>2, <2>1
<1>. QED  BY <1>1, <1>3, <1>4, <1>5, OutcomeInv DEF Next

(* The inductive invariant: a signing claim has one holder, what the        *)
(* current holder reserved is still charged when it signs, and a signed     *)
(* transaction stays charged (reserve_pilot_gas, persist_signed_transaction,*)
(* claim_submission).                                                       *)
THEOREM GateInvariant == Spec => []Inv
<1>1. Init => Inv
      BY InitInv
<1>2. Inv /\ [Next]_vars => Inv'
      BY NextInv
<1>. QED  BY <1>1, <1>2, PTL DEF Spec

(* The rows of hosted_executions and hosted_gate_reservations and the       *)
(* workers' variables keep their types.                                     *)
THEOREM GateTypes == Spec => []TypeOK
<1>1. Inv => TypeOK
      BY DEF Inv
<1>. QED  BY <1>1, GateInvariant, PTL

(* For any number of workers, claims and days: a transaction that was       *)
(* authorised for broadcast under the gate stays charged to some day with   *)
(* at least the gas that it can burn (claim_submission,                     *)
(* _ensure_pilot_gas_reservation, _mark_gate_terminal).                     *)
THEOREM GateMetersSent == Spec => []SentIsMetered
<1>1. Inv => SentIsMetered
      BY DEF Inv, TypeOK, Meter, Metered, SentIsMetered
<1>. QED  BY <1>1, GateInvariant, PTL

(* For any instance, a gate reservation is open, settled or released        *)
(* exactly when its execution is (allocate_or_return, _mark_gate_terminal,  *)
(* _release_gate_reservation).                                              *)
THEOREM GateFollows == Spec => []GateFollowsExecution
<1>1. ASSUME NEW status
      PROVE  GateState(status) = (CASE status = "none" -> "none"
                                    [] status \in Settled -> "settled"
                                    [] status = "released" -> "released"
                                    [] OTHER -> "reserved")
      BY DEF GateState, Settled
<1>2. Inv => GateFollowsExecution
      BY <1>1 DEF Inv, Follows, GateFollowsExecution
<1>. QED  BY <1>2, GateInvariant, PTL

-----------------------------------------------------------------------------
(* The quotas.  The migration admits whatever it finds, so they hold from  *)
(* the start only if it found no more than they allow.                     *)
LegacyFits == \A n \in Node :
    LET found == Cardinality({e \in Legacy : NodeOf[e] = n}) IN
    found <= MaxInFlight /\ found <= MaxDaily /\ found <= MaxLifetime

Quotas == \A n \in Node :
    /\ Cardinality(InFlight(n)) <= MaxInFlight
    /\ \A day \in Int : Cardinality(Accepted(n, day)) <= MaxDaily
    /\ Cardinality(Of(n)) <= MaxLifetime

(* Cardinalities of sets of executions. *)
LEMMA Sized ==
    ASSUME NEW S \in SUBSET Execution
    PROVE  /\ IsFiniteSet(S) /\ Cardinality(S) \in Nat
           /\ \A T \in SUBSET S : Cardinality(T) <= Cardinality(S)
<1>1. IsFiniteSet(S)
      BY GateAssumption, FS_Subset
<1>2. \A T \in SUBSET S : Cardinality(T) <= Cardinality(S)
      BY <1>1, FS_Subset
<1>. QED  BY <1>1, <1>2, FS_CardinalityType

LEMMA InitQuotas ==
    ASSUME Init, LegacyFits
    PROVE  Quotas
<1>1. ASSUME NEW n \in Node
      PROVE  /\ Cardinality(InFlight(n)) <= MaxInFlight
             /\ \A day \in Int : Cardinality(Accepted(n, day)) <= MaxDaily
             /\ Cardinality(Of(n)) <= MaxLifetime
  <2> DEFINE L == {e \in Legacy : NodeOf[e] = n}
  <2>1. Cardinality(L) <= MaxInFlight /\ Cardinality(L) <= MaxDaily /\ Cardinality(L) <= MaxLifetime
        BY DEF LegacyFits
  <2>2. \A e \in Execution : gate[e].state # "none" => e \in Legacy
        BY DEF Init, NewGate
  <2>3. Of(n) \subseteq L
        BY <2>2 DEF Of
  <2>4. InFlight(n) \subseteq L /\ \A day : Accepted(n, day) \subseteq L
        BY <2>3 DEF InFlight, Accepted
  <2>5. L \in SUBSET Execution
        BY GateAssumption
  <2> HIDE DEF L
  <2>6. Cardinality(L) \in Nat /\ \A T \in SUBSET L : Cardinality(T) \in Nat /\ Cardinality(T) <= Cardinality(L)
        BY <2>5, Sized
  <2>7. {MaxInFlight, MaxDaily, MaxLifetime} \subseteq Nat
        BY GateAssumption
  <2>8. Cardinality(InFlight(n)) <= MaxInFlight
        BY <2>1, <2>4, <2>6, <2>7
  <2>9. Cardinality(Of(n)) <= MaxLifetime
        BY <2>1, <2>3, <2>6, <2>7
  <2>10. \A day \in Int : Cardinality(Accepted(n, day)) <= MaxDaily
        BY <2>1, <2>4, <2>6, <2>7
  <2>. QED  BY <2>8, <2>9, <2>10
<1>. QED  BY <1>1 DEF Quotas

(* Steps that admit nobody. *)
LEMMA KeepQuotas ==
    ASSUME Quotas,
           \A e \in Execution : /\ gate'[e].state = "none" <=> gate[e].state = "none"
                                /\ gate'[e].state = "reserved" => gate[e].state = "reserved"
                                /\ gate'[e].day = gate[e].day
    PROVE  Quotas'
<1>1. ASSUME NEW n \in Node
      PROVE  Of(n)' = Of(n) /\ InFlight(n)' \subseteq InFlight(n)
      BY DEF Of, InFlight
<1>2. ASSUME NEW n \in Node, NEW day
      PROVE  Accepted(n, day)' = Accepted(n, day)
      BY DEF Of, Accepted
<1>3. ASSUME NEW n \in Node
      PROVE  Cardinality(InFlight(n)') <= MaxInFlight
  <2>1. InFlight(n) \in SUBSET Execution
        BY DEF InFlight, Of
  <2>2. Cardinality(InFlight(n)) \in Nat /\ Cardinality(InFlight(n)') <= Cardinality(InFlight(n))
        BY <1>1, <2>1, Sized
  <2>3. InFlight(n)' \in SUBSET Execution
        BY <1>1, <2>1
  <2>4. Cardinality(InFlight(n)') \in Nat
        BY <2>3, Sized
  <2>5. MaxInFlight \in Nat /\ Cardinality(InFlight(n)) <= MaxInFlight
        BY GateAssumption DEF Quotas
  <2>. QED  BY <2>2, <2>4, <2>5
<1>. QED  BY <1>1, <1>2, <1>3 DEF Quotas

(* _pilot_admission_denial, in the transaction that inserts the reservation. *)
LEMMA AdmitQuotas ==
    ASSUME TypeOK, Quotas, NEW e \in Execution, NEW t \in Nat, Admits(NodeOf[e], t),
           gate[e].state = "none", gate' = [gate EXCEPT ![e] = NewGate(utc_day(t))]
    PROVE  Quotas'
<1> DEFINE n == NodeOf[e]
           d == utc_day(t)
<1>1. /\ gate'[e].state = "reserved" /\ gate'[e].day = d
      /\ \A x \in Execution : x # e => gate'[x] = gate[x]
      BY DEF TypeOK, NewGate
<1>2. ASSUME NEW m \in Node, m # n, NEW day
      PROVE  Of(m)' = Of(m) /\ InFlight(m)' = InFlight(m) /\ Accepted(m, day)' = Accepted(m, day)
  <2>1. Of(m)' = Of(m)
        BY <1>1, <1>2 DEF Of
  <2>. QED  BY <1>1, <1>2, <2>1 DEF Of, InFlight, Accepted
<1>3. Of(n)' = Of(n) \cup {e} /\ e \notin Of(n)
      BY <1>1 DEF Of
<1>4. InFlight(n)' = InFlight(n) \cup {e} /\ e \notin InFlight(n)
      BY <1>1, <1>3 DEF InFlight, Of
<1>5. Accepted(n, d)' = Accepted(n, d) \cup {e} /\ e \notin Accepted(n, d)
      BY <1>1, <1>3 DEF Accepted, Of
<1>6. ASSUME NEW day, day # d
      PROVE  Accepted(n, day)' = Accepted(n, day)
      BY <1>1, <1>3, <1>6 DEF Accepted, Of
<1>7. ASSUME NEW S \in SUBSET Execution, e \notin S, NEW k \in Nat, Cardinality(S) < k
      PROVE  Cardinality(S \cup {e}) <= k
  <2>1. IsFiniteSet(S) /\ Cardinality(S) \in Nat
        BY Sized
  <2>2. Cardinality(S \cup {e}) = Cardinality(S) + 1
        BY <1>7, <2>1, FS_AddElement
  <2>. QED  BY <1>7, <2>1, <2>2
<1>8. MaxInFlight \in Nat /\ MaxDaily \in Nat /\ MaxLifetime \in Nat /\ n \in Node
      BY GateAssumption
<1>9. /\ Of(n) \in SUBSET Execution /\ InFlight(n) \in SUBSET Execution
      /\ Accepted(n, d) \in SUBSET Execution
      BY DEF Of, InFlight, Accepted
<1>10. /\ Cardinality(InFlight(n)) < MaxInFlight /\ Cardinality(Accepted(n, d)) < MaxDaily
       /\ Cardinality(Of(n)) < MaxLifetime
       BY DEF Admits
<1>11. Cardinality(Of(n)') <= MaxLifetime
       BY <1>3, <1>7, <1>8, <1>9, <1>10
<1>12. Cardinality(InFlight(n)') <= MaxInFlight
       BY <1>4, <1>7, <1>8, <1>9, <1>10
<1>13. Cardinality(Accepted(n, d)') <= MaxDaily
       BY <1>5, <1>7, <1>8, <1>9, <1>10
<1>14. ASSUME NEW m \in Node, NEW day \in Int
       PROVE  /\ Cardinality(InFlight(m)') <= MaxInFlight
              /\ Cardinality(Accepted(m, day)') <= MaxDaily
              /\ Cardinality(Of(m)') <= MaxLifetime
  <2>1. /\ Cardinality(InFlight(m)) <= MaxInFlight
        /\ Cardinality(Accepted(m, day)) <= MaxDaily
        /\ Cardinality(Of(m)) <= MaxLifetime
        BY <1>8 DEF Quotas
  <2>2. CASE m # n
        BY <1>2, <2>1, <2>2
  <2>3. CASE m = n
        BY <1>6, <1>11, <1>12, <1>13, <2>1, <2>3
  <2>. QED  BY <2>2, <2>3
<1>15. 0 \in Int
       OBVIOUS
<1>. QED  BY <1>14, <1>15 DEF Quotas

LEMMA NextQuotas ==
    ASSUME Inv, Quotas, [Next]_vars
    PROVE  Quotas'
<1>1. TypeOK /\ Follows
      BY DEF Inv
<1>2. CASE gate' = gate
      BY <1>2, KeepQuotas
<1>3. ASSUME NEW e \in Execution, NEW g \in Gate, gate' = [gate EXCEPT ![e] = g],
             g.day = gate[e].day, gate[e].state # "none", g.state # "none",
             g.state = "reserved" => gate[e].state = "reserved"
      PROVE  Quotas'
  <2>1. gate'[e] = g /\ \A x \in Execution : x # e => gate'[x] = gate[x]
        BY <1>1, <1>3 DEF TypeOK
  <2>. QED  BY <1>3, <2>1, KeepQuotas
<1>4. ASSUME NEW w \in Worker, Allocate(w)
      PROVE  Quotas'
  <2> DEFINE e == worker[w].job
             t == worker[w].clock
  <2>1. e \in Execution /\ t \in Nat
        BY <1>1, <1>4 DEF Inv, Jobs, Allocate, TypeOK, Local
  <2>2. CASE /\ row[e].status = "none" /\ Admits(NodeOf[e], t)
             /\ gate' = [gate EXCEPT ![e] = NewGate(utc_day(t))]
    <3>1. gate[e].state = "none"
          BY <1>1, <2>1, <2>2 DEF Follows, GateState
    <3>. QED  BY <1>1, <2>1, <2>2, <3>1, AdmitQuotas
  <2>. QED  BY <1>2, <1>4, <2>2 DEF Allocate, Denied, Job
<1>5. ASSUME NEW w \in Worker, ReservePilotGas(w) \/ ClaimSubmission(w) \/ Rebroadcast(w)
      PROVE  Quotas'
  <2> DEFINE e == worker[w].job
  <2>1. e \in Execution
        BY <1>5 DEF Inv, Jobs, ReservePilotGas, ClaimSubmission, Rebroadcast
  <2>2. gate[e] \in Gate
        BY <1>1, <2>1 DEF TypeOK
  <2>3. \/ gate' = gate
        \/ gate[e].state = "reserved" /\ gate' = Charged(e, worker[w].cost, utc_day(worker[w].clock))
        \/ gate[e].state = "reserved" /\ gate' = Charged(e, GasDue(e), utc_day(worker[w].clock))
        BY <1>5 DEF ReservePilotGas, ClaimSubmission, Rebroadcast, Denied, Job
  <2>4. ASSUME NEW cost, NEW day, gate[e].state = "reserved",
               gate' = Charged(e, cost, day)
        PROVE  Quotas'
    <3>1. /\ gate'[e].state = gate[e].state /\ gate'[e].day = gate[e].day
          /\ \A x \in Execution : x # e => gate'[x] = gate[x]
          BY <1>1, <2>1, <2>2, <2>4 DEF TypeOK, Gate, Charged
    <3>. QED  BY <2>4, <3>1, KeepQuotas
  <2>. QED  BY <1>2, <2>3, <2>4
<1>6. ASSUME NEW e \in Execution, RowNext(e)
      PROVE  Quotas'
  <2>1. gate[e] \in Gate /\ gate[e].state = GateState(row[e].status)
        BY <1>1 DEF TypeOK, Follows
  <2>2. ASSUME NEW state \in {"settled", "released"}, NEW gas, NEW day, gate[e].state # "none",
               gate' = [gate EXCEPT ![e].state = state, ![e].gas = gas, ![e].gasDay = day]
        PROVE  Quotas'
    <3>1. /\ gate'[e].state = state /\ gate'[e].day = gate[e].day
          /\ \A x \in Execution : x # e => gate'[x] = gate[x]
          BY <1>1, <2>1, <2>2 DEF TypeOK, Gate
    <3>. QED  BY <2>2, <3>1, KeepQuotas
  <2>3. ASSUME NEW state \in {"settled", "released"}, NEW clear, gate[e].state # "none",
               MarkGateTerminal(e, state, clear)
        PROVE  Quotas'
        BY <1>2, <2>2, <2>3 DEF MarkGateTerminal
  <2>4. CASE ReleaseExpired(e) \/ Finalize(e) \/ Revert(e)
        BY <2>3, <2>4 DEF ReleaseExpired, Finalize, Revert, CanClose
  <2>5. CASE ReleaseReverted(e)
    <3>1. /\ gate'[e].state = "released" /\ gate'[e].day = gate[e].day
          /\ \A x \in Execution : x # e => gate'[x] = gate[x]
          BY <1>1, <2>1, <2>5 DEF TypeOK, Gate, ReleaseReverted
    <3>. QED  BY <2>5, <3>1, KeepQuotas DEF ReleaseReverted
  <2>. QED  BY <1>2, <1>6, <2>4, <2>5 DEF RowNext, MarkSubmission, Confirm, MarkReorgReview
<1>7. ASSUME NEW w \in Worker, WorkerNext(w)
      PROVE  Quotas'
      BY <1>2, <1>4, <1>5, <1>7
      DEF WorkerNext, Execute, BeginRebroadcast, ClaimSigning, Quote, ReadClock, PersistSigned,
          Abandon, Denied
<1>. QED  BY <1>2, <1>6, <1>7 DEF Next, SetPilotPause, Tick, vars

(* If the migration found no more than the quotas allow, no node ever has   *)
(* more executions in flight, accepted on one UTC day, or accepted at all,  *)
(* than its quotas say, for any number of racing requests                   *)
(* (_pilot_admission_denial within allocate_or_return).                     *)
THEOREM GateQuotas == LegacyFits => (Spec => []QuotasHold)
<1> SUFFICES ASSUME LegacyFits
             PROVE  Spec => []QuotasHold
    OBVIOUS
<1>1. Init => Inv /\ Quotas
      BY InitInv, InitQuotas
<1>2. Inv /\ Quotas /\ [Next]_vars => Inv' /\ Quotas'
      BY NextInv, NextQuotas
<1>3. Quotas => QuotasHold
      BY DEF Quotas, QuotasHold
<1>. QED  BY <1>1, <1>2, <1>3, PTL DEF Spec

-----------------------------------------------------------------------------
(* The gas budgets.  GasTotal over a table of reservations.                *)
Gas(g, S, day) == SumOver([e \in Execution |-> g[e].gas], {e \in S : g[e].gasDay = day})

LEMMA GasIs ==
    ASSUME NEW S, NEW day
    PROVE  GasTotal(S, day) = Gas(gate, S, day) /\ GasTotal(S, day)' = Gas(gate', S, day)
BY DEF GasTotal, Gas

(* What one reservation adds to a total. *)
Share(g, S, e, day) == IF e \in S /\ g[e].gasDay = day THEN g[e].gas ELSE 0

LEMMA GasWithout ==
    ASSUME NEW g \in [Execution -> Gate], NEW S \in SUBSET Execution, NEW e \in Execution, NEW day
    PROVE  /\ Gas(g, S, day) \in Nat
           /\ Gas(g, S, day) = Gas(g, S \ {e}, day) + Share(g, S, e, day)
<1> DEFINE f == [x \in Execution |-> g[x].gas]
           T == {x \in S : g[x].gasDay = day}
           U == {x \in S \ {e} : g[x].gasDay = day}
<1>1. IsFiniteSet(T)
      BY GateAssumption, FS_Subset
<1>2. \A x \in Execution : g[x] \in Gate /\ f[x] = g[x].gas
      OBVIOUS
<1>3. \A x \in T : f[x] \in Nat /\ f[x] \in Int
      BY <1>2 DEF Gate
<1>4. /\ e \in T <=> e \in S /\ g[e].gasDay = day
      /\ U = T \ {e}
      OBVIOUS
<1>5. Gas(g, S, day) = SumOver(f, T) /\ Gas(g, S \ {e}, day) = SumOver(f, U)
      BY DEF Gas
<1>. HIDE DEF f, T, U
<1>6. SumOver(f, T) \in Nat
      BY <1>1, <1>3, SumNat
<1>7. CASE e \in T
  <2>1. SumOver(f, T) = f[e] + SumOver(f, T \ {e})
        BY <1>1, <1>3, <1>7, SumWithout
  <2>2. IsFiniteSet(U) /\ (\A x \in U : f[x] \in Nat)
        BY <1>1, <1>3, <1>4, FS_Subset
  <2>3. SumOver(f, U) \in Nat
        BY <2>2, SumNat
  <2>4. f[e] \in Nat /\ f[e] = g[e].gas
        BY <1>2, <1>3, <1>7
  <2>. QED  BY <1>4, <1>5, <1>6, <1>7, <2>1, <2>3, <2>4 DEF Share
<1>8. CASE e \notin T
  <2>1. U = T
        BY <1>4, <1>8
  <2>. QED  BY <1>4, <1>5, <1>6, <1>8, <2>1 DEF Share
<1>. QED  BY <1>7, <1>8

LEMMA GasSame ==
    ASSUME NEW g \in [Execution -> Gate], NEW h \in [Execution -> Gate],
           NEW S \in SUBSET Execution, NEW day, \A e \in S : h[e] = g[e]
    PROVE  Gas(h, S, day) = Gas(g, S, day)
<1> DEFINE f == [x \in Execution |-> g[x].gas]
           k == [x \in Execution |-> h[x].gas]
           T == {x \in S : g[x].gasDay = day}
<1>1. IsFiniteSet(T)
      BY GateAssumption, FS_Subset
<1>2. T = {x \in S : h[x].gasDay = day}
      OBVIOUS
<1>3. \A x \in T : k[x] = f[x]
      OBVIOUS
<1>4. Gas(g, S, day) = SumOver(f, T) /\ Gas(h, S, day) = SumOver(k, T)
      BY <1>2 DEF Gas
<1>. HIDE DEF f, k, T
<1>. QED  BY <1>1, <1>3, <1>4, SumSame

(* A total within a limit stays there when one reservation is replaced by  *)
(* one that fits, that charges the day no more, or that charges another.   *)
LEMMA GasReplaced ==
    ASSUME NEW g \in [Execution -> Gate], NEW h \in [Execution -> Gate],
           NEW e \in Execution, \A x \in Execution : x # e => h[x] = g[x],
           NEW S \in SUBSET Execution, NEW day, NEW limit \in Nat,
           Gas(g, S, day) <= limit,
           e \in S /\ h[e].gasDay = day =>
              \/ g[e].gasDay = day /\ g[e].gas = h[e].gas
              \/ Gas(g, S \ {e}, day) + h[e].gas <= limit
    PROVE  Gas(h, S, day) <= limit
<1>1. S \ {e} \in SUBSET Execution /\ \A x \in S \ {e} : h[x] = g[x]
      OBVIOUS
<1>2. Gas(h, S \ {e}, day) = Gas(g, S \ {e}, day)
      BY <1>1, GasSame
<1>3. Gas(g, S, day) = Gas(g, S \ {e}, day) + Share(g, S, e, day)
      BY GasWithout
<1>5. Gas(h, S, day) = Gas(h, S \ {e}, day) + Share(h, S, e, day)
      BY <1>1, GasWithout
<1>4. Gas(g, S \ {e}, day) \in Nat /\ g[e].gas \in Nat /\ h[e].gas \in Nat
  <2>1. S \ {e} \in SUBSET Execution
        OBVIOUS
  <2>. QED  BY <2>1, GasWithout DEF Gate
<1>. QED  BY <1>1, <1>2, <1>3, <1>4, <1>5 DEF Share

(* No day is charged more than the budgets, days after MaxTime included. *)
Budgets == \A day \in Nat :
    /\ \A n \in Node : GasTotal(OnNode(n), day) <= NodeGas
    /\ GasTotal(Execution, day) <= PlatformGas

LEMMA ReplaceBudgets ==
    ASSUME TypeOK, TypeOK', Budgets, NEW e \in Execution,
           \A x \in Execution : x # e => gate'[x] = gate[x],
           \A day \in Nat : gate'[e].gasDay = day =>
              \/ gate[e].gasDay = day /\ gate[e].gas = gate'[e].gas
              \/ GasFits(e, gate'[e].gas, day)
    PROVE  Budgets'
<1>0. gate' \in [Execution -> Gate]
      BY DEF TypeOK
<1>1. /\ gate \in [Execution -> Gate] /\ NodeGas \in Nat /\ PlatformGas \in Nat
      /\ NodeOf[e] \in Node
      /\ \A n \in Node : OnNode(n) \in SUBSET Execution /\ (e \in OnNode(n) => n = NodeOf[e])
      BY GateAssumption DEF TypeOK, OnNode
<1>2. ASSUME NEW day \in Nat, NEW n \in Node
      PROVE  GasTotal(OnNode(n), day)' <= NodeGas
  <2>1. Gas(gate, OnNode(n), day) <= NodeGas
        BY GasIs DEF Budgets
  <2>2. e \in OnNode(n) /\ gate'[e].gasDay = day =>
              \/ gate[e].gasDay = day /\ gate[e].gas = gate'[e].gas
              \/ Gas(gate, OnNode(n) \ {e}, day) + gate'[e].gas <= NodeGas
        BY <1>1, GasIs DEF GasFits
  <2>3. Gas(gate', OnNode(n), day) <= NodeGas
        BY <1>0, <1>1, <2>1, <2>2, GasReplaced
  <2>4. GasTotal(OnNode(n), day)' = Gas(gate', OnNode(n), day)
        BY GasIs DEF OnNode
  <2>. QED  BY <2>3, <2>4
<1>3. ASSUME NEW day \in Nat
      PROVE  GasTotal(Execution, day)' <= PlatformGas
  <2>1. Gas(gate, Execution, day) <= PlatformGas
        BY GasIs DEF Budgets
  <2>2. gate'[e].gasDay = day =>
              \/ gate[e].gasDay = day /\ gate[e].gas = gate'[e].gas
              \/ Gas(gate, Execution \ {e}, day) + gate'[e].gas <= PlatformGas
        BY GasIs DEF GasFits
  <2>3. Gas(gate', Execution, day) <= PlatformGas
        BY <1>0, <1>1, <2>1, <2>2, GasReplaced
  <2>4. GasTotal(Execution, day)' = Gas(gate', Execution, day)
        BY GasIs
  <2>. QED  BY <2>3, <2>4
<1>. QED  BY <1>2, <1>3 DEF Budgets

LEMMA SameBudgets ==
    ASSUME Budgets, gate' = gate
    PROVE  Budgets'
<1>1. \A S, day : GasTotal(S, day)' = GasTotal(S, day)
      BY DEF GasTotal
<1>. QED  BY <1>1 DEF Budgets, OnNode

(* A reservation that is moved to a day it has not been charged to. *)
LEMMA ChargeBudgets ==
    ASSUME TypeOK, TypeOK', Budgets, NEW e \in Execution, NEW cost, NEW day,
           gate' = Charged(e, cost, day),
           \/ gate[e].gasDay = day /\ gate[e].gas = cost
           \/ GasFits(e, cost, day)
    PROVE  Budgets'
<1>1. gate[e] \in Gate /\ gate \in [Execution -> Gate]
      BY DEF TypeOK
<1>2. /\ gate'[e].gas = cost /\ gate'[e].gasDay = day
      /\ \A x \in Execution : x # e => gate'[x] = gate[x]
      BY <1>1 DEF Charged, Gate
<1>. QED  BY <1>2, ReplaceBudgets

(* A reservation whose charge stays, or which is no longer charged. *)
LEMMA CloseBudgets ==
    ASSUME TypeOK, TypeOK', Budgets, NEW e \in Execution,
           \A x \in Execution : x # e => gate'[x] = gate[x],
           \/ gate'[e].gas = gate[e].gas /\ gate'[e].gasDay = gate[e].gasDay
           \/ gate'[e].gasDay = NoDay
    PROVE  Budgets'
<1>1. \A day \in Nat : day # NoDay
      BY DEF NoDay
<1>. QED  BY <1>1, ReplaceBudgets

LEMMA NextBudgets ==
    ASSUME Inv, Inv', Budgets, [Next]_vars
    PROVE  Budgets'
<1>1. TypeOK /\ TypeOK' /\ gate \in [Execution -> Gate]
      BY DEF Inv, TypeOK
<1>2. ASSUME NEW w \in Worker, Allocate(w)
      PROVE  Budgets'
  <2> DEFINE e == worker[w].job
             t == worker[w].clock
  <2>1. e \in Execution
        BY <1>2 DEF Inv, Jobs, Allocate
  <2>2. NewGate(utc_day(t)).gasDay = NoDay
        BY DEF NewGate
  <2>3. gate' = gate \/ gate' = [gate EXCEPT ![e] = NewGate(utc_day(t))]
        BY <1>2 DEF Allocate, Denied, Job
  <2>. QED  BY <1>1, <2>1, <2>2, <2>3, SameBudgets, CloseBudgets
<1>3. ASSUME NEW w \in Worker, ReservePilotGas(w)
      PROVE  Budgets'
  <2> DEFINE e == worker[w].job
             day == utc_day(worker[w].clock)
  <2>1. e \in Execution
        BY <1>3 DEF Inv, Jobs, ReservePilotGas
  <2>2. \/ gate' = gate
        \/ gate' = Charged(e, worker[w].cost, day) /\ GasFits(e, worker[w].cost, day)
        BY <1>3 DEF ReservePilotGas, Denied, Job
  <2>. QED  BY <1>1, <2>1, <2>2, SameBudgets, ChargeBudgets
<1>4. ASSUME NEW w \in Worker, ClaimSubmission(w) \/ Rebroadcast(w)
      PROVE  Budgets'
  <2> DEFINE e == worker[w].job
             day == utc_day(worker[w].clock)
  <2>1. e \in Execution
        BY <1>4 DEF Inv, Jobs, ClaimSubmission, Rebroadcast
  <2>3. \/ gate' = gate
        \/ gate' = Charged(e, GasDue(e), day) /\ GasEnsured(e, day)
        BY <1>4 DEF ClaimSubmission, Rebroadcast, Denied, Job
  <2>4. GasEnsured(e, day) => \/ gate[e].gasDay = day /\ gate[e].gas = GasDue(e)
                              \/ GasFits(e, GasDue(e), day)
        BY DEF GasEnsured, GasDue
  <2>. QED  BY <1>1, <2>1, <2>3, <2>4, SameBudgets, ChargeBudgets
<1>5. ASSUME NEW e \in Execution, RowNext(e)
      PROVE  Budgets'
  <2>1. gate[e] \in Gate /\ gate \in [Execution -> Gate]
        BY <1>1 DEF TypeOK
  <2>2. ASSUME NEW state \in {"settled", "released"}, NEW clear \in BOOLEAN,
               MarkGateTerminal(e, state, clear)
        PROVE  Budgets'
    <3>1. CASE gate' = gate
          BY <3>1, SameBudgets
    <3>2. CASE gate' # gate
      <4>1. /\ \A x \in Execution : x # e => gate'[x] = gate[x]
            /\ \/ gate'[e].gas = gate[e].gas /\ gate'[e].gasDay = gate[e].gasDay
               \/ gate'[e].gasDay = NoDay
            BY <2>1, <2>2, <3>2 DEF MarkGateTerminal, Gate
      <4>. QED  BY <1>1, <4>1, CloseBudgets
    <3>. QED  BY <3>1, <3>2
  <2>3. CASE ReleaseExpired(e) \/ Finalize(e) \/ Revert(e)
        BY <2>2, <2>3 DEF ReleaseExpired, Finalize, Revert
  <2>4. CASE ReleaseReverted(e)
    <3>1. /\ \A x \in Execution : x # e => gate'[x] = gate[x]
          /\ gate'[e].gas = gate[e].gas /\ gate'[e].gasDay = gate[e].gasDay
          BY <2>1, <2>4 DEF ReleaseReverted, Gate
    <3>. QED  BY <1>1, <3>1, CloseBudgets
  <2>. QED  BY <1>5, <2>3, <2>4, SameBudgets DEF RowNext, MarkSubmission, Confirm, MarkReorgReview
<1>6. ASSUME NEW w \in Worker, WorkerNext(w)
      PROVE  Budgets'
      BY <1>2, <1>3, <1>4, <1>6, SameBudgets
      DEF WorkerNext, Execute, BeginRebroadcast, ClaimSigning, Quote, ReadClock, PersistSigned,
          Abandon, Denied
<1>. QED  BY <1>5, <1>6, SameBudgets DEF Next, SetPilotPause, Tick, vars

LEMMA InitBudgets ==
    ASSUME Init
    PROVE  Budgets
<1>1. \A e \in Execution : gate[e].gas = 0
      BY DEF Init, NewGate
<1>2. ASSUME NEW S \in SUBSET Execution, NEW day \in Nat
      PROVE  GasTotal(S, day) = 0
  <2>1. IsFiniteSet({e \in S : gate[e].gasDay = day})
        BY GateAssumption, FS_Subset
  <2>2. \A e \in {x \in S : gate[x].gasDay = day} : [x \in Execution |-> gate[x].gas][e] = 0
        BY <1>1
  <2>. QED  BY <2>1, <2>2, SumZero DEF GasTotal
<1>. QED  BY <1>2, GateAssumption DEF Budgets, OnNode

(* For any number of workers, claims, quotes and days: neither a node nor   *)
(* the platform is charged more gas on one UTC day than its budget,         *)
(* whichever clock the charging worker read and however often a charge is   *)
(* moved (_pilot_gas_total, _ensure_pilot_gas_reservation,                  *)
(* claim_submission, rebroadcast).                                          *)
THEOREM GateGas == Spec => []DailyGasBounded
<1>1. Init => Inv /\ Budgets
      BY InitInv, InitBudgets
<1>2. Inv /\ Budgets /\ [Next]_vars => Inv' /\ Budgets'
      BY NextInv, NextBudgets
<1>3. Budgets => DailyGasBounded
  <2>1. \A day \in 0..utc_day(MaxTime) : day \in Nat
        OBVIOUS
  <2>. QED  BY <2>1 DEF Budgets, DailyGasBounded
<1>. QED  BY <1>1, <1>2, <1>3, PTL DEF Spec

-----------------------------------------------------------------------------
(* What a bundle and the Facilitator's tables say of each other. *)

Has(c, state) == bundle[c] # NoBundle /\ bundle[c].state = state
Enrolled(c) == bundle[c] # NoBundle /\ bundle[c].state # "enrollment_pending"

At(n, k, epoch, status) == node[n] = [key |-> k, epoch |-> epoch, status |-> status]
Rotating(b, status) ==
    rotation[b.pending] = [node |-> b.node, epoch |-> b.epoch, status |-> status]

(* The fields of a bundle. *)
ShapeOf(b) ==
    /\ b.pending # NoKey <=> b.state = "rotation_pending"
    /\ b.pending # b.key
    /\ b.prepared => b.state = "rotation_pending"
    /\ b.epoch > 0 <=> b.state # "enrollment_pending"

Shape == \A c \in Client : bundle[c] # NoBundle => ShapeOf(bundle[c])

Unregistered(k) == \A x \in Node : node[x] # NoNode => node[x].key # k

(* The registration that goes with each state of a bundle. *)
NotYet(b) == Unregistered(b.key) \/ At(b.node, b.key, 1, "active")

Before(b) ==
    /\ At(b.node, b.key, b.epoch, "active")
    /\ Rotating(b, "prepared") \/ (rotation[b.pending] = NoRotation /\ ~b.prepared)
    /\ Unregistered(b.pending)

After(b) ==
    At(b.node, b.pending, b.epoch + 1, "active") /\ Rotating(b, "committed") /\ b.prepared

Ending(b) == At(b.node, b.key, b.epoch, "active") \/ At(b.node, b.key, b.epoch + 1, "revoked")

Registered == \A c \in Client :
    /\ Has(c, "enrollment_pending") => NotYet(bundle[c])
    /\ Has(c, "active") => At(bundle[c].node, bundle[c].key, bundle[c].epoch, "active")
    /\ Has(c, "rotation_pending") => Before(bundle[c]) \/ After(bundle[c])
    /\ Has(c, "revocation_pending") => Ending(bundle[c])

(* A key belongs to one client, and a node too. *)
Mine(c, k) == bundle[c] # NoBundle /\ (k = bundle[c].key \/ k = bundle[c].pending)

Apart ==
    /\ \A c, d \in Client : \A k \in Key : Mine(c, k) /\ Mine(d, k) => c = d
    /\ \A c, d \in Client :
          Enrolled(c) /\ Enrolled(d) /\ bundle[c].node = bundle[d].node => c = d
    /\ \A x, y \in Node :
          node[x] # NoNode /\ node[y] # NoNode /\ node[x].key = node[y].key => x = y

Made ==
    /\ \A c \in Client, k \in Key : Mine(c, k) => k <= made
    /\ \A k \in retired : k <= made
    /\ \A n \in Node : node[n] # NoNode => node[n].key <= made
    /\ \A k \in Key : rotation[k] # NoRotation => k <= made

Retired ==
    /\ \A c \in Client : bundle[c] # NoBundle => bundle[c].pending \notin retired
    /\ \A n \in Node : node[n] # NoNode =>
          (node[n].key \in retired <=> node[n].status = "revoked")

Owned == \A n \in Node : Active(n) =>
    \E c \in Client : Mine(c, node[n].key) /\ bundle[c].node = n

RotationsOwned == \A k \in Key : rotation[k] # NoRotation =>
    \/ /\ rotation[k].status = "committed"
       /\ node[rotation[k].node] # NoNode
       /\ node[rotation[k].node].epoch > rotation[k].epoch
    \/ \E c \in Client :
          Has(c, "rotation_pending") /\ bundle[c].pending = k /\ Rotating(bundle[c], "prepared")

Calls(b, m) == b.node = m.node /\ b.epoch = m.expected

Asked(m) ==
    /\ m.kind = "enroll" => node[m.node] # NoNode \/ \E c \in Client :
          Has(c, "enrollment_pending") /\ bundle[c].node = m.node /\ bundle[c].key = m.key
    /\ m.kind \in {"prepare", "commit"} =>
          \/ rotation[m.next] # NoRotation /\ rotation[m.next].status = "committed"
          \/ \E c \in Client :
                /\ Has(c, "rotation_pending")
                /\ Calls(bundle[c], m)
                /\ bundle[c].pending = m.next
                /\ m.kind = "commit" => bundle[c].prepared
    /\ m.kind = "revoke" =>
          \/ node[m.node] # NoNode /\ node[m.node].status = "revoked"
          \/ \E c \in Client :
                Has(c, "revocation_pending") /\ Calls(bundle[c], m) /\ bundle[c].key = m.key

Sent ==
    /\ \A l \in late : Asked(l.request)
    /\ \A c \in Client : awaited[c] # NoRequest =>
          /\ bundle[c] # NoBundle /\ bundle[c].state # "active"
          /\ awaited[c].request = Resumes(bundle[c])

DoneOf(b) ==
    /\ b.state = "enrollment_pending" => At(b.node, b.key, 1, "active")
    /\ b.state = "rotation_pending" => rotation[b.pending] # NoRotation
    /\ b.state = "rotation_pending" /\ b.prepared => Rotating(b, "committed")
    /\ b.state = "revocation_pending" => At(b.node, b.key, b.epoch + 1, "revoked")

Done == \A c \in Client :
    awaited[c] # NoRequest /\ awaited[c].stage = "accepted" => DoneOf(bundle[c])

ServerOK == Shape /\ Registered /\ Apart /\ Made /\ Retired /\ Owned /\ RotationsOwned

EInv == EnrollTypeOK /\ ServerOK /\ Sent /\ Done

ServerTypes ==
    /\ invited \subseteq Node
    /\ node \in [Node -> Registration \cup {NoNode}]
    /\ rotation \in [Key -> Rotation \cup {NoRotation}]
    /\ retired \subseteq Key

(* What a step of the Facilitator establishes. *)
Answers(m) ==
    /\ m.kind = "enroll" => At(m.node, m.key, 1, "active")
    /\ m.kind = "prepare" => rotation[m.next] # NoRotation
    /\ m.kind = "commit" =>
          rotation[m.next] = [node |-> m.node, epoch |-> m.expected, status |-> "committed"]
    /\ m.kind = "revoke" => At(m.node, m.key, m.expected + 1, "revoked")

Kept ==
    /\ \A m \in Request : Asked(m) => Asked(m)'
    /\ \A c \in Client : bundle[c] # NoBundle /\ DoneOf(bundle[c]) => DoneOf(bundle[c])'

LEMMA Unchanged ==
    ASSUME EInv, UNCHANGED <<serverVars, bundle, made>>
    PROVE  ServerTypes' /\ ServerOK' /\ Kept
<1>1. /\ invited' = invited /\ node' = node /\ rotation' = rotation /\ retired' = retired
      /\ bundle' = bundle /\ made' = made
      BY DEF serverVars
<1>2. ServerTypes'
      BY <1>1 DEF EInv, EnrollTypeOK, ServerTypes
<1>3. Shape' /\ Made' /\ Apart' /\ Retired'
      BY <1>1 DEF EInv, ServerOK, Shape, ShapeOf, Made, Apart, Retired, Mine, Enrolled
<1>4. Registered'
      BY <1>1 DEF EInv, ServerOK, Registered, Has, NotYet, Before, After, Ending, At, Rotating, Unregistered
<1>5. Owned' /\ RotationsOwned'
      BY <1>1 DEF EInv, ServerOK, Owned, RotationsOwned, Active, Mine, Has, Rotating
<1>6. Kept
      BY <1>1 DEF Kept, Asked, Calls, DoneOf, At, Rotating, Has
<1>. QED  BY <1>2, <1>3, <1>4, <1>5, <1>6 DEF ServerOK

LEMMA BundleTyped ==
    ASSUME EInv, NEW c \in Client, bundle[c] # NoBundle
    PROVE  /\ bundle[c] \in Bundle
           /\ bundle[c].node \in Node /\ bundle[c].epoch \in Nat /\ bundle[c].key \in Key
           /\ bundle[c].pending \in Key \cup {NoKey} /\ bundle[c].prepared \in BOOLEAN
           /\ bundle[c].state \in
                {"enrollment_pending", "active", "rotation_pending", "revocation_pending"}
           /\ bundle[c].state = "rotation_pending" => bundle[c].pending \in Key
BY DEF EInv, ServerOK, EnrollTypeOK, Bundle, Shape, ShapeOf

LEMMA RegistrationIs ==
    ASSUME NEW k \in Key, NEW epoch \in Nat, NEW status \in {"active", "revoked"}
    PROVE  /\ [key |-> k, epoch |-> epoch, status |-> status] \in Registration
           /\ [key |-> k, epoch |-> epoch, status |-> status] # NoNode
BY AbsentAssumption DEF Registration

LEMMA RotationIs ==
    ASSUME NEW n \in Node, NEW epoch \in Nat, NEW status \in {"prepared", "committed"}
    PROVE  /\ [node |-> n, epoch |-> epoch, status |-> status] \in Rotation
           /\ [node |-> n, epoch |-> epoch, status |-> status] # NoRotation
BY AbsentAssumption DEF Rotation

(* The node of an enrolled client is registered, with a key of its own. *)
LEMMA EnrolledRegistered ==
    ASSUME EInv, NEW c \in Client, Enrolled(c)
    PROVE  /\ node[bundle[c].node] # NoNode
           /\ Mine(c, node[bundle[c].node].key)
           /\ node[bundle[c].node].epoch >= bundle[c].epoch
<1>1. bundle[c] # NoBundle /\ bundle[c].state # "enrollment_pending"
      BY DEF Enrolled
<1>2. /\ bundle[c].node \in Node /\ bundle[c].key \in Key
      /\ bundle[c].epoch \in Nat /\ bundle[c].epoch + 1 \in Nat
      /\ bundle[c].state = "rotation_pending" => bundle[c].pending \in Key
      BY <1>1, BundleTyped
<1>3. ASSUME NEW k \in Key, NEW epoch \in Nat, NEW status \in {"active", "revoked"},
             At(bundle[c].node, k, epoch, status), k = bundle[c].key \/ k = bundle[c].pending,
             epoch >= bundle[c].epoch
      PROVE  /\ node[bundle[c].node] # NoNode
             /\ Mine(c, node[bundle[c].node].key)
             /\ node[bundle[c].node].epoch >= bundle[c].epoch
  <2>1. node[bundle[c].node] = [key |-> k, epoch |-> epoch, status |-> status]
        BY <1>3 DEF At
  <2>2. node[bundle[c].node] # NoNode
        BY <2>1, RegistrationIs
  <2>. QED  BY <1>1, <1>3, <2>1, <2>2 DEF Mine
<1>4. CASE bundle[c].state = "active"
      BY <1>1, <1>2, <1>3, <1>4 DEF EInv, ServerOK, Registered, Has
<1>5. CASE bundle[c].state = "rotation_pending"
  <2>1. \/ At(bundle[c].node, bundle[c].key, bundle[c].epoch, "active")
        \/ At(bundle[c].node, bundle[c].pending, bundle[c].epoch + 1, "active")
        BY <1>1, <1>5 DEF EInv, ServerOK, Registered, Has, Before, After
  <2>. QED  BY <1>2, <1>3, <1>5, <2>1
<1>6. CASE bundle[c].state = "revocation_pending"
  <2>1. \/ At(bundle[c].node, bundle[c].key, bundle[c].epoch, "active")
        \/ At(bundle[c].node, bundle[c].key, bundle[c].epoch + 1, "revoked")
        BY <1>1, <1>6 DEF EInv, ServerOK, Registered, Has, Ending
  <2>. QED  BY <1>2, <1>3, <2>1
<1>. QED  BY <1>1, <1>4, <1>5, <1>6, BundleTyped

LEMMA EnrollStep ==
    ASSUME EInv, NEW m \in Request, Asked(m), Accepts(m), EnrollNode(m), UNCHANGED <<bundle, made>>
    PROVE  ServerTypes' /\ ServerOK' /\ Kept /\ Answers(m)'
<1>0. m.kind = "enroll" /\ m.node \in Node /\ m.key \in Key /\ m.next \in Key /\ m.expected \in Nat
      BY DEF EnrollNode, Request
<1>1. AcceptsEnroll(m)
      BY <1>0 DEF Accepts
<1>2. node \in [Node -> Registration \cup {NoNode}]
      BY DEF EInv, EnrollTypeOK
<1>3. /\ rotation' = rotation /\ retired' = retired /\ invited' = invited
      /\ node' = [node EXCEPT ![m.node] = [key |-> m.key, epoch |-> 1, status |-> "active"]]
      /\ bundle' = bundle /\ made' = made
      BY DEF EnrollNode, Registers
<1>4. CASE node[m.node] # NoNode
  <2>1. node[m.node] = [key |-> m.key, epoch |-> 1, status |-> "active"]
        BY <1>0, <1>1, <1>2, <1>4 DEF AcceptsEnroll, Holds, Active, Registration
  <2>2. node' = node
        BY <1>2, <1>3, <2>1
  <2>. QED  BY <1>0, <1>3, <2>1, <2>2, Unchanged DEF serverVars, Answers, At
<1>5. CASE node[m.node] = NoNode
  <2>0. m.key \notin retired
        BY <1>1, <1>5 DEF AcceptsEnroll, Holds, Active
  <2>1. PICK c \in Client :
          Has(c, "enrollment_pending") /\ bundle[c].node = m.node /\ bundle[c].key = m.key
        BY <1>0, <1>5 DEF Asked
  <2>2. /\ node'[m.node] = [key |-> m.key, epoch |-> 1, status |-> "active"]
        /\ node'[m.node] # NoNode
        /\ \A x \in Node : x # m.node => node'[x] = node[x]
        BY <1>0, <1>2, <1>3, AbsentAssumption DEF Registration
  <2>3. Unregistered(m.key)
    <3>1. NotYet(bundle[c])
          BY <2>1 DEF EInv, ServerOK, Registered
    <3>. QED  BY <1>0, <1>5, <2>1, <3>1, RegistrationIs DEF NotYet, At
  <2>4. \A d \in Client : Mine(d, m.key) => d = c
        BY <1>0, <2>1 DEF EInv, ServerOK, Apart, Mine, Has
  <2>5. \A d \in Client : Enrolled(d) => bundle[d].node # m.node
        BY <1>5, EnrolledRegistered
  <2>6. ServerTypes'
        BY <1>0, <1>2, <1>3 DEF EInv, EnrollTypeOK, ServerTypes, Registration
  <2>7. Shape'
        BY <1>3 DEF EInv, ServerOK, Shape, ShapeOf
  <2>8. Registered'
    <3> SUFFICES ASSUME NEW d \in Client, bundle[d] # NoBundle
                 PROVE  /\ Has(d, "enrollment_pending") => NotYet(bundle[d])'
                        /\ Has(d, "active") => At(bundle[d].node, bundle[d].key, bundle[d].epoch, "active")'
                        /\ Has(d, "rotation_pending") => Before(bundle[d])' \/ After(bundle[d])'
                        /\ Has(d, "revocation_pending") => Ending(bundle[d])'
        BY <1>3 DEF Registered, Has
    <3>1. bundle[d].node \in Node /\ bundle[d].key \in Key
          BY BundleTyped
    <3>2. CASE Enrolled(d)
      <4>1. node'[bundle[d].node] = node[bundle[d].node]
            BY <2>2, <2>5, <3>1, <3>2
      <4>2. Unregistered(bundle[d].pending) => Unregistered(bundle[d].pending)'
            BY <1>0, <1>3, <2>1, <2>2, <2>4, <3>2 DEF Unregistered, Mine, Enrolled, Has
      <4>. QED  BY <1>3, <3>2, <4>1, <4>2
                DEF EInv, ServerOK, Registered, Before, After, Ending, At, Rotating, Enrolled, Has
    <3>3. CASE ~Enrolled(d)
      <4>1. Has(d, "enrollment_pending") /\ NotYet(bundle[d])
            BY <3>3 DEF EInv, ServerOK, Registered, Enrolled, Has
      <4>2. CASE d = c
            BY <1>3, <2>1, <2>2, <3>3, <4>1, <4>2 DEF NotYet, At, Enrolled, Has
      <4>3. CASE d # c
        <5>1. bundle[d].key # m.key
              BY <1>0, <2>4, <4>3 DEF Mine
        <5>2. Unregistered(bundle[d].key) => Unregistered(bundle[d].key)'
              BY <1>3, <2>2, <5>1 DEF Unregistered
        <5>3. At(bundle[d].node, bundle[d].key, 1, "active") =>
                At(bundle[d].node, bundle[d].key, 1, "active")'
              BY <1>3, <1>5, <2>2, <3>1, RegistrationIs DEF At
        <5>. QED  BY <3>3, <4>1, <5>2, <5>3 DEF NotYet, Enrolled, Has
      <4>. QED  BY <4>2, <4>3
    <3>. QED  BY <3>2, <3>3
  <2>9. Apart'
        BY <1>0, <1>3, <2>2, <2>3 DEF EInv, ServerOK, Apart, Mine, Enrolled, Unregistered
  <2>10. Made'
        BY <1>0, <1>3, <2>1, <2>2 DEF EInv, ServerOK, Made, Mine, Has
  <2>11. Retired'
        BY <1>0, <1>3, <2>0, <2>2 DEF EInv, ServerOK, Retired
  <2>12. Owned'
        BY <1>0, <1>3, <2>1, <2>2 DEF EInv, ServerOK, Owned, Mine, Has, Active
  <2>13. RotationsOwned'
    <3>1. \A k \in Key : rotation[k] # NoRotation => rotation[k].node \in Node
          BY DEF EInv, EnrollTypeOK, Rotation
    <3>. QED  BY <1>3, <1>5, <2>2, <3>1 DEF EInv, ServerOK, RotationsOwned, Has, Rotating
  <2>14. Kept
    <3>1. ASSUME NEW q \in Request, Asked(q)
          PROVE  Asked(q)'
          BY <1>3, <1>5, <2>2, <3>1 DEF Asked, Has, Calls, Request
    <3>2. ASSUME NEW d \in Client, bundle[d] # NoBundle, DoneOf(bundle[d])
          PROVE  DoneOf(bundle[d])'
      <4>1. bundle[d].node \in Node /\ bundle[d].key \in Key /\ bundle[d].epoch + 1 \in Nat
            BY <3>2, BundleTyped
      <4>2. \A epoch \in Nat, status \in {"active", "revoked"} :
              At(bundle[d].node, bundle[d].key, epoch, status) =>
                At(bundle[d].node, bundle[d].key, epoch, status)'
            BY <1>3, <1>5, <2>2, <4>1, RegistrationIs DEF At
      <4>. QED  BY <1>3, <3>2, <4>1, <4>2 DEF DoneOf, Rotating
    <3>. QED  BY <3>1, <3>2 DEF Kept
  <2>. QED  BY <1>0, <2>2, <2>6, <2>7, <2>8, <2>9, <2>10, <2>11, <2>12, <2>13, <2>14
            DEF ServerOK, Answers, At
<1>. QED  BY <1>4, <1>5

LEMMA PrepareStep ==
    ASSUME EInv, NEW m \in Request, Asked(m), Accepts(m), PrepareRotation(m),
           UNCHANGED <<bundle, made>>
    PROVE  ServerTypes' /\ ServerOK' /\ Kept /\ Answers(m)'
<1> DEFINE R == [node |-> m.node, epoch |-> m.expected, status |-> "prepared"]
<1>0. m.kind = "prepare" /\ m.node \in Node /\ m.next \in Key /\ m.expected \in Nat
      BY DEF PrepareRotation, Request
<1>1. AcceptsPrepare(m)
      BY <1>0 DEF Accepts
<1>2. rotation \in [Key -> Rotation \cup {NoRotation}]
      BY DEF EInv, EnrollTypeOK
<1>3. /\ node' = node /\ retired' = retired /\ invited' = invited
      /\ rotation' = [rotation EXCEPT ![m.next] = R]
      /\ bundle' = bundle /\ made' = made
      BY DEF PrepareRotation
<1>4. R \in Rotation /\ R # NoRotation
      BY <1>0, RotationIs
<1>5. CASE rotation[m.next] # NoRotation
  <2>1. rotation[m.next] = R
        BY <1>1, <1>5 DEF AcceptsPrepare
  <2>2. rotation' = rotation
        BY <1>2, <1>3, <2>1
  <2>. QED  BY <1>0, <1>3, <1>5, <2>2, Unchanged DEF serverVars, Answers
<1>6. CASE rotation[m.next] = NoRotation
  <2>1. PICK c \in Client : /\ Has(c, "rotation_pending")
                            /\ Calls(bundle[c], m)
                            /\ bundle[c].pending = m.next
        BY <1>0, <1>6 DEF Asked
  <2>2. rotation'[m.next] = R /\ \A k \in Key : k # m.next => rotation'[k] = rotation[k]
        BY <1>0, <1>2, <1>3
  <2>3. \A d \in Client : Mine(d, m.next) => d = c
        BY <1>0, <2>1 DEF EInv, ServerOK, Apart, Mine, Has
  <2>4. ServerTypes'
        BY <1>2, <1>3, <1>4 DEF EInv, EnrollTypeOK, ServerTypes
  <2>5. Shape' /\ Apart' /\ Retired' /\ Owned'
        BY <1>3 DEF EInv, ServerOK, Shape, ShapeOf, Apart, Retired, Owned, Mine, Enrolled, Active
  <2>6. Made'
        BY <1>0, <1>3, <2>1, <2>2 DEF EInv, ServerOK, Made, Mine, Has
  <2>7. Registered'
    <3>1. ASSUME NEW d \in Client, Has(d, "rotation_pending")
          PROVE  Before(bundle[d])' \/ After(bundle[d])'
      <4>1. Before(bundle[d]) \/ After(bundle[d])
            BY <3>1 DEF EInv, ServerOK, Registered
      <4>2. bundle[d].pending \in Key
            BY <3>1, BundleTyped DEF Has
      <4>3. CASE d = c
            BY <1>3, <1>4, <1>6, <2>1, <2>2, <4>1, <4>3, RotationIs, BundleTyped
            DEF Before, After, Rotating, At, Unregistered, Calls, Has
      <4>4. CASE d # c
        <5>1. bundle[d].pending # m.next
              BY <2>3, <3>1, <4>4 DEF Mine, Has
        <5>. QED  BY <1>3, <2>2, <4>1, <4>2, <5>1 DEF Before, After, Rotating, At, Unregistered
      <4>. QED  BY <4>3, <4>4
    <3>. QED  BY <1>3, <3>1 DEF EInv, ServerOK, Registered, NotYet, Ending, At, Unregistered, Has
  <2>8. RotationsOwned'
    <3>1. ASSUME NEW k \in Key, k # m.next, rotation[k] # NoRotation
          PROVE  \/ /\ rotation[k].status = "committed"
                    /\ node[rotation[k].node] # NoNode
                    /\ node[rotation[k].node].epoch > rotation[k].epoch
                 \/ \E d \in Client : /\ Has(d, "rotation_pending") /\ bundle[d].pending = k
                                      /\ Rotating(bundle[d], "prepared")'
          BY <1>3, <2>2, <3>1 DEF EInv, ServerOK, RotationsOwned, Rotating
    <3>2. Has(c, "rotation_pending") /\ bundle[c].pending = m.next /\ Rotating(bundle[c], "prepared")'
          BY <1>3, <2>1, <2>2 DEF Rotating, Calls
    <3>. QED  BY <1>3, <2>2, <3>1, <3>2 DEF RotationsOwned, Has
  <2>9. Kept
    <3>1. ASSUME NEW q \in Request, Asked(q)
          PROVE  Asked(q)'
          BY <1>3, <1>6, <2>2, <3>1 DEF Asked, Has, Calls, Request
    <3>2. ASSUME NEW d \in Client, bundle[d] # NoBundle, DoneOf(bundle[d])
          PROVE  DoneOf(bundle[d])'
      <4>1. CASE bundle[d].state = "rotation_pending"
            BY <1>3, <1>6, <2>2, <3>2, <4>1, BundleTyped DEF DoneOf, Rotating
      <4>2. CASE bundle[d].state # "rotation_pending"
            BY <1>3, <3>2, <4>2 DEF DoneOf, At
      <4>. QED  BY <4>1, <4>2
    <3>. QED  BY <3>1, <3>2 DEF Kept
  <2>. QED  BY <1>0, <1>4, <2>2, <2>4, <2>5, <2>6, <2>7, <2>8, <2>9 DEF ServerOK, Answers
<1>. QED  BY <1>5, <1>6

LEMMA RevokeStep ==
    ASSUME EInv, NEW m \in Request, Asked(m), Accepts(m), RevokeNode(m), UNCHANGED <<bundle, made>>
    PROVE  ServerTypes' /\ ServerOK' /\ Kept /\ Answers(m)'
<1> DEFINE R == [key |-> m.key, epoch |-> m.expected + 1, status |-> "revoked"]
<1>0. m.kind = "revoke" /\ m.node \in Node /\ m.key \in Key /\ m.expected \in Nat
      BY DEF RevokeNode, Request
<1>1. AcceptsRevoke(m)
      BY <1>0 DEF Accepts
<1>2. node \in [Node -> Registration \cup {NoNode}]
      BY DEF EInv, EnrollTypeOK
<1>3. /\ rotation' = rotation /\ retired' = retired \cup {m.key} /\ invited' = invited
      /\ node' = [node EXCEPT ![m.node] = R]
      /\ bundle' = bundle /\ made' = made
      BY DEF RevokeNode, Registers
<1>4. R \in Registration /\ R # NoNode
      BY <1>0, AbsentAssumption DEF Registration
<1>5. CASE RevokedBy(m)
  <2>1. node[m.node] = R
        BY <1>5 DEF RevokedBy
  <2>2. m.key \in retired
        BY <1>0, <1>4, <2>1 DEF EInv, ServerOK, Retired
  <2>3. node' = node /\ retired' = retired
        BY <1>2, <1>3, <2>1, <2>2
  <2>. QED  BY <1>0, <1>3, <2>1, <2>3, Unchanged DEF serverVars, Answers, At
<1>6. CASE ~RevokedBy(m)
  <2>0. /\ node[m.node] # NoNode
        /\ node[m.node] = [key |-> m.key, epoch |-> m.expected, status |-> "active"]
        BY <1>0, <1>1, <1>2, <1>6 DEF AcceptsRevoke, Holds, Active, Registration
  <2>1. PICK c \in Client :
          Has(c, "revocation_pending") /\ Calls(bundle[c], m) /\ bundle[c].key = m.key
        BY <1>0, <2>0 DEF Asked
  <2>2. node'[m.node] = R /\ \A x \in Node : x # m.node => node'[x] = node[x]
        BY <1>0, <1>2, <1>3
  <2>3. \A d \in Client : Mine(d, m.key) => d = c
        BY <1>0, <2>1 DEF EInv, ServerOK, Apart, Mine, Has
  <2>4. \A d \in Client : Enrolled(d) /\ bundle[d].node = m.node => d = c
        BY <2>1 DEF EInv, ServerOK, Apart, Enrolled, Has, Calls
  <2>5. bundle[c] # NoBundle /\ bundle[c].pending = NoKey /\ NoKey \notin Key
        BY <2>1, EnrollmentAssumption DEF EInv, ServerOK, Shape, ShapeOf, Has
  <2>6. ServerTypes'
        BY <1>0, <1>2, <1>3, <1>4 DEF EInv, EnrollTypeOK, ServerTypes
  <2>7. Shape'
        BY <1>3 DEF EInv, ServerOK, Shape, ShapeOf
  <2>8. Registered'
    <3> SUFFICES ASSUME NEW d \in Client, bundle[d] # NoBundle
                 PROVE  /\ Has(d, "enrollment_pending") => NotYet(bundle[d])'
                        /\ Has(d, "active") => At(bundle[d].node, bundle[d].key, bundle[d].epoch, "active")'
                        /\ Has(d, "rotation_pending") => Before(bundle[d])' \/ After(bundle[d])'
                        /\ Has(d, "revocation_pending") => Ending(bundle[d])'
        BY <1>3 DEF Registered, Has
    <3>1. bundle[d].node \in Node /\ bundle[d].key \in Key
          BY BundleTyped
    <3>2. \A k : Unregistered(k) => Unregistered(k)'
          BY <1>0, <2>0, <2>2 DEF Unregistered
    <3>3. CASE d = c
          BY <1>3, <2>1, <2>2, <3>3 DEF Ending, At, Has, Calls
    <3>4. CASE d # c /\ Enrolled(d)
      <4>1. node'[bundle[d].node] = node[bundle[d].node]
            BY <2>2, <2>4, <3>1, <3>4
      <4>. QED  BY <1>3, <3>2, <3>4, <4>1
                DEF EInv, ServerOK, Registered, Before, After, Ending, At, Rotating, Enrolled, Has
    <3>5. CASE d # c /\ ~Enrolled(d)
      <4>1. Has(d, "enrollment_pending") /\ NotYet(bundle[d])
            BY <3>5 DEF EInv, ServerOK, Registered, Enrolled, Has
      <4>2. bundle[d].key # m.key
            BY <2>3, <3>5 DEF Mine
      <4>3. At(bundle[d].node, bundle[d].key, 1, "active") =>
              At(bundle[d].node, bundle[d].key, 1, "active")'
            BY <1>3, <2>0, <2>2, <3>1, <4>2 DEF At
      <4>. QED  BY <1>3, <3>2, <4>1, <4>3 DEF NotYet, Has
    <3>. QED  BY <3>3, <3>4, <3>5
  <2>9. Apart'
        BY <1>0, <1>3, <2>0, <2>2 DEF EInv, ServerOK, Apart, Mine, Enrolled
  <2>10. Made'
        BY <1>0, <1>3, <2>0, <2>1, <2>2 DEF EInv, ServerOK, Made, Mine, Has
  <2>11. Retired'
    <3>1. \A d \in Client : bundle[d] # NoBundle => bundle[d].pending \notin retired'
          BY <1>0, <1>3, <2>3, <2>5 DEF EInv, ServerOK, Retired, Mine
    <3>2. ASSUME NEW x \in Node, node'[x] # NoNode
          PROVE  node'[x].key \in retired' <=> node'[x].status = "revoked"
      <4>1. CASE x = m.node
            BY <1>3, <2>2, <4>1
      <4>2. CASE x # m.node
        <5>1. node'[x] = node[x] /\ node[x].key # m.key
              BY <1>0, <2>0, <2>2, <3>2, <4>2 DEF EInv, ServerOK, Apart
        <5>. QED  BY <1>3, <3>2, <5>1 DEF EInv, ServerOK, Retired
      <4>. QED  BY <4>1, <4>2
    <3>. QED  BY <1>3, <3>1, <3>2 DEF Retired
  <2>12. Owned'
        BY <1>0, <1>3, <2>2 DEF EInv, ServerOK, Owned, Mine, Active
  <2>13. RotationsOwned'
    <3>1. \A x \in Node : node[x] # NoNode => node'[x] # NoNode /\ node'[x].epoch >= node[x].epoch
          BY <1>0, <1>2, <1>4, <2>0, <2>2 DEF Registration
    <3>2. \A k \in Key : rotation[k] # NoRotation => rotation[k].node \in Node /\ rotation[k].epoch \in Nat
          BY DEF EInv, EnrollTypeOK, Rotation
    <3>3. \A x \in Node : node[x] # NoNode => node[x].epoch \in Nat /\ node'[x].epoch \in Nat
          BY <1>0, <1>2, <2>2 DEF Registration
    <3>. QED  BY <1>3, <3>1, <3>2, <3>3 DEF EInv, ServerOK, RotationsOwned, Has, Rotating
  <2>14. Kept
    <3>1. ASSUME NEW q \in Request, Asked(q)
          PROVE  Asked(q)'
          BY <1>0, <1>3, <1>4, <2>0, <2>2, <3>1 DEF Asked, Has, Calls, Request
    <3>2. ASSUME NEW d \in Client, bundle[d] # NoBundle, DoneOf(bundle[d])
          PROVE  DoneOf(bundle[d])'
      <4>1. bundle[d].node \in Node
            BY <3>2, BundleTyped
      <4>2. bundle[d].state = "enrollment_pending" => At(bundle[d].node, bundle[d].key, 1, "active")'
            BY <1>3, <2>0, <2>1, <2>2, <2>3, <3>2, <4>1 DEF DoneOf, At, Mine, Has
      <4>3. bundle[d].state = "revocation_pending" =>
              At(bundle[d].node, bundle[d].key, bundle[d].epoch + 1, "revoked")'
            BY <1>3, <2>1, <2>2, <2>4, <3>2, <4>1 DEF DoneOf, At, Enrolled, Has, Calls
      <4>. QED  BY <1>3, <3>2, <4>2, <4>3 DEF DoneOf, Rotating
    <3>. QED  BY <3>1, <3>2 DEF Kept
  <2>. QED  BY <1>0, <2>2, <2>6, <2>7, <2>8, <2>9, <2>10, <2>11, <2>12, <2>13, <2>14
            DEF ServerOK, Answers, At
<1>. QED  BY <1>5, <1>6

LEMMA CommitStep ==
    ASSUME EInv, NEW m \in Request, Asked(m), Accepts(m), CommitRotation(m),
           UNCHANGED <<bundle, made>>
    PROVE  ServerTypes' /\ ServerOK' /\ Kept /\ Answers(m)'
<1> DEFINE R == [key |-> m.next, epoch |-> m.expected + 1, status |-> "active"]
<1> DEFINE T == [node |-> m.node, epoch |-> m.expected, status |-> "committed"]
<1>0. m.kind = "commit" /\ m.node \in Node /\ m.next \in Key /\ m.expected \in Nat
      BY DEF CommitRotation, Request
<1>1. AcceptsCommit(m)
      BY <1>0 DEF Accepts
<1>2. /\ node \in [Node -> Registration \cup {NoNode}]
      /\ rotation \in [Key -> Rotation \cup {NoRotation}]
      BY DEF EInv, EnrollTypeOK
<1>3. /\ retired' = IF IsCommitted(m) THEN retired ELSE retired \cup {node[m.node].key}
      /\ rotation' = [rotation EXCEPT ![m.next].status = "committed"]
      /\ node' = [node EXCEPT ![m.node] = R]
      /\ invited' = invited /\ bundle' = bundle /\ made' = made
      BY DEF CommitRotation, Registers
<1>4. R \in Registration /\ R # NoNode /\ T \in Rotation /\ T # NoRotation
      BY <1>0, AbsentAssumption DEF Registration, Rotation
<1>5. /\ rotation[m.next] \in Rotation
      /\ rotation[m.next].node = m.node /\ rotation[m.next].epoch = m.expected
      BY <1>0, <1>1, <1>2 DEF AcceptsCommit
<1>6. rotation'[m.next] = T /\ \A k \in Key : k # m.next => rotation'[k] = rotation[k]
      BY <1>0, <1>2, <1>3, <1>5 DEF Rotation
<1>7. CASE IsCommitted(m)
  <2>1. node[m.node] = R
        BY <1>0, <1>2, <1>7 DEF IsCommitted, Holds, Active, Registration
  <2>2. rotation[m.next] = T
        BY <1>5, <1>7 DEF IsCommitted, Rotation
  <2>3. rotation' \in [Key -> Rotation \cup {NoRotation}]
        BY <1>0, <1>2, <1>3, <1>4, <1>6
  <2>4. node' = node /\ rotation' = rotation /\ retired' = retired
        BY <1>2, <1>3, <1>6, <1>7, <2>1, <2>2, <2>3
  <2>. QED  BY <1>0, <1>3, <2>2, <2>4, Unchanged DEF serverVars, Answers
<1>8. CASE ~IsCommitted(m)
  <2>0. /\ CanCommit(m) /\ rotation[m.next].status = "prepared" /\ rotation[m.next] # NoRotation
        /\ node[m.node] # NoNode /\ m.next \notin retired /\ Unregistered(m.next)
        BY <1>1, <1>8 DEF AcceptsCommit, CanCommit, Active, Unregistered
  <2>1. PICK c \in Client : /\ Has(c, "rotation_pending") /\ Calls(bundle[c], m)
                            /\ bundle[c].pending = m.next /\ bundle[c].prepared
        BY <1>0, <2>0 DEF Asked
  <2>2. At(m.node, bundle[c].key, m.expected, "active") /\ bundle[c].key \in Key
    <3>1. bundle[c].key \in Key /\ bundle[c] # NoBundle
          BY <2>1, BundleTyped DEF Has
    <3>2. Before(bundle[c]) \/ After(bundle[c])
          BY <2>1 DEF EInv, ServerOK, Registered
    <3>3. ~After(bundle[c])
          BY <2>0, <2>1 DEF After, Rotating
    <3>. QED  BY <2>1, <3>1, <3>2, <3>3 DEF Before, Calls
  <2>3. node'[m.node] = R /\ \A x \in Node : x # m.node => node'[x] = node[x]
        BY <1>0, <1>2, <1>3
  <2>4. node[m.node].key = bundle[c].key /\ retired' = retired \cup {bundle[c].key}
        BY <1>3, <1>8, <2>2 DEF At
  <2>5. \A d \in Client : Mine(d, m.next) \/ Mine(d, bundle[c].key) => d = c
        BY <1>0, <2>1, <2>2 DEF EInv, ServerOK, Apart, Mine, Has
  <2>6. \A d \in Client : Enrolled(d) /\ bundle[d].node = m.node => d = c
        BY <2>1 DEF EInv, ServerOK, Apart, Enrolled, Has, Calls
  <2>7. bundle[c] # NoBundle /\ bundle[c].key # m.next
        BY <2>1 DEF EInv, ServerOK, Shape, ShapeOf, Has
  <2>8. ServerTypes'
    <3>1. rotation' \in [Key -> Rotation \cup {NoRotation}]
          BY <1>0, <1>2, <1>3, <1>4, <1>6
    <3>. QED  BY <1>0, <1>2, <1>3, <1>4, <2>2, <2>4, <3>1 DEF EInv, EnrollTypeOK, ServerTypes
  <2>9. Shape'
        BY <1>3 DEF EInv, ServerOK, Shape, ShapeOf
  <2>10. Registered'
    <3> SUFFICES ASSUME NEW d \in Client, bundle[d] # NoBundle
                 PROVE  /\ Has(d, "enrollment_pending") => NotYet(bundle[d])'
                        /\ Has(d, "active") => At(bundle[d].node, bundle[d].key, bundle[d].epoch, "active")'
                        /\ Has(d, "rotation_pending") => Before(bundle[d])' \/ After(bundle[d])'
                        /\ Has(d, "revocation_pending") => Ending(bundle[d])'
        BY <1>3 DEF Registered, Has
    <3>1. bundle[d].node \in Node /\ bundle[d].key \in Key
          BY BundleTyped
    <3>2. \A k : k # m.next /\ Unregistered(k) => Unregistered(k)'
          BY <1>0, <2>0, <2>3 DEF Unregistered
    <3>3. CASE d = c
      <4>1. After(bundle[d])'
            BY <1>3, <1>6, <2>1, <2>3, <3>3 DEF After, At, Rotating, Calls
      <4>. QED  BY <2>1, <3>3, <4>1 DEF Has
    <3>4. CASE d # c /\ Enrolled(d)
      <4>1. node'[bundle[d].node] = node[bundle[d].node]
            BY <2>3, <2>6, <3>1, <3>4
      <4>2. bundle[d].pending # m.next
            BY <2>5, <3>4 DEF Mine
      <4>3. bundle[d].pending \in Key => rotation'[bundle[d].pending] = rotation[bundle[d].pending]
            BY <1>6, <4>2
      <4>. QED  BY <1>3, <3>2, <3>4, <4>1, <4>2, <4>3, BundleTyped
                DEF EInv, ServerOK, Registered, Before, After, Ending, At, Rotating, Enrolled, Has
    <3>5. CASE d # c /\ ~Enrolled(d)
      <4>1. Has(d, "enrollment_pending") /\ NotYet(bundle[d])
            BY <3>5 DEF EInv, ServerOK, Registered, Enrolled, Has
      <4>2. bundle[d].key # bundle[c].key /\ bundle[d].key # m.next
            BY <2>5, <3>5 DEF Mine
      <4>3. At(bundle[d].node, bundle[d].key, 1, "active") =>
              At(bundle[d].node, bundle[d].key, 1, "active")'
            BY <1>3, <2>3, <2>4, <3>1, <4>2 DEF At
      <4>. QED  BY <1>3, <3>2, <4>1, <4>2, <4>3 DEF NotYet, Has
    <3>. QED  BY <3>3, <3>4, <3>5
  <2>11. Apart'
        BY <1>0, <1>3, <2>0, <2>3 DEF EInv, ServerOK, Apart, Mine, Enrolled, Unregistered
  <2>12. Made'
        BY <1>0, <1>3, <1>6, <2>1, <2>2, <2>3, <2>4 DEF EInv, ServerOK, Made, Mine, Has
  <2>13. Retired'
    <3>1. \A d \in Client : bundle[d] # NoBundle => bundle[d].pending \notin retired'
          BY <2>1, <2>4, <2>5, <2>7 DEF EInv, ServerOK, Retired, Mine
    <3>2. ASSUME NEW x \in Node, node'[x] # NoNode
          PROVE  node'[x].key \in retired' <=> node'[x].status = "revoked"
      <4>1. CASE x = m.node
            BY <2>0, <2>3, <2>4, <2>7, <4>1
      <4>2. CASE x # m.node
        <5>1. node'[x] = node[x] /\ node[x].key # bundle[c].key
              BY <1>0, <2>0, <2>3, <2>4, <3>2, <4>2 DEF EInv, ServerOK, Apart
        <5>. QED  BY <2>4, <3>2, <5>1 DEF EInv, ServerOK, Retired
      <4>. QED  BY <4>1, <4>2
    <3>. QED  BY <1>3, <3>1, <3>2 DEF Retired
  <2>14. Owned'
    <3>1. Mine(c, m.next) /\ bundle[c].node = m.node
          BY <2>1, <2>7 DEF Mine, Calls
    <3>. QED  BY <1>0, <1>3, <2>3, <3>1 DEF EInv, ServerOK, Owned, Mine, Active
  <2>15. RotationsOwned'
    <3>1. \A x \in Node : node[x] # NoNode =>
            /\ node'[x] # NoNode /\ node'[x].epoch >= node[x].epoch
            /\ node[x].epoch \in Nat /\ node'[x].epoch \in Nat
          BY <1>0, <1>2, <1>4, <2>2, <2>3 DEF Registration, At
    <3>2. \A k \in Key : rotation[k] # NoRotation => rotation[k].node \in Node /\ rotation[k].epoch \in Nat
          BY DEF EInv, EnrollTypeOK, Rotation
    <3>3. ASSUME NEW k \in Key, k # m.next, rotation[k] # NoRotation
          PROVE  \/ /\ rotation[k].status = "committed"
                    /\ node'[rotation[k].node] # NoNode
                    /\ node'[rotation[k].node].epoch > rotation[k].epoch
                 \/ \E d \in Client : /\ Has(d, "rotation_pending") /\ bundle[d].pending = k
                                      /\ Rotating(bundle[d], "prepared")'
      <4>1. CASE /\ rotation[k].status = "committed"
                 /\ node[rotation[k].node] # NoNode
                 /\ node[rotation[k].node].epoch > rotation[k].epoch
            BY <3>1, <3>2, <3>3, <4>1
      <4>2. CASE \E d \in Client : /\ Has(d, "rotation_pending") /\ bundle[d].pending = k
                                   /\ Rotating(bundle[d], "prepared")
            BY <1>3, <1>6, <3>3, <4>2 DEF Rotating
      <4>. QED  BY <3>3, <4>1, <4>2 DEF EInv, ServerOK, RotationsOwned
    <3>4. /\ rotation'[m.next].status = "committed"
          /\ node'[rotation'[m.next].node] # NoNode
          /\ node'[rotation'[m.next].node].epoch > rotation'[m.next].epoch
          BY <1>0, <1>4, <1>6, <2>3
    <3>. QED  BY <1>3, <1>6, <3>3, <3>4 DEF RotationsOwned, Has
  <2>16. Kept
    <3>1. ASSUME NEW q \in Request, Asked(q)
          PROVE  Asked(q)'
      <4>1. q.node \in Node /\ q.next \in Key
            BY DEF Request
      <4>2. node[q.node] # NoNode => node'[q.node] # NoNode
            BY <1>4, <2>3, <4>1
      <4>3. rotation[q.next] # NoRotation /\ rotation[q.next].status = "committed" =>
              rotation'[q.next] # NoRotation /\ rotation'[q.next].status = "committed"
            BY <1>4, <1>6, <4>1
      <4>4. node[q.node] # NoNode /\ node[q.node].status = "revoked" =>
              node'[q.node] # NoNode /\ node'[q.node].status = "revoked"
            BY <2>2, <2>3, <4>1 DEF At
      <4>. QED  BY <1>3, <3>1, <4>2, <4>3, <4>4 DEF Asked, Has, Calls
    <3>2. ASSUME NEW d \in Client, bundle[d] # NoBundle, DoneOf(bundle[d])
          PROVE  DoneOf(bundle[d])'
      <4>1. bundle[d].node \in Node /\ (bundle[d].state = "rotation_pending" => bundle[d].pending \in Key)
            BY <3>2, BundleTyped
      <4>2. bundle[d].state = "enrollment_pending" => At(bundle[d].node, bundle[d].key, 1, "active")'
            BY <1>3, <2>1, <2>3, <2>4, <2>5, <3>2, <4>1 DEF DoneOf, At, Mine, Has
      <4>3. bundle[d].state = "revocation_pending" =>
              At(bundle[d].node, bundle[d].key, bundle[d].epoch + 1, "revoked")'
            BY <1>3, <2>1, <2>3, <2>6, <3>2, <4>1 DEF DoneOf, At, Enrolled, Has, Calls
      <4>4. bundle[d].state = "rotation_pending" =>
              /\ rotation'[bundle[d].pending] # NoRotation
              /\ Rotating(bundle[d], "committed") => Rotating(bundle[d], "committed")'
            BY <1>3, <1>4, <1>5, <1>6, <2>0, <3>2, <4>1 DEF DoneOf, Rotating
      <4>. QED  BY <1>3, <3>2, <4>2, <4>3, <4>4 DEF DoneOf
    <3>. QED  BY <3>1, <3>2 DEF Kept
  <2>. QED  BY <1>0, <1>6, <2>8, <2>9, <2>10, <2>11, <2>12, <2>13, <2>14, <2>15, <2>16
            DEF ServerOK, Answers
<1>. QED  BY <1>7, <1>8

LEMMA Served ==
    ASSUME EInv, NEW m \in Request, Asked(m), CarriesOut(m), UNCHANGED <<bundle, made>>
    PROVE  ServerTypes' /\ ServerOK' /\ Kept /\ Answers(m)'
BY EnrollStep, PrepareStep, CommitStep, RevokeStep DEF CarriesOut

-----------------------------------------------------------------------------
(* Steps of a client. *)

(* What the new bundle b of client c must satisfy. *)
RegisteredAs(b) ==
    /\ b.state = "enrollment_pending" => NotYet(b)
    /\ b.state = "active" => At(b.node, b.key, b.epoch, "active")
    /\ b.state = "rotation_pending" => Before(b) \/ After(b)
    /\ b.state = "revocation_pending" => Ending(b)

HasKey(b, k) == b # NoBundle /\ (k = b.key \/ k = b.pending)

Continues(c, b) ==
    /\ Has(c, "enrollment_pending") =>
          \/ node[bundle[c].node] # NoNode
          \/ /\ b # NoBundle /\ b.state = "enrollment_pending"
             /\ b.node = bundle[c].node /\ b.key = bundle[c].key
    /\ Has(c, "rotation_pending") =>
          \/ Rotating(bundle[c], "committed")
          \/ /\ b # NoBundle /\ b.state = "rotation_pending" /\ b.node = bundle[c].node
             /\ b.epoch = bundle[c].epoch /\ b.pending = bundle[c].pending
             /\ bundle[c].prepared => b.prepared
    /\ Has(c, "revocation_pending") =>
          \/ At(bundle[c].node, bundle[c].key, bundle[c].epoch + 1, "revoked")
          \/ b = bundle[c]

Fits(c, b) ==
    /\ b # NoBundle =>
          b \in Bundle /\ ShapeOf(b) /\ RegisteredAs(b) /\ b.pending \notin retired
    /\ \A k \in Key : HasKey(b, k) => Mine(c, k) \/ k > made
    /\ b # NoBundle /\ b.state # "enrollment_pending" =>
          \A d \in Client : d # c /\ Enrolled(d) => bundle[d].node # b.node
    /\ \A n \in Node : Active(n) /\ Mine(c, node[n].key) /\ bundle[c].node = n =>
          HasKey(b, node[n].key) /\ b.node = n
    /\ Continues(c, b)

LEMMA BundleStep ==
    ASSUME EInv, NEW c \in Client, NEW b, Fits(c, b), bundle' = [bundle EXCEPT ![c] = b],
           UNCHANGED serverVars, made' \in Nat, made' >= made,
           \A k \in Key : HasKey(b, k) => k <= made'
    PROVE  ServerTypes' /\ ServerOK' /\ \A m \in Request : Asked(m) => Asked(m)'
<1>1. /\ node' = node /\ rotation' = rotation /\ retired' = retired /\ invited' = invited
      BY DEF serverVars
<1>2. bundle'[c] = b /\ \A d \in Client : d # c => bundle'[d] = bundle[d]
      BY DEF EInv, EnrollTypeOK
<1>3. made \in Nat /\ \A k \in Key : k \in Nat
      BY EnrollmentAssumption DEF EInv, EnrollTypeOK, Key
<1>4. ServerTypes'
      BY <1>1 DEF EInv, EnrollTypeOK, ServerTypes
<1>5. Shape'
      BY <1>2 DEF EInv, ServerOK, Shape, ShapeOf, Fits
<1>6. Registered'
  <2>1. ASSUME NEW d \in Client, bundle'[d] # NoBundle
        PROVE  RegisteredAs(bundle'[d])
        BY <1>2, <2>1 DEF EInv, ServerOK, Registered, RegisteredAs, Fits, Has
  <2>2. ASSUME NEW d \in Client, bundle'[d] # NoBundle
        PROVE  RegisteredAs(bundle[d])'
        BY <1>1, <2>1, <2>2
        DEF RegisteredAs, NotYet, Before, After, Ending, At, Rotating, Unregistered
  <2>. QED  BY <2>2 DEF Registered, RegisteredAs, Has
<1>7. \A d \in Client, k \in Key : Mine(d, k)' => IF d = c THEN Mine(c, k) \/ k > made ELSE Mine(d, k)
      BY <1>2 DEF Mine, HasKey, Fits
<1>8. Apart'
  <2>1. ASSUME NEW d \in Client, NEW e \in Client, NEW k \in Key, Mine(d, k)', Mine(e, k)'
        PROVE  d = e
        BY <1>3, <1>7, <2>1 DEF EInv, ServerOK, Apart, Made
  <2>2. ASSUME NEW d \in Client, NEW e \in Client, Enrolled(d)', Enrolled(e)',
               bundle'[d].node = bundle'[e].node
        PROVE  d = e
        BY <1>2, <2>2 DEF EInv, ServerOK, Apart, Enrolled, Fits
  <2>. QED  BY <1>1, <2>1, <2>2 DEF EInv, ServerOK, Apart
<1>9. Made'
  <2>1. ASSUME NEW d \in Client, NEW k \in Key, Mine(d, k)'
        PROVE  k <= made'
        BY <1>2, <1>3, <1>7, <2>1 DEF EInv, ServerOK, Made, Mine, HasKey
  <2>2. \A n \in Node : node[n] # NoNode => node[n].key \in Key
        BY DEF EInv, EnrollTypeOK, Registration
  <2>3. retired \subseteq Key
        BY DEF EInv, EnrollTypeOK
  <2>. QED  BY <1>1, <1>3, <2>1, <2>2, <2>3 DEF EInv, ServerOK, Made
<1>10. Retired'
      BY <1>1, <1>2 DEF EInv, ServerOK, Retired, Fits
<1>11. Owned'
  <2>1. ASSUME NEW n \in Node, Active(n)
        PROVE  \E d \in Client : Mine(d, node[n].key)' /\ bundle'[d].node = n
    <3>1. PICK d \in Client : Mine(d, node[n].key) /\ bundle[d].node = n
          BY <2>1 DEF EInv, ServerOK, Owned
    <3>. QED  BY <1>1, <1>2, <2>1, <3>1 DEF Mine, HasKey, Fits
  <2>. QED  BY <1>1, <2>1 DEF Owned, Active, Mine
<1>12. RotationsOwned'
  <2>1. ASSUME NEW k \in Key, NEW d \in Client, Has(d, "rotation_pending"), bundle[d].pending = k,
               Rotating(bundle[d], "prepared")
        PROVE  /\ Has(d, "rotation_pending")' /\ bundle'[d].pending = k
               /\ Rotating(bundle[d], "prepared")'
    <3>1. ~Rotating(bundle[d], "committed")
          BY <2>1 DEF Rotating
    <3>2. d = c => /\ b # NoBundle /\ b.state = "rotation_pending" /\ b.node = bundle[c].node
                   /\ b.epoch = bundle[c].epoch /\ b.pending = bundle[c].pending
          BY <2>1, <3>1 DEF Fits, Continues
    <3>. QED  BY <1>1, <1>2, <2>1, <3>2 DEF Has, Rotating
  <2>. QED  BY <1>1, <2>1 DEF EInv, ServerOK, RotationsOwned
<1>13. ASSUME NEW m \in Request, Asked(m)
       PROVE  Asked(m)'
  <2>0. m.node \in Node /\ m.next \in Key /\ m.key \in Key /\ m.expected \in Nat
        BY DEF Request
  <2>1. CASE m.kind = "enroll"
        BY <1>1, <1>2, <1>13, <2>1 DEF Asked, Has, Fits, Continues
  <2>2. CASE m.kind \in {"prepare", "commit"}
    <3>1. CASE rotation[m.next] # NoRotation /\ rotation[m.next].status = "committed"
          BY <1>1, <2>2, <3>1 DEF Asked
    <3>2. CASE ~(rotation[m.next] # NoRotation /\ rotation[m.next].status = "committed")
      <4>1. PICK d \in Client : /\ Has(d, "rotation_pending")
                                /\ Calls(bundle[d], m)
                                /\ bundle[d].pending = m.next
                                /\ m.kind = "commit" => bundle[d].prepared
            BY <1>13, <2>2, <3>2 DEF Asked
      <4>2. ~Rotating(bundle[d], "committed")
            BY <2>0, <3>2, <4>1, AbsentAssumption DEF Rotating, Calls, Rotation
      <4>3. /\ Has(d, "rotation_pending")'
            /\ Calls(bundle[d], m)'
            /\ bundle'[d].pending = m.next
            /\ m.kind = "commit" => bundle'[d].prepared
            BY <1>2, <4>1, <4>2 DEF Fits, Continues, Has, Calls
      <4>. QED  BY <2>2, <4>3 DEF Asked
    <3>. QED  BY <3>1, <3>2
  <2>3. CASE m.kind = "revoke"
    <3>1. CASE node[m.node] # NoNode /\ node[m.node].status = "revoked"
          BY <1>1, <2>3, <3>1 DEF Asked
    <3>2. CASE ~(node[m.node] # NoNode /\ node[m.node].status = "revoked")
      <4>1. PICK d \in Client :
              Has(d, "revocation_pending") /\ Calls(bundle[d], m) /\ bundle[d].key = m.key
            BY <1>13, <2>3, <3>2 DEF Asked
      <4>2. ~At(bundle[d].node, bundle[d].key, bundle[d].epoch + 1, "revoked")
            BY <2>0, <3>2, <4>1, AbsentAssumption DEF At, Calls, Registration
      <4>3. bundle'[d] = bundle[d]
            BY <1>2, <4>1, <4>2 DEF Fits, Continues
      <4>. QED  BY <2>3, <4>1, <4>3 DEF Asked, Has, Calls
    <3>. QED  BY <3>1, <3>2
  <2>. QED  BY <2>1, <2>2, <2>3 DEF Request
<1>. QED  BY <1>4, <1>5, <1>6, <1>8, <1>9, <1>10, <1>11, <1>12, <1>13 DEF ServerOK

LEMMA ResumesTyped ==
    ASSUME NEW b \in Bundle, ShapeOf(b)
    PROVE  Resumes(b) \in Request
<1>1. /\ b.node \in Node /\ b.epoch \in Nat /\ b.key \in Key
      /\ b.state = "rotation_pending" => b.pending \in Key
      BY DEF Bundle, ShapeOf
<1>2. CASE b.state = "enrollment_pending"
      BY <1>1, <1>2 DEF Resumes, Request
<1>3. CASE b.state = "rotation_pending" /\ ~b.prepared
      BY <1>1, <1>3 DEF Resumes, Request
<1>4. CASE b.state = "rotation_pending" /\ b.prepared
      BY <1>1, <1>4 DEF Resumes, Request
<1>5. CASE b.state \notin {"enrollment_pending", "rotation_pending"}
      BY <1>1, <1>5 DEF Resumes, Request
<1>. QED  BY <1>2, <1>3, <1>4, <1>5

LEMMA SendStep ==
    ASSUME EInv, NEW c \in Client, NEW b \in Bundle, NEW revoking \in BOOLEAN,
           Fits(c, b), b.state # "active", SaveAndSend(c, b, revoking),
           UNCHANGED <<serverVars, late>>, made' \in 0..MaxKeys, made' >= made,
           \A k \in Key : HasKey(b, k) => k <= made'
    PROVE  EInv'
<1> DEFINE A == [request |-> Resumes(b), stage |-> "sent", revoking |-> revoking]
<1>0. b # NoBundle /\ made' \in Nat
      BY AbsentAssumption, EnrollmentAssumption
<1>1. bundle' = [bundle EXCEPT ![c] = b] /\ awaited' = [awaited EXCEPT ![c] = A]
      BY DEF SaveAndSend
<1>2. ServerTypes' /\ ServerOK' /\ \A m \in Request : Asked(m) => Asked(m)'
      BY <1>0, <1>1, BundleStep
<1>3. A \in Awaited
      BY <1>0, ResumesTyped DEF Awaited, Fits
<1>4. EnrollTypeOK'
      BY <1>1, <1>2, <1>3 DEF EInv, EnrollTypeOK, ServerTypes
<1>5. /\ bundle'[c] = b /\ awaited'[c] = A
      /\ \A d \in Client : d # c => bundle'[d] = bundle[d] /\ awaited'[d] = awaited[d]
      BY <1>1 DEF EInv, EnrollTypeOK
<1>6. Sent'
  <2>1. \A l \in late : l.request \in Request
        BY DEF EInv, EnrollTypeOK, Late
  <2>2. \A l \in late' : Asked(l.request)'
        BY <1>2, <2>1 DEF EInv, Sent
  <2>3. ASSUME NEW d \in Client, awaited'[d] # NoRequest
        PROVE  /\ bundle'[d] # NoBundle /\ bundle'[d].state # "active"
               /\ awaited'[d].request = Resumes(bundle'[d])
    <3>1. CASE d = c
          BY <1>0, <1>5, <3>1
    <3>2. CASE d # c
          BY <1>5, <2>3, <3>2 DEF EInv, Sent
    <3>. QED  BY <3>1, <3>2
  <2>. QED  BY <2>2, <2>3 DEF Sent, Resumes
<1>7. Done'
      BY <1>5 DEF EInv, Done, DoneOf, At, Rotating, serverVars
<1>. QED  BY <1>2, <1>4, <1>6, <1>7 DEF EInv

LEMMA EndStep ==
    ASSUME EInv, NEW c \in Client, NEW b \in Bundle \cup {NoBundle}, Fits(c, b),
           SaveAndEnd(c, b), UNCHANGED <<serverVars, late, made>>,
           \A k \in Key : HasKey(b, k) => k <= made
    PROVE  EInv'
<1>0. made' \in Nat /\ made' >= made
      BY EnrollmentAssumption DEF EInv, EnrollTypeOK
<1>1. bundle' = [bundle EXCEPT ![c] = b] /\ awaited' = [awaited EXCEPT ![c] = NoRequest]
      BY DEF SaveAndEnd
<1>2. ServerTypes' /\ ServerOK' /\ \A m \in Request : Asked(m) => Asked(m)'
      BY <1>0, <1>1, BundleStep
<1>3. EnrollTypeOK'
      BY <1>1, <1>2 DEF EInv, EnrollTypeOK, ServerTypes
<1>4. /\ bundle'[c] = b /\ awaited'[c] = NoRequest
      /\ \A d \in Client : d # c => bundle'[d] = bundle[d] /\ awaited'[d] = awaited[d]
      BY <1>1 DEF EInv, EnrollTypeOK
<1>5. Sent'
  <2>1. \A l \in late : l.request \in Request
        BY DEF EInv, EnrollTypeOK, Late
  <2>. QED  BY <1>2, <1>4, <2>1 DEF EInv, Sent, Resumes
<1>6. Done'
      BY <1>4 DEF EInv, Done, DoneOf, At, Rotating, serverVars
<1>. QED  BY <1>2, <1>3, <1>5, <1>6 DEF EInv

LEMMA AwaitedIs ==
    ASSUME EInv, NEW c \in Client, awaited[c] # NoRequest
    PROVE  LET b == bundle[c]
               m == awaited[c].request
           IN  /\ b # NoBundle /\ b \in Bundle /\ b.state # "active"
               /\ m \in Request /\ Asked(m)
               /\ m.node = b.node /\ m.expected = b.epoch
               /\ \/ m.kind = "enroll" /\ b.state = "enrollment_pending" /\ m.key = b.key
                  \/ m.kind = "prepare" /\ b.state = "rotation_pending" /\ ~b.prepared
                     /\ m.next = b.pending
                  \/ m.kind = "commit" /\ b.state = "rotation_pending" /\ b.prepared
                     /\ m.next = b.pending
                  \/ m.kind = "revoke" /\ b.state = "revocation_pending" /\ m.key = b.key
<1> DEFINE b == bundle[c]
           m == awaited[c].request
<1>1. b # NoBundle /\ b.state # "active" /\ m = Resumes(b)
      BY DEF EInv, Sent
<1>2. b \in Bundle /\ ShapeOf(b)
      BY <1>1, BundleTyped DEF EInv, ServerOK, Shape
<1>3. m \in Request
      BY <1>1, <1>2, ResumesTyped
<1>4. CASE b.state = "enrollment_pending"
  <2>1. m = [kind |-> "enroll", node |-> b.node, expected |-> b.epoch, key |-> b.key, next |-> b.key]
        BY <1>1, <1>4 DEF Resumes
  <2>. QED  BY <1>1, <1>2, <1>3, <1>4, <2>1 DEF Asked, Has
<1>5. CASE b.state = "rotation_pending" /\ ~b.prepared
  <2>1. m = [kind |-> "prepare", node |-> b.node, expected |-> b.epoch, key |-> b.key,
             next |-> b.pending]
        BY <1>1, <1>5 DEF Resumes
  <2>. QED  BY <1>1, <1>2, <1>3, <1>5, <2>1 DEF Asked, Has, Calls
<1>6. CASE b.state = "rotation_pending" /\ b.prepared
  <2>1. m = [kind |-> "commit", node |-> b.node, expected |-> b.epoch, key |-> b.pending,
             next |-> b.pending]
        BY <1>1, <1>6 DEF Resumes
  <2>. QED  BY <1>1, <1>2, <1>3, <1>6, <2>1 DEF Asked, Has, Calls
<1>7. CASE b.state = "revocation_pending"
  <2>1. m = [kind |-> "revoke", node |-> b.node, expected |-> b.epoch, key |-> b.key, next |-> b.key]
        BY <1>1, <1>7 DEF Resumes
  <2>. QED  BY <1>1, <1>2, <1>3, <1>7, <2>1 DEF Asked, Has, Calls
<1>. QED  BY <1>1, <1>2, <1>4, <1>5, <1>6, <1>7 DEF Bundle

(* The bundle a client has fits. *)
LEMMA FitsAlready ==
    ASSUME EInv, NEW c \in Client, bundle[c] # NoBundle
    PROVE  Fits(c, bundle[c]) /\ \A k \in Key : HasKey(bundle[c], k) => k <= made
<1>1. bundle[c] \in Bundle
      BY BundleTyped
<1>2. /\ ShapeOf(bundle[c]) /\ bundle[c].pending \notin retired /\ RegisteredAs(bundle[c])
      BY DEF EInv, ServerOK, Shape, Retired, Registered, RegisteredAs, Has
<1>3. \A k : HasKey(bundle[c], k) <=> Mine(c, k)
      BY DEF HasKey, Mine
<1>4. bundle[c].state # "enrollment_pending" =>
        \A d \in Client : d # c /\ Enrolled(d) => bundle[d].node # bundle[c].node
      BY DEF EInv, ServerOK, Apart, Enrolled
<1>5. Continues(c, bundle[c])
      BY DEF Continues, Has
<1>. QED  BY <1>1, <1>2, <1>3, <1>4, <1>5 DEF Fits, EInv, ServerOK, Made

LEMMA AgainInv ==
    ASSUME EInv, NEW c \in Client,
           EnrollAgain(c) \/ (\E revoking \in BOOLEAN : ResumeRotation(c, revoking)) \/ ResumeRevocation(c)
    PROVE  EInv'
<1>1. PICK revoking \in BOOLEAN : SaveAndSend(c, bundle[c], revoking)
      BY DEF EnrollAgain, ResumeRotation, ResumeRevocation
<1>2. /\ bundle[c] # NoBundle /\ bundle[c].state # "active"
      /\ UNCHANGED <<serverVars, late>> /\ made' = made
      BY DEF EnrollAgain, ResumeRotation, ResumeRevocation, InBundle
<1>3. bundle[c] \in Bundle /\ made \in 0..MaxKeys /\ made >= made
      BY <1>2, BundleTyped, EnrollmentAssumption DEF EInv, EnrollTypeOK
<1>. QED  BY <1>1, <1>2, <1>3, FitsAlready, SendStep

LEMMA NewKeyIs ==
    ASSUME EInv, NewKey
    PROVE  /\ made' \in Key /\ made' \in 0..MaxKeys /\ made' > made /\ made' >= made
           /\ Unregistered(made') /\ rotation[made'] = NoRotation /\ made' \notin retired
           /\ \A c \in Client : ~Mine(c, made')
           /\ made \in Nat
<1>1. made' = made + 1 /\ made \in Nat /\ made' \in Key /\ made' \in 0..MaxKeys
      BY EnrollmentAssumption DEF EInv, EnrollTypeOK, NewKey, Key
<1>2. \A n \in Node : node[n] # NoNode => node[n].key \in Nat
      BY EnrollmentAssumption DEF EInv, EnrollTypeOK, Registration, Key
<1>. QED  BY <1>1, <1>2 DEF EInv, ServerOK, Made, Unregistered

LEMMA EnrollInv ==
    ASSUME EInv, NEW c \in Client, NEW n \in Node, Enroll(c, n)
    PROVE  EInv'
<1> DEFINE a == ActiveBundle(n, 0, made')
           b == [a EXCEPT !.state = "enrollment_pending"]
<1>1. bundle[c] = NoBundle /\ NewKey /\ SaveAndSend(c, b, FALSE) /\ UNCHANGED <<serverVars, late>>
      BY DEF Enroll
<1>2. /\ a \in Bundle /\ a.node = n /\ a.epoch = 0 /\ a.key = made'
      /\ a.pending = NoKey /\ a.prepared = FALSE
      BY <1>1, NewKeyIs DEF ActiveBundle, Bundle
<1>. HIDE DEF a
<1>3. /\ b \in Bundle /\ b.state = "enrollment_pending" /\ b.node = n /\ b.epoch = 0
      /\ b.key = made' /\ b.pending = NoKey /\ b.prepared = FALSE
      BY <1>2 DEF Bundle
<1>. HIDE DEF b
<1>4. NoKey \notin Key /\ NoKey # made' /\ NoKey \notin retired
      BY <1>1, NewKeyIs, EnrollmentAssumption DEF EInv, EnrollTypeOK
<1>5. ShapeOf(b) /\ RegisteredAs(b) /\ b.pending \notin retired
      BY <1>1, <1>3, <1>4, NewKeyIs DEF ShapeOf, RegisteredAs, NotYet
<1>6. \A k \in Key : HasKey(b, k) => k = made'
      BY <1>3, <1>4 DEF HasKey
<1>7. Fits(c, b)
      BY <1>1, <1>3, <1>5, <1>6, NewKeyIs DEF Fits, Mine, Continues, Has
<1>8. \A k \in Key : HasKey(b, k) => k <= made'
      BY <1>1, <1>6, NewKeyIs
<1>. QED  BY <1>1, <1>3, <1>7, <1>8, NewKeyIs, SendStep

LEMMA RotateInv ==
    ASSUME EInv, NEW c \in Client, Rotate(c)
    PROVE  EInv'
<1> DEFINE b == [bundle[c] EXCEPT !.state = "rotation_pending", !.pending = made']
<1>1. /\ bundle[c] # NoBundle /\ bundle[c].state = "active"
      /\ NewKey /\ SaveAndSend(c, b, FALSE) /\ UNCHANGED <<serverVars, late>>
      BY DEF Rotate, InBundle
<1>2. bundle[c] \in Bundle /\ ShapeOf(bundle[c])
      BY <1>1, BundleTyped DEF EInv, ServerOK, Shape
<1>3. /\ b \in Bundle /\ b.state = "rotation_pending" /\ b.pending = made' /\ ~b.prepared
      /\ b.node = bundle[c].node /\ b.epoch = bundle[c].epoch /\ b.key = bundle[c].key
      BY <1>1, <1>2, NewKeyIs DEF Bundle, ShapeOf
<1>. HIDE DEF b
<1>4. b # NoBundle /\ NoKey \notin Key
      BY <1>3, AbsentAssumption, EnrollmentAssumption
<1>5. At(b.node, b.key, b.epoch, "active")
      BY <1>1, <1>3 DEF EInv, ServerOK, Registered, Has, At
<1>6. ShapeOf(b) /\ RegisteredAs(b) /\ b.pending \notin retired
  <2>1. b.key # made'
        BY <1>1, <1>3, NewKeyIs DEF Mine
  <2>. QED  BY <1>1, <1>2, <1>3, <1>4, <1>5, <2>1, NewKeyIs DEF ShapeOf, RegisteredAs, Before
<1>7. \A k \in Key : HasKey(b, k) => Mine(c, k) \/ k = made'
      BY <1>1, <1>3 DEF HasKey, Mine
<1>8. \A n \in Node : Active(n) /\ Mine(c, node[n].key) /\ bundle[c].node = n =>
        HasKey(b, node[n].key) /\ b.node = n
  <2>1. node[bundle[c].node].key = b.key
        BY <1>3, <1>5 DEF At
  <2>. QED  BY <1>3, <1>4, <2>1 DEF HasKey
<1>9. Fits(c, b)
      BY <1>1, <1>3, <1>6, <1>7, <1>8, NewKeyIs, FitsAlready DEF Fits, Continues, Has
<1>10. \A k \in Key : HasKey(b, k) => k <= made'
  <2>1. \A k \in Key : k \in Nat /\ (Mine(c, k) => k <= made)
        BY EnrollmentAssumption DEF EInv, ServerOK, Made, Key
  <2>. QED  BY <1>1, <1>7, <2>1, NewKeyIs
<1>. QED  BY <1>1, <1>3, <1>9, <1>10, NewKeyIs, SendStep
LEMMA RevokeInv ==
    ASSUME EInv, NEW c \in Client, Revoke(c)
    PROVE  EInv'
<1> DEFINE b == [bundle[c] EXCEPT !.state = "revocation_pending"]
<1>1. /\ bundle[c] # NoBundle /\ bundle[c].state = "active"
      /\ SaveAndSend(c, b, TRUE) /\ UNCHANGED <<serverVars, late>> /\ made' = made
      BY DEF Revoke, InBundle
<1>2. bundle[c] \in Bundle /\ ShapeOf(bundle[c])
      BY <1>1, BundleTyped DEF EInv, ServerOK, Shape
<1>3. /\ b \in Bundle /\ b.state = "revocation_pending" /\ b.pending = bundle[c].pending
      /\ ~b.prepared /\ b.node = bundle[c].node /\ b.epoch = bundle[c].epoch /\ b.key = bundle[c].key
      BY <1>1, <1>2 DEF Bundle, ShapeOf
<1>. HIDE DEF b
<1>4. b # NoBundle
      BY <1>3, AbsentAssumption
<1>5. At(b.node, b.key, b.epoch, "active")
      BY <1>1, <1>3 DEF EInv, ServerOK, Registered, Has, At
<1>6. ShapeOf(b) /\ RegisteredAs(b)
      BY <1>1, <1>2, <1>3, <1>5 DEF ShapeOf, RegisteredAs, Ending
<1>7. \A k : HasKey(b, k) <=> HasKey(bundle[c], k)
      BY <1>1, <1>3, <1>4 DEF HasKey
<1>8. Fits(c, b) /\ \A k \in Key : HasKey(b, k) => k <= made
      BY <1>1, <1>3, <1>4, <1>6, <1>7, FitsAlready DEF Fits, Continues, Has
<1>9. made' \in 0..MaxKeys /\ made' >= made
      BY <1>1, EnrollmentAssumption DEF EInv, EnrollTypeOK
<1>. QED  BY <1>1, <1>3, <1>8, <1>9, SendStep

(* The bundle an answer leaves. *)
LEMMA EnrollAnsweredInv ==
    ASSUME EInv, NEW c \in Client, EnrollAnswered(c)
    PROVE  EInv'
<1> DEFINE b == [bundle[c] EXCEPT !.state = "active", !.epoch = 1]
<1>1. /\ awaited[c] # NoRequest /\ awaited[c].stage = "accepted"
      /\ awaited[c].request.kind = "enroll"
      /\ SaveAndEnd(c, b) /\ UNCHANGED <<serverVars, late, made>>
      BY DEF EnrollAnswered, Answered
<1>2. bundle[c] # NoBundle /\ bundle[c] \in Bundle /\ bundle[c].state = "enrollment_pending"
      BY <1>1, AwaitedIs
<1>3. ShapeOf(bundle[c]) /\ At(bundle[c].node, bundle[c].key, 1, "active")
      BY <1>1, <1>2 DEF EInv, ServerOK, Shape, Done, DoneOf
<1>4. /\ b \in Bundle /\ b.state = "active" /\ b.pending = bundle[c].pending
      /\ ~b.prepared /\ b.node = bundle[c].node /\ b.epoch = 1 /\ b.key = bundle[c].key
      BY <1>2, <1>3 DEF Bundle, ShapeOf
<1>. HIDE DEF b
<1>5. b # NoBundle
      BY <1>4, AbsentAssumption
<1>6. ShapeOf(b) /\ RegisteredAs(b)
      BY <1>2, <1>3, <1>4 DEF ShapeOf, RegisteredAs
<1>7. \A k : HasKey(b, k) <=> HasKey(bundle[c], k)
      BY <1>2, <1>4, <1>5 DEF HasKey
<1>8. node[bundle[c].node] # NoNode /\ node[bundle[c].node].key = bundle[c].key /\ bundle[c].key \in Key
  <2>1. bundle[c].key \in Key
        BY <1>2, BundleTyped
  <2>2. [key |-> bundle[c].key, epoch |-> 1, status |-> "active"] # NoNode
        BY <2>1, RegistrationIs
  <2>. QED  BY <1>3, <2>1, <2>2 DEF At
<1>9. \A d \in Client : d # c /\ Enrolled(d) => bundle[d].node # b.node
      BY <1>2, <1>4, <1>8, EnrolledRegistered DEF EInv, ServerOK, Apart, Mine
<1>10. Fits(c, b) /\ \A k \in Key : HasKey(b, k) => k <= made
      BY <1>2, <1>4, <1>5, <1>6, <1>7, <1>8, <1>9, FitsAlready DEF Fits, Continues, Has
<1>. QED  BY <1>1, <1>4, <1>10, EndStep

LEMMA PrepareAnsweredInv ==
    ASSUME EInv, NEW c \in Client, PrepareAnswered(c)
    PROVE  EInv'
<1> DEFINE b == [bundle[c] EXCEPT !.prepared = TRUE]
<1>1. /\ awaited[c] # NoRequest /\ awaited[c].stage = "accepted"
      /\ awaited[c].request.kind = "prepare"
      /\ SaveAndSend(c, b, awaited[c].revoking) /\ UNCHANGED <<serverVars, late>> /\ made' = made
      BY DEF PrepareAnswered, Answered
<1>2. /\ bundle[c] # NoBundle /\ bundle[c] \in Bundle /\ bundle[c].state = "rotation_pending"
      /\ ~bundle[c].prepared
      BY <1>1, AwaitedIs
<1>3. /\ ShapeOf(bundle[c]) /\ rotation[bundle[c].pending] # NoRotation
      /\ Before(bundle[c]) \/ After(bundle[c])
      BY <1>1, <1>2 DEF EInv, ServerOK, Shape, Done, DoneOf, Registered, Has
<1>4. /\ b \in Bundle /\ b.state = "rotation_pending" /\ b.pending = bundle[c].pending
      /\ b.prepared /\ b.node = bundle[c].node /\ b.epoch = bundle[c].epoch /\ b.key = bundle[c].key
      BY <1>2 DEF Bundle
<1>. HIDE DEF b
<1>5. b # NoBundle
      BY <1>4, AbsentAssumption
<1>6. ShapeOf(b) /\ RegisteredAs(b)
  <2>1. Before(b)
        BY <1>2, <1>3, <1>4 DEF Before, After, At, Rotating, Unregistered
  <2>. QED  BY <1>2, <1>3, <1>4, <2>1 DEF ShapeOf, RegisteredAs
<1>7. \A k : HasKey(b, k) <=> HasKey(bundle[c], k)
      BY <1>2, <1>4, <1>5 DEF HasKey
<1>8. Fits(c, b) /\ \A k \in Key : HasKey(b, k) => k <= made
      BY <1>2, <1>4, <1>5, <1>6, <1>7, FitsAlready DEF Fits, Continues, Has
<1>9. made' \in 0..MaxKeys /\ made' >= made
      BY <1>1, EnrollmentAssumption DEF EInv, EnrollTypeOK
<1>10. awaited[c].revoking \in BOOLEAN
      BY <1>1 DEF EInv, EnrollTypeOK, Awaited
<1>. QED  BY <1>1, <1>4, <1>8, <1>9, <1>10, SendStep

(* The new generation, whether the command ends there or goes on to revoke it. *)
LEMMA Generation ==
    ASSUME EInv, NEW c \in Client, Answered(c, "commit"), NEW b \in Bundle,
           b.state \in {"active", "revocation_pending"}, b.node = bundle[c].node,
           b.epoch = bundle[c].epoch + 1, b.key = bundle[c].pending, b.pending = NoKey, ~b.prepared
    PROVE  Fits(c, b) /\ \A k \in Key : HasKey(b, k) => k <= made
<1>1. awaited[c] # NoRequest /\ awaited[c].stage = "accepted" /\ awaited[c].request.kind = "commit"
      BY DEF Answered
<1>2. /\ bundle[c] # NoBundle /\ bundle[c] \in Bundle /\ bundle[c].state = "rotation_pending"
      /\ bundle[c].prepared
      BY <1>1, AwaitedIs
<1>3. ShapeOf(bundle[c]) /\ Rotating(bundle[c], "committed") /\ RegisteredAs(bundle[c])
      BY <1>1, <1>2, FitsAlready DEF Fits, EInv, Done, DoneOf
<1>4. bundle[c].pending \in Key /\ bundle[c].epoch \in Nat
      BY <1>2, BundleTyped
<1>5. At(b.node, b.key, b.epoch, "active")
  <2>1. After(bundle[c])
    <3>1. ~Before(bundle[c])
          BY <1>2, <1>3 DEF Before, Rotating
    <3>. QED  BY <1>2, <1>3, <3>1 DEF RegisteredAs
  <2>. QED  BY <2>1 DEF After, At
<1>6. b # NoBundle /\ NoKey \notin Key
      BY AbsentAssumption, EnrollmentAssumption
<1>7. ShapeOf(b) /\ RegisteredAs(b) /\ NoKey \notin retired
      BY <1>4, <1>5, <1>6 DEF ShapeOf, RegisteredAs, Ending, EInv, EnrollTypeOK
<1>8. \A k \in Key : HasKey(b, k) => k = bundle[c].pending
      BY <1>6 DEF HasKey
<1>9. \A n \in Node : bundle[c].node = n => HasKey(b, node[n].key) /\ b.node = n
      BY <1>5, <1>6 DEF At, HasKey
<1>10. \A k \in Key : HasKey(b, k) => Mine(c, k) /\ HasKey(bundle[c], k)
      BY <1>2, <1>8 DEF Mine, HasKey
<1>11. \A d \in Client : d # c /\ Enrolled(d) => bundle[d].node # b.node
      BY <1>2, FitsAlready DEF Fits
<1>12. Continues(c, b)
      BY <1>2, <1>3 DEF Continues, Has
<1>. QED  BY <1>2, <1>7, <1>9, <1>10, <1>11, <1>12, FitsAlready DEF Fits

LEMMA CommitAnsweredInv ==
    ASSUME EInv, NEW c \in Client, CommitAnswered(c)
    PROVE  EInv'
<1> DEFINE b == ActiveBundle(bundle[c].node, bundle[c].epoch + 1, bundle[c].pending)
           r == [b EXCEPT !.state = "revocation_pending"]
<1>1. /\ Answered(c, "commit") /\ UNCHANGED <<serverVars, late, made>>
      /\ SaveAndEnd(c, b) \/ SaveAndSend(c, r, TRUE)
      BY DEF CommitAnswered
<1>2. /\ bundle[c].node \in Node /\ bundle[c].epoch + 1 \in Nat /\ bundle[c].pending \in Key
  <2>1. awaited[c] # NoRequest /\ awaited[c].request.kind = "commit"
        BY <1>1 DEF Answered
  <2>2. bundle[c] # NoBundle /\ bundle[c].state = "rotation_pending"
        BY <2>1, AwaitedIs
  <2>. QED  BY <2>2, BundleTyped
<1>3. /\ b \in Bundle /\ b.state = "active" /\ b.node = bundle[c].node
      /\ b.epoch = bundle[c].epoch + 1 /\ b.key = bundle[c].pending
      /\ b.pending = NoKey /\ b.prepared = FALSE
      BY <1>2 DEF ActiveBundle, Bundle
<1>. HIDE DEF b
<1>4. /\ r \in Bundle /\ r.state = "revocation_pending" /\ r.node = bundle[c].node
      /\ r.epoch = bundle[c].epoch + 1 /\ r.key = bundle[c].pending
      /\ r.pending = NoKey /\ r.prepared = FALSE
      BY <1>3 DEF Bundle
<1>. HIDE DEF r
<1>5. CASE SaveAndEnd(c, b)
      BY <1>1, <1>3, <1>5, Generation, EndStep
<1>6. CASE SaveAndSend(c, r, TRUE)
  <2>1. made' \in 0..MaxKeys /\ made' >= made /\ made' = made
        BY <1>1, EnrollmentAssumption DEF EInv, EnrollTypeOK
  <2>2. Fits(c, r) /\ \A k \in Key : HasKey(r, k) => k <= made
        BY <1>1, <1>4, Generation
  <2>. QED  BY <1>1, <1>4, <1>6, <2>1, <2>2, SendStep
<1>. QED  BY <1>1, <1>5, <1>6

LEMMA RevokeAnsweredInv ==
    ASSUME EInv, NEW c \in Client, RevokeAnswered(c)
    PROVE  EInv'
<1>1. /\ awaited[c] # NoRequest /\ awaited[c].stage = "accepted"
      /\ awaited[c].request.kind = "revoke"
      /\ SaveAndEnd(c, NoBundle) /\ UNCHANGED <<serverVars, late, made>>
      BY DEF RevokeAnswered, Answered
<1>2. /\ bundle[c] # NoBundle /\ bundle[c] \in Bundle /\ bundle[c].state = "revocation_pending"
      BY <1>1, AwaitedIs
<1>3. At(bundle[c].node, bundle[c].key, bundle[c].epoch + 1, "revoked")
      BY <1>1, <1>2 DEF EInv, Done, DoneOf
<1>4. ~Active(bundle[c].node)
      BY <1>3 DEF Active, At
<1>5. Fits(c, NoBundle) /\ \A k \in Key : ~HasKey(NoBundle, k)
      BY <1>2, <1>3, <1>4 DEF Fits, HasKey, Continues, Has
<1>. QED  BY <1>1, <1>5, EndStep

-----------------------------------------------------------------------------
(* Steps of the Facilitator, and of a client that stops waiting. *)

(* A step that changes neither a bundle nor, beyond what they asked for,   *)
(* the requests.                                                           *)
LEMMA ServerStep ==
    ASSUME EInv, ServerTypes', ServerOK', Kept, bundle' = bundle, made' = made,
           awaited' \in [Client -> Awaited \cup {NoRequest}], late' \subseteq Late,
           \A l \in late' : Asked(l.request),
           \A c \in Client : awaited'[c] # NoRequest =>
              awaited[c] # NoRequest /\ awaited'[c].request = awaited[c].request,
           \A c \in Client : awaited'[c] # NoRequest /\ awaited'[c].stage = "accepted" =>
              awaited[c].stage = "accepted" \/ DoneOf(bundle[c])'
    PROVE  EInv'
<1>1. EnrollTypeOK'
      BY DEF EInv, EnrollTypeOK, ServerTypes
<1>2. Sent'
  <2>1. \A l \in late' : l.request \in Request
        BY DEF Late
  <2>2. \A l \in late' : Asked(l.request)'
        BY <2>1 DEF Kept
  <2>3. ASSUME NEW c \in Client, awaited'[c] # NoRequest
        PROVE  /\ bundle'[c] # NoBundle /\ bundle'[c].state # "active"
               /\ awaited'[c].request = Resumes(bundle'[c])
        BY <2>3 DEF EInv, Sent
  <2>. QED  BY <2>2, <2>3 DEF Sent, Resumes
<1>3. Done'
  <2>1. ASSUME NEW c \in Client, awaited'[c] # NoRequest, awaited'[c].stage = "accepted"
        PROVE  DoneOf(bundle[c])'
    <3>1. awaited[c] # NoRequest
          BY <2>1
    <3>2. bundle[c] # NoBundle
          BY <3>1 DEF EInv, Sent
    <3>. QED  BY <2>1, <3>1, <3>2 DEF EInv, Done, Kept
  <2>. QED  BY <2>1 DEF Done
<1>. QED  BY <1>1, <1>2, <1>3 DEF EInv

LEMMA Staged ==
    ASSUME EInv, NEW c \in Client, awaited[c] # NoRequest,
           NEW stage \in {"authenticated", "accepted"}, Stage(c, stage)
    PROVE  /\ awaited' \in [Client -> Awaited \cup {NoRequest}]
           /\ awaited'[c] \in Awaited /\ awaited'[c].stage = stage
           /\ awaited'[c].request = awaited[c].request
           /\ \A d \in Client : d # c => awaited'[d] = awaited[d]
<1>1. awaited \in [Client -> Awaited \cup {NoRequest}] /\ awaited[c] \in Awaited
      BY DEF EInv, EnrollTypeOK
<1>2. awaited' = [awaited EXCEPT ![c] = [awaited[c] EXCEPT !.stage = stage]]
      BY DEF Stage
<1>3. /\ [awaited[c] EXCEPT !.stage = stage] \in Awaited
      /\ [awaited[c] EXCEPT !.stage = stage].stage = stage
      /\ [awaited[c] EXCEPT !.stage = stage].request = awaited[c].request
      BY <1>1 DEF Awaited
<1>. QED  BY <1>1, <1>2, <1>3

LEMMA Refused ==
    ASSUME EInv, NEW c \in Client, Refuse(c)
    PROVE  /\ awaited' \in [Client -> Awaited \cup {NoRequest}]
           /\ awaited'[c] = NoRequest
           /\ \A d \in Client : d # c => awaited'[d] = awaited[d]
BY DEF EInv, EnrollTypeOK, Refuse

LEMMA LateAsked ==
    ASSUME EInv
    PROVE  late \subseteq Late /\ \A l \in late : l.request \in Request /\ Asked(l.request)
BY DEF EInv, EnrollTypeOK, Sent, Late

LEMMA AuthenticateInv ==
    ASSUME EInv, NEW c \in Client, Authenticate(c)
    PROVE  EInv'
<1>1. /\ awaited[c] # NoRequest /\ UNCHANGED <<serverVars, bundle, made>> /\ late' = late
      /\ bundle' = bundle /\ made' = made
      BY DEF Authenticate
<1>2. ServerTypes' /\ ServerOK' /\ Kept
      BY <1>1, Unchanged
<1>3. CASE Stage(c, "authenticated")
  <2>1. \A d \in Client : awaited'[d] # NoRequest =>
          /\ awaited[d] # NoRequest /\ awaited'[d].request = awaited[d].request
          /\ awaited'[d].stage = "accepted" => awaited[d].stage = "accepted"
        BY <1>1, <1>3, Staged
  <2>. QED  BY <1>1, <1>2, <1>3, <2>1, Staged, LateAsked, ServerStep
<1>4. CASE Refuse(c)
  <2>1. \A d \in Client : awaited'[d] # NoRequest => awaited'[d] = awaited[d]
        BY <1>4, Refused
  <2>. QED  BY <1>1, <1>2, <1>4, <2>1, Refused, LateAsked, ServerStep
<1>. QED  BY <1>3, <1>4 DEF Authenticate

LEMMA ServeInv ==
    ASSUME EInv, NEW c \in Client, Serve(c)
    PROVE  EInv'
<1>1. /\ awaited[c] # NoRequest /\ bundle' = bundle /\ made' = made /\ late' = late
      BY DEF Serve
<1>2. CASE CarriesOut(awaited[c].request) /\ Stage(c, "accepted")
  <2>1. PICK m \in Request : m = awaited[c].request /\ Asked(m)
        BY <1>1, AwaitedIs
  <2>2. ServerTypes' /\ ServerOK' /\ Kept /\ Answers(m)'
        BY <1>1, <1>2, <2>1, Served
  <2>3. DoneOf(bundle[c])'
    <3>1. PICK b : b = bundle[c]
          OBVIOUS
    <3>2. /\ m.node = b.node /\ m.expected = b.epoch
          /\ \/ m.kind = "enroll" /\ b.state = "enrollment_pending" /\ m.key = b.key
             \/ m.kind = "prepare" /\ b.state = "rotation_pending" /\ ~b.prepared /\ m.next = b.pending
             \/ m.kind = "commit" /\ b.state = "rotation_pending" /\ b.prepared /\ m.next = b.pending
             \/ m.kind = "revoke" /\ b.state = "revocation_pending" /\ m.key = b.key
          BY <1>1, <2>1, <3>1, AwaitedIs
    <3>3. \A n \in Node : rotation'[b.pending] = [node |-> n, epoch |-> b.epoch, status |-> "committed"]
            /\ b.epoch \in Nat => rotation'[b.pending] # NoRotation
          BY RotationIs
    <3>4. b.node \in Node /\ b.epoch \in Nat
          BY <1>1, <3>1, AwaitedIs DEF Bundle
    <3>5. DoneOf(b)'
          BY <2>2, <3>2, <3>3, <3>4 DEF Answers, DoneOf, At, Rotating
    <3>. QED  BY <1>1, <3>1, <3>5 DEF DoneOf, At, Rotating
  <2>4. \A d \in Client : awaited'[d] # NoRequest =>
          /\ awaited[d] # NoRequest /\ awaited'[d].request = awaited[d].request
          /\ awaited'[d].stage = "accepted" => awaited[d].stage = "accepted" \/ d = c
        BY <1>1, <1>2, Staged
  <2>. QED  BY <1>1, <1>2, <2>2, <2>3, <2>4, Staged, LateAsked, ServerStep
<1>3. CASE Refuse(c) /\ UNCHANGED serverVars
  <2>1. \A d \in Client : awaited'[d] # NoRequest => awaited'[d] = awaited[d]
        BY <1>3, Refused
  <2>2. ServerTypes' /\ ServerOK' /\ Kept
        BY <1>1, <1>3, Unchanged
  <2>. QED  BY <1>1, <1>3, <2>1, <2>2, Refused, LateAsked, ServerStep
<1>. QED  BY <1>2, <1>3 DEF Serve

LEMMA AuthenticateLateInv ==
    ASSUME EInv, NEW l \in late, AuthenticateLate(l)
    PROVE  EInv'
<1> DEFINE a == [l EXCEPT !.authenticated = TRUE]
<1>1. /\ late' = late \cup {a} /\ UNCHANGED <<serverVars, bundle, made>>
      /\ bundle' = bundle /\ made' = made /\ awaited' = awaited
      BY DEF AuthenticateLate
<1>2. ServerTypes' /\ ServerOK' /\ Kept
      BY <1>1, Unchanged
<1>3. l \in Late /\ Asked(l.request)
      BY LateAsked
<1>4. a \in Late /\ a.request = l.request
      BY <1>3 DEF Late
<1>. HIDE DEF a
<1>5. late' \subseteq Late /\ \A x \in late' : Asked(x.request)
      BY <1>1, <1>3, <1>4, LateAsked
<1>6. awaited' \in [Client -> Awaited \cup {NoRequest}]
      BY <1>1 DEF EInv, EnrollTypeOK
<1>. QED  BY <1>1, <1>2, <1>5, <1>6, ServerStep

LEMMA ServeLateInv ==
    ASSUME EInv, NEW l \in late, ServeLate(l)
    PROVE  EInv'
<1>1. /\ CarriesOut(l.request) /\ UNCHANGED <<bundle, made>>
      /\ bundle' = bundle /\ made' = made /\ awaited' = awaited /\ late' = late
      BY DEF ServeLate, clientVars
<1>2. ServerTypes' /\ ServerOK' /\ Kept
      BY <1>1, LateAsked, Served
<1>3. awaited' \in [Client -> Awaited \cup {NoRequest}]
      BY <1>1 DEF EInv, EnrollTypeOK
<1>. QED  BY <1>1, <1>2, <1>3, LateAsked, ServerStep

LEMMA GiveUpInv ==
    ASSUME EInv, NEW c \in Client, GiveUp(c)
    PROVE  EInv'
<1> DEFINE a == [request |-> awaited[c].request, authenticated |-> awaited[c].stage = "authenticated"]
<1>1. /\ awaited[c] # NoRequest /\ Refuse(c) /\ UNCHANGED <<serverVars, bundle, made>>
      /\ bundle' = bundle /\ made' = made /\ late' \subseteq late \cup {a}
      BY DEF GiveUp, Refuse
<1>2. ServerTypes' /\ ServerOK' /\ Kept
      BY <1>1, Unchanged
<1>3. awaited[c].request \in Request /\ Asked(awaited[c].request)
      BY <1>1, AwaitedIs
<1>4. a \in Late /\ a.request = awaited[c].request
      BY <1>3 DEF Late
<1>. HIDE DEF a
<1>5. late' \subseteq Late /\ \A l \in late' : Asked(l.request)
      BY <1>1, <1>3, <1>4, LateAsked
<1>6. \A d \in Client : awaited'[d] # NoRequest => awaited'[d] = awaited[d]
      BY <1>1, Refused
<1>. QED  BY <1>1, <1>2, <1>5, <1>6, Refused, ServerStep

LEMMA EnrollStutter ==
    ASSUME EInv, UNCHANGED <<node, rotation, retired, clientVars>>, invited' \subseteq invited
    PROVE  EInv'
<1>1. /\ node' = node /\ rotation' = rotation /\ retired' = retired
      /\ bundle' = bundle /\ awaited' = awaited /\ late' = late /\ made' = made
      BY DEF clientVars
<1>2. EnrollTypeOK'
      BY <1>1 DEF EInv, EnrollTypeOK
<1>3. Shape' /\ Made' /\ Apart' /\ Retired'
      BY <1>1 DEF EInv, ServerOK, Shape, ShapeOf, Made, Apart, Retired, Mine, Enrolled
<1>4. Registered'
      BY <1>1 DEF EInv, ServerOK, Registered, Has, NotYet, Before, After, Ending, At, Rotating, Unregistered
<1>5. Owned' /\ RotationsOwned'
      BY <1>1 DEF EInv, ServerOK, Owned, RotationsOwned, Active, Mine, Has, Rotating
<1>6. Sent'
      BY <1>1 DEF EInv, Sent, Asked, Calls, Has, Resumes
<1>7. Done'
      BY <1>1 DEF EInv, Done, DoneOf, At, Rotating
<1>. QED  BY <1>2, <1>3, <1>4, <1>5, <1>6, <1>7 DEF EInv, ServerOK

LEMMA EnrollNextInv ==
    ASSUME EInv, EnrollNext
    PROVE  EInv'
<1>1. ASSUME NEW c \in Client, Command(c)
      PROVE  EInv'
      BY <1>1, EnrollInv, AgainInv, RotateInv, RevokeInv DEF Command
<1>2. ASSUME NEW c \in Client, Continue(c)
      PROVE  EInv'
      BY <1>2, EnrollAnsweredInv, PrepareAnsweredInv, CommitAnsweredInv, RevokeAnsweredInv, GiveUpInv
      DEF Continue
<1>3. ASSUME NEW n \in Node, Expire(n)
      PROVE  EInv'
      BY <1>3, EnrollStutter DEF Expire
<1>. QED  BY <1>1, <1>2, <1>3, AuthenticateInv, ServeInv, AuthenticateLateInv, ServeLateInv
          DEF EnrollNext

LEMMA InitEInv == FacilitatorInit => EInv
<1> SUFFICES ASSUME EnrollInit
             PROVE  EInv
    BY DEF FacilitatorInit
<1>0. /\ MaxKeys \in Nat /\ Earlier \in 0..MaxKeys /\ 1..Earlier \subseteq Key
      /\ NoNode \notin Node /\ NoKey \notin Key
      BY EnrollmentAssumption DEF Key
<1>1. ASSUME NEW c \in Client, Member[c] # NoNode
      PROVE  /\ Member[c] \in Node /\ FirstKey[c] \in Key /\ FirstKey[c] <= Earlier
             /\ FirstKey[c] \in Nat
      BY <1>0, <1>1, EnrollmentAssumption
<1>2. ASSUME NEW c \in Client, NEW d \in Client, c # d, Member[c] # NoNode
      PROVE  Member[c] # Member[d] /\ FirstKey[c] # FirstKey[d]
      BY <1>2, EnrollmentAssumption
<1>3. /\ rotation = [k \in Key |-> NoRotation] /\ retired = {} /\ late = {} /\ made = Earlier
      /\ awaited = [c \in Client |-> NoRequest] /\ invited \subseteq Node
      BY DEF EnrollInit
<1>4. ASSUME NEW c \in Client, Member[c] # NoNode
      PROVE  At(Member[c], FirstKey[c], 1, "active")
  <2>1. (CHOOSE d \in Client : Member[d] = Member[c]) = c
    <3>1. \E d \in Client : Member[d] = Member[c]
          OBVIOUS
    <3>2. /\ (CHOOSE d \in Client : Member[d] = Member[c]) \in Client
          /\ Member[CHOOSE d \in Client : Member[d] = Member[c]] = Member[c]
          BY <3>1
    <3>. QED  BY <1>2, <1>4, <3>2
  <2>. QED  BY <1>1, <1>4, <2>1 DEF EnrollInit, At
<1>5. ASSUME NEW n \in Node, node[n] # NoNode
      PROVE  \E c \in Client : Member[c] = n
      BY <1>5 DEF EnrollInit
<1>6. ASSUME NEW c \in Client, Member[c] # NoNode
      PROVE  /\ bundle[c] \in Bundle /\ bundle[c] # NoBundle
             /\ bundle[c].state = "active" /\ bundle[c].node = Member[c] /\ bundle[c].epoch = 1
             /\ bundle[c].key = FirstKey[c] /\ bundle[c].pending = NoKey /\ bundle[c].prepared = FALSE
  <2>1. bundle[c] = ActiveBundle(Member[c], 1, FirstKey[c])
        BY <1>6 DEF EnrollInit
  <2>2. bundle[c] \in Bundle
        BY <1>1, <1>6, <2>1 DEF ActiveBundle, Bundle
  <2>3. bundle[c] # NoBundle
        BY <2>2, AbsentAssumption
  <2>. QED  BY <2>1, <2>2, <2>3 DEF ActiveBundle
<1>7. \A c \in Client : bundle[c] # NoBundle => Member[c] # NoNode
      BY DEF EnrollInit
<1>8. \A c \in Client : Member[c] # NoNode =>
        /\ Member[c] \in Node /\ FirstKey[c] \in Key
        /\ node[Member[c]] # NoNode /\ node[Member[c]].key = FirstKey[c]
        /\ node[Member[c]].status = "active"
  <2>1. ASSUME NEW c \in Client, Member[c] # NoNode
        PROVE  [key |-> FirstKey[c], epoch |-> 1, status |-> "active"] # NoNode
        BY <1>1, <2>1, RegistrationIs
  <2>2. ASSUME NEW c \in Client, Member[c] # NoNode
        PROVE  /\ node[Member[c]] # NoNode /\ node[Member[c]].key = FirstKey[c]
               /\ node[Member[c]].status = "active"
    <3>1. node[Member[c]] = [key |-> FirstKey[c], epoch |-> 1, status |-> "active"]
          BY <1>4, <2>2 DEF At
    <3>2. [key |-> FirstKey[c], epoch |-> 1, status |-> "active"] # NoNode
          BY <2>1, <2>2
    <3>. QED  BY <3>1, <3>2
  <2>. QED  BY <1>1, <2>2
<1>9. EnrollTypeOK
  <2>1. ASSUME NEW n \in Node
        PROVE  node[n] \in Registration \cup {NoNode}
    <3>1. CASE \E c \in Client : Member[c] = n
      <4>1. PICK c \in Client : Member[c] = n
            BY <3>1
      <4>2. Member[c] # NoNode
            BY <1>0, <4>1
      <4>3. FirstKey[c] \in Key /\ node[n] = [key |-> FirstKey[c], epoch |-> 1, status |-> "active"]
            BY <1>1, <1>4, <4>1, <4>2 DEF At
      <4>. QED  BY <4>3, RegistrationIs
    <3>. QED  BY <1>5, <3>1
  <2>2. node \in [Node -> Registration \cup {NoNode}]
        BY <2>1 DEF EnrollInit
  <2>3. bundle \in [Client -> Bundle \cup {NoBundle}]
        BY <1>6, <1>7 DEF EnrollInit
  <2>. QED  BY <1>0, <1>3, <2>2, <2>3 DEF EnrollTypeOK
<1>10. Shape
  <2>1. ASSUME NEW c \in Client, bundle[c] # NoBundle
        PROVE  ShapeOf(bundle[c])
    <3>1. Member[c] # NoNode
          BY <1>7, <2>1
    <3>2. /\ bundle[c].state = "active" /\ bundle[c].epoch = 1 /\ bundle[c].pending = NoKey
          /\ bundle[c].prepared = FALSE /\ bundle[c].key # NoKey
          BY <1>0, <1>1, <1>6, <3>1
    <3>. QED  BY <3>2 DEF ShapeOf
  <2>. QED  BY <2>1 DEF Shape
<1>11. Registered
      BY <1>4, <1>6, <1>7 DEF Registered, Has
<1>12. \A c \in Client, k \in Key : Mine(c, k) <=> Member[c] # NoNode /\ k = FirstKey[c]
      BY <1>0, <1>6, <1>7 DEF Mine
<1>13. ASSUME NEW n \in Node, node[n] # NoNode
       PROVE  \E c \in Client : /\ Member[c] = n /\ Member[c] # NoNode
                                /\ node[n].key = FirstKey[c] /\ node[n].status = "active"
      BY <1>0, <1>5, <1>8, <1>13
<1>14. Apart
  <2>1. \A c, d \in Client : \A k \in Key : Mine(c, k) /\ Mine(d, k) => c = d
        BY <1>2, <1>12
  <2>2. \A c, d \in Client : Enrolled(c) /\ Enrolled(d) /\ bundle[c].node = bundle[d].node => c = d
    <3>1. \A c \in Client : Enrolled(c) => Member[c] # NoNode /\ bundle[c].node = Member[c]
          BY <1>6, <1>7 DEF Enrolled
    <3>. QED  BY <1>2, <3>1
  <2>3. \A x, y \in Node :
          node[x] # NoNode /\ node[y] # NoNode /\ node[x].key = node[y].key => x = y
        BY <1>2, <1>13
  <2>. QED  BY <2>1, <2>2, <2>3 DEF Apart
<1>15. Made /\ Retired
      BY <1>0, <1>1, <1>3, <1>6, <1>12, <1>13 DEF Made, Retired
<1>16. Owned
  <2>1. ASSUME NEW n \in Node, node[n] # NoNode
        PROVE  \E c \in Client : Mine(c, node[n].key) /\ bundle[c].node = n
    <3>1. PICK c \in Client : Member[c] = n /\ Member[c] # NoNode /\ node[n].key = FirstKey[c]
          BY <1>13, <2>1
    <3>2. Mine(c, node[n].key)
          BY <1>8, <1>12, <3>1
    <3>. QED  BY <1>6, <3>1, <3>2
  <2>. QED  BY <2>1 DEF Owned, Active
<1>17. RotationsOwned /\ Sent /\ Done
      BY <1>3 DEF RotationsOwned, Sent, Done
<1>. QED  BY <1>9, <1>10, <1>11, <1>14, <1>15, <1>16, <1>17 DEF EInv, ServerOK

(* Every step of the facilitator is a step of the gate or leaves it alone. *)
LEMMA FacilitatorStep == EInv /\ [FacilitatorNext]_<<vars, enrollVars>> => EInv' /\ [Next]_vars
<1> SUFFICES ASSUME EInv, [FacilitatorNext]_<<vars, enrollVars>>
             PROVE  EInv' /\ [Next]_vars
    OBVIOUS
<1>1. CASE HostedRequests \/ UNCHANGED <<vars, enrollVars>>
  <2>1. UNCHANGED <<node, rotation, retired, clientVars>> /\ invited' = invited
        BY <1>1 DEF HostedRequests, enrollVars, serverVars
  <2>2. [Next]_vars
        BY <1>1 DEF HostedRequests
  <2>. QED  BY <2>1, <2>2, EnrollStutter
<1>2. CASE EnrollNext /\ UNCHANGED vars
      BY <1>2, EnrollNextInv
<1>. QED  BY <1>1, <1>2 DEF FacilitatorNext

LEMMA EInvResumes == EInv => ResumeIsAccepted
<1> SUFFICES ASSUME EInv, NEW c \in Client, bundle[c] # NoBundle
             PROVE  LET b == bundle[c] IN
                    IF b.state = "enrollment_pending"
                    THEN node[b.node] # NoNode /\ node[b.node].key = b.key => Accepts(Resumes(b))
                    ELSE Authenticates(Resumes(b)) /\ Accepts(Resumes(b))
    BY DEF ResumeIsAccepted
<1> DEFINE b == bundle[c]
           m == Resumes(b)
<1>1. /\ b \in Bundle /\ ShapeOf(b) /\ RegisteredAs(b) /\ b.pending \notin retired
      /\ b.node \in Node /\ b.epoch \in Nat /\ b.key \in Key
      /\ b.state = "rotation_pending" => b.pending \in Key
      BY FitsAlready, BundleTyped DEF Fits
<1>2. ASSUME NEW k \in Key, NEW epoch \in Nat, At(b.node, k, epoch, "active")
      PROVE  Holds(b.node, k) /\ Active(b.node) /\ node[b.node].epoch = epoch
  <2>1. [key |-> k, epoch |-> epoch, status |-> "active"] # NoNode
        BY <1>2, RegistrationIs
  <2>. QED  BY <1>2, <2>1 DEF At, Holds, Active
<1>3. CASE b.state = "enrollment_pending"
  <2>1. m = [kind |-> "enroll", node |-> b.node, expected |-> b.epoch, key |-> b.key, next |-> b.key]
        BY <1>3 DEF Resumes
  <2>2. SUFFICES ASSUME node[b.node] # NoNode, node[b.node].key = b.key
                 PROVE  Accepts(m)
        BY <1>3
  <2>3. At(b.node, b.key, 1, "active")
        BY <1>1, <1>3, <2>2 DEF RegisteredAs, NotYet, Unregistered
  <2>. QED  BY <1>1, <1>2, <2>1, <2>3 DEF Accepts, AcceptsEnroll
<1>4. CASE b.state \in {"active", "revocation_pending"}
  <2>1. m = [kind |-> "revoke", node |-> b.node, expected |-> b.epoch, key |-> b.key, next |-> b.key]
        BY <1>4 DEF Resumes
  <2>2. \/ At(b.node, b.key, b.epoch, "active")
        \/ At(b.node, b.key, b.epoch + 1, "revoked")
        BY <1>1, <1>4 DEF RegisteredAs, Ending
  <2>3. CASE At(b.node, b.key, b.epoch, "active")
        BY <1>1, <1>2, <1>4, <2>1, <2>3 DEF Accepts, AcceptsRevoke, Authenticates
  <2>4. CASE At(b.node, b.key, b.epoch + 1, "revoked")
    <3>1. [key |-> b.key, epoch |-> b.epoch + 1, status |-> "revoked"] # NoNode
      <4>1. b.epoch + 1 \in Nat
            BY <1>1
      <4>. QED  BY <1>1, <4>1, RegistrationIs
    <3>2. RevokedBy(m)
          BY <2>1, <2>4, <3>1 DEF RevokedBy, At
    <3>. QED  BY <1>4, <2>1, <3>2 DEF Accepts, AcceptsRevoke, Authenticates
  <2>. QED  BY <2>2, <2>3, <2>4
<1>5. CASE b.state = "rotation_pending" /\ ~b.prepared
  <2>1. m = [kind |-> "prepare", node |-> b.node, expected |-> b.epoch, key |-> b.key,
             next |-> b.pending]
        BY <1>5 DEF Resumes
  <2>2. Before(b)
        BY <1>1, <1>5 DEF RegisteredAs, After
  <2>3. Holds(b.node, b.key) /\ Active(b.node) /\ node[b.node].epoch = b.epoch
        BY <1>1, <1>2, <2>2 DEF Before
  <2>4. Authenticates(m)
        BY <2>1, <2>3 DEF Authenticates
  <2>5. CASE rotation[b.pending] # NoRotation
    <3>1. rotation[b.pending] = [node |-> b.node, epoch |-> b.epoch, status |-> "prepared"]
          BY <2>2, <2>5 DEF Before, Rotating
    <3>. QED  BY <1>5, <2>1, <2>4, <2>5, <3>1 DEF Accepts, AcceptsPrepare
  <2>6. CASE rotation[b.pending] = NoRotation
    <3>1. ASSUME NEW k \in Key, rotation[k] # NoRotation, rotation[k].node = b.node,
                 rotation[k].epoch = b.epoch
          PROVE  FALSE
      <4>1. PICK d \in Client :
              Has(d, "rotation_pending") /\ bundle[d].pending = k /\ Rotating(bundle[d], "prepared")
            BY <1>1, <2>3, <3>1 DEF EInv, ServerOK, RotationsOwned
      <4>2. bundle[d].node = b.node
            BY <3>1, <4>1 DEF Rotating
      <4>3. d = c
            BY <1>5, <4>1, <4>2 DEF EInv, ServerOK, Apart, Enrolled, Has
      <4>. QED  BY <2>6, <3>1, <4>1, <4>3
    <3>2. AcceptsPrepare(m)
          BY <2>1, <2>3, <2>6, <3>1 DEF AcceptsPrepare
    <3>. QED  BY <1>5, <2>1, <2>4, <3>2 DEF Accepts
  <2>. QED  BY <2>5, <2>6
<1>6. CASE b.state = "rotation_pending" /\ b.prepared
  <2>1. m = [kind |-> "commit", node |-> b.node, expected |-> b.epoch, key |-> b.pending,
             next |-> b.pending]
        BY <1>6 DEF Resumes
  <2>2. CASE Before(b)
    <3>1. Active(b.node) /\ node[b.node].epoch = b.epoch
          BY <1>1, <1>2, <2>2 DEF Before
    <3>2. rotation[b.pending] = [node |-> b.node, epoch |-> b.epoch, status |-> "prepared"]
          BY <1>6, <2>2 DEF Before, Rotating
    <3>3. rotation[b.pending] # NoRotation
          BY <1>1, <3>2, RotationIs
    <3>4. Prepared(b.node, b.pending)
          BY <3>2, <3>3 DEF Prepared
    <3>5. CanCommit(m)
          BY <1>1, <2>1, <2>2, <3>1, <3>2 DEF CanCommit, Before, Unregistered
    <3>. QED  BY <1>6, <2>1, <3>1, <3>2, <3>3, <3>4, <3>5 DEF Authenticates, Accepts, AcceptsCommit
  <2>3. CASE After(b)
    <3>1. Holds(b.node, b.pending) /\ node[b.node].epoch = b.epoch + 1
          BY <1>1, <1>2, <1>6, <2>3 DEF After
    <3>2. rotation[b.pending] = [node |-> b.node, epoch |-> b.epoch, status |-> "committed"]
          BY <2>3 DEF After, Rotating
    <3>3. rotation[b.pending] # NoRotation
          BY <1>1, <3>2, RotationIs
    <3>. QED  BY <1>6, <2>1, <3>1, <3>2, <3>3 DEF Authenticates, Accepts, AcceptsCommit, IsCommitted
  <2>. QED  BY <1>1, <1>6, <2>2, <2>3 DEF RegisteredAs
<1>. QED  BY <1>1, <1>3, <1>4, <1>5, <1>6 DEF Bundle

LEMMA EInvHeld == EInv => AcceptedIsHeld
<1> SUFFICES ASSUME EInv, NEW n \in Node, NEW k \in Key,
                    Holds(n, k) \/ (Prepared(n, k) /\ Active(n))
             PROVE  /\ k \notin retired
                    /\ \E c \in Client : /\ bundle[c] # NoBundle
                                         /\ bundle[c].node = n
                                         /\ k \in {bundle[c].key, bundle[c].pending}
    BY DEF AcceptedIsHeld
<1>1. CASE Holds(n, k)
      BY <1>1 DEF EInv, ServerOK, Retired, Owned, Holds, Active, Mine
<1>2. CASE Prepared(n, k)
  <2>1. PICK c \in Client :
          Has(c, "rotation_pending") /\ bundle[c].pending = k /\ Rotating(bundle[c], "prepared")
        BY <1>2 DEF EInv, ServerOK, RotationsOwned, Prepared
  <2>2. bundle[c] # NoBundle /\ bundle[c].node = n
        BY <1>2, <2>1 DEF Prepared, Rotating, Has
  <2>. QED  BY <2>1, <2>2 DEF EInv, ServerOK, Retired
<1>. QED  BY <1>1, <1>2

-----------------------------------------------------------------------------
(* What the Facilitator and the nodes' secret stores say of each other     *)
(* (repository.py, hosted_enrollment.py), after any number of commands,    *)
(* late requests, timeouts and restarts, and beside any payments.          *)
THEOREM Enrollments == FacilitatorSpec => []EInv
BY InitEInv, FacilitatorStep, PTL DEF FacilitatorSpec

(* The tables of node registrations and the secret stores keep their types. *)
THEOREM EnrollmentTypes == FacilitatorSpec => []EnrollTypeOK
<1>1. EInv => EnrollTypeOK
      BY DEF EInv
<1>. QED  BY <1>1, Enrollments, PTL

(* Wherever a command of hosted_enrollment.py died, resuming it sends a     *)
(* request that app.py authenticates and repository.py accepts.             *)
THEOREM EnrollmentResumes == FacilitatorSpec => []ResumeIsAccepted
BY Enrollments, EInvResumes, PTL

(* A credential the Facilitator accepts, or would accept a rotation to, is *)
(* in some node's secret store and was never retired, for any clients,     *)
(* nodes and number of keys (prepare_rotation, commit_rotation, revoke).   *)
THEOREM EnrollmentHeld == FacilitatorSpec => []AcceptedIsHeld
BY Enrollments, EInvHeld, PTL

(* Whatever becomes of the nodes' credentials, the gate only takes steps   *)
(* it could take if all of them stayed registered: every theorem about the *)
(* gate holds of the facilitator as a whole.                               *)
THEOREM FacilitatorGate == FacilitatorSpec => Spec
<1>1. FacilitatorInit => Init
      BY DEF FacilitatorInit
<1>. QED  BY <1>1, InitEInv, FacilitatorStep, PTL DEF FacilitatorSpec, Spec
=============================================================================
