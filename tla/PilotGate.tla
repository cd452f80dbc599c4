----------------------------- MODULE PilotGate -----------------------------
(***************************************************************************)
(* The pilot gate of hosted execution: pauses, admission quotas and daily  *)
(* gas budgets (pilot_gate.py and the gate tables of                       *)
(* execution_repository.py), as the relayer's workers, the operator and    *)
(* the watcher meet them.  HostedExecution models the same rows without a  *)
(* gate; here nonces and the chain are left out and the gate is kept.      *)
(*                                                                         *)
(* A repository method is one transaction under the gate's advisory locks, *)
(* hence one step.  Its timestamp was read before the locks were taken, so *)
(* a method may charge a day that is already over.                         *)
(***************************************************************************)
EXTENDS Integers, FiniteSets, Sums

CONSTANTS
    Execution,      \* intents, named by their execution id
    Legacy,         \* those that existed before the gate's migration
    Node, Tenant,
    NodeOf,         \* the node of each execution
    TenantOf,       \* the tenant of each node
    Worker,         \* processes inside execute, or the operator's command
    Cost,           \* worst-case gas costs a fee quote can lead to
    Deadline,       \* deadline of each intent
    Lease,          \* SIGNING_CLAIM_LEASE_SECONDS
    DayLength,      \* SECONDS_PER_UTC_DAY
    MaxInFlight, MaxDaily, MaxLifetime, \* admission quotas of a node
    NodeGas, PlatformGas,               \* gas budgets of a UTC day
    Controlled,     \* scopes that an operator pauses and resumes
    MaxTime,        \* bound on the clock
    MaxClaims,      \* bound on signing claims of one execution
    NoJob           \* no execution

(* The scopes of a pause: everything, one tenant, one node. *)
Scope == {<<"platform">>} \cup ({"tenant"} \X Tenant) \cup ({"node"} \X Node)

ASSUME GateAssumption ==
    /\ IsFiniteSet(Execution)
    /\ Legacy \subseteq Execution
    /\ NodeOf \in [Execution -> Node]
    /\ TenantOf \in [Node -> Tenant]
    /\ Cost \subseteq Nat \ {0}
    /\ Deadline \in [Execution -> Nat]
    /\ Lease \in Nat \ {0}
    /\ DayLength \in Nat \ {0}
    /\ {MaxInFlight, MaxDaily, MaxLifetime, NodeGas, PlatformGas} \subseteq Nat \ {0}
    /\ Controlled \subseteq Scope
    /\ MaxTime \in Nat
    /\ MaxClaims \in Nat
    /\ NoJob \notin Execution

VARIABLES
    now,        \* the clock
    paused,     \* scopes whose hosted_gate_controls row is paused
    row,        \* the hosted_executions table
    gate,       \* the hosted_gate_reservations table
    worker,     \* program counter and local variables of each worker
    sent        \* executions some broadcast of which was authorised (history)

vars == <<now, paused, row, gate, worker, sent>>

Unsigned == {"preflight_approved", "signing"}
Broadcast == {"submitted", "submission_unknown", "submission_rejected"}
Settled == {"finalized", "reverted", "reorg_review"}
Status == {"none", "signed", "confirmed", "released"} \cup Unsigned \cup Broadcast \cup Settled

NoDay == -1
utc_day(t) == t \div DayLength

(* cost is the worst-case gas of the raw transaction, 0 before it exists.   *)
Row == [status : Status, generation : Nat, lease : Nat, cost : Nat]
Gate == [state : {"none", "reserved", "settled", "released"},
         day : Int, gas : Nat, gasDay : Int]
PC == {"idle", "allocate", "claim_signing", "claimed", "reserve_gas", "reserved",
       "persist", "persisted", "claim_submission", "rebroadcast"}
Local == [pc : PC, job : Execution \cup {NoJob}, clock : Nat, generation : Nat, cost : Nat]

Idle == [pc |-> "idle", job |-> NoJob, clock |-> 0, generation |-> 0, cost |-> 0]
NewGate(day) == [state |-> "reserved", day |-> day, gas |-> 0, gasDay |-> NoDay]

(* The type of every variable. *)
TypeOK ==
    /\ now \in Nat
    /\ paused \subseteq Scope
    /\ row \in [Execution -> Row]
    /\ gate \in [Execution -> Gate]
    /\ worker \in [Worker -> Local]
    /\ sent \subseteq Execution

(* The migration gives every execution it finds a reservation without gas  *)
(* and pauses the platform until an operator has reviewed it.              *)
Init ==
    /\ now = 0
    /\ paused = {<<"platform">>}
    /\ row \in [Execution -> [status : {"none"}, generation : {0}, lease : {0}, cost : {0}]
                             \cup [status : {"preflight_approved"}, generation : {0},
                                   lease : {0}, cost : {0}]
                             \cup [status : {"signed", "submission_unknown"}, generation : {1},
                                   lease : {0}, cost : {c \in Cost : c <= NodeGas}]]
    /\ \A e \in Execution : row[e].status = "none" <=> e \notin Legacy
    /\ gate = [e \in Execution |->
                  IF e \in Legacy THEN NewGate(0) ELSE [NewGate(NoDay) EXCEPT !.state = "none"]]
    /\ worker = [w \in Worker |-> Idle]
    /\ sent = {e \in Execution : row[e].status = "submission_unknown"}

-----------------------------------------------------------------------------
(* Decisions of the gate. *)

(* The three controls that _pilot_admission_denial reads. *)
Paused(n) ==
    {<<"platform">>, <<"tenant", TenantOf[n]>>, <<"node", n>>} \cap paused # {}

Of(n) == {e \in Execution : NodeOf[e] = n /\ gate[e].state # "none"}
InFlight(n) == {e \in Of(n) : gate[e].state = "reserved"}
Accepted(n, day) == {e \in Of(n) : gate[e].day = day}

Admits(n, t) ==
    /\ ~Paused(n)
    /\ Cardinality(InFlight(n)) < MaxInFlight
    /\ Cardinality(Accepted(n, utc_day(t))) < MaxDaily
    /\ Cardinality(Of(n)) < MaxLifetime

(* _pilot_gas_total: every reservation charged to the day, whatever its state. *)
GasTotal(S, day) ==
    SumOver([e \in Execution |-> gate[e].gas], {e \in S : gate[e].gasDay = day})

OnNode(n) == {e \in Execution : NodeOf[e] = n}

(* The budgets of the node and of the platform on that day, without e. *)
GasFits(e, cost, day) ==
    /\ GasTotal(OnNode(NodeOf[e]) \ {e}, day) + cost <= NodeGas
    /\ GasTotal(Execution \ {e}, day) + cost <= PlatformGas

(* _ensure_pilot_gas_reservation: what e must be charged before a broadcast *)
(* on that day; an execution signed before the gate existed is charged a    *)
(* whole day of its node.                                                   *)
GasDue(e) == IF gate[e].gas > 0 THEN gate[e].gas ELSE NodeGas
FaultGasEnsured(e, day) == gate[e].gas > 0 \/ GasFits(e, GasDue(e), day)
GasEnsured(e, day) ==
    \/ gate[e].gas > 0 /\ gate[e].gasDay = day
    \/ GasFits(e, GasDue(e), day)
Charged(e, cost, day) == [gate EXCEPT ![e].gas = cost, ![e].gasDay = day]

-----------------------------------------------------------------------------
(* Workers. *)

Become(w, local) == worker' = [worker EXCEPT ![w] = local]
Leave(w) == Become(w, Idle)
Job(w) == worker[w].job
MayContinue(w) == ~Paused(NodeOf[Job(w)])

(* A denial is raised to the caller and changes nothing but the event log. *)
Denied(w) == Leave(w) /\ UNCHANGED <<now, paused, row, gate, sent>>

(* HostedRelayer.execute up to its first repository write; the clock it    *)
(* reads here also serves allocation and the signing claim.                *)
Execute(w, e) ==
    /\ worker[w].pc = "idle"
    /\ now < Deadline[e]
    /\ \E pc \in {"allocate", "claim_signing", "claim_submission"} :
        /\ pc = "allocate" <=> row[e].status = "none"
        /\ pc = "claim_signing" <=> row[e].status \in Unsigned
        /\ pc = "claim_submission" <=> row[e].status = "signed"
        /\ Become(w, [Idle EXCEPT !.pc = pc, !.job = e, !.clock = now])
    /\ UNCHANGED <<now, paused, row, gate, sent>>

(* allocate_or_return; another request may have allocated the execution.   *)
Allocate(w) ==
    LET e == Job(w)
        t == worker[w].clock
    IN  /\ worker[w].pc = "allocate"
        /\ \/ /\ row[e].status = "none"
              /\ Admits(NodeOf[e], t)
              /\ row' = [row EXCEPT ![e].status = "preflight_approved"]
              /\ gate' = [gate EXCEPT ![e] = NewGate(utc_day(t))]
              /\ Become(w, [worker[w] EXCEPT !.pc = "claim_signing"])
              /\ UNCHANGED <<now, paused, sent>>
           \/ /\ row[e].status \in Unsigned
              /\ Become(w, [worker[w] EXCEPT !.pc = "claim_signing"])
              /\ UNCHANGED <<now, paused, row, gate, sent>>
           \/ /\ row[e].status = "signed"
              /\ Become(w, [Idle EXCEPT !.pc = "persisted", !.job = e])
              /\ UNCHANGED <<now, paused, row, gate, sent>>
           \/ /\ row[e].status = "none" => ~Admits(NodeOf[e], t)
              /\ row[e].status \notin Unsigned \cup {"signed"}
              /\ Denied(w)

(* claim_signing: a new claim, or one whose lease has run out. *)
ClaimSigning(w) ==
    LET e == Job(w)
        t == worker[w].clock
        free == \/ row[e].status = "preflight_approved"
                \/ row[e].status = "signing" /\ t >= row[e].lease
    IN  /\ worker[w].pc = "claim_signing"
        /\ \/ /\ MayContinue(w) /\ t < Deadline[e] /\ free
              /\ row[e].generation < MaxClaims
              /\ row' = [row EXCEPT ![e].status = "signing",
                                    ![e].generation = @ + 1,
                                    ![e].lease = Min({Deadline[e], t + Lease})]
              /\ Become(w, [worker[w] EXCEPT !.pc = "claimed", !.clock = 0,
                                             !.generation = row[e].generation + 1])
              /\ UNCHANGED <<now, paused, gate, sent>>
           \/ ~(MayContinue(w) /\ t < Deadline[e] /\ free) /\ Denied(w)

(* _sign quotes the fees and reads the clock. *)
Quote(w, cost) ==
    /\ worker[w].pc = "claimed"
    /\ now < Deadline[Job(w)]
    /\ Become(w, [worker[w] EXCEPT !.pc = "reserve_gas", !.cost = cost, !.clock = now])
    /\ UNCHANGED <<now, paused, row, gate, sent>>

FaultClaimIgnored(w) == worker[w].generation > 0
ClaimHeld(w) == worker[w].generation = row[Job(w)].generation

(* reserve_pilot_gas: replaces what an earlier claim had reserved. *)
ReservePilotGas(w) ==
    LET e == Job(w)
        day == utc_day(worker[w].clock)
        may == /\ row[e].status = "signing"
               /\ ClaimHeld(w)
               /\ gate[e].state = "reserved"
               /\ MayContinue(w)
               /\ GasFits(e, worker[w].cost, day)
    IN  /\ worker[w].pc = "reserve_gas"
        /\ \/ /\ may
              /\ gate' = Charged(e, worker[w].cost, day)
              /\ Become(w, [worker[w] EXCEPT !.pc = "reserved", !.clock = 0])
              /\ UNCHANGED <<now, paused, row, sent>>
           \/ ~may /\ Denied(w)

(* Between two repository calls the relayer reads its clock again. *)
ReadClock(w) ==
    /\ worker[w].pc \in {"reserved", "persisted"}
    /\ now < Deadline[Job(w)]
    /\ Become(w, [worker[w] EXCEPT !.clock = now,
                     !.pc = IF @ = "reserved" THEN "persist" ELSE "claim_submission"])
    /\ UNCHANGED <<now, paused, row, gate, sent>>

(* persist_signed_transaction. *)
PersistSigned(w) ==
    LET e == Job(w)
        may == /\ row[e].status = "signing"
               /\ worker[w].generation = row[e].generation
               /\ MayContinue(w)
               /\ gate[e].state = "reserved"
               /\ gate[e].gas > 0
               /\ gate[e].gasDay # NoDay
    IN  /\ worker[w].pc = "persist"
        /\ \/ /\ may
              /\ row' = [row EXCEPT ![e].status = "signed", ![e].lease = 0,
                                    ![e].cost = worker[w].cost]
              /\ Become(w, [Idle EXCEPT !.pc = "persisted", !.job = e])
              /\ UNCHANGED <<now, paused, gate, sent>>
           \/ ~may /\ Denied(w)

(* claim_submission charges the day before it looks whether there is        *)
(* anything left to submit; the claim is the authorisation to broadcast.    *)
ClaimSubmission(w) ==
    LET e == Job(w)
        day == utc_day(worker[w].clock)
        may == /\ row[e].status \in {"signed", "submission_unknown"}
               /\ gate[e].state = "reserved"
               /\ MayContinue(w)
               /\ GasEnsured(e, day)
    IN  /\ worker[w].pc = "claim_submission"
        /\ \/ /\ may
              /\ gate' = Charged(e, GasDue(e), day)
              /\ row' = [row EXCEPT ![e].status = "submission_unknown"]
              /\ sent' = sent \cup {e}
              /\ Leave(w)
              /\ UNCHANGED <<now, paused>>
           \/ ~may /\ Denied(w)

(* The operator's rebroadcast of the identical transaction. *)
BeginRebroadcast(w, e) ==
    /\ worker[w].pc = "idle"
    /\ row[e].status \in Broadcast
    /\ Become(w, [Idle EXCEPT !.pc = "rebroadcast", !.job = e, !.clock = now])
    /\ UNCHANGED <<now, paused, row, gate, sent>>

Rebroadcast(w) ==
    LET e == Job(w)
        day == utc_day(worker[w].clock)
        may == /\ row[e].status \in Broadcast
               /\ gate[e].state = "reserved"
               /\ MayContinue(w)
               /\ GasEnsured(e, day)
    IN  /\ worker[w].pc = "rebroadcast"
        /\ \/ /\ may
              /\ gate' = Charged(e, GasDue(e), day)
              /\ Leave(w)
              /\ UNCHANGED <<now, paused, row, sent>>
           \/ ~may /\ Denied(w)

(* A worker dies, or an RPC call or a signer fails. *)
Abandon(w) ==
    /\ worker[w].pc # "idle"
    /\ Denied(w)

-----------------------------------------------------------------------------
(* Outcomes, recorded by the relayer and the watcher. *)

(* _mark_gate_terminal: a reservation that is already closed otherwise      *)
(* makes the whole transaction fail.                                        *)
CanClose(e, state) == gate[e].state \in {"reserved", state}
MarkGateTerminal(e, state, clearGas) ==
    gate' = IF gate[e].state = state THEN gate
            ELSE [gate EXCEPT ![e].state = state,
                              ![e].gas = IF clearGas THEN 0 ELSE @,
                              ![e].gasDay = IF clearGas THEN NoDay ELSE @]

Move(e, status) == row' = [row EXCEPT ![e].status = status]

(* release_expired, by the watcher or by execute after the deadline. *)
ReleaseExpired(e) ==
    /\ row[e].status \in Unsigned
    /\ now >= Deadline[e]
    /\ CanClose(e, "released")
    /\ row' = [row EXCEPT ![e].status = "released", ![e].lease = 0]
    /\ MarkGateTerminal(e, "released", TRUE)
    /\ UNCHANGED <<now, paused, worker, sent>>

(* mark_submitted and mark_submission_rejected. *)
MarkSubmission(e, status) ==
    /\ row[e].status \in Broadcast \ {"submitted"}
    /\ Move(e, status)
    /\ UNCHANGED <<now, paused, gate, worker, sent>>

Confirm(e) ==
    /\ row[e].status \in Broadcast
    /\ Move(e, "confirmed")
    /\ UNCHANGED <<now, paused, gate, worker, sent>>

Finalize(e) ==
    /\ row[e].status = "confirmed"
    /\ CanClose(e, "settled")
    /\ Move(e, "finalized")
    /\ MarkGateTerminal(e, "settled", FALSE)
    /\ UNCHANGED <<now, paused, worker, sent>>

(* A reverted receipt has burned its gas: the charge stays. *)
Revert(e) ==
    /\ row[e].status \in Broadcast
    /\ CanClose(e, "settled")
    /\ Move(e, "reverted")
    /\ MarkGateTerminal(e, "settled", FALSE)
    /\ UNCHANGED <<now, paused, worker, sent>>

(* release_reverted closes the reservation through _release_gate_reservation. *)
ReleaseReverted(e) ==
    /\ row[e].status = "reverted"
    /\ gate[e].state \in {"reserved", "settled"}
    /\ Move(e, "released")
    /\ gate' = [gate EXCEPT ![e].state = "released"]
    /\ UNCHANGED <<now, paused, worker, sent>>

MarkReorgReview(e) ==
    /\ row[e].status = "finalized"
    /\ Move(e, "reorg_review")
    /\ UNCHANGED <<now, paused, gate, worker, sent>>

(* set_pilot_pause, by an operator. *)
SetPilotPause(scope) ==
    /\ paused' = IF scope \in paused THEN paused \ {scope} ELSE paused \cup {scope}
    /\ UNCHANGED <<now, row, gate, worker, sent>>

Tick ==
    /\ now < MaxTime
    /\ now' = now + 1
    /\ UNCHANGED <<paused, row, gate, worker, sent>>

WorkerNext(w) ==
    \/ \E e \in Execution : Execute(w, e) \/ BeginRebroadcast(w, e)
    \/ Allocate(w) \/ ClaimSigning(w)
    \/ \E cost \in Cost : Quote(w, cost)
    \/ ReservePilotGas(w) \/ ReadClock(w) \/ PersistSigned(w)
    \/ ClaimSubmission(w) \/ Rebroadcast(w) \/ Abandon(w)

RowNext(e) ==
    \/ ReleaseExpired(e)
    \/ \E status \in {"submitted", "submission_rejected"} : MarkSubmission(e, status)
    \/ Confirm(e) \/ Finalize(e) \/ Revert(e) \/ ReleaseReverted(e) \/ MarkReorgReview(e)

Next ==
    \/ \E w \in Worker : WorkerNext(w)
    \/ \E e \in Execution : RowNext(e)
    \/ \E scope \in Controlled : SetPilotPause(scope)
    \/ Tick

Spec == Init /\ [][Next]_vars

-----------------------------------------------------------------------------
(* The gas charged to any one day stays within the node's and the          *)
(* platform's budget of that day, although workers charge days from stale  *)
(* clocks and a broadcast on another day moves its charge there            *)
(* (_pilot_gas_total, _ensure_pilot_gas_reservation).                      *)
DailyGasBounded ==
    \A day \in 0..utc_day(MaxTime) :
        /\ \A n \in Node : GasTotal(OnNode(n), day) <= NodeGas
        /\ GasTotal(Execution, day) <= PlatformGas

(* A node's admitted executions stay within its in-flight, daily and        *)
(* lifetime quotas (_pilot_admission_denial) however many requests race,    *)
(* if the executions that the migration admitted unasked left room.         *)
QuotasHold ==
    \A n \in Node :
        /\ Cardinality(InFlight(n)) <= MaxInFlight
        /\ \A day \in 0..utc_day(MaxTime) : Cardinality(Accepted(n, day)) <= MaxDaily
        /\ Cardinality(Of(n)) <= MaxLifetime

(* Once a signed transaction was authorised for broadcast under the gate,  *)
(* some day is charged at least the gas that transaction can burn, and the *)
(* charge is never given back, although signing claims expire, other       *)
(* workers quote other fees and reverted executions are released           *)
(* (reserve_pilot_gas, claim_submission, _mark_gate_terminal).  An         *)
(* execution that was sent before the gate existed is charged in full or   *)
(* not at all.                                                             *)
SentIsMetered ==
    \A e \in sent :
        \/ row[e].cost > 0 /\ gate[e].gas >= row[e].cost /\ gate[e].gasDay # NoDay
        \/ e \in Legacy /\ gate[e].gas = 0

(* A gate reservation is open exactly as long as its execution is: no slot *)
(* leaks when an execution ends, none is freed while one may still pay,    *)
(* and hence closing one never conflicts (_mark_gate_terminal).            *)
GateFollowsExecution ==
    \A e \in Execution :
        gate[e].state = (CASE row[e].status = "none" -> "none"
                           [] row[e].status \in Settled -> "settled"
                           [] row[e].status = "released" -> "released"
                           [] OTHER -> "reserved")
=============================================================================
