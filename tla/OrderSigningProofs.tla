------------------------- MODULE OrderSigningProofs -------------------------
(***************************************************************************)
(* Proofs about VenueFunding, for any set of operations and of requests,   *)
(* and about OrderSigning, for any sessions and any number of requests.    *)
(***************************************************************************)
EXTENDS OrderSigning, TLAPS

-----------------------------------------------------------------------------
(* Funding the venue.                                                      *)

(* The stages before Core is asked to settle. *)
Before == {"none", "created", "confirmed", "action_creating", "action_unknown",
    "action_created", "policy_evaluating", "policy_unknown", "policy_approved",
    "reservation_creating", "reserved", "transaction_prepared"}

(* The calls that belong to these stages. *)
EarlyCall == {"confirm", "create_action", "evaluate_policy", "reserve", "reserved"}

Unloaded == {"idle", "claim", "deposit", "create"}

(* What a request has read of its operation is a version of the row that   *)
(* existed: if the revision has not changed, nothing has.                  *)
Snapshot(s) ==
    /\ s.pc # "idle" => s.o \in Operation
    /\ s.pc \notin Unloaded =>
          /\ op[s.o].status # "none"
          /\ s.seen.revision <= op[s.o].revision
          /\ s.seen.revision = op[s.o].revision => s.seen = op[s.o]
    /\ s.pc \in EarlyCall => s.seen.status \in Before

Snapshots == \A w \in Worker : Snapshot(worker[w])

(* Whoever is about to ask Core is alone, and the first.                   *)
CallTurn ==
    /\ \A o \in Operation : op[o].status \in Before => asked[o] = 0
    /\ \A w \in Worker : worker[w].pc = "settle" =>
          /\ op[worker[w].o].status \notin Before
          /\ asked[worker[w].o] = 0
          /\ \A v \in Worker : v # w /\ worker[v].pc = "settle" => worker[v].o # worker[w].o
    /\ AskedOnce

Inv == TypeOK /\ Snapshots /\ CallTurn

LEMMA IdleTyped ==
    /\ NewOp \in OpRow /\ NewOp.status = "none"
    /\ NoRow \in CoreRow
    /\ Idle \in Local /\ Idle.pc = "idle"
<1>1. NewOp \in OpRow /\ NewOp.status = "none"
      BY DEF NewOp, OpRow, Status, CoreState
<1>2. NoRow \in CoreRow
      BY DEF NoRow, CoreRow, CoreState
<1>. QED  BY <1>1, <1>2 DEF Idle, Local, PC

LEMMA InitInv == Init => Inv
<1> SUFFICES ASSUME Init
             PROVE  Inv
    OBVIOUS
<1>1. TypeOK
      BY IdleTyped DEF Init, TypeOK
<1>2. \A w \in Worker : worker[w].pc = "idle"
      BY IdleTyped DEF Init
<1>3. Snapshots
      BY <1>2 DEF Snapshots, Snapshot, Unloaded, EarlyCall
<1>4. CallTurn
      BY <1>2 DEF Init, CallTurn, AskedOnce
<1>. QED  BY <1>1, <1>3, <1>4 DEF Inv

(* Core answers with a reservation. *)
LEMMA CoreTyped ==
    ASSUME TypeOK, NEW o \in Operation, NEW kind
    PROVE  Reconciled(o) \in CoreRow /\ Done(kind, o) \in CoreRow
<1> DEFINE r == core[o]
<1>1. r \in CoreRow
      BY DEF TypeOK
<1>2. \A s \in CoreState : [r EXCEPT !.state = s] \in CoreRow
      BY <1>1 DEF CoreRow
<1>3. /\ [r EXCEPT !.retryable = ~ r.sealed] \in CoreRow
      /\ [r EXCEPT !.state = "spending_reserved", !.sealed = TRUE] \in CoreRow
      /\ [r EXCEPT !.state = "payment_submitted", !.risk = "pending", !.retryable = FALSE] \in CoreRow
      /\ [r EXCEPT !.state = "released", !.retryable = FALSE] \in CoreRow
      BY <1>1 DEF CoreRow, CoreState
<1>4. Reconciled(o) \in CoreRow
      BY <1>1, <1>2, <1>3 DEF Reconciled, CoreState
<1>5. Done(kind, o) \in CoreRow
      BY <1>1, <1>2, <1>3, <1>4 DEF Done, CoreState
<1>. QED  BY <1>4, <1>5

(* A step of worker w that leaves the operations alone. *)
LEMMA QuietWorker ==
    ASSUME Inv, TypeOK', UNCHANGED <<op, asked>>,
           NEW w \in Worker, NEW s \in Local, Become(w, s), s.pc # "settle", Snapshot(s)
    PROVE  Inv'
<1>1. worker'[w] = s /\ \A v \in Worker : v # w => worker'[v] = worker[v]
      BY DEF Inv, TypeOK, Become
<1>2. Snapshots'
      BY <1>1 DEF Inv, Snapshots, Snapshot
<1>3. CallTurn'
      BY <1>1 DEF Inv, CallTurn, AskedOnce
<1>. QED  BY <1>2, <1>3 DEF Inv

(* A compare-and-set that worker w wins. *)
LEMMA WonCas ==
    ASSUME Inv, TypeOK', UNCHANGED asked,
           NEW w \in Worker, worker[w].pc \notin Unloaded, Matches(w),
           NEW new \in OpRow, op' = [op EXCEPT ![worker[w].o] = new],
           new.status # "none", new.revision = worker[w].seen.revision + 1,
           new.status \in Before => worker[w].seen.status \in Before,
           NEW s \in Local, Become(w, s),
           s.pc = "idle" \/ (s.pc \notin Unloaded /\ s.o = worker[w].o /\ s.seen = new),
           s.pc \in EarlyCall => new.status \in Before,
           s.pc = "settle" => worker[w].seen.status \in Before /\ new.status \notin Before
    PROVE  Inv'
<1> DEFINE o == worker[w].o
<1>1. worker'[w] = s /\ \A v \in Worker : v # w => worker'[v] = worker[v]
      BY DEF Inv, TypeOK, Become
<1>2. o \in Operation /\ worker[w].seen = op[o] /\ op[o].revision \in Nat
      BY DEF Inv, Snapshots, Snapshot, Matches, Unloaded, TypeOK, OpRow
<1>3. op'[o] = new /\ \A q \in Operation : q # o => op'[q] = op[q]
      BY <1>2 DEF Inv, TypeOK
<1>4. new.revision = op[o].revision + 1
      BY <1>2
<1>5. Snapshots'
  <2>1. ASSUME NEW v \in Worker
        PROVE  Snapshot(worker[v])'
    <3>1. CASE v = w
          BY <1>1, <1>2, <1>3, <3>1 DEF Snapshot, Unloaded, EarlyCall, OpRow
    <3>2. CASE v # w
      <4>1. worker'[v] = worker[v] /\ Snapshot(worker[v])
            BY <1>1, <3>2 DEF Inv, Snapshots
      <4>2. CASE worker[v].pc \in Unloaded
            BY <4>1, <4>2 DEF Snapshot, Unloaded, EarlyCall
      <4>3. CASE worker[v].pc \notin Unloaded /\ worker[v].o # o
            BY <1>3, <4>1, <4>3 DEF Snapshot, Unloaded
      <4>4. CASE worker[v].pc \notin Unloaded /\ worker[v].o = o
        <5>1. worker[v].seen.revision \in Nat
              BY DEF Inv, TypeOK, Local, OpRow
        <5>2. worker[v].seen.revision < new.revision
              BY <1>2, <1>4, <4>1, <4>4, <5>1 DEF Snapshot
        <5>. QED  BY <1>2, <1>3, <1>4, <4>1, <4>4, <5>1, <5>2 DEF Snapshot
      <4>. QED  BY <4>2, <4>3, <4>4
    <3>. QED  BY <3>1, <3>2
  <2>. QED  BY <2>1 DEF Snapshots
<1>6. op[o].status \in Before => asked[o] = 0 /\ \A v \in Worker : worker[v].pc = "settle" => worker[v].o # o
      BY <1>2 DEF Inv, CallTurn
<1>7. CallTurn'
  <2>1. \A q \in Operation : op'[q].status \in Before => asked'[q] = 0
        BY <1>2, <1>3, <1>6 DEF Inv, CallTurn
  <2>2. ASSUME NEW v \in Worker, worker'[v].pc = "settle"
        PROVE  /\ op'[worker'[v].o].status \notin Before
               /\ asked'[worker'[v].o] = 0
               /\ \A u \in Worker : u # v /\ worker'[u].pc = "settle" => worker'[u].o # worker'[v].o
    <3>1. CASE v = w
      <4>1. s.pc = "settle" /\ s.o = o /\ new.status \notin Before /\ op[o].status \in Before
            BY <1>1, <1>2, <2>2, <3>1
      <4>. QED  BY <1>1, <1>3, <1>6, <3>1, <4>1
    <3>2. CASE v # w
      <4>1. worker'[v] = worker[v] /\ worker[v].pc = "settle" /\ worker[v].o \in Operation
            BY <1>1, <2>2, <3>2 DEF Inv, Snapshots, Snapshot
      <4>2. op[worker[v].o].status \notin Before /\ asked[worker[v].o] = 0
            BY <4>1 DEF Inv, CallTurn
      <4>3. op'[worker[v].o].status \notin Before
            BY <1>2, <1>3, <4>1, <4>2
      <4>4. ASSUME NEW u \in Worker, u # v, worker'[u].pc = "settle"
            PROVE  worker'[u].o # worker[v].o
        <5>1. CASE u = w
              BY <1>1, <1>2, <1>6, <4>1, <4>4, <5>1 DEF Unloaded
        <5>2. CASE u # w
              BY <1>1, <4>1, <4>4, <5>2 DEF Inv, CallTurn
        <5>. QED  BY <5>1, <5>2
      <4>. QED  BY <4>1, <4>2, <4>3, <4>4
    <3>. QED  BY <3>1, <3>2
  <2>. QED  BY <2>1, <2>2 DEF Inv, CallTurn, AskedOnce
<1>. QED  BY <1>5, <1>7 DEF Inv

LEMMA WorkerTyped ==
    ASSUME TypeOK, NEW w \in Worker, NEW s \in Local, Become(w, s)
    PROVE  worker' \in [Worker -> Local]
  BY DEF TypeOK, Become

(* Where a compare-and-set leaves its worker. *)
LEMMA ContinueTyped ==
    ASSUME TypeOK, NEW w \in Worker, worker[w].o \in Operation, NEW seen \in OpRow,
           NEW pc \in PC \cup {"out"}, Continue(w, pc, seen)
    PROVE  \E s \in Local :
              /\ Become(w, s)
              /\ \/ s.pc = "idle"
                 \/ /\ s.pc = (IF pc = "out" THEN "loop" ELSE pc)
                    /\ s.o = worker[w].o /\ s.seen = seen
<1>1. Idle \in Local /\ Idle.pc = "idle" /\ worker[w] \in Local
      BY IdleTyped DEF TypeOK
<1> DEFINE a == [Idle EXCEPT !.pc = "loop", !.o = worker[w].o, !.seen = seen]
           b == [worker[w] EXCEPT !.pc = pc, !.seen = seen]
<1>2. a \in Local /\ a.pc = "loop" /\ a.o = worker[w].o /\ a.seen = seen
      BY <1>1 DEF Local, PC
<1>3. pc # "out" => b \in Local /\ b.pc = pc /\ b.o = worker[w].o /\ b.seen = seen
      BY <1>1 DEF Local, PC
<1>4. \/ Become(w, Idle)
      \/ pc \in {"out", "loop"} /\ Become(w, a)
      \/ pc # "out" /\ Become(w, b)
      BY DEF Continue, Return
<1> HIDE DEF a, b
<1>. QED  BY <1>1, <1>2, <1>3, <1>4

LEMMA CasInv ==
    ASSUME Inv, NEW w \in Worker, worker[w].pc \notin Unloaded,
           NEW status \in Status \ {"none"}, NEW cs \in CoreState,
           NEW won \in (PC \ {"claim", "deposit", "create"}) \cup {"out"},
           NEW lost \in {"idle", "loop", "out", "consume"},
           Cas(w, status, cs, won, lost), UNCHANGED <<target, claim, outside, asked>>,
           status \in Before => worker[w].seen.status \in Before,
           won \in EarlyCall => status \in Before,
           won = "settle" => worker[w].seen.status \in Before /\ status \notin Before
    PROVE  Inv'
<1> DEFINE o == worker[w].o
           new == Replacement(w, status, cs)
<1>1. TypeOK /\ o \in Operation /\ worker[w] \in Local /\ op[o] \in OpRow
      BY DEF Inv, TypeOK, Snapshots, Snapshot, Unloaded
<1>2. /\ new \in OpRow /\ new.status = status
      /\ new.revision = worker[w].seen.revision + 1
      BY <1>1 DEF Replacement, OpRow, Local
<1>3. UNCHANGED <<target, claim, late, core, money, bridge, since, asked>>
      BY DEF outside
<1>4. lost \in PC \cup {"out"} /\ won \in PC \cup {"out"}
      BY DEF PC
<1>5. CASE Matches(w)
  <2>1. op' = [op EXCEPT ![o] = new] /\ Continue(w, won, new)
        BY <1>5 DEF Cas
  <2> HIDE DEF new
  <2>2. PICK s \in Local :
            /\ Become(w, s)
            /\ \/ s.pc = "idle"
               \/ s.pc = (IF won = "out" THEN "loop" ELSE won) /\ s.o = o /\ s.seen = new
        BY <1>1, <1>2, <1>4, <2>1, ContinueTyped
  <2>3. TypeOK'
        BY <1>1, <1>2, <1>3, <2>1, <2>2, WorkerTyped DEF TypeOK
  <2>4. s.pc = "idle" \/ (s.pc \notin Unloaded /\ s.o = o /\ s.seen = new)
        BY <2>2 DEF Unloaded, PC
  <2>5. /\ s.pc \in EarlyCall => new.status \in Before
        /\ s.pc = "settle" => worker[w].seen.status \in Before /\ new.status \notin Before
        BY <1>2, <2>2 DEF EarlyCall
  <2>. QED  BY <1>2, <1>3, <1>5, <2>1, <2>2, <2>3, <2>4, <2>5, WonCas
<1>6. CASE ~ Matches(w)
  <2>1. op' = op /\ Continue(w, lost, op[o])
        BY <1>6 DEF Cas
  <2>2. PICK s \in Local :
            /\ Become(w, s)
            /\ \/ s.pc = "idle"
               \/ s.pc = (IF lost = "out" THEN "loop" ELSE lost) /\ s.o = o /\ s.seen = op[o]
        BY <1>1, <1>4, <2>1, ContinueTyped
  <2>3. TypeOK'
        BY <1>1, <1>3, <2>1, <2>2, WorkerTyped DEF TypeOK
  <2>4. op[o].status # "none" /\ op[o].revision \in Nat
        BY <1>1 DEF Inv, Snapshots, Snapshot, OpRow
  <2>5. Snapshot(s) /\ s.pc # "settle"
        BY <1>1, <2>2, <2>4 DEF Snapshot, EarlyCall, Unloaded
  <2>. QED  BY <1>3, <2>1, <2>2, <2>3, <2>5, QuietWorker
<1>. QED  BY <1>5, <1>6

(* A step that changes only its worker, which stops or goes on with what   *)
(* it has read.                                                            *)
LEMMA LocalInv ==
    ASSUME Inv, NEW w \in Worker, UNCHANGED <<op, target, outside, asked>>,
           claim' \in Worker \cup {NoClaim, Orphan},
           NEW s \in Local, Become(w, s), Snapshot(s), s.pc # "settle"
    PROVE  Inv'
<1>1. TypeOK'
      BY WorkerTyped DEF Inv, TypeOK, outside
<1>. QED  BY <1>1, QuietWorker

LEMMA ReturnInv ==
    ASSUME Inv, NEW w \in Worker, UNCHANGED <<op, target, outside, asked>>,
           claim' \in Worker \cup {NoClaim, Orphan}, Return(w)
    PROVE  Inv'
<1>1. Idle \in Local /\ Become(w, Idle) /\ Snapshot(Idle) /\ Idle.pc # "settle"
      BY IdleTyped DEF Return, Snapshot, Unloaded, EarlyCall
<1>. QED  BY <1>1, LocalInv

(* Going on at another place with the same row. *)
LEMMA SameRow ==
    ASSUME Inv, NEW w \in Worker, worker[w].pc \notin Unloaded,
           NEW s, s.pc \in PC \ (Unloaded \cup {"settle"}),
           s.o = worker[w].o, s.seen = worker[w].seen,
           s.pc \in EarlyCall => worker[w].pc \in EarlyCall
    PROVE  Snapshot(s) /\ s.pc # "settle"
  BY DEF Inv, Snapshots, Snapshot, Unloaded, EarlyCall

Kind == {"reserve", "settle", "reconcile", "release", "finalize"}

LEMMA AnswerTyped ==
    ASSUME TypeOK, NEW w \in Worker, worker[w].o \in Operation, NEW kind \in Kind, NEW got,
           Answer(w, kind, got)
    PROVE  core' \in [Operation -> CoreRow] /\ late' \subseteq Kind \X Operation
<1> DEFINE o == worker[w].o
<1>1. Done(kind, o) \in CoreRow
      BY CoreTyped
<1>2. core' = core \/ core' = [core EXCEPT ![o] = Done(kind, o)]
      BY DEF Answer
<1>3. late' = late \/ late' = late \cup {<<kind, o>>}
      BY DEF Answer
<1>4. core' \in [Operation -> CoreRow]
      BY <1>1, <1>2 DEF TypeOK
<1>5. late' \subseteq Kind \X Operation
      BY <1>3 DEF TypeOK, Kind
<1>. QED  BY <1>4, <1>5

LEMMA CallTyped ==
    ASSUME TypeOK, NEW w \in Worker, worker[w].o \in Operation, NEW kind \in Kind,
           NEW pc \in PC, Call(w, kind, pc), asked' \in [Operation -> Nat]
    PROVE  /\ TypeOK' /\ UNCHANGED <<op, target, claim>>
           /\ \E s \in Local : /\ Become(w, s) /\ s.pc = pc
                               /\ s.o = worker[w].o /\ s.seen = worker[w].seen
<1>1. PICK got \in {NoRow, Done(kind, worker[w].o)} :
          /\ Answer(w, kind, got)
          /\ Become(w, [worker[w] EXCEPT !.pc = pc, !.got = got, !.fresh = kind # "settle"])
      BY DEF Call
<1>2. UNCHANGED <<op, target, claim, money, bridge, since>>
      BY DEF Call, repository
<1>3. got \in CoreRow
      BY IdleTyped, CoreTyped
<1> DEFINE s == [worker[w] EXCEPT !.pc = pc, !.got = got, !.fresh = kind # "settle"]
<1>4. worker[w] \in Local /\ (kind # "settle") \in BOOLEAN
      BY DEF TypeOK
<1>5. s \in Local /\ s.pc = pc /\ s.o = worker[w].o /\ s.seen = worker[w].seen
      BY <1>3, <1>4 DEF Local
<1> HIDE DEF s
<1>6. Become(w, s)
      BY <1>1 DEF s
<1>7. core' \in [Operation -> CoreRow] /\ late' \subseteq Kind \X Operation
      BY <1>1, AnswerTyped
<1>8. TypeOK'
      BY <1>2, <1>5, <1>6, <1>7, WorkerTyped DEF TypeOK, Kind
<1>. QED  BY <1>2, <1>5, <1>6, <1>8

LEMMA CallInv ==
    ASSUME Inv, NEW w \in Worker, worker[w].pc \notin Unloaded, NEW kind \in Kind,
           NEW pc \in PC \ (Unloaded \cup {"settle"}), Call(w, kind, pc), UNCHANGED asked,
           pc \in EarlyCall => worker[w].pc \in EarlyCall
    PROVE  Inv'
<1>1. TypeOK /\ worker[w].o \in Operation /\ asked' \in [Operation -> Nat]
      BY DEF Inv, Snapshots, Snapshot, Unloaded, TypeOK
<1>2. TypeOK' /\ UNCHANGED <<op, target, claim>>
      BY <1>1, CallTyped
<1>3. PICK s \in Local : /\ Become(w, s) /\ s.pc = pc
                         /\ s.o = worker[w].o /\ s.seen = worker[w].seen
      BY <1>1, CallTyped
<1>4. Snapshot(s) /\ s.pc # "settle"
      BY <1>3, SameRow
<1>. QED  BY <1>2, <1>3, <1>4, QuietWorker

-----------------------------------------------------------------------------
(* Preparing an operation and reading it. *)
LEMMA PrepareInv ==
    ASSUME Inv, NEW w \in Worker,
           \/ \E o \in Operation : Prepare(w, o) \/ Load(w, o)
           \/ Claim(w) \/ Deposit(w) \/ Waits(w) \/ Abandon(w)
    PROVE  Inv'
<1>1. TypeOK /\ worker[w] \in Local /\ Idle \in Local
      BY IdleTyped DEF Inv, TypeOK
<1>2. ASSUME NEW o \in Operation, Prepare(w, o)
      PROVE  Inv'
  <2>1. PICK pc \in {"create", "claim"} : Become(w, [Idle EXCEPT !.o = o, !.pc = pc])
        BY <1>2 DEF Prepare
  <2> DEFINE s == [Idle EXCEPT !.o = o, !.pc = pc]
  <2>2. s \in Local /\ s.pc = pc /\ s.o = o
        BY <1>1 DEF Local, PC
  <2>3. Become(w, s) /\ UNCHANGED <<repository, outside, asked>>
        BY <1>2, <2>1 DEF Prepare
  <2> HIDE DEF s
  <2>4. Snapshot(s) /\ s.pc # "settle"
        BY <2>2 DEF Snapshot, Unloaded, EarlyCall
  <2>5. UNCHANGED <<op, target, claim, outside, asked>>
        BY <2>3 DEF repository
  <2>. QED  BY <1>1, <2>2, <2>3, <2>4, <2>5, LocalInv DEF TypeOK
<1>3. ASSUME NEW o \in Operation, Load(w, o)
      PROVE  Inv'
  <2>1. PICK pc \in {"confirm", "loop"} :
            /\ Become(w, [Idle EXCEPT !.o = o, !.seen = op[o], !.pc = pc])
            /\ pc = "confirm" => op[o].status = "created"
        BY <1>3 DEF Load
  <2> DEFINE s == [Idle EXCEPT !.o = o, !.seen = op[o], !.pc = pc]
  <2>2. op[o] \in OpRow /\ op[o].status # "none" /\ UNCHANGED <<repository, outside, asked>>
        BY <1>1, <1>3 DEF TypeOK, Load
  <2>3. s \in Local /\ s.pc = pc /\ s.o = o /\ s.seen = op[o]
        BY <1>1, <2>2 DEF Local, PC
  <2>4. Become(w, s)
        BY <2>1
  <2> HIDE DEF s
  <2>5. Snapshot(s) /\ s.pc # "settle"
        BY <2>1, <2>2, <2>3 DEF Snapshot, Unloaded, EarlyCall, Before, OpRow
  <2>6. UNCHANGED <<op, target, claim, outside, asked>>
        BY <2>2 DEF repository
  <2>. QED  BY <1>1, <2>3, <2>4, <2>5, <2>6, LocalInv DEF TypeOK
<1>4. ASSUME worker[w].pc \in {"claim", "deposit"}, NEW pc \in {"deposit", "create"}, Goto(w, pc),
             UNCHANGED <<op, outside, asked>>, target' \in BOOLEAN,
             claim' \in Worker \cup {NoClaim, Orphan}
      PROVE  Inv'
  <2> DEFINE s == [worker[w] EXCEPT !.pc = pc]
  <2>1. s \in Local /\ s.pc = pc /\ s.o = worker[w].o
        BY <1>1 DEF Local, PC
  <2>2. Become(w, s)
        BY <1>4 DEF Goto
  <2>3. worker[w].o \in Operation
        BY <1>4 DEF Inv, Snapshots, Snapshot
  <2> HIDE DEF s
  <2>4. Snapshot(s) /\ s.pc # "settle"
        BY <2>1, <2>3 DEF Snapshot, Unloaded, EarlyCall
  <2>5. TypeOK'
        BY <1>1, <1>4, <2>1, <2>2, WorkerTyped DEF TypeOK, outside
  <2>. QED  BY <1>4, <2>1, <2>2, <2>4, <2>5, QuietWorker
<1>5. CASE Claim(w)
  <2>1. UNCHANGED <<op, target, outside, asked>> /\ claim' \in Worker \cup {NoClaim, Orphan}
        BY <1>1, <1>5 DEF Claim, TypeOK
  <2>2. worker[w].pc = "claim" /\ (Return(w) \/ \E pc \in {"deposit", "create"} : Goto(w, pc))
        BY <1>5 DEF Claim
  <2>3. target' \in BOOLEAN
        BY <1>1, <2>1 DEF TypeOK
  <2>. QED  BY <1>4, <2>1, <2>2, <2>3, ReturnInv
<1>6. CASE Deposit(w)
  <2>1. UNCHANGED <<op, outside, asked>> /\ claim' \in Worker \cup {NoClaim, Orphan}
        BY <1>1, <1>6 DEF Deposit, TypeOK
  <2>2. /\ worker[w].pc = "deposit"
        /\ (target' = target /\ Return(w)) \/ (target' = TRUE /\ Goto(w, "create"))
        BY <1>6 DEF Deposit
  <2>3. CASE target' = target /\ Return(w)
        BY <2>1, <2>3, ReturnInv
  <2>4. CASE target' = TRUE /\ Goto(w, "create")
        BY <1>4, <2>1, <2>2, <2>4
  <2>. QED  BY <2>2, <2>3, <2>4
<1>7. CASE Waits(w)
      BY <1>1, <1>7, ReturnInv DEF Waits, repository, TypeOK
<1>8. CASE Abandon(w)
      BY <1>1, <1>8, ReturnInv DEF Abandon, TypeOK
<1>. QED  BY <1>2, <1>3, <1>5, <1>6, <1>7, <1>8

(* Steps that consist of one compare-and-set, or none. *)
LEMMA MoveInv ==
    ASSUME Inv, NEW w \in Worker, worker[w].pc \notin Unloaded,
           NEW status \in Status \ {"none"},
           NEW won \in (PC \ {"claim", "deposit", "create"}) \cup {"out"},
           NEW lost \in {"idle", "loop", "out", "consume"},
           Move(w, status, won, lost),
           status \in Before => worker[w].seen.status \in Before,
           won \in EarlyCall => status \in Before,
           won = "settle" => worker[w].seen.status \in Before /\ status \notin Before
    PROVE  Inv'
<1>1. worker[w].seen.core_state \in CoreState
      BY DEF Inv, TypeOK, Local, OpRow
<1>. QED  BY <1>1, CasInv DEF Move

LEMMA EarlyIsBefore ==
    ASSUME Inv, NEW w \in Worker, worker[w].pc \in EarlyCall
    PROVE  worker[w].pc \notin Unloaded /\ worker[w].seen.status \in Before
  BY DEF Inv, Snapshots, Snapshot, EarlyCall, Unloaded

LEMMA AdvanceInv ==
    ASSUME Inv, NEW w \in Worker,
           Confirm(w) \/ Advance(w) \/ CreateAction(w) \/ EvaluatePolicy(w) \/ Unsettled(w)
    PROVE  Inv'
<1>1. ASSUME NEW from \in Before \cup {"chain_confirmed", "venue_credited"},
             NEW status \in {"action_creating", "policy_evaluating", "reservation_creating",
                             "transaction_prepared", "settlement_submitting", "bridge_pending",
                             "finalizing"},
             NEW pc \in {"create_action", "evaluate_policy", "reserve", "loop", "settle",
                         "finalize_read"},
             status \in Before => from \in Before,
             pc \in EarlyCall => status \in Before,
             pc = "settle" => from \in Before /\ status \notin Before,
             Step(w, from, status, pc)
      PROVE  Inv'
  <2>1. /\ worker[w].pc = "loop" /\ worker[w].seen.status = from
        /\ Move(w, status, pc, "loop")
        BY <1>1 DEF Step
  <2>2. /\ status \in Status \ {"none"}
        /\ pc \in (PC \ {"claim", "deposit", "create"}) \cup {"out"}
        /\ worker[w].pc \notin Unloaded
        BY <2>1 DEF Status, PC, Unloaded
  <2>. QED  BY <1>1, <2>1, <2>2, MoveInv
<1>2. CASE Advance(w)
  <2>1. CASE Step(w, "confirmed", "action_creating", "create_action")
        BY <1>1, <2>1 DEF Before, EarlyCall
  <2>2. CASE Step(w, "action_created", "policy_evaluating", "evaluate_policy")
        BY <1>1, <2>2 DEF Before, EarlyCall
  <2>3. CASE Step(w, "policy_approved", "reservation_creating", "reserve")
        BY <1>1, <2>3 DEF Before, EarlyCall
  <2>4. CASE Step(w, "reserved", "transaction_prepared", "loop")
        BY <1>1, <2>4 DEF Before, EarlyCall
  <2>5. CASE Step(w, "transaction_prepared", "settlement_submitting", "settle")
        BY <1>1, <2>5 DEF Before, EarlyCall
  <2>6. CASE Step(w, "chain_confirmed", "bridge_pending", "loop")
        BY <1>1, <2>6 DEF Before, EarlyCall
  <2>7. CASE Step(w, "venue_credited", "finalizing", "finalize_read")
        BY <1>1, <2>7 DEF Before, EarlyCall
  <2>. QED  BY <1>2, <2>1, <2>2, <2>3, <2>4, <2>5, <2>6, <2>7 DEF Advance
<1>3. ASSUME NEW status \in Status \ {"none"}, NEW pc \in {"loop", "idle"},
             Move(w, status, pc, pc), worker[w].pc \notin Unloaded,
             worker[w].pc \in EarlyCall \/ status \notin Before
      PROVE  Inv'
  <2>1. status \in Before => worker[w].seen.status \in Before
        BY <1>3, EarlyIsBefore
  <2>2. pc \in (PC \ {"claim", "deposit", "create"}) \cup {"out"} /\ pc \notin EarlyCall /\ pc # "settle"
        BY DEF PC, EarlyCall
  <2>. QED  BY <1>3, <2>1, <2>2, MoveInv
<1>4. CASE Confirm(w)
      BY <1>3, <1>4 DEF Confirm, Status, EarlyCall, Unloaded
<1>5. CASE CreateAction(w)
      BY <1>3, <1>5 DEF CreateAction, Status, EarlyCall, Unloaded
<1>6. CASE EvaluatePolicy(w)
      BY <1>3, <1>6 DEF EvaluatePolicy, Status, EarlyCall, Unloaded
<1>7. CASE Unsettled(w)
      BY <1>3, <1>7 DEF Unsettled, Status, Before, Unloaded
<1>. QED  BY <1>2, <1>4, <1>5, <1>6, <1>7

(* create_funding_operation: nobody has read a row that did not exist. *)
LEMMA CreateInv ==
    ASSUME Inv, NEW w \in Worker, Create(w)
    PROVE  Inv'
<1> DEFINE o == worker[w].o
<1>1. TypeOK /\ o \in Operation /\ claim' \in Worker \cup {NoClaim, Orphan}
      BY DEF Inv, TypeOK, Snapshots, Snapshot, Create
<1>2. Return(w) /\ UNCHANGED <<target, claim, outside, asked>>
      BY DEF Create
<1>3. CASE op' = op
      BY <1>1, <1>2, <1>3, ReturnInv
<1>4. CASE op[o].status = "none" /\ op' = [op EXCEPT ![o].status = "created"]
  <2>1. op'[o].status = "created" /\ \A q \in Operation : q # o => op'[q] = op[q]
        BY <1>1, <1>4 DEF TypeOK, OpRow
  <2>2. op' \in [Operation -> OpRow]
        BY <1>1, <1>4 DEF TypeOK, OpRow, Status
  <2>3. worker'[w] = Idle /\ \A v \in Worker : v # w => worker'[v] = worker[v]
        BY <1>1, <1>2 DEF TypeOK, Return, Become
  <2>4. TypeOK'
        BY <1>1, <1>2, <2>2, IdleTyped, WorkerTyped DEF TypeOK, Return, outside
  <2>5. Snapshots'
    <3>1. ASSUME NEW v \in Worker
          PROVE  Snapshot(worker[v])'
      <4>1. CASE v = w
            BY <2>3, <4>1, IdleTyped DEF Snapshot, Unloaded, EarlyCall
      <4>2. CASE v # w
        <5>1. worker'[v] = worker[v] /\ Snapshot(worker[v])
              BY <2>3, <4>2 DEF Inv, Snapshots
        <5>2. worker[v].pc \notin Unloaded => worker[v].o # o /\ worker[v].o \in Operation
              BY <1>4, <5>1 DEF Snapshot, Unloaded
        <5>. QED  BY <2>1, <5>1, <5>2 DEF Snapshot
      <4>. QED  BY <4>1, <4>2
    <3>. QED  BY <3>1 DEF Snapshots
  <2>6. CallTurn'
    <3>1. \A q \in Operation : op'[q].status \in Before => asked'[q] = 0
          BY <1>2, <1>4, <2>1 DEF Inv, CallTurn, Before
    <3>2. ASSUME NEW v \in Worker, worker'[v].pc = "settle"
          PROVE  /\ worker'[v] = worker[v]
                 /\ worker[v].o \in Operation /\ worker[v].o # o
          BY <1>4, <2>3, <3>2, IdleTyped DEF Inv, Snapshots, Snapshot, Unloaded
    <3>. QED  BY <1>2, <2>1, <3>1, <3>2 DEF Inv, CallTurn, AskedOnce
  <2>. QED  BY <2>4, <2>5, <2>6 DEF Inv
<1>. QED  BY <1>3, <1>4 DEF Create

LEMMA GotoInv ==
    ASSUME Inv, NEW w \in Worker, worker[w].pc \notin Unloaded \cup EarlyCall,
           NEW pc \in PC \ (Unloaded \cup EarlyCall \cup {"settle"}), Goto(w, pc),
           UNCHANGED <<op, target, claim, outside, asked>>
    PROVE  Inv'
<1> DEFINE s == [worker[w] EXCEPT !.pc = pc]
<1>1. TypeOK /\ worker[w] \in Local
      BY DEF Inv, TypeOK
<1>2. s \in Local /\ s.pc = pc /\ s.o = worker[w].o /\ s.seen = worker[w].seen
      BY <1>1 DEF Local
<1>3. Become(w, s) /\ claim' \in Worker \cup {NoClaim, Orphan}
      BY <1>1 DEF Goto, TypeOK
<1> HIDE DEF s
<1>4. Snapshot(s) /\ s.pc # "settle"
      BY <1>2, SameRow
<1>. QED  BY <1>2, <1>3, <1>4, LocalInv

LEMMA OutInv ==
    ASSUME Inv, NEW w \in Worker, worker[w].pc \notin Unloaded,
           Continue(w, "out", worker[w].seen), UNCHANGED <<op, target, claim, outside, asked>>
    PROVE  Inv'
<1>1. TypeOK /\ worker[w].o \in Operation /\ worker[w].seen \in OpRow
      BY DEF Inv, TypeOK, Snapshots, Snapshot, Unloaded, Local
<1>2. claim' \in Worker \cup {NoClaim, Orphan}
      BY <1>1 DEF TypeOK
<1>3. PICK s \in Local :
          /\ Become(w, s)
          /\ \/ s.pc = "idle"
             \/ s.pc = "loop" /\ s.o = worker[w].o /\ s.seen = worker[w].seen
      BY <1>1, ContinueTyped
<1>4. CASE s.pc = "idle"
      BY <1>2, <1>3, <1>4, LocalInv DEF Snapshot, Unloaded, EarlyCall
<1>5. CASE s.pc = "loop" /\ s.o = worker[w].o /\ s.seen = worker[w].seen
  <2>1. Snapshot(s) /\ s.pc # "settle"
        BY <1>5, SameRow DEF PC, Unloaded, EarlyCall
  <2>. QED  BY <1>2, <1>3, <2>1, LocalInv
<1>. QED  BY <1>3, <1>4, <1>5

(* The compare-and-sets after the settlement was claimed. *)
LEMMA LateCas ==
    ASSUME Inv, NEW w \in Worker, worker[w].pc \notin Unloaded,
           NEW status \in Status \ Before, NEW cs \in CoreState,
           NEW won \in {"idle", "loop", "out", "consume"},
           NEW lost \in {"idle", "loop", "out", "consume"},
           Cas(w, status, cs, won, lost), UNCHANGED <<target, claim, outside, asked>>
    PROVE  Inv'
<1>1. status \in Status \ {"none"} /\ status \notin Before
      BY DEF Before
<1>2. /\ won \in (PC \ {"claim", "deposit", "create"}) \cup {"out"}
      /\ won \notin EarlyCall /\ won # "settle"
      BY DEF PC, EarlyCall
<1>. QED  BY <1>1, <1>2, CasInv

-----------------------------------------------------------------------------
(* The calls to Core. *)
LEMMA CallsInv ==
    ASSUME Inv, NEW w \in Worker,
           Reserve(w) \/ Reconcile(w) \/ Fail(w) \/ FinalizeRead(w) \/ Finalize(w)
    PROVE  Inv'
<1>1. TypeOK /\ worker[w] \in Local
      BY DEF Inv, TypeOK
<1>2. CASE Reserve(w)
      BY <1>2, CallInv DEF Reserve, Unloaded, EarlyCall, Kind, PC
<1>3. CASE Reconcile(w)
      BY <1>3, CallInv DEF Reconcile, Unloaded, EarlyCall, Kind, PC
<1>4. CASE Fail(w)
  <2>1. worker[w].pc \notin Unloaded \cup EarlyCall /\ UNCHANGED asked
        BY <1>4 DEF Fail, Unloaded, EarlyCall
  <2>2. CASE Goto(w, "failing") /\ UNCHANGED <<repository, outside>>
        BY <2>1, <2>2, GotoInv DEF repository, PC, Unloaded, EarlyCall
  <2>3. CASE Call(w, "release", "failing")
        BY <2>1, <2>3, CallInv DEF Kind, PC, Unloaded, EarlyCall
  <2>. QED  BY <1>4, <2>2, <2>3 DEF Fail
<1>5. CASE Finalize(w)
  <2>1. worker[w].pc \notin Unloaded \cup EarlyCall /\ UNCHANGED asked
        BY <1>5 DEF Finalize, Unloaded, EarlyCall
  <2>2. CASE Goto(w, "finalized") /\ UNCHANGED <<repository, outside>>
        BY <2>1, <2>2, GotoInv DEF repository, PC, Unloaded, EarlyCall
  <2>3. CASE Call(w, "finalize", "finalized")
        BY <2>1, <2>3, CallInv DEF Kind, PC, Unloaded, EarlyCall
  <2>4. CASE Return(w) /\ UNCHANGED <<repository, outside>>
        BY <1>1, <2>1, <2>4, ReturnInv DEF repository, TypeOK
  <2>. QED  BY <1>5, <2>2, <2>3, <2>4 DEF Finalize
<1>6. CASE FinalizeRead(w)
  <2> DEFINE s == [worker[w] EXCEPT !.pc = "finalize", !.got = core[worker[w].o]]
  <2>1. worker[w].pc = "finalize_read" /\ worker[w].o \in Operation
        BY <1>6 DEF FinalizeRead, Inv, Snapshots, Snapshot
  <2>2. UNCHANGED <<op, target, claim, outside, asked>> /\ claim' \in Worker \cup {NoClaim, Orphan}
        BY <1>1, <1>6 DEF FinalizeRead, Read, repository, TypeOK
  <2>3. CASE Become(w, s)
    <3>1. core[worker[w].o] \in CoreRow
          BY <1>1, <2>1 DEF TypeOK
    <3>2. s \in Local /\ s.pc = "finalize" /\ s.o = worker[w].o /\ s.seen = worker[w].seen
          BY <1>1, <3>1 DEF Local, PC
    <3> HIDE DEF s
    <3>3. Snapshot(s) /\ s.pc # "settle"
          BY <2>1, <3>2, SameRow DEF PC, Unloaded, EarlyCall
    <3>. QED  BY <2>2, <2>3, <3>2, <3>3, LocalInv
  <2>4. CASE Return(w)
        BY <2>2, <2>4, ReturnInv
  <2>. QED  BY <1>6, <2>3, <2>4 DEF FinalizeRead, Read
<1>. QED  BY <1>2, <1>3, <1>4, <1>5, <1>6

(* Asking Core to settle: the one who may is the only one, and the first. *)
LEMMA SettleInv ==
    ASSUME Inv, NEW w \in Worker, Settle(w)
    PROVE  Inv'
<1> DEFINE o == worker[w].o
<1>1. TypeOK /\ worker[w].pc = "settle" /\ o \in Operation
      BY DEF Inv, Settle, Snapshots, Snapshot
<1>2. op[o].status \notin Before /\ asked[o] = 0
      BY <1>1 DEF Inv, CallTurn
<1>3. /\ asked' = [asked EXCEPT ![o] = @ + 1]
      /\ Call(w, "settle", "settled")
      BY DEF Settle
<1>4. asked'[o] = 1 /\ (\A q \in Operation : q # o => asked'[q] = asked[q])
      BY <1>1, <1>2, <1>3 DEF TypeOK
<1>5. asked' \in [Operation -> Nat]
      BY <1>1, <1>3 DEF TypeOK
<1>6. TypeOK' /\ UNCHANGED <<op, target, claim>>
      BY <1>1, <1>3, <1>5, CallTyped DEF Kind, PC
<1>7. PICK s \in Local : /\ Become(w, s) /\ s.pc = "settled"
                         /\ s.o = worker[w].o /\ s.seen = worker[w].seen
      BY <1>1, <1>3, <1>5, CallTyped DEF Kind, PC
<1>8. worker'[w] = s /\ \A v \in Worker : v # w => worker'[v] = worker[v]
      BY <1>1, <1>7 DEF TypeOK, Become
<1>9. Snapshot(s)
      BY <1>1, <1>7, SameRow DEF PC, Unloaded, EarlyCall
<1>10. Snapshots'
      BY <1>6, <1>8, <1>9 DEF Inv, Snapshots, Snapshot
<1>11. CallTurn'
  <2>1. \A q \in Operation : op'[q].status \in Before => asked'[q] = 0
        BY <1>2, <1>4, <1>6 DEF Inv, CallTurn
  <2>2. \A v \in Worker : worker'[v].pc = "settle" =>
            v # w /\ worker'[v] = worker[v] /\ worker[v].o # o /\ worker[v].o \in Operation
        BY <1>1, <1>7, <1>8 DEF Inv, CallTurn, Snapshots, Snapshot
  <2>3. AskedOnce'
        BY <1>4 DEF Inv, CallTurn, AskedOnce
  <2>. QED  BY <1>4, <1>6, <2>1, <2>2, <2>3 DEF Inv, CallTurn
<1>. QED  BY <1>6, <1>10, <1>11 DEF Inv

(* What a request does with the answers. *)
LEMMA ConsumeInv ==
    ASSUME Inv, NEW w \in Worker, Consume(w)
    PROVE  Inv'
<1> DEFINE status == worker[w].seen.status
<1>1. worker[w].pc \notin Unloaded \cup EarlyCall
      BY DEF Consume, Unloaded, EarlyCall
<1>2. UNCHANGED <<target, claim, outside, asked>>
      BY DEF Consume
<1>3. \/ \E st \in {"manual_review", "settlement_unknown", "submitted", "chain_confirmed"},
            cs \in {"payment_submitted", "settled", "spending_reserved"},
            won \in {"out", "consume", "loop"} : Cas(w, st, cs, won, won)
      \/ op' = op /\ \E pc \in {"fail", "reread"} : Goto(w, pc)
      \/ op' = op /\ Continue(w, "out", worker[w].seen)
      BY DEF Consume
<1>4. ASSUME NEW st \in {"manual_review", "settlement_unknown", "submitted", "chain_confirmed"},
             NEW cs \in {"payment_submitted", "settled", "spending_reserved"},
             NEW won \in {"out", "consume", "loop"}, Cas(w, st, cs, won, won)
      PROVE  Inv'
  <2>1. st \in Status \ Before /\ cs \in CoreState /\ won \in {"idle", "loop", "out", "consume"}
        BY DEF Status, Before, CoreState
  <2>. QED  BY <1>1, <1>2, <1>4, <2>1, LateCas
<1>5. ASSUME NEW pc \in {"fail", "reread"}, Goto(w, pc), op' = op
      PROVE  Inv'
      BY <1>1, <1>2, <1>5, GotoInv DEF PC, Unloaded, EarlyCall
<1>. QED  BY <1>1, <1>2, <1>3, <1>4, <1>5, OutInv

LEMMA ApplyVenue ==
    ASSUME Inv, NEW w \in Worker,
           Reserved(w) \/ Failing(w) \/ Poll(w) \/ Finalized(w)
    PROVE  Inv'
<1>1. TypeOK /\ worker[w] \in Local /\ worker[w].seen.core_state \in CoreState
      BY DEF Inv, TypeOK, Local, OpRow
<1>2. UNCHANGED <<target, claim, outside, asked>> /\ claim' \in Worker \cup {NoClaim, Orphan}
      BY <1>1 DEF Reserved, Failing, Poll, Finalized, TypeOK
<1>3. ASSUME Return(w), op' = op
      PROVE  Inv'
      BY <1>2, <1>3, ReturnInv
<1>4. CASE Reserved(w)
  <2>1. worker[w].pc \in EarlyCall
        BY <1>4 DEF Reserved, EarlyCall
  <2>2. worker[w].pc \notin Unloaded /\ worker[w].seen.status \in Before
        BY <2>1, EarlyIsBefore
  <2>3. CASE Cas(w, "reserved", "spending_reserved", "loop", "loop")
        BY <1>2, <2>2, <2>3, CasInv DEF Status, CoreState, PC, EarlyCall
  <2>. QED  BY <1>3, <1>4, <2>3 DEF Reserved
<1>5. CASE Failing(w)
  <2>1. worker[w].pc \notin Unloaded
        BY <1>5 DEF Failing, Unloaded
  <2>2. CASE Cas(w, "released", "released", "out", "out")
        BY <1>2, <2>1, <2>2, LateCas DEF Status, CoreState, Before
  <2>3. CASE Cas(w, "settlement_unknown", worker[w].seen.core_state, "out", "out")
        BY <1>1, <1>2, <2>1, <2>3, LateCas DEF Status, Before
  <2>4. CASE Continue(w, "out", worker[w].seen) /\ op' = op
        BY <1>2, <2>1, <2>4, OutInv
  <2>. QED  BY <1>5, <2>2, <2>3, <2>4 DEF Failing
<1>6. CASE Poll(w)
  <2>1. worker[w].pc \notin Unloaded
        BY <1>6 DEF Poll, Unloaded
  <2>2. ASSUME NEW st \in {"bridge_pending", "failed", "venue_credited"},
               Cas(w, st, "settled", "idle", "idle")
        PROVE  Inv'
        BY <1>2, <2>1, <2>2, LateCas DEF Status, CoreState, Before
  <2>. QED  BY <1>3, <1>6, <2>2 DEF Poll
<1>7. CASE Finalized(w)
  <2>1. worker[w].pc \notin Unloaded
        BY <1>7 DEF Finalized, Unloaded
  <2>2. CASE Cas(w, "finalized", "finalized", "idle", "idle")
        BY <1>2, <2>1, <2>2, LateCas DEF Status, CoreState, Before
  <2>. QED  BY <1>3, <1>7, <2>2 DEF Finalized
<1>. QED  BY <1>4, <1>5, <1>6, <1>7

(* Reading Core's reservation: only the worker changes. *)
LEMMA RecoverInv ==
    ASSUME Inv, NEW w \in Worker, Answered(w) \/ Recover(w) \/ Reread(w)
    PROVE  Inv'
<1> DEFINE r == core[worker[w].o]
<1>1. TypeOK /\ worker[w] \in Local /\ worker[w].pc \notin Unloaded \cup EarlyCall
      BY DEF Inv, TypeOK, Answered, Recover, Reread, Unloaded, EarlyCall
<1>2. worker[w].o \in Operation
      BY <1>1 DEF Inv, Snapshots, Snapshot, Unloaded
<1>3. r \in CoreRow
      BY <1>1, <1>2 DEF TypeOK
<1>4. UNCHANGED <<op, target, claim, outside, asked>> /\ claim' \in Worker \cup {NoClaim, Orphan}
      BY <1>1 DEF Answered, Recover, Reread, repository, TypeOK
<1> HIDE DEF r
<1>5. ASSUME NEW s \in Local, Become(w, s), s.o = worker[w].o, s.seen = worker[w].seen,
             s.pc \in {"settled", "consume", "reconcile", "judge", "fail"}
      PROVE  Inv'
  <2>1. Snapshot(s) /\ s.pc # "settle"
        BY <1>1, <1>5, SameRow DEF PC, Unloaded, EarlyCall
  <2>. QED  BY <1>4, <1>5, <2>1, LocalInv
<1>6. CASE Answered(w)
  <2> DEFINE s == [worker[w] EXCEPT !.got = r]
  <2>1. Become(w, s) /\ worker[w].pc = "settled"
        BY <1>6 DEF Answered, r
  <2>2. s \in Local /\ s.o = worker[w].o /\ s.seen = worker[w].seen /\ s.pc = worker[w].pc
        BY <1>1, <1>3 DEF Local
  <2> HIDE DEF s
  <2>. QED  BY <1>5, <2>1, <2>2
<1>7. CASE Recover(w)
  <2>1. CASE Return(w)
        BY <1>4, <2>1, ReturnInv
  <2>2. CASE ~ Return(w)
    <3>1. PICK pc \in {"consume", "reconcile", "judge"} :
              Become(w, [worker[w] EXCEPT !.fresh = TRUE, !.held = r, !.got = r, !.pc = pc])
          BY <1>7, <2>2 DEF Recover, r
    <3> DEFINE s == [worker[w] EXCEPT !.fresh = TRUE, !.held = r, !.got = r, !.pc = pc]
    <3>2. s \in Local /\ s.o = worker[w].o /\ s.seen = worker[w].seen /\ s.pc = pc
          BY <1>1, <1>3 DEF Local, PC
    <3>3. Become(w, s)
          BY <3>1
    <3> HIDE DEF s
    <3>. QED  BY <1>5, <3>2, <3>3
  <2>. QED  BY <2>1, <2>2
<1>8. CASE Reread(w)
  <2> DEFINE s == [worker[w] EXCEPT !.pc = "fail", !.got = r]
  <2>1. Become(w, s) \/ Continue(w, "out", worker[w].seen)
        BY <1>8 DEF Reread, r
  <2>2. s \in Local /\ s.o = worker[w].o /\ s.seen = worker[w].seen /\ s.pc = "fail"
        BY <1>1, <1>3 DEF Local, PC
  <2> HIDE DEF s
  <2>. QED  BY <1>1, <1>4, <1>5, <2>1, <2>2, OutInv
<1>. QED  BY <1>6, <1>7, <1>8

(* The release of a settlement that never became a transaction. *)
LEMMA ReleaseInv ==
    ASSUME Inv, NEW w \in Worker, Judge(w) \/ Prerelease(w)
    PROVE  Inv'
<1>1. TypeOK /\ worker[w] \in Local /\ worker[w].pc \notin Unloaded \cup EarlyCall
      BY DEF Inv, TypeOK, Judge, Prerelease, Unloaded, EarlyCall
<1>2. worker[w].o \in Operation /\ worker[w].got \in CoreRow /\ worker[w].held \in CoreRow
      BY <1>1 DEF Inv, Snapshots, Snapshot, Unloaded, Local
<1>3. ASSUME NEW s \in Local, Become(w, s), s.o = worker[w].o, s.seen = worker[w].seen,
             s.pc \in {"consume", "prerelease"}, TypeOK', UNCHANGED <<op, asked>>
      PROVE  Inv'
  <2>1. Snapshot(s) /\ s.pc # "settle"
        BY <1>1, <1>3, SameRow DEF PC, Unloaded, EarlyCall
  <2>. QED  BY <1>3, <2>1, QuietWorker
<1>4. CASE Judge(w)
  <2>1. UNCHANGED <<op, target, claim, money, bridge, since, asked>>
        BY <1>4 DEF Judge, repository
  <2>2. Known(w) \in CoreRow
        BY <1>2 DEF Known
  <2>3. CASE \E got \in {NoRow, Done("release", worker[w].o)} :
              /\ Answer(w, "release", got)
              /\ Become(w, [worker[w] EXCEPT !.pc = "prerelease", !.held = Known(w),
                                             !.got = got])
    <3>1. PICK got \in {NoRow, Done("release", worker[w].o)} :
              /\ Answer(w, "release", got)
              /\ Become(w, [worker[w] EXCEPT !.pc = "prerelease", !.held = Known(w),
                                             !.got = got])
          BY <2>3
    <3> DEFINE s == [worker[w] EXCEPT !.pc = "prerelease", !.held = Known(w), !.got = got]
    <3>2. got \in CoreRow
          BY <1>1, <1>2, IdleTyped, CoreTyped
    <3>3. /\ s \in Local /\ s.o = worker[w].o /\ s.seen = worker[w].seen
          /\ s.pc = "prerelease"
          BY <1>1, <2>2, <3>2 DEF Local, PC
    <3>4. Become(w, s)
          BY <3>1
    <3> HIDE DEF s
    <3>5. core' \in [Operation -> CoreRow] /\ late' \subseteq Kind \X Operation
          BY <1>1, <1>2, <3>1, AnswerTyped DEF Kind
    <3>6. TypeOK'
          BY <1>1, <2>1, <3>3, <3>4, <3>5, WorkerTyped DEF TypeOK, Kind
    <3>. QED  BY <1>3, <2>1, <3>3, <3>4, <3>6
  <2>4. CASE /\ Become(w, [worker[w] EXCEPT !.pc = "consume", !.got = Known(w)])
             /\ UNCHANGED <<late, core>>
    <3> DEFINE s == [worker[w] EXCEPT !.pc = "consume", !.got = Known(w)]
    <3>1. s \in Local /\ s.o = worker[w].o /\ s.seen = worker[w].seen /\ s.pc = "consume"
          BY <1>1, <2>2 DEF Local, PC
    <3>2. Become(w, s)
          BY <2>4
    <3> HIDE DEF s
    <3>3. TypeOK'
          BY <1>1, <2>1, <2>4, <3>1, <3>2, WorkerTyped DEF TypeOK
    <3>. QED  BY <1>3, <2>1, <3>1, <3>2, <3>3
  <2>. QED  BY <1>4, <2>3, <2>4 DEF Judge
<1>5. CASE Prerelease(w)
  <2>1. UNCHANGED <<target, claim, outside, asked>>
        BY <1>5 DEF Prerelease
  <2>2. CASE Cas(w, "released", "released", "idle", "idle")
        BY <1>1, <2>1, <2>2, LateCas DEF Status, CoreState, Before
  <2>3. CASE /\ Become(w, [worker[w] EXCEPT !.pc = "consume", !.got = worker[w].held])
             /\ UNCHANGED op
    <3> DEFINE s == [worker[w] EXCEPT !.pc = "consume", !.got = worker[w].held]
    <3>1. s \in Local /\ s.o = worker[w].o /\ s.seen = worker[w].seen /\ s.pc = "consume"
          BY <1>1, <1>2 DEF Local, PC
    <3>2. Become(w, s)
          BY <2>3
    <3> HIDE DEF s
    <3>3. TypeOK'
          BY <1>1, <2>1, <2>3, <3>1, <3>2, WorkerTyped DEF TypeOK, outside
    <3>. QED  BY <1>3, <2>1, <2>3, <3>1, <3>2, <3>3
  <2>. QED  BY <1>5, <2>2, <2>3 DEF Prerelease
<1>. QED  BY <1>4, <1>5

-----------------------------------------------------------------------------
(* The operator, and the world outside. *)
LEMMA OperatorInv ==
    ASSUME Inv, NEW o \in Operation, RecoverAmbiguous(o)
    PROVE  Inv'
<1>1. TypeOK /\ op[o] \in OpRow
      BY DEF Inv, TypeOK
<1>2. UNCHANGED <<target, claim, worker, outside, asked>>
      BY DEF RecoverAmbiguous
<1>3. /\ op'[o].status = "manual_review" /\ op'[o].revision = op[o].revision + 1
      /\ \A q \in Operation : q # o => op'[q] = op[q]
      BY <1>1 DEF RecoverAmbiguous, TypeOK, OpRow
<1>4. op' \in [Operation -> OpRow]
      BY <1>1 DEF RecoverAmbiguous, TypeOK, OpRow, Status
<1>5. TypeOK'
      BY <1>1, <1>2, <1>4 DEF TypeOK, outside
<1>6. Snapshots'
  <2>1. ASSUME NEW w \in Worker
        PROVE  Snapshot(worker[w])'
    <3>1. worker'[w] = worker[w] /\ Snapshot(worker[w])
          BY <1>2 DEF Inv, Snapshots
    <3>2. worker[w].seen.revision \in Nat /\ op[o].revision \in Nat
          BY <1>1 DEF TypeOK, Local, OpRow
    <3>3. worker[w].pc \notin Unloaded => worker[w].o \in Operation
          BY <3>1 DEF Snapshot, Unloaded
    <3>. QED  BY <1>3, <3>1, <3>2, <3>3 DEF Snapshot
  <2>. QED  BY <2>1 DEF Snapshots
<1>7. CallTurn'
  <2>1. op'[o].status \notin Before
        BY <1>3 DEF Before
  <2>2. \A w \in Worker : worker[w].pc = "settle" => worker[w].o \in Operation
        BY DEF Inv, Snapshots, Snapshot
  <2>. QED  BY <1>2, <1>3, <2>1, <2>2 DEF Inv, CallTurn, AskedOnce
<1>. QED  BY <1>5, <1>6, <1>7 DEF Inv

LEMMA OutsideInv ==
    ASSUME Inv, TypeOK', UNCHANGED <<op, worker, asked>>
    PROVE  Inv'
  BY DEF Inv, Snapshots, Snapshot, CallTurn, AskedOnce

LEMMA EnvironmentInv ==
    ASSUME Inv, Environment
    PROVE  Inv'
<1>1. TypeOK
      BY DEF Inv
<1>2. ASSUME NEW m \in late, CarryOut(m)
      PROVE  Inv'
  <2>1. PICK kind \in Kind, o \in Operation : m = <<kind, o>>
        BY <1>1 DEF TypeOK, Kind
  <2>2. core' = [core EXCEPT ![o] = Done(kind, o)] /\ late' = late \ {m}
        BY <1>2, <2>1 DEF CarryOut
  <2>3. Done(kind, o) \in CoreRow
        BY <1>1, CoreTyped
  <2>4. UNCHANGED <<op, target, claim, worker, money, bridge, since, asked>>
        BY <1>2 DEF CarryOut, repository
  <2>5. TypeOK'
        BY <1>1, <2>2, <2>3, <2>4 DEF TypeOK
  <2>. QED  BY <2>4, <2>5, OutsideInv
<1>3. ASSUME NEW o \in Operation, CorePrebroadcast(o)
      PROVE  Inv'
  <2>1. UNCHANGED <<op, target, claim, worker, late, bridge, since, asked>>
        BY <1>3 DEF CorePrebroadcast, repository
  <2>2. core[o] \in CoreRow /\ money \in [Operation -> {"idle", "sent", "moved", "reverted"}]
        BY <1>1 DEF TypeOK
  <2>3. \/ core' = core /\ money' = [money EXCEPT ![o] = "sent"]
        \/ money' = money /\ \E k \in {"ready", "blocked"} : core' = [core EXCEPT ![o].risk = k]
        \/ money' = money
           /\ core' = [core EXCEPT ![o].state = "spending_reserved", ![o].sealed = TRUE]
        BY <1>3 DEF CorePrebroadcast
  <2>4. core' \in [Operation -> CoreRow]
        BY <1>1, <2>2, <2>3 DEF TypeOK, CoreRow, CoreState
  <2>5. money' \in [Operation -> {"idle", "sent", "moved", "reverted"}]
        BY <2>2, <2>3
  <2>6. TypeOK'
        BY <1>1, <2>1, <2>4, <2>5 DEF TypeOK
  <2>. QED  BY <2>1, <2>6, OutsideInv
<1>4. ASSUME NEW o \in Operation, Mine(o) \/ BridgeDetects(o) \/ BridgeEnds(o)
      PROVE  Inv'
  <2>1. UNCHANGED <<op, target, claim, worker, late, core, asked>>
        BY <1>4 DEF Mine, BridgeDetects, BridgeEnds, repository
  <2>2. money' \in [Operation -> {"idle", "sent", "moved", "reverted"}]
        BY <1>1, <1>4 DEF Mine, BridgeDetects, BridgeEnds, TypeOK
  <2>3. bridge' \in [Operation -> {"none", "PROCESSING", "COMPLETED", "FAILED"}]
        BY <1>1, <1>4 DEF Mine, BridgeDetects, BridgeEnds, TypeOK
  <2>4. since' \in [Operation -> SUBSET Operation]
        BY <1>1, <1>4 DEF Mine, BridgeDetects, BridgeEnds, TypeOK
  <2>5. TypeOK'
        BY <1>1, <2>1, <2>2, <2>3, <2>4 DEF TypeOK
  <2>. QED  BY <2>1, <2>5, OutsideInv
<1>. QED  BY <1>2, <1>3, <1>4 DEF Environment

LEMMA NextInv ==
    ASSUME Inv, [Next]_vars
    PROVE  Inv'
<1>1. ASSUME NEW w \in Worker, Request(w)
      PROVE  Inv'
      BY <1>1, PrepareInv, CreateInv, AdvanceInv, CallsInv, SettleInv, ConsumeInv, ApplyVenue,
         RecoverInv, ReleaseInv DEF Request
<1>2. CASE UNCHANGED vars
  <2>1. UNCHANGED <<op, target, claim, worker, late, core, money, bridge, since, asked>>
        BY <1>2 DEF vars, repository, outside
  <2>2. TypeOK'
        BY <2>1 DEF Inv, TypeOK
  <2>. QED  BY <2>1, <2>2, OutsideInv
<1>. QED  BY <1>1, <1>2, OperatorInv, EnvironmentInv DEF Next

(* The inductive invariant: a request that goes on with an operation holds *)
(* a version of its row that existed, and a request that is about to ask   *)
(* Core for the settlement is the only one and the first.                  *)
THEOREM VenueInvariant == Spec => []Inv
<1>1. Init => Inv
      BY InitInv
<1>2. Inv /\ [Next]_vars => Inv'
      BY NextInv
<1>. QED  BY <1>1, <1>2, PTL DEF Spec

(* Whatever the requests, Core, the chain and the bridge do, the operation *)
(* rows, the requests' local state and Core's reservations keep the types  *)
(* that models.py and the gateway's response models declare.               *)
THEOREM VenueTypes == Spec => []TypeOK
<1>1. Inv => TypeOK
      BY DEF Inv
<1>. QED  BY <1>1, VenueInvariant, PTL

(* For any number of requests driving any number of operations, with       *)
(* requests dying and Core's answers being lost anywhere, Core is asked to *)
(* settle an operation at most once: _advance_loaded enters                *)
(* settlement_submitting by a compare-and-set that one request wins, and   *)
(* only that request goes on to settle.                                    *)
THEOREM SettledOnce == Spec => []AskedOnce
<1>1. Inv => AskedOnce
      BY DEF Inv, CallTurn
<1>. QED  BY <1>1, VenueInvariant, PTL

-----------------------------------------------------------------------------
(* What an operation ends with.  A second invariant relates the stage of   *)
(* an operation to Core, to the money and to the bridge.  It rests on what *)
(* the requests under way have learned: that Core released or finalized a  *)
(* reservation is so for good, and a request that was asked something for  *)
(* an operation comes from one that had reached its reservation.           *)

(* The stages before Core is asked for a reservation, and the end of an    *)
(* operation that never came to it. *)
Unasked == {"none", "created", "confirmed", "action_creating", "action_unknown",
    "action_created", "policy_evaluating", "policy_unknown", "policy_approved"}
PreStage(x) == x.status \in Unasked \/ (x.status = "failed" /\ x.core_state = "none")
Active(x) == x.status \notin Terminal \cup {"none"}
Credited == {"venue_credited", "finalizing", "finalized"}

(* A request is at a step for an operation that it saw at this stage. *)
StatusAt(pc) ==
    CASE pc = "confirm" -> {"created"}
      [] pc = "create_action" -> {"action_creating"}
      [] pc = "evaluate_policy" -> {"policy_evaluating"}
      [] pc \in {"reserve", "reserved"} -> {"reservation_creating"}
      [] pc \in {"settle", "settled"} -> {"settlement_submitting"}
      [] pc \in {"reconcile", "judge", "reread", "fail", "failing"} -> Submitting
      [] pc = "prerelease" -> {"settlement_unknown"}
      [] pc \in {"finalize_read", "finalize", "finalized"} -> {"finalizing"}
      [] OTHER -> Status

(* A request that consumes Core's answer saw the operation submitting, or  *)
(* lost it to somebody else after it had read a settled payment. *)
Paid(r) == r.state = "settled" /\ r.risk \notin {"pending", "blocked"} /\ ~ r.sealed
Fits(s) ==
    /\ s.seen.status \in StatusAt(s.pc)
    /\ s.pc = "consume" => s.seen.status \in Submitting \/ (Paid(s.got) /\ ~ PreStage(s.seen))

(* What a request learned of Core for good is still so. *)
ForGood(o, r) == r.state \in {"released", "finalized"} => core[o].state = r.state

Learned(s) ==
    s.pc \notin Unloaded =>
        /\ Fits(s)
        /\ ~ PreStage(s.seen) => ~ PreStage(op[s.o])
        /\ ForGood(s.o, s.got) /\ ForGood(s.o, s.held)
AllLearned == \A w \in Worker : Learned(worker[w])

(* Core knows nothing of an operation that has not asked for a reservation *)
(* or never will, and no request about it is under way. *)
Untouched(o) == PreStage(op[o]) => core[o] = NoRow /\ \A m \in late : m[2] # o

(* Where the money is, by Core and by the bridge. *)
Booked(o) ==
    /\ core[o].state \in {"none", "spending_reserved", "released"} =>
          money[o] \in {"idle", "reverted"}
    /\ core[o].state \in {"settled", "finalized"} => money[o] = "moved"
    /\ bridge[o] # "none" => money[o] = "moved"

(* An operation has come as far as Core and the bridge let it. *)
Standing(o) ==
    /\ StageProof(op[o])
    /\ op[o].status = "released" => core[o].state = "released"
    /\ op[o].status = "finalized" => core[o].state = "finalized"
    /\ op[o].status = "failed" => op[o].core_state = "none" \/ bridge[o] = "FAILED"
    /\ op[o].status \in Credited => bridge[o] = "COMPLETED"
Sound == \A o \in Operation : Untouched(o) /\ Booked(o) /\ Standing(o)

(* One operation at a time, and the bridge lists nobody else's transfer    *)
(* while one is under way. *)
Alone == \A o, p \in Operation : Active(op[o]) /\ Active(op[p]) => o = p
OwnTransfer == \A o, p \in Operation :
    o # p /\ bridge[p] # "none" /\ o \in since[p] => op[o].status \in Terminal

FundingOK == AllLearned /\ Sound /\ Alone /\ OwnTransfer

(* A row x becomes y: as the transition table and the row's validation     *)
(* allow, and only on the evidence that Core and the bridge gave. *)
Advances(o, x, y) ==
    /\ y.status \in AllowedTransitions(x.status) /\ StageProof(y)
    /\ x.status = "none" => TargetFree(o)
    /\ y.status = "released" => core[o].state = "released"
    /\ y.status = "finalized" => core[o].state = "finalized"
    /\ y.status = "failed" =>
          \/ x.status \in Unasked /\ y.core_state = "none"
          \/ /\ x.status = "bridge_pending" /\ y.core_state = "settled"
             /\ \E p \in Selected(o) : bridge[p] = "FAILED"
    /\ y.status = "venue_credited" => \E p \in Selected(o) : bridge[p] = "COMPLETED"
Advancing ==
    /\ \A o \in Operation : op'[o] = op[o] \/ Advances(o, op[o], op'[o])
    /\ \A o, p \in Operation : op'[o] # op[o] /\ op'[p] # op[p] => o = p

LEMMA Evidence ==
    ASSUME NEW o, NEW x \in OpRow, NEW y \in OpRow, Advances(o, x, y)
    PROVE  /\ PreStage(y) => PreStage(x)
           /\ x.status \notin Terminal
           /\ y.status # "none"
           /\ Active(y) => Active(x) \/ TargetFree(o)
           /\ y.status \in Credited => x.status \in Credited \/ y.status = "venue_credited"
           /\ y.status = "venue_credited" => x.status = "bridge_pending"
<1>1. y.status \in AllowedTransitions(x.status) /\ x.status \in Status
      BY DEF Advances, OpRow
<1>2. /\ x.status \notin Terminal
      /\ y.status # "none"
      BY <1>1 DEF AllowedTransitions, Status, Terminal
<1>3. y.status \in Unasked => x.status \in Unasked
      BY <1>1 DEF AllowedTransitions, Status, Unasked
<1>4. PreStage(y) => PreStage(x)
      BY <1>3 DEF Advances, PreStage, Unasked
<1>5. /\ y.status \in Credited => x.status \in Credited \/ y.status = "venue_credited"
      /\ y.status = "venue_credited" => x.status = "bridge_pending"
      BY <1>1 DEF AllowedTransitions, Status, Credited
<1>6. Active(y) => Active(x) \/ TargetFree(o)
      BY <1>2 DEF Advances, Active, Terminal
<1>. QED  BY <1>2, <1>4, <1>5, <1>6

LEMMA Own ==
    ASSUME OwnTransfer, NEW o \in Operation, op[o].status \notin Terminal, NEW p \in Selected(o)
    PROVE  p = o
BY DEF OwnTransfer, Selected, Scoped

(* Operations that advance, while nothing else happens. *)
LEMMA RowsOK ==
    ASSUME TypeOK, TypeOK', Sound, Alone, OwnTransfer, Advancing, UNCHANGED outside
    PROVE  /\ Sound' /\ Alone' /\ OwnTransfer'
           /\ \A o \in Operation : PreStage(op'[o]) => PreStage(op[o])
<1>1. UNCHANGED <<late, core, money, bridge, since>>
      BY DEF outside
<1>2. ASSUME NEW o \in Operation
      PROVE  op[o] \in OpRow /\ op'[o] \in OpRow
      BY DEF TypeOK
<1>3. ASSUME NEW o \in Operation
      PROVE  /\ PreStage(op'[o]) => PreStage(op[o])
             /\ op[o].status \in Terminal => op'[o] = op[o]
             /\ Active(op'[o]) => Active(op[o]) \/ (op'[o] # op[o] /\ TargetFree(o))
      BY <1>2, Evidence DEF Advancing
<1>4. Sound'
  <2>1. ASSUME NEW o \in Operation
        PROVE  (Untouched(o) /\ Booked(o) /\ Standing(o))'
    <3>1. Untouched(o) /\ Booked(o) /\ Standing(o)
          BY DEF Sound
    <3>2. Untouched(o)' /\ Booked(o)'
          BY <1>1, <1>3, <3>1 DEF Untouched, Booked
    <3>3. ASSUME op'[o] # op[o]
          PROVE  Standing(o)'
      <4>1. Advances(o, op[o], op'[o])
            BY <3>3 DEF Advancing
      <4>2. /\ op[o].status \notin Terminal
            /\ op'[o].status \in Credited =>
                  op[o].status \in Credited \/ op'[o].status = "venue_credited"
            BY <1>2, <4>1, Evidence
      <4>3. \A p \in Selected(o) : p = o
            BY <4>2, Own
      <4>4. /\ StageProof(op'[o])
            /\ op'[o].status = "released" => core'[o].state = "released"
            /\ op'[o].status = "finalized" => core'[o].state = "finalized"
            BY <1>1, <4>1 DEF Advances
      <4>5. op'[o].status = "failed" => op'[o].core_state = "none" \/ bridge'[o] = "FAILED"
            BY <1>1, <4>1, <4>3 DEF Advances
      <4>6. op'[o].status \in Credited => bridge'[o] = "COMPLETED"
            BY <1>1, <3>1, <4>1, <4>2, <4>3 DEF Advances, Standing
      <4>. QED  BY <4>4, <4>5, <4>6 DEF Standing
    <3>4. ASSUME op'[o] = op[o]
          PROVE  Standing(o)'
          BY <1>1, <3>1, <3>4 DEF Standing
    <3>. QED  BY <3>2, <3>3, <3>4
  <2>. QED  BY <2>1 DEF Sound
<1>5. Alone'
  <2>1. ASSUME NEW o \in Operation, NEW p \in Operation, Active(op'[o]), Active(op'[p]), o # p
        PROVE  FALSE
    <3>1. TargetFree(o) => ~ Active(op[p])
          BY DEF TargetFree, Active
    <3>2. TargetFree(p) => ~ Active(op[o])
          BY DEF TargetFree, Active
    <3>3. CASE Active(op[o]) /\ Active(op[p])
          BY <2>1, <3>3 DEF Alone
    <3>4. CASE Active(op[o]) /\ ~ Active(op[p])
          BY <1>3, <2>1, <3>2, <3>4
    <3>5. CASE ~ Active(op[o]) /\ Active(op[p])
          BY <1>3, <2>1, <3>1, <3>5
    <3>6. CASE ~ Active(op[o]) /\ ~ Active(op[p])
          BY <1>3, <2>1, <3>6 DEF Advancing
    <3>. QED  BY <3>3, <3>4, <3>5, <3>6
  <2>. QED  BY <2>1 DEF Alone
<1>6. OwnTransfer'
  <2>1. ASSUME NEW o \in Operation, NEW p \in Operation,
               o # p, bridge'[p] # "none", o \in since'[p]
        PROVE  op'[o].status \in Terminal
    <3>1. op[o].status \in Terminal
          BY <1>1, <2>1 DEF OwnTransfer
    <3>. QED  BY <1>3, <3>1
  <2>. QED  BY <2>1 DEF OwnTransfer
<1>. QED  BY <1>3, <1>4, <1>5, <1>6

(* Core's answers.  What it released or finalized stays so. *)
Kept == \A o \in Operation :
    core[o].state \in {"released", "finalized"} => core'[o].state = core[o].state

LEMMA Served ==
    ASSUME TypeOK, NEW o \in Operation, NEW kind \in Kind, Booked(o)
    PROVE  LET r == Done(kind, o) IN
           /\ core[o].state \in {"released", "finalized"} => r.state = core[o].state
           /\ r.state \in {"none", "spending_reserved", "released"} =>
                 money[o] \in {"idle", "reverted"}
           /\ r.state \in {"settled", "finalized"} => money[o] = "moved"
<1> DEFINE r == core[o]
<1>1. /\ r.state \in CoreState /\ r \in CoreRow
      /\ \A s : [r EXCEPT !.state = s].state = s
      /\ [r EXCEPT !.retryable = ~ r.sealed].state = r.state
      /\ [r EXCEPT !.state = "spending_reserved", !.sealed = TRUE].state = "spending_reserved"
      /\ [r EXCEPT !.state = "payment_submitted", !.risk = "pending", !.retryable = FALSE].state
            = "payment_submitted"
      /\ [r EXCEPT !.state = "released", !.retryable = FALSE].state = "released"
  <2>1. r \in CoreRow
        BY DEF TypeOK
  <2>. QED  BY <2>1 DEF CoreRow
<1> HIDE DEF r
<1>2. /\ Reconciled(o).state = "settled" => r.state = "settled" \/ money[o] = "moved"
      /\ Reconciled(o).state = "spending_reserved" =>
            r.state = "spending_reserved" \/ money[o] = "reverted"
      /\ Reconciled(o).state \notin {"settled", "spending_reserved"} =>
            Reconciled(o).state = r.state
      /\ r.state \in {"released", "finalized"} => Reconciled(o).state = r.state
      BY <1>1 DEF Reconciled, r
<1>3. /\ r.state \in {"none", "spending_reserved", "released"} =>
            money[o] \in {"idle", "reverted"}
      /\ r.state \in {"settled", "finalized"} => money[o] = "moved"
      BY DEF Booked, r
<1>4. CASE Refused(kind, o)
      BY <1>3, <1>4 DEF Done, r
<1>5. CASE ~ Refused(kind, o) /\ kind = "reserve"
      BY <1>1, <1>3, <1>5 DEF Done, r
<1>6. CASE ~ Refused(kind, o) /\ kind = "settle"
      BY <1>1, <1>2, <1>3, <1>6 DEF Done, Refused, r
<1>7. CASE ~ Refused(kind, o) /\ kind = "reconcile"
      BY <1>1, <1>2, <1>3, <1>7 DEF Done, r
<1>8. CASE ~ Refused(kind, o) /\ kind = "release"
      BY <1>1, <1>3, <1>8 DEF Done, Refused, CoreState, r
<1>9. CASE ~ Refused(kind, o) /\ kind = "finalize"
      BY <1>1, <1>3, <1>9 DEF Done, Refused, CoreState, r
<1>. QED  BY <1>4, <1>5, <1>6, <1>7, <1>8, <1>9 DEF Kind

(* Core carries a request out, or it goes on its way. *)
LEMMA ServedOK ==
    ASSUME TypeOK, TypeOK', Sound, Alone, OwnTransfer,
           NEW o \in Operation, NEW kind \in Kind, ~ PreStage(op[o]),
           core' = core \/ core' = [core EXCEPT ![o] = Done(kind, o)],
           late' \subseteq late \cup {<<kind, o>>}, UNCHANGED <<op, money, bridge, since>>
    PROVE  Sound' /\ Alone' /\ OwnTransfer' /\ Kept
<1>1. ASSUME NEW p \in Operation
      PROVE  core'[p] = core[p] \/ (p = o /\ core'[p] = Done(kind, p))
      BY DEF TypeOK
<1>2. ASSUME NEW p \in Operation
      PROVE  Untouched(p) /\ Booked(p) /\ Standing(p)
      BY DEF Sound
<1>3. ASSUME NEW p \in Operation
      PROVE  /\ core[p].state \in {"released", "finalized"} => core'[p].state = core[p].state
             /\ core'[p].state \in {"none", "spending_reserved", "released"} =>
                   money[p] \in {"idle", "reverted"}
             /\ core'[p].state \in {"settled", "finalized"} => money[p] = "moved"
  <2>1. CASE core'[p] = core[p]
        BY <1>2, <2>1 DEF Booked
  <2>2. CASE p = o /\ core'[p] = Done(kind, p)
        BY <1>2, <2>2, Served
  <2>. QED  BY <1>1, <2>1, <2>2
<1>4. Kept
      BY <1>3 DEF Kept
<1>5. ASSUME NEW p \in Operation
      PROVE  (Untouched(p) /\ Booked(p) /\ Standing(p))'
  <2>1. Untouched(p)'
    <3>1. SUFFICES ASSUME PreStage(op[p])
                   PROVE  core'[p] = NoRow /\ \A m \in late' : m[2] # p
          BY DEF Untouched
    <3>2. p # o
          BY <3>1
    <3>. QED  BY <1>1, <1>2, <3>1, <3>2 DEF Untouched
  <2>2. Booked(p)'
        BY <1>2, <1>3 DEF Booked
  <2>3. Standing(p)'
        BY <1>2, <1>3 DEF Standing
  <2>. QED  BY <2>1, <2>2, <2>3
<1>6. Sound'
      BY <1>5 DEF Sound
<1>7. Alone' /\ OwnTransfer'
      BY DEF Alone, OwnTransfer
<1>. QED  BY <1>4, <1>6, <1>7

(* Core's own steps, the chain and the bridge. *)
LEMMA CoreStepOK ==
    ASSUME TypeOK, TypeOK', Sound, Alone, OwnTransfer, NEW o \in Operation,
           CorePrebroadcast(o) \/ Mine(o)
    PROVE  Sound' /\ Alone' /\ OwnTransfer' /\ Kept
<1>1. UNCHANGED <<op, late, bridge, since>>
      BY DEF CorePrebroadcast, Mine, repository
<1>2. ASSUME NEW p \in Operation
      PROVE  Untouched(p) /\ Booked(p) /\ Standing(p) /\ core[p] \in CoreRow
      BY DEF Sound, TypeOK
<1>3. ASSUME NEW p \in Operation, core'[p] # core[p]
      PROVE  /\ p = o /\ core[p].state = "payment_submitted" /\ money' = money
             /\ \/ core'[p].state = "payment_submitted"
                \/ core'[p].state = "spending_reserved" /\ money[p] = "idle"
  <2>1. /\ core[o].state = "payment_submitted" /\ money[o] = "idle" /\ money' = money
        /\ \/ core' = [core EXCEPT ![o].risk = "ready"]
           \/ core' = [core EXCEPT ![o].state = "spending_reserved", ![o].sealed = TRUE]
           \/ core' = [core EXCEPT ![o].risk = "blocked"]
        BY <1>3 DEF CorePrebroadcast, Mine
  <2>2. core \in [Operation -> CoreRow]
        BY DEF TypeOK
  <2>3. p = o
        BY <1>3, <2>1, <2>2
  <2>. QED  BY <1>2, <2>1, <2>2, <2>3 DEF CoreRow
<1>4. ASSUME NEW p \in Operation, money'[p] # money[p]
      PROVE  /\ p = o /\ core' = core
             /\ core[p].state = "payment_submitted"
             /\ money[p] \in {"idle", "sent"}
  <2>1. CASE CorePrebroadcast(o)
        BY <1>4, <2>1 DEF CorePrebroadcast, TypeOK
  <2>2. CASE Mine(o)
    <3>1. p = o /\ money[p] = "sent" /\ core' = core
          BY <1>4, <2>2 DEF Mine, TypeOK
    <3>2. core[p].state \in CoreState
          BY <1>2 DEF CoreRow
    <3>. QED  BY <1>2, <3>1, <3>2 DEF Booked, CoreState
  <2>. QED  BY <2>1, <2>2
<1>5. Kept
      BY <1>3 DEF Kept
<1>6. ASSUME NEW p \in Operation
      PROVE  (Untouched(p) /\ Booked(p) /\ Standing(p))'
  <2>1. Untouched(p)'
        BY <1>1, <1>2, <1>3 DEF Untouched, NoRow
  <2>2. Booked(p)'
    <3>1. CASE core'[p] = core[p] /\ money'[p] = money[p]
          BY <1>1, <1>2, <3>1 DEF Booked
    <3>2. CASE core'[p] # core[p]
      <4>1. money'[p] = money[p] /\ core[p].state = "payment_submitted"
            BY <1>3, <3>2
      <4>. QED  BY <1>1, <1>2, <1>3, <3>2, <4>1 DEF Booked
    <3>3. CASE money'[p] # money[p]
      <4>1. core'[p].state = "payment_submitted" /\ money[p] \in {"idle", "sent"}
            BY <1>4, <3>3
      <4>. QED  BY <1>1, <1>2, <4>1 DEF Booked
    <3>. QED  BY <3>1, <3>2, <3>3
  <2>3. Standing(p)'
        BY <1>1, <1>2, <1>5 DEF Standing, Kept
  <2>. QED  BY <2>1, <2>2, <2>3
<1>7. Sound'
      BY <1>6 DEF Sound
<1>8. Alone' /\ OwnTransfer'
      BY <1>1 DEF Alone, OwnTransfer
<1>. QED  BY <1>5, <1>7, <1>8

LEMMA BridgeOK ==
    ASSUME TypeOK, TypeOK', Sound, Alone, OwnTransfer, NEW o \in Operation,
           BridgeDetects(o) \/ BridgeEnds(o)
    PROVE  Sound' /\ Alone' /\ OwnTransfer' /\ Kept
<1>1. UNCHANGED <<op, late, core, money>>
      BY DEF BridgeDetects, BridgeEnds, repository
<1>2. ASSUME NEW p \in Operation
      PROVE  Untouched(p) /\ Booked(p) /\ Standing(p)
      BY DEF Sound
<1>3. ASSUME NEW p \in Operation
      PROVE  /\ bridge'[p] # bridge[p] => p = o /\ bridge[p] \in {"none", "PROCESSING"}
             /\ bridge'[p] # "none" => bridge[p] # "none" \/ (p = o /\ BridgeDetects(o))
             /\ since'[p] # since[p] => p = o /\ BridgeDetects(o)
      BY DEF BridgeDetects, BridgeEnds, TypeOK
<1>4. money[o] = "moved"
      BY <1>2 DEF BridgeDetects, BridgeEnds, Booked
<1>5. ASSUME NEW p \in Operation
      PROVE  (Untouched(p) /\ Booked(p) /\ Standing(p))'
  <2>1. Untouched(p)'
        BY <1>1, <1>2 DEF Untouched
  <2>2. Booked(p)'
        BY <1>1, <1>2, <1>3, <1>4 DEF Booked
  <2>3. Standing(p)'
        BY <1>1, <1>2, <1>3 DEF Standing
  <2>. QED  BY <2>1, <2>2, <2>3
<1>6. Sound'
      BY <1>5 DEF Sound
<1>7. Kept /\ Alone'
      BY <1>1 DEF Kept, Alone
<1>8. OwnTransfer'
  <2>1. SUFFICES ASSUME NEW p \in Operation, NEW q \in Operation, p # q,
                        bridge'[q] # "none", p \in since'[q]
                 PROVE  op[p].status \in Terminal
        BY <1>1 DEF OwnTransfer
  <2>2. CASE since'[q] = since[q] /\ bridge[q] # "none"
        BY <2>1, <2>2 DEF OwnTransfer
  <2>3. CASE q = o /\ BridgeDetects(o)
    <3>1. bridge[o] = "none" /\ op[p].status # "none"
          BY <2>1, <2>3 DEF BridgeDetects, TypeOK
    <3>2. core[o].state # "none" /\ core[o].state # "released"
          BY <1>2, <1>4 DEF Booked
    <3>3. ~ PreStage(op[o])
          BY <1>2, <3>2 DEF Untouched, NoRow
    <3>4. Active(op[o])
          BY <1>2, <3>1, <3>2, <3>3 DEF Standing, PreStage, Active, Unasked, Terminal, Credited
    <3>5. ~ Active(op[p])
          BY <2>1, <2>3, <3>4 DEF Alone
    <3>. QED  BY <3>1, <3>5 DEF Active
  <2>. QED  BY <1>3, <2>1, <2>2, <2>3
<1>. QED  BY <1>6, <1>7, <1>8

-----------------------------------------------------------------------------
(* What a request has learned survives the steps of everybody else. *)
NoReturn == \A o \in Operation : PreStage(op'[o]) => PreStage(op[o])

LEMMA StillLearned ==
    ASSUME NoReturn, Kept, NEW s, s.pc # "idle" => s.o \in Operation, Learned(s)
    PROVE  Learned(s)'
<1>1. SUFFICES ASSUME s.pc \notin Unloaded
               PROVE  /\ Fits(s)
                      /\ ~ PreStage(s.seen) => ~ PreStage(op'[s.o])
                      /\ s.got.state \in {"released", "finalized"} => core'[s.o].state = s.got.state
                      /\ s.held.state \in {"released", "finalized"} =>
                            core'[s.o].state = s.held.state
      BY DEF Learned, ForGood, Fits
<1>2. s.o \in Operation
      BY <1>1 DEF Unloaded
<1>. QED  BY <1>1, <1>2 DEF Learned, ForGood, NoReturn, Kept

LEMMA OneLearns ==
    ASSUME Inv, AllLearned, NoReturn, Kept,
           NEW w \in Worker, NEW s, Become(w, s), Learned(s)'
    PROVE  AllLearned'
<1>1. ASSUME NEW v \in Worker
      PROVE  Learned(worker[v])'
  <2>1. worker'[v] = (IF v = w THEN s ELSE worker[v])
        BY DEF Become, Inv, TypeOK
  <2>2. PICK r : r = worker[v]
        OBVIOUS
  <2>3. Learned(r) /\ (r.pc # "idle" => r.o \in Operation)
        BY <2>2 DEF AllLearned, Inv, Snapshots, Snapshot
  <2>4. Learned(r)'
        BY <2>3, StillLearned
  <2>5. CASE v = w
    <3>1. worker'[v] = s
          BY <2>1, <2>5
    <3>. QED  BY <3>1 DEF Learned, Fits
  <2>6. CASE v # w
    <3>1. worker'[v] = r
          BY <2>1, <2>2, <2>6
    <3>. QED  BY <2>4, <3>1 DEF Learned, Fits
  <2>. QED  BY <2>5, <2>6
<1>. QED  BY <1>1 DEF AllLearned

LEMMA NobodyForgets ==
    ASSUME Inv, AllLearned, NoReturn, Kept, UNCHANGED worker
    PROVE  AllLearned'
<1>1. ASSUME NEW v \in Worker
      PROVE  Learned(worker[v])'
  <2>1. PICK r : r = worker[v]
        OBVIOUS
  <2>2. Learned(r) /\ (r.pc # "idle" => r.o \in Operation)
        BY <2>1 DEF AllLearned, Inv, Snapshots, Snapshot
  <2>3. Learned(r)'
        BY <2>2, StillLearned
  <2>4. worker'[v] = r
        BY <2>1
  <2>. QED  BY <2>3, <2>4 DEF Learned, Fits
<1>. QED  BY <1>1 DEF AllLearned

(* A request that goes on by itself. *)
LEMMA GoesOn ==
    ASSUME Inv, TypeOK', FundingOK, UNCHANGED <<op, outside>>,
           NEW w \in Worker, NEW s, Become(w, s), Learned(s)
    PROVE  FundingOK' /\ Advancing
<1>1. UNCHANGED <<op, late, core, money, bridge, since>>
      BY DEF outside
<1>2. NoReturn /\ Kept /\ Advancing
      BY <1>1 DEF NoReturn, Kept, Advancing
<1>3. Sound' /\ Alone' /\ OwnTransfer'
      BY <1>2, RowsOK DEF FundingOK, Inv
<1>4. Learned(s)'
      BY <1>1 DEF Learned, Fits, ForGood
<1>. QED  BY <1>2, <1>3, <1>4, OneLearns DEF FundingOK

LEMMA Returns ==
    ASSUME Inv, TypeOK', FundingOK, UNCHANGED <<op, outside>>, NEW w \in Worker, Return(w)
    PROVE  FundingOK' /\ Advancing
<1>1. Idle.pc \in Unloaded
      BY DEF Idle, Unloaded
<1>2. Learned(Idle)
      BY <1>1 DEF Learned
<1>. QED  BY <1>2, GoesOn DEF Return

LEMMA Continues ==
    ASSUME Inv, AllLearned, NEW w \in Worker, worker[w].pc \notin Unloaded, UNCHANGED core,
           NEW pc, NEW seen \in OpRow, Continue(w, pc, seen),
           ~ PreStage(seen) => ~ PreStage(op'[worker[w].o]),
           pc \notin {"idle", "out", "loop"} =>
              /\ seen.status \in StatusAt(pc)
              /\ pc = "consume" =>
                    seen.status \in Submitting \/ (Paid(worker[w].got) /\ ~ PreStage(seen))
    PROVE  \E s : Become(w, s) /\ Learned(s)'
<1>1. PICK x : x = worker[w]
      OBVIOUS
<1>2. x \in Local /\ Learned(x) /\ x.pc \notin Unloaded
      BY <1>1 DEF Inv, TypeOK, AllLearned
<1> DEFINE a == [Idle EXCEPT !.pc = "loop", !.o = x.o, !.seen = seen]
           b == [x EXCEPT !.pc = pc, !.seen = seen]
<1>3. \/ Become(w, Idle)
      \/ Become(w, a)
      \/ pc \notin {"idle", "out", "loop"} /\ Become(w, b)
      BY <1>1 DEF Continue, Return
<1>4. /\ a.pc = "loop" /\ a.o = x.o /\ a.seen = seen /\ a.got = NoRow /\ a.held = NoRow
      /\ b.pc = pc /\ b.o = x.o /\ b.seen = seen /\ b.got = x.got /\ b.held = x.held
      BY <1>2 DEF Local, Idle
<1>5. ForGood(x.o, x.got)' /\ ForGood(x.o, x.held)' /\ ForGood(x.o, NoRow)'
  <2>1. NoRow.state = "none"
        BY DEF NoRow
  <2>. QED  BY <1>2, <2>1 DEF Learned, ForGood
<1>6. (~ PreStage(seen) => ~ PreStage(op[x.o]))'
      BY <1>1
<1> HIDE DEF a, b
<1>7. Learned(Idle)'
      BY DEF Learned, Idle, Unloaded
<1>8. Learned(a)'
  <2>1. Fits(a)
        BY <1>4 DEF Fits, StatusAt, OpRow
  <2>2. PICK s : s = a
        OBVIOUS
  <2>3. Fits(s) /\ s.o = x.o /\ s.seen = seen /\ s.got = NoRow /\ s.held = NoRow
        BY <1>4, <2>1, <2>2
  <2>4. Learned(s)'
        BY <1>5, <1>6, <2>3 DEF Learned, Fits
  <2>. QED  BY <2>2, <2>4
<1>9. ASSUME pc \notin {"idle", "out", "loop"}
      PROVE  Learned(b)'
  <2>1. Fits(b)
        BY <1>1, <1>4, <1>9 DEF Fits
  <2>2. PICK s : s = b
        OBVIOUS
  <2>3. Fits(s) /\ s.o = x.o /\ s.seen = seen /\ s.got = x.got /\ s.held = x.held
        BY <1>4, <2>1, <2>2
  <2>4. Learned(s)'
        BY <1>5, <1>6, <2>3 DEF Learned, Fits
  <2>. QED  BY <2>2, <2>4
<1>. QED  BY <1>3, <1>7, <1>8, <1>9

(* A compare-and-set, won or lost. *)
LEMMA CasOK ==
    ASSUME Inv, TypeOK', FundingOK, NEW w \in Worker, worker[w].pc \notin Unloaded,
           NEW status \in Status, NEW cs \in CoreState,
           NEW won, NEW lost \in {"idle", "loop", "out", "consume"},
           Cas(w, status, cs, won, lost), UNCHANGED outside,
           Matches(w) => Advances(worker[w].o, worker[w].seen, Replacement(w, status, cs)),
           won \notin {"idle", "out", "loop"} =>
              status \in StatusAt(won) /\ (won = "consume" => status \in Submitting),
           lost = "consume" => Paid(worker[w].got) /\ ~ PreStage(worker[w].seen)
    PROVE  FundingOK' /\ Advancing
<1> DEFINE o == worker[w].o
           new == Replacement(w, status, cs)
<1>1. /\ o \in Operation /\ op[o] \in OpRow /\ worker[w] \in Local
      /\ Learned(worker[w])
      /\ Matches(w) => worker[w].seen = op[o]
      BY DEF Inv, TypeOK, Snapshots, Snapshot, Unloaded, FundingOK, AllLearned, Matches
<1>2. new \in OpRow /\ new.status = status
      BY <1>1 DEF Replacement, OpRow, Local
<1>3. UNCHANGED <<late, core, money, bridge, since>>
      BY DEF outside
<1>4. op' = op \/ (Matches(w) /\ op' = [op EXCEPT ![o] = new])
      BY DEF Cas
<1>5. Advancing
  <2>1. CASE op' = op
        BY <2>1 DEF Advancing
  <2>2. CASE Matches(w) /\ op' = [op EXCEPT ![o] = new]
    <3>1. op'[o] = new /\ \A p \in Operation : p # o => op'[p] = op[p]
          BY <1>1, <2>2 DEF Inv, TypeOK
    <3>2. Advances(o, op[o], op'[o])
          BY <1>1, <2>2, <3>1
    <3> HIDE DEF o
    <3>. QED  BY <3>1, <3>2 DEF Advancing
  <2>. QED  BY <1>4, <2>1, <2>2
<1>6. Sound' /\ Alone' /\ OwnTransfer' /\ NoReturn
      BY <1>5, RowsOK DEF FundingOK, Inv, NoReturn
<1>7. Kept
      BY <1>3 DEF Kept
<1> HIDE DEF new
<1>8. \E s : Become(w, s) /\ Learned(s)'
  <2>1. CASE Matches(w)
    <3>1. Continue(w, won, new) /\ op'[o] = new
          BY <1>1, <2>1 DEF Cas, new, Inv, TypeOK
    <3>2. PICK x : x = new
          OBVIOUS
    <3>3. x \in OpRow /\ x.status = status /\ Continue(w, won, x) /\ op'[o] = x
          BY <1>2, <3>1, <3>2
    <3>. QED  BY <1>3, <3>3, Continues DEF FundingOK
  <2>2. CASE ~ Matches(w)
    <3>1. Continue(w, lost, op[o]) /\ op' = op
          BY <2>2 DEF Cas
    <3>2. PICK x : x = op[o]
          OBVIOUS
    <3>3. x \in OpRow /\ Continue(w, lost, x) /\ op'[o] = x
          BY <1>1, <3>1, <3>2
    <3>4. ~ PreStage(worker[w].seen) => ~ PreStage(x)
          BY <1>1, <3>2 DEF Learned
    <3>5. lost \notin {"idle", "out", "loop"} =>
             /\ x.status \in StatusAt(lost)
             /\ Paid(worker[w].got) /\ ~ PreStage(x)
          BY <3>3, <3>4 DEF StatusAt, OpRow
    <3>. QED  BY <1>3, <3>3, <3>5, Continues DEF FundingOK
  <2>. QED  BY <2>1, <2>2
<1>9. AllLearned'
      BY <1>6, <1>7, <1>8, OneLearns DEF FundingOK
<1>. QED  BY <1>5, <1>6, <1>9 DEF FundingOK

(* A request to Core for an operation that has asked for its reservation. *)
LEMMA AnswerOK ==
    ASSUME Inv, TypeOK', FundingOK, NEW w \in Worker, worker[w].pc \notin Unloaded,
           ~ PreStage(worker[w].seen), NEW kind \in Kind, NEW got, Answer(w, kind, got),
           got \in {NoRow, Done(kind, worker[w].o)},
           UNCHANGED <<op, money, bridge, since>>
    PROVE  /\ Sound' /\ Alone' /\ OwnTransfer' /\ Kept /\ NoReturn /\ Advancing
           /\ ForGood(worker[w].o, worker[w].held)
           /\ got.state \in {"released", "finalized"} => core'[worker[w].o].state = got.state
           /\ got \in CoreRow
<1> DEFINE o == worker[w].o
<1>1. o \in Operation /\ Learned(worker[w]) /\ ~ PreStage(op[o])
      BY DEF Inv, Snapshots, Snapshot, Unloaded, FundingOK, AllLearned, Learned
<1>2. /\ core' = core \/ core' = [core EXCEPT ![o] = Done(kind, o)]
      /\ late' \subseteq late \cup {<<kind, o>>}
      /\ got = NoRow \/ core' = [core EXCEPT ![o] = Done(kind, o)]
      BY DEF Answer
<1>3. Sound' /\ Alone' /\ OwnTransfer' /\ Kept
      BY <1>1, <1>2, ServedOK DEF FundingOK, Inv
<1>4. NoReturn /\ Advancing
      BY DEF NoReturn, Advancing
<1>5. got.state \in {"released", "finalized"} => core'[o].state = got.state
      BY <1>1, <1>2 DEF NoRow, Inv, TypeOK
<1>6. got \in CoreRow
      BY <1>1, IdleTyped, CoreTyped DEF Inv
<1>. QED  BY <1>1, <1>3, <1>4, <1>5, <1>6 DEF Learned

LEMMA CallOK ==
    ASSUME Inv, TypeOK', FundingOK, NEW w \in Worker, worker[w].pc \notin Unloaded,
           ~ PreStage(worker[w].seen), NEW kind \in Kind,
           NEW pc \in PC \ {"consume"}, Call(w, kind, pc), worker[w].seen.status \in StatusAt(pc)
    PROVE  FundingOK' /\ Advancing
<1> DEFINE o == worker[w].o
<1>1. PICK got \in {NoRow, Done(kind, o)} :
          /\ Answer(w, kind, got)
          /\ Become(w, [worker[w] EXCEPT !.pc = pc, !.got = got, !.fresh = kind # "settle"])
      BY DEF Call
<1>2. UNCHANGED <<op, money, bridge, since>>
      BY DEF Call, repository
<1>3. /\ Sound' /\ Alone' /\ OwnTransfer' /\ Kept /\ NoReturn /\ Advancing
      /\ ForGood(o, worker[w].held)
      /\ got.state \in {"released", "finalized"} => core'[o].state = got.state
      BY <1>1, <1>2, AnswerOK
<1>4. PICK x : x = worker[w]
      OBVIOUS
<1>5. x \in Local /\ Learned(x) /\ x.pc \notin Unloaded /\ x.o \in Operation
      BY <1>4 DEF Inv, TypeOK, FundingOK, AllLearned, Snapshots, Snapshot, Unloaded
<1>6. PICK s : s = [x EXCEPT !.pc = pc, !.got = got, !.fresh = kind # "settle"]
      OBVIOUS
<1>7. s.pc = pc /\ s.o = x.o /\ s.seen = x.seen /\ s.got = got /\ s.held = x.held
      BY <1>5, <1>6 DEF Local
<1>8. Fits(s)
      BY <1>4, <1>7 DEF Fits
<1>9. /\ ~ PreStage(s.seen) => ~ PreStage(op'[s.o])
      /\ s.got.state \in {"released", "finalized"} => core'[s.o].state = s.got.state
      /\ s.held.state \in {"released", "finalized"} => core'[s.o].state = s.held.state
  <2>1. ~ PreStage(s.seen) => ~ PreStage(op'[s.o])
        BY <1>2, <1>5, <1>7 DEF Learned, Unloaded
  <2>2. s.got.state \in {"released", "finalized"} => core'[s.o].state = s.got.state
        BY <1>3, <1>4, <1>7
  <2>3. s.held.state \in {"released", "finalized"} => core'[s.o].state = s.held.state
        BY <1>3, <1>5, <1>7 DEF Learned, ForGood, Kept
  <2>. QED  BY <2>1, <2>2, <2>3
<1>10. Learned(s)'
      BY <1>8, <1>9 DEF Learned, ForGood, Fits
<1>11. Become(w, s)
      BY <1>1, <1>4, <1>6
<1>12. AllLearned'
      BY <1>3, <1>10, <1>11, OneLearns DEF FundingOK
<1>. QED  BY <1>3, <1>12 DEF FundingOK

-----------------------------------------------------------------------------
(* The requests' steps. *)
LEMMA Knowing ==
    ASSUME Inv, FundingOK, NEW w \in Worker, worker[w].pc \notin Unloaded
    PROVE  /\ worker[w].o \in Operation /\ worker[w] \in Local
           /\ worker[w].seen \in OpRow /\ worker[w].got \in CoreRow
           /\ worker[w].held \in CoreRow /\ op[worker[w].o] \in OpRow
           /\ Learned(worker[w])
           /\ Fits(worker[w])
           /\ ForGood(worker[w].o, worker[w].got) /\ ForGood(worker[w].o, worker[w].held)
           /\ Matches(w) => worker[w].seen = op[worker[w].o] /\ StageProof(worker[w].seen)
<1>1. /\ worker[w].o \in Operation /\ worker[w] \in Local
      /\ Snapshot(worker[w]) /\ Learned(worker[w])
      /\ op[worker[w].o] \in OpRow
      BY DEF Inv, TypeOK, Snapshots, Snapshot, Unloaded, FundingOK, AllLearned
<1>2. worker[w].seen \in OpRow /\ worker[w].got \in CoreRow /\ worker[w].held \in CoreRow
      BY <1>1 DEF Local
<1>3. Matches(w) => worker[w].seen = op[worker[w].o] /\ StageProof(worker[w].seen)
      BY <1>1 DEF Matches, Snapshot, FundingOK, Sound, Standing
<1>. QED  BY <1>1, <1>2, <1>3 DEF Learned

LEMMA MoveOK ==
    ASSUME Inv, TypeOK', FundingOK, NEW w \in Worker, worker[w].pc \notin Unloaded,
           NEW status \in Status \ {"released", "finalized", "failed", "venue_credited"},
           NEW won, NEW lost \in {"idle", "loop", "out"}, Move(w, status, won, lost),
           worker[w].seen.status # "none", status \in AllowedTransitions(worker[w].seen.status),
           StageProof(worker[w].seen) =>
              StageProof(Replacement(w, status, worker[w].seen.core_state)),
           won \notin {"idle", "out", "loop"} => status \in StatusAt(won) /\ won # "consume"
    PROVE  FundingOK' /\ Advancing
<1> DEFINE new == Replacement(w, status, worker[w].seen.core_state)
<1>1. worker[w].seen.core_state \in CoreState
      BY Knowing DEF OpRow
<1>2. UNCHANGED outside /\ Cas(w, status, worker[w].seen.core_state, won, lost)
      BY DEF Move
<1>3. new.status = status
      BY DEF Replacement
<1>4. Matches(w) => StageProof(new)
      BY Knowing
<1>5. Matches(w) => Advances(worker[w].o, worker[w].seen, new)
  <2> HIDE DEF new
  <2>. QED  BY <1>3, <1>4 DEF Advances
<1>6. lost # "consume"
      OBVIOUS
<1>. QED  BY <1>1, <1>2, <1>5, <1>6, CasOK

LEMMA StepsOK ==
    ASSUME Inv, TypeOK', FundingOK, NEW w \in Worker,
           Confirm(w) \/ Advance(w) \/ CreateAction(w) \/ Unsettled(w)
    PROVE  FundingOK' /\ Advancing
<1>1. worker[w].pc \notin Unloaded
      BY DEF Confirm, Advance, Step, CreateAction, Unsettled, Unloaded
<1> DEFINE x == worker[w].seen
           new(status) == Replacement(w, status, x.core_state)
<1>2. x \in OpRow /\ Fits(worker[w])
      BY <1>1, Knowing
<1>3. \A status : new(status).status = status /\ new(status).core_state = x.core_state
      BY DEF Replacement
<1> HIDE DEF new
<1>4. CASE Confirm(w)
  <2>1. x.status = "created" /\ Move(w, "confirmed", "loop", "loop")
        BY <1>2, <1>4 DEF Confirm, Fits, StatusAt
  <2>2. "confirmed" \in AllowedTransitions(x.status)
        BY <2>1 DEF AllowedTransitions
  <2>3. StageProof(x) => StageProof(new("confirmed"))
        BY <1>3, <2>1 DEF StageProof
  <2>. QED  BY <1>1, <2>1, <2>2, <2>3, MoveOK DEF Status, new
<1>5. CASE CreateAction(w)
  <2>1. x.status = "action_creating"
        BY <1>2, <1>5 DEF CreateAction, Fits, StatusAt
  <2>2. {"action_created", "action_unknown"} \subseteq AllowedTransitions(x.status)
        BY <2>1 DEF AllowedTransitions
  <2>3. /\ StageProof(x) => StageProof(new("action_created"))
        /\ StageProof(x) => StageProof(new("action_unknown"))
        BY <1>3, <2>1 DEF StageProof
  <2>4. CASE Move(w, "action_created", "loop", "loop")
        BY <1>1, <2>1, <2>2, <2>3, <2>4, MoveOK DEF Status, new
  <2>5. CASE Move(w, "action_unknown", "idle", "idle")
        BY <1>1, <2>1, <2>2, <2>3, <2>5, MoveOK DEF Status, new
  <2>. QED  BY <1>5, <2>4, <2>5 DEF CreateAction
<1>6. CASE Unsettled(w)
  <2>1. x.status = "settlement_submitting" /\ Move(w, "settlement_unknown", "idle", "idle")
        BY <1>2, <1>6 DEF Unsettled, Fits, StatusAt
  <2>2. "settlement_unknown" \in AllowedTransitions(x.status)
        BY <2>1 DEF AllowedTransitions
  <2>3. StageProof(x) => StageProof(new("settlement_unknown"))
        BY <1>3, <2>1 DEF StageProof
  <2>. QED  BY <1>1, <2>1, <2>2, <2>3, MoveOK DEF Status, new
<1>7. ASSUME NEW from, NEW status \in Status \ {"released", "finalized", "failed", "venue_credited"},
             NEW pc, Step(w, from, status, pc), from # "none",
             status \in AllowedTransitions(from),
             x.status = from /\ StageProof(x) => StageProof(new(status)),
             pc # "loop" => status \in StatusAt(pc) /\ pc # "consume"
      PROVE  FundingOK' /\ Advancing
  <2>1. x.status = from /\ Move(w, status, pc, "loop")
        BY <1>7 DEF Step
  <2>. QED  BY <1>1, <1>7, <2>1, MoveOK DEF new
<1>8. CASE Step(w, "confirmed", "action_creating", "create_action")
  <2>1. x.status = "confirmed" /\ StageProof(x) => StageProof(new("action_creating"))
        BY <1>3 DEF StageProof
  <2>. QED  BY <1>7, <1>8, <2>1 DEF Status, AllowedTransitions, StatusAt
<1>9. CASE Step(w, "action_created", "policy_evaluating", "evaluate_policy")
  <2>1. x.status = "action_created" /\ StageProof(x) => StageProof(new("policy_evaluating"))
        BY <1>3 DEF StageProof
  <2>. QED  BY <1>7, <1>9, <2>1 DEF Status, AllowedTransitions, StatusAt
<1>10. CASE Step(w, "policy_approved", "reservation_creating", "reserve")
  <2>1. x.status = "policy_approved" /\ StageProof(x) => StageProof(new("reservation_creating"))
        BY <1>3 DEF StageProof
  <2>. QED  BY <1>7, <1>10, <2>1 DEF Status, AllowedTransitions, StatusAt
<1>11. CASE Step(w, "reserved", "transaction_prepared", "loop")
  <2>1. x.status = "reserved" /\ StageProof(x) => StageProof(new("transaction_prepared"))
        BY <1>3 DEF StageProof
  <2>. QED  BY <1>7, <1>11, <2>1 DEF Status, AllowedTransitions
<1>12. CASE Step(w, "transaction_prepared", "settlement_submitting", "settle")
  <2>1. x.status = "transaction_prepared" /\ StageProof(x) =>
           StageProof(new("settlement_submitting"))
        BY <1>3 DEF StageProof
  <2>. QED  BY <1>7, <1>12, <2>1 DEF Status, AllowedTransitions, StatusAt
<1>13. CASE Step(w, "chain_confirmed", "bridge_pending", "loop")
  <2>1. x.status = "chain_confirmed" /\ StageProof(x) => StageProof(new("bridge_pending"))
        BY <1>3 DEF StageProof
  <2>. QED  BY <1>7, <1>13, <2>1 DEF Status, AllowedTransitions
<1>14. CASE Step(w, "venue_credited", "finalizing", "finalize_read")
  <2>1. x.status = "venue_credited" /\ StageProof(x) => StageProof(new("finalizing"))
        BY <1>3 DEF StageProof
  <2>. QED  BY <1>7, <1>14, <2>1 DEF Status, AllowedTransitions, StatusAt
<1>15. CASE Advance(w)
      BY <1>8, <1>9, <1>10, <1>11, <1>12, <1>13, <1>14, <1>15 DEF Advance
<1>. QED  BY <1>4, <1>5, <1>6, <1>15

LEMMA EvaluateOK ==
    ASSUME Inv, TypeOK', FundingOK, NEW w \in Worker, EvaluatePolicy(w)
    PROVE  FundingOK' /\ Advancing
<1>1. worker[w].pc \notin Unloaded
      BY DEF EvaluatePolicy, Unloaded
<1> DEFINE x == worker[w].seen
           new(status) == Replacement(w, status, x.core_state)
<1>2. x \in OpRow /\ x.status = "policy_evaluating"
      BY <1>1, Knowing DEF EvaluatePolicy, Fits, StatusAt
<1>3. \A status : new(status).status = status /\ new(status).core_state = x.core_state
      BY DEF Replacement
<1> HIDE DEF new
<1>4. {"policy_approved", "policy_unknown", "failed"} \subseteq AllowedTransitions(x.status)
      BY <1>2 DEF AllowedTransitions
<1>5. /\ StageProof(x) => StageProof(new("policy_approved"))
      /\ StageProof(x) => StageProof(new("policy_unknown"))
      /\ StageProof(x) => StageProof(new("failed")) /\ x.core_state = "none"
      BY <1>2, <1>3 DEF StageProof
<1>6. CASE Move(w, "policy_approved", "loop", "loop")
      BY <1>1, <1>2, <1>4, <1>5, <1>6, MoveOK DEF Status, new
<1>7. CASE Move(w, "policy_unknown", "idle", "idle")
      BY <1>1, <1>2, <1>4, <1>5, <1>7, MoveOK DEF Status, new
<1>8. CASE Move(w, "failed", "idle", "idle")
  <2>1. Matches(w) => StageProof(x)
        BY <1>1, Knowing
  <2>2. Matches(w) => Advances(worker[w].o, x, new("failed"))
        BY <1>2, <1>3, <1>4, <1>5, <2>1 DEF Advances, Unasked
  <2>3. UNCHANGED outside /\ Cas(w, "failed", x.core_state, "idle", "idle")
        BY <1>8 DEF Move
  <2>4. x.core_state \in CoreState /\ "failed" \in Status
        BY <1>2 DEF OpRow, Status
  <2>. QED  BY <1>1, <2>2, <2>3, <2>4, CasOK DEF new
<1>. QED  BY <1>6, <1>7, <1>8 DEF EvaluatePolicy

LEMMA PutOK ==
    ASSUME Inv, TypeOK', FundingOK, NEW w \in Worker, worker[w].pc \notin Unloaded,
           NEW status \in Status \ {"failed", "venue_credited"}, NEW cs \in CoreState,
           NEW won, NEW lost \in {"idle", "loop", "out", "consume"},
           Cas(w, status, cs, won, lost), UNCHANGED outside,
           worker[w].seen.status # "none", status \in AllowedTransitions(worker[w].seen.status),
           StageProof(Replacement(w, status, cs)),
           status \in {"released", "finalized"} => core[worker[w].o].state = status,
           won \notin {"idle", "out", "loop"} =>
              status \in StatusAt(won) /\ (won = "consume" => status \in Submitting),
           lost = "consume" => Paid(worker[w].got) /\ ~ PreStage(worker[w].seen)
    PROVE  FundingOK' /\ Advancing
<1> DEFINE new == Replacement(w, status, cs)
<1>1. new.status = status
      BY DEF Replacement
<1>2. Advances(worker[w].o, worker[w].seen, new)
  <2>1. StageProof(new)
        OBVIOUS
  <2> HIDE DEF new
  <2>. QED  BY <1>1, <2>1 DEF Advances
<1>. QED  BY <1>2, CasOK

(* A request that goes on with the same version of its operation. *)
LEMMA StaysOn ==
    ASSUME Inv, TypeOK', FundingOK, UNCHANGED <<op, outside>>,
           NEW w \in Worker, worker[w].pc \notin Unloaded, NEW s, Become(w, s),
           s.o = worker[w].o, s.seen = worker[w].seen, s.seen.status \in StatusAt(s.pc),
           s.pc = "consume" => s.seen.status \in Submitting,
           ForGood(s.o, s.got), ForGood(s.o, s.held)
    PROVE  FundingOK' /\ Advancing
<1>1. Fits(s)
      BY DEF Fits
<1>2. ~ PreStage(s.seen) => ~ PreStage(op[s.o])
      BY Knowing DEF Learned
<1>3. Learned(s)
      BY <1>1, <1>2 DEF Learned
<1>. QED  BY <1>3, GoesOn

LEMMA RoundOK ==
    ASSUME Inv, TypeOK', FundingOK, UNCHANGED <<op, outside>>,
           NEW w \in Worker, worker[w].pc \notin Unloaded, Continue(w, "out", worker[w].seen)
    PROVE  FundingOK' /\ Advancing
<1>1. PICK x : x = worker[w].seen
      OBVIOUS
<1>2. x \in OpRow /\ Continue(w, "out", x) /\ (~ PreStage(x) => ~ PreStage(op'[worker[w].o]))
      BY <1>1, Knowing DEF Learned
<1>3. UNCHANGED <<op, late, core, money, bridge, since>>
      BY DEF outside
<1>4. PICK s : Become(w, s) /\ Learned(s)'
      BY <1>2, <1>3, Continues DEF FundingOK
<1>5. Learned(s)
      BY <1>3, <1>4 DEF Learned, Fits, ForGood
<1>. QED  BY <1>4, <1>5, GoesOn

LEMMA GotoOK ==
    ASSUME Inv, TypeOK', FundingOK, UNCHANGED <<op, outside>>,
           NEW w \in Worker, worker[w].pc \notin Unloaded,
           NEW pc \in PC \ {"consume"}, Goto(w, pc), worker[w].seen.status \in StatusAt(pc)
    PROVE  FundingOK' /\ Advancing
<1>1. PICK s : s = [worker[w] EXCEPT !.pc = pc]
      OBVIOUS
<1>2. /\ s.pc = pc /\ s.o = worker[w].o /\ s.seen = worker[w].seen
      /\ s.got = worker[w].got /\ s.held = worker[w].held
      BY <1>1, Knowing DEF Local
<1>3. Become(w, s)
      BY <1>1 DEF Goto
<1>4. ForGood(s.o, s.got) /\ ForGood(s.o, s.held)
      BY <1>2, Knowing
<1>. QED  BY <1>2, <1>3, <1>4, StaysOn

LEMMA ReservedOK ==
    ASSUME Inv, TypeOK', FundingOK, NEW w \in Worker, Reserved(w)
    PROVE  FundingOK' /\ Advancing
<1>1. worker[w].pc \notin Unloaded
      BY DEF Reserved, Unloaded
<1>2. worker[w].seen.status = "reservation_creating"
      BY <1>1, Knowing DEF Reserved, Fits, StatusAt
<1>3. UNCHANGED outside
      BY DEF Reserved
<1>4. CASE Return(w) /\ UNCHANGED op
      BY <1>3, <1>4, Returns
<1>5. CASE Cas(w, "reserved", "spending_reserved", "loop", "loop")
  <2>1. StageProof(Replacement(w, "reserved", "spending_reserved"))
        BY DEF Replacement, StageProof
  <2>2. "reserved" \in AllowedTransitions(worker[w].seen.status)
        BY <1>2 DEF AllowedTransitions
  <2>. QED  BY <1>1, <1>2, <1>3, <1>5, <2>1, <2>2, PutOK DEF Status, CoreState
<1>. QED  BY <1>4, <1>5 DEF Reserved

LEMMA PrereleaseOK ==
    ASSUME Inv, TypeOK', FundingOK, NEW w \in Worker, Prerelease(w)
    PROVE  FundingOK' /\ Advancing
<1>1. worker[w].pc \notin Unloaded
      BY DEF Prerelease, Unloaded
<1>2. worker[w].seen.status = "settlement_unknown"
      BY <1>1, Knowing DEF Prerelease, Fits, StatusAt
<1>3. UNCHANGED outside
      BY DEF Prerelease
<1>4. CASE ReleasedUnsent(worker[w].got)
  <2>1. Cas(w, "released", "released", "idle", "idle")
        BY <1>4 DEF Prerelease
  <2>2. core[worker[w].o].state = "released"
        BY <1>1, <1>4, Knowing DEF ReleasedUnsent, ForGood
  <2>3. StageProof(Replacement(w, "released", "released"))
        BY DEF Replacement, StageProof
  <2>4. "released" \in AllowedTransitions(worker[w].seen.status)
        BY <1>2 DEF AllowedTransitions
  <2>. QED  BY <1>1, <1>2, <1>3, <2>1, <2>2, <2>3, <2>4, PutOK DEF Status, CoreState
<1>5. CASE ~ ReleasedUnsent(worker[w].got)
  <2>1. PICK s : s = [worker[w] EXCEPT !.pc = "consume", !.got = worker[w].held]
        OBVIOUS
  <2>2. UNCHANGED op /\ Become(w, s)
        BY <1>5, <2>1 DEF Prerelease
  <2>3. /\ s.pc = "consume" /\ s.o = worker[w].o /\ s.seen = worker[w].seen
        /\ s.got = worker[w].held /\ s.held = worker[w].held
        BY <1>1, <2>1, Knowing DEF Local
  <2>4. s.seen.status \in StatusAt(s.pc) /\ s.seen.status \in Submitting
        BY <1>2, <2>3 DEF StatusAt, Status, Submitting
  <2>5. ForGood(s.o, s.got) /\ ForGood(s.o, s.held)
        BY <1>1, <2>3, Knowing
  <2>. QED  BY <1>1, <1>3, <2>2, <2>3, <2>4, <2>5, StaysOn
<1>. QED  BY <1>4, <1>5

LEMMA FailingOK ==
    ASSUME Inv, TypeOK', FundingOK, NEW w \in Worker, Failing(w)
    PROVE  FundingOK' /\ Advancing
<1>1. worker[w].pc \notin Unloaded
      BY DEF Failing, Unloaded
<1>2. worker[w].seen.status \in Submitting
      BY <1>1, Knowing DEF Failing, Fits, StatusAt
<1>3. UNCHANGED outside
      BY DEF Failing
<1>4. CASE /\ worker[w].got.state = "released"
           /\ Cas(w, "released", "released", "out", "out")
  <2>2. core[worker[w].o].state = "released"
        BY <1>1, <1>4, Knowing DEF ForGood
  <2>3. StageProof(Replacement(w, "released", "released"))
        BY DEF Replacement, StageProof
  <2>4. "released" \in AllowedTransitions(worker[w].seen.status) /\ worker[w].seen.status # "none"
        BY <1>2 DEF AllowedTransitions, Submitting
  <2>. QED  BY <1>1, <1>3, <1>4, <2>2, <2>3, <2>4, PutOK DEF Status, CoreState
<1>5. CASE /\ worker[w].seen.status = "settlement_submitting"
           /\ Cas(w, "settlement_unknown", worker[w].seen.core_state, "out", "out")
  <2>1. worker[w].seen.core_state \in CoreState
        BY <1>1, Knowing DEF OpRow
  <2> DEFINE new == Replacement(w, "settlement_unknown", worker[w].seen.core_state)
  <2>2. new.status = "settlement_unknown" /\ new.core_state = worker[w].seen.core_state
        BY DEF Replacement
  <2> HIDE DEF new
  <2>3. Matches(w) => StageProof(new)
        BY <1>1, <1>5, <2>2, Knowing DEF StageProof
  <2>4. "settlement_unknown" \in AllowedTransitions(worker[w].seen.status)
        BY <1>5 DEF AllowedTransitions
  <2>5. Matches(w) => Advances(worker[w].o, worker[w].seen, new)
        BY <1>5, <2>2, <2>3, <2>4 DEF Advances
  <2>. QED  BY <1>1, <1>3, <1>5, <2>1, <2>5, CasOK DEF Status, new
<1>6. CASE Continue(w, "out", worker[w].seen) /\ UNCHANGED op
      BY <1>1, <1>3, <1>6, RoundOK
<1>. QED  BY <1>4, <1>5, <1>6 DEF Failing

LEMMA ConsumeOK ==
    ASSUME Inv, TypeOK', FundingOK, NEW w \in Worker, Consume(w)
    PROVE  FundingOK' /\ Advancing
<1> DEFINE r == worker[w].got
           status == worker[w].seen.status
<1>1. worker[w].pc \notin Unloaded
      BY DEF Consume, Unloaded
<1>2. /\ status \in Submitting \/ (Paid(r) /\ ~ PreStage(worker[w].seen))
      /\ status \in Status
      BY <1>1, Knowing DEF Consume, Fits, StatusAt, Submitting, OpRow
<1>3. UNCHANGED outside
      BY DEF Consume
<1>4. status \in Submitting => status # "none" /\ ~ PreStage(worker[w].seen)
      BY DEF Submitting, PreStage, Unasked
<1>5. CASE r.risk = "blocked"
  <2>1. Cas(w, "manual_review", "payment_submitted", "out", "out")
        BY <1>5 DEF Consume
  <2>2. status \in Submitting
        BY <1>2, <1>5 DEF Paid
  <2>3. "manual_review" \in AllowedTransitions(status)
        BY <2>2 DEF AllowedTransitions, Submitting
  <2>4. StageProof(Replacement(w, "manual_review", "payment_submitted"))
        BY DEF Replacement, StageProof
  <2>. QED  BY <1>1, <1>3, <1>4, <2>1, <2>2, <2>3, <2>4, PutOK DEF Status, CoreState
<1>6. CASE /\ status = "settlement_submitting"
           /\ \/ Cas(w, "settlement_unknown", "payment_submitted", "out", "out")
              \/ Cas(w, "settlement_unknown", "spending_reserved", "out", "out")
  <2>1. "settlement_unknown" \in AllowedTransitions(status)
        BY <1>6 DEF AllowedTransitions
  <2>2. /\ StageProof(Replacement(w, "settlement_unknown", "payment_submitted"))
        /\ StageProof(Replacement(w, "settlement_unknown", "spending_reserved"))
        BY DEF Replacement, StageProof
  <2>3. "settlement_unknown" \in Status \ {"failed", "venue_credited"}
        BY DEF Status
  <2>4. "payment_submitted" \in CoreState /\ "spending_reserved" \in CoreState
        BY DEF CoreState
  <2>5. CASE Cas(w, "settlement_unknown", "payment_submitted", "out", "out")
        BY <1>1, <1>3, <1>6, <2>1, <2>2, <2>3, <2>4, <2>5, PutOK
  <2>6. CASE Cas(w, "settlement_unknown", "spending_reserved", "out", "out")
        BY <1>1, <1>3, <1>6, <2>1, <2>2, <2>3, <2>4, <2>6, PutOK
  <2>. QED  BY <1>6, <2>5, <2>6
<1>7. CASE r.sealed /\ Goto(w, IF worker[w].fresh THEN "fail" ELSE "reread") /\ UNCHANGED op
  <2>1. status \in Submitting
        BY <1>2, <1>7 DEF Paid
  <2>2. status \in StatusAt("fail") /\ status \in StatusAt("reread")
        BY <2>1 DEF StatusAt
  <2>3. PICK pc \in {"fail", "reread"} : Goto(w, pc)
        BY <1>7
  <2>4. pc \in PC \ {"consume"} /\ status \in StatusAt(pc)
        BY <2>2, <2>3 DEF PC
  <2>. QED  BY <1>1, <1>3, <1>7, <2>3, <2>4, GotoOK
<1>8. CASE /\ r.state = "payment_submitted" /\ status # "submitted"
           /\ Cas(w, "submitted", "payment_submitted", "out", "out")
  <2>1. status \in Submitting
        BY <1>2, <1>8 DEF Paid
  <2>2. "submitted" \in AllowedTransitions(status)
        BY <1>8, <2>1 DEF AllowedTransitions, Submitting
  <2>3. StageProof(Replacement(w, "submitted", "payment_submitted"))
        BY DEF Replacement, StageProof
  <2>. QED  BY <1>1, <1>3, <1>4, <1>8, <2>1, <2>2, <2>3, PutOK DEF Status, CoreState
<1>9. CASE /\ Paid(r) /\ status = "settlement_submitting"
           /\ Cas(w, "submitted", "payment_submitted", "consume", "consume")
  <2>1. "submitted" \in AllowedTransitions(status) /\ status \in Submitting
        BY <1>9 DEF AllowedTransitions, Submitting
  <2>2. StageProof(Replacement(w, "submitted", "payment_submitted"))
        BY DEF Replacement, StageProof
  <2>3. "submitted" \in StatusAt("consume") /\ "submitted" \in Submitting
        BY DEF StatusAt, Status, Submitting
  <2>. QED  BY <1>1, <1>3, <1>4, <1>9, <2>1, <2>2, <2>3, PutOK DEF Status, CoreState
<1>10. CASE /\ status \in Submitting /\ status # "settlement_submitting"
            /\ Cas(w, "chain_confirmed", "settled", "loop", "loop")
  <2>1. "chain_confirmed" \in AllowedTransitions(status)
        BY <1>10 DEF AllowedTransitions, Submitting
  <2>2. StageProof(Replacement(w, "chain_confirmed", "settled"))
        BY DEF Replacement, StageProof
  <2>. QED  BY <1>1, <1>3, <1>4, <1>10, <2>1, <2>2, PutOK DEF Status, CoreState
<1>11. CASE Continue(w, "out", worker[w].seen) /\ UNCHANGED op
      BY <1>1, <1>3, <1>11, RoundOK
<1>12. \/ r.risk = "blocked"
       \/ /\ r.risk # "blocked" /\ r.risk = "pending" /\ status = "settlement_submitting"
          /\ Cas(w, "settlement_unknown", "payment_submitted", "out", "out")
       \/ r.sealed /\ Goto(w, IF worker[w].fresh THEN "fail" ELSE "reread") /\ UNCHANGED op
       \/ /\ r.state = "payment_submitted" /\ status # "submitted"
          /\ Cas(w, "submitted", "payment_submitted", "out", "out")
       \/ /\ r.risk # "blocked" /\ ~ (r.risk = "pending" /\ status = "settlement_submitting")
          /\ ~ r.sealed /\ r.state = "settled" /\ status \in Submitting
          /\ \/ /\ status = "settlement_submitting"
                /\ Cas(w, "submitted", "payment_submitted", "consume", "consume")
             \/ /\ status # "settlement_submitting"
                /\ Cas(w, "chain_confirmed", "settled", "loop", "loop")
       \/ /\ status = "settlement_submitting"
          /\ Cas(w, "settlement_unknown", "spending_reserved", "out", "out")
       \/ Continue(w, "out", worker[w].seen) /\ UNCHANGED op
      BY DEF Consume, AfterSettled
<1> HIDE DEF r, status
<1>13. r.risk # "blocked" /\ ~ (r.risk = "pending" /\ status = "settlement_submitting")
          /\ ~ r.sealed /\ r.state = "settled" /\ status = "settlement_submitting" => Paid(r)
      BY DEF Paid
<1>. QED  BY <1>5, <1>6, <1>7, <1>8, <1>9, <1>10, <1>11, <1>12, <1>13

LEMMA PollOK ==
    ASSUME Inv, TypeOK', FundingOK, NEW w \in Worker, Poll(w)
    PROVE  FundingOK' /\ Advancing
<1>1. worker[w].pc \notin Unloaded /\ worker[w].seen.status = "bridge_pending"
      BY DEF Poll, Unloaded
<1>2. UNCHANGED outside
      BY DEF Poll
<1>3. {"bridge_pending", "failed", "venue_credited"} \subseteq
          AllowedTransitions(worker[w].seen.status)
      BY <1>1 DEF AllowedTransitions
<1>4. \A status \in {"bridge_pending", "failed", "venue_credited"} :
          StageProof(Replacement(w, status, "settled"))
      BY DEF Replacement, StageProof
<1>5. "settled" \in CoreState /\ {"bridge_pending", "failed", "venue_credited"} \subseteq Status
      BY DEF CoreState, Status
<1>6. CASE Return(w) /\ UNCHANGED op
      BY <1>2, <1>6, Returns
<1>7. CASE Cas(w, "bridge_pending", "settled", "idle", "idle")
      BY <1>1, <1>2, <1>3, <1>4, <1>5, <1>7, PutOK
<1>8. ASSUME NEW p \in Selected(worker[w].o), NEW end \in {"failed", "venue_credited"},
             bridge[p] = (IF end = "failed" THEN "FAILED" ELSE "COMPLETED"),
             Cas(w, end, "settled", "idle", "idle")
      PROVE  FundingOK' /\ Advancing
  <2> DEFINE new == Replacement(w, end, "settled")
  <2>1. new.status = end /\ new.core_state = "settled"
        BY DEF Replacement
  <2>2. StageProof(new)
        BY <1>4
  <2> HIDE DEF new
  <2>3. Advances(worker[w].o, worker[w].seen, new)
        BY <1>1, <1>3, <1>8, <2>1, <2>2 DEF Advances
  <2>. QED  BY <1>1, <1>2, <1>5, <1>8, <2>3, CasOK DEF new
<1>. QED  BY <1>6, <1>7, <1>8 DEF Poll

LEMMA FinalizedOK ==
    ASSUME Inv, TypeOK', FundingOK, NEW w \in Worker, Finalized(w)
    PROVE  FundingOK' /\ Advancing
<1>1. worker[w].pc \notin Unloaded
      BY DEF Finalized, Unloaded
<1>2. worker[w].seen.status = "finalizing"
      BY <1>1, Knowing DEF Finalized, Fits, StatusAt
<1>3. UNCHANGED outside
      BY DEF Finalized
<1>4. CASE worker[w].got.state = "finalized"
  <2>1. Cas(w, "finalized", "finalized", "idle", "idle")
        BY <1>4 DEF Finalized
  <2>2. core[worker[w].o].state = "finalized"
        BY <1>1, <1>4, Knowing DEF ForGood
  <2>3. StageProof(Replacement(w, "finalized", "finalized"))
        BY DEF Replacement, StageProof
  <2>4. "finalized" \in AllowedTransitions(worker[w].seen.status)
        BY <1>2 DEF AllowedTransitions
  <2>. QED  BY <1>1, <1>2, <1>3, <2>1, <2>2, <2>3, <2>4, PutOK DEF Status, CoreState
<1>5. CASE worker[w].got.state # "finalized"
      BY <1>3, <1>5, Returns DEF Finalized
<1>. QED  BY <1>4, <1>5

LEMMA CallsOK ==
    ASSUME Inv, TypeOK', FundingOK, NEW w \in Worker,
           Reserve(w) \/ Settle(w) \/ Reconcile(w) \/ Fail(w) \/ Finalize(w)
    PROVE  FundingOK' /\ Advancing
<1> DEFINE status == worker[w].seen.status
<1>1. worker[w].pc \notin Unloaded
      BY DEF Reserve, Settle, Reconcile, Fail, Finalize, Unloaded
<1>2. Fits(worker[w])
      BY <1>1, Knowing
<1>3. status \in Submitting \cup {"reservation_creating", "finalizing"} =>
          ~ PreStage(worker[w].seen)
      BY DEF Submitting, PreStage, Unasked
<1>4. CASE Reserve(w)
  <2>1. status = "reservation_creating" /\ Call(w, "reserve", "reserved")
        BY <1>2, <1>4 DEF Reserve, Fits, StatusAt
  <2>2. status \in StatusAt("reserved")
        BY <2>1 DEF StatusAt
  <2>. QED  BY <1>1, <1>3, <2>1, <2>2, CallOK DEF Kind, PC
<1>5. CASE Settle(w)
  <2>1. status = "settlement_submitting" /\ Call(w, "settle", "settled")
        BY <1>2, <1>5 DEF Settle, Fits, StatusAt
  <2>2. status \in StatusAt("settled") /\ status \in Submitting
        BY <2>1 DEF StatusAt, Submitting
  <2>. QED  BY <1>1, <1>3, <2>1, <2>2, CallOK DEF Kind, PC
<1>6. CASE Reconcile(w)
  <2>1. status \in Submitting /\ Call(w, "reconcile", "judge")
        BY <1>2, <1>6 DEF Reconcile, Fits, StatusAt
  <2>2. status \in StatusAt("judge")
        BY <2>1 DEF StatusAt
  <2>. QED  BY <1>1, <1>3, <2>1, <2>2, CallOK DEF Kind, PC
<1>7. CASE Fail(w)
  <2>1. status \in Submitting
        BY <1>2, <1>7 DEF Fail, Fits, StatusAt
  <2>2. status \in StatusAt("failing")
        BY <2>1 DEF StatusAt
  <2>3. CASE Goto(w, "failing") /\ UNCHANGED <<repository, outside>>
    <3>1. UNCHANGED <<op, outside>>
          BY <2>3 DEF repository
    <3>. QED  BY <1>1, <2>2, <2>3, <3>1, GotoOK DEF PC
  <2>4. CASE Call(w, "release", "failing")
        BY <1>1, <1>3, <2>1, <2>2, <2>4, CallOK DEF Kind, PC
  <2>. QED  BY <1>7, <2>3, <2>4 DEF Fail
<1>8. CASE Finalize(w)
  <2>1. status = "finalizing"
        BY <1>2, <1>8 DEF Finalize, Fits, StatusAt
  <2>2. status \in StatusAt("finalized")
        BY <2>1 DEF StatusAt
  <2>3. CASE Goto(w, "finalized") /\ UNCHANGED <<repository, outside>>
    <3>1. UNCHANGED <<op, outside>>
          BY <2>3 DEF repository
    <3>. QED  BY <1>1, <2>2, <2>3, <3>1, GotoOK DEF PC
  <2>4. CASE Call(w, "finalize", "finalized")
        BY <1>1, <1>3, <2>1, <2>2, <2>4, CallOK DEF Kind, PC
  <2>5. CASE Return(w) /\ UNCHANGED <<repository, outside>>
    <3>1. UNCHANGED <<op, outside>>
          BY <2>5 DEF repository
    <3>. QED  BY <2>5, <3>1, Returns
  <2>. QED  BY <1>8, <2>3, <2>4, <2>5 DEF Finalize
<1>. QED  BY <1>4, <1>5, <1>6, <1>7, <1>8

LEMMA JudgeOK ==
    ASSUME Inv, TypeOK', FundingOK, NEW w \in Worker, Judge(w)
    PROVE  FundingOK' /\ Advancing
<1>1. worker[w].pc \notin Unloaded
      BY DEF Judge, Unloaded
<1>2. PICK x : x = worker[w]
      OBVIOUS
<1>3. /\ x \in Local /\ Learned(x) /\ x.pc \notin Unloaded /\ x.o \in Operation
      /\ ForGood(x.o, x.got) /\ ForGood(x.o, x.held)
      BY <1>1, <1>2, Knowing
<1>4. x.seen.status \in Submitting
      BY <1>1, <1>2, Knowing DEF Judge, Fits, StatusAt
<1>5. UNCHANGED <<op, money, bridge, since>>
      BY DEF Judge, repository
<1>6. PICK k : k = Known(w)
      OBVIOUS
<1>7. k \in {x.got, x.held} /\ ForGood(x.o, k)
      BY <1>2, <1>3, <1>6 DEF Known
<1>8. CASE AllowsRelease(x.seen) /\ Retryable(k)
  <2>1. PICK got \in {NoRow, Done("release", worker[w].o)} :
            /\ Answer(w, "release", got)
            /\ Become(w, [worker[w] EXCEPT !.pc = "prerelease", !.held = Known(w), !.got = got])
        BY <1>2, <1>6, <1>8 DEF Judge
  <2>2. ~ PreStage(worker[w].seen)
        BY <1>2, <1>4 DEF Submitting, PreStage, Unasked
  <2>3. /\ Sound' /\ Alone' /\ OwnTransfer' /\ Kept /\ NoReturn /\ Advancing
        /\ got.state \in {"released", "finalized"} => core'[x.o].state = got.state
        BY <1>1, <1>2, <1>5, <2>1, <2>2, AnswerOK DEF Kind
  <2>4. PICK s : s = [x EXCEPT !.pc = "prerelease", !.held = k, !.got = got]
        OBVIOUS
  <2>5. s.pc = "prerelease" /\ s.o = x.o /\ s.seen = x.seen /\ s.got = got /\ s.held = k
        BY <1>3, <2>4 DEF Local
  <2>6. Fits(s)
        BY <1>8, <2>5 DEF Fits, StatusAt, AllowsRelease
  <2>7. ~ PreStage(s.seen) => ~ PreStage(op'[s.o])
        BY <1>3, <1>5, <2>5 DEF Learned
  <2>8. s.held.state \in {"released", "finalized"} => core'[s.o].state = s.held.state
        BY <1>3, <1>7, <2>3, <2>5 DEF ForGood, Kept
  <2>9. Learned(s)'
        BY <2>3, <2>5, <2>6, <2>7, <2>8 DEF Learned, ForGood, Fits
  <2>10. Become(w, s)
        BY <1>2, <1>6, <2>1, <2>4
  <2>11. AllLearned'
        BY <2>3, <2>9, <2>10, OneLearns DEF FundingOK
  <2>. QED  BY <2>3, <2>11 DEF FundingOK
<1>9. CASE ~ (AllowsRelease(x.seen) /\ Retryable(k))
  <2>1. PICK s : s = [x EXCEPT !.pc = "consume", !.got = k]
        OBVIOUS
  <2>2. Become(w, s) /\ UNCHANGED <<op, outside>>
        BY <1>2, <1>6, <1>9, <2>1 DEF Judge, repository, outside
  <2>3. s.pc = "consume" /\ s.o = x.o /\ s.seen = x.seen /\ s.got = k /\ s.held = x.held
        BY <1>3, <2>1 DEF Local
  <2>4. s.seen.status \in StatusAt(s.pc)
        BY <1>4, <2>3 DEF StatusAt, Submitting, Status
  <2>. QED  BY <1>1, <1>2, <1>3, <1>4, <1>7, <2>2, <2>3, <2>4, StaysOn
<1>. QED  BY <1>8, <1>9

LEMMA ReadsOK ==
    ASSUME Inv, TypeOK', FundingOK, NEW w \in Worker,
           Answered(w) \/ Recover(w) \/ Reread(w) \/ FinalizeRead(w)
    PROVE  FundingOK' /\ Advancing
<1>1. worker[w].pc \notin Unloaded
      BY DEF Answered, Recover, Reread, FinalizeRead, Unloaded
<1>2. UNCHANGED <<op, outside>>
      BY DEF Answered, Recover, Reread, FinalizeRead, Read, repository
<1>3. PICK x, r : x = worker[w] /\ r = core[worker[w].o]
      OBVIOUS
<1>4. /\ x \in Local /\ Fits(x) /\ x.o \in Operation
      /\ ForGood(x.o, x.got) /\ ForGood(x.o, x.held) /\ ForGood(x.o, r)
      BY <1>1, <1>3, Knowing DEF ForGood
<1>5. ASSUME NEW s, Become(w, s), s.o = x.o, s.seen = x.seen, s.got = r,
             s.held \in {r, x.held}, x.seen.status \in StatusAt(s.pc),
             s.pc = "consume" => x.seen.status \in Submitting
      PROVE  FundingOK' /\ Advancing
  <2>1. ForGood(s.o, s.got) /\ ForGood(s.o, s.held)
        BY <1>4, <1>5
  <2>. QED  BY <1>1, <1>2, <1>3, <1>5, <2>1, StaysOn
<1>6. CASE Answered(w)
  <2>1. PICK s : s = [x EXCEPT !.got = r]
        OBVIOUS
  <2>2. s.pc = "settled" /\ s.o = x.o /\ s.seen = x.seen /\ s.got = r /\ s.held = x.held
        BY <1>3, <1>4, <1>6, <2>1 DEF Answered, Local
  <2>3. Become(w, s)
        BY <1>3, <1>6, <2>1 DEF Answered
  <2>4. x.seen.status \in StatusAt(s.pc)
        BY <1>3, <1>4, <1>6, <2>2 DEF Answered, Fits
  <2>. QED  BY <1>5, <2>2, <2>3, <2>4
<1>7. CASE FinalizeRead(w)
  <2>1. PICK s : s = [x EXCEPT !.pc = "finalize", !.got = r]
        OBVIOUS
  <2>2. s.pc = "finalize" /\ s.o = x.o /\ s.seen = x.seen /\ s.got = r /\ s.held = x.held
        BY <1>4, <2>1 DEF Local
  <2>3. Become(w, s) \/ Return(w)
        BY <1>3, <1>7, <2>1 DEF FinalizeRead, Read
  <2>4. x.seen.status \in StatusAt(s.pc)
        BY <1>3, <1>4, <1>7, <2>2 DEF FinalizeRead, Fits, StatusAt
  <2>. QED  BY <1>2, <1>5, <2>2, <2>3, <2>4, Returns
<1>8. CASE Reread(w)
  <2>1. PICK s : s = [x EXCEPT !.pc = "fail", !.got = r]
        OBVIOUS
  <2>2. s.pc = "fail" /\ s.o = x.o /\ s.seen = x.seen /\ s.got = r /\ s.held = x.held
        BY <1>4, <2>1 DEF Local
  <2>3. Become(w, s) \/ Continue(w, "out", worker[w].seen)
        BY <1>3, <1>8, <2>1 DEF Reread
  <2>4. x.seen.status \in StatusAt(s.pc)
        BY <1>3, <1>4, <1>8, <2>2 DEF Reread, Fits, StatusAt
  <2>. QED  BY <1>1, <1>2, <1>5, <2>2, <2>3, <2>4, RoundOK
<1>9. CASE Recover(w)
  <2>1. PICK pc \in {"consume", "reconcile", "judge"} :
            pc = (IF r.risk \in {"pending", "blocked"} THEN "consume"
                  ELSE IF r.state \in {"spending_reserved", "payment_submitted"} /\ ~ r.sealed
                  THEN "reconcile" ELSE "judge")
        OBVIOUS
  <2>2. PICK s : s = [x EXCEPT !.fresh = TRUE, !.held = r, !.got = r, !.pc = pc]
        OBVIOUS
  <2>3. s.pc = pc /\ s.o = x.o /\ s.seen = x.seen /\ s.got = r /\ s.held = r
        BY <1>4, <2>2 DEF Local
  <2>4. Become(w, s) \/ Return(w)
        BY <1>3, <1>9, <2>1, <2>2 DEF Recover
  <2>5. x.seen.status \in Submitting
        BY <1>3, <1>9 DEF Recover
  <2>6. x.seen.status \in StatusAt(s.pc)
        BY <2>1, <2>3, <2>5 DEF StatusAt, Submitting, Status
  <2>. QED  BY <1>2, <1>5, <2>3, <2>4, <2>5, <2>6, Returns
<1>. QED  BY <1>6, <1>7, <1>8, <1>9

(* Requests that have not read the operation yet, or leave it alone. *)
LEMMA OpeningOK ==
    ASSUME Inv, TypeOK', FundingOK, NEW w \in Worker,
           (\E o \in Operation : Prepare(w, o) \/ Load(w, o))
              \/ Claim(w) \/ Deposit(w) \/ Waits(w) \/ Abandon(w)
    PROVE  FundingOK' /\ Advancing
<1>1. UNCHANGED <<op, outside>>
      BY DEF Prepare, Load, Claim, Deposit, Waits, Abandon, repository
<1>2. ASSUME NEW s, Become(w, s), s.pc \in Unloaded
      PROVE  FundingOK' /\ Advancing
      BY <1>1, <1>2, GoesOn DEF Learned
<1>3. worker[w] \in Local /\ Idle \in Local
      BY IdleTyped DEF Inv, TypeOK
<1>4. ASSUME NEW pc \in {"create", "deposit"}, Goto(w, pc)
      PROVE  FundingOK' /\ Advancing
  <2>1. PICK s : s = [worker[w] EXCEPT !.pc = pc]
        OBVIOUS
  <2>2. Become(w, s) /\ s.pc = pc
        BY <1>3, <1>4, <2>1 DEF Goto, Local
  <2>. QED  BY <1>2, <2>2 DEF Unloaded
<1>5. ASSUME NEW o \in Operation, Prepare(w, o)
      PROVE  FundingOK' /\ Advancing
  <2>1. PICK s : s = [Idle EXCEPT !.o = o, !.pc = IF target THEN "create" ELSE "claim"]
        OBVIOUS
  <2>2. Become(w, s)
        BY <1>5, <2>1 DEF Prepare
  <2>3. s.pc \in {"create", "claim"}
        BY <1>3, <2>1 DEF Local
  <2>. QED  BY <1>2, <2>2, <2>3 DEF Unloaded
<1>6. ASSUME NEW o \in Operation, Load(w, o)
      PROVE  FundingOK' /\ Advancing
  <2>1. PICK s : s = [Idle EXCEPT !.o = o, !.seen = op[o],
                         !.pc = IF op[o].status = "created" THEN "confirm" ELSE "loop"]
        OBVIOUS
  <2>2. /\ s.pc = (IF op[o].status = "created" THEN "confirm" ELSE "loop")
        /\ s.o = o /\ s.seen = op[o] /\ s.got = NoRow /\ s.held = NoRow
        BY <1>3, <2>1 DEF Local, Idle
  <2>3. op[o].status \in Status
        BY DEF Inv, TypeOK, OpRow
  <2>4. Fits(s)
        BY <2>2, <2>3 DEF Fits, StatusAt
  <2>5. Learned(s)
        BY <2>2, <2>4 DEF Learned, ForGood, NoRow
  <2>6. Become(w, s)
        BY <1>6, <2>1 DEF Load
  <2>. QED  BY <1>1, <2>5, <2>6, GoesOn
<1>7. CASE Claim(w)
      BY <1>1, <1>4, <1>7, Returns DEF Claim
<1>8. CASE Deposit(w)
      BY <1>1, <1>4, <1>8, Returns DEF Deposit
<1>9. CASE Waits(w) \/ Abandon(w)
      BY <1>1, <1>9, Returns DEF Waits, Abandon
<1>. QED  BY <1>5, <1>6, <1>7, <1>8, <1>9

(* Operations that are created or that the operator gives up. *)
LEMMA CreateOK ==
    ASSUME Inv, TypeOK', FundingOK,
           (\E w \in Worker : Create(w)) \/ (\E o \in Operation : RecoverAmbiguous(o))
    PROVE  FundingOK' /\ Advancing
<1>1. UNCHANGED outside
      BY DEF Create, RecoverAmbiguous
<1>2. UNCHANGED <<late, core, money, bridge, since>>
      BY <1>1 DEF outside
<1>3. ASSUME NEW o \in Operation, NEW y, op' = [op EXCEPT ![o] = y], Advances(o, op[o], y)
      PROVE  Advancing
  <2>1. op'[o] = y /\ \A p \in Operation : p # o => op'[p] = op[p]
        BY <1>3 DEF Inv, TypeOK
  <2>. QED  BY <1>3, <2>1 DEF Advancing
<1>4. ASSUME op' = op
      PROVE  Advancing
      BY <1>4 DEF Advancing
<1>5. ASSUME NEW o \in Operation, RecoverAmbiguous(o)
      PROVE  Advancing
  <2>1. PICK x : x = op[o]
        OBVIOUS
  <2>2. PICK y : y = [x EXCEPT !.status = "manual_review", !.revision = @ + 1]
        OBVIOUS
  <2>3. x \in OpRow /\ op' = [op EXCEPT ![o] = y]
        BY <1>5, <2>1, <2>2 DEF RecoverAmbiguous, Inv, TypeOK
  <2>4. y.status = "manual_review"
        BY <2>2, <2>3 DEF OpRow
  <2>5. x.status \in {"action_creating", "policy_evaluating", "reservation_creating", "finalizing"}
        BY <1>5, <2>1 DEF RecoverAmbiguous
  <2>6. y.status \in AllowedTransitions(x.status) /\ StageProof(y)
        BY <2>4, <2>5 DEF AllowedTransitions, StageProof
  <2>7. Advances(o, x, y)
        BY <2>4, <2>5, <2>6 DEF Advances
  <2>. QED  BY <1>3, <2>1, <2>3, <2>7
<1>6. ASSUME NEW w \in Worker, Create(w)
      PROVE  Advancing
  <2>1. PICK o : o = worker[w].o
        OBVIOUS
  <2>2. o \in Operation
        BY <1>6, <2>1 DEF Create, Inv, Snapshots, Snapshot
  <2>3. CASE op[o].status = "none" /\ TargetFree(o)
    <3>1. PICK x : x = op[o]
          OBVIOUS
    <3>2. PICK y : y = [x EXCEPT !.status = "created"]
          OBVIOUS
    <3>3. x \in OpRow /\ op' = [op EXCEPT ![o] = y]
          BY <1>6, <2>1, <2>2, <2>3, <3>1, <3>2 DEF Create, Inv, TypeOK
    <3>4. y.status = "created" /\ y.core_state = x.core_state
          BY <3>2, <3>3 DEF OpRow
    <3>5. x.status = "none" /\ StageProof(x)
          BY <2>2, <2>3, <3>1 DEF FundingOK, Sound, Standing
    <3>6. y.status \in AllowedTransitions(x.status) /\ StageProof(y)
          BY <3>4, <3>5 DEF AllowedTransitions, StageProof
    <3>7. Advances(o, x, y)
          BY <2>3, <3>4, <3>5, <3>6 DEF Advances
    <3>. QED  BY <1>3, <2>2, <3>1, <3>3, <3>7
  <2>4. CASE ~ (op[o].status = "none" /\ TargetFree(o))
        BY <1>4, <1>6, <2>1, <2>4 DEF Create
  <2>. QED  BY <2>3, <2>4
<1>7. Advancing
      BY <1>5, <1>6
<1>8. Sound' /\ Alone' /\ OwnTransfer' /\ NoReturn
      BY <1>1, <1>7, RowsOK DEF FundingOK, Inv, NoReturn
<1>9. Kept
      BY <1>2 DEF Kept
<1>10. AllLearned'
  <2>1. CASE UNCHANGED worker
        BY <1>8, <1>9, <2>1, NobodyForgets DEF FundingOK
  <2>2. ASSUME NEW w \in Worker, Return(w)
        PROVE  AllLearned'
    <3>1. Learned(Idle)'
          BY DEF Learned, Idle, Unloaded
    <3>. QED  BY <1>8, <1>9, <2>2, <3>1, OneLearns DEF FundingOK, Return
  <2>. QED  BY <2>1, <2>2 DEF Create, RecoverAmbiguous
<1>. QED  BY <1>7, <1>8, <1>10 DEF FundingOK

LEMMA EnvironmentOK ==
    ASSUME Inv, TypeOK', FundingOK, Environment
    PROVE  FundingOK' /\ Advancing
<1>1. UNCHANGED <<op, worker>>
      BY DEF Environment, CarryOut, CorePrebroadcast, Mine, BridgeDetects, BridgeEnds, repository
<1>2. Advancing /\ NoReturn
      BY <1>1 DEF Advancing, NoReturn
<1>3. Sound' /\ Alone' /\ OwnTransfer' /\ Kept
  <2>1. ASSUME NEW m \in late, CarryOut(m)
        PROVE  Sound' /\ Alone' /\ OwnTransfer' /\ Kept
    <3>1. PICK kind \in Kind, o \in Operation : m = <<kind, o>>
          BY DEF Inv, TypeOK, Kind
    <3>2. m[1] = kind /\ m[2] = o
          BY <3>1
    <3>3. ~ PreStage(op[o])
          BY <3>2 DEF FundingOK, Sound, Untouched
    <3>4. core' = [core EXCEPT ![o] = Done(kind, o)] /\ late' \subseteq late \cup {<<kind, o>>}
          BY <2>1, <3>2 DEF CarryOut
    <3>5. UNCHANGED <<op, money, bridge, since>>
          BY <2>1 DEF CarryOut, repository
    <3>. QED  BY <3>3, <3>4, <3>5, ServedOK DEF Inv, FundingOK
  <2>2. ASSUME NEW o \in Operation, CorePrebroadcast(o) \/ Mine(o)
        PROVE  Sound' /\ Alone' /\ OwnTransfer' /\ Kept
        BY <2>2, CoreStepOK DEF Inv, FundingOK
  <2>3. ASSUME NEW o \in Operation, BridgeDetects(o) \/ BridgeEnds(o)
        PROVE  Sound' /\ Alone' /\ OwnTransfer' /\ Kept
        BY <2>3, BridgeOK DEF Inv, FundingOK
  <2>. QED  BY <2>1, <2>2, <2>3 DEF Environment
<1>. QED  BY <1>1, <1>2, <1>3, NobodyForgets DEF FundingOK

LEMMA InitFunding == Init => FundingOK
<1> SUFFICES ASSUME Init
             PROVE  FundingOK
    OBVIOUS
<1>1. ASSUME NEW o \in Operation
      PROVE  /\ op[o].status = "none" /\ op[o].core_state = "none"
             /\ core[o] = NoRow /\ NoRow.state = "none"
             /\ late = {} /\ money[o] = "idle" /\ bridge[o] = "none"
      BY DEF Init, NewOp, NoRow
<1>2. AllLearned
      BY DEF Init, AllLearned, Learned, Idle, Unloaded
<1>3. Sound
      BY <1>1 DEF Sound, Untouched, Booked, Standing, StageProof, Credited
<1>4. Alone /\ OwnTransfer
      BY <1>1 DEF Alone, Active, OwnTransfer
<1>. QED  BY <1>2, <1>3, <1>4 DEF FundingOK

LEMMA NextFunding ==
    ASSUME Inv, FundingOK, [Next]_vars
    PROVE  FundingOK' /\ Advancing
<1>1. TypeOK'
      BY NextInv DEF Inv
<1>2. ASSUME NEW w \in Worker, Request(w)
      PROVE  FundingOK' /\ Advancing
      BY <1>1, <1>2, OpeningOK, CreateOK, StepsOK, EvaluateOK, CallsOK, ReservedOK, ReadsOK,
         JudgeOK, PrereleaseOK, ConsumeOK, FailingOK, PollOK, FinalizedOK DEF Request
<1>3. CASE UNCHANGED vars
  <2>1. UNCHANGED <<op, late, core, money, bridge, since, worker>>
        BY <1>3 DEF vars, repository, outside
  <2>2. Advancing /\ NoReturn /\ Kept
        BY <2>1 DEF Advancing, NoReturn, Kept
  <2>3. Sound' /\ Alone' /\ OwnTransfer'
        BY <2>1 DEF FundingOK, Sound, Untouched, Booked, Standing, Alone, OwnTransfer
  <2>4. AllLearned'
        BY <2>1, <2>2, NobodyForgets DEF FundingOK
  <2>. QED  BY <2>2, <2>3, <2>4 DEF FundingOK
<1>. QED  BY <1>1, <1>2, <1>3, CreateOK, EnvironmentOK DEF Next

(* The second inductive invariant: an operation has come exactly as far as *)
(* Core, the money and the bridge let it, and every request still under    *)
(* way comes from a stage that it cannot undo.                             *)
THEOREM FundingInvariant == Spec => []FundingOK
<1>1. Init => FundingOK
      BY InitFunding
<1>2. Inv /\ FundingOK /\ [Next]_vars => FundingOK'
      BY NextFunding
<1>. QED  BY <1>1, <1>2, VenueInvariant, PTL DEF Spec

(* No compare-and-set of any request is ever refused by                    *)
(* _ALLOWED_OPERATION_TRANSITIONS or by the validation of the row, however *)
(* late the request applies what it learned and whoever died before it.    *)
THEOREM StepsAreAllowed == Spec => AllowedSteps
<1>1. Inv /\ FundingOK /\ [Next]_vars =>
          [\A o \in Operation : op'[o] # op[o] =>
              op'[o].status \in AllowedTransitions(op[o].status) /\ StageProof(op'[o])]_vars
  <2>1. SUFFICES ASSUME Inv, FundingOK, [Next]_vars, NEW o \in Operation, op'[o] # op[o]
                 PROVE  op'[o].status \in AllowedTransitions(op[o].status) /\ StageProof(op'[o])
        OBVIOUS
  <2>2. Advancing
        BY <2>1, NextFunding
  <2>. QED  BY <2>1, <2>2 DEF Advancing, Advances
<1>. QED  BY <1>1, VenueInvariant, FundingInvariant, PTL DEF Spec, AllowedSteps

(* An operation that _advance_loaded ends as failed or released leaves no  *)
(* budget held in Core and no transfer that happened or will, unless it    *)
(* was the bridge that failed after the transfer: a request to Core that   *)
(* nobody waits for any more cannot come after the end.                    *)
THEOREM EndsClean == Spec => []EndedHoldsNothing
<1>1. FundingOK => EndedHoldsNothing
  <2>1. SUFFICES ASSUME FundingOK, NEW o \in Operation, op[o].status \in {"failed", "released"}
                 PROVE  \/ core[o].state \in {"none", "released"} /\ money[o] \in {"idle", "reverted"}
                        \/ op[o].status = "failed" /\ bridge[o] = "FAILED"
        BY DEF EndedHoldsNothing
  <2>2. Untouched(o) /\ Booked(o) /\ Standing(o)
        BY <2>1 DEF FundingOK, Sound
  <2>3. CASE op[o].status = "released"
        BY <2>2, <2>3 DEF Standing, Booked
  <2>4. CASE op[o].status = "failed" /\ op[o].core_state = "none"
    <3>1. core[o].state = "none"
          BY <2>2, <2>4 DEF Untouched, PreStage, NoRow
    <3>. QED  BY <2>2, <3>1 DEF Booked
  <2>5. CASE op[o].status = "failed" /\ op[o].core_state # "none"
        BY <2>2, <2>5 DEF Standing
  <2>. QED  BY <2>1, <2>3, <2>4, <2>5
<1>. QED  BY <1>1, FundingInvariant, PTL

(* _select_status_transaction takes no other operation's transfer for its  *)
(* own although it asks the bridge for an amount and a time only: one      *)
(* operation at a time uses the address.                                   *)
THEOREM CreditsAreOwn == Spec => []CreditIsOwn
<1>1. FundingOK => CreditIsOwn
  <2>1. SUFFICES ASSUME FundingOK, NEW o \in Operation, op[o].status \in Credited
                 PROVE  money[o] = "moved" /\ bridge[o] = "COMPLETED"
        BY DEF CreditIsOwn, Credited
  <2>2. Booked(o) /\ Standing(o)
        BY <2>1 DEF FundingOK, Sound
  <2>. QED  BY <2>1, <2>2 DEF Booked, Standing
<1>. QED  BY <1>1, FundingInvariant, PTL

-----------------------------------------------------------------------------
(* Order signing.  Claiming a session makes a request its owner.  There is *)
(* one owner and there is never another, since no session returns to       *)
(* pending_browser_signature.  Only the owner posts, only it can fail the  *)
(* session after the claim, and only it writes the execution that it       *)
(* names; the requests that reconcile know what the venue showed them.     *)

Unsent == {"intent", "claim", "fail", "post"}
Told == {"record", "compare", "save", "finish"}
Owning == Unsent \cup Told \cup {"await", "doubt"}

Owns(k, s) == caller[k].s = s /\ caller[k].pc \in Owning

(* Nobody owns the session and nobody ever will. *)
Disowned(s) ==
    /\ session[s].status \notin {"none", "pending_browser_signature"}
    /\ \A k \in Caller : ~ Owns(k, s)

(* The execution that a request with these local variables would restore. *)
Restored(c) == IF c.seen.execution = "none" THEN "recovery" ELSE c.seen.execution

(* What a request with the local variables c knows about its session. *)
Knows(c) ==
    c.pc # "idle" =>
        /\ c.s \in Session
        /\ session[c.s].status # "none"
        /\ c.pc \in {"check", "expire"} => c.seen.revision = 0
        /\ c.pc \in Owning =>
              /\ session[c.s].status \in {"submitting", "unknown", "submitted"}
              /\ session[c.s].execution # "uuid"
              /\ c.seen.execution = "none"
        /\ c.pc \in Unsent => posts[c.s] = 0
        /\ c.pc \in Told =>
              /\ c.result # "none"
              /\ c.result = "rejected" => order[c.s] = "refused"
              /\ c.result = "blocked" => order[c.s] = "none"
        /\ c.result = "submitted" => order[c.s] = "accepted"
        /\ c.pc = "finish" => execution[c.s].uuid = Outcome(c.result)
        /\ c.pc \in {"recover", "restore"} => c.result = "submitted"
        /\ c.pc = "restore" => execution[c.s][Restored(c)] = "submitted"
        /\ c.seen.execution = "uuid" => Disowned(c.s)

SessionOK(s) ==
    /\ session[s].status \in {"none", "pending_browser_signature"} =>
          session[s].revision = 0 /\ session[s].execution = "none"
    /\ session[s].status \in {"none", "pending_browser_signature", "blocked", "expired"} =>
          posts[s] = 0
    /\ session[s].status = "submitting" => session[s].revision # 0
    /\ posts[s] = 0 <=> order[s] = "none"
    /\ posts[s] <= 1
    /\ session[s].status = "submitted" =>
          /\ order[s] = "accepted"
          /\ session[s].execution # "none"
          /\ execution[s][session[s].execution] = "submitted"
    /\ session[s].status = "failed" => order[s] \notin {"sent", "accepted"}
    /\ execution[s].recovery \in {"none", "submitted"}

OneOwner == \A s \in Session : \A j, k \in Caller : Owns(j, s) /\ Owns(k, s) => j = k

OrderInv ==
    /\ OrderTypeOK
    /\ \A k \in Caller : Knows(caller[k])
    /\ \A s \in Session : SessionOK(s)
    /\ OneOwner

-----------------------------------------------------------------------------
(* Facts about the local variables of a request. *)
LEMMA RestingTyped == Resting \in CallerState /\ Resting.pc = "idle"
BY DEF Resting, CallerState, NewSession, NoLive, SessionRow, LiveRow, Result, Ended

LEMMA OrderInitInv == OrderInit => OrderInv
<1> SUFFICES ASSUME OrderInit
             PROVE  OrderInv
    OBVIOUS
<1>1. OrderTypeOK
      BY RestingTyped
      DEF OrderInit, OrderTypeOK, NewSession, NoLive, SessionRow, LiveRow, Ended
<1>2. \A k \in Caller : caller[k].pc = "idle"
      BY RestingTyped DEF OrderInit
<1>3. \A k \in Caller : Knows(caller[k])
      BY <1>2 DEF Knows
<1>4. \A s \in Session : SessionOK(s)
      BY DEF OrderInit, SessionOK, NewSession
<1>5. OneOwner
      BY <1>2 DEF OneOwner, Owns, Owning, Unsent, Told
<1>. QED  BY <1>1, <1>3, <1>4, <1>5 DEF OrderInv

(* A request that was no owner does not become one: then owners only go. *)
LEMMA OwnersGo ==
    ASSUME NEW k \in Caller, NEW c \in CallerState, OrderTypeOK, Turn(k, c),
           c.pc \in Owning => Owns(k, c.s)
    PROVE  /\ \A j \in Caller : \A s : Owns(j, s)' => Owns(j, s)
           /\ caller' \in [Caller -> CallerState]
           /\ caller'[k] = c
           /\ \A j \in Caller \ {k} : caller'[j] = caller[j]
BY DEF Turn, Owns, OrderTypeOK

(* A step that changes nothing but the variables of one request, or the    *)
(* live submission.                                                        *)
LEMMA LocalStep ==
    ASSUME OrderInv, NEW k \in Caller, NEW c \in CallerState, Turn(k, c),
           c.pc \in Owning => Owns(k, c.s), Knows(c),
           UNCHANGED <<session, execution, lapsed, order, posts>>,
           live' \in [Session -> LiveRow]
    PROVE  OrderInv'
<1>1. OrderTypeOK
      BY DEF OrderInv
<1>2. /\ \A j \in Caller : \A s : Owns(j, s)' => Owns(j, s)
      /\ caller' \in [Caller -> CallerState]
      /\ caller'[k] = c
      /\ \A j \in Caller \ {k} : caller'[j] = caller[j]
      BY <1>1, OwnersGo
<1>3. OrderTypeOK'
      BY <1>1, <1>2 DEF OrderTypeOK
<1>4. \A s \in Session : Disowned(s) => Disowned(s)'
      BY <1>2 DEF Disowned
<1>5. ASSUME NEW d, Knows(d)
      PROVE  Knows(d)'
      BY <1>4, <1>5 DEF Knows
<1>6. \A j \in Caller : Knows(caller[j])'
      <2> TAKE j \in Caller
      <2>1. CASE j = k
            <3>1. Knows(c)'
                  BY <1>5
            <3>. QED  BY <2>1, <1>2, <3>1 DEF Knows, Restored
      <2>2. CASE j # k
            <3>1. Knows(caller[j])
                  BY DEF OrderInv
            <3>. QED  BY <2>2, <1>2, <1>4, <3>1 DEF Knows, Restored
      <2>. QED  BY <2>1, <2>2
<1>7. \A s \in Session : SessionOK(s)'
      BY DEF OrderInv, SessionOK
<1>8. OneOwner'
      BY <1>2 DEF OrderInv, OneOwner
<1>. QED  BY <1>3, <1>6, <1>7, <1>8 DEF OrderInv

LEMMA Facts ==
    ASSUME OrderInv, NEW k \in Caller
    PROVE  /\ OrderTypeOK
           /\ caller[k] \in CallerState
           /\ Knows(caller[k])
           /\ caller[k].pc # "idle" => caller[k].s \in Session /\ SessionOK(caller[k].s)
BY DEF OrderInv, OrderTypeOK, Knows

LEMMA RestStep ==
    ASSUME OrderInv, NEW k \in Caller, Rest(k),
           UNCHANGED <<session, live, execution, lapsed, order, posts>>
    PROVE  OrderInv'
<1>1. Knows(Resting) /\ Resting.pc \notin Owning
      BY RestingTyped DEF Knows, Owning, Unsent, Told
<1>2. live' \in [Session -> LiveRow]
      BY DEF OrderInv, OrderTypeOK
<1>. QED  BY <1>1, <1>2, RestingTyped, LocalStep DEF Rest

LEMMA ReceiveInv ==
    ASSUME OrderInv, NEW k \in Caller, NEW s \in Session, Receive(k, s)
    PROVE  OrderInv'
<1>. DEFINE c == [Resting EXCEPT !.s = s, !.seen = session[s],
           !.pc = IF session[s].status # "pending_browser_signature" THEN "reconcile"
                  ELSE IF s \in lapsed THEN "expire" ELSE "check"]
<1>1. OrderTypeOK /\ SessionOK(s) /\ session[s] \in SessionRow
      BY DEF OrderInv, OrderTypeOK
<1>2. /\ Turn(k, c)
      /\ session[s].status \in {"pending_browser_signature", "submitting", "unknown"}
      /\ UNCHANGED <<session, live, execution, lapsed, order, posts>>
      BY DEF Receive
<1>3. /\ c.s = s /\ c.seen = session[s] /\ c.result = "none"
      /\ c.pc \in {"reconcile", "expire", "check"}
      /\ c.pc # "reconcile" => session[s].status = "pending_browser_signature"
      BY DEF Resting
<1>4. c \in CallerState
      BY <1>1 DEF Resting, CallerState, NoLive, LiveRow, Result
<1>5. session[s].execution = "uuid" => Disowned(s)
      BY <1>1, <1>2 DEF Disowned, Owns, OrderInv, Knows, Owning, Unsent, Told, SessionOK
<1>6. Knows(c)
      BY <1>1, <1>2, <1>3, <1>5 DEF Knows, SessionOK, Owning, Unsent, Told
<1>7. c.pc \notin Owning
      BY <1>3 DEF Owning, Unsent, Told
<1>8. live' \in [Session -> LiveRow]
      BY <1>1, <1>2 DEF OrderTypeOK
<1>. HIDE DEF c
<1>. QED  BY <1>2, <1>4, <1>6, <1>7, <1>8, LocalStep

(* The steps that only move the program counter. *)
LEMMA ProceedStep ==
    ASSUME OrderInv, NEW k \in Caller, caller[k].pc # "idle",
           NEW pc \in {"claim", "fail", "doubt", "post", "await", "compare", "save", "recover"},
           Proceed(k, pc),
           caller[k].pc \in Owning <=> pc \in Owning,
           pc \in Unsent => caller[k].pc \in Unsent,
           pc \in Told => caller[k].pc \in Told,
           pc = "recover" => caller[k].result = "submitted",
           UNCHANGED <<session, execution, lapsed, order, posts>>,
           live' \in [Session -> LiveRow]
    PROVE  OrderInv'
<1>. DEFINE c == [caller[k] EXCEPT !.pc = pc]
<1>1. caller[k] \in CallerState /\ Knows(caller[k])
      BY Facts
<1>2. c \in CallerState
      BY <1>1 DEF CallerState
<1>3. c.pc = pc /\ c.s = caller[k].s /\ c.seen = caller[k].seen /\ c.result = caller[k].result
      BY <1>1 DEF CallerState
<1>4. Turn(k, c)
      BY DEF Proceed
<1>. HIDE DEF c
<1>5. Knows(c)
      BY <1>1, <1>3 DEF Knows, Owning
<1>6. c.pc \in Owning => Owns(k, c.s)
      BY <1>1, <1>3 DEF Owns
<1>. QED  BY <1>2, <1>4, <1>5, <1>6, LocalStep

(* The live submission keeps its type. *)
LEMMA LiveTyped ==
    ASSUME OrderTypeOK, NEW k \in Caller, caller[k] \in CallerState,
           NEW status \in {"none", "submitting", "unknown", "submitted", "rejected"}, SetLive(k, status)
    PROVE  live' \in [Session -> LiveRow]
<1>. DEFINE new == [status |-> status, revision |-> caller[k].row.revision + 1]
<1>1. caller[k].row \in LiveRow
      BY DEF CallerState
<1>2. caller[k].row.revision + 1 \in Nat
      BY <1>1 DEF LiveRow
<1>3. new \in LiveRow
      BY <1>2 DEF LiveRow
<1>4. live' = [live EXCEPT ![caller[k].s] = new]
      BY DEF SetLive
<1>. HIDE DEF new
<1>. QED  BY <1>3, <1>4 DEF OrderTypeOK

(* A request moves on with another row of the live submission, or another  *)
(* answer of the venue.                                                    *)
LEMMA MoveStep ==
    ASSUME OrderInv, NEW k \in Caller, caller[k].pc # "idle",
           NEW c \in CallerState, Turn(k, c), c.s = caller[k].s, c.seen = caller[k].seen,
           c.pc \in {"claim", "post", "record", "query", "apply"},
           caller[k].pc \in Owning <=> c.pc \in Owning,
           c.pc \in Unsent => caller[k].pc \in Unsent,
           c.result = "submitted" => order[c.s] = "accepted",
           c.pc = "record" =>
              /\ c.result # "none"
              /\ c.result = "rejected" => order[c.s] = "refused"
              /\ c.result = "blocked" => order[c.s] = "none",
           UNCHANGED <<session, execution, lapsed, order, posts>>,
           live' \in [Session -> LiveRow]
    PROVE  OrderInv'
<1>1. caller[k] \in CallerState /\ Knows(caller[k])
      BY Facts
<1>2. Knows(c)
      BY <1>1 DEF Knows, Owning, Told, Unsent
<1>3. c.pc \in Owning => Owns(k, c.s)
      BY DEF Owns
<1>. QED  BY <1>2, <1>3, LocalStep

LEMMA RecordIntentInv ==
    ASSUME OrderInv, NEW k \in Caller, RecordIntent(k)
    PROVE  OrderInv'
<1>. DEFINE s == caller[k].s
            row == IF live[s] = NoLive THEN [status |-> "intent_recorded", revision |-> 0]
                   ELSE live[s]
            c == [caller[k] EXCEPT !.pc = "claim", !.row = row]
<1>1. /\ OrderTypeOK /\ caller[k] \in CallerState /\ Knows(caller[k])
      /\ caller[k].pc = "intent" /\ s \in Session
      BY Facts DEF RecordIntent
<1>2. row \in LiveRow
      BY <1>1 DEF OrderTypeOK, LiveRow
<1>3. UNCHANGED <<session, execution, lapsed, order, posts>>
      BY DEF RecordIntent
<1>4. CASE live' = [live EXCEPT ![s] = row] /\ Turn(k, c)
      <2>1. c \in CallerState
            BY <1>1, <1>2 DEF CallerState
      <2>2. c.pc = "claim" /\ c.s = s /\ c.seen = caller[k].seen /\ c.result = caller[k].result
            BY <1>1 DEF CallerState
      <2>3. live' \in [Session -> LiveRow]
            BY <1>1, <1>2, <1>4 DEF OrderTypeOK
      <2>4. c.result = "submitted" => order[c.s] = "accepted"
            BY <1>1, <2>2 DEF Knows
      <2>. HIDE DEF c
      <2>. QED  BY <1>1, <1>3, <1>4, <2>1, <2>2, <2>3, <2>4, MoveStep DEF Owning, Unsent, Told
<1>5. CASE Proceed(k, "fail") /\ UNCHANGED live
      BY <1>1, <1>3, <1>5, ProceedStep DEF Owning, Unsent, Told, OrderTypeOK
<1>. QED  BY <1>4, <1>5 DEF RecordIntent

LEMMA ClaimLiveInv ==
    ASSUME OrderInv, NEW k \in Caller, ClaimLive(k)
    PROVE  OrderInv'
<1>. DEFINE c == [caller[k] EXCEPT !.pc = "post", !.row.revision = @ + 1]
<1>1. /\ OrderTypeOK /\ caller[k] \in CallerState /\ Knows(caller[k])
      /\ caller[k].pc = "claim" /\ caller[k].s \in Session
      BY Facts DEF ClaimLive
<1>2. UNCHANGED <<session, execution, lapsed, order, posts>>
      BY DEF ClaimLive
<1>3. CASE SetLive(k, "submitting") /\ Turn(k, c)
      <2>1. caller[k].row \in LiveRow
            BY <1>1 DEF CallerState
      <2>2. [caller[k].row EXCEPT !.revision = @ + 1] \in LiveRow
            BY <2>1 DEF LiveRow
      <2>3. c \in CallerState
            BY <1>1, <2>2 DEF CallerState
      <2>4. c.pc = "post" /\ c.s = caller[k].s /\ c.seen = caller[k].seen
            /\ c.result = caller[k].result
            BY <1>1 DEF CallerState
      <2>5. live' \in [Session -> LiveRow]
            BY <1>1, <1>3, LiveTyped
      <2>6. c.result = "submitted" => order[c.s] = "accepted"
            BY <1>1, <2>4 DEF Knows
      <2>. HIDE DEF c
      <2>. QED  BY <1>1, <1>2, <1>3, <2>3, <2>4, <2>5, <2>6, MoveStep DEF Owning, Unsent, Told
<1>4. CASE Proceed(k, "doubt") /\ UNCHANGED live
      BY <1>1, <1>2, <1>4, ProceedStep DEF Owning, Unsent, Told, OrderTypeOK
<1>5. CASE Proceed(k, "fail") /\ UNCHANGED live
      BY <1>1, <1>2, <1>5, ProceedStep DEF Owning, Unsent, Told, OrderTypeOK
<1>. QED  BY <1>3, <1>4, <1>5 DEF ClaimLive

LEMMA AwaitInv ==
    ASSUME OrderInv, NEW k \in Caller, Await(k)
    PROVE  OrderInv'
<1>1. /\ OrderTypeOK /\ caller[k] \in CallerState /\ Knows(caller[k])
      /\ caller[k].pc = "await" /\ caller[k].s \in Session
      BY Facts DEF Await
<1>2. PICK result \in VenueAnswer(caller[k].s) :
          Turn(k, [caller[k] EXCEPT !.pc = "record", !.result = result])
      BY DEF Await
<1>. DEFINE c == [caller[k] EXCEPT !.pc = "record", !.result = result]
<1>3. /\ result \in {"unknown", "submitted", "rejected"}
      /\ result = "submitted" => order[caller[k].s] = "accepted"
      /\ result = "rejected" => order[caller[k].s] = "refused"
      BY DEF VenueAnswer
<1>4. c \in CallerState
      BY <1>1, <1>3 DEF CallerState, Result
<1>5. c.pc = "record" /\ c.s = caller[k].s /\ c.seen = caller[k].seen /\ c.result = result
      BY <1>1 DEF CallerState
<1>6. UNCHANGED <<session, live, execution, lapsed, order, posts>>
      BY DEF Await
<1>7. live' \in [Session -> LiveRow]
      BY <1>1, <1>6 DEF OrderTypeOK
<1>8. Turn(k, c)
      BY <1>2
<1>. HIDE DEF c
<1>. QED  BY <1>1, <1>3, <1>4, <1>5, <1>6, <1>7, <1>8, MoveStep DEF Owning, Unsent, Told

LEMMA RecordInv ==
    ASSUME OrderInv, NEW k \in Caller, Record(k)
    PROVE  OrderInv'
<1>. DEFINE status == LiveStatus(caller[k].result)
<1>1. /\ OrderTypeOK /\ caller[k] \in CallerState /\ Knows(caller[k])
      /\ caller[k].pc = "record" /\ caller[k].s \in Session
      BY Facts DEF Record
<1>2. UNCHANGED <<session, execution, lapsed, order, posts>>
      BY DEF Record
<1>3. CASE SameLive(k, Recordable(status)) /\ SetLive(k, status) /\ Proceed(k, "save")
      <2>1. live' \in [Session -> LiveRow]
            <3>1. status \in {"none", "submitting", "unknown", "submitted", "rejected"}
                  BY <1>1 DEF LiveStatus, CallerState, Result
            <3>. HIDE DEF status
            <3>. QED  BY <1>1, <1>3, <3>1, LiveTyped
      <2>. QED  BY <1>1, <1>2, <1>3, <2>1, ProceedStep DEF Owning, Unsent, Told
<1>4. CASE Proceed(k, "compare") /\ UNCHANGED live
      BY <1>1, <1>2, <1>4, ProceedStep DEF Owning, Unsent, Told, OrderTypeOK
<1>5. CASE Proceed(k, "doubt") /\ UNCHANGED live
      BY <1>1, <1>2, <1>5, ProceedStep DEF Owning, Unsent, Told, OrderTypeOK
<1>. QED  BY <1>3, <1>4, <1>5 DEF Record

LEMMA CompareInv ==
    ASSUME OrderInv, NEW k \in Caller, Compare(k)
    PROVE  OrderInv'
<1>1. /\ OrderTypeOK /\ caller[k].pc = "compare"
      BY Facts DEF Compare
<1>2. UNCHANGED <<session, live, execution, lapsed, order, posts>>
      BY DEF Compare
<1>3. Proceed(k, "save") \/ Proceed(k, "doubt")
      BY DEF Compare
<1>. QED  BY <1>1, <1>2, <1>3, ProceedStep DEF Owning, Unsent, Told, OrderTypeOK

LEMMA ReadLiveInv ==
    ASSUME OrderInv, NEW k \in Caller, ReadLive(k)
    PROVE  OrderInv'
<1>. DEFINE c == [caller[k] EXCEPT !.pc = "query", !.row = live[caller[k].s]]
<1>1. /\ OrderTypeOK /\ caller[k] \in CallerState /\ Knows(caller[k])
      /\ caller[k].pc = "reconcile" /\ caller[k].s \in Session
      BY Facts DEF ReadLive
<1>2. c \in CallerState
      BY <1>1 DEF CallerState, OrderTypeOK
<1>3. c.pc = "query" /\ c.s = caller[k].s /\ c.seen = caller[k].seen
      /\ c.result = caller[k].result
      BY <1>1 DEF CallerState
<1>4. UNCHANGED <<session, live, execution, lapsed, order, posts>> /\ Turn(k, c)
      BY DEF ReadLive
<1>5. live' \in [Session -> LiveRow]
      BY <1>1, <1>4 DEF OrderTypeOK
<1>6. c.result = "submitted" => order[c.s] = "accepted"
      BY <1>1, <1>3 DEF Knows
<1>. HIDE DEF c
<1>. QED  BY <1>1, <1>2, <1>3, <1>4, <1>5, <1>6, MoveStep DEF Owning, Unsent, Told

LEMMA QueryInv ==
    ASSUME OrderInv, NEW k \in Caller, Query(k)
    PROVE  OrderInv'
<1>1. /\ OrderTypeOK /\ caller[k] \in CallerState /\ Knows(caller[k])
      /\ caller[k].pc = "query" /\ caller[k].s \in Session
      BY Facts DEF Query
<1>2. PICK result \in {"submitted", "unknown", "blocked"} :
          /\ result = "submitted" => order[caller[k].s] = "accepted"
          /\ Turn(k, [caller[k] EXCEPT !.pc = "apply", !.result = result])
      BY DEF Query
<1>. DEFINE c == [caller[k] EXCEPT !.pc = "apply", !.result = result]
<1>3. c \in CallerState
      BY <1>1 DEF CallerState, Result
<1>4. c.pc = "apply" /\ c.s = caller[k].s /\ c.seen = caller[k].seen /\ c.result = result
      BY <1>1 DEF CallerState
<1>5. UNCHANGED <<session, live, execution, lapsed, order, posts>>
      BY DEF Query
<1>6. live' \in [Session -> LiveRow]
      BY <1>1, <1>5 DEF OrderTypeOK
<1>7. Turn(k, c)
      BY <1>2
<1>. HIDE DEF c
<1>. QED  BY <1>1, <1>2, <1>3, <1>4, <1>5, <1>6, <1>7, MoveStep DEF Owning, Unsent, Told

LEMMA ApplyInv ==
    ASSUME OrderInv, NEW k \in Caller, Apply(k)
    PROVE  OrderInv'
<1>. DEFINE told == Target(caller[k].result)
<1>1. /\ OrderTypeOK /\ caller[k] \in CallerState /\ Knows(caller[k])
      /\ caller[k].pc = "apply" /\ caller[k].s \in Session
      BY Facts DEF Apply
<1>2. UNCHANGED <<session, execution, lapsed, order, posts>>
      BY DEF Apply
<1>3. told \in {"none", "submitting", "unknown", "submitted", "rejected"}
      BY <1>1 DEF Target, CallerState, Result
<1>4. SetLive(k, told) \/ UNCHANGED live
      BY DEF Apply
<1>5. live' \in [Session -> LiveRow]
      <2>. HIDE DEF told
      <2>1. CASE SetLive(k, told)
            BY <1>1, <1>3, <2>1, LiveTyped
      <2>2. CASE UNCHANGED live
            BY <1>1, <2>2 DEF OrderTypeOK
      <2>. QED  BY <1>4, <2>1, <2>2
<1>6. CASE caller[k].result = "submitted" /\ Proceed(k, "recover")
      BY <1>1, <1>2, <1>5, <1>6, ProceedStep DEF Owning, Unsent, Told
<1>7. CASE Rest(k)
      <2>1. Knows(Resting) /\ Resting.pc \notin Owning
            BY RestingTyped DEF Knows, Owning, Unsent, Told
      <2>. QED  BY <1>2, <1>5, <1>7, <2>1, RestingTyped, LocalStep DEF Rest
<1>. QED  BY <1>6, <1>7 DEF Apply

(* A step that changes the session s, or its order or its execution, and   *)
(* that no other request takes part in.                                    *)
LEMMA SharedStep ==
    ASSUME OrderInv, OrderTypeOK', NEW k \in Caller, NEW s \in Session,
           \A j \in Caller \ {k} : caller'[j] = caller[j],
           \A t \in Session \ {s} :
              /\ session'[t] = session[t] /\ execution'[t] = execution[t]
              /\ order'[t] = order[t] /\ posts'[t] = posts[t],
           caller[k].s = s, caller'[k].pc = "idle" \/ caller'[k].s = s,
           Knows(caller[k])', SessionOK(s)', OneOwner',
           \A j \in Caller \ {k} : caller[j].s = s => Knows(caller[j])'
    PROVE  OrderInv'
<1>1. \A t \in Session \ {s} : SessionOK(t)'
      BY DEF OrderInv, SessionOK
<1>2. \A t \in Session \ {s} : Disowned(t) => Disowned(t)'
      BY DEF Disowned, Owns, Owning, Unsent, Told
<1>3. \A j \in Caller \ {k} : caller[j].s # s => Knows(caller[j])'
      BY <1>2 DEF OrderInv, Knows, Restored
<1>. QED  BY <1>1, <1>3 DEF OrderInv

-----------------------------------------------------------------------------
(* The steps that change the order, the execution file or the session. *)
LEMMA PostInv ==
    ASSUME OrderInv, NEW k \in Caller, Post(k)
    PROVE  OrderInv'
<1>. PICK s \in Session : s = caller[k].s
    BY Facts DEF Post
<1>1. /\ OrderTypeOK /\ caller[k] \in CallerState /\ Knows(caller[k])
      /\ caller[k].pc = "post" /\ s \in Session /\ s = caller[k].s /\ SessionOK(s)
      BY Facts DEF Post
<1>2. posts[s] = 0 /\ order[s] = "none"
      BY <1>1 DEF Knows, Unsent, SessionOK
<1>3. CASE /\ order' = [order EXCEPT ![s] = IF @ = "none" THEN "sent" ELSE @]
           /\ posts' = [posts EXCEPT ![s] = @ + 1]
           /\ Proceed(k, "await")
      <2>. DEFINE c == [caller[k] EXCEPT !.pc = "await"]
      <2>1. c \in CallerState
            BY <1>1 DEF CallerState
      <2>2. c.pc = "await" /\ c.s = s /\ c.seen = caller[k].seen /\ c.result = caller[k].result
            BY <1>1 DEF CallerState
      <2>3. Turn(k, c)
            BY <1>3 DEF Proceed
      <2>. HIDE DEF c
      <2>4. Owns(k, s)
            BY <1>1 DEF Owns, Owning, Unsent
      <2>5. /\ \A j \in Caller : \A t : Owns(j, t)' => Owns(j, t)
            /\ caller' \in [Caller -> CallerState]
            /\ caller'[k] = c
            /\ \A j \in Caller \ {k} : caller'[j] = caller[j]
            BY <1>1, <2>1, <2>2, <2>3, <2>4, OwnersGo
      <2>6. UNCHANGED <<session, live, execution, lapsed>>
            BY DEF Post
      <2>7. order'[s] = "sent" /\ posts'[s] = 1
            BY <1>1, <1>2, <1>3 DEF OrderTypeOK
      <2>8. \A t \in Session \ {s} : order'[t] = order[t] /\ posts'[t] = posts[t]
            BY <1>3 DEF OrderTypeOK
      <2>9. OrderTypeOK'
            BY <1>1, <1>3, <2>5, <2>6 DEF OrderTypeOK
      <2>10. OneOwner'
            BY <2>5 DEF OrderInv, OneOwner
      <2>11. SessionOK(s)'
            BY <1>1, <1>2, <2>6, <2>7 DEF SessionOK, Knows, Owning, Unsent
      <2>12. Knows(caller[k])'
            BY <1>1, <1>2, <2>2, <2>5, <2>6, <2>7, <2>4
            DEF Knows, Owning, Unsent, Told, Disowned
      <2>13. ASSUME NEW j \in Caller \ {k}, caller[j].s = s
             PROVE  Knows(caller[j])'
            <3>1. ~ Owns(j, s) /\ Knows(caller[j])
                  BY <1>1, <2>4 DEF OrderInv, OneOwner
            <3>2. caller[j].pc \notin Owning
                  BY <2>13, <3>1 DEF Owns
            <3>3. caller[j].seen.execution # "uuid" \/ caller[j].pc = "idle"
                  BY <1>1, <2>4, <2>13, <3>1 DEF Knows, Disowned
            <3>. QED  BY <1>2, <2>5, <2>6, <2>7, <2>13, <3>1, <3>2, <3>3
                      DEF Knows, Restored, Owning
      <2>. QED  BY <1>1, <2>2, <2>5, <2>6, <2>8, <2>9, <2>10, <2>11, <2>12, <2>13, SharedStep
<1>4. CASE /\ Turn(k, [caller[k] EXCEPT !.pc = "record", !.result = "blocked"])
           /\ UNCHANGED <<order, posts>>
      <2>. DEFINE c == [caller[k] EXCEPT !.pc = "record", !.result = "blocked"]
      <2>1. c \in CallerState
            BY <1>1 DEF CallerState, Result
      <2>2. c.pc = "record" /\ c.s = s /\ c.seen = caller[k].seen /\ c.result = "blocked"
            BY <1>1 DEF CallerState
      <2>3. UNCHANGED <<session, live, execution, lapsed, order, posts>> /\ Turn(k, c)
            BY <1>4 DEF Post
      <2>4. live' \in [Session -> LiveRow]
            BY <1>1, <2>3 DEF OrderTypeOK
      <2>. HIDE DEF c
      <2>. QED  BY <1>1, <1>2, <2>1, <2>2, <2>3, <2>4, MoveStep DEF Owning, Unsent, Told
<1>. QED  BY <1>1, <1>3, <1>4 DEF Post

LEMMA SaveExecutionInv ==
    ASSUME OrderInv, NEW k \in Caller, SaveExecution(k)
    PROVE  OrderInv'
<1>. PICK s \in Session : s = caller[k].s
    BY Facts DEF SaveExecution
<1>. DEFINE c == [caller[k] EXCEPT !.pc = "finish"]
<1>1. /\ OrderTypeOK /\ caller[k] \in CallerState /\ Knows(caller[k])
      /\ caller[k].pc = "save" /\ s \in Session /\ s = caller[k].s /\ SessionOK(s)
      BY Facts DEF SaveExecution
<1>2. c \in CallerState
      BY <1>1 DEF CallerState
<1>3. c.pc = "finish" /\ c.s = s /\ c.seen = caller[k].seen /\ c.result = caller[k].result
      BY <1>1 DEF CallerState
<1>4. Turn(k, c) /\ UNCHANGED <<session, live, lapsed, order, posts>>
      BY DEF SaveExecution, Proceed
<1>. HIDE DEF c
<1>5. Owns(k, s)
      BY <1>1 DEF Owns, Owning, Told
<1>6. /\ \A j \in Caller : \A t : Owns(j, t)' => Owns(j, t)
      /\ caller' \in [Caller -> CallerState]
      /\ caller'[k] = c
      /\ \A j \in Caller \ {k} : caller'[j] = caller[j]
      BY <1>1, <1>2, <1>3, <1>4, <1>5, OwnersGo
<1>7. execution' = [execution EXCEPT ![s].uuid = Outcome(caller[k].result)]
      BY <1>1 DEF SaveExecution
<1>8. Outcome(caller[k].result) \in Ended
      BY <1>1 DEF Outcome, Ended
<1>9. /\ execution'[s].uuid = Outcome(caller[k].result)
      /\ execution'[s]["recovery"] = execution[s]["recovery"]
      /\ execution'[s].recovery = execution[s].recovery
      /\ \A t \in Session \ {s} : execution'[t] = execution[t]
      BY <1>1, <1>7 DEF OrderTypeOK
<1>10. OrderTypeOK'
      <2>1. execution' \in [Session -> [uuid : Ended \cup {"none"}, recovery : Ended \cup {"none"}]]
            BY <1>1, <1>7, <1>8 DEF OrderTypeOK
      <2>. QED  BY <1>1, <1>4, <1>6, <2>1 DEF OrderTypeOK
<1>11. OneOwner'
      BY <1>6 DEF OrderInv, OneOwner
<1>12. session[s].execution \in {"none", "recovery"} /\ session[s].execution # "uuid"
      BY <1>1 DEF Knows, Owning, Told, OrderTypeOK, SessionRow
<1>13. SessionOK(s)'
      BY <1>1, <1>4, <1>9, <1>12 DEF SessionOK
<1>14. Knows(caller[k])'
      BY <1>1, <1>3, <1>4, <1>6, <1>9 DEF Knows, Owning, Told, Unsent
<1>15. ASSUME NEW j \in Caller \ {k}, caller[j].s = s
       PROVE  Knows(caller[j])'
      <2>1. ~ Owns(j, s) /\ Knows(caller[j])
            BY <1>1, <1>5 DEF OrderInv, OneOwner
      <2>2. caller[j].pc \notin Owning
            BY <1>15, <2>1 DEF Owns
      <2>3. caller[j].seen.execution # "uuid" \/ caller[j].pc = "idle"
            BY <1>1, <1>5, <1>15, <2>1 DEF Knows, Disowned
      <2>4. caller[j].pc = "idle" \/ Restored(caller[j]) = "recovery"
            BY <2>3, <1>1 DEF Restored, OrderTypeOK, CallerState, SessionRow
      <2>5. Restored(caller[j])' = Restored(caller[j])
            BY <1>6 DEF Restored
      <2>. QED  BY <1>4, <1>6, <1>9, <1>15, <2>1, <2>2, <2>3, <2>4, <2>5
                DEF Knows, Owning, Told
<1>. QED  BY <1>1, <1>3, <1>4, <1>6, <1>9, <1>10, <1>11, <1>13, <1>14, <1>15, SharedStep

(* compare_and_set_terminal: the session ends as its request says, or      *)
(* somebody else has changed it and nothing happens.                       *)
LEMMA TerminateStep ==
    ASSUME OrderInv, NEW k \in Caller, NEW s \in Session, s = caller[k].s,
           caller[k].pc # "idle",
           NEW status \in {"blocked", "expired", "failed", "unknown", "submitted"},
           NEW id \in {"none", "uuid", "recovery"}, Terminate(k, status, id),
           Current(k, Replaceable(status)) =>
              /\ status \in {"blocked", "expired"} => posts[s] = 0
              /\ status = "failed" => order[s] \notin {"sent", "accepted"}
              /\ status = "submitted" =>
                    order[s] = "accepted" /\ id # "none" /\ execution[s][id] = "submitted"
              /\ \A j \in Caller \ {k} :
                    Owns(j, s) => status = "submitted" /\ id # "uuid"
    PROVE  OrderInv'
<1>. DEFINE new == Updated(k, status, id)
<1>1. /\ OrderTypeOK /\ caller[k] \in CallerState /\ Knows(caller[k]) /\ SessionOK(s)
      BY Facts
<1>2. UNCHANGED <<live, execution, lapsed, order, posts>> /\ Rest(k)
      BY DEF Terminate
<1>3. CASE ~ Current(k, Replaceable(status))
      BY <1>2, <1>3, RestStep DEF Terminate
<1>4. CASE Current(k, Replaceable(status))
      <2>1. caller[k].seen \in SessionRow
            BY <1>1 DEF CallerState
      <2>2. /\ new.status = status /\ new.execution = id
            /\ new.revision = caller[k].seen.revision + 1
            BY <2>1 DEF Updated, SessionRow
      <2>3. new \in SessionRow
            <3>1. caller[k].seen.revision + 1 \in Nat
                  BY <2>1 DEF SessionRow
            <3>. DEFINE n == caller[k].seen.revision + 1
            <3>2. new = [caller[k].seen EXCEPT !.status = status, !.execution = id, !.revision = n]
                  BY DEF Updated
            <3>. HIDE DEF n, new
            <3>. QED  BY <2>1, <3>1, <3>2 DEF SessionRow, Ended, n
      <2>4. new.revision # 0
            <3>1. caller[k].seen.revision \in Nat
                  BY <2>1 DEF SessionRow
            <3>. QED  BY <2>2, <3>1
      <2>5. session' = [session EXCEPT ![s] = new]
            BY <1>4 DEF Terminate
      <2>. HIDE DEF new
      <2>6. session'[s] = new /\ \A t \in Session \ {s} : session'[t] = session[t]
            BY <1>1, <2>5 DEF OrderTypeOK
      <2>7. Resting.pc \notin Owning /\ Turn(k, Resting)
            BY <1>2, RestingTyped DEF Rest, Owning, Unsent, Told
      <2>8. /\ \A j \in Caller : \A t : Owns(j, t)' => Owns(j, t)
            /\ caller' \in [Caller -> CallerState]
            /\ caller'[k] = Resting
            /\ \A j \in Caller \ {k} : caller'[j] = caller[j]
            BY <1>1, <2>7, RestingTyped, OwnersGo
      <2>9. OrderTypeOK'
            BY <1>1, <1>2, <2>3, <2>5, <2>8 DEF OrderTypeOK
      <2>10. OneOwner'
            BY <2>8 DEF OrderInv, OneOwner
      <2>11. Knows(caller[k])'
            BY <2>8, RestingTyped DEF Knows
      <2>12. SessionOK(s)'
            BY <1>1, <1>2, <1>4, <2>2, <2>4, <2>6 DEF SessionOK
      <2>13. ASSUME NEW j \in Caller \ {k}, caller[j].s = s
             PROVE  Knows(caller[j])'
            <3>1. Knows(caller[j])
                  BY DEF OrderInv
            <3>2. caller[j].pc \in Owning => status = "submitted" /\ id # "uuid"
                  BY <1>4, <2>13 DEF Owns
            <3>3. Disowned(s) => Disowned(s)'
                  BY <2>2, <2>6, <2>8 DEF Disowned
            <3>4. Restored(caller[j])' = Restored(caller[j])
                  BY <2>8 DEF Restored
            <3>. QED  BY <1>2, <2>2, <2>6, <2>8, <2>13, <3>1, <3>2, <3>3, <3>4 DEF Knows
      <2>. QED  BY <1>2, <2>6, <2>8, <2>9, <2>10, <2>11, <2>12, <2>13, RestingTyped, SharedStep
<1>. QED  BY <1>3, <1>4

(* While a request owns a session nobody else does. *)
LEMMA SoleOwner ==
    ASSUME OrderInv, NEW k \in Caller, caller[k].pc \in Owning
    PROVE  \A j \in Caller \ {k} : ~ Owns(j, caller[k].s)
<1>1. caller[k].pc # "idle"
      BY DEF Owning, Unsent, Told
<1>. QED  BY <1>1, Facts DEF OrderInv, OneOwner, Owns

LEMMA OwnerEnds ==
    ASSUME OrderInv, NEW k \in Caller, FailUnsent(k) \/ Doubt(k) \/ Finish(k)
    PROVE  OrderInv'
<1>1. caller[k].pc \in {"fail", "doubt", "finish"}
      BY DEF FailUnsent, Doubt, Finish
<1>2. PICK s \in Session : s = caller[k].s
      BY <1>1, Facts
<1>3. caller[k] \in CallerState /\ Knows(caller[k]) /\ SessionOK(s)
      BY <1>1, <1>2, Facts
<1>4. \A j \in Caller \ {k} : ~ Owns(j, s)
      BY <1>1, <1>2, SoleOwner DEF Owning, Unsent, Told
<1>5. CASE FailUnsent(k)
      <2>1. order[s] = "none"
            BY <1>2, <1>3, <1>5 DEF FailUnsent, Knows, Unsent, SessionOK
      <2>. QED  BY <1>1, <1>2, <1>4, <1>5, <2>1, TerminateStep DEF FailUnsent
<1>6. CASE Doubt(k)
      BY <1>1, <1>2, <1>4, <1>6, TerminateStep DEF Doubt
<1>7. CASE Finish(k)
      <2>. DEFINE status == Outcome(caller[k].result)
      <2>1. status \in {"failed", "unknown", "submitted"}
            BY DEF Outcome
      <2>2. status = "failed" => caller[k].result \in {"rejected", "blocked"}
            BY <1>3, <1>7 DEF Finish, Outcome, Knows, Told, CallerState, Result
      <2>3. status = "failed" => order[s] \notin {"sent", "accepted"}
            BY <1>2, <1>3, <1>7, <2>2 DEF Finish, Knows, Told
      <2>4. status = "submitted" => order[s] = "accepted" /\ execution[s]["uuid"] = "submitted"
            BY <1>2, <1>3, <1>7 DEF Finish, Knows, Outcome
      <2>5. Terminate(k, status, "uuid")
            BY <1>7 DEF Finish
      <2>. HIDE DEF status
      <2>. QED  BY <1>1, <1>2, <1>4, <2>1, <2>3, <2>4, <2>5, TerminateStep
<1>. QED  BY <1>5, <1>6, <1>7

LEMMA RefuseInv ==
    ASSUME OrderInv, NEW k \in Caller, Refuse(k)
    PROVE  OrderInv'
<1>1. PICK status \in {"expired", "blocked", "failed"} : Terminate(k, status, "none")
      BY DEF Refuse
<1>2. caller[k].pc \in {"expire", "check"}
      BY DEF Refuse
<1>3. PICK s \in Session : s = caller[k].s
      BY <1>2, Facts
<1>4. OrderTypeOK /\ Knows(caller[k]) /\ SessionOK(s)
      BY <1>2, <1>3, Facts
<1>5. Current(k, Replaceable(status)) => session[s].status = "pending_browser_signature"
      BY <1>2, <1>3, <1>4 DEF Current, Replaceable, Knows, SessionOK
<1>6. session[s].status = "pending_browser_signature" =>
          /\ posts[s] = 0 /\ order[s] = "none"
          /\ \A j \in Caller : ~ Owns(j, s)
      BY <1>4 DEF SessionOK, OrderInv, Knows, Owns, Owning, Unsent, Told
<1>. QED  BY <1>1, <1>2, <1>3, <1>5, <1>6, TerminateStep

LEMMA RecoverSessionInv ==
    ASSUME OrderInv, NEW k \in Caller, RecoverSession(k)
    PROVE  OrderInv'
<1>. DEFINE id == Recovered(k)
<1>1. caller[k].pc = "restore" /\ Terminate(k, "submitted", id)
      BY DEF RecoverSession
<1>2. PICK s \in Session : s = caller[k].s
      BY <1>1, Facts
<1>3. caller[k] \in CallerState /\ Knows(caller[k])
      BY Facts
<1>4. id \in {"uuid", "recovery"} /\ id = Restored(caller[k])
      BY <1>3 DEF Recovered, Restored, CallerState, SessionRow
<1>5. order[s] = "accepted" /\ execution[s][id] = "submitted"
      BY <1>1, <1>2, <1>3, <1>4 DEF Knows
<1>6. id = "uuid" => \A j \in Caller : ~ Owns(j, s)
      BY <1>1, <1>2, <1>3 DEF Recovered, Knows, Disowned
<1>. HIDE DEF id
<1>. QED  BY <1>1, <1>2, <1>4, <1>5, <1>6, TerminateStep

LEMMA ClaimSessionInv ==
    ASSUME OrderInv, NEW k \in Caller, ClaimSession(k)
    PROVE  OrderInv'
<1>. DEFINE new == Updated(k, "submitting", "none")
            c == [caller[k] EXCEPT !.pc = "intent", !.seen = new]
<1>1. caller[k].pc = "check" /\ UNCHANGED <<live, execution, lapsed, order, posts>>
      BY DEF ClaimSession
<1>2. PICK s \in Session : s = caller[k].s
      BY <1>1, Facts
<1>3. /\ OrderTypeOK /\ caller[k] \in CallerState /\ Knows(caller[k]) /\ SessionOK(s)
      BY <1>1, <1>2, Facts
<1>4. CASE Rest(k) /\ UNCHANGED session
      BY <1>1, <1>4, RestStep
<1>5. CASE /\ Current(k, {"pending_browser_signature"})
           /\ session' = [session EXCEPT ![caller[k].s] = new]
           /\ Turn(k, c)
      <2>1. caller[k].seen \in SessionRow /\ caller[k].seen.revision = 0
            BY <1>1, <1>3 DEF CallerState, Knows
      <2>2. new.status = "submitting" /\ new.execution = "none" /\ new.revision = 1
            BY <2>1 DEF Updated, SessionRow
      <2>3. new \in SessionRow
            <3>1. caller[k].seen.revision + 1 = 1
                  BY <2>1
            <3>2. new = [caller[k].seen EXCEPT !.status = "submitting", !.execution = "none",
                                               !.revision = 1]
                  BY <3>1 DEF Updated
            <3>. HIDE DEF new
            <3>. QED  BY <2>1, <3>2 DEF SessionRow, Ended
      <2>. HIDE DEF new
      <2>4. c \in CallerState
            BY <1>3, <2>3 DEF CallerState
      <2>5. c.pc = "intent" /\ c.s = s /\ c.seen = new /\ c.result = caller[k].result
            BY <1>2, <1>3 DEF CallerState
      <2>. HIDE DEF c
      <2>6. /\ caller' \in [Caller -> CallerState] /\ caller'[k] = c
            /\ \A j \in Caller \ {k} : caller'[j] = caller[j]
            BY <1>3, <1>5, <2>4 DEF Turn, OrderTypeOK
      <2>7. session'[s] = new /\ \A t \in Session \ {s} : session'[t] = session[t]
            BY <1>2, <1>3, <1>5 DEF OrderTypeOK
      <2>8. OrderTypeOK'
            BY <1>1, <1>2, <1>3, <1>5, <2>3, <2>6 DEF OrderTypeOK
      <2>9. session[s].status = "pending_browser_signature" /\ posts[s] = 0
            BY <1>2, <1>3, <1>5 DEF Current, SessionOK
      <2>10. \A j \in Caller : ~ Owns(j, s)
            BY <2>9 DEF OrderInv, Knows, Owns, Owning, Unsent, Told
      <2>11. OneOwner'
            BY <2>5, <2>6, <2>10 DEF OrderInv, OneOwner, Owns
      <2>12. SessionOK(s)'
            BY <1>1, <1>3, <2>2, <2>7, <2>9 DEF SessionOK
      <2>13. Knows(caller[k])'
            BY <1>1, <1>2, <1>3, <2>2, <2>5, <2>6, <2>7, <2>9
            DEF Knows, Owning, Unsent, Told
      <2>14. ASSUME NEW j \in Caller \ {k}, caller[j].s = s
             PROVE  Knows(caller[j])'
            <3>1. Knows(caller[j]) /\ caller[j].pc \notin Owning
                  BY <2>10, <2>14 DEF OrderInv, Owns
            <3>2. caller[j].pc = "idle" \/ caller[j].seen.execution # "uuid"
                  BY <2>9, <2>14, <3>1 DEF Knows, Disowned
            <3>3. Restored(caller[j])' = Restored(caller[j])
                  BY <2>6 DEF Restored
            <3>. QED  BY <1>1, <2>2, <2>6, <2>7, <2>14, <3>1, <3>2, <3>3
                      DEF Knows, Owning
      <2>. QED  BY <1>1, <1>2, <2>5, <2>6, <2>7, <2>8, <2>11, <2>12, <2>13, <2>14, SharedStep
<1>. QED  BY <1>4, <1>5 DEF ClaimSession

LEMMA RecoverExecutionInv ==
    ASSUME OrderInv, NEW k \in Caller, RecoverExecution(k)
    PROVE  OrderInv'
<1>1. caller[k].pc = "recover" /\ UNCHANGED <<session, live, lapsed, order, posts>>
      BY DEF RecoverExecution
<1>2. PICK s \in Session : s = caller[k].s
      BY <1>1, Facts
<1>3. /\ OrderTypeOK /\ caller[k] \in CallerState /\ Knows(caller[k]) /\ SessionOK(s)
      BY <1>1, <1>2, Facts
<1>4. PICK id \in {"uuid", "recovery"} : id = Restored(caller[k]) /\ id = Recovered(k)
      BY <1>3 DEF Recovered, Restored, CallerState, SessionRow
<1>. DEFINE c == [caller[k] EXCEPT !.pc = "restore"]
<1>5. c \in CallerState
      BY <1>3 DEF CallerState
<1>6. /\ c.pc = "restore" /\ c.s = s /\ c.seen = caller[k].seen /\ c.result = caller[k].result
      BY <1>2, <1>3 DEF CallerState
<1>7. Turn(k, c) /\ execution' = [execution EXCEPT ![s][id] = "submitted"]
      BY <1>2, <1>4 DEF RecoverExecution, Proceed
<1>. HIDE DEF c
<1>8. c.pc \notin Owning
      BY <1>6 DEF Owning, Unsent, Told
<1>9. /\ \A j \in Caller : \A t : Owns(j, t)' => Owns(j, t)
      /\ caller' \in [Caller -> CallerState]
      /\ caller'[k] = c
      /\ \A j \in Caller \ {k} : caller'[j] = caller[j]
      BY <1>3, <1>5, <1>7, <1>8, OwnersGo
<1>10. execution' \in [Session -> [uuid : Ended \cup {"none"}, recovery : Ended \cup {"none"}]]
      BY <1>3, <1>7 DEF OrderTypeOK, Ended
<1>11. /\ execution'[s][id] = "submitted"
       /\ id = "recovery" => execution'[s].uuid = execution[s].uuid
       /\ id = "uuid" => execution'[s].recovery = execution[s].recovery
       /\ \A t \in Session \ {s} : execution'[t] = execution[t]
      BY <1>3, <1>7 DEF OrderTypeOK
<1>12. \A x \in {"uuid", "recovery"} :
          execution[s][x] = "submitted" => execution'[s][x] = "submitted"
      BY <1>11
<1>13. OrderTypeOK'
      BY <1>1, <1>3, <1>9, <1>10 DEF OrderTypeOK
<1>14. OneOwner'
      BY <1>9 DEF OrderInv, OneOwner
<1>15. session[s].execution \in {"none", "uuid", "recovery"}
      BY <1>3 DEF OrderTypeOK, SessionRow
<1>16. SessionOK(s)'
      BY <1>1, <1>3, <1>11, <1>12, <1>15 DEF SessionOK
<1>17. Disowned(s) => Disowned(s)'
      BY <1>1, <1>9 DEF Disowned
<1>18. Knows(caller[k])'
      <2>1. Restored(caller[k])' = id
            BY <1>4, <1>6, <1>9 DEF Restored
      <2>. QED  BY <1>1, <1>2, <1>3, <1>6, <1>8, <1>9, <1>11, <1>17, <2>1
                DEF Knows, Owning
<1>19. id = "uuid" => \A j \in Caller : ~ Owns(j, s)
      BY <1>1, <1>2, <1>3, <1>4 DEF Restored, Knows, Disowned
<1>20. ASSUME NEW j \in Caller \ {k}, caller[j].s = s
       PROVE  Knows(caller[j])'
      <2>1. Knows(caller[j]) /\ caller[j] \in CallerState
            BY Facts
      <2>2. Restored(caller[j])' = Restored(caller[j])
            BY <1>9 DEF Restored
      <2>3. Restored(caller[j]) \in {"uuid", "recovery"}
            BY <2>1 DEF Restored, CallerState, SessionRow
      <2>4. caller[j].pc = "finish" => execution'[s].uuid = execution[s].uuid
            BY <1>11, <1>19, <1>20 DEF Owns, Owning, Told
      <2>. QED  BY <1>1, <1>9, <1>12, <1>17, <1>20, <2>1, <2>2, <2>3, <2>4 DEF Knows
<1>. QED  BY <1>1, <1>2, <1>6, <1>9, <1>11, <1>13, <1>14, <1>16, <1>18, <1>20, SharedStep

-----------------------------------------------------------------------------
(* What happens without a request. *)
LEMMA CreateSessionInv ==
    ASSUME OrderInv, NEW s \in Session, NEW o \in Operation, CreateSession(s, o)
    PROVE  OrderInv'
<1>1. PICK status \in {"pending_browser_signature", "blocked"} :
          session' = [session EXCEPT ![s].status = status, ![s].funding = o]
      BY DEF CreateSession
<1>2. /\ OrderTypeOK /\ SessionOK(s) /\ session[s] \in SessionRow
      /\ session[s].status = "none"
      /\ UNCHANGED <<live, execution, caller, lapsed, order, posts>>
      BY DEF OrderInv, OrderTypeOK, CreateSession
<1>3. /\ session'[s].status = status /\ session'[s].revision = session[s].revision
      /\ session'[s].execution = session[s].execution
      /\ \A t \in Session \ {s} : session'[t] = session[t]
      BY <1>1, <1>2 DEF OrderTypeOK, SessionRow
<1>4. session' \in [Session -> SessionRow]
      BY <1>1, <1>2 DEF OrderTypeOK, SessionRow
<1>5. OrderTypeOK'
      BY <1>2, <1>4 DEF OrderTypeOK
<1>6. \A t \in Session : SessionOK(t)'
      BY <1>2, <1>3 DEF OrderInv, SessionOK
<1>7. \A t \in Session \ {s} : Disowned(t) => Disowned(t)'
      BY <1>2, <1>3 DEF Disowned, Owns
<1>8. \A k \in Caller : Knows(caller[k])'
      BY <1>2, <1>3, <1>7 DEF OrderInv, Knows, Restored
<1>9. OneOwner'
      BY <1>2 DEF OrderInv, OneOwner, Owns
<1>. QED  BY <1>5, <1>6, <1>8, <1>9 DEF OrderInv

LEMMA VenueInv ==
    ASSUME OrderInv, NEW s \in Session, Venue(s)
    PROVE  OrderInv'
<1>1. PICK end \in {"accepted", "refused", "lost"} : order' = [order EXCEPT ![s] = end]
      BY DEF Venue
<1>2. /\ OrderTypeOK /\ order[s] = "sent"
      /\ UNCHANGED <<session, live, execution, caller, lapsed, posts>>
      BY DEF OrderInv, Venue
<1>3. order'[s] = end /\ \A t \in Session \ {s} : order'[t] = order[t]
      BY <1>1, <1>2 DEF OrderTypeOK
<1>4. OrderTypeOK'
      BY <1>1, <1>2 DEF OrderTypeOK
<1>5. \A t \in Session : SessionOK(t)'
      BY <1>2, <1>3 DEF OrderInv, SessionOK
<1>6. \A t \in Session : Disowned(t) => Disowned(t)'
      BY <1>2 DEF Disowned, Owns
<1>7. \A k \in Caller : Knows(caller[k])'
      BY <1>2, <1>3, <1>6 DEF OrderInv, Knows, Restored
<1>8. OneOwner'
      BY <1>2 DEF OrderInv, OneOwner, Owns
<1>. QED  BY <1>4, <1>5, <1>7, <1>8 DEF OrderInv

(* A step that leaves the orders alone, but for the clock. *)
LEMMA QuietInv ==
    ASSUME OrderInv, UNCHANGED <<session, live, execution, caller, order, posts>>,
           lapsed' \subseteq Session
    PROVE  OrderInv'
<1>1. OrderTypeOK'
      BY DEF OrderInv, OrderTypeOK
<1>2. \A s \in Session : SessionOK(s)' /\ (Disowned(s) => Disowned(s)')
      BY DEF OrderInv, SessionOK, Disowned, Owns
<1>3. \A k \in Caller : Knows(caller[k])'
      BY <1>2 DEF OrderInv, Knows, Restored
<1>4. OneOwner'
      BY DEF OrderInv, OneOwner, Owns
<1>. QED  BY <1>1, <1>2, <1>3, <1>4 DEF OrderInv

LEMMA CompleteInv ==
    ASSUME OrderInv, NEW k \in Caller, Complete(k)
    PROVE  OrderInv'
<1>1. CASE \E s \in Session : Receive(k, s)
      BY <1>1, ReceiveInv
<1>2. CASE Refuse(k) \/ ClaimSession(k) \/ RecordIntent(k) \/ ClaimLive(k)
      BY <1>2, RefuseInv, ClaimSessionInv, RecordIntentInv, ClaimLiveInv
<1>3. CASE FailUnsent(k) \/ Doubt(k) \/ Finish(k)
      BY <1>3, OwnerEnds
<1>4. CASE Post(k) \/ Await(k) \/ Record(k) \/ Compare(k) \/ SaveExecution(k)
      BY <1>4, PostInv, AwaitInv, RecordInv, CompareInv, SaveExecutionInv
<1>5. CASE ReadLive(k) \/ Query(k) \/ Apply(k) \/ RecoverExecution(k) \/ RecoverSession(k)
      BY <1>5, ReadLiveInv, QueryInv, ApplyInv, RecoverExecutionInv, RecoverSessionInv
<1>6. CASE AbandonCall(k)
      BY <1>6, RestStep DEF AbandonCall
<1>. QED  BY <1>1, <1>2, <1>3, <1>4, <1>5, <1>6 DEF Complete

-----------------------------------------------------------------------------
(* Sessions, requests and orders satisfy the invariant in every behaviour  *)
(* of funding and trading side by side.                                    *)
THEOREM OrderInvariant == TradingSpec => []OrderInv
<1>1. TradingInit => OrderInv
      BY OrderInitInv DEF TradingInit
<1>2. OrderInv /\ [TradingNext]_<<vars, orders>> => OrderInv'
      <2> SUFFICES ASSUME OrderInv, [TradingNext]_<<vars, orders>>
                   PROVE  OrderInv'
          OBVIOUS
      <2>1. CASE UNCHANGED orders
            BY <2>1, QuietInv DEF orders, OrderInv, OrderTypeOK
      <2>2. CASE OrderNext
            <3>1. ASSUME NEW s \in Session, Lapse(s)
                  PROVE  OrderInv'
                  BY <3>1, QuietInv DEF Lapse, OrderInv, OrderTypeOK
            <3>2. CASE \E s \in Session : Lapse(s) \/ Venue(s) \/ \E o \in Operation : CreateSession(s, o)
                  BY <3>1, <3>2, VenueInv, CreateSessionInv
            <3>3. CASE \E k \in Caller : Complete(k)
                  BY <3>3, CompleteInv
            <3>. QED  BY <2>2, <3>2, <3>3 DEF OrderNext
      <2>. QED  BY <2>1, <2>2 DEF TradingNext, orders
<1>. QED  BY <1>1, <1>2, PTL DEF TradingSpec

(* The rows, the requests' local variables and the orders keep their types. *)
THEOREM OrderTypes == TradingSpec => []OrderTypeOK
<1>1. OrderInv => OrderTypeOK
      BY DEF OrderInv
<1>. QED  BY <1>1, OrderInvariant, PTL

(* However many requests complete and reconcile a session, and wherever    *)
(* they die, its order is posted at most once.                             *)
THEOREM OrderPostedOnce == TradingSpec => []PostedOnce
<1>1. OrderInv => PostedOnce
      BY DEF OrderInv, SessionOK, PostedOnce
<1>. QED  BY <1>1, OrderInvariant, PTL

(* A session says submitted only of an order that the venue has, and       *)
(* failed, blocked or expired only of one that it does not have, that is   *)
(* not on its way and that no request is about to send.                    *)
THEOREM OutcomeIsTrue == TradingSpec => []OutcomeMatchesVenue
<1>1. OrderInv => OutcomeMatchesVenue
      BY DEF OrderInv, SessionOK, Knows, OutcomeMatchesVenue, Owning, Unsent
<1>. QED  BY <1>1, OrderInvariant, PTL

(* The execution that a submitted session names has been written and says  *)
(* submitted.                                                              *)
THEOREM ExecutionIsWritten == TradingSpec => []SubmittedHasExecution
<1>1. OrderInv => SubmittedHasExecution
      BY DEF OrderInv, SessionOK, SubmittedHasExecution
<1>. QED  BY <1>1, OrderInvariant, PTL

(* Trading does not interfere with funding: what is proved of VenueFunding *)
(* alone holds beside the orders.                                          *)
THEOREM TradingFunds == TradingSpec => Spec
<1>1. [TradingNext]_<<vars, orders>> => [Next]_vars
      BY DEF TradingNext
<1>. QED  BY <1>1, PTL DEF TradingSpec, TradingInit, Spec

-----------------------------------------------------------------------------
(* Orders rest on funding: what a session was opened for stays finalized,  *)
(* and nothing that happens to the session changes what it is for.         *)

(* A session that may lead to an order was opened for a finalized          *)
(* operation, and every request that completes it knows which. *)
Funded(s) ==
    session[s].status \notin {"none", "blocked"} =>
        session[s].funding \in Operation /\ Ready(session[s].funding)
SameFunding(c) == c.pc # "idle" => c.seen.funding = session[c.s].funding
FundsOrders == (\A s \in Session : Funded(s)) /\ (\A k \in Caller : SameFunding(caller[k]))

LEMMA FundsInit == OrderInit => FundsOrders
<1> SUFFICES ASSUME OrderInit
             PROVE  FundsOrders
    OBVIOUS
<1>1. ASSUME NEW s \in Session
      PROVE  Funded(s)
      BY DEF OrderInit, NewSession, Funded
<1>2. ASSUME NEW k \in Caller
      PROVE  SameFunding(caller[k])
      BY DEF OrderInit, Resting, SameFunding
<1>. QED  BY <1>1, <1>2 DEF FundsOrders

(* Funding goes on beside the orders. *)
LEMMA FundsStay ==
    ASSUME FundsOrders, Advancing, TypeOK, UNCHANGED <<session, caller>>
    PROVE  FundsOrders'
<1>1. ASSUME NEW o \in Operation, Ready(o)
      PROVE  Ready(o)'
  <2>1. AllowedTransitions(op[o].status) = {}
        BY <1>1 DEF Ready, AllowedTransitions
  <2>2. op'[o] = op[o]
        BY <2>1 DEF Advancing, Advances
  <2>. QED  BY <1>1, <2>2 DEF Ready
<1>2. ASSUME NEW s \in Session
      PROVE  Funded(s)'
  <2>1. PICK f : f = session[s].funding
        OBVIOUS
  <2>2. session'[s].status \notin {"none", "blocked"} => f \in Operation /\ Ready(f)
        BY <2>1 DEF FundsOrders, Funded
  <2>3. session'[s].status \notin {"none", "blocked"} => f \in Operation /\ Ready(f)'
        BY <1>1, <2>2
  <2>4. session'[s].funding = f
        BY <2>1
  <2>. QED  BY <2>3, <2>4 DEF Funded, Ready
<1>3. ASSUME NEW k \in Caller
      PROVE  SameFunding(caller[k])'
      BY DEF FundsOrders, SameFunding
<1>. QED  BY <1>2, <1>3 DEF FundsOrders

(* A request that goes on, with at most its own session changed: what the  *)
(* session is for stays, and only a session that may lead to an order may  *)
(* go on to one. *)
LEMMA FundsStep ==
    ASSUME OrderInv, FundsOrders, UNCHANGED op, NEW k \in Caller, NEW c,
           Turn(k, c), session' \in [Session -> SessionRow],
           \A s \in Session : session'[s].funding = session[s].funding
              /\ (session'[s].status \notin {"none", "blocked"} =>
                     session[s].status \notin {"none", "blocked"}),
           c.pc # "idle" => c.seen.funding = session[c.s].funding /\ c.s \in Session
    PROVE  FundsOrders'
<1>1. ASSUME NEW s \in Session
      PROVE  Funded(s)'
  <2>1. Funded(s) /\ session'[s].funding = session[s].funding
        BY DEF FundsOrders
  <2>. QED  BY <2>1 DEF Funded, Ready
<1>2. ASSUME NEW j \in Caller
      PROVE  SameFunding(caller[j])'
  <2>1. caller'[j] = (IF j = k THEN c ELSE caller[j])
        BY DEF Turn, OrderInv, OrderTypeOK
  <2>2. CASE j = k
        BY <2>1, <2>2 DEF SameFunding
  <2>3. CASE j # k
    <3>1. SameFunding(caller[j]) /\ Knows(caller[j])
          BY DEF FundsOrders, OrderInv
    <3>. QED  BY <2>1, <2>3, <3>1 DEF SameFunding, Knows
  <2>. QED  BY <2>2, <2>3
<1>. QED  BY <1>1, <1>2 DEF FundsOrders

LEMMA FundsQuiet ==
    ASSUME OrderInv, OrderTypeOK', FundsOrders, UNCHANGED <<op, session>>, NEW k \in Caller,
           NEW c, Turn(k, c), c.pc = "idle" \/ (caller[k].pc # "idle" /\ c.s = caller[k].s
                                                 /\ c.seen.funding = caller[k].seen.funding)
    PROVE  FundsOrders'
<1>1. Knows(caller[k]) /\ SameFunding(caller[k])
      BY DEF OrderInv, FundsOrders
<1>2. c.pc # "idle" => c.seen.funding = session[c.s].funding /\ c.s \in Session
      BY <1>1 DEF SameFunding, Knows
<1>. QED  BY <1>2, FundsStep DEF OrderTypeOK

LEMMA FundsTerminate ==
    ASSUME OrderInv, OrderTypeOK', FundsOrders, UNCHANGED op, NEW k \in Caller,
           caller[k].pc # "idle", NEW status, NEW id, Terminate(k, status, id)
    PROVE  FundsOrders'
<1>1. /\ caller[k].s \in Session /\ caller[k].seen \in SessionRow
      /\ caller[k].seen.funding = session[caller[k].s].funding
      /\ session \in [Session -> SessionRow] /\ session' \in [Session -> SessionRow]
      BY DEF OrderInv, OrderTypeOK, CallerState, Knows, FundsOrders, SameFunding
<1>2. Turn(k, Resting) /\ Resting.pc = "idle"
      BY RestingTyped DEF Terminate, Rest
<1>3. ASSUME NEW s \in Session
      PROVE  /\ session'[s].funding = session[s].funding
             /\ session'[s].status \notin {"none", "blocked"} =>
                   session[s].status \notin {"none", "blocked"}
  <2>1. CASE session' = session
        BY <2>1
  <2>2. CASE /\ Current(k, Replaceable(status))
             /\ session' = [session EXCEPT ![caller[k].s] = Updated(k, status, id)]
    <3>1. Updated(k, status, id).funding = caller[k].seen.funding
          BY <1>1 DEF Updated, SessionRow
    <3>2. session[caller[k].s].status \notin {"none", "blocked"}
          BY <2>2 DEF Current, Replaceable
    <3> HIDE DEF Updated
    <3>3. CASE s = caller[k].s
          BY <1>1, <2>2, <3>1, <3>2, <3>3
    <3>4. CASE s # caller[k].s
          BY <1>1, <2>2, <3>4
    <3>. QED  BY <3>3, <3>4
  <2>. QED  BY <2>1, <2>2 DEF Terminate
<1>. QED  BY <1>1, <1>2, <1>3, FundsStep

LEMMA FundsComplete ==
    ASSUME OrderInv, OrderTypeOK', FundsOrders, UNCHANGED vars, NEW k \in Caller, Complete(k)
    PROVE  FundsOrders'
<1>0. UNCHANGED op
      BY DEF vars, repository
<1>1. /\ caller[k] \in CallerState /\ Resting \in CallerState /\ Resting.pc = "idle"
      /\ session \in [Session -> SessionRow] /\ session' \in [Session -> SessionRow]
      BY RestingTyped DEF OrderInv, OrderTypeOK
<1>2. ASSUME NEW pc, caller[k].pc # "idle", UNCHANGED session, Proceed(k, pc)
      PROVE  FundsOrders'
  <2>1. PICK c : c = [caller[k] EXCEPT !.pc = pc]
        OBVIOUS
  <2>2. Turn(k, c) /\ c.s = caller[k].s /\ c.seen.funding = caller[k].seen.funding
        BY <1>1, <1>2, <2>1 DEF Proceed, CallerState
  <2>. QED  BY <1>0, <1>2, <2>2, FundsQuiet
<1>3. ASSUME UNCHANGED session, Rest(k)
      PROVE  FundsOrders'
      BY <1>0, <1>1, <1>3, FundsQuiet DEF Rest
<1>5. ASSUME NEW s \in Session, Receive(k, s)
      PROVE  FundsOrders'
  <2>1. PICK c : c = [Resting EXCEPT !.s = s, !.seen = session[s],
           !.pc = IF session[s].status # "pending_browser_signature" THEN "reconcile"
                  ELSE IF s \in lapsed THEN "expire" ELSE "check"]
        OBVIOUS
  <2>2. Turn(k, c) /\ UNCHANGED session
        BY <1>5, <2>1 DEF Receive
  <2>3. c.s = s /\ c.seen = session[s]
        BY <1>1, <2>1 DEF CallerState
  <2>. QED  BY <1>0, <1>1, <2>2, <2>3, FundsStep
<1>6. CASE ClaimSession(k)
  <2>1. /\ caller[k].pc = "check" /\ caller[k].s \in Session /\ caller[k].seen \in SessionRow
        /\ caller[k].seen.funding = session[caller[k].s].funding
        BY <1>1, <1>6 DEF ClaimSession, OrderInv, CallerState, Knows, FundsOrders, SameFunding
  <2>2. PICK new : new = Updated(k, "submitting", "none")
        OBVIOUS
  <2>3. new.funding = caller[k].seen.funding
        BY <2>1, <2>2 DEF Updated, SessionRow
  <2>4. CASE Current(k, {"pending_browser_signature"})
    <3>1. PICK c : c = [caller[k] EXCEPT !.pc = "intent", !.seen = new]
          OBVIOUS
    <3>2. /\ Turn(k, c) /\ session' = [session EXCEPT ![caller[k].s] = new]
          BY <1>6, <2>2, <2>4, <3>1 DEF ClaimSession
    <3>3. c.s = caller[k].s /\ c.seen = new
          BY <1>1, <3>1 DEF CallerState
    <3>4. session[caller[k].s].status = "pending_browser_signature"
          BY <2>4 DEF Current
    <3>5. ASSUME NEW s \in Session
          PROVE  /\ session'[s].funding = session[s].funding
                 /\ session'[s].status \notin {"none", "blocked"} =>
                       session[s].status \notin {"none", "blocked"}
      <4>1. CASE s = caller[k].s
            BY <1>1, <2>1, <2>3, <3>2, <3>4, <4>1
      <4>2. CASE s # caller[k].s
            BY <1>1, <3>2, <4>2
      <4>. QED  BY <4>1, <4>2
    <3>. QED  BY <1>0, <1>1, <2>1, <2>3, <3>2, <3>3, <3>5, FundsStep
  <2>5. CASE ~ Current(k, {"pending_browser_signature"})
        BY <1>3, <1>6, <2>5 DEF ClaimSession
  <2>. QED  BY <2>4, <2>5
<1>7. CASE Refuse(k) \/ FailUnsent(k) \/ Doubt(k) \/ Finish(k) \/ RecoverSession(k)
  <2>1. /\ caller[k].pc # "idle"
        /\ \E status, id : Terminate(k, status, id)
        BY <1>7 DEF Refuse, FailUnsent, Doubt, Finish, RecoverSession
  <2>. QED  BY <1>0, <2>1, FundsTerminate
<1>8. ASSUME NEW c, caller[k].pc # "idle", UNCHANGED session, Turn(k, c),
             c.s = caller[k].s, c.seen = caller[k].seen
      PROVE  FundsOrders'
      BY <1>0, <1>8, FundsQuiet
<1>9. CASE RecordIntent(k) \/ ClaimLive(k) \/ Post(k) \/ Await(k) \/ ReadLive(k) \/ Query(k)
  <2>1. caller[k].pc # "idle" /\ UNCHANGED session
        BY <1>9 DEF RecordIntent, ClaimLive, Post, Await, ReadLive, Query
  <2>2. \/ \E c : /\ Turn(k, c) /\ c.s = caller[k].s /\ c.seen = caller[k].seen
        \/ \E pc : Proceed(k, pc)
    <3>1. ASSUME NEW c, Turn(k, c),
                 \E pc, row, result : \/ c = [caller[k] EXCEPT !.pc = pc, !.row = row]
                                      \/ c = [caller[k] EXCEPT !.pc = pc, !.result = result]
                                      \/ c = [caller[k] EXCEPT !.pc = pc, !.row.revision = @ + 1]
          PROVE  Turn(k, c) /\ c.s = caller[k].s /\ c.seen = caller[k].seen
          BY <1>1, <3>1 DEF CallerState
    <3>2. CASE RecordIntent(k)
      <4>1. PICK row : row = (IF live[caller[k].s] = NoLive
                              THEN [status |-> "intent_recorded", revision |-> 0]
                              ELSE live[caller[k].s])
            OBVIOUS
      <4>2. PICK c : c = [caller[k] EXCEPT !.pc = "claim", !.row = row]
            OBVIOUS
      <4>3. Turn(k, c) \/ Proceed(k, "fail")
            BY <3>2, <4>1, <4>2 DEF RecordIntent
      <4>. QED  BY <3>1, <4>2, <4>3
    <3>3. CASE ClaimLive(k)
      <4>1. PICK c : c = [caller[k] EXCEPT !.pc = "post", !.row.revision = @ + 1]
            OBVIOUS
      <4>2. Turn(k, c) \/ \E pc : Proceed(k, pc)
            BY <3>3, <4>1 DEF ClaimLive
      <4>. QED  BY <3>1, <4>1, <4>2
    <3>4. CASE Post(k)
      <4>1. PICK c : c = [caller[k] EXCEPT !.pc = "record", !.result = "blocked"]
            OBVIOUS
      <4>2. Turn(k, c) \/ Proceed(k, "await")
            BY <3>4, <4>1 DEF Post
      <4>. QED  BY <3>1, <4>1, <4>2
    <3>5. ASSUME Await(k) \/ Query(k)
          PROVE  \E c : Turn(k, c) /\ c.s = caller[k].s /\ c.seen = caller[k].seen
      <4>1. PICK pc, result : Turn(k, [caller[k] EXCEPT !.pc = pc, !.result = result])
            BY <3>5 DEF Await, Query
      <4>2. PICK c : c = [caller[k] EXCEPT !.pc = pc, !.result = result]
            OBVIOUS
      <4>. QED  BY <3>1, <4>1, <4>2
    <3>6. CASE ReadLive(k)
      <4>1. PICK c : c = [caller[k] EXCEPT !.pc = "query", !.row = live[caller[k].s]]
            OBVIOUS
      <4>2. Turn(k, c)
            BY <3>6, <4>1 DEF ReadLive
      <4>. QED  BY <3>1, <4>1, <4>2
    <3>. QED  BY <1>9, <3>2, <3>3, <3>4, <3>5, <3>6
  <2>. QED  BY <1>2, <1>8, <2>1, <2>2
<1>10. CASE Record(k) \/ Compare(k) \/ SaveExecution(k) \/ Apply(k) \/ RecoverExecution(k)
              \/ AbandonCall(k)
  <2>1. /\ caller[k].pc # "idle" /\ UNCHANGED session
        /\ Rest(k) \/ \E pc : Proceed(k, pc)
        BY <1>10 DEF Record, Compare, SaveExecution, Apply, RecoverExecution, AbandonCall
  <2>. QED  BY <1>2, <1>3, <2>1
<1>. QED  BY <1>5, <1>6, <1>7, <1>9, <1>10 DEF Complete

LEMMA FundsNext ==
    ASSUME Inv, FundingOK, OrderInv, OrderTypeOK', FundsOrders, [TradingNext]_<<vars, orders>>
    PROVE  FundsOrders'
<1>1. CASE Next /\ UNCHANGED orders
  <2>1. Advancing /\ UNCHANGED <<session, caller>>
        BY <1>1, NextFunding DEF orders
  <2>. QED  BY <2>1, FundsStay DEF Inv
<1>2. CASE UNCHANGED <<vars, orders>>
  <2>1. UNCHANGED <<op, session, caller>>
        BY <1>2 DEF vars, repository, orders
  <2>2. Advancing
        BY <2>1 DEF Advancing
  <2>. QED  BY <2>1, <2>2, FundsStay DEF Inv
<1>3. ASSUME NEW k \in Caller, Complete(k), UNCHANGED vars
      PROVE  FundsOrders'
      BY <1>3, FundsComplete
<1>4. ASSUME NEW s \in Session, Lapse(s) \/ Venue(s), UNCHANGED vars
      PROVE  FundsOrders'
  <2>1. UNCHANGED <<op, session, caller>>
        BY <1>4 DEF vars, repository, Lapse, Venue
  <2>2. Advancing
        BY <2>1 DEF Advancing
  <2>. QED  BY <2>1, <2>2, FundsStay DEF Inv
<1>5. ASSUME NEW s \in Session, NEW o \in Operation, CreateSession(s, o), UNCHANGED vars
      PROVE  FundsOrders'
  <2>1. UNCHANGED <<op, caller>>
        BY <1>5 DEF vars, repository, CreateSession
  <2>2. PICK status \in {"pending_browser_signature", "blocked"} :
            /\ session[s].status = "none"
            /\ status = "blocked" \/ Ready(o)
            /\ session' = [session EXCEPT ![s].status = status, ![s].funding = o]
        BY <1>5 DEF CreateSession
  <2>3. session \in [Session -> SessionRow]
        BY DEF OrderInv, OrderTypeOK
  <2>4. /\ session'[s].status = status /\ session'[s].funding = o
        /\ \A r \in Session : r # s => session'[r] = session[r]
        BY <2>2, <2>3 DEF SessionRow
  <2>5. ASSUME NEW r \in Session
        PROVE  Funded(r)'
    <3>1. CASE r = s
          BY <2>1, <2>2, <2>4, <3>1 DEF Funded, Ready
    <3>2. CASE r # s
      <4>1. Funded(r) /\ session'[r] = session[r]
            BY <2>4, <3>2 DEF FundsOrders
      <4>. QED  BY <2>1, <4>1 DEF Funded, Ready
    <3>. QED  BY <3>1, <3>2
  <2>6. ASSUME NEW k \in Caller
        PROVE  SameFunding(caller[k])'
    <3>1. SameFunding(caller[k]) /\ Knows(caller[k])
          BY DEF FundsOrders, OrderInv
    <3>. QED  BY <2>1, <2>2, <2>4, <3>1 DEF SameFunding, Knows
  <2>. QED  BY <2>5, <2>6 DEF FundsOrders
<1>. QED  BY <1>1, <1>2, <1>3, <1>4, <1>5 DEF TradingNext, OrderNext

(* An order is posted only for a session whose funding operation           *)
(* get_funding_readiness found finalized; that operation's own transfer    *)
(* was completed by the bridge and booked by Core, and nothing that        *)
(* happens to either afterwards takes it back.                             *)
THEOREM OrdersAreFunded == TradingSpec => []FundedOrder
<1>1. OrderInv => OrderTypeOK
      BY DEF OrderInv
<1>2. TradingInit => FundsOrders
      BY FundsInit DEF TradingInit
<1>3. Inv /\ FundingOK /\ OrderInv /\ OrderTypeOK' /\ FundsOrders
         /\ [TradingNext]_<<vars, orders>> => FundsOrders'
      BY FundsNext
<1>4. TradingSpec => []FundsOrders
      BY <1>1, <1>2, <1>3, TradingFunds, VenueInvariant, FundingInvariant, OrderInvariant, PTL
      DEF TradingSpec
<1>5. FundingOK /\ OrderInv /\ FundsOrders => FundedOrder
  <2>1. SUFFICES ASSUME FundingOK, OrderInv, FundsOrders, NEW s \in Session, order[s] # "none"
                 PROVE  LET o == session[s].funding IN
                        money[o] = "moved" /\ bridge[o] = "COMPLETED" /\ core[o].state = "finalized"
        BY DEF FundedOrder
  <2>2. SessionOK(s) /\ Funded(s)
        BY <2>1 DEF OrderInv, FundsOrders
  <2>3. session[s].status \notin {"none", "blocked"}
        BY <2>1, <2>2 DEF SessionOK
  <2>4. session[s].funding \in Operation /\ Ready(session[s].funding)
        BY <2>2, <2>3 DEF Funded
  <2>5. Booked(session[s].funding) /\ Standing(session[s].funding)
        BY <2>1, <2>4 DEF FundingOK, Sound
  <2>. QED  BY <2>4, <2>5 DEF Booked, Standing, Ready, Credited
<1>. QED  BY <1>4, <1>5, TradingFunds, FundingInvariant, OrderInvariant, PTL

=============================================================================
