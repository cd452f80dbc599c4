------------------------ MODULE BudgetFundingProofs ------------------------
(***************************************************************************)
(* Proofs about BudgetFunding, for any set of grants, purchases and        *)
(* workers, and any amounts, limits, expiries and bounds.                  *)
(***************************************************************************)
EXTENDS BudgetFunding, SumTheorems

(* A request that has begun works on a purchase, clock readings are not in *)
(* the future, and what exists has its limits and its grant.               *)
Assigned ==
    /\ now <= MaxTime
    /\ \A w \in Worker :
          /\ worker[w].pc # "idle" => worker[w].job \in Purchase
          /\ worker[w].pc = "reserve" => worker[w].grant \in Grant /\ worker[w].at <= now
    /\ \A p \in Purchase :
          row[p].state # "none" => row[p].grant \in Grant /\ row[p].at <= now
    /\ \A g \in Grant : grant[g].status # "none" => grant[g].limits \in LimitRecord

Typed == TypeOK /\ Assigned

(* What is not yet claimed for sending has not been sent, and nobody is    *)
(* about to send it or to record that it was sent.                         *)
Unsent(p) ==
    /\ fate[p] = "unsent"
    /\ \A w \in Worker : worker[w].job = p => worker[w].pc \notin {"send", "record"}

Sends ==
    /\ \A p \in Purchase :
          /\ row[p].state \in {"none", "spending_reserved", "released"} => row[p].send = "none"
          /\ row[p].send \in {"none", "pending"} => Unsent(p)
    /\ \A w \in Worker : worker[w].pc = "record" => worker[w].outcome # "none"
    /\ SentOnce

(* Every nonce in use is below the counter. *)
Nonces ==
    /\ \A p \in Purchase : row[p].send # "none" => row[p].nonce < nextNonce
    /\ NoncesDistinct

(* Evidence is about final blocks, so it is still true when it is used,    *)
(* and budget is given up only for a transaction that is finally reverted. *)
Verdicts ==
    /\ \A p \in Purchase :
          /\ row[p].state \in {"spending_reserved", "payment_submitted"}
                => row[p].accounting = "reserved"
          /\ fate[p] # "unsent" =>
                \/ row[p].accounting \in {"reserved", "settled"}
                \/ fate[p] = "reverted" /\ row[p].nonce < final
    /\ \A w \in Worker :
          worker[w].evidence # "none" =>
              /\ worker[w].pc = "resolve"
              /\ fate[worker[w].job] = worker[w].evidence
              /\ row[worker[w].job].nonce < final
    /\ VerdictMatchesChain

Inv == Typed /\ Sends /\ Nonces /\ Verdicts

LEMMA InitialValuesTyped ==
    /\ NewGrant \in GrantRow /\ NewGrant.status = "none"
    /\ NoReservation \in Reservation /\ NoReservation.state = "none"
    /\ IdleWorker \in WorkerState /\ IdleWorker.pc = "idle"
  BY DEF NewGrant, GrantRow, NoReservation, Reservation, IdleWorker, WorkerState

LEMMA InitTyped == Init => Typed
  BY InitialValuesTyped, FundingAssumption DEF Init, Typed, TypeOK, Assigned, Mined

LEMMA UpdateTyped ==
    ASSUME TypeOK, NEW p \in Purchase, NEW r \in Reservation, Update(p, r)
    PROVE  /\ row' \in [Purchase -> Reservation]
           /\ row'[p] = r
           /\ \A q \in Purchase : q # p => row'[q] = row[q]
  BY DEF TypeOK, Update

LEMMA BecomeTyped ==
    ASSUME TypeOK, NEW w \in Worker, NEW s \in WorkerState, Become(w, s)
    PROVE  /\ worker' \in [Worker -> WorkerState]
           /\ worker'[w] = s
           /\ \A v \in Worker : v # w => worker'[v] = worker[v]
  BY DEF TypeOK, Become

LEMMA SetStatusTyped ==
    ASSUME TypeOK, NEW gs \in SUBSET Grant,
           NEW st \in {"active", "paused", "security_paused", "exhausted", "expired", "revoked"},
           SetStatus(gs, st)
    PROVE  /\ grant' \in [Grant -> GrantRow]
           /\ \A g \in Grant :
                 /\ grant'[g].limits = grant[g].limits
                 /\ grant'[g].used = grant[g].used
                 /\ grant'[g].reserved = grant[g].reserved
                 /\ grant'[g].status = IF g \in gs THEN st ELSE grant[g].status
<1>1. \A g \in Grant : /\ [grant[g] EXCEPT !.status = st] \in GrantRow
                       /\ [grant[g] EXCEPT !.status = st].limits = grant[g].limits
                       /\ [grant[g] EXCEPT !.status = st].used = grant[g].used
                       /\ [grant[g] EXCEPT !.status = st].reserved = grant[g].reserved
                       /\ [grant[g] EXCEPT !.status = st].status = st
      BY DEF TypeOK, GrantRow
<1>. QED  BY <1>1 DEF SetStatus, TypeOK

LEMMA StatusStepTyped ==
    ASSUME Typed, NEW gs \in SUBSET {g \in Grant : grant[g].status # "none"},
           NEW st \in {"active", "paused", "security_paused", "exhausted", "expired", "revoked"},
           SetStatus(gs, st),
           UNCHANGED <<now, usage, bound, row, nextNonce, chain, worker>>,
           identity' \in {"active", "suspended", "revoked"}
    PROVE  Typed'
<1>1. TypeOK /\ gs \in SUBSET Grant
      BY DEF Typed
<1>2. /\ grant' \in [Grant -> GrantRow]
      /\ \A g \in Grant : /\ grant'[g].limits = grant[g].limits
                          /\ grant'[g].status # "none" => grant[g].status # "none"
      BY <1>1, SetStatusTyped
<1>3. TypeOK'
      BY <1>1, <1>2 DEF TypeOK, chain
<1>4. Assigned'
      BY <1>2 DEF Typed, Assigned
<1>. QED  BY <1>3, <1>4 DEF Typed

LEMMA LimitsTyped ==
    ASSUME Typed, NEW g \in Grant, NEW l \in Limits,
           grant' = [grant EXCEPT ![g].limits = l]
    PROVE  /\ grant' \in [Grant -> GrantRow]
           /\ grant'[g] = [grant[g] EXCEPT !.limits = l]
           /\ grant'[g].limits = l /\ l \in LimitRecord
           /\ grant'[g].used = grant[g].used
           /\ grant'[g].reserved = grant[g].reserved
           /\ grant'[g].status = grant[g].status
           /\ \A f \in Grant : f # g => grant'[f] = grant[f]
<1>1. l \in LimitRecord
      BY FundingAssumption
<1>2. [grant[g] EXCEPT !.limits = l] \in GrantRow
      BY <1>1 DEF Typed, TypeOK, GrantRow
<1>3. grant' = [grant EXCEPT ![g] = [grant[g] EXCEPT !.limits = l]]
      BY DEF Typed, TypeOK
<1>. QED  BY <1>1, <1>2, <1>3 DEF Typed, TypeOK, GrantRow

LEMMA OwnerTyped == Typed /\ OwnerStep => Typed'
<1> SUFFICES ASSUME Typed, OwnerStep
             PROVE  Typed'
    OBVIOUS
<1>0. TypeOK /\ Assigned
      BY DEF Typed
<1>1. ASSUME NEW g \in Grant, NEW l \in Limits, CreateGrant(g, l)
      PROVE  Typed'
  <2> DEFINE n == [NewGrant EXCEPT !.status = "active", !.limits = l]
  <2>1. n \in GrantRow /\ n.limits \in LimitRecord
        BY FundingAssumption DEF NewGrant, GrantRow
  <2> HIDE DEF n
  <2>2. \A f \in Grant : /\ [grant[f] EXCEPT !.status = "revoked"] \in GrantRow
                         /\ [grant[f] EXCEPT !.status = "revoked"].limits = grant[f].limits
        BY <1>0 DEF TypeOK, GrantRow
  <2>3. \A f \in Overlapping(g) : f \in Grant /\ grant[f].status # "none"
        BY DEF Overlapping
  <2>4. grant' = [f \in Grant |->
                    IF f = g THEN n
                    ELSE IF f \in Overlapping(g) THEN [grant[f] EXCEPT !.status = "revoked"]
                    ELSE grant[f]]
        BY <1>1 DEF CreateGrant, n
  <2>5. grant' \in [Grant -> GrantRow]
        BY <1>0, <2>1, <2>2, <2>4 DEF TypeOK
  <2>6. \A f \in Grant : grant'[f].status # "none" => grant'[f].limits \in LimitRecord
        BY <1>0, <2>1, <2>2, <2>3, <2>4 DEF Assigned
  <2>7. TypeOK'
        BY <1>0, <1>1, <2>5 DEF TypeOK, CreateGrant, chain
  <2>8. Assigned'
        BY <1>0, <1>1, <2>6 DEF Assigned, CreateGrant
  <2>. QED  BY <2>7, <2>8 DEF Typed
<1>2. ASSUME NEW g \in Grant, NEW l \in Limits, ReduceGrant(g, l) \/ AmendGrant(g, l)
      PROVE  Typed'
  <2>1. /\ grant' = [grant EXCEPT ![g].limits = l]
        /\ UNCHANGED <<now, usage, bound, row, nextNonce, chain, identity, worker>>
        BY <1>2 DEF ReduceGrant, AmendGrant
  <2>2. TypeOK'
        BY <1>0, <2>1, LimitsTyped DEF TypeOK, chain
  <2>3. Assigned'
        BY <1>0, <2>1, LimitsTyped DEF Assigned
  <2>. QED  BY <2>2, <2>3 DEF Typed
<1>3. ASSUME NEW g \in Grant, PauseGrant(g)
      PROVE  Typed'
  <2> DEFINE gs == {g} \cap {f \in Grant : grant[f].status = "active"}
  <2>1. gs \in SUBSET {f \in Grant : grant[f].status # "none"}
        OBVIOUS
  <2>2. SetStatus(gs, "paused")
        BY <1>3 DEF PauseGrant
  <2> HIDE DEF gs
  <2>. QED  BY <1>0, <1>3, <2>1, <2>2, StatusStepTyped DEF PauseGrant, TypeOK
<1>4. ASSUME NEW g \in Grant, ResumeGrant(g)
      PROVE  Typed'
  <2>1. {g} \in SUBSET {f \in Grant : grant[f].status # "none"}
        BY <1>4 DEF ResumeGrant
  <2>3. SetStatus({g}, "expired") \/ SetStatus({g}, "active")
        BY <1>4 DEF ResumeGrant
  <2>. QED  BY <1>0, <1>4, <2>1, <2>3, StatusStepTyped DEF ResumeGrant, TypeOK
<1>5. ASSUME NEW g \in Grant, RevokeGrant(g)
      PROVE  Typed'
  <2>1. {g} \in SUBSET {f \in Grant : grant[f].status # "none"}
        BY <1>5 DEF RevokeGrant
  <2>. QED  BY <1>0, <1>5, <2>1, StatusStepTyped DEF RevokeGrant, TypeOK
<1>6. ASSUME NEW g \in Grant, ExpireGrant(g)
      PROVE  Typed'
  <2>1. {g} \in SUBSET {f \in Grant : grant[f].status # "none"}
        BY <1>6 DEF ExpireGrant
  <2>. QED  BY <1>0, <1>6, <2>1, StatusStepTyped DEF ExpireGrant, TypeOK
<1>7. ASSUME NEW g \in Grant, BindGrant(g)
      PROVE  Typed'
  <2>1. grant[g].limits \in LimitRecord
        BY <1>0, <1>7 DEF BindGrant, Assigned
  <2>2. TypeOK'
        BY <1>0, <1>7, <2>1 DEF TypeOK, BindGrant, chain
  <2>3. Assigned'
        BY <1>0, <1>7 DEF Assigned, BindGrant
  <2>. QED  BY <2>2, <2>3 DEF Typed
<1>8. ASSUME RevokeIdentity
      PROVE  Typed'
  <2> DEFINE gs == {g \in Grant : grant[g].status = "active"}
  <2>1. gs \in SUBSET {f \in Grant : grant[f].status # "none"}
        OBVIOUS
  <2>2. SetStatus(gs, "security_paused")
        BY <1>8 DEF RevokeIdentity
  <2> HIDE DEF gs
  <2>. QED  BY <1>0, <1>8, <2>1, <2>2, StatusStepTyped DEF RevokeIdentity, TypeOK
<1>9. ASSUME NEW st \in {"suspended", "revoked"}, EndIdentity(st)
      PROVE  Typed'
  <2> DEFINE gs == {g \in Grant : grant[g].status \in {"active", "paused", "security_paused"}}
  <2>1. gs \in SUBSET {f \in Grant : grant[f].status # "none"}
        OBVIOUS
  <2>2. SetStatus(gs, "revoked")
        BY <1>9 DEF EndIdentity
  <2> HIDE DEF gs
  <2>. QED  BY <1>0, <1>9, <2>1, <2>2, StatusStepTyped DEF EndIdentity, TypeOK
<1>. QED  BY <1>1, <1>2, <1>3, <1>4, <1>5, <1>6, <1>7, <1>8, <1>9
          DEF OwnerStep, PrepareDisconnect, DisconnectWallet

LEMMA ChainTyped == Typed /\ (ChainStep \/ Tick) => Typed'
<1> SUFFICES ASSUME Typed, ChainStep \/ Tick
             PROVE  Typed'
    OBVIOUS
<1> USE DEF Typed, TypeOK, Assigned, ledger, chain
<1>1. ASSUME NEW p \in Purchase, NEW verdict \in Mined, Mine(p, verdict)
      PROVE  Typed'
      BY <1>1 DEF Mine
<1>2. ASSUME NEW p \in Purchase, Reorganise(p)
      PROVE  Typed'
  <2>1. row[p].nonce \in Nat
        BY DEF Reservation
  <2>2. count' \in Nat
        BY <1>2, <2>1 DEF Reorganise
  <2>. QED  BY <1>2, <2>2 DEF Reorganise
<1>3. ASSUME NEW p \in Purchase, Drop(p)
      PROVE  Typed'
      BY <1>3 DEF Drop
<1>4. CASE BecomeFinal
      BY <1>4 DEF BecomeFinal
<1>5. ASSUME NEW g \in Grant, RevokeOnChain(g)
      PROVE  Typed'
      BY <1>5 DEF RevokeOnChain
<1>6. CASE Tick
  <2>1. now' \in Nat /\ now' <= MaxTime /\ now <= now'
        BY <1>6, FundingAssumption DEF Tick
  <2>2. /\ \A w \in Worker : worker[w].at \in Nat
        /\ \A p \in Purchase : row[p].at \in Nat
        BY DEF WorkerState, Reservation
  <2>3. TypeOK'
        BY <1>6, <2>1 DEF Tick
  <2>4. Assigned'
        BY <1>6, <2>1, <2>2 DEF Tick
  <2>. QED  BY <2>3, <2>4
<1>. QED  BY <1>1, <1>2, <1>3, <1>4, <1>5, <1>6 DEF ChainStep

(* What a step of worker w preserves when it changes its own state, one    *)
(* reservation, the accounts, the nonce and the fate of transactions.      *)
LEMMA WorkerStepTyped ==
    ASSUME Typed, NEW w \in Worker, NEW s \in WorkerState, Become(w, s),
           s.pc # "idle" => s.job \in Purchase,
           s.pc = "reserve" => s.grant \in Grant /\ s.at <= now,
           row' \in [Purchase -> Reservation],
           \A p \in Purchase :
              row'[p].state # "none" => row'[p].grant \in Grant /\ row'[p].at <= now,
           grant' \in [Grant -> GrantRow],
           \A g \in Grant : grant'[g].status # "none" => grant'[g].limits \in LimitRecord,
           usage' \in [Grant -> [Days -> [used : Nat, reserved : Nat]]],
           nextNonce' \in Nat,
           fate' \in [Purchase -> {"unsent", "pool", "dropped"} \cup Mined],
           UNCHANGED <<now, bound, count, final, stopped, identity>>
    PROVE  Typed'
<1>1. TypeOK'
      BY BecomeTyped DEF Typed, TypeOK
<1>2. Assigned'
      BY BecomeTyped DEF Typed, Assigned
<1>. QED  BY <1>1, <1>2 DEF Typed

LEMMA OnlyWorkerTyped ==
    ASSUME Typed, NEW w \in Worker, NEW s \in WorkerState, Become(w, s),
           s.pc # "idle" => s.job \in Purchase,
           s.pc = "reserve" => s.grant \in Grant /\ s.at <= now,
           UNCHANGED <<now, ledger, chain, identity>>
    PROVE  Typed'
<1>1. /\ row' \in [Purchase -> Reservation]
      /\ grant' \in [Grant -> GrantRow]
      /\ usage' \in [Grant -> [Days -> [used : Nat, reserved : Nat]]]
      /\ nextNonce' \in Nat
      /\ fate' \in [Purchase -> {"unsent", "pool", "dropped"} \cup Mined]
      BY DEF Typed, TypeOK, ledger, chain
<1>2. /\ \A p \in Purchase :
            row'[p].state # "none" => row'[p].grant \in Grant /\ row'[p].at <= now
      /\ \A g \in Grant : grant'[g].status # "none" => grant'[g].limits \in LimitRecord
      BY DEF Typed, Assigned, ledger
<1>3. UNCHANGED <<now, bound, count, final, stopped, identity>>
      BY DEF ledger, chain
<1>. QED  BY <1>1, <1>2, <1>3, WorkerStepTyped

LEMMA RowAndWorkerTyped ==
    ASSUME Typed, NEW w \in Worker, NEW s \in WorkerState, Become(w, s),
           s.pc # "idle" => s.job \in Purchase,
           s.pc # "reserve",
           NEW p \in Purchase, NEW r \in Reservation, Update(p, r),
           r.state # "none" => r.grant \in Grant /\ r.at <= now,
           nextNonce' \in Nat,
           UNCHANGED <<now, grant, usage, bound, chain, identity>>
    PROVE  Typed'
<1>1. /\ grant' \in [Grant -> GrantRow]
      /\ usage' \in [Grant -> [Days -> [used : Nat, reserved : Nat]]]
      /\ fate' \in [Purchase -> {"unsent", "pool", "dropped"} \cup Mined]
      BY DEF Typed, TypeOK, chain
<1>2. \A g \in Grant : grant'[g].status # "none" => grant'[g].limits \in LimitRecord
      BY DEF Typed, Assigned
<1>3. /\ row' \in [Purchase -> Reservation]
      /\ \A q \in Purchase :
            row'[q].state # "none" => row'[q].grant \in Grant /\ row'[q].at <= now
      BY UpdateTyped DEF Typed, Assigned
<1>4. UNCHANGED <<now, bound, count, final, stopped, identity>>
      BY DEF chain
<1>. QED  BY <1>1, <1>2, <1>3, <1>4, WorkerStepTyped

(* The accounts after an amount is used or released. *)
LEMMA AccountTyped ==
    ASSUME Typed, NEW p \in Purchase, row[p].state # "none", NEW used \in Nat,
           NEW st \in {"none", "active", "paused", "security_paused", "exhausted", "expired",
                       "revoked"},
           Account(p, used, st)
    PROVE  /\ grant' \in [Grant -> GrantRow]
           /\ usage' \in [Grant -> [Days -> [used : Nat, reserved : Nat]]]
           /\ \A g \in Grant : grant'[g].limits = grant[g].limits
           /\ \A g \in Grant : g # row[p].grant => grant'[g] = grant[g]
           /\ grant'[row[p].grant].status = st
           /\ grant'[row[p].grant].used = grant[row[p].grant].used + used
           /\ grant'[row[p].grant].reserved = grant[row[p].grant].reserved - Amount[p]
           /\ grant[row[p].grant].reserved >= Amount[p]
<1> DEFINE g == row[p].grant
           d == UsageDate(p)
           a == Amount[p]
           n == [grant[g] EXCEPT !.reserved = @ - a, !.used = @ + used, !.status = st]
           u == [usage[g][d] EXCEPT !.reserved = @ - a, !.used = @ + used]
<1>1. g \in Grant /\ a \in Nat /\ grant[g] \in GrantRow
      BY FundingAssumption DEF Typed, TypeOK, Assigned
<1>2. d \in Days
  <2>1. row[p].at \in 0 .. MaxTime
        BY FundingAssumption DEF Typed, TypeOK, Assigned, Reservation
  <2>. QED  BY <2>1 DEF Days, UsageDate
<1>3. usage[g][d] \in [used : Nat, reserved : Nat] /\ usage[g] \in [Days -> [used : Nat, reserved : Nat]]
      BY <1>1, <1>2 DEF Typed, TypeOK
<1>4. grant[g].reserved >= a /\ usage[g][d].reserved >= a
      BY DEF Account
<1>0. /\ grant[g].used \in Nat /\ grant[g].reserved \in Nat
      /\ grant[g].limits \in LimitRecord \cup {NoLimits}
      /\ usage[g][d].used \in Nat /\ usage[g][d].reserved \in Nat
      BY <1>1, <1>3 DEF GrantRow
<1>5. /\ n \in GrantRow
      /\ n.limits = grant[g].limits /\ n.status = st /\ n.used = grant[g].used + used
      /\ n.reserved = grant[g].reserved - a
  <2>1. /\ grant[g].used + used \in Nat
        /\ grant[g].reserved - a \in Nat
        BY <1>0, <1>1, <1>4
  <2>2. n \in GrantRow
        BY <1>1, <2>1 DEF GrantRow
  <2>. QED  BY <1>1, <2>2 DEF GrantRow
<1>6. u \in [used : Nat, reserved : Nat]
  <2>1. /\ usage[g][d].used + used \in Nat
        /\ usage[g][d].reserved - a \in Nat
        BY <1>0, <1>1, <1>4
  <2>. QED  BY <1>3, <2>1
<1>7. grant' = [grant EXCEPT ![g] = n]
      BY DEF Account
<1>8. usage' = [usage EXCEPT ![g] = [usage[g] EXCEPT ![d] = u]]
      BY DEF Account
<1> HIDE DEF n, u
<1>9. grant' \in [Grant -> GrantRow] /\ usage' \in [Grant -> [Days -> [used : Nat, reserved : Nat]]]
  <2>1. [usage[g] EXCEPT ![d] = u] \in [Days -> [used : Nat, reserved : Nat]]
        BY <1>3, <1>6
  <2>. QED  BY <1>1, <1>5, <1>7, <1>8, <2>1 DEF Typed, TypeOK
<1>10. grant'[g] = n /\ \A f \in Grant : f # g => grant'[f] = grant[f]
      BY <1>1, <1>7 DEF Typed, TypeOK
<1>. QED  BY <1>1, <1>4, <1>5, <1>9, <1>10

(* The states a worker takes on, by their program counter. *)
LEMMA WorkerMoves ==
    ASSUME Typed, NEW w \in Worker,
           NEW pc \in {"pin", "broadcast", "send", "record", "reconcile", "verify", "resolve"}
    PROVE  /\ worker[w] \in WorkerState
           /\ [worker[w] EXCEPT !.pc = pc] \in WorkerState
           /\ [worker[w] EXCEPT !.pc = pc].pc = pc
           /\ [worker[w] EXCEPT !.pc = pc].job = worker[w].job
           /\ [worker[w] EXCEPT !.pc = pc].evidence = worker[w].evidence
           /\ [worker[w] EXCEPT !.pc = pc].outcome = worker[w].outcome
  BY DEF Typed, TypeOK, WorkerState

LEMMA ReserveTyped ==
    ASSUME Typed, NEW w \in Worker, Reserve(w)
    PROVE  /\ Typed'
           /\ worker[w].grant \in Grant /\ Amount[worker[w].job] \in Nat
           /\ \A f \in Grant :
                 /\ grant'[f].status = grant[f].status
                 /\ grant'[f].limits = grant[f].limits
                 /\ grant'[f].used = grant[f].used
                 /\ grant'[f].reserved = IF f = worker[w].grant
                                         THEN grant[f].reserved + Amount[worker[w].job]
                                         ELSE grant[f].reserved
<1> DEFINE p == worker[w].job
           g == worker[w].grant
           t == worker[w].at
           a == Amount[p]
           r == [NoReservation EXCEPT !.state = "spending_reserved", !.grant = g,
                                      !.accounting = "reserved", !.at = t]
           n == [grant[g] EXCEPT !.reserved = @ + a]
           u == [usage[g][t \div Day] EXCEPT !.reserved = @ + a]
<1>1. /\ p \in Purchase /\ g \in Grant /\ t <= now /\ now <= MaxTime
      /\ t \in Nat /\ a \in Nat /\ now \in Nat /\ MaxTime \in Nat
      BY FundingAssumption DEF Typed, TypeOK, Assigned, Reserve, WorkerState
<1>2. t \div Day \in Days
  <2>1. t \in 0 .. MaxTime
        BY <1>1
  <2>. QED  BY <2>1 DEF Days
<1>3. /\ grant[g] \in GrantRow /\ grant[g].reserved \in Nat
      /\ usage[g] \in [Days -> [used : Nat, reserved : Nat]]
      /\ usage[g][t \div Day] \in [used : Nat, reserved : Nat]
      /\ usage[g][t \div Day].reserved \in Nat
      BY <1>1, <1>2 DEF Typed, TypeOK, GrantRow
<1>4. grant[g].reserved + a \in Nat /\ usage[g][t \div Day].reserved + a \in Nat
      BY <1>1, <1>3
<1>5. /\ n \in GrantRow /\ n.status = grant[g].status /\ n.limits = grant[g].limits
      /\ n.used = grant[g].used /\ n.reserved = grant[g].reserved + a
      BY <1>3, <1>4 DEF GrantRow
<1>6. u \in [used : Nat, reserved : Nat]
      BY <1>3, <1>4
<1>7. r \in Reservation /\ r.grant = g /\ r.at = t
      BY <1>1 DEF NoReservation, Reservation
<1>8. /\ grant' = [grant EXCEPT ![g] = n]
      /\ usage' = [usage EXCEPT ![g] = [usage[g] EXCEPT ![t \div Day] = u]]
      BY DEF Reserve
<1>9. /\ Update(p, r) /\ Become(w, [worker[w] EXCEPT !.pc = "pin"])
      /\ UNCHANGED <<now, bound, nextNonce, chain, identity>>
      BY DEF Reserve
<1> HIDE DEF n, u, r
<1>10. grant' \in [Grant -> GrantRow]
      BY <1>1, <1>5, <1>8 DEF Typed, TypeOK
<1>11. \A f \in Grant : grant'[f].status # "none" => grant'[f].limits \in LimitRecord
      BY <1>1, <1>5, <1>8 DEF Typed, TypeOK, Assigned
<1>12. usage' \in [Grant -> [Days -> [used : Nat, reserved : Nat]]]
  <2>1. [usage[g] EXCEPT ![t \div Day] = u] \in [Days -> [used : Nat, reserved : Nat]]
        BY <1>3, <1>6
  <2>. QED  BY <1>1, <1>8, <2>1 DEF Typed, TypeOK
<1>13. /\ row' \in [Purchase -> Reservation]
       /\ \A q \in Purchase :
             row'[q].state # "none" => row'[q].grant \in Grant /\ row'[q].at <= now
      BY <1>1, <1>7, <1>9, UpdateTyped DEF Typed, Assigned
<1>14. /\ nextNonce' \in Nat
       /\ fate' \in [Purchase -> {"unsent", "pool", "dropped"} \cup Mined]
       /\ UNCHANGED <<now, bound, count, final, stopped, identity>>
      BY <1>9 DEF Typed, TypeOK, chain
<1>15. /\ [worker[w] EXCEPT !.pc = "pin"] \in WorkerState
       /\ [worker[w] EXCEPT !.pc = "pin"].pc = "pin"
       /\ [worker[w] EXCEPT !.pc = "pin"].job = p
      BY WorkerMoves
<1>16. Typed'
      BY <1>1, <1>9, <1>10, <1>11, <1>12, <1>13, <1>14, <1>15, WorkerStepTyped
<1>17. grant'[g] = n /\ \A f \in Grant : f # g => grant'[f] = grant[f]
      BY <1>1, <1>8 DEF Typed, TypeOK
<1>. QED  BY <1>1, <1>5, <1>16, <1>17

-----------------------------------------------------------------------------
(* A step that sends nothing, allocates no nonce and at most makes blocks  *)
(* final.                                                                  *)
LEMMA QuietStep ==
    ASSUME Inv, Typed', UNCHANGED <<fate, nextNonce>>, final <= final',
           \A w \in Worker :
              \/ worker'[w] = worker[w]
              \/ /\ worker'[w].pc \notin {"send", "record"}
                 /\ worker'[w].evidence # "none" =>
                       /\ worker'[w].pc = "resolve"
                       /\ fate[worker'[w].job] = worker'[w].evidence
                       /\ row[worker'[w].job].nonce < final,
           \A p \in Purchase :
              \/ row'[p] = row[p]
              \/ /\ row'[p].send = row[p].send
                 /\ row'[p].nonce = row[p].nonce \/ row[p].send = "none"
                 /\ row'[p].state \in {"none", "spending_reserved", "released"}
                       => row[p].send = "none"
                 /\ row'[p].state \in {"spending_reserved", "payment_submitted"}
                       => row'[p].accounting = "reserved"
                 /\ fate[p] # "unsent" =>
                       \/ row'[p].accounting \in {"reserved", "settled"}
                       \/ fate[p] = "reverted" /\ row[p].nonce < final
                 /\ row'[p].state \in {"settled", "finalized"}
                       => fate[p] = "paid" /\ row[p].nonce < final
                 /\ row'[p].state = "unpaid_terminal"
                       => fate[p] = "reverted" /\ row[p].nonce < final
    PROVE  Inv'
<1>1. /\ final \in Nat /\ final' \in Nat
      /\ \A p \in Purchase : row[p].nonce \in Nat /\ row'[p].nonce \in Nat
      /\ \A w \in Worker : worker'[w].pc # "idle" => worker'[w].job \in Purchase
      BY DEF Inv, Typed, TypeOK, Assigned, Reservation
<1>2. \A p \in Purchase :
          /\ row'[p].send = row[p].send
          /\ row[p].send = "none" => fate[p] = "unsent"
          /\ fate[p] # "unsent" \/ row[p].send # "none" => row'[p].nonce = row[p].nonce
      BY DEF Inv, Sends, Unsent
<1>3. Sends'
  <2>1. \A p \in Purchase :
            /\ row'[p].state \in {"none", "spending_reserved", "released"} => row'[p].send = "none"
            /\ row'[p].send \in {"none", "pending"} => Unsent(p)'
        BY <1>2 DEF Inv, Sends, Unsent
  <2>2. \A w \in Worker : worker'[w].pc = "record" => worker'[w].outcome # "none"
        BY DEF Inv, Sends
  <2>3. SentOnce'
        BY DEF Inv, Sends, SentOnce
  <2>. QED  BY <2>1, <2>2, <2>3 DEF Sends
<1>4. Nonces'
      BY <1>2 DEF Inv, Nonces, NoncesDistinct
<1>5. Verdicts'
  <2>1. \A p \in Purchase :
            /\ row'[p].state \in {"spending_reserved", "payment_submitted"}
                  => row'[p].accounting = "reserved"
            /\ fate'[p] # "unsent" =>
                  \/ row'[p].accounting \in {"reserved", "settled"}
                  \/ fate'[p] = "reverted" /\ row'[p].nonce < final'
        BY <1>1, <1>2 DEF Inv, Verdicts
  <2>2. \A w \in Worker :
            worker'[w].evidence # "none" =>
                /\ worker'[w].pc = "resolve"
                /\ fate'[worker'[w].job] = worker'[w].evidence
                /\ row'[worker'[w].job].nonce < final'
    <3> SUFFICES ASSUME NEW w \in Worker, worker'[w].evidence # "none"
                 PROVE  /\ worker'[w].pc = "resolve"
                        /\ fate'[worker'[w].job] = worker'[w].evidence
                        /\ row'[worker'[w].job].nonce < final'
        OBVIOUS
    <3>1. /\ worker'[w].pc = "resolve"
          /\ fate[worker'[w].job] = worker'[w].evidence
          /\ row[worker'[w].job].nonce < final
          BY DEF Inv, Verdicts
    <3>2. worker'[w].job \in Purchase
          BY <1>1, <3>1
    <3>3. worker'[w].evidence # "unsent"
          BY DEF Typed, TypeOK, WorkerState
    <3>. QED  BY <1>1, <1>2, <3>1, <3>2, <3>3
  <2>3. VerdictMatchesChain'
    <3> SUFFICES ASSUME NEW p \in Purchase
                 PROVE  /\ row'[p].state \in {"settled", "finalized"}
                              => fate'[p] = "paid" /\ row'[p].nonce < final'
                        /\ row'[p].state = "unpaid_terminal"
                              => fate'[p] = "reverted" /\ row'[p].nonce < final'
        BY DEF VerdictMatchesChain
    <3>1. /\ row'[p].state \in {"settled", "finalized"} => fate[p] = "paid" /\ row[p].nonce < final
          /\ row'[p].state = "unpaid_terminal" => fate[p] = "reverted" /\ row[p].nonce < final
          BY DEF Inv, Verdicts, VerdictMatchesChain
    <3>. QED  BY <1>1, <1>2, <3>1
  <2>. QED  BY <2>1, <2>2, <2>3 DEF Verdicts
<1>. QED  BY <1>3, <1>4, <1>5 DEF Inv

LEMMA OwnerInv == Inv /\ OwnerStep => Inv'
<1> SUFFICES ASSUME Inv, OwnerStep
             PROVE  Inv'
    OBVIOUS
<1>1. Typed'
      BY OwnerTyped DEF Inv
<1>2. UNCHANGED <<row, nextNonce, chain, worker>>
      BY DEF OwnerStep, CreateGrant, ReduceGrant, AmendGrant, PauseGrant, ResumeGrant, RevokeGrant,
             ExpireGrant, BindGrant, RevokeIdentity, PrepareDisconnect, DisconnectWallet,
             EndIdentity
<1>3. final <= final'
      BY <1>2 DEF chain, Inv, Typed, TypeOK
<1>. QED  BY <1>1, <1>2, <1>3, QuietStep DEF chain

(* A transaction that is not final moves between the pool, a block and     *)
(* oblivion.                                                               *)
LEMMA FateStep ==
    ASSUME Inv, Typed', NEW p \in Purchase, NEW f \in {"pool", "dropped", "paid", "reverted"},
           fate[p] # "unsent", ~(fate[p] \in Mined /\ row[p].nonce < final),
           fate' = [fate EXCEPT ![p] = f],
           ledger' = ledger, final' = final, worker' = worker
    PROVE  Inv'
<1>1. fate'[p] = f /\ \A q \in Purchase : q # p => fate'[q] = fate[q]
      BY DEF Inv, Typed, TypeOK
<1>2. fate[p] # "unsent" /\ f # "unsent"
      BY DEF Mined
<1>3. row[p].nonce \in Nat
      BY DEF Inv, Typed, TypeOK, Reservation
<1>4. Sends'
  <2>1. \A q \in Purchase : row[q].send \in {"none", "pending"} => q # p
        BY <1>2 DEF Inv, Sends, Unsent
  <2>2. \A w \in Worker : worker[w].pc = "send" => worker[w].job # p /\ worker[w].job \in Purchase
        BY <1>2 DEF Inv, Sends, SentOnce, Typed, Assigned
  <2>3. SentOnce'
        BY <1>1, <2>2 DEF Inv, Sends, SentOnce
  <2>. QED  BY <1>1, <2>1, <2>3 DEF Inv, Sends, Unsent, ledger
<1>5. Nonces'
      BY DEF Inv, Nonces, NoncesDistinct, ledger
<1>6. ~(fate[p] \in Mined /\ row[p].nonce < final)
      OBVIOUS
<1>7. row[p].accounting \in {"reserved", "settled"}
      BY <1>2, <1>6 DEF Inv, Verdicts, Mined
<1>8. \A w \in Worker : worker[w].evidence # "none" => worker[w].job # p /\ worker[w].job \in Purchase
  <2>1. \A w \in Worker : worker[w].evidence # "none" => worker[w].evidence \in Mined
        BY DEF Inv, Typed, TypeOK, WorkerState, Mined
  <2>. QED  BY <1>6, <2>1 DEF Inv, Verdicts, Typed, Assigned
<1>9. row[p].state \notin {"settled", "finalized", "unpaid_terminal"}
      BY <1>6 DEF Inv, Verdicts, VerdictMatchesChain, Mined
<1>10. Verdicts'
  <2>1. VerdictMatchesChain'
        BY <1>1, <1>9 DEF Inv, Verdicts, VerdictMatchesChain, ledger
  <2>. QED  BY <1>1, <1>7, <1>8, <2>1 DEF Inv, Verdicts, ledger
<1>. QED  BY <1>4, <1>5, <1>10 DEF Inv

LEMMA ChainInv == Inv /\ (ChainStep \/ Tick) => Inv'
<1> SUFFICES ASSUME Inv, ChainStep \/ Tick
             PROVE  Inv'
    OBVIOUS
<1>0. Typed' /\ final \in Nat /\ final' \in Nat
      BY ChainTyped DEF Inv, Typed, TypeOK
<1>1. ASSUME NEW p \in Purchase, NEW verdict \in Mined, Mine(p, verdict)
      PROVE  Inv'
  <2>1. fate[p] # "unsent" /\ ~(fate[p] \in Mined /\ row[p].nonce < final)
        BY <1>1 DEF Mine, Mined
  <2>2. verdict \in {"pool", "dropped", "paid", "reverted"}
        BY DEF Mined
  <2>. QED  BY <1>0, <1>1, <2>1, <2>2, FateStep DEF Mine
<1>2. ASSUME NEW p \in Purchase, Reorganise(p)
      PROVE  Inv'
  <2>1. fate[p] # "unsent" /\ ~(fate[p] \in Mined /\ row[p].nonce < final)
        BY <1>0, <1>2 DEF Reorganise, Mined, Inv, Typed, TypeOK, Reservation
  <2>. QED  BY <1>0, <1>2, <2>1, FateStep DEF Reorganise
<1>3. ASSUME NEW p \in Purchase, Drop(p)
      PROVE  Inv'
  <2>1. fate[p] # "unsent" /\ ~(fate[p] \in Mined /\ row[p].nonce < final)
        BY <1>3 DEF Drop, Mined
  <2>. QED  BY <1>0, <1>3, <2>1, FateStep DEF Drop
<1>4. CASE BecomeFinal
      BY <1>0, <1>4, QuietStep DEF BecomeFinal, ledger
<1>5. ASSUME NEW g \in Grant, RevokeOnChain(g)
      PROVE  Inv'
  <2>1. UNCHANGED <<fate, nextNonce, row, worker, final>>
        BY <1>5 DEF RevokeOnChain, ledger
  <2>2. final <= final'
        BY <1>0, <2>1
  <2>. QED  BY <1>0, <2>1, <2>2, QuietStep
<1>6. CASE Tick
      BY <1>0, <1>6, QuietStep DEF Tick, ledger, chain
<1>. QED  BY <1>1, <1>2, <1>3, <1>4, <1>5, <1>6 DEF ChainStep

(* Steps that change only the state of worker w. *)
LEMMA OnlyWorkerInv ==
    ASSUME Inv, NEW w \in Worker, NEW s \in WorkerState, Become(w, s),
           s.pc # "idle" => s.job \in Purchase,
           s.pc = "reserve" => s.grant \in Grant /\ s.at <= now,
           s.pc \notin {"send", "record"},
           s.evidence # "none" =>
              /\ s.pc = "resolve"
              /\ fate[s.job] = s.evidence
              /\ row[s.job].nonce < final,
           UNCHANGED <<now, ledger, chain, identity>>
    PROVE  Inv'
<1>1. Typed /\ Typed'
      BY OnlyWorkerTyped DEF Inv
<1>2. worker'[w] = s /\ \A v \in Worker : v # w => worker'[v] = worker[v]
      BY <1>1, BecomeTyped DEF Typed
<1>3. UNCHANGED <<fate, nextNonce, row, final>> /\ final <= final'
      BY <1>1 DEF ledger, chain, Typed, TypeOK
<1>. QED  BY <1>1, <1>2, <1>3, QuietStep

LEMMA WorkerBeginsInv ==
    ASSUME Inv, NEW w \in Worker, NEW p \in Purchase,
           \/ \E g \in Grant : ReserveBegin(w, p, g)
           \/ Recover(w, p)
           \/ \E operator \in BOOLEAN : ReconcileBegin(w, p, operator)
    PROVE  Inv'
<1>1. ASSUME NEW g \in Grant, ReserveBegin(w, p, g)
      PROVE  Inv'
  <2> DEFINE s == [IdleWorker EXCEPT !.pc = "reserve", !.job = p, !.grant = g, !.at = now]
  <2>1. now \in Nat
        BY DEF Inv, Typed, TypeOK
  <2>2. /\ s \in WorkerState
        /\ s.pc = "reserve" /\ s.job = p /\ s.grant = g /\ s.at = now /\ s.evidence = "none"
        BY <2>1 DEF IdleWorker, WorkerState
  <2>3. Become(w, s) /\ UNCHANGED <<now, ledger, chain, identity>>
        BY <1>1 DEF ReserveBegin
  <2> HIDE DEF s
  <2>. QED  BY <2>1, <2>2, <2>3, OnlyWorkerInv
<1>2. CASE Recover(w, p)
  <2>1. PICK pc \in {"broadcast", "reconcile"} : Become(w, [IdleWorker EXCEPT !.pc = pc, !.job = p])
        BY <1>2 DEF Recover
  <2> DEFINE s == [IdleWorker EXCEPT !.pc = pc, !.job = p]
  <2>2. s \in WorkerState /\ s.pc = pc /\ s.job = p /\ s.evidence = "none"
        BY DEF IdleWorker, WorkerState
  <2> HIDE DEF s
  <2>3. Become(w, s) /\ UNCHANGED <<now, ledger, chain, identity>>
        BY <1>2, <2>1 DEF Recover, s
  <2>. QED  BY <2>2, <2>3, OnlyWorkerInv
<1>3. ASSUME NEW operator \in BOOLEAN, ReconcileBegin(w, p, operator)
      PROVE  Inv'
  <2> DEFINE s == [IdleWorker EXCEPT !.pc = "reconcile", !.job = p, !.operator = operator]
  <2>1. s \in WorkerState /\ s.pc = "reconcile" /\ s.job = p /\ s.evidence = "none"
        BY DEF IdleWorker, WorkerState
  <2>2. Become(w, s) /\ UNCHANGED <<now, ledger, chain, identity>>
        BY <1>3 DEF ReconcileBegin
  <2> HIDE DEF s
  <2>. QED  BY <2>1, <2>2, OnlyWorkerInv
<1>. QED  BY <1>1, <1>2, <1>3

LEMMA WorkerWaitsInv ==
    ASSUME Inv, NEW w \in Worker,
           ReserveReplay(w) \/ BroadcastClaimed(w) \/ Verify(w) \/ VerifyFails(w) \/ Abandon(w)
    PROVE  Inv'
<1>0. /\ Typed /\ worker[w] \in WorkerState
      /\ worker[w].pc # "idle" => worker[w].job \in Purchase
      /\ worker[w].pc # "resolve" => worker[w].evidence = "none"
      BY DEF Inv, Typed, TypeOK, Assigned, Verdicts
<1>1. IdleWorker \in WorkerState /\ IdleWorker.pc = "idle" /\ IdleWorker.evidence = "none"
      BY InitialValuesTyped DEF IdleWorker
<1>2. CASE ReserveReplay(w)
  <2>1. CASE row[worker[w].job].rail
        BY <1>1, <1>2, <2>1, OnlyWorkerInv DEF ReserveReplay
  <2>2. CASE ~row[worker[w].job].rail
    <3> DEFINE s == [worker[w] EXCEPT !.pc = "pin"]
    <3>1. s \in WorkerState /\ s.pc = "pin" /\ s.job = worker[w].job /\ s.evidence = worker[w].evidence
          BY <1>0, WorkerMoves
    <3>2. worker[w].pc = "reserve" /\ Become(w, s) /\ UNCHANGED <<now, ledger, chain, identity>>
          BY <1>2, <2>2 DEF ReserveReplay
    <3> HIDE DEF s
    <3>. QED  BY <1>0, <3>1, <3>2, OnlyWorkerInv
  <2>. QED  BY <2>1, <2>2
<1>3. CASE BroadcastClaimed(w)
  <2> DEFINE s == [worker[w] EXCEPT !.pc = "reconcile"]
  <2>1. s \in WorkerState /\ s.pc = "reconcile" /\ s.job = worker[w].job /\ s.evidence = worker[w].evidence
        BY <1>0, WorkerMoves
  <2>2. worker[w].pc = "broadcast" /\ Become(w, s) /\ UNCHANGED <<now, ledger, chain, identity>>
        BY <1>3 DEF BroadcastClaimed
  <2> HIDE DEF s
  <2>. QED  BY <1>0, <2>1, <2>2, OnlyWorkerInv
<1>4. CASE Verify(w)
  <2> DEFINE p == worker[w].job
             e == ChainEvidence(p)
             s == [worker[w] EXCEPT !.pc = "resolve", !.evidence = e]
  <2>1. e \in {"none", "paid", "reverted"} /\ (e # "none" => fate[p] = e /\ row[p].nonce < final)
        BY DEF ChainEvidence, Mined
  <2>2. worker[w].pc = "verify" /\ Become(w, s) /\ UNCHANGED <<now, ledger, chain, identity>>
        BY <1>4 DEF Verify
  <2> HIDE DEF e
  <2>3. s \in WorkerState /\ s.pc = "resolve" /\ s.job = p /\ s.evidence = e
        BY <1>0, <2>1 DEF WorkerState
  <2> HIDE DEF s
  <2>. QED  BY <1>0, <2>1, <2>2, <2>3, OnlyWorkerInv
<1>5. CASE VerifyFails(w)
  <2> DEFINE s == [worker[w] EXCEPT !.pc = "resolve"]
  <2>1. s \in WorkerState /\ s.pc = "resolve" /\ s.job = worker[w].job /\ s.evidence = worker[w].evidence
        BY <1>0, WorkerMoves
  <2>2. worker[w].pc = "verify" /\ Become(w, s) /\ UNCHANGED <<now, ledger, chain, identity>>
        BY <1>5 DEF VerifyFails
  <2> HIDE DEF s
  <2>. QED  BY <1>0, <2>1, <2>2, OnlyWorkerInv
<1>6. CASE Abandon(w)
      BY <1>1, <1>6, OnlyWorkerInv DEF Abandon
<1>. QED  BY <1>2, <1>3, <1>4, <1>5, <1>6

(* A step of worker w that changes the reservation of p but not its        *)
(* attempt.                                                                *)
LEMMA QuietUpdate ==
    ASSUME Inv, Typed', NEW w \in Worker, NEW s \in WorkerState, Become(w, s),
           s.pc \notin {"send", "record"}, s.evidence = "none",
           NEW p \in Purchase, NEW r \in Reservation, Update(p, r),
           r.send = row[p].send,
           r.nonce = row[p].nonce \/ row[p].send = "none",
           r.state \in {"none", "spending_reserved", "released"} => row[p].send = "none",
           r.state \in {"spending_reserved", "payment_submitted"} => r.accounting = "reserved",
           fate[p] # "unsent" =>
              \/ r.accounting \in {"reserved", "settled"}
              \/ fate[p] = "reverted" /\ row[p].nonce < final,
           r.state \in {"settled", "finalized"} => fate[p] = "paid" /\ row[p].nonce < final,
           r.state = "unpaid_terminal" => fate[p] = "reverted" /\ row[p].nonce < final,
           UNCHANGED <<nextNonce, chain>>
    PROVE  Inv'
<1>1. TypeOK
      BY DEF Inv, Typed
<1>2. worker'[w] = s /\ \A v \in Worker : v # w => worker'[v] = worker[v]
      BY <1>1, BecomeTyped
<1>3. row'[p] = r /\ \A q \in Purchase : q # p => row'[q] = row[q]
      BY <1>1, UpdateTyped
<1>4. UNCHANGED <<fate, nextNonce>> /\ final' = final /\ final \in Nat
      BY <1>1 DEF chain, TypeOK
<1>5. final <= final'
      BY <1>4
<1>6. \A v \in Worker :
          \/ worker'[v] = worker[v]
          \/ worker'[v].pc \notin {"send", "record"} /\ worker'[v].evidence = "none"
      BY <1>2
<1>. QED  BY <1>3, <1>4, <1>5, <1>6, QuietStep

(* The same, when neither state nor accounting change. *)
LEMMA DetailsInv ==
    ASSUME Inv, NEW w \in Worker, NEW s \in WorkerState, Become(w, s),
           s.pc \notin {"reserve", "send", "record"},
           s.pc # "idle" => s.job \in Purchase,
           s.evidence = "none",
           NEW p \in Purchase, NEW r \in Reservation, Update(p, r),
           r.state = row[p].state, r.grant = row[p].grant, r.at = row[p].at,
           r.send = row[p].send, r.nonce = row[p].nonce, r.accounting = row[p].accounting,
           UNCHANGED <<now, grant, usage, bound, nextNonce, chain, identity>>
    PROVE  Inv'
<1>1. /\ Typed
      /\ r.state # "none" => r.grant \in Grant /\ r.at <= now
      /\ nextNonce' \in Nat
      BY DEF Inv, Typed, TypeOK, Assigned
<1>2. Typed'
      BY <1>1, RowAndWorkerTyped
<1>3. /\ r.state \in {"none", "spending_reserved", "released"} => row[p].send = "none"
      /\ r.state \in {"spending_reserved", "payment_submitted"} => r.accounting = "reserved"
      /\ fate[p] # "unsent" =>
            \/ r.accounting \in {"reserved", "settled"}
            \/ fate[p] = "reverted" /\ row[p].nonce < final
      /\ r.state \in {"settled", "finalized"} => fate[p] = "paid" /\ row[p].nonce < final
      /\ r.state = "unpaid_terminal" => fate[p] = "reverted" /\ row[p].nonce < final
      BY DEF Inv, Sends, Verdicts, VerdictMatchesChain
<1>. QED  BY <1>2, <1>3, QuietUpdate

LEMMA DetailStepsInv ==
    ASSUME Inv, NEW w \in Worker,
           PinRail(w) \/ ReconcileLimit(w) \/ ReconcileAttempt(w) \/ StayPending(w)
    PROVE  Inv'
<1> DEFINE p == worker[w].job
<1>0. /\ Typed /\ p \in Purchase /\ row[p] \in Reservation
      /\ worker[w].pc # "resolve" => worker[w].evidence = "none"
      BY DEF Inv, Typed, TypeOK, Assigned, Verdicts, PinRail, ReconcileLimit, ReconcileAttempt,
             StayPending
<1>1. IdleWorker \in WorkerState /\ IdleWorker.pc = "idle" /\ IdleWorker.evidence = "none"
      BY InitialValuesTyped DEF IdleWorker
<1>2. CASE PinRail(w)
  <2> DEFINE r == [row[p] EXCEPT !.rail = TRUE]
  <2>1. /\ r \in Reservation
        /\ r.state = row[p].state /\ r.grant = row[p].grant /\ r.at = row[p].at
        /\ r.send = row[p].send /\ r.nonce = row[p].nonce /\ r.accounting = row[p].accounting
        BY <1>0 DEF Reservation
  <2>2. /\ Update(p, r) /\ Become(w, IdleWorker)
        /\ UNCHANGED <<now, grant, usage, bound, nextNonce, chain, identity>>
        BY <1>2 DEF PinRail
  <2> HIDE DEF r
  <2>. QED  BY <1>0, <1>1, <2>1, <2>2, DetailsInv
<1>3. CASE ReconcileLimit(w)
  <2> DEFINE r == [row[p] EXCEPT !.review = TRUE]
  <2>1. /\ r \in Reservation
        /\ r.state = row[p].state /\ r.grant = row[p].grant /\ r.at = row[p].at
        /\ r.send = row[p].send /\ r.nonce = row[p].nonce /\ r.accounting = row[p].accounting
        BY <1>0 DEF Reservation
  <2>2. /\ Update(p, r) /\ Become(w, IdleWorker)
        /\ UNCHANGED <<now, grant, usage, bound, nextNonce, chain, identity>>
        BY <1>3 DEF ReconcileLimit
  <2> HIDE DEF r
  <2>. QED  BY <1>0, <1>1, <2>1, <2>2, DetailsInv
<1>4. CASE ReconcileAttempt(w)
  <2> DEFINE s == [worker[w] EXCEPT !.pc = "verify"]
             n == [row[p] EXCEPT !.attempts = @ + 1]
             r == IF ~worker[w].operator THEN n ELSE row[p]
  <2>1. s \in WorkerState /\ s.pc = "verify" /\ s.job = p /\ s.evidence = worker[w].evidence
        BY <1>0, WorkerMoves
  <2>2. worker[w].pc = "reconcile" /\ Update(p, r) /\ Become(w, s)
        BY <1>4 DEF ReconcileAttempt
  <2>3. UNCHANGED <<now, grant, usage, bound, nextNonce, chain, identity>>
        BY <1>4 DEF ReconcileAttempt
  <2>4. row[p].attempts + 1 \in Nat
        BY <1>0 DEF Reservation
  <2>5. /\ n \in Reservation
        /\ n.state = row[p].state /\ n.grant = row[p].grant /\ n.at = row[p].at
        /\ n.send = row[p].send /\ n.nonce = row[p].nonce /\ n.accounting = row[p].accounting
        BY <1>0, <2>4 DEF Reservation
  <2> HIDE DEF n
  <2>6. /\ r \in Reservation
        /\ r.state = row[p].state /\ r.grant = row[p].grant /\ r.at = row[p].at
        /\ r.send = row[p].send /\ r.nonce = row[p].nonce /\ r.accounting = row[p].accounting
        BY <1>0, <2>5
  <2> HIDE DEF s, r
  <2>. QED  BY <1>0, <2>1, <2>2, <2>3, <2>6, DetailsInv
<1>5. CASE StayPending(w)
  <2> DEFINE r == [row[p] EXCEPT !.review = FALSE]
  <2>1. /\ r \in Reservation
        /\ r.state = row[p].state /\ r.grant = row[p].grant /\ r.at = row[p].at
        /\ r.send = row[p].send /\ r.nonce = row[p].nonce /\ r.accounting = row[p].accounting
        BY <1>0 DEF Reservation
  <2>2. /\ Update(p, r) /\ Become(w, IdleWorker)
        /\ UNCHANGED <<now, grant, usage, bound, nextNonce, chain, identity>>
        BY <1>5 DEF StayPending
  <2> HIDE DEF r
  <2>. QED  BY <1>0, <1>1, <2>1, <2>2, DetailsInv
<1>. QED  BY <1>2, <1>3, <1>4, <1>5

LEMMA ReserveInv ==
    ASSUME Inv, NEW w \in Worker, Reserve(w)
    PROVE  Inv'
<1> DEFINE p == worker[w].job
           s == [worker[w] EXCEPT !.pc = "pin"]
           r == [NoReservation EXCEPT !.state = "spending_reserved", !.grant = worker[w].grant,
                                      !.accounting = "reserved", !.at = worker[w].at]
<1>1. Typed /\ Typed'
      BY ReserveTyped DEF Inv
<1>2. /\ worker[w].pc = "reserve" /\ row[p].state = "none"
      /\ Update(p, r) /\ Become(w, s) /\ UNCHANGED <<nextNonce, chain>>
      BY DEF Reserve
<1>3. /\ p \in Purchase /\ worker[w].grant \in Grant /\ worker[w].at \in Nat
      /\ row[p].send = "none" /\ worker[w].evidence = "none"
      BY <1>2 DEF Inv, Typed, TypeOK, Assigned, Sends, Verdicts, WorkerState
<1>4. s \in WorkerState /\ s.pc = "pin" /\ s.evidence = "none"
      BY <1>1, <1>3, WorkerMoves
<1>5. /\ r \in Reservation /\ r.state = "spending_reserved" /\ r.accounting = "reserved"
      /\ r.send = "none"
      BY <1>3 DEF NoReservation, Reservation
<1> HIDE DEF s, r
<1>. QED  BY <1>1, <1>2, <1>3, <1>4, <1>5, QuietUpdate

(* Settling and releasing the budget of p. *)
LEMMA BudgetTyped ==
    ASSUME Typed, NEW p \in Purchase, row[p].state # "none", SettleBudget(p) \/ ReleaseBudget(p)
    PROVE  /\ grant' \in [Grant -> GrantRow]
           /\ usage' \in [Grant -> [Days -> [used : Nat, reserved : Nat]]]
           /\ \A g \in Grant :
                 /\ grant'[g].limits = grant[g].limits
                 /\ Committed(g)' <= Committed(g)
                 /\ grant'[g].status # "none" => grant[g].status # "none"
                 /\ grant[g].status = "revoked" => grant'[g].status = "revoked"
<1> DEFINE g == row[p].grant
           Status == {"none", "active", "paused", "security_paused", "exhausted", "expired",
                      "revoked"}
<1>1. /\ g \in Grant /\ grant[g].status \in Status /\ Amount[p] \in Nat
      /\ \A f \in Grant : grant[f].used \in Nat /\ grant[f].reserved \in Nat
      BY FundingAssumption DEF Typed, TypeOK, Assigned, GrantRow
<1>2. PICK used \in {0, Amount[p]}, st \in Status :
          /\ Account(p, used, st)
          /\ st # "none" => grant[g].status # "none"
          /\ grant[g].status = "revoked" => st = "revoked"
  <2>1. CASE SettleBudget(p)
    <3>1. /\ StatusSettled(p) \in Status
          /\ StatusSettled(p) # "none" => grant[g].status # "none"
          /\ grant[g].status = "revoked" => StatusSettled(p) = "revoked"
          BY <1>1 DEF StatusSettled
    <3>2. Account(p, Amount[p], StatusSettled(p))
          BY <2>1 DEF SettleBudget
    <3>. QED  BY <3>1, <3>2
  <2>2. CASE ReleaseBudget(p)
    <3>1. /\ StatusReleased(p) \in Status
          /\ StatusReleased(p) # "none" => grant[g].status # "none"
          /\ grant[g].status = "revoked" => StatusReleased(p) = "revoked"
          BY <1>1 DEF StatusReleased
    <3>2. Account(p, 0, StatusReleased(p))
          BY <2>2 DEF ReleaseBudget
    <3>. QED  BY <3>1, <3>2
  <2>. QED  BY <2>1, <2>2
<1>3. used \in Nat /\ used <= Amount[p]
      BY <1>1
<1>4. /\ grant' \in [Grant -> GrantRow]
      /\ usage' \in [Grant -> [Days -> [used : Nat, reserved : Nat]]]
      /\ \A f \in Grant : grant'[f].limits = grant[f].limits
      /\ \A f \in Grant : f # g => grant'[f] = grant[f]
      /\ grant'[g].status = st
      /\ grant'[g].used = grant[g].used + used
      /\ grant'[g].reserved = grant[g].reserved - Amount[p]
      BY <1>2, <1>3, AccountTyped
<1>5. grant'[g].used + grant'[g].reserved <= grant[g].used + grant[g].reserved
      BY <1>1, <1>3, <1>4
<1>6. \A f \in Grant : Committed(f)' <= Committed(f)
      BY <1>1, <1>4, <1>5 DEF Committed
<1>. QED  BY <1>2, <1>4, <1>6

(* The end of a reconciliation that has evidence. *)
LEMMA ResolveInv ==
    ASSUME Inv, NEW w \in Worker, CompleteSettled(w) \/ MarkUnpaid(w)
    PROVE  Inv'
<1> DEFINE p == worker[w].job
           c == [row[p] EXCEPT !.state = "settled", !.accounting = "settled", !.review = FALSE]
           m == [row[p] EXCEPT !.state = "unpaid_terminal", !.accounting = "released",
                               !.review = TRUE]
<1>0. /\ Typed /\ p \in Purchase /\ row[p] \in Reservation /\ row[p].state = "payment_submitted"
      /\ fate[p] = worker[w].evidence /\ row[p].nonce < final
      BY DEF Inv, Typed, TypeOK, Assigned, Verdicts, CompleteSettled, MarkUnpaid, SamePending
<1>1. IdleWorker \in WorkerState /\ IdleWorker.pc = "idle" /\ IdleWorker.evidence = "none"
      BY InitialValuesTyped DEF IdleWorker
<1>2. /\ SettleBudget(p) \/ ReleaseBudget(p)
      /\ Become(w, IdleWorker)
      /\ UNCHANGED <<now, bound, nextNonce, chain, identity>>
      BY DEF CompleteSettled, MarkUnpaid
<1>3. /\ c \in Reservation /\ c.state = "settled" /\ c.accounting = "settled"
      /\ c.send = row[p].send /\ c.nonce = row[p].nonce
      /\ c.grant = row[p].grant /\ c.at = row[p].at
      BY <1>0 DEF Reservation
<1>4. /\ m \in Reservation /\ m.state = "unpaid_terminal" /\ m.accounting = "released"
      /\ m.send = row[p].send /\ m.nonce = row[p].nonce
      /\ m.grant = row[p].grant /\ m.at = row[p].at
      BY <1>0 DEF Reservation
<1>5. \/ worker[w].evidence = "paid" /\ Update(p, c)
      \/ worker[w].evidence = "reverted" /\ Update(p, m)
      BY DEF CompleteSettled, MarkUnpaid
<1> HIDE DEF c, m
<1>6. PICK r \in Reservation :
          /\ Update(p, r)
          /\ r.send = row[p].send /\ r.nonce = row[p].nonce
          /\ r.grant = row[p].grant /\ r.at = row[p].at
          /\ \/ r.state = "settled" /\ r.accounting = "settled" /\ fate[p] = "paid"
             \/ r.state = "unpaid_terminal" /\ fate[p] = "reverted"
      BY <1>0, <1>3, <1>4, <1>5
<1>7. /\ grant' \in [Grant -> GrantRow]
      /\ usage' \in [Grant -> [Days -> [used : Nat, reserved : Nat]]]
      /\ \A g \in Grant : grant'[g].status # "none" => grant'[g].limits \in LimitRecord
      BY <1>0, <1>2, BudgetTyped DEF Typed, Assigned
<1>8. /\ row' \in [Purchase -> Reservation]
      /\ \A q \in Purchase :
            row'[q].state # "none" => row'[q].grant \in Grant /\ row'[q].at <= now
      BY <1>0, <1>6, UpdateTyped DEF Typed, Assigned
<1>9. /\ nextNonce' \in Nat
      /\ fate' \in [Purchase -> {"unsent", "pool", "dropped"} \cup Mined]
      /\ UNCHANGED <<now, bound, count, final, stopped, identity>>
      BY <1>0, <1>2 DEF Typed, TypeOK, chain
<1>10. Typed'
      BY <1>0, <1>1, <1>2, <1>7, <1>8, <1>9, WorkerStepTyped
<1>11. /\ r.state \notin {"none", "spending_reserved", "payment_submitted", "released"}
       /\ r.state = "settled" => fate[p] = "paid"
       /\ r.state # "finalized"
       /\ r.accounting = "settled" \/ fate[p] = "reverted"
       /\ r.state = "unpaid_terminal" => fate[p] = "reverted"
      BY <1>6
<1>. QED  BY <1>0, <1>1, <1>2, <1>6, <1>10, <1>11, QuietUpdate

LEMMA RowStepTyped ==
    ASSUME Typed, NEW p \in Purchase, NEW r \in Reservation, Update(p, r),
           r.state # "none" => r.grant \in Grant /\ r.at <= now,
           grant' \in [Grant -> GrantRow],
           \A g \in Grant : grant'[g].status # "none" => grant'[g].limits \in LimitRecord,
           usage' \in [Grant -> [Days -> [used : Nat, reserved : Nat]]],
           UNCHANGED <<now, bound, nextNonce, chain, identity, worker>>
    PROVE  Typed'
<1>1. TypeOK'
      BY UpdateTyped DEF Typed, TypeOK, chain
<1>2. Assigned'
      BY UpdateTyped DEF Typed, Assigned
<1>. QED  BY <1>1, <1>2 DEF Typed

LEMMA DeliveryInv ==
    ASSUME Inv, NEW p \in Purchase, FinalizeReservation(p) \/ ReleaseReservation(p)
    PROVE  Inv'
<1> DEFINE c == [row[p] EXCEPT !.state = "finalized"]
           m == [row[p] EXCEPT !.state = "released", !.accounting = "released"]
<1>0. /\ Typed /\ TypeOK /\ row[p] \in Reservation
      /\ UNCHANGED <<now, bound, nextNonce, chain, identity, worker>>
      BY DEF Inv, Typed, TypeOK, FinalizeReservation, ReleaseReservation
<1>1. /\ c \in Reservation /\ c.state = "finalized" /\ c.accounting = row[p].accounting
      /\ c.send = row[p].send /\ c.nonce = row[p].nonce
      /\ c.grant = row[p].grant /\ c.at = row[p].at
      BY <1>0 DEF Reservation
<1>2. /\ m \in Reservation /\ m.state = "released"
      /\ m.send = row[p].send /\ m.nonce = row[p].nonce
      /\ m.grant = row[p].grant /\ m.at = row[p].at
      BY <1>0 DEF Reservation
<1>3. \/ row[p].state = "settled" /\ Update(p, c) /\ UNCHANGED <<grant, usage>>
      \/ row[p].state = "spending_reserved" /\ Update(p, m) /\ ReleaseBudget(p)
      BY DEF FinalizeReservation, ReleaseReservation, Releasable
<1> HIDE DEF c, m
<1>4. PICK r \in Reservation :
          /\ Update(p, r)
          /\ r.send = row[p].send /\ r.nonce = row[p].nonce
          /\ r.grant = row[p].grant /\ r.at = row[p].at
          /\ \/ r.state = "finalized" /\ row[p].state = "settled" /\ r.accounting = row[p].accounting
             \/ r.state = "released" /\ row[p].state = "spending_reserved"
      BY <1>1, <1>2, <1>3
<1>5. /\ grant' \in [Grant -> GrantRow]
      /\ usage' \in [Grant -> [Days -> [used : Nat, reserved : Nat]]]
      /\ \A g \in Grant : grant'[g].status # "none" => grant'[g].limits \in LimitRecord
  <2>1. CASE ReleaseBudget(p) /\ row[p].state = "spending_reserved"
        BY <1>0, <2>1, BudgetTyped DEF Typed, Assigned
  <2>2. CASE UNCHANGED <<grant, usage>>
        BY <1>0, <2>2 DEF Typed, TypeOK, Assigned
  <2>. QED  BY <1>3, <2>1, <2>2
<1>6. r.grant \in Grant /\ r.at <= now
      BY <1>0, <1>4 DEF Typed, Assigned
<1>7. Typed'
      BY <1>0, <1>4, <1>5, <1>6, RowStepTyped
<1>8. row'[p] = r /\ \A q \in Purchase : q # p => row'[q] = row[q]
      BY <1>0, <1>4, UpdateTyped
<1>9. /\ row[p].state = "spending_reserved" => row[p].send = "none" /\ fate[p] = "unsent"
      /\ row[p].state = "settled" => fate[p] = "paid" /\ row[p].nonce < final
      /\ row[p].state = "settled" => row[p].accounting \in {"reserved", "settled"}
      BY DEF Inv, Sends, Unsent, Verdicts, VerdictMatchesChain
<1>10. UNCHANGED <<fate, nextNonce>> /\ final' = final /\ final \in Nat /\ worker' = worker
      BY <1>0 DEF chain, TypeOK
<1>11. final <= final'
      BY <1>10
<1>12. /\ r.state \in {"none", "spending_reserved", "released"} => row[p].send = "none"
       /\ fate[p] # "unsent" => r.accounting \in {"reserved", "settled"}
       /\ r.state \in {"settled", "finalized"} => fate[p] = "paid" /\ row[p].nonce < final
       /\ r.state \notin {"spending_reserved", "payment_submitted", "unpaid_terminal"}
      BY <1>4, <1>9
<1>. QED  BY <1>4, <1>7, <1>8, <1>10, <1>11, <1>12, QuietStep

(* Nobody has evidence about a transaction that was never sent. *)
LEMMA EvidenceIsSent ==
    ASSUME Inv, NEW p \in Purchase, fate[p] = "unsent"
    PROVE  /\ \A w \in Worker : worker[w].evidence # "none" => worker[w].job # p
           /\ row[p].state \notin {"settled", "finalized", "unpaid_terminal"}
<1>1. \A w \in Worker : worker[w].evidence # "unsent"
      BY DEF Inv, Typed, TypeOK, WorkerState
<1>. QED  BY <1>1 DEF Inv, Verdicts, VerdictMatchesChain

LEMMA SettleInv ==
    ASSUME Inv, NEW w \in Worker, NEW p \in Purchase, Settle(w, p)
    PROVE  Inv'
<1> DEFINE g == row[p].grant
           dl == Smaller(now + Lifetime, Expires[g])
           s == [IdleWorker EXCEPT !.pc = "broadcast", !.job = p]
<1>1. /\ Typed /\ TypeOK /\ row[p] \in Reservation /\ row[p].at <= now /\ g \in Grant
      /\ row[p].send = "none" /\ row[p].state = "spending_reserved"
      /\ row[p].accounting = "reserved"
      BY DEF Inv, Typed, TypeOK, Assigned, Sends, Verdicts, Settle
<1>2. PICK n \in {count} \cup {row[q].nonce + 1 : q \in Purchase} :
          /\ nextNonce' = AllocatedNonce(n) + 1
          /\ Update(p, [row[p] EXCEPT !.state = "payment_submitted", !.send = "pending",
                                      !.nonce = AllocatedNonce(n), !.started = now,
                                      !.deadline = dl])
      BY DEF Settle
<1> DEFINE k == AllocatedNonce(n)
           r == [row[p] EXCEPT !.state = "payment_submitted", !.send = "pending",
                               !.nonce = k, !.started = now, !.deadline = dl]
<1>3. k \in Nat /\ nextNonce \in Nat /\ nextNonce <= k
  <2>1. n \in Nat /\ nextNonce \in Nat
        BY <1>1 DEF TypeOK, Reservation
  <2>. QED  BY <2>1 DEF AllocatedNonce, Larger
<1>4. dl \in Nat /\ now \in Nat
  <2>1. now \in Nat /\ now + Lifetime \in Nat
        BY <1>1, FundingAssumption DEF TypeOK
  <2>2. Expires[g] \in Nat
        BY <1>1, FundingAssumption
  <2>. QED  BY <2>1, <2>2 DEF Smaller
<1>5. Become(w, s) /\ UNCHANGED <<now, grant, usage, bound, chain, identity>>
      BY DEF Settle
<1>6. s \in WorkerState /\ s.pc = "broadcast" /\ s.job = p /\ s.evidence = "none"
      BY DEF IdleWorker, WorkerState
<1> HIDE DEF k, dl, s
<1>7. /\ r \in Reservation /\ r.state = "payment_submitted" /\ r.grant = g /\ r.at = row[p].at
      /\ r.send = "pending" /\ r.nonce = k /\ r.accounting = "reserved"
      BY <1>1, <1>3, <1>4 DEF Reservation
<1>8. Update(p, r) /\ nextNonce' = k + 1 /\ nextNonce' \in Nat
      BY <1>2, <1>3 DEF k
<1> HIDE DEF r
<1>9. Typed'
      BY <1>1, <1>5, <1>6, <1>7, <1>8, RowAndWorkerTyped
<1>10. row'[p] = r /\ \A q \in Purchase : q # p => row'[q] = row[q]
      BY <1>1, <1>7, <1>8, UpdateTyped
<1>11. worker'[w] = s /\ \A v \in Worker : v # w => worker'[v] = worker[v]
      BY <1>1, <1>5, <1>6, BecomeTyped
<1>12. UNCHANGED <<fate, final>>
      BY <1>5 DEF chain
<1>13. Unsent(p)
      BY <1>1 DEF Inv, Sends
<1>14. Sends'
  <2>1. \A q \in Purchase :
            /\ row'[q].state \in {"none", "spending_reserved", "released"} => row'[q].send = "none"
            /\ row'[q].send \in {"none", "pending"} => Unsent(q)'
        BY <1>6, <1>7, <1>10, <1>11, <1>12, <1>13 DEF Inv, Sends, Unsent
  <2>2. \A v \in Worker : worker'[v].pc = "record" => worker'[v].outcome # "none"
        BY <1>6, <1>11 DEF Inv, Sends
  <2>3. SentOnce'
        BY <1>6, <1>11, <1>12 DEF Inv, Sends, SentOnce
  <2>. QED  BY <2>1, <2>2, <2>3 DEF Sends
<1>15. Nonces'
  <2>1. \A q \in Purchase : row[q].nonce \in Nat
        BY <1>1 DEF TypeOK, Reservation
  <2>2. \A q \in Purchase : row'[q].send # "none" => row'[q].nonce < nextNonce'
        BY <1>3, <1>7, <1>8, <1>10, <2>1 DEF Inv, Nonces
  <2>3. \A q \in Purchase : q # p /\ row[q].send # "none" => row[q].nonce # k
        BY <1>3, <2>1 DEF Inv, Nonces
  <2>4. NoncesDistinct'
        BY <1>7, <1>10, <2>3 DEF Inv, Nonces, NoncesDistinct
  <2>. QED  BY <2>2, <2>4 DEF Nonces
<1>16. Verdicts'
  <2>1. fate[p] = "unsent"
        BY <1>13 DEF Unsent
  <2>2. \A v \in Worker : worker[v].evidence # "none" => worker[v].job # p /\ worker[v].job \in Purchase
        BY <2>1, EvidenceIsSent DEF Inv, Verdicts, Typed, Assigned
  <2>3. \A v \in Worker :
            worker'[v].evidence # "none" =>
                /\ worker'[v].pc = "resolve"
                /\ fate'[worker'[v].job] = worker'[v].evidence
                /\ row'[worker'[v].job].nonce < final'
        BY <1>6, <1>10, <1>11, <1>12, <2>2 DEF Inv, Verdicts
  <2>4. VerdictMatchesChain'
        BY <1>7, <1>10, <1>12 DEF Inv, Verdicts, VerdictMatchesChain
  <2>. QED  BY <1>7, <1>10, <1>12, <2>1, <2>3, <2>4 DEF Inv, Verdicts
<1>. QED  BY <1>9, <1>14, <1>15, <1>16 DEF Inv

LEMMA ClaimInv ==
    ASSUME Inv, NEW w \in Worker, ClaimBroadcast(w)
    PROVE  Inv'
<1> DEFINE p == worker[w].job
           s == [worker[w] EXCEPT !.pc = "send"]
           r == [row[p] EXCEPT !.send = "broadcasting"]
<1>1. /\ Typed /\ TypeOK /\ p \in Purchase /\ row[p] \in Reservation
      /\ row[p].state = "payment_submitted" /\ row[p].send = "pending"
      /\ row[p].grant \in Grant /\ row[p].at <= now
      /\ worker[w].evidence = "none"
      BY DEF Inv, Typed, TypeOK, Assigned, Verdicts, ClaimBroadcast, Unclaimed
<1>2. Update(p, r) /\ Become(w, s) /\ UNCHANGED <<now, grant, usage, bound, nextNonce, chain, identity>>
      BY DEF ClaimBroadcast
<1>3. s \in WorkerState /\ s.pc = "send" /\ s.job = p /\ s.evidence = "none"
      BY <1>1, WorkerMoves
<1>4. /\ r \in Reservation /\ r.state = "payment_submitted" /\ r.send = "broadcasting"
      /\ r.grant = row[p].grant /\ r.at = row[p].at /\ r.nonce = row[p].nonce
      /\ r.accounting = row[p].accounting
      BY <1>1 DEF Reservation
<1> HIDE DEF s, r
<1>5. nextNonce' = nextNonce /\ nextNonce' \in Nat
      BY <1>1, <1>2 DEF TypeOK
<1>6. Typed'
      BY <1>1, <1>2, <1>3, <1>4, <1>5, RowAndWorkerTyped
<1>7. row'[p] = r /\ \A q \in Purchase : q # p => row'[q] = row[q]
      BY <1>1, <1>2, <1>4, UpdateTyped
<1>8. worker'[w] = s /\ \A v \in Worker : v # w => worker'[v] = worker[v]
      BY <1>1, <1>2, <1>3, BecomeTyped
<1>9. UNCHANGED <<fate, final>>
      BY <1>2 DEF chain
<1>10. Unsent(p)
      BY <1>1 DEF Inv, Sends
<1>11. Sends'
  <2>1. \A q \in Purchase :
            /\ row'[q].state \in {"none", "spending_reserved", "released"} => row'[q].send = "none"
            /\ row'[q].send \in {"none", "pending"} => Unsent(q)'
        BY <1>3, <1>4, <1>7, <1>8, <1>9 DEF Inv, Sends, Unsent
  <2>2. \A v \in Worker : worker'[v].pc = "record" => worker'[v].outcome # "none"
        BY <1>3, <1>8 DEF Inv, Sends
  <2>3. SentOnce'
        BY <1>3, <1>8, <1>9, <1>10 DEF Inv, Sends, SentOnce, Unsent
  <2>. QED  BY <2>1, <2>2, <2>3 DEF Sends
<1>12. Nonces'
      BY <1>1, <1>4, <1>5, <1>7 DEF Inv, Nonces, NoncesDistinct
<1>13. Verdicts'
  <2>1. \A q \in Purchase :
            /\ row'[q].state = row[q].state
            /\ row'[q].nonce = row[q].nonce
            /\ row'[q].accounting = row[q].accounting
        BY <1>1, <1>4, <1>7
  <2>2. \A v \in Worker :
            worker'[v].evidence # "none" =>
                worker'[v] = worker[v] /\ worker[v].pc # "idle" /\ worker[v].job \in Purchase
        BY <1>3, <1>8 DEF Inv, Verdicts, Typed, Assigned
  <2>3. VerdictMatchesChain'
        BY <1>9, <2>1 DEF Inv, Verdicts, VerdictMatchesChain
  <2>. QED  BY <1>9, <2>1, <2>2, <2>3 DEF Inv, Verdicts
<1>. QED  BY <1>6, <1>11, <1>12, <1>13 DEF Inv

LEMMA SendInv ==
    ASSUME Inv, NEW w \in Worker, NEW taken \in BOOLEAN,
           NEW outcome \in {"broadcasted", "ambiguous"}, Send(w, taken, outcome)
    PROVE  Inv'
<1> DEFINE p == worker[w].job
           s == [worker[w] EXCEPT !.pc = "record", !.outcome = outcome]
<1>1. /\ Typed /\ TypeOK /\ p \in Purchase /\ worker[w] \in WorkerState
      /\ worker[w].evidence = "none" /\ worker[w].pc = "send"
      BY DEF Inv, Typed, TypeOK, Assigned, Verdicts, Send
<1>2. /\ fate[p] = "unsent"
      /\ \A v \in Worker : v # w /\ worker[v].job = p => worker[v].pc # "send"
      /\ row[p].send \notin {"none", "pending"}
      BY <1>1 DEF Inv, Sends, SentOnce, Unsent
<1>3. row[p].accounting = "reserved"
  <2>1. row[p].state \notin {"settled", "finalized", "unpaid_terminal"}
        BY <1>1, <1>2, EvidenceIsSent
  <2>2. row[p].state \notin {"none", "released"}
        BY <1>1, <1>2 DEF Inv, Sends
  <2>3. row[p].state \in {"spending_reserved", "payment_submitted"}
        BY <1>1, <2>1, <2>2 DEF TypeOK, Reservation
  <2>. QED  BY <1>1, <2>3 DEF Inv, Verdicts
<1>4. Become(w, s) /\ UNCHANGED <<now, ledger, count, final, stopped, identity>>
      BY DEF Send
<1>5. s \in WorkerState /\ s.pc = "record" /\ s.job = p /\ s.evidence = "none" /\ s.outcome # "none"
      BY <1>1 DEF WorkerState
<1> HIDE DEF s
<1>6. /\ fate' \in [Purchase -> {"unsent", "pool", "dropped"} \cup Mined]
      /\ fate'[p] \in {"unsent", "pool"}
      /\ \A q \in Purchase : q # p => fate'[q] = fate[q]
      BY <1>1, <1>2 DEF Send, TypeOK
<1>7. Typed'
  <2>1. /\ row' \in [Purchase -> Reservation] /\ grant' \in [Grant -> GrantRow]
        /\ usage' \in [Grant -> [Days -> [used : Nat, reserved : Nat]]]
        /\ nextNonce' \in Nat
        /\ UNCHANGED <<now, bound, count, final, stopped, identity>>
        BY <1>1, <1>4 DEF TypeOK, ledger
  <2>2. /\ \A q \in Purchase :
              row'[q].state # "none" => row'[q].grant \in Grant /\ row'[q].at <= now
        /\ \A g \in Grant : grant'[g].status # "none" => grant'[g].limits \in LimitRecord
        BY <1>1, <1>4 DEF Typed, Assigned, ledger
  <2>. QED  BY <1>1, <1>4, <1>5, <1>6, <2>1, <2>2, WorkerStepTyped
<1>8. worker'[w] = s /\ \A v \in Worker : v # w => worker'[v] = worker[v]
      BY <1>1, <1>4, <1>5, BecomeTyped
<1>9. UNCHANGED <<row, nextNonce, final>>
      BY <1>4 DEF ledger
<1>10. Sends'
  <2>1. \A q \in Purchase :
            /\ row'[q].state \in {"none", "spending_reserved", "released"} => row'[q].send = "none"
            /\ row'[q].send \in {"none", "pending"} => Unsent(q)'
        BY <1>2, <1>5, <1>6, <1>8, <1>9 DEF Inv, Sends, Unsent
  <2>2. \A v \in Worker : worker'[v].pc = "record" => worker'[v].outcome # "none"
        BY <1>5, <1>8 DEF Inv, Sends
  <2>3. \A v \in Worker : worker'[v].pc = "send" =>
            v # w /\ worker'[v] = worker[v] /\ worker[v].job # p /\ worker[v].job \in Purchase
        BY <1>1, <1>2, <1>5, <1>8 DEF Typed, Assigned
  <2>4. SentOnce'
        BY <1>5, <1>6, <1>8, <2>3 DEF Inv, Sends, SentOnce
  <2>. QED  BY <2>1, <2>2, <2>4 DEF Sends
<1>11. Nonces'
      BY <1>9 DEF Inv, Nonces, NoncesDistinct
<1>12. Verdicts'
  <2>1. /\ \A v \in Worker : worker[v].evidence # "none" => worker[v].job # p /\ worker[v].job \in Purchase
        /\ row[p].state \notin {"settled", "finalized", "unpaid_terminal"}
        BY <1>1, <1>2, EvidenceIsSent DEF Inv, Verdicts, Typed, Assigned
  <2>2. \A v \in Worker :
            worker'[v].evidence # "none" =>
                /\ worker'[v].pc = "resolve"
                /\ fate'[worker'[v].job] = worker'[v].evidence
                /\ row'[worker'[v].job].nonce < final'
        BY <1>5, <1>6, <1>8, <1>9, <2>1 DEF Inv, Verdicts
  <2>3. VerdictMatchesChain'
        BY <1>6, <1>9, <2>1 DEF Inv, Verdicts, VerdictMatchesChain
  <2>. QED  BY <1>3, <1>6, <1>9, <2>2, <2>3 DEF Inv, Verdicts
<1>. QED  BY <1>7, <1>10, <1>11, <1>12 DEF Inv

LEMMA RecordInv ==
    ASSUME Inv, NEW w \in Worker, RecordBroadcast(w)
    PROVE  Inv'
<1> DEFINE p == worker[w].job
           s == [IdleWorker EXCEPT !.pc = "reconcile", !.job = p]
           r == IF row[p].state = "payment_submitted"
                THEN [row[p] EXCEPT !.send = worker[w].outcome] ELSE row[p]
<1>1. /\ Typed /\ TypeOK /\ p \in Purchase /\ row[p] \in Reservation /\ worker[w] \in WorkerState
      /\ worker[w].pc = "record"
      /\ worker[w].outcome \in {"broadcasted", "ambiguous"}
      /\ row[p].send \notin {"none", "pending"}
      BY DEF Inv, Typed, TypeOK, Assigned, Sends, Unsent, RecordBroadcast, WorkerState
<1>2. Become(w, s) /\ UNCHANGED <<now, grant, usage, bound, nextNonce, chain, identity>>
      BY DEF RecordBroadcast
<1>3. Update(p, r)
      BY <1>1 DEF RecordBroadcast, Update, TypeOK
<1>4. s \in WorkerState /\ s.pc = "reconcile" /\ s.job = p /\ s.evidence = "none"
      BY <1>1 DEF IdleWorker, WorkerState
<1>5. /\ r \in Reservation /\ r.state = row[p].state /\ r.send \notin {"none", "pending"}
      /\ r.grant = row[p].grant /\ r.at = row[p].at /\ r.nonce = row[p].nonce
      /\ r.accounting = row[p].accounting
      BY <1>1 DEF Reservation
<1> HIDE DEF s, r
<1>6. /\ nextNonce' = nextNonce /\ nextNonce' \in Nat
      /\ r.state # "none" => r.grant \in Grant /\ r.at <= now
      BY <1>1, <1>2, <1>5 DEF Typed, TypeOK, Assigned
<1>7. Typed'
      BY <1>1, <1>2, <1>3, <1>4, <1>5, <1>6, RowAndWorkerTyped
<1>8. row'[p] = r /\ \A q \in Purchase : q # p => row'[q] = row[q]
      BY <1>1, <1>3, <1>5, UpdateTyped
<1>9. worker'[w] = s /\ \A v \in Worker : v # w => worker'[v] = worker[v]
      BY <1>1, <1>2, <1>4, BecomeTyped
<1>10. UNCHANGED <<fate, final>>
      BY <1>2 DEF chain
<1>11. Sends'
  <2>1. row[p].state \notin {"none", "spending_reserved", "released"}
        BY <1>1 DEF Inv, Sends
  <2>2. \A q \in Purchase :
            /\ row'[q].state \in {"none", "spending_reserved", "released"} => row'[q].send = "none"
            /\ row'[q].send \in {"none", "pending"} => Unsent(q)'
        BY <1>4, <1>5, <1>8, <1>9, <1>10, <2>1 DEF Inv, Sends, Unsent
  <2>3. \A v \in Worker : worker'[v].pc = "record" => worker'[v].outcome # "none"
        BY <1>4, <1>9 DEF Inv, Sends
  <2>4. SentOnce'
        BY <1>4, <1>9, <1>10 DEF Inv, Sends, SentOnce
  <2>. QED  BY <2>2, <2>3, <2>4 DEF Sends
<1>12. Nonces'
      BY <1>1, <1>5, <1>6, <1>8 DEF Inv, Nonces, NoncesDistinct
<1>13. Verdicts'
  <2>1. \A q \in Purchase :
            /\ row'[q].state = row[q].state
            /\ row'[q].nonce = row[q].nonce
            /\ row'[q].accounting = row[q].accounting
        BY <1>1, <1>5, <1>8
  <2>2. \A v \in Worker :
            worker'[v].evidence # "none" =>
                worker'[v] = worker[v] /\ worker[v].pc # "idle" /\ worker[v].job \in Purchase
        BY <1>4, <1>9 DEF Inv, Verdicts, Typed, Assigned
  <2>3. VerdictMatchesChain'
        BY <1>10, <2>1 DEF Inv, Verdicts, VerdictMatchesChain
  <2>. QED  BY <1>10, <2>1, <2>2, <2>3 DEF Inv, Verdicts
<1>. QED  BY <1>7, <1>11, <1>12, <1>13 DEF Inv

LEMMA WorkerInv ==
    ASSUME Inv, NEW w \in Worker, WorkerStep(w)
    PROVE  Inv'
<1>1. CASE \E p \in Purchase : \/ \E g \in Grant : ReserveBegin(w, p, g)
                               \/ Recover(w, p)
                               \/ \E operator \in BOOLEAN : ReconcileBegin(w, p, operator)
      BY <1>1, WorkerBeginsInv
<1>2. CASE \E p \in Purchase : Settle(w, p)
      BY <1>2, SettleInv
<1>3. CASE Reserve(w)
      BY <1>3, ReserveInv
<1>4. CASE ReserveReplay(w) \/ BroadcastClaimed(w) \/ Verify(w) \/ VerifyFails(w) \/ Abandon(w)
      BY <1>4, WorkerWaitsInv
<1>5. CASE PinRail(w) \/ ReconcileLimit(w) \/ ReconcileAttempt(w) \/ StayPending(w)
      BY <1>5, DetailStepsInv
<1>6. CASE ClaimBroadcast(w)
      BY <1>6, ClaimInv
<1>7. CASE \E taken \in BOOLEAN, outcome \in {"broadcasted", "ambiguous"} : Send(w, taken, outcome)
      BY <1>7, SendInv
<1>8. CASE RecordBroadcast(w)
      BY <1>8, RecordInv
<1>9. CASE CompleteSettled(w) \/ MarkUnpaid(w)
      BY <1>9, ResolveInv
<1>. QED  BY <1>1, <1>2, <1>3, <1>4, <1>5, <1>6, <1>7, <1>8, <1>9 DEF WorkerStep

LEMMA InitInv == Init => Inv
<1> SUFFICES ASSUME Init
             PROVE  Inv
    OBVIOUS
<1>1. /\ NoReservation.state = "none" /\ NoReservation.send = "none"
      /\ IdleWorker.pc = "idle" /\ IdleWorker.evidence = "none"
      BY DEF NoReservation, IdleWorker
<1>2. Typed
      BY InitTyped
<1>3. Sends
      BY <1>1 DEF Init, Sends, Unsent, SentOnce
<1>4. Nonces
      BY <1>1 DEF Init, Nonces, NoncesDistinct
<1>5. Verdicts
      BY <1>1 DEF Init, Verdicts, VerdictMatchesChain
<1>. QED  BY <1>2, <1>3, <1>4, <1>5 DEF Inv

LEMMA StutterInv == Inv /\ UNCHANGED vars => Inv'
<1> SUFFICES ASSUME Inv, UNCHANGED vars
             PROVE  Inv'
    OBVIOUS
<1>1. UNCHANGED <<now, grant, usage, bound, row, nextNonce, worker>>
      BY DEF vars, ledger
<1>2. UNCHANGED <<fate, count, final, stopped, identity>>
      BY DEF vars, chain
<1>3. Typed'
      BY <1>1, <1>2 DEF Inv, Typed, TypeOK, Assigned
<1>4. final <= final'
      BY <1>2 DEF Inv, Typed, TypeOK
<1>. QED  BY <1>1, <1>2, <1>3, <1>4, QuietStep

LEMMA NextInv == Inv /\ [Next]_vars => Inv'
<1> SUFFICES ASSUME Inv, [Next]_vars
             PROVE  Inv'
    OBVIOUS
<1>1. CASE OwnerStep
      BY <1>1, OwnerInv
<1>2. CASE ChainStep \/ Tick
      BY <1>2, ChainInv
<1>3. CASE \E w \in Worker : WorkerStep(w)
      BY <1>3, WorkerInv
<1>4. CASE \E p \in Purchase : FinalizeReservation(p) \/ ReleaseReservation(p)
      BY <1>4, DeliveryInv
<1>5. CASE UNCHANGED vars
      BY <1>5, StutterInv
<1>. QED  BY <1>1, <1>2, <1>3, <1>4, <1>5 DEF Next

(* The inductive invariant holds: reservations, attempts, nonces and the   *)
(* chain stay in step through every interleaving of requests,       *)
(* chain and clock.                                                        *)
THEOREM FundingInvariant == Spec => []Inv
  BY InitInv, NextInv, PTL DEF Spec

(* Every variable keeps its type, so no budget column of the ledger ever   *)
(* goes below zero.                                                        *)
THEOREM FundingTypes == Spec => []TypeOK
<1>1. Inv => TypeOK
      BY DEF Inv, Typed
<1>. QED  BY <1>1, FundingInvariant, PTL

(* _broadcast_budget_attempt hands an attempt to the network once.         *)
THEOREM OneSend == Spec => []SentOnce
<1>1. Inv => SentOnce
      BY DEF Inv, Sends
<1>. QED  BY <1>1, FundingInvariant, PTL

(* allocate_relayer_nonce never gives a nonce to two attempts, whatever    *)
(* the node answers.                                                       *)
THEOREM NoSharedNonce == Spec => []NoncesDistinct
<1>1. Inv => NoncesDistinct
      BY DEF Inv, Nonces
<1>. QED  BY <1>1, FundingInvariant, PTL

(* A reservation is settled only if its transaction has paid for good, and *)
(* unpaid_terminal only if it has reverted for good, although the evidence *)
(* is used some time after it was read.                                    *)
THEOREM VerdictsAreFinal == Spec => []VerdictMatchesChain
<1>1. Inv => VerdictMatchesChain
      BY DEF Inv, Verdicts
<1>. QED  BY <1>1, FundingInvariant, PTL

(* No budget is given back for a transaction that can still pay or has     *)
(* paid.                                                                   *)
THEOREM PaidStaysHeld == Spec => []PaidIsHeld
<1>1. Inv => PaidIsHeld
      BY DEF Inv, Verdicts, PaidIsHeld
<1>. QED  BY <1>1, FundingInvariant, PTL

-----------------------------------------------------------------------------
(* The steps that change a spending grant. *)
LEMMA GrantChanges ==
    ASSUME Typed, [Next]_vars
    PROVE  \/ OwnerStep
           \/ \E w \in Worker : Reserve(w)
           \/ \E p \in Purchase : row[p].state # "none" /\ (SettleBudget(p) \/ ReleaseBudget(p))
           \/ grant' = grant
<1>1. ASSUME NEW w \in Worker, CompleteSettled(w) \/ MarkUnpaid(w)
      PROVE  \E p \in Purchase : row[p].state # "none" /\ (SettleBudget(p) \/ ReleaseBudget(p))
  <2>1. worker[w].job \in Purchase /\ row[worker[w].job].state # "none"
        BY <1>1 DEF CompleteSettled, MarkUnpaid, SamePending, Typed, Assigned
  <2>2. SettleBudget(worker[w].job) \/ ReleaseBudget(worker[w].job)
        BY <1>1 DEF CompleteSettled, MarkUnpaid
  <2>. QED  BY <2>1, <2>2
<1>2. ASSUME NEW p \in Purchase, ReleaseReservation(p)
      PROVE  row[p].state # "none" /\ ReleaseBudget(p)
      BY <1>2 DEF ReleaseReservation, Releasable
<1>3. ASSUME NEW p \in Purchase, FinalizeReservation(p)
      PROVE  grant' = grant
      BY <1>3 DEF FinalizeReservation
<1>4. ASSUME NEW w \in Worker, NEW p \in Purchase,
             \/ \E g \in Grant : ReserveBegin(w, p, g)
             \/ Settle(w, p) \/ Recover(w, p)
             \/ \E operator \in BOOLEAN : ReconcileBegin(w, p, operator)
      PROVE  grant' = grant
      BY <1>4 DEF ReserveBegin, Settle, Recover, ReconcileBegin, ledger
<1>5. ASSUME NEW w \in Worker,
             \/ ReserveReplay(w) \/ PinRail(w) \/ ClaimBroadcast(w) \/ BroadcastClaimed(w)
             \/ \E taken \in BOOLEAN, outcome \in {"broadcasted", "ambiguous"} :
                   Send(w, taken, outcome)
             \/ RecordBroadcast(w) \/ ReconcileLimit(w) \/ ReconcileAttempt(w)
             \/ Verify(w) \/ VerifyFails(w) \/ StayPending(w) \/ Abandon(w)
      PROVE  grant' = grant
      BY <1>5 DEF ReserveReplay, PinRail, ClaimBroadcast, BroadcastClaimed, Send, RecordBroadcast,
                  ReconcileLimit, ReconcileAttempt, Verify, VerifyFails, StayPending, Abandon, ledger
<1>6. CASE ChainStep \/ Tick \/ UNCHANGED vars
      BY <1>6 DEF ChainStep, Tick, Mine, Reorganise, Drop, BecomeFinal, RevokeOnChain, vars, ledger
<1>7. ASSUME NEW w \in Worker, WorkerStep(w)
      PROVE  \/ Reserve(w)
             \/ \E p \in Purchase : row[p].state # "none" /\ (SettleBudget(p) \/ ReleaseBudget(p))
             \/ grant' = grant
      BY <1>1, <1>4, <1>5, <1>7 DEF WorkerStep
<1>. QED  BY <1>2, <1>3, <1>6, <1>7 DEF Next

(* What the owner's steps do to what is used and reserved, to the total    *)
(* and to revoked grants.                                                  *)
LEMMA OwnerKeepsTotal ==
    ASSUME Typed, CommittedWithinTotal, OwnerStep
    PROVE  /\ CommittedWithinTotal'
           /\ \A g \in Grant : grant[g].status = "revoked" => grant'[g].status = "revoked"
<1> DEFINE Goal == /\ CommittedWithinTotal'
                   /\ \A g \in Grant : grant[g].status = "revoked" => grant'[g].status = "revoked"
<1>0. TypeOK
      BY DEF Typed
<1>1. ASSUME NEW gs \in SUBSET {g \in Grant : grant[g].status # "none"},
             NEW st \in {"active", "paused", "security_paused", "exhausted", "expired", "revoked"},
             SetStatus(gs, st),
             st = "revoked" \/ \A g \in gs : grant[g].status # "revoked"
      PROVE  Goal
      BY <1>0, <1>1, SetStatusTyped DEF CommittedWithinTotal, Committed
<1>2. ASSUME NEW g \in Grant, NEW l \in Limits, CreateGrant(g, l)
      PROVE  Goal
  <2> DEFINE n == [NewGrant EXCEPT !.status = "active", !.limits = l]
  <2>1. n.limits = l /\ l.max \in Nat /\ n.used = 0 /\ n.reserved = 0
        BY FundingAssumption DEF NewGrant, LimitRecord
  <2>2. \A f \in Grant : /\ [grant[f] EXCEPT !.status = "revoked"].limits = grant[f].limits
                         /\ [grant[f] EXCEPT !.status = "revoked"].used = grant[f].used
                         /\ [grant[f] EXCEPT !.status = "revoked"].reserved = grant[f].reserved
                         /\ [grant[f] EXCEPT !.status = "revoked"].status = "revoked"
        BY <1>0 DEF TypeOK, GrantRow
  <2>3. /\ grant' = [f \in Grant |->
                       IF f = g THEN n
                       ELSE IF f \in Overlapping(g) THEN [grant[f] EXCEPT !.status = "revoked"]
                       ELSE grant[f]]
        /\ grant[g].status = "none"
        BY <1>2 DEF CreateGrant
  <2> HIDE DEF n
  <2>4. \A f \in Overlapping(g) : f \in Grant /\ grant[f].status # "none"
        BY DEF Overlapping
  <2>5. grant'[g].used + grant'[g].reserved <= grant'[g].limits.max
        BY <2>1, <2>3
  <2>6. \A f \in Grant : f # g =>
            /\ grant'[f].limits = grant[f].limits
            /\ grant'[f].used = grant[f].used
            /\ grant'[f].reserved = grant[f].reserved
            /\ grant'[f].status # "none" => grant[f].status # "none"
            /\ grant[f].status = "revoked" => grant'[f].status = "revoked"
        BY <2>2, <2>3, <2>4
  <2>. QED  BY <2>3, <2>5, <2>6 DEF CommittedWithinTotal, Committed
<1>3. ASSUME NEW g \in Grant, NEW l \in Limits, ReduceGrant(g, l) \/ AmendGrant(g, l)
      PROVE  Goal
  <2>1. grant' = [grant EXCEPT ![g].limits = l] /\ Committed(g) <= l.max
        BY <1>3 DEF ReduceGrant, AmendGrant
  <2>. QED  BY <2>1, LimitsTyped DEF CommittedWithinTotal, Committed
<1>4. ASSUME NEW g \in Grant, PauseGrant(g)
      PROVE  Goal
  <2> DEFINE gs == {g} \cap {f \in Grant : grant[f].status = "active"}
  <2>1. /\ gs \in SUBSET {f \in Grant : grant[f].status # "none"}
        /\ \A f \in gs : grant[f].status # "revoked"
        OBVIOUS
  <2>2. SetStatus(gs, "paused")
        BY <1>4 DEF PauseGrant
  <2> HIDE DEF gs
  <2>. QED  BY <1>1, <2>1, <2>2
<1>5. ASSUME NEW g \in Grant, ResumeGrant(g) \/ ExpireGrant(g) \/ RevokeGrant(g)
      PROVE  Goal
  <2>1. PICK st \in {"active", "expired", "revoked"} :
            /\ SetStatus({g}, st)
            /\ grant[g].status # "none"
            /\ st = "revoked" \/ grant[g].status # "revoked"
        BY <1>5 DEF ResumeGrant, ExpireGrant, RevokeGrant
  <2>2. {g} \in SUBSET {f \in Grant : grant[f].status # "none"}
        BY <2>1
  <2>. QED  BY <1>1, <2>1, <2>2
<1>6. ASSUME NEW g \in Grant, BindGrant(g)
      PROVE  Goal
      BY <1>6 DEF BindGrant, CommittedWithinTotal, Committed
<1>7. ASSUME RevokeIdentity
      PROVE  Goal
  <2> DEFINE gs == {g \in Grant : grant[g].status = "active"}
  <2>1. /\ gs \in SUBSET {f \in Grant : grant[f].status # "none"}
        /\ \A f \in gs : grant[f].status # "revoked"
        OBVIOUS
  <2>2. SetStatus(gs, "security_paused")
        BY <1>7 DEF RevokeIdentity
  <2> HIDE DEF gs
  <2>. QED  BY <1>1, <2>1, <2>2
<1>8. ASSUME NEW st \in {"suspended", "revoked"}, EndIdentity(st)
      PROVE  Goal
  <2> DEFINE gs == {g \in Grant : grant[g].status \in {"active", "paused", "security_paused"}}
  <2>1. gs \in SUBSET {f \in Grant : grant[f].status # "none"}
        OBVIOUS
  <2>2. SetStatus(gs, "revoked")
        BY <1>8 DEF EndIdentity
  <2> HIDE DEF gs
  <2>. QED  BY <1>1, <2>1, <2>2
<1>. QED  BY <1>2, <1>3, <1>4, <1>5, <1>6, <1>7, <1>8
          DEF OwnerStep, PrepareDisconnect, DisconnectWallet

LEMMA StepKeepsTotal ==
    ASSUME Typed, CommittedWithinTotal, [Next]_vars
    PROVE  /\ CommittedWithinTotal'
           /\ \A g \in Grant : grant[g].status = "revoked" => grant'[g].status = "revoked"
<1> DEFINE Goal == /\ CommittedWithinTotal'
                   /\ \A g \in Grant : grant[g].status = "revoked" => grant'[g].status = "revoked"
<1>0. \A g \in Grant : /\ grant[g].used \in Nat /\ grant[g].reserved \in Nat
                       /\ grant[g].status # "none" => grant[g].limits.max \in Nat
      BY DEF Typed, TypeOK, Assigned, GrantRow, LimitRecord
<1>1. CASE OwnerStep
      BY <1>1, OwnerKeepsTotal
<1>2. ASSUME NEW w \in Worker, Reserve(w)
      PROVE  Goal
  <2> DEFINE g == worker[w].grant
             a == Amount[worker[w].job]
  <2>1. grant[g].used + grant[g].reserved + a <= grant[g].limits.max
        BY <1>2 DEF Reserve, MayReserve, Eligible, FitsTotal, Committed
  <2>2. /\ g \in Grant /\ a \in Nat
        /\ \A f \in Grant :
              /\ grant'[f].status = grant[f].status
              /\ grant'[f].limits = grant[f].limits
              /\ grant'[f].used = grant[f].used
              /\ grant'[f].reserved = IF f = g THEN grant[f].reserved + a ELSE grant[f].reserved
        BY <1>2, ReserveTyped
  <2>3. grant[g].used + (grant[g].reserved + a) <= grant[g].limits.max
        BY <1>0, <2>1, <2>2
  <2>. QED  BY <2>2, <2>3 DEF CommittedWithinTotal, Committed
<1>3. ASSUME NEW p \in Purchase, row[p].state # "none", SettleBudget(p) \/ ReleaseBudget(p)
      PROVE  Goal
  <2>1. \A g \in Grant :
           /\ grant'[g].limits = grant[g].limits
           /\ Committed(g)' <= Committed(g)
           /\ grant'[g].status # "none" => grant[g].status # "none"
           /\ grant[g].status = "revoked" => grant'[g].status = "revoked"
        BY <1>3, BudgetTyped
  <2>2. \A g \in Grant : grant'[g].used \in Nat /\ grant'[g].reserved \in Nat
        BY <1>3, BudgetTyped DEF GrantRow
  <2>3. \A g \in Grant : Committed(g) \in Nat /\ Committed(g)' \in Nat
        BY <1>0, <2>2 DEF Committed
  <2>4. ASSUME NEW g \in Grant, grant'[g].status # "none"
        PROVE  Committed(g)' <= grant'[g].limits.max
        BY <1>0, <2>1, <2>3, <2>4 DEF CommittedWithinTotal
  <2>. QED  BY <2>1, <2>4 DEF CommittedWithinTotal
<1>4. CASE grant' = grant
      BY <1>4 DEF CommittedWithinTotal, Committed
<1>. QED  BY <1>1, <1>2, <1>3, <1>4, GrantChanges

(* What is used and reserved under a grant never exceeds its total,        *)
(* whatever reserve_unified_budget, settle_unified_budget,                 *)
(* release_unified_budget, reductions and amendments interleave.           *)
THEOREM TotalHolds == Spec => []CommittedWithinTotal
<1>1. Init => CommittedWithinTotal
      BY InitialValuesTyped DEF Init, CommittedWithinTotal
<1>2. Inv /\ CommittedWithinTotal /\ [Next]_vars => CommittedWithinTotal'
      BY StepKeepsTotal DEF Inv
<1>. QED  BY <1>1, <1>2, FundingInvariant, PTL DEF Spec

(* A reservation that a step claims for sending is under a grant that was  *)
(* active.                                                                 *)
LEMMA ClaimsAreActive ==
    ASSUME Typed, Next, NEW p \in Purchase,
           row'[p].send = "broadcasting", row[p].send # "broadcasting"
    PROVE  row'[p].grant = row[p].grant /\ grant[row[p].grant].status = "active"
<1>0. TypeOK /\ row \in [Purchase -> Reservation] /\ worker \in [Worker -> WorkerState]
      BY DEF Typed, TypeOK
<1>1. row' # row
      OBVIOUS
<1>2. ASSUME NEW q \in Purchase, NEW r, Update(q, r), r.send # "broadcasting" \/ r.send = row[q].send
      PROVE  FALSE
      BY <1>0, <1>2 DEF Update
<1>3. ASSUME NEW w \in Worker, ClaimBroadcast(w)
      PROVE  row'[p].grant = row[p].grant /\ grant[row[p].grant].status = "active"
  <2> DEFINE q == worker[w].job
  <2>1. /\ q \in Purchase /\ row' = [row EXCEPT ![q] = [row[q] EXCEPT !.send = "broadcasting"]]
        /\ grant[row[q].grant].status = "active"
        BY <1>3 DEF ClaimBroadcast, Update, LifecycleValid, Typed, Assigned
  <2>2. p = q
        BY <1>0, <2>1
  <2>3. [row[q] EXCEPT !.send = "broadcasting"].grant = row[q].grant
        BY <1>0, <2>1 DEF Reservation
  <2>4. row'[q] = [row[q] EXCEPT !.send = "broadcasting"]
        BY <1>0, <2>1
  <2>. QED  BY <2>1, <2>2, <2>3, <2>4
<1>4. ASSUME NEW w \in Worker, worker[w].pc # "idle"
      PROVE  worker[w].job \in Purchase
      BY <1>4 DEF Typed, Assigned
<1>5. ASSUME NEW q \in Purchase
      PROVE  row[q] \in Reservation
      BY <1>0
<1>6. ~OwnerStep
      BY <1>1 DEF OwnerStep, CreateGrant, ReduceGrant, AmendGrant, PauseGrant, ResumeGrant,
                  RevokeGrant, ExpireGrant, BindGrant, RevokeIdentity, PrepareDisconnect,
                  DisconnectWallet, EndIdentity
<1>7. ~(ChainStep \/ Tick)
      BY <1>1 DEF ChainStep, Tick, Mine, Reorganise, Drop, BecomeFinal, RevokeOnChain, ledger
<1>8. ASSUME NEW q \in Purchase
      PROVE  ~FinalizeReservation(q) /\ ~ReleaseReservation(q)
  <2>1. /\ [row[q] EXCEPT !.state = "finalized"].send = row[q].send
        /\ [row[q] EXCEPT !.state = "released", !.accounting = "released"].send = row[q].send
        BY <1>5 DEF Reservation
  <2>. QED  BY <1>2, <2>1 DEF FinalizeReservation, ReleaseReservation
<1>9. ASSUME NEW w \in Worker, WorkerStep(w)
      PROVE  ClaimBroadcast(w)
  <2>1. ASSUME NEW q \in Purchase
        PROVE  ~\/ \E g \in Grant : ReserveBegin(w, q, g)
                \/ Recover(w, q)
                \/ \E operator \in BOOLEAN : ReconcileBegin(w, q, operator)
        BY <1>1 DEF ReserveBegin, Recover, ReconcileBegin, ledger
  <2>2. ~(ReserveReplay(w) \/ BroadcastClaimed(w) \/ Verify(w) \/ VerifyFails(w) \/ Abandon(w))
        BY <1>1 DEF ReserveReplay, BroadcastClaimed, Verify, VerifyFails, Abandon, ledger
  <2>3. ASSUME NEW taken \in BOOLEAN, NEW outcome \in {"broadcasted", "ambiguous"}
        PROVE  ~Send(w, taken, outcome)
        BY <1>1 DEF Send, ledger
  <2>4. ASSUME NEW q \in Purchase
        PROVE  ~Settle(w, q)
    <3>1. \A k, t, d : [row[q] EXCEPT !.state = "payment_submitted", !.send = "pending",
                                      !.nonce = k, !.started = t, !.deadline = d].send = "pending"
          BY <1>5 DEF Reservation
    <3>. QED  BY <1>2, <3>1 DEF Settle
  <2>5. ~Reserve(w)
    <3>1. \A g, t : [NoReservation EXCEPT !.state = "spending_reserved", !.grant = g,
                                          !.accounting = "reserved", !.at = t].send = "none"
          BY DEF NoReservation
    <3>. QED  BY <1>2, <1>4, <3>1 DEF Reserve
  <2> DEFINE q == worker[w].job
  <2>6. worker[w].pc # "idle" =>
            /\ [row[q] EXCEPT !.rail = TRUE].send = row[q].send
            /\ \A b : [row[q] EXCEPT !.review = b].send = row[q].send
            /\ [row[q] EXCEPT !.attempts = @ + 1].send = row[q].send
            /\ [row[q] EXCEPT !.state = "settled", !.accounting = "settled",
                              !.review = FALSE].send = row[q].send
            /\ [row[q] EXCEPT !.state = "unpaid_terminal", !.accounting = "released",
                              !.review = TRUE].send = row[q].send
            /\ [row[q] EXCEPT !.send = worker[w].outcome].send # "broadcasting"
        BY <1>0, <1>4, <1>5 DEF Reservation, WorkerState
  <2>7. ~PinRail(w)
        BY <1>2, <1>4, <2>6 DEF PinRail
  <2>8. ~ReconcileLimit(w) /\ ~StayPending(w)
        BY <1>2, <1>4, <2>6 DEF ReconcileLimit, StayPending
  <2>9. ~ReconcileAttempt(w)
        BY <1>2, <1>4, <2>6 DEF ReconcileAttempt
  <2>10. ~CompleteSettled(w) /\ ~MarkUnpaid(w)
        BY <1>2, <1>4, <2>6 DEF CompleteSettled, MarkUnpaid
  <2>11. ~RecordBroadcast(w)
        BY <1>1, <1>2, <1>4, <2>6 DEF RecordBroadcast
  <2>. QED  BY <1>9, <2>1, <2>2, <2>3, <2>4, <2>5, <2>7, <2>8, <2>9, <2>10, <2>11 DEF WorkerStep
<1>. QED  BY <1>3, <1>6, <1>7, <1>8, <1>9 DEF Next

(* revoke_spending_grant is final: settling and releasing budget, resuming *)
(* and expiry leave a revoked grant revoked, and no attempt under it is    *)
(* claimed for sending any more.                                           *)
THEOREM Revoked == Spec => RevokedIsFinal
<1> DEFINE Step == \A g \in Grant :
                      grant[g].status = "revoked" =>
                          /\ grant'[g].status = "revoked"
                          /\ \A p \in Purchase :
                                row'[p].grant = g /\ row'[p].send = "broadcasting"
                                    => row[p].send = "broadcasting"
<1>1. Inv /\ CommittedWithinTotal /\ [Next]_vars => [Step]_vars
      BY StepKeepsTotal, ClaimsAreActive DEF Inv
<1>. QED  BY <1>1, FundingInvariant, TotalHolds, PTL DEF Spec, RevokedIsFinal

-----------------------------------------------------------------------------
(* BudgetFunding implements HeldPayment.  The budget column follows the    *)
(* state of the reservation.                                               *)
Booked ==
    \A p \in Purchase :
        /\ row[p].state = "none" => row[p].accounting = "none"
        /\ row[p].accounting = "settled" => row[p].state \in {"settled", "finalized"}

(* Every step is one of HeldPayment or leaves budget and money alone. *)
Kept == Booked' /\ (Promise!Next \/ UNCHANGED <<Budget, Money>>)

LEMMA NothingMoves ==
    ASSUME Booked, UNCHANGED <<row, fate>>
    PROVE  Kept
  BY DEF Booked, Kept, Budget, Money

LEMMA BudgetStays ==
    ASSUME TypeOK, Booked, NEW p \in Purchase, NEW r \in Reservation, Update(p, r),
           fate' = fate, r.accounting = row[p].accounting,
           r.state = "none" => row[p].state = "none",
           row[p].state \in {"settled", "finalized"} => r.state \in {"settled", "finalized"}
    PROVE  Kept
<1>1. row'[p] = r /\ \A q \in Purchase : q # p => row'[q] = row[q]
      BY UpdateTyped
<1>2. Booked'
      BY <1>1 DEF Booked
<1>3. \A q \in Purchase : row'[q].accounting = row[q].accounting
      BY <1>1
<1>4. Budget' = Budget
      BY <1>3 DEF Budget
<1>5. Money' = Money
      BY DEF Money
<1>. QED  BY <1>2, <1>4, <1>5 DEF Kept

LEMMA BudgetMoves ==
    ASSUME TypeOK, Booked, NEW p \in Purchase, NEW r \in Reservation, Update(p, r),
           fate' = fate, r.state # "none",
           r.accounting = "settled" => r.state \in {"settled", "finalized"},
           \/ row[p].accounting = "none" /\ r.accounting = "reserved"
           \/ row[p].accounting = "reserved" /\ r.accounting = "settled" /\ fate[p] = "paid"
           \/ /\ row[p].accounting = "reserved" /\ r.accounting = "released"
              /\ fate[p] \notin {"pool", "paid"}
    PROVE  Kept
<1>1. row'[p] = r /\ \A q \in Purchase : q # p => row'[q] = row[q]
      BY UpdateTyped
<1>2. Booked'
      BY <1>1 DEF Booked
<1>3. Budget' = [Budget EXCEPT ![p] = r.accounting] /\ Budget[p] = row[p].accounting
      BY <1>1 DEF Budget
<1>4. Money' = Money
      BY DEF Money
<1>5. fate[p] = "paid" => Money[p] = "moved"
      BY DEF Money
<1>6. fate[p] \notin {"pool", "paid"} => Money[p] = "idle"
      BY DEF Money
<1>7. CASE row[p].accounting = "none" /\ r.accounting = "reserved"
      BY <1>2, <1>3, <1>4, <1>7 DEF Kept, Promise!Next, Promise!Reserve
<1>8. CASE row[p].accounting = "reserved" /\ r.accounting = "settled" /\ fate[p] = "paid"
      BY <1>2, <1>3, <1>4, <1>5, <1>8 DEF Kept, Promise!Next, Promise!Settle
<1>9. CASE /\ row[p].accounting = "reserved" /\ r.accounting = "released"
           /\ fate[p] \notin {"pool", "paid"}
      BY <1>2, <1>3, <1>4, <1>6, <1>9 DEF Kept, Promise!Next, Promise!Release
<1>. QED  BY <1>7, <1>8, <1>9

LEMMA MoneyMoves ==
    ASSUME TypeOK, Booked, NEW p \in Purchase, NEW f, fate' = [fate EXCEPT ![p] = f],
           row' = row, row[p].accounting = "reserved",
           \/ fate[p] = "pool" /\ f \in {"paid", "reverted", "dropped"}
           \/ fate[p] # "pool" /\ f = "pool"
    PROVE  Kept
<1>1. fate'[p] = f /\ \A q \in Purchase : q # p => fate'[q] = fate[q]
      BY DEF TypeOK
<1>2. Booked' /\ Budget' = Budget /\ Budget[p] = "reserved"
      BY DEF Booked, Budget
<1>3. CASE fate[p] = "pool" /\ f = "paid"
  <2>1. Money[p] = "sent" /\ Money' = [Money EXCEPT ![p] = "moved"]
        BY <1>1, <1>3 DEF Money
  <2>. QED  BY <1>2, <2>1 DEF Kept, Promise!Next, Promise!Move
<1>4. CASE fate[p] = "pool" /\ f \in {"reverted", "dropped"}
  <2>1. Money[p] = "sent" /\ Money' = [Money EXCEPT ![p] = "idle"]
        BY <1>1, <1>4 DEF Money
  <2>. QED  BY <1>2, <2>1 DEF Kept, Promise!Next, Promise!Fail
<1>5. CASE fate[p] # "pool" /\ f = "pool"
  <2>1. Money[p] # "sent" /\ Money' = [Money EXCEPT ![p] = "sent"]
        BY <1>1, <1>5 DEF Money
  <2>. QED  BY <1>2, <2>1 DEF Kept, Promise!Next, Promise!Undo
<1>. QED  BY <1>3, <1>4, <1>5

LEMMA OwnerKeeps ==
    ASSUME Inv, Booked, OwnerStep
    PROVE  Kept
<1>1. UNCHANGED <<row, chain>>
      BY DEF OwnerStep, CreateGrant, ReduceGrant, AmendGrant, PauseGrant, ResumeGrant, RevokeGrant,
             ExpireGrant, BindGrant, RevokeIdentity, PrepareDisconnect, DisconnectWallet,
             EndIdentity
<1>2. UNCHANGED <<row, fate>>
      BY <1>1 DEF chain
<1>. QED  BY <1>2, NothingMoves

(* A purchase whose transaction was handed to the network and whose fate   *)
(* is open has its budget reserved.                                        *)
LEMMA OpenIsReserved ==
    ASSUME Inv, Booked, NEW p \in Purchase,
           fate[p] # "unsent", ~(fate[p] \in Mined /\ row[p].nonce < final)
    PROVE  row[p].accounting = "reserved"
<1>1. row[p].accounting \in {"reserved", "settled"}
      BY DEF Inv, Verdicts, Mined
<1>2. row[p].state \notin {"settled", "finalized"}
      BY DEF Inv, Verdicts, VerdictMatchesChain, Mined
<1>. QED  BY <1>1, <1>2 DEF Booked

LEMMA ChainKeeps ==
    ASSUME Inv, Booked, ChainStep \/ Tick
    PROVE  Kept
<1>0. TypeOK
      BY DEF Inv, Typed
<1>1. ASSUME NEW p \in Purchase, NEW verdict \in Mined, Mine(p, verdict)
      PROVE  Kept
  <2>1. fate[p] = "pool" /\ verdict \in {"paid", "reverted", "dropped"}
        BY <1>1 DEF Mine, Mined
  <2>2. row[p].accounting = "reserved"
        BY <2>1, OpenIsReserved DEF Mined
  <2>3. fate' = [fate EXCEPT ![p] = verdict] /\ row' = row
        BY <1>1 DEF Mine, ledger
  <2>. QED  BY <1>0, <2>1, <2>2, <2>3, MoneyMoves
<1>2. ASSUME NEW p \in Purchase, Reorganise(p)
      PROVE  Kept
  <2>1. fate[p] # "pool" /\ fate[p] # "unsent" /\ ~(fate[p] \in Mined /\ row[p].nonce < final)
        BY <1>0, <1>2 DEF Reorganise, Mined, TypeOK, Reservation
  <2>2. row[p].accounting = "reserved"
        BY <2>1, OpenIsReserved
  <2>3. fate' = [fate EXCEPT ![p] = "pool"] /\ row' = row
        BY <1>2 DEF Reorganise, ledger
  <2>. QED  BY <1>0, <2>1, <2>2, <2>3, MoneyMoves
<1>3. ASSUME NEW p \in Purchase, Drop(p)
      PROVE  Kept
  <2>1. fate[p] = "pool"
        BY <1>3 DEF Drop
  <2>2. row[p].accounting = "reserved"
        BY <2>1, OpenIsReserved DEF Mined
  <2>3. fate' = [fate EXCEPT ![p] = "dropped"] /\ row' = row
        BY <1>3 DEF Drop, ledger
  <2>. QED  BY <1>0, <2>1, <2>2, <2>3, MoneyMoves
<1>4. CASE BecomeFinal \/ Tick
  <2>1. UNCHANGED <<row, fate>>
        BY <1>4 DEF BecomeFinal, Tick, ledger, chain
  <2>. QED  BY <2>1, NothingMoves
<1>5. ASSUME NEW g \in Grant, RevokeOnChain(g)
      PROVE  Kept
  <2>1. UNCHANGED <<row, fate>>
        BY <1>5 DEF RevokeOnChain, ledger
  <2>. QED  BY <2>1, NothingMoves
<1>. QED  BY <1>1, <1>2, <1>3, <1>4, <1>5 DEF ChainStep

(* Steps of a worker that touch neither a reservation nor the chain. *)
LEMMA WaitingKeeps ==
    ASSUME Inv, Booked, NEW w \in Worker,
           \/ \E p \in Purchase : \/ \E g \in Grant : ReserveBegin(w, p, g)
                                  \/ Recover(w, p)
                                  \/ \E operator \in BOOLEAN : ReconcileBegin(w, p, operator)
           \/ ReserveReplay(w) \/ BroadcastClaimed(w) \/ Verify(w) \/ VerifyFails(w) \/ Abandon(w)
    PROVE  Kept
<1>1. UNCHANGED <<ledger, chain>>
      BY DEF ReserveBegin, Recover, ReconcileBegin, ReserveReplay, BroadcastClaimed, Verify,
             VerifyFails, Abandon
<1>2. UNCHANGED <<row, fate>>
      BY <1>1 DEF ledger, chain
<1>. QED  BY <1>2, NothingMoves

(* Steps that write a reservation and leave its accounting alone. *)
LEMMA DetailsKeep ==
    ASSUME Inv, Booked, NEW w \in Worker,
           \/ PinRail(w) \/ ReconcileLimit(w) \/ ReconcileAttempt(w) \/ StayPending(w)
           \/ ClaimBroadcast(w) \/ RecordBroadcast(w) \/ \E p \in Purchase : Settle(w, p)
    PROVE  Kept
<1>0. TypeOK
      BY DEF Inv, Typed
<1>1. ASSUME NEW p \in Purchase, NEW r \in Reservation, Update(p, r), UNCHANGED chain,
             r.accounting = row[p].accounting,
             \/ r.state = row[p].state
             \/ row[p].state = "spending_reserved" /\ r.state = "payment_submitted"
      PROVE  Kept
  <2>1. fate' = fate
        BY <1>1 DEF chain
  <2>2. /\ r.state = "none" => row[p].state = "none"
        /\ row[p].state \in {"settled", "finalized"} => r.state \in {"settled", "finalized"}
        BY <1>1
  <2>. QED  BY <1>0, <1>1, <2>1, <2>2, BudgetStays
<1> DEFINE p == worker[w].job
<1>2. CASE PinRail(w) \/ ReconcileLimit(w) \/ ReconcileAttempt(w) \/ StayPending(w)
           \/ ClaimBroadcast(w) \/ RecordBroadcast(w)
  <2>1. p \in Purchase /\ row[p] \in Reservation /\ worker[w] \in WorkerState /\ UNCHANGED chain
        BY <1>2 DEF Inv, Typed, TypeOK, Assigned, PinRail, ReconcileLimit, ReconcileAttempt,
                    StayPending, ClaimBroadcast, RecordBroadcast
  <2>2. worker[w].pc = "record" => worker[w].outcome \in {"broadcasted", "ambiguous"}
        BY <2>1 DEF Inv, Sends, WorkerState
  <2>3. row[p].attempts + 1 \in Nat
        BY <2>1 DEF Reservation
  <2>4. CASE RecordBroadcast(w) /\ row[p].state # "payment_submitted"
    <3>1. UNCHANGED <<row, fate>>
          BY <2>1, <2>4 DEF RecordBroadcast, chain
    <3>. QED  BY <3>1, NothingMoves
  <2>5. CASE ~(RecordBroadcast(w) /\ row[p].state # "payment_submitted")
    <3> DEFINE R == {[row[p] EXCEPT !.rail = TRUE], [row[p] EXCEPT !.review = TRUE],
                     [row[p] EXCEPT !.review = FALSE], [row[p] EXCEPT !.attempts = @ + 1],
                     row[p], [row[p] EXCEPT !.send = "broadcasting"],
                     [row[p] EXCEPT !.send = "broadcasted"], [row[p] EXCEPT !.send = "ambiguous"]}
    <3> DEFINE Alike(r) == /\ r \in Reservation
                           /\ r.accounting = row[p].accounting /\ r.state = row[p].state
    <3>1. \A r \in R : Alike(r)
      <4>1. Alike([row[p] EXCEPT !.rail = TRUE])
            BY <2>1 DEF Reservation
      <4>2. Alike([row[p] EXCEPT !.review = TRUE])
            BY <2>1 DEF Reservation
      <4>3. Alike([row[p] EXCEPT !.review = FALSE])
            BY <2>1 DEF Reservation
      <4>4. Alike([row[p] EXCEPT !.attempts = @ + 1])
            BY <2>1, <2>3 DEF Reservation
      <4>5. Alike([row[p] EXCEPT !.send = "broadcasting"])
            BY <2>1 DEF Reservation
      <4>6. Alike([row[p] EXCEPT !.send = "broadcasted"])
            BY <2>1 DEF Reservation
      <4>7. Alike([row[p] EXCEPT !.send = "ambiguous"])
            BY <2>1 DEF Reservation
      <4>8. Alike(row[p])
            BY <2>1
      <4> HIDE DEF Alike
      <4>. QED  BY <4>1, <4>2, <4>3, <4>4, <4>5, <4>6, <4>7, <4>8
    <3>2. CASE PinRail(w) \/ ReconcileLimit(w) \/ StayPending(w) \/ ClaimBroadcast(w)
      <4>1. \E r \in R : Update(p, r)
            BY <3>2 DEF PinRail, ReconcileLimit, StayPending, ClaimBroadcast
      <4>. QED  BY <1>1, <2>1, <3>1, <4>1
    <3>3. CASE ReconcileAttempt(w)
      <4>1. \E r \in R : Update(p, r)
            BY <3>3 DEF ReconcileAttempt
      <4>. QED  BY <1>1, <2>1, <3>1, <4>1
    <3>4. CASE RecordBroadcast(w)
      <4>1. worker[w].pc = "record" /\ Update(p, [row[p] EXCEPT !.send = worker[w].outcome])
            BY <2>5, <3>4 DEF RecordBroadcast
      <4>2. \E r \in R : Update(p, r)
            BY <2>2, <4>1
      <4>. QED  BY <1>1, <2>1, <3>1, <4>2
    <3>. QED  BY <1>2, <3>2, <3>3, <3>4
  <2>. QED  BY <2>4, <2>5
<1>3. ASSUME NEW q \in Purchase, Settle(w, q)
      PROVE  Kept
  <2>1. PICK n : Update(q, [row[q] EXCEPT !.state = "payment_submitted", !.send = "pending",
                                          !.nonce = AllocatedNonce(n), !.started = now,
                                          !.deadline = Smaller(now + Lifetime, Expires[row[q].grant])])
        BY <1>3 DEF Settle
  <2> DEFINE r == [row[q] EXCEPT !.state = "payment_submitted", !.send = "pending",
                                 !.nonce = AllocatedNonce(n), !.started = now,
                                 !.deadline = Smaller(now + Lifetime, Expires[row[q].grant])]
  <2>2. row' = [row EXCEPT ![q] = r] /\ row[q].state = "spending_reserved" /\ UNCHANGED chain
        BY <1>3, <2>1 DEF Settle, Update
  <2>3. Inv'
        BY <1>3, SettleInv
  <2>4. row'[q] = r /\ row' \in [Purchase -> Reservation]
        BY <1>0, <2>2, <2>3 DEF Inv, Typed, TypeOK
  <2>5. r \in Reservation
        BY <2>4
  <2>6. r.accounting = row[q].accounting /\ r.state = "payment_submitted"
        BY <1>0 DEF TypeOK, Reservation
  <2> HIDE DEF r
  <2>7. Update(q, r)
        BY <2>2 DEF Update
  <2>. QED  BY <1>1, <2>2, <2>5, <2>6, <2>7
<1>. QED  BY <1>2, <1>3

(* Reserving, settling, finding unpaid and releasing. *)
LEMMA BudgetStepsKeep ==
    ASSUME Inv, Booked, NEW w \in Worker, Reserve(w) \/ CompleteSettled(w) \/ MarkUnpaid(w)
    PROVE  Kept
<1> DEFINE p == worker[w].job
           n == [NoReservation EXCEPT !.state = "spending_reserved", !.grant = worker[w].grant,
                                      !.accounting = "reserved", !.at = worker[w].at]
           c == [row[p] EXCEPT !.state = "settled", !.accounting = "settled", !.review = FALSE]
           m == [row[p] EXCEPT !.state = "unpaid_terminal", !.accounting = "released",
                               !.review = TRUE]
<1>0. TypeOK /\ p \in Purchase /\ row[p] \in Reservation /\ fate' = fate
      BY DEF Inv, Typed, TypeOK, Assigned, Reserve, CompleteSettled, MarkUnpaid, chain
<1>1. CASE Reserve(w)
  <2>1. worker[w].pc = "reserve" /\ row[p].state = "none" /\ Update(p, n)
        BY <1>1 DEF Reserve
  <2>2. worker[w].grant \in Grant /\ worker[w].at \in Nat
        BY <1>0, <2>1 DEF Inv, Typed, Assigned, TypeOK, WorkerState
  <2>3. n \in Reservation /\ n.state = "spending_reserved" /\ n.accounting = "reserved"
        BY <2>2 DEF NoReservation, Reservation
  <2>4. row[p].accounting = "none"
        BY <1>0, <2>1 DEF Booked
  <2> HIDE DEF n
  <2>. QED  BY <1>0, <2>1, <2>3, <2>4, BudgetMoves
<1>2. CASE CompleteSettled(w) \/ MarkUnpaid(w)
  <2>1. row[p].accounting = "reserved" /\ worker[w].evidence # "none" /\ fate[p] = worker[w].evidence
        BY <1>2 DEF CompleteSettled, MarkUnpaid, SettleBudget, ReleaseBudget, Inv, Verdicts
  <2>2. c \in Reservation /\ c.state = "settled" /\ c.accounting = "settled"
        BY <1>0 DEF Reservation
  <2>3. m \in Reservation /\ m.state = "unpaid_terminal" /\ m.accounting = "released"
        BY <1>0 DEF Reservation
  <2>4. \/ fate[p] = "paid" /\ Update(p, c)
        \/ fate[p] = "reverted" /\ Update(p, m)
        BY <1>2, <2>1 DEF CompleteSettled, MarkUnpaid
  <2> HIDE DEF c, m
  <2>5. CASE fate[p] = "paid" /\ Update(p, c)
        BY <1>0, <2>1, <2>2, <2>5, BudgetMoves
  <2>6. CASE fate[p] = "reverted" /\ Update(p, m)
        BY <1>0, <2>1, <2>3, <2>6, BudgetMoves
  <2>. QED  BY <2>4, <2>5, <2>6
<1>. QED  BY <1>1, <1>2

LEMMA DeliveryKeeps ==
    ASSUME Inv, Booked, NEW p \in Purchase, FinalizeReservation(p) \/ ReleaseReservation(p)
    PROVE  Kept
<1> DEFINE c == [row[p] EXCEPT !.state = "finalized"]
           m == [row[p] EXCEPT !.state = "released", !.accounting = "released"]
<1>0. TypeOK /\ row[p] \in Reservation /\ fate' = fate
      BY DEF Inv, Typed, TypeOK, FinalizeReservation, ReleaseReservation, chain
<1>1. c \in Reservation /\ c.state = "finalized" /\ c.accounting = row[p].accounting
      BY <1>0 DEF Reservation
<1>2. m \in Reservation /\ m.state = "released" /\ m.accounting = "released"
      BY <1>0 DEF Reservation
<1>3. FinalizeReservation(p) => Update(p, c) /\ row[p].state = "settled"
      BY DEF FinalizeReservation
<1>4. ReleaseReservation(p) =>
          Update(p, m) /\ row[p].state = "spending_reserved" /\ row[p].accounting = "reserved"
      BY DEF ReleaseReservation, Releasable, ReleaseBudget
<1>5. row[p].state = "spending_reserved" => fate[p] = "unsent"
      BY DEF Inv, Sends, Unsent
<1> HIDE DEF c, m
<1>6. CASE FinalizeReservation(p)
      BY <1>0, <1>1, <1>3, <1>6, BudgetStays
<1>7. CASE ReleaseReservation(p)
      BY <1>0, <1>2, <1>4, <1>5, <1>7, BudgetMoves
<1>. QED  BY <1>6, <1>7

LEMMA SendKeeps ==
    ASSUME Inv, Booked, NEW w \in Worker, NEW taken \in BOOLEAN,
           NEW outcome \in {"broadcasted", "ambiguous"}, Send(w, taken, outcome)
    PROVE  Kept
<1> DEFINE p == worker[w].job
<1>1. /\ TypeOK /\ p \in Purchase /\ worker[w].pc = "send" /\ fate[p] = "unsent"
      BY DEF Inv, Typed, TypeOK, Assigned, Sends, SentOnce, Send
<1>2. row' = row
      BY DEF Send, ledger
<1>3. row[p].send \notin {"none", "pending"}
      BY <1>1 DEF Inv, Sends, Unsent
<1>4. row[p].state \notin {"none", "spending_reserved", "released"}
      BY <1>1, <1>3 DEF Inv, Sends
<1>5. row[p].state \notin {"settled", "finalized", "unpaid_terminal"}
      BY <1>1 DEF Inv, Verdicts, VerdictMatchesChain
<1>6. row[p].state = "payment_submitted"
      BY <1>1, <1>4, <1>5 DEF TypeOK, Reservation
<1>7. row[p].accounting = "reserved"
      BY <1>1, <1>6 DEF Inv, Verdicts
<1>8. fate' = fate \/ fate' = [fate EXCEPT ![p] = "pool"]
      BY DEF Send
<1>9. CASE fate' = fate
      BY <1>2, <1>9, NothingMoves
<1>10. CASE fate' = [fate EXCEPT ![p] = "pool"]
      BY <1>1, <1>2, <1>7, <1>10, MoneyMoves
<1>. QED  BY <1>8, <1>9, <1>10

LEMMA NextKeeps == Inv /\ Booked /\ [Next]_vars => Kept
<1> SUFFICES ASSUME Inv, Booked, [Next]_vars
             PROVE  Kept
    OBVIOUS
<1>1. CASE OwnerStep
      BY <1>1, OwnerKeeps
<1>2. CASE ChainStep \/ Tick
      BY <1>2, ChainKeeps
<1>3. ASSUME NEW w \in Worker, WorkerStep(w)
      PROVE  Kept
      BY <1>3, WaitingKeeps, DetailsKeep, BudgetStepsKeep, SendKeeps DEF WorkerStep
<1>4. CASE \E p \in Purchase : FinalizeReservation(p) \/ ReleaseReservation(p)
      BY <1>4, DeliveryKeeps
<1>5. CASE UNCHANGED vars
  <2>1. UNCHANGED <<ledger, chain>>
        BY <1>5 DEF vars
  <2>2. UNCHANGED <<row, fate>>
        BY <2>1 DEF ledger, chain
  <2>. QED  BY <2>2, NothingMoves
<1>. QED  BY <1>1, <1>2, <1>3, <1>4, <1>5 DEF Next

LEMMA InitKeeps == Init => Booked /\ Promise!Init
<1> SUFFICES ASSUME Init
             PROVE  Booked /\ Promise!Init
    OBVIOUS
<1>1. NoReservation.state = "none" /\ NoReservation.accounting = "none"
      BY DEF NoReservation
<1>2. \A p \in Purchase : row[p] = NoReservation /\ fate[p] = "unsent"
      BY DEF Init
<1>3. Booked
      BY <1>1, <1>2 DEF Booked
<1>4. Budget = [p \in Purchase |-> "none"]
      BY <1>1, <1>2 DEF Budget
<1>5. Money = [p \in Purchase |-> "idle"]
      BY <1>2 DEF Money
<1>. QED  BY <1>3, <1>4, <1>5 DEF Promise!Init

(* BudgetFunding implements HeldPayment: through claims, lost answers,     *)
(* reorganisations and late verdicts, the budget of a purchase is held     *)
(* while its transaction may pay, booked as spent only when it has paid,   *)
(* and given back only when it never can.                                  *)
THEOREM ImplementsHeldPayment == Spec => HoldsPayments
<1>1. Init => Booked /\ Promise!Init
      BY InitKeeps
<1>2. Inv /\ Booked /\ [Next]_vars => Booked' /\ [Promise!Next]_(Promise!vars)
      BY NextKeeps DEF Kept, Promise!vars
<1>. QED  BY <1>1, <1>2, FundingInvariant, PTL DEF Spec, HoldsPayments, Promise!Spec

-----------------------------------------------------------------------------
(* The ledger.  Sums of amounts: what one purchase adds to a total.        *)
In(p, S) == IF p \in S THEN Amount[p] ELSE 0

LEMMA AmountTyped == \A p \in Purchase : Amount[p] \in Nat /\ Amount[p] \in Int /\ Amount[p] > 0
  BY FundingAssumption

LEMMA TotalWithout ==
    ASSUME NEW S \in SUBSET Purchase, NEW p \in Purchase
    PROVE  /\ IsFiniteSet(S)
           /\ Total(S) \in Nat
           /\ Total(S) = Total(S \ {p}) + In(p, S)
<1>1. IsFiniteSet(S) /\ IsFiniteSet(S \ {p})
      BY FundingAssumption, FS_Subset
<1>2. \A x \in S : Amount[x] \in Nat /\ Amount[x] \in Int
      BY AmountTyped
<1>3. SumOver(Amount, S) \in Nat /\ SumOver(Amount, S \ {p}) \in Nat
      BY <1>1, <1>2, SumNat
<1>4. CASE p \in S
  <2>1. SumOver(Amount, S) = Amount[p] + SumOver(Amount, S \ {p})
        BY <1>1, <1>2, <1>4, SumWithout
  <2>. QED  BY <1>1, <1>2, <1>3, <1>4, <2>1 DEF Total, In
<1>5. CASE p \notin S
  <2>1. S \ {p} = S
        BY <1>5
  <2>. QED  BY <1>1, <1>3, <1>5, <2>1 DEF Total, In
<1>. QED  BY <1>4, <1>5

LEMMA TotalMoves ==
    ASSUME NEW S \in SUBSET Purchase, NEW T \in SUBSET Purchase, NEW p \in Purchase,
           S \ {p} = T \ {p}
    PROVE  Total(T) + In(p, S) = Total(S) + In(p, T)
<1>0. PICK U \in SUBSET Purchase : U = S \ {p} /\ U = T \ {p}
      OBVIOUS
<1>1. Total(S) = Total(U) + In(p, S)
      BY <1>0, TotalWithout
<1>4. Total(T) = Total(U) + In(p, T)
      BY <1>0, TotalWithout
<1>2. Total(U) \in Nat
      BY TotalWithout
<1>3. In(p, S) \in Nat /\ In(p, T) \in Nat
      BY AmountTyped DEF In
<1>. QED  BY <1>1, <1>2, <1>3, <1>4

(* A total grows with its set. *)
LEMMA TotalPart ==
    ASSUME NEW S \in SUBSET Purchase, NEW T \in SUBSET S
    PROVE  Total(T) <= Total(S)
<1>1. IsFiniteSet(S) /\ \A x \in S : Amount[x] \in Nat
      BY FundingAssumption, FS_Subset, AmountTyped
<1>. QED  BY <1>1, SumPart DEF Total

(* What the reservation r of p adds to the totals of a grant and of a day. *)
Share(r, p, g, s) == IF r.grant = g /\ r.accounting = s THEN Amount[p] ELSE 0
ShareOn(r, p, g, s, d) ==
    IF r.grant = g /\ r.accounting = s /\ r.at \div Day = d THEN Amount[p] ELSE 0

HeldOn(g, s, d) == {p \in Held(g, s) : row[p].at \div Day = d}

(* A grant that does not exist yet has no books. *)
LedgerInv ==
    /\ LedgerMatchesReservations
    /\ \A g \in Grant : grant[g].status = "none" => grant[g].used = 0 /\ grant[g].reserved = 0

SameReservation(q) ==
    /\ row'[q].grant = row[q].grant
    /\ row'[q].accounting = row[q].accounting
    /\ row'[q].at = row[q].at
    /\ row'[q].state = "none" <=> row[q].state = "none"

LEMMA HeldMoves ==
    ASSUME NEW p \in Purchase, \A q \in Purchase : q # p => SameReservation(q), NEW g, NEW s
    PROVE  /\ Total(Held(g, s))' \in Nat
           /\ Total(Held(g, s))' + Share(row[p], p, g, s) = Total(Held(g, s)) + Share(row'[p], p, g, s)
<1>0. PICK H, K : H = Held(g, s) /\ K = Held(g, s)'
      OBVIOUS
<1>1. /\ H \in SUBSET Purchase /\ K \in SUBSET Purchase
      /\ H \ {p} = K \ {p}
      BY <1>0 DEF Held, SameReservation
<1>3. In(p, H) = Share(row[p], p, g, s) /\ In(p, K) = Share(row'[p], p, g, s)
      BY <1>0 DEF In, Share, Held
<1>4. Total(K) + In(p, H) = Total(H) + In(p, K) /\ Total(K) \in Nat
      BY <1>1, TotalMoves, TotalWithout
<1>6. Total(K) = Total(Held(g, s))'
      BY <1>0 DEF Total
<1>. QED  BY <1>0, <1>3, <1>4, <1>6

LEMMA HeldOnMoves ==
    ASSUME NEW p \in Purchase, \A q \in Purchase : q # p => SameReservation(q), NEW g, NEW s, NEW d
    PROVE  /\ Total(HeldOn(g, s, d))' \in Nat
           /\ Total(HeldOn(g, s, d))' + ShareOn(row[p], p, g, s, d)
                 = Total(HeldOn(g, s, d)) + ShareOn(row'[p], p, g, s, d)
<1>0. PICK H, K : H = HeldOn(g, s, d) /\ K = HeldOn(g, s, d)'
      OBVIOUS
<1>1. /\ H \in SUBSET Purchase /\ K \in SUBSET Purchase
      /\ H \ {p} = K \ {p}
      BY <1>0 DEF Held, HeldOn, SameReservation
<1>3. In(p, H) = ShareOn(row[p], p, g, s, d) /\ In(p, K) = ShareOn(row'[p], p, g, s, d)
      BY <1>0 DEF In, ShareOn, Held, HeldOn
<1>4. Total(K) + In(p, H) = Total(H) + In(p, K) /\ Total(K) \in Nat
      BY <1>1, TotalMoves, TotalWithout
<1>6. Total(K) = Total(HeldOn(g, s, d))'
      BY <1>0 DEF Total
<1>. QED  BY <1>0, <1>3, <1>4, <1>6

(* Such equations determine the new total. *)
LEMMA Balance ==
    ASSUME NEW a \in Nat, NEW b \in Nat, NEW x \in Nat, NEW y \in Nat, NEW z \in Nat, NEW v,
           x + a = v + b, y + a = z + b, v = z
    PROVE  x = y
OBVIOUS

(* A step that changes the reservation of p and the books as much. *)
LEMMA LedgerStep ==
    ASSUME TypeOK, TypeOK', LedgerInv, NEW p \in Purchase,
           \A q \in Purchase : q # p => SameReservation(q),
           \A g \in Grant :
              /\ grant'[g].reserved + Share(row[p], p, g, "reserved")
                    = grant[g].reserved + Share(row'[p], p, g, "reserved")
              /\ grant'[g].used + Share(row[p], p, g, "settled")
                    = grant[g].used + Share(row'[p], p, g, "settled")
              /\ grant'[g].status = "none" =>
                    grant[g].status = "none" /\ grant'[g].used = 0 /\ grant'[g].reserved = 0,
           \A g \in Grant : \A d \in Days :
              /\ usage'[g][d].reserved + ShareOn(row[p], p, g, "reserved", d)
                    = usage[g][d].reserved + ShareOn(row'[p], p, g, "reserved", d)
              /\ usage'[g][d].used + ShareOn(row[p], p, g, "settled", d)
                    = usage[g][d].used + ShareOn(row'[p], p, g, "settled", d)
    PROVE  LedgerInv'
<1>0. /\ \A r, g, s : Share(r, p, g, s) \in Nat
      /\ \A r, g, s, d : ShareOn(r, p, g, s, d) \in Nat
      BY AmountTyped DEF Share, ShareOn
<1>1. \A g \in Grant : /\ grant[g].used \in Nat /\ grant[g].reserved \in Nat
                       /\ grant'[g].used \in Nat /\ grant'[g].reserved \in Nat
      BY DEF TypeOK, GrantRow
<1>2. \A g \in Grant : \A d \in Days :
         /\ usage[g][d].used \in Nat /\ usage[g][d].reserved \in Nat
         /\ usage'[g][d].used \in Nat /\ usage'[g][d].reserved \in Nat
      BY DEF TypeOK
<1>3. ASSUME NEW g \in Grant
      PROVE  /\ grant'[g].reserved = Total(Held(g, "reserved"))'
             /\ grant'[g].used = Total(Held(g, "settled"))'
  <2>1. /\ grant[g].reserved = Total(Held(g, "reserved"))
        /\ grant[g].used = Total(Held(g, "settled"))
        BY DEF LedgerInv, LedgerMatchesReservations
  <2>2. grant'[g].reserved = Total(Held(g, "reserved"))'
    <3>1. /\ Total(Held(g, "reserved"))' \in Nat
          /\ Total(Held(g, "reserved"))' + Share(row[p], p, g, "reserved")
              = Total(Held(g, "reserved")) + Share(row'[p], p, g, "reserved")
          BY HeldMoves
    <3>2. Share(row[p], p, g, "reserved") \in Nat /\ Share(row'[p], p, g, "reserved") \in Nat
          BY <1>0
    <3>3. grant'[g].reserved + Share(row[p], p, g, "reserved")
             = grant[g].reserved + Share(row'[p], p, g, "reserved")
          OBVIOUS
    <3>4. grant[g].reserved \in Nat /\ grant'[g].reserved \in Nat
          BY <1>1
    <3>. QED  BY <2>1, <3>1, <3>2, <3>3, <3>4, Balance
  <2>3. grant'[g].used = Total(Held(g, "settled"))'
    <3>1. /\ Total(Held(g, "settled"))' \in Nat
          /\ Total(Held(g, "settled"))' + Share(row[p], p, g, "settled")
              = Total(Held(g, "settled")) + Share(row'[p], p, g, "settled")
          BY HeldMoves
    <3>2. Share(row[p], p, g, "settled") \in Nat /\ Share(row'[p], p, g, "settled") \in Nat
          BY <1>0
    <3>3. grant'[g].used + Share(row[p], p, g, "settled")
             = grant[g].used + Share(row'[p], p, g, "settled")
          OBVIOUS
    <3>4. grant[g].used \in Nat /\ grant'[g].used \in Nat
          BY <1>1
    <3>. QED  BY <2>1, <3>1, <3>2, <3>3, <3>4, Balance
  <2>. QED  BY <2>2, <2>3
<1>4. ASSUME NEW g \in Grant, NEW d \in Days
      PROVE  /\ usage'[g][d].reserved = Total(HeldOn(g, "reserved", d))'
             /\ usage'[g][d].used = Total(HeldOn(g, "settled", d))'
  <2>1. /\ usage[g][d].reserved = Total(HeldOn(g, "reserved", d))
        /\ usage[g][d].used = Total(HeldOn(g, "settled", d))
        BY DEF LedgerInv, LedgerMatchesReservations, HeldOn
  <2>2. usage'[g][d].reserved = Total(HeldOn(g, "reserved", d))'
    <3>1. /\ Total(HeldOn(g, "reserved", d))' \in Nat
          /\ Total(HeldOn(g, "reserved", d))' + ShareOn(row[p], p, g, "reserved", d)
              = Total(HeldOn(g, "reserved", d)) + ShareOn(row'[p], p, g, "reserved", d)
          BY HeldOnMoves
    <3>2. ShareOn(row[p], p, g, "reserved", d) \in Nat /\ ShareOn(row'[p], p, g, "reserved", d) \in Nat
          BY <1>0
    <3>. QED  BY <1>2, <2>1, <3>1, <3>2, Balance
  <2>3. usage'[g][d].used = Total(HeldOn(g, "settled", d))'
    <3>1. /\ Total(HeldOn(g, "settled", d))' \in Nat
          /\ Total(HeldOn(g, "settled", d))' + ShareOn(row[p], p, g, "settled", d)
              = Total(HeldOn(g, "settled", d)) + ShareOn(row'[p], p, g, "settled", d)
          BY HeldOnMoves
    <3>2. ShareOn(row[p], p, g, "settled", d) \in Nat /\ ShareOn(row'[p], p, g, "settled", d) \in Nat
          BY <1>0
    <3>. QED  BY <1>2, <2>1, <3>1, <3>2, Balance
  <2>. QED  BY <2>2, <2>3
<1>5. LedgerMatchesReservations'
      BY <1>3, <1>4 DEF LedgerMatchesReservations, HeldOn
<1>. QED  BY <1>5 DEF LedgerInv

(* A step that changes neither the reservations nor the books. *)
LEMMA LedgerStays ==
    ASSUME LedgerInv, usage' = usage, \A q \in Purchase : SameReservation(q),
           \A g \in Grant : /\ grant'[g].used = grant[g].used
                            /\ grant'[g].reserved = grant[g].reserved
                            /\ grant'[g].status = "none" => grant[g].status = "none"
    PROVE  LedgerInv'
<1>1. ASSUME NEW g, NEW s, NEW d
      PROVE  /\ Total(Held(g, s))' = Total(Held(g, s))
             /\ Total(HeldOn(g, s, d))' = Total(HeldOn(g, s, d))
  <2>1. Held(g, s)' = Held(g, s)
        BY DEF Held, SameReservation
  <2>2. HeldOn(g, s, d)' = HeldOn(g, s, d)
        BY <2>1 DEF HeldOn, Held, SameReservation
  <2>. QED  BY <2>1, <2>2 DEF Total
<1>2. ASSUME NEW g \in Grant
      PROVE  /\ grant'[g].reserved = Total(Held(g, "reserved"))'
             /\ grant'[g].used = Total(Held(g, "settled"))'
  <2>1. /\ grant[g].reserved = Total(Held(g, "reserved"))
        /\ grant[g].used = Total(Held(g, "settled"))
        BY DEF LedgerInv, LedgerMatchesReservations
  <2>2. /\ Total(Held(g, "reserved"))' = Total(Held(g, "reserved"))
        /\ Total(Held(g, "settled"))' = Total(Held(g, "settled"))
        BY <1>1
  <2>. QED  BY <2>1, <2>2
<1>3. ASSUME NEW g \in Grant, NEW d \in Days
      PROVE  /\ usage'[g][d].reserved = Total(HeldOn(g, "reserved", d))'
             /\ usage'[g][d].used = Total(HeldOn(g, "settled", d))'
  <2>1. /\ usage[g][d].reserved = Total(HeldOn(g, "reserved", d))
        /\ usage[g][d].used = Total(HeldOn(g, "settled", d))
        BY DEF LedgerInv, LedgerMatchesReservations, HeldOn
  <2>. QED  BY <1>1, <2>1
<1>4. LedgerMatchesReservations'
      BY <1>2, <1>3 DEF LedgerMatchesReservations, HeldOn
<1>. QED  BY <1>4 DEF LedgerInv

LEMMA ReserveLedger ==
    ASSUME Inv, Inv', Booked, LedgerInv, NEW w \in Worker, Reserve(w)
    PROVE  LedgerInv'
<1> DEFINE p == worker[w].job
           g == worker[w].grant
           t == worker[w].at
           a == Amount[p]
           d == t \div Day
           r == [NoReservation EXCEPT !.state = "spending_reserved", !.grant = g,
                                      !.accounting = "reserved", !.at = t]
           u == [usage[g][d] EXCEPT !.reserved = @ + a]
<1>0. Typed /\ TypeOK /\ TypeOK'
      BY DEF Inv, Typed
<1>1. /\ p \in Purchase /\ g \in Grant /\ t <= now /\ now <= MaxTime
      /\ t \in Nat /\ a \in Nat /\ now \in Nat /\ MaxTime \in Nat
      BY FundingAssumption DEF Inv, Typed, TypeOK, Assigned, Reserve, WorkerState
<1>2. d \in Days
  <2>1. t \in 0 .. MaxTime
        BY <1>1
  <2>. QED  BY <2>1 DEF Days
<1>3. row[p].accounting = "none" /\ grant[g].status = "active"
      BY <1>1 DEF Booked, Reserve, MayReserve, Eligible
<1>4. r.grant = g /\ r.accounting = "reserved" /\ r.at = t
      BY DEF NoReservation
<1>5. row' = [row EXCEPT ![p] = r]
      BY DEF Reserve, Update
<1>6. u.used = usage[g][d].used /\ u.reserved = usage[g][d].reserved + a
      BY <1>0, <1>1, <1>2 DEF TypeOK
<1>7. usage' = [usage EXCEPT ![g] = [usage[g] EXCEPT ![d] = u]]
      BY DEF Reserve
<1>8. \A f \in Grant :
         /\ grant'[f].status = grant[f].status
         /\ grant'[f].used = grant[f].used
         /\ grant'[f].reserved = IF f = g THEN grant[f].reserved + a ELSE grant[f].reserved
      BY <1>0, ReserveTyped
<1>. HIDE DEF r, u, p, g, t
<1>9. row'[p] = r /\ \A q \in Purchase : q # p => SameReservation(q)
      BY <1>0, <1>1, <1>5 DEF TypeOK, SameReservation
<1>10. \A f \in Grant : \A e \in Days :
          usage'[f][e] = IF f = g /\ e = d THEN u ELSE usage[f][e]
      BY <1>0, <1>2, <1>7 DEF TypeOK
<1>11. \A f \in Grant : grant[f].used \in Nat /\ grant[f].reserved \in Nat
      BY <1>0 DEF TypeOK, GrantRow
<1>12. ASSUME NEW f \in Grant
       PROVE  /\ grant'[f].reserved + Share(row[p], p, f, "reserved")
                    = grant[f].reserved + Share(row'[p], p, f, "reserved")
              /\ grant'[f].used + Share(row[p], p, f, "settled")
                    = grant[f].used + Share(row'[p], p, f, "settled")
              /\ grant'[f].status = "none" =>
                    grant[f].status = "none" /\ grant'[f].used = 0 /\ grant'[f].reserved = 0
  <2>1. /\ Share(row[p], p, f, "reserved") = 0 /\ Share(row[p], p, f, "settled") = 0
        /\ Share(row'[p], p, f, "settled") = 0
        /\ Share(row'[p], p, f, "reserved") = IF f = g THEN a ELSE 0
        BY <1>3, <1>4, <1>9 DEF Share
  <2>2. grant[f].status = "none" => grant[f].used = 0 /\ grant[f].reserved = 0
        BY DEF LedgerInv
  <2>. QED  BY <1>1, <1>3, <1>8, <1>11, <2>1, <2>2
<1>13. ASSUME NEW f \in Grant, NEW e \in Days
       PROVE  /\ usage'[f][e].reserved + ShareOn(row[p], p, f, "reserved", e)
                    = usage[f][e].reserved + ShareOn(row'[p], p, f, "reserved", e)
              /\ usage'[f][e].used + ShareOn(row[p], p, f, "settled", e)
                    = usage[f][e].used + ShareOn(row'[p], p, f, "settled", e)
  <2>1. /\ ShareOn(row[p], p, f, "reserved", e) = 0 /\ ShareOn(row[p], p, f, "settled", e) = 0
        /\ ShareOn(row'[p], p, f, "settled", e) = 0
        /\ ShareOn(row'[p], p, f, "reserved", e) = IF f = g /\ e = d THEN a ELSE 0
        BY <1>3, <1>4, <1>9 DEF ShareOn
  <2>2. usage[f][e].used \in Nat /\ usage[f][e].reserved \in Nat
        BY <1>0 DEF TypeOK
  <2>. QED  BY <1>1, <1>6, <1>10, <2>1, <2>2
<1>. QED  BY <1>0, <1>1, <1>9, <1>12, <1>13, LedgerStep

(* A reservation is booked as used, or given back. *)
LEMMA AccountLedger ==
    ASSUME Inv, Inv', LedgerInv, NEW p \in Purchase, row[p].state # "none", NEW used \in Nat,
           NEW st \in {"none", "active", "paused", "security_paused", "exhausted", "expired",
                       "revoked"},
           Account(p, used, st), st = "none" => grant[row[p].grant].status = "none",
           row[p].accounting = "reserved",
           row'[p].grant = row[p].grant, row'[p].at = row[p].at,
           \/ row'[p].accounting = "settled" /\ used = Amount[p]
           \/ row'[p].accounting = "released" /\ used = 0,
           \A q \in Purchase : q # p => SameReservation(q)
    PROVE  LedgerInv'
<1> DEFINE g == row[p].grant
           d == UsageDate(p)
           a == Amount[p]
           u == [usage[g][d] EXCEPT !.reserved = @ - a, !.used = @ + used]
<1>0. Typed /\ TypeOK /\ TypeOK'
      BY DEF Inv, Typed
<1>1. g \in Grant /\ a \in Nat /\ a > 0
      BY AmountTyped DEF Inv, Typed, Assigned
<1>2. d \in Days
  <2>1. row[p].at \in 0 .. MaxTime
        BY FundingAssumption DEF Inv, Typed, TypeOK, Assigned, Reservation
  <2>. QED  BY <2>1 DEF Days, UsageDate
<1>3. usage[g][d].used \in Nat /\ usage[g][d].reserved \in Nat /\ usage[g][d].reserved >= a
  <2>1. usage[g][d].used \in Nat /\ usage[g][d].reserved \in Nat
        BY <1>0, <1>1, <1>2 DEF TypeOK
  <2>2. usage[g][d].reserved >= a
        BY DEF Account
  <2>. QED  BY <2>1, <2>2
<1>4. u.reserved = usage[g][d].reserved - a /\ u.used = usage[g][d].used + used
      BY <1>0, <1>1, <1>2 DEF TypeOK
<1>5. usage' = [usage EXCEPT ![g] = [usage[g] EXCEPT ![d] = u]]
      BY DEF Account
<1>6. /\ \A f \in Grant : f # g => grant'[f] = grant[f]
      /\ grant'[g].status = st
      /\ grant'[g].used = grant[g].used + used
      /\ grant'[g].reserved = grant[g].reserved - a
      /\ grant[g].reserved >= a
      BY <1>0, AccountTyped
<1>. HIDE DEF u
<1>7. \A f \in Grant : \A e \in Days :
          usage'[f][e] = IF f = g /\ e = d THEN u ELSE usage[f][e]
      BY <1>0, <1>1, <1>2, <1>5 DEF TypeOK
<1>8. \A f \in Grant : grant[f].used \in Nat /\ grant[f].reserved \in Nat
      BY <1>0 DEF TypeOK, GrantRow
<1>9. grant[g].status # "none"
      BY <1>1, <1>6 DEF LedgerInv
<1>10. ASSUME NEW f \in Grant
       PROVE  /\ grant'[f].reserved + Share(row[p], p, f, "reserved")
                    = grant[f].reserved + Share(row'[p], p, f, "reserved")
              /\ grant'[f].used + Share(row[p], p, f, "settled")
                    = grant[f].used + Share(row'[p], p, f, "settled")
              /\ grant'[f].status = "none" =>
                    grant[f].status = "none" /\ grant'[f].used = 0 /\ grant'[f].reserved = 0
  <2>1. /\ Share(row[p], p, f, "reserved") = IF f = g THEN a ELSE 0
        /\ Share(row[p], p, f, "settled") = 0
        /\ Share(row'[p], p, f, "settled") = IF f = g THEN used ELSE 0
        /\ Share(row'[p], p, f, "reserved") = 0
        BY DEF Share
  <2>2. grant[f].status = "none" => grant[f].used = 0 /\ grant[f].reserved = 0
        BY DEF LedgerInv
  <2>3. grant[f].used \in Nat /\ grant[f].reserved \in Nat
        BY <1>8
  <2>4. CASE f = g
    <3>1. grant'[f].status # "none"
          BY <1>6, <1>9, <2>4
    <3>. QED  BY <1>1, <1>6, <2>1, <2>3, <2>4, <3>1
  <2>5. CASE f # g
    <3>1. grant'[f] = grant[f]
          BY <1>6, <2>5
    <3>. QED  BY <2>1, <2>2, <2>3, <2>5, <3>1
  <2>. QED  BY <2>4, <2>5
<1>11. ASSUME NEW f \in Grant, NEW e \in Days
       PROVE  /\ usage'[f][e].reserved + ShareOn(row[p], p, f, "reserved", e)
                    = usage[f][e].reserved + ShareOn(row'[p], p, f, "reserved", e)
              /\ usage'[f][e].used + ShareOn(row[p], p, f, "settled", e)
                    = usage[f][e].used + ShareOn(row'[p], p, f, "settled", e)
  <2>1. /\ ShareOn(row[p], p, f, "reserved", e) = IF f = g /\ e = d THEN a ELSE 0
        /\ ShareOn(row[p], p, f, "settled", e) = 0
        /\ ShareOn(row'[p], p, f, "settled", e) = IF f = g /\ e = d THEN used ELSE 0
        /\ ShareOn(row'[p], p, f, "reserved", e) = 0
        BY DEF ShareOn, UsageDate
  <2>2. usage[f][e].used \in Nat /\ usage[f][e].reserved \in Nat
        BY <1>0 DEF TypeOK
  <2>. QED  BY <1>1, <1>3, <1>4, <1>7, <2>1, <2>2
<1>. QED  BY <1>0, <1>10, <1>11, LedgerStep

(* The owner's steps change no amount; a new grant has none. *)
LEMMA OwnerLedger ==
    ASSUME Inv, LedgerInv, OwnerStep
    PROVE  LedgerInv'
<1> DEFINE Same(f) == /\ grant'[f].used = grant[f].used
                      /\ grant'[f].reserved = grant[f].reserved
                      /\ grant'[f].status = "none" => grant[f].status = "none"
<1>0. Typed /\ TypeOK
      BY DEF Inv, Typed
<1>1. row' = row /\ usage' = usage
      BY DEF OwnerStep, CreateGrant, ReduceGrant, AmendGrant, PauseGrant, ResumeGrant, RevokeGrant,
             ExpireGrant, BindGrant, RevokeIdentity, PrepareDisconnect, DisconnectWallet,
             EndIdentity
<1>2. \A q \in Purchase : SameReservation(q)
      BY <1>1 DEF SameReservation
<1>3. ASSUME NEW gs, NEW st \in {"active", "paused", "security_paused", "exhausted", "expired",
                                 "revoked"},
             SetStatus(gs, st)
      PROVE  \A f \in Grant : Same(f)
  <2>1. SetStatus(gs \cap Grant, st)
        BY <1>3 DEF SetStatus
  <2>2. gs \cap Grant \in SUBSET Grant
        OBVIOUS
  <2>. QED  BY <1>0, <2>1, <2>2, SetStatusTyped
<1>4. ASSUME NEW g \in Grant, NEW l \in Limits, CreateGrant(g, l)
      PROVE  \A f \in Grant : Same(f)
  <2> DEFINE n == [NewGrant EXCEPT !.status = "active", !.limits = l]
  <2>1. n.used = 0 /\ n.reserved = 0 /\ n.status = "active"
        BY DEF NewGrant
  <2>2. \A f \in Grant : /\ [grant[f] EXCEPT !.status = "revoked"].used = grant[f].used
                         /\ [grant[f] EXCEPT !.status = "revoked"].reserved = grant[f].reserved
                         /\ [grant[f] EXCEPT !.status = "revoked"].status = "revoked"
        BY <1>0 DEF TypeOK, GrantRow
  <2>3. /\ grant' = [f \in Grant |->
                       IF f = g THEN n
                       ELSE IF f \in Overlapping(g) THEN [grant[f] EXCEPT !.status = "revoked"]
                       ELSE grant[f]]
        /\ grant[g].status = "none"
        BY <1>4 DEF CreateGrant
  <2> HIDE DEF n
  <2>4. grant[g].used = 0 /\ grant[g].reserved = 0
        BY <2>3 DEF LedgerInv
  <2>. QED  BY <2>1, <2>2, <2>3, <2>4
<1>5. ASSUME NEW g \in Grant, NEW l \in Limits, ReduceGrant(g, l) \/ AmendGrant(g, l)
      PROVE  \A f \in Grant : Same(f)
  <2>1. grant' = [grant EXCEPT ![g].limits = l]
        BY <1>5 DEF ReduceGrant, AmendGrant
  <2>. QED  BY <1>0, <2>1, LimitsTyped
<1>6. ASSUME NEW g \in Grant, PauseGrant(g) \/ ResumeGrant(g) \/ RevokeGrant(g) \/ ExpireGrant(g)
      PROVE  \A f \in Grant : Same(f)
      BY <1>3, <1>6 DEF PauseGrant, ResumeGrant, RevokeGrant, ExpireGrant
<1>7. ASSUME NEW g \in Grant, BindGrant(g)
      PROVE  \A f \in Grant : Same(f)
      BY <1>7 DEF BindGrant
<1>8. ASSUME RevokeIdentity \/ PrepareDisconnect \/ DisconnectWallet
      PROVE  \A f \in Grant : Same(f)
  <2> DEFINE gs == {g \in Grant : grant[g].status = "active"}
             hs == {g \in Grant : grant[g].status \in {"active", "paused", "security_paused"}}
  <2>1. SetStatus(gs, "security_paused") \/ SetStatus(hs, "revoked")
        BY <1>8 DEF RevokeIdentity, PrepareDisconnect, DisconnectWallet, EndIdentity
  <2> HIDE DEF gs, hs, Same
  <2>. QED  BY <1>3, <2>1
<1> HIDE DEF Same
<1>9. \A f \in Grant : Same(f)
      BY <1>4, <1>5, <1>6, <1>7, <1>8 DEF OwnerStep
<1>. QED  BY <1>1, <1>2, <1>9, LedgerStays DEF Same

(* Every other step that is not about budget leaves reservations and books *)
(* alone.                                                                  *)
LEMMA WorkLeavesLedger ==
    ASSUME Inv, NEW w \in Worker, WorkerStep(w),
           ~Reserve(w), ~CompleteSettled(w), ~MarkUnpaid(w)
    PROVE  /\ grant' = grant /\ usage' = usage
           /\ \A q \in Purchase : SameReservation(q)
<1> DEFINE Goal == /\ grant' = grant /\ usage' = usage
                   /\ \A q \in Purchase : SameReservation(q)
           p == worker[w].job
<1>0. TypeOK /\ (worker[w].pc # "idle" => p \in Purchase)
      BY DEF Inv, Typed, Assigned
<1>1. ASSUME NEW q \in Purchase, NEW r, Update(q, r), UNCHANGED <<grant, usage>>,
             r.grant = row[q].grant, r.accounting = row[q].accounting, r.at = row[q].at,
             r.state = "none" <=> row[q].state = "none"
      PROVE  Goal
      BY <1>0, <1>1 DEF TypeOK, Update, SameReservation
<1>2. ASSUME UNCHANGED ledger
      PROVE  Goal
      BY <1>2 DEF ledger, SameReservation
<1>3. ASSUME NEW q \in Purchase,
             \/ \E g \in Grant : ReserveBegin(w, q, g)
             \/ Recover(w, q)
             \/ \E operator \in BOOLEAN : ReconcileBegin(w, q, operator)
      PROVE  Goal
      BY <1>2, <1>3 DEF ReserveBegin, Recover, ReconcileBegin
<1>4. CASE ReserveReplay(w) \/ BroadcastClaimed(w) \/ Verify(w) \/ VerifyFails(w) \/ Abandon(w)
      BY <1>2, <1>4 DEF ReserveReplay, BroadcastClaimed, Verify, VerifyFails, Abandon
<1>5. ASSUME NEW taken \in BOOLEAN, NEW outcome \in {"broadcasted", "ambiguous"},
             Send(w, taken, outcome)
      PROVE  Goal
      BY <1>2, <1>5 DEF Send
<1>6. ASSUME NEW q \in Purchase, Settle(w, q)
      PROVE  Goal
  <2>1. PICK n : Update(q, [row[q] EXCEPT !.state = "payment_submitted", !.send = "pending",
                                          !.nonce = AllocatedNonce(n), !.started = now,
                                          !.deadline = Smaller(now + Lifetime, Expires[row[q].grant])])
        BY <1>6 DEF Settle
  <2> DEFINE r == [row[q] EXCEPT !.state = "payment_submitted", !.send = "pending",
                                 !.nonce = AllocatedNonce(n), !.started = now,
                                 !.deadline = Smaller(now + Lifetime, Expires[row[q].grant])]
  <2>2. /\ r.grant = row[q].grant /\ r.accounting = row[q].accounting /\ r.at = row[q].at
        /\ r.state = "payment_submitted"
        BY <1>0 DEF TypeOK, Reservation
  <2>3. Update(q, r) /\ UNCHANGED <<grant, usage>> /\ row[q].state = "spending_reserved"
        BY <1>6, <2>1 DEF Settle
  <2> HIDE DEF r
  <2>. QED  BY <1>1, <2>2, <2>3
<1> DEFINE Alike(r) == /\ r.grant = row[p].grant /\ r.accounting = row[p].accounting
                       /\ r.at = row[p].at /\ r.state = row[p].state
<1>7. p \in Purchase =>
         /\ Alike([row[p] EXCEPT !.rail = TRUE])
         /\ Alike([row[p] EXCEPT !.review = TRUE])
         /\ Alike([row[p] EXCEPT !.review = FALSE])
         /\ Alike([row[p] EXCEPT !.attempts = @ + 1])
         /\ Alike([row[p] EXCEPT !.send = "broadcasting"])
         /\ Alike([row[p] EXCEPT !.send = worker[w].outcome])
      BY <1>0 DEF TypeOK, Reservation
<1>8. CASE PinRail(w) \/ ReconcileLimit(w) \/ StayPending(w) \/ ClaimBroadcast(w)
  <2>1. p \in Purchase
        BY <1>0, <1>8 DEF PinRail, ReconcileLimit, StayPending, ClaimBroadcast
  <2>2. \E r : Alike(r) /\ Update(p, r)
        BY <1>7, <1>8, <2>1 DEF PinRail, ReconcileLimit, StayPending, ClaimBroadcast
  <2>3. UNCHANGED <<grant, usage>>
        BY <1>8 DEF PinRail, ReconcileLimit, StayPending, ClaimBroadcast
  <2>. QED  BY <1>1, <2>1, <2>2, <2>3
<1>9. CASE ReconcileAttempt(w)
  <2>1. p \in Purchase /\ UNCHANGED <<grant, usage>>
        BY <1>0, <1>9 DEF ReconcileAttempt
  <2>2. \E r : Alike(r) /\ Update(p, r)
        BY <1>7, <1>9, <2>1 DEF ReconcileAttempt
  <2>. QED  BY <1>1, <2>1, <2>2
<1>10. CASE RecordBroadcast(w)
  <2>1. p \in Purchase /\ UNCHANGED <<grant, usage>>
        BY <1>0, <1>10 DEF RecordBroadcast
  <2>2. CASE row[p].state = "payment_submitted"
        BY <1>1, <1>7, <1>10, <2>1, <2>2 DEF RecordBroadcast
  <2>3. CASE row[p].state # "payment_submitted"
        BY <1>10, <2>1, <2>3 DEF RecordBroadcast, SameReservation
  <2>. QED  BY <2>2, <2>3
<1>. QED  BY <1>3, <1>4, <1>5, <1>6, <1>8, <1>9, <1>10 DEF WorkerStep

(* Settling, finding unpaid and releasing. *)
LEMMA AccountingLedger ==
    ASSUME Inv, Inv', LedgerInv, NEW p \in Purchase, row[p].state # "none",
           \/ /\ SettleBudget(p)
              /\ Update(p, [row[p] EXCEPT !.state = "settled", !.accounting = "settled",
                                          !.review = FALSE])
           \/ /\ ReleaseBudget(p)
              /\ \/ Update(p, [row[p] EXCEPT !.state = "unpaid_terminal",
                                             !.accounting = "released", !.review = TRUE])
                 \/ Update(p, [row[p] EXCEPT !.state = "released", !.accounting = "released"])
    PROVE  LedgerInv'
<1> DEFINE c == [row[p] EXCEPT !.state = "settled", !.accounting = "settled", !.review = FALSE]
           m == [row[p] EXCEPT !.state = "unpaid_terminal", !.accounting = "released",
                               !.review = TRUE]
           n == [row[p] EXCEPT !.state = "released", !.accounting = "released"]
           Status == {"none", "active", "paused", "security_paused", "exhausted", "expired",
                      "revoked"}
<1>0. TypeOK /\ row[p].accounting = "reserved" /\ Amount[p] \in Nat
      BY AmountTyped DEF Inv, Typed, SettleBudget, ReleaseBudget
<1>1. /\ c.grant = row[p].grant /\ c.at = row[p].at /\ c.accounting = "settled"
      /\ m.grant = row[p].grant /\ m.at = row[p].at /\ m.accounting = "released"
      /\ n.grant = row[p].grant /\ n.at = row[p].at /\ n.accounting = "released"
      BY <1>0 DEF TypeOK, Reservation
<1>2. \/ SettleBudget(p) /\ Update(p, c)
      \/ ReleaseBudget(p) /\ (Update(p, m) \/ Update(p, n))
      OBVIOUS
<1> HIDE DEF c, m, n
<1>3. /\ \A r : Update(p, r) => row'[p] = r
      /\ \A q \in Purchase : q # p => SameReservation(q)
      BY <1>0, <1>2 DEF TypeOK, Update, SameReservation
<1>4. row'[p].grant = row[p].grant /\ row'[p].at = row[p].at
      BY <1>1, <1>2, <1>3
<1>5. grant[row[p].grant].status \in Status
      BY <1>0 DEF Inv, Typed, TypeOK, Assigned, GrantRow
<1>6. CASE SettleBudget(p) /\ Update(p, c)
  <2>1. Account(p, Amount[p], StatusSettled(p)) /\ row'[p].accounting = "settled"
        BY <1>1, <1>3, <1>6 DEF SettleBudget
  <2>2. /\ StatusSettled(p) \in Status
        /\ StatusSettled(p) = "none" => grant[row[p].grant].status = "none"
        BY <1>5 DEF StatusSettled
  <2>. QED  BY <1>0, <1>3, <1>4, <2>1, <2>2, AccountLedger
<1>7. CASE ReleaseBudget(p) /\ (Update(p, m) \/ Update(p, n))
  <2>1. Account(p, 0, StatusReleased(p)) /\ row'[p].accounting = "released"
        BY <1>1, <1>3, <1>7 DEF ReleaseBudget
  <2>2. /\ StatusReleased(p) \in Status
        /\ StatusReleased(p) = "none" => grant[row[p].grant].status = "none"
        BY <1>5 DEF StatusReleased
  <2>. QED  BY <1>0, <1>3, <1>4, <2>1, <2>2, AccountLedger
<1>. QED  BY <1>2, <1>6, <1>7

LEMMA NextLedger == Inv /\ Booked /\ LedgerInv /\ [Next]_vars => LedgerInv'
<1> SUFFICES ASSUME Inv, Booked, LedgerInv, [Next]_vars
             PROVE  LedgerInv'
    OBVIOUS
<1>0. Inv' /\ TypeOK
      BY NextInv DEF Inv, Typed
<1>1. CASE OwnerStep
      BY <1>1, OwnerLedger
<1>2. CASE ChainStep \/ Tick \/ UNCHANGED vars
  <2>1. row' = row /\ usage' = usage /\ grant' = grant
        BY <1>2 DEF ChainStep, Tick, Mine, Reorganise, Drop, BecomeFinal, RevokeOnChain, vars, ledger
  <2>. QED  BY <2>1, LedgerStays DEF SameReservation
<1>3. ASSUME NEW w \in Worker, WorkerStep(w)
      PROVE  LedgerInv'
  <2>1. CASE Reserve(w)
        BY <1>0, <2>1, ReserveLedger
  <2>2. CASE CompleteSettled(w) \/ MarkUnpaid(w)
    <3>1. worker[w].job \in Purchase /\ row[worker[w].job].state = "payment_submitted"
          BY <2>2 DEF CompleteSettled, MarkUnpaid, SamePending, Inv, Typed, Assigned
    <3>. QED  BY <1>0, <2>2, <3>1, AccountingLedger DEF CompleteSettled, MarkUnpaid
  <2>3. CASE ~Reserve(w) /\ ~CompleteSettled(w) /\ ~MarkUnpaid(w)
        BY <1>3, <2>3, WorkLeavesLedger, LedgerStays
  <2>. QED  BY <2>1, <2>2, <2>3
<1>4. ASSUME NEW p \in Purchase, ReleaseReservation(p)
      PROVE  LedgerInv'
      BY <1>0, <1>4, AccountingLedger DEF ReleaseReservation, Releasable
<1>5. ASSUME NEW p \in Purchase, FinalizeReservation(p)
      PROVE  LedgerInv'
  <2>1. \A q \in Purchase : SameReservation(q)
        BY <1>0, <1>5 DEF FinalizeReservation, Update, SameReservation, TypeOK, Reservation
  <2>. QED  BY <1>5, <2>1, LedgerStays DEF FinalizeReservation
<1>. QED  BY <1>1, <1>2, <1>3, <1>4, <1>5 DEF Next

LEMMA InitLedger == Init => LedgerInv
<1> SUFFICES ASSUME Init
             PROVE  LedgerInv
    OBVIOUS
<1>1. SumOver(Amount, {}) = 0
      BY SumOfNone
<1>2. \A s : s \in {"reserved", "settled"} => \A g \in Grant : Held(g, s) = {}
      BY DEF Held, Init, NoReservation
<1>3. \A g \in Grant : grant[g].used = 0 /\ grant[g].reserved = 0
      BY DEF Init, NewGrant
<1>4. \A g \in Grant : \A d \in Days : usage[g][d].used = 0 /\ usage[g][d].reserved = 0
      BY DEF Init
<1>. QED  BY <1>1, <1>2, <1>3, <1>4 DEF LedgerInv, LedgerMatchesReservations, Total

(* The books agree with the reservations, however                          *)
(* reserve_unified_budget, settle_unified_budget and                       *)
(* release_unified_budget interleave: no amount is booked twice, lost, or  *)
(* booked under another usage date than the one it was reserved on.        *)
THEOREM LedgerAgrees == Spec => []LedgerMatchesReservations
<1>1. Inv /\ Booked /\ [Next]_vars => Booked'
      BY NextKeeps DEF Kept
<1>2. LedgerInv => LedgerMatchesReservations
      BY DEF LedgerInv
<1>. QED  BY <1>1, <1>2, InitKeeps, InitLedger, NextLedger, FundingInvariant, PTL DEF Spec

(* Only reserve_spending creates a reservation. *)
LEMMA BeginsReserved ==
    ASSUME Inv, [Next]_vars, NEW p \in Purchase, row[p].state = "none", row'[p].state # "none"
    PROVE  \E w \in Worker : Reserve(w) /\ worker[w].job = p
<1>0. TypeOK
      BY DEF Inv, Typed
<1>1. ~SameReservation(p) /\ row' # row
      BY DEF SameReservation
<1>2. ASSUME NEW q \in Purchase, NEW r, Update(q, r)
      PROVE  q = p
      BY <1>0, <1>2 DEF TypeOK, Update
<1>3. ~OwnerStep /\ ~ChainStep /\ ~Tick /\ ~UNCHANGED vars
      BY <1>1 DEF OwnerStep, CreateGrant, ReduceGrant, AmendGrant, PauseGrant, ResumeGrant,
                  RevokeGrant, ExpireGrant, BindGrant, RevokeIdentity, PrepareDisconnect,
                  DisconnectWallet, EndIdentity, ChainStep, Tick, Mine, Reorganise, Drop,
                  BecomeFinal, RevokeOnChain, vars, ledger
<1>4. ~\E q \in Purchase : FinalizeReservation(q) \/ ReleaseReservation(q)
      BY <1>2 DEF FinalizeReservation, ReleaseReservation, Releasable
<1>5. PICK w \in Worker : WorkerStep(w)
      BY <1>3, <1>4 DEF Next
<1>6. ~(CompleteSettled(w) \/ MarkUnpaid(w))
      BY <1>2 DEF CompleteSettled, MarkUnpaid, SamePending, Inv, Typed, Assigned
<1>7. Reserve(w)
      BY <1>1, <1>5, <1>6, WorkLeavesLedger
<1>8. worker[w].job = p
      BY <1>2, <1>7 DEF Reserve, Inv, Typed, Assigned
<1>. QED  BY <1>7, <1>8

(* Whatever hour contains a new reservation, what it adds up to was in     *)
(* reserve_spending's window.                                              *)
LEMMA HourFits ==
    ASSUME Inv, Booked, NEW w \in Worker, Reserve(w), NEW p \in Purchase, p = worker[w].job,
           NEW t \in row'[p].at .. row'[p].at + Hour - 1,
           NEW S, S = {q \in Purchase : /\ row'[q].grant = row'[p].grant
                                        /\ row'[q].accounting \in {"reserved", "settled"}
                                        /\ t < row'[q].at + Hour
                                        /\ row'[q].at <= t}
    PROVE  Total(S) <= grant[row'[p].grant].limits.hourly
<1> DEFINE g == worker[w].grant
           t0 == worker[w].at
           r == [NoReservation EXCEPT !.state = "spending_reserved", !.grant = g,
                                      !.accounting = "reserved", !.at = t0]
           W == RollingWindow(g, t0)
<1>0. /\ TypeOK /\ g \in Grant /\ t0 \in Nat /\ Hour \in Nat
      /\ grant[g].limits.hourly \in Nat
      BY FundingAssumption
         DEF Inv, Typed, TypeOK, Assigned, Reserve, WorkerState, MayReserve, Eligible, LimitRecord
<1>1. r.grant = g /\ r.at = t0
      BY DEF NoReservation
<1>2. row' = [row EXCEPT ![p] = r] /\ row[p].accounting = "none"
      BY DEF Reserve, Update, Booked
<1>3. Total(W) + Amount[p] <= grant[g].limits.hourly
      BY DEF Reserve, MayReserve, Eligible
<1>4. \A q \in Purchase : row[q].at \in Nat
      BY <1>0 DEF TypeOK, Reservation
<1> HIDE DEF r, g, t0
<1>5. /\ row'[p] = r
      /\ \A q \in Purchase : q # p => row'[q] = row[q]
      BY <1>0, <1>2 DEF TypeOK
<1>6. t \in Int /\ t >= t0
      BY <1>0, <1>1, <1>5
<1>7. p \notin W /\ W \in SUBSET Purchase
      BY <1>2 DEF RollingWindow
<1>8. ASSUME NEW q \in S, q # p
      PROVE  q \in W
  <2>1. /\ q \in Purchase /\ row[q].grant = g /\ row[q].accounting \in {"reserved", "settled"}
        /\ t < row[q].at + Hour
        BY <1>1, <1>5, <1>8
  <2>2. row[q].at + Hour > t0
        BY <1>0, <1>4, <1>6, <2>1
  <2>. QED  BY <2>1, <2>2 DEF RollingWindow
<1> HIDE DEF W
<1>9. S \in SUBSET (W \cup {p}) /\ W \cup {p} \in SUBSET Purchase
      BY <1>7, <1>8
<1>10. Total(W \cup {p}) = Total((W \cup {p}) \ {p}) + In(p, W \cup {p})
      BY <1>9, TotalWithout
<1>11. (W \cup {p}) \ {p} = W /\ In(p, W \cup {p}) = Amount[p]
      BY <1>7 DEF In
<1>12. Total(S) <= Total(W \cup {p})
      BY <1>9, TotalPart
<1>13. Total(S) \in Nat /\ Total(W) \in Nat /\ Amount[p] \in Nat
  <2>1. S \in SUBSET Purchase
        OBVIOUS
  <2>. QED  BY <1>7, <2>1, TotalWithout, AmountTyped
<1>14. Total(W \cup {p}) = Total(W) + Amount[p]
      BY <1>10, <1>11
<1>15. Total(S) <= grant[g].limits.hourly
  <2>1. grant[g].limits.hourly \in Nat
        BY <1>0
  <2>. QED  BY <1>3, <1>12, <1>13, <1>14, <2>1
<1>. QED  BY <1>1, <1>5, <1>15

(* No rolling hour that contains a new reservation exceeds the hourly      *)
(* limit, although _reserve_unified_spending reads the clock before it     *)
(* takes the lock.                                                         *)
THEOREM HourlyHolds == Spec => RollingHourBounded
<1> DEFINE Step ==
       \A p \in Purchase :
          row[p].state = "none" /\ row'[p].state # "none" =>
              \A t \in row'[p].at .. row'[p].at + Hour - 1 :
                  LET InHour == {q \in Purchase :
                                    /\ row'[q].grant = row'[p].grant
                                    /\ row'[q].accounting \in {"reserved", "settled"}
                                    /\ t < row'[q].at + Hour
                                    /\ row'[q].at <= t}
                  IN  Total(InHour) <= grant[row'[p].grant].limits.hourly
<1>1. Inv /\ Booked /\ [Next]_vars => Booked'
      BY NextKeeps DEF Kept
<1>2. Inv /\ Booked /\ [Next]_vars => [Step]_vars
      BY BeginsReserved, HourFits
<1>. QED  BY <1>1, <1>2, InitKeeps, FundingInvariant, PTL DEF Spec, RollingHourBounded

-----------------------------------------------------------------------------
(* The contract's room.  Attempts that were claimed for sending fit into   *)
(* the bound SpendGrant, because Core's limits were checked against it     *)
(* when each was claimed, and a binding is never replaced.                 *)
IsClaimed(r) == r.accounting \in {"reserved", "settled"} /\ r.send \notin {"none", "pending"}

Claimed(g) == {p \in Purchase : row[p].grant = g /\ IsClaimed(row[p])}

Room ==
    \A g \in Grant :
        Claimed(g) # {} => bound[g] # NoLimits /\ Total(Claimed(g)) <= bound[g].max

NoNewClaim(q) ==
    IsClaimed(row'[q]) => IsClaimed(row[q]) /\ row'[q].grant = row[q].grant

(* Without a new claim the claimed amounts do not grow. *)
LEMMA RoomStays ==
    ASSUME TypeOK, Room, \A q \in Purchase : NoNewClaim(q),
           \A g \in Grant : bound'[g] = bound[g] \/ bound[g] = NoLimits
    PROVE  Room'
<1> SUFFICES ASSUME NEW g \in Grant, Claimed(g)' # {}
             PROVE  bound'[g] # NoLimits /\ Total(Claimed(g))' <= bound'[g].max
    BY DEF Room
<1>1. PICK C, D : C = Claimed(g) /\ D = Claimed(g)'
      OBVIOUS
<1>2. D \in SUBSET C /\ C \in SUBSET Purchase
      BY <1>1 DEF Claimed, NoNewClaim
<1>3. bound[g] # NoLimits /\ Total(C) <= bound[g].max
      BY <1>1, <1>2 DEF Room
<1>4. bound'[g] = bound[g] /\ bound[g].max \in Nat
      BY <1>3 DEF TypeOK, LimitRecord
<1>5. Total(D) <= Total(C) /\ Total(C) \in Nat /\ Total(D) \in Nat
  <2>1. D \in SUBSET Purchase
        BY <1>2
  <2>. QED  BY <1>2, <2>1, TotalPart, TotalWithout, SumNat, AmountTyped, FundingAssumption, FS_Subset DEF Total
<1>6. Total(D) = Total(Claimed(g))'
      BY <1>1 DEF Total
<1>. QED  BY <1>3, <1>4, <1>5, <1>6

(* Two disjoint sets of purchases. *)
LEMMA TotalOfUnion ==
    ASSUME NEW S \in SUBSET Purchase, NEW T \in SUBSET Purchase, S \cap T = {}
    PROVE  Total(S \cup T) = Total(S) + Total(T)
<1>1. /\ IsFiniteSet(S) /\ IsFiniteSet(T)
      /\ \A x \in S \cup T : Amount[x] \in Int
      BY FundingAssumption, FS_Subset, AmountTyped
<1>. QED  BY <1>1, SumUnion DEF Total

LEMMA TotalIsNat ==
    ASSUME NEW S \in SUBSET Purchase
    PROVE  Total(S) \in Nat
<1>1. IsFiniteSet(S) /\ \A x \in S : Amount[x] \in Nat
      BY FundingAssumption, FS_Subset, AmountTyped
<1>. QED  BY <1>1, SumNat DEF Total

(* ClaimBroadcast has just found Core's limits equal to the bound ones. *)
LEMMA ClaimRoom ==
    ASSUME Inv, LedgerInv, CommittedWithinTotal, Room, NEW w \in Worker, ClaimBroadcast(w)
    PROVE  Room'
<1>. PICK p, h : p = worker[w].job /\ h = row[p].grant
     OBVIOUS
<1> DEFINE r == [row[p] EXCEPT !.send = "broadcasting"]
<1>0. TypeOK /\ p \in Purchase /\ h \in Grant
      BY DEF Inv, Typed, Assigned, ClaimBroadcast
<1>1. /\ r.grant = h /\ r.accounting = row[p].accounting /\ r.send = "broadcasting"
      /\ row' = [row EXCEPT ![p] = r] /\ bound' = bound
      BY <1>0 DEF TypeOK, Reservation, ClaimBroadcast, Update
<1> HIDE DEF r
<1>2. /\ row'[p] = r
      /\ \A q \in Purchase : q # p => row'[q] = row[q]
      BY <1>0, <1>1 DEF TypeOK
<1>3. ASSUME NEW g \in Grant, Claimed(g)' # {}, g # h
      PROVE  bound'[g] # NoLimits /\ Total(Claimed(g))' <= bound'[g].max
  <2>1. Claimed(g)' = Claimed(g)
        BY <1>1, <1>2, <1>3 DEF Claimed
  <2>. QED  BY <1>1, <1>3, <2>1 DEF Room, Total
<1>4. bound[h] # NoLimits /\ Total(Claimed(h))' <= bound[h].max
  <2>1. PICK D, R, S : D = Claimed(h)' /\ R = Held(h, "reserved") /\ S = Held(h, "settled")
        OBVIOUS
  <2>2. D \in SUBSET (R \cup S) /\ R \in SUBSET Purchase /\ S \in SUBSET Purchase /\ R \cap S = {}
    <3>1. ASSUME NEW q \in D
          PROVE  q \in R \cup S
      <4>1. q \in Purchase /\ row'[q].grant = h /\ row'[q].accounting \in {"reserved", "settled"}
            BY <2>1 DEF Claimed, IsClaimed
      <4>2. row[q].grant = h /\ row[q].accounting \in {"reserved", "settled"}
            BY <1>1, <1>2, <4>1
      <4>. QED  BY <2>1, <4>1, <4>2 DEF Held
    <3>. QED  BY <2>1, <3>1 DEF Held
  <2>3. Total(R) = grant[h].reserved /\ Total(S) = grant[h].used
        BY <1>0, <2>1 DEF LedgerInv, LedgerMatchesReservations
  <2>4. grant[h].status # "none" /\ bound[h] # NoLimits /\ bound[h].max = grant[h].limits.max
        BY DEF ClaimBroadcast, LifecycleValid, BindingValid
  <2>5. grant[h].used + grant[h].reserved <= bound[h].max
        BY <1>0, <2>4 DEF CommittedWithinTotal, Committed
  <2>6. Total(D) <= Total(R \cup S) /\ Total(R \cup S) = Total(R) + Total(S)
    <3>1. R \cup S \in SUBSET Purchase
          BY <2>2
    <3>. QED  BY <2>2, <3>1, TotalPart, TotalOfUnion
  <2>7. Total(D) \in Nat /\ Total(R) \in Nat /\ Total(S) \in Nat
    <3>1. D \in SUBSET Purchase
          BY <2>2
    <3>. QED  BY <2>2, <3>1, TotalIsNat
  <2>8. bound[h].max \in Nat
        BY <1>0, <2>4 DEF TypeOK, LimitRecord
  <2>9. Total(D) = Total(Claimed(h))'
        BY <2>1 DEF Total
  <2>. QED  BY <2>3, <2>4, <2>5, <2>6, <2>7, <2>8, <2>9
<1>5. bound' = bound
      BY <1>1
<1>6. ASSUME NEW g \in Grant, Claimed(g)' # {}
      PROVE  bound'[g] # NoLimits /\ Total(Claimed(g))' <= bound'[g].max
  <2>1. CASE g = h
        BY <1>4, <1>5, <2>1
  <2>2. CASE g # h
        BY <1>3, <1>6, <2>2
  <2>. QED  BY <2>1, <2>2
<1>. QED  BY <1>6 DEF Room

(* No other step of a worker claims anything. *)
LEMMA WorkClaimsNothing ==
    ASSUME Inv, NEW w \in Worker, WorkerStep(w), ~ClaimBroadcast(w)
    PROVE  \A q \in Purchase : NoNewClaim(q)
<1> DEFINE Goal == \A q \in Purchase : NoNewClaim(q)
           p == worker[w].job
<1>0. TypeOK /\ (worker[w].pc # "idle" => p \in Purchase)
      BY DEF Inv, Typed, Assigned
<1>1. ASSUME NEW q \in Purchase, NEW r, Update(q, r),
             IsClaimed(r) => IsClaimed(row[q]) /\ r.grant = row[q].grant
      PROVE  Goal
      BY <1>0, <1>1 DEF TypeOK, Update, NoNewClaim
<1>2. ASSUME UNCHANGED ledger
      PROVE  Goal
      BY <1>2 DEF ledger, NoNewClaim
<1>3. ASSUME NEW q \in Purchase,
             \/ \E g \in Grant : ReserveBegin(w, q, g)
             \/ Recover(w, q)
             \/ \E operator \in BOOLEAN : ReconcileBegin(w, q, operator)
      PROVE  Goal
      BY <1>2, <1>3 DEF ReserveBegin, Recover, ReconcileBegin
<1>4. CASE ReserveReplay(w) \/ BroadcastClaimed(w) \/ Verify(w) \/ VerifyFails(w) \/ Abandon(w)
      BY <1>2, <1>4 DEF ReserveReplay, BroadcastClaimed, Verify, VerifyFails, Abandon
<1>5. ASSUME NEW taken \in BOOLEAN, NEW outcome \in {"broadcasted", "ambiguous"},
             Send(w, taken, outcome)
      PROVE  Goal
      BY <1>2, <1>5 DEF Send
<1>6. ASSUME NEW q \in Purchase, Settle(w, q)
      PROVE  Goal
  <2>1. PICK n : Update(q, [row[q] EXCEPT !.state = "payment_submitted", !.send = "pending",
                                          !.nonce = AllocatedNonce(n), !.started = now,
                                          !.deadline = Smaller(now + Lifetime, Expires[row[q].grant])])
        BY <1>6 DEF Settle
  <2> DEFINE r == [row[q] EXCEPT !.state = "payment_submitted", !.send = "pending",
                                 !.nonce = AllocatedNonce(n), !.started = now,
                                 !.deadline = Smaller(now + Lifetime, Expires[row[q].grant])]
  <2>2. r.send = "pending"
        BY <1>0 DEF TypeOK, Reservation
  <2>3. Update(q, r)
        BY <2>1
  <2> HIDE DEF r
  <2>. QED  BY <1>1, <2>2, <2>3 DEF IsClaimed
<1>7. ASSUME Reserve(w)
      PROVE  Goal
  <2> DEFINE r == [NoReservation EXCEPT !.state = "spending_reserved", !.grant = worker[w].grant,
                                        !.accounting = "reserved", !.at = worker[w].at]
  <2>1. p \in Purchase /\ Update(p, r)
        BY <1>0, <1>7 DEF Reserve
  <2>2. r.send = "none"
        BY DEF NoReservation
  <2> HIDE DEF r, p
  <2>. QED  BY <1>1, <2>1, <2>2 DEF IsClaimed
<1> DEFINE Alike(r) == IsClaimed(r) => IsClaimed(row[p]) /\ r.grant = row[p].grant
<1>8. ASSUME p \in Purchase
      PROVE  /\ Alike([row[p] EXCEPT !.rail = TRUE])
             /\ Alike([row[p] EXCEPT !.review = TRUE])
             /\ Alike([row[p] EXCEPT !.review = FALSE])
             /\ Alike([row[p] EXCEPT !.attempts = @ + 1])
             /\ Alike([row[p] EXCEPT !.state = "unpaid_terminal", !.accounting = "released",
                                     !.review = TRUE])
      BY <1>0, <1>8 DEF TypeOK, Reservation, IsClaimed
<1>9. CASE PinRail(w) \/ ReconcileLimit(w) \/ StayPending(w) \/ MarkUnpaid(w)
  <2>1. p \in Purchase
        BY <1>0, <1>9 DEF PinRail, ReconcileLimit, StayPending, MarkUnpaid
  <2>2. \E r : Alike(r) /\ Update(p, r)
        BY <1>8, <1>9, <2>1 DEF PinRail, ReconcileLimit, StayPending, MarkUnpaid
  <2>. QED  BY <1>1, <2>1, <2>2
<1>10. CASE ReconcileAttempt(w)
  <2>1. p \in Purchase
        BY <1>0, <1>10 DEF ReconcileAttempt
  <2>2. \E r : Alike(r) /\ Update(p, r)
        BY <1>8, <1>10, <2>1 DEF ReconcileAttempt
  <2>. QED  BY <1>1, <2>1, <2>2
<1>11. CASE CompleteSettled(w)
  <2> DEFINE c == [row[p] EXCEPT !.state = "settled", !.accounting = "settled", !.review = FALSE]
  <2>1. p \in Purchase /\ row[p].accounting = "reserved" /\ Update(p, c)
        BY <1>0, <1>11 DEF CompleteSettled, SettleBudget
  <2>2. c.send = row[p].send /\ c.grant = row[p].grant
        BY <1>0, <2>1 DEF TypeOK, Reservation
  <2> HIDE DEF c
  <2>. QED  BY <1>1, <2>1, <2>2 DEF IsClaimed
<1>12. CASE RecordBroadcast(w)
  <2>1. p \in Purchase /\ worker[w].pc = "record"
        BY <1>0, <1>12 DEF RecordBroadcast
  <2>2. row[p].send \notin {"none", "pending"}
        BY <2>1 DEF Inv, Sends, Unsent
  <2>3. CASE row[p].state = "payment_submitted"
    <3> DEFINE c == [row[p] EXCEPT !.send = worker[w].outcome]
    <3>1. Update(p, c)
          BY <1>12, <2>3 DEF RecordBroadcast
    <3>2. c.accounting = row[p].accounting /\ c.grant = row[p].grant
          BY <1>0, <2>1 DEF TypeOK, Reservation
    <3> HIDE DEF c
    <3>. QED  BY <1>1, <2>1, <2>2, <3>1, <3>2 DEF IsClaimed
  <2>4. CASE row[p].state # "payment_submitted"
        BY <1>12, <2>1, <2>4 DEF RecordBroadcast, NoNewClaim
  <2>. QED  BY <2>3, <2>4
<1>. QED  BY <1>3, <1>4, <1>5, <1>6, <1>7, <1>9, <1>10, <1>11, <1>12 DEF WorkerStep

LEMMA NextRoom ==
    Inv /\ LedgerInv /\ CommittedWithinTotal /\ Room /\ [Next]_vars => Room'
<1> SUFFICES ASSUME Inv, LedgerInv, CommittedWithinTotal, Room, [Next]_vars
             PROVE  Room'
    OBVIOUS
<1>0. TypeOK
      BY DEF Inv, Typed
<1>1. CASE OwnerStep
  <2>1. row' = row
        BY <1>1 DEF OwnerStep, CreateGrant, ReduceGrant, AmendGrant, PauseGrant, ResumeGrant,
                    RevokeGrant, ExpireGrant, BindGrant, RevokeIdentity, PrepareDisconnect,
                    DisconnectWallet, EndIdentity
  <2>2. bound' = bound \/ \E g \in Grant : bound[g] = NoLimits
                                           /\ bound' = [bound EXCEPT ![g] = grant[g].limits]
        BY <1>1 DEF OwnerStep, CreateGrant, ReduceGrant, AmendGrant, PauseGrant, ResumeGrant,
                    RevokeGrant, ExpireGrant, BindGrant, RevokeIdentity, PrepareDisconnect,
                    DisconnectWallet, EndIdentity
  <2>3. \A g \in Grant : bound'[g] = bound[g] \/ bound[g] = NoLimits
        BY <1>0, <2>2 DEF TypeOK
  <2>. QED  BY <1>0, <2>1, <2>3, RoomStays DEF NoNewClaim
<1>2. CASE ChainStep \/ Tick \/ UNCHANGED vars
  <2>1. row' = row /\ bound' = bound
        BY <1>2 DEF ChainStep, Tick, Mine, Reorganise, Drop, BecomeFinal, RevokeOnChain, vars, ledger
  <2>. QED  BY <1>0, <2>1, RoomStays DEF NoNewClaim
<1>3. ASSUME NEW w \in Worker, WorkerStep(w)
      PROVE  Room'
  <2>1. CASE ClaimBroadcast(w)
        BY <2>1, ClaimRoom
  <2>2. CASE ~ClaimBroadcast(w)
    <3>1. \A q \in Purchase : NoNewClaim(q)
          BY <1>3, <2>2, WorkClaimsNothing
    <3>2. bound' = bound
      <4>1. ASSUME NEW q \in Purchase,
                   \/ \E g \in Grant : ReserveBegin(w, q, g)
                   \/ Settle(w, q) \/ Recover(w, q)
                   \/ \E operator \in BOOLEAN : ReconcileBegin(w, q, operator)
            PROVE  bound' = bound
            BY <4>1 DEF ReserveBegin, Settle, Recover, ReconcileBegin, ledger
      <4>2. ASSUME \/ Reserve(w) \/ ReserveReplay(w) \/ PinRail(w) \/ BroadcastClaimed(w)
                   \/ \E taken \in BOOLEAN, outcome \in {"broadcasted", "ambiguous"} :
                         Send(w, taken, outcome)
                   \/ RecordBroadcast(w) \/ ReconcileLimit(w) \/ ReconcileAttempt(w)
                   \/ Verify(w) \/ VerifyFails(w) \/ StayPending(w) \/ Abandon(w)
                   \/ CompleteSettled(w) \/ MarkUnpaid(w)
            PROVE  bound' = bound
            BY <4>2 DEF Reserve, ReserveReplay, PinRail, BroadcastClaimed, Send, RecordBroadcast,
                        ReconcileLimit, ReconcileAttempt, Verify, VerifyFails, StayPending, Abandon,
                        CompleteSettled, MarkUnpaid, ledger
      <4>. QED  BY <1>3, <2>2, <4>1, <4>2 DEF WorkerStep
    <3>. QED  BY <1>0, <3>1, <3>2, RoomStays
  <2>. QED  BY <2>1, <2>2
<1>4. ASSUME NEW p \in Purchase, FinalizeReservation(p) \/ ReleaseReservation(p)
      PROVE  Room'
  <2>1. \A q \in Purchase : NoNewClaim(q)
    <3> DEFINE c == [row[p] EXCEPT !.state = "finalized"]
               m == [row[p] EXCEPT !.state = "released", !.accounting = "released"]
    <3>1. /\ c.send = row[p].send /\ c.accounting = row[p].accounting /\ c.grant = row[p].grant
          /\ m.accounting = "released"
          BY <1>0 DEF TypeOK, Reservation
    <3>2. Update(p, c) \/ Update(p, m)
          BY <1>4 DEF FinalizeReservation, ReleaseReservation
    <3> HIDE DEF c, m
    <3>. QED  BY <1>0, <3>1, <3>2 DEF Update, NoNewClaim, IsClaimed, TypeOK
  <2>. QED  BY <1>0, <1>4, <2>1, RoomStays DEF FinalizeReservation, ReleaseReservation
<1>. QED  BY <1>1, <1>2, <1>3, <1>4 DEF Next

(* A transaction in the pool, and those that have paid, were claimed. *)
LEMMA RoomIsLeft == Inv /\ Room => ContractHasRoom
<1> SUFFICES ASSUME Inv, Room, NEW p \in Purchase, fate[p] = "pool"
             PROVE  Spent(row[p].grant) + Amount[p] <= bound[row[p].grant].max
    BY DEF ContractHasRoom
<1> DEFINE g == row[p].grant
           Paid == {q \in Purchase : row[q].grant = g /\ fate[q] = "paid"}
<1>1. \A q \in Purchase : fate[q] \in {"pool", "paid"} => IsClaimed(row[q])
      BY DEF Inv, Sends, Unsent, Verdicts, IsClaimed
<1>2. g \in Grant
      BY <1>1 DEF Inv, Typed, Assigned, Sends, IsClaimed
<1>3. p \in Claimed(g) /\ Paid \cup {p} \in SUBSET Claimed(g) /\ p \notin Paid
      BY <1>1 DEF Claimed
<1>4. Claimed(g) \in SUBSET Purchase /\ Paid \in SUBSET Purchase /\ Paid \cup {p} \in SUBSET Purchase
      BY DEF Claimed
<1>5. Spent(g) = Total(Paid)
      BY DEF Spent
<1>6. bound[g] # NoLimits /\ Total(Claimed(g)) <= bound[g].max
      BY <1>2, <1>3 DEF Room
<1>7. bound[g].max \in Nat
      BY <1>2, <1>6 DEF Inv, Typed, TypeOK, LimitRecord
<1> HIDE DEF Paid, g
<1>8. Total(Paid \cup {p}) = Total((Paid \cup {p}) \ {p}) + In(p, Paid \cup {p})
      BY <1>4, TotalWithout
<1>9. (Paid \cup {p}) \ {p} = Paid /\ In(p, Paid \cup {p}) = Amount[p]
      BY <1>3 DEF In
<1>10. Total(Paid \cup {p}) <= Total(Claimed(g))
      BY <1>3, <1>4, TotalPart
<1>11. Total(Paid) \in Nat /\ Total(Claimed(g)) \in Nat /\ Amount[p] \in Nat
      BY <1>4, TotalIsNat, AmountTyped
<1>12. Total(Paid) + Amount[p] <= bound[g].max
      BY <1>6, <1>7, <1>8, <1>9, <1>10, <1>11
<1>. QED  BY <1>5, <1>12 DEF g

(* What Core has handed to the network always fits into the budget that    *)
(* the contract enforces for the bound SpendGrant, whatever the owner      *)
(* amends or reduces in between.                                           *)
THEOREM RoomOnChain == Spec => []ContractHasRoom
<1>1. Init => Room
      BY DEF Init, Room, Claimed, IsClaimed, NoReservation
<1>2. Inv /\ Booked /\ [Next]_vars => Booked'
      BY NextKeeps DEF Kept
<1>. QED  BY <1>1, <1>2, InitKeeps, InitLedger, NextLedger, NextRoom, RoomIsLeft, TotalHolds,
             FundingInvariant, PTL DEF Spec
=============================================================================
