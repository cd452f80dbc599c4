-------------------------- MODULE RelayerGateProofs --------------------------
(***************************************************************************)
(* Theorems about BudgetExecutor, for any set of owners, grants and        *)
(* executions, any token behaviour and any length of behaviour, and about  *)
(* the relayer's gate in front of it, for any wallets and orders.          *)
(***************************************************************************)
EXTENDS RelayerGate, SumTheorems

-----------------------------------------------------------------------------
(* The contract.                                                           *)

(* Every variable keeps its type: the contract's storage, and the storage  *)
(* a running call would restore, stay within their slots.                  *)
THEOREM TypeCorrect == Spec => []TypeOK
<1> USE ExecutorAssumption
<1>1. Init => TypeOK
  BY DEF Init, TypeOK, Account
<1>2. TypeOK /\ [Next]_vars => TypeOK'
  <2> SUFFICES ASSUME TypeOK, [Next]_vars PROVE TypeOK'
    OBVIOUS
  <2> USE DEF TypeOK
  <2>1. ASSUME NEW o \in Owner, NEW i \in GrantId, Revoke(o, i) PROVE TypeOK'
    BY <2>1 DEF Revoke
  <2>2. ASSUME NEW g \in Grants, NEW x \in Executions, Execute(g, x)
        PROVE  TypeOK'
    <3>1. /\ g.owner \in Owner /\ g.grantId \in GrantId
          /\ x.purchaseId \in PurchaseId /\ x.amount \in Nat
      BY DEF SpendGrant, PurchaseExecution
    <3>2. call' \in Call
      BY <2>2 DEF Execute, Call, Storage
    <3>3. /\ grantDigests' \in [Owner -> [GrantId -> Grants \cup {NoGrant}]]
          /\ spent' \in [Grants -> Nat]
          /\ paid' \in [Owner -> [PurchaseId -> BOOLEAN]]
      BY <2>2, <3>1 DEF Execute, PinGrant
    <3> QED
      BY <2>2, <3>2, <3>3 DEF Execute
  <2>3. ASSUME NEW out, NEW in, NEW ok, TransferSucceeds(out, in, ok)
        PROVE  TypeOK'
    <3>1. call \in Call
      BY <2>3 DEF TransferSucceeds
    <3>2. /\ call.grant \in Grants /\ call.grant \in SpendGrant
          /\ call.execution \in PurchaseExecution
      BY <3>1 DEF Call
    <3>3. /\ call.grant.owner \in Account /\ call.grant.payee \in Account
          /\ call.execution.amount \in Nat
          /\ call.execution.purchaseId \in PurchaseId
      BY <3>2 DEF SpendGrant, PurchaseExecution, Account
    <3>4. balance' \in [Account -> Nat]
      <4>1. /\ call.execution.amount <= balance[call.grant.owner]
            /\ balance[call.grant.owner] \in Nat
            /\ balance[call.grant.payee] \in Nat
        BY <2>3, <3>3 DEF TransferSucceeds, ExactTransfer
      <4>2. /\ balance[call.grant.owner] - call.execution.amount \in Nat
            /\ balance[call.grant.payee] + call.execution.amount \in Nat
        BY <3>3, <4>1
      <4>3. balance' = [balance EXCEPT
                ![call.grant.owner] = balance[call.grant.owner] - call.execution.amount,
                ![call.grant.payee] = balance[call.grant.payee] + call.execution.amount]
        BY <2>3 DEF TransferSucceeds, ExactTransfer
      <4> QED
        BY <4>2, <4>3
    <3>5. events' \in Seq(Event)
      BY <2>3, <3>2, <3>3 DEF TransferSucceeds, Event
    <3> QED
      BY <2>3, <3>4, <3>5 DEF TransferSucceeds
  <2>4. ASSUME NEW out, NEW in, NEW ok, TransferReverts(out, in, ok)
        PROVE  TypeOK'
    <3>1. call \in Call
      BY <2>4 DEF TransferReverts
    <3>2. call.saved \in Storage
      BY <3>1 DEF Call
    <3> QED
      BY <2>4, <3>2 DEF TransferReverts, Storage
  <2>5. CASE Tick
    BY <2>5 DEF Tick
  <2>6. CASE UNCHANGED vars
    BY <2>6 DEF vars
  <2> QED
    BY <2>1, <2>2, <2>3, <2>4, <2>5, <2>6 DEF Next, TokenReturns
<1> QED
  BY <1>1, <1>2, PTL DEF Spec

-----------------------------------------------------------------------------
(* A storage whose charges are within the grants that it pins. *)
Charged(digests, charge) ==
    \A g \in Grants :
        /\ charge[g] <= g.maxTotal
        /\ charge[g] > 0 => digests[g.owner][g.grantId] = g

(* ChargedWithinPinnedGrant is not inductive alone: a call that reverts    *)
(* restores the saved storage, so that one must satisfy it as well.        *)
ChargeInv ==
    /\ ChargedWithinPinnedGrant
    /\ call # NoCall => Charged(call.saved.grantDigests, call.saved.spent)

(* No owner is charged more than maxTotal under a grantId, even if several *)
(* grants were signed with it and even while a token call is running.      *)
THEOREM ChargeBounded == Spec => []ChargedWithinPinnedGrant
<1> USE ExecutorAssumption
<1>1. Init => ChargeInv
  BY DEF Init, ChargeInv, ChargedWithinPinnedGrant, SpendGrant
<1>2. TypeOK /\ ChargeInv /\ [Next]_vars => ChargeInv'
  <2> SUFFICES ASSUME TypeOK, ChargeInv, [Next]_vars PROVE ChargeInv'
    OBVIOUS
  <2>1. ASSUME NEW o \in Owner, NEW i \in GrantId, Revoke(o, i)
        PROVE  ChargeInv'
    BY <2>1 DEF Revoke, ChargeInv, ChargedWithinPinnedGrant, Charged
  <2>2. ASSUME NEW g \in Grants, NEW x \in Executions, Execute(g, x)
        PROVE  ChargeInv'
    <3>1. /\ call'.saved.grantDigests = grantDigests
          /\ call'.saved.spent = spent
      BY <2>2 DEF Execute
    <3>2. Charged(grantDigests, spent)
      BY DEF ChargeInv, ChargedWithinPinnedGrant, Charged
    <3>3. ASSUME NEW h \in Grants
          PROVE  /\ spent'[h] <= h.maxTotal
                 /\ spent'[h] > 0 => grantDigests'[h.owner][h.grantId] = h
      <4>1. /\ x.amount \in Nat /\ g.maxTotal \in Nat /\ spent[g] \in Nat
            /\ g.owner \in Owner /\ g.grantId \in GrantId
            /\ h.owner \in Owner /\ h.grantId \in GrantId
        BY DEF SpendGrant, PurchaseExecution, TypeOK
      <4>2. /\ spent' = [spent EXCEPT ![g] = @ + x.amount]
            /\ grantDigests' = [grantDigests EXCEPT ![g.owner][g.grantId] = g]
            /\ spent[g] <= g.maxTotal /\ x.amount <= g.maxTotal - spent[g]
            /\ grantDigests[g.owner][g.grantId] \in {NoGrant, g}
        BY <2>2 DEF Execute, FitsTotal, NotConflicting, PinGrant
      <4>3. CASE h = g
        BY <4>1, <4>2, <4>3 DEF TypeOK
      <4>4. CASE h # g
        <5>1. spent'[h] = spent[h]
          BY <4>2, <4>4 DEF TypeOK
        <5>2. ASSUME spent[h] > 0 PROVE grantDigests'[h.owner][h.grantId] = h
          <6>1. grantDigests[h.owner][h.grantId] = h
            BY <5>2 DEF ChargeInv, ChargedWithinPinnedGrant
          <6>2. <<h.owner, h.grantId>> # <<g.owner, g.grantId>>
            BY <4>2, <4>4, <6>1
          <6> QED
            BY <4>1, <4>2, <6>1, <6>2 DEF TypeOK
        <5> QED
          BY <5>1, <5>2 DEF ChargeInv, ChargedWithinPinnedGrant
      <4> QED
        BY <4>3, <4>4
    <3> QED
      BY <3>1, <3>2, <3>3 DEF ChargeInv, ChargedWithinPinnedGrant
  <2>3. ASSUME NEW out, NEW in, NEW ok, TransferSucceeds(out, in, ok)
        PROVE  ChargeInv'
    BY <2>3 DEF TransferSucceeds, ChargeInv, ChargedWithinPinnedGrant
  <2>4. ASSUME NEW out, NEW in, NEW ok, TransferReverts(out, in, ok)
        PROVE  ChargeInv'
    BY <2>4 DEF TransferReverts, ChargeInv, ChargedWithinPinnedGrant, Charged
  <2>5. CASE Tick
    BY <2>5 DEF Tick, ChargeInv, ChargedWithinPinnedGrant, Charged
  <2>6. CASE UNCHANGED vars
    BY <2>6 DEF vars, ChargeInv, ChargedWithinPinnedGrant, Charged
  <2> QED
    BY <2>1, <2>2, <2>3, <2>4, <2>5, <2>6 DEF Next, TokenReturns
<1>3. ChargeInv => ChargedWithinPinnedGrant
  BY DEF ChargeInv
<1> QED
  BY <1>1, <1>2, <1>3, TypeCorrect, PTL DEF Spec

-----------------------------------------------------------------------------
(* Every logged payment is marked in a paid mapping. *)
Marks(marked) ==
    \A n \in DOMAIN events :
        marked[events[n].grantHash.owner][events[n].purchaseId]

(* Why a purchase is paid once: both the current and the saved mapping     *)
(* mark every logged payment, and the running call marks a purchase that   *)
(* the saved mapping, hence the log, does not have.                        *)
PaymentInv ==
    /\ OnePaymentPerPurchase
    /\ Marks(paid)
    /\ call # NoCall =>
          /\ Marks(call.saved.paid)
          /\ paid[call.grant.owner][call.execution.purchaseId]
          /\ ~call.saved.paid[call.grant.owner][call.execution.purchaseId]

(* An owner pays a purchase at most once, through any number of grants,    *)
(* permits, callbacks and reverted transactions.                           *)
THEOREM PaidOnce == Spec => []OnePaymentPerPurchase
<1> USE ExecutorAssumption
<1>1. Init => PaymentInv
  BY DEF Init, PaymentInv, OnePaymentPerPurchase, Marks
<1>2. TypeOK /\ PaymentInv /\ [Next]_vars => PaymentInv'
  <2> SUFFICES ASSUME TypeOK, PaymentInv, [Next]_vars PROVE PaymentInv'
    OBVIOUS
  <2>1. ASSUME NEW o \in Owner, NEW i \in GrantId, Revoke(o, i)
        PROVE  PaymentInv'
    BY <2>1 DEF Revoke, PaymentInv, OnePaymentPerPurchase, Marks
  <2>2. ASSUME NEW g \in Grants, NEW x \in Executions, Execute(g, x)
        PROVE  PaymentInv'
    <3>1. /\ g.owner \in Owner /\ x.purchaseId \in PurchaseId
      BY DEF SpendGrant, PurchaseExecution
    <3>2. /\ call'.saved.paid = paid /\ call'.grant = g /\ call'.execution = x
          /\ ~paid[g.owner][x.purchaseId]
          /\ paid' = [paid EXCEPT ![g.owner][x.purchaseId] = TRUE]
          /\ events' = events
      BY <2>2 DEF Execute, NotPaid
    <3>3. ASSUME NEW o \in Owner, NEW p \in PurchaseId, paid[o][p]
          PROVE  paid'[o][p]
      BY <3>1, <3>2, <3>3 DEF TypeOK
    <3>4. \A n \in DOMAIN events :
            /\ events[n].grantHash.owner \in Owner
            /\ events[n].purchaseId \in PurchaseId
      <4>1. ASSUME NEW n \in DOMAIN events PROVE events[n] \in Event
        BY DEF TypeOK
      <4>2. \A e \in Event : e.grantHash \in SpendGrant
        BY DEF Event
      <4> QED
        BY <4>1, <4>2 DEF Event, SpendGrant
    <3>5. Marks(paid)'
      BY <3>2, <3>3, <3>4 DEF Marks, PaymentInv
    <3>6. paid'[g.owner][x.purchaseId]
      BY <3>1, <3>2 DEF TypeOK
    <3>7. Marks(call.saved.paid)'
      BY <3>2 DEF Marks, PaymentInv
    <3>8. OnePaymentPerPurchase'
      BY <3>2 DEF OnePaymentPerPurchase, PaymentInv
    <3> QED
      BY <3>2, <3>5, <3>6, <3>7, <3>8 DEF PaymentInv
  <2>3. ASSUME NEW out, NEW in, NEW ok, TransferSucceeds(out, in, ok)
        PROVE  PaymentInv'
    <3> DEFINE e == [grantHash |-> call.grant,
                     purchaseId |-> call.execution.purchaseId,
                     amount |-> call.execution.amount]
    <3>1. /\ events' = Append(events, e) /\ call' = NoCall /\ paid' = paid
          /\ call # NoCall
      BY <2>3 DEF TransferSucceeds
    <3>2. /\ DOMAIN events' = 1 .. Len(events) + 1
          /\ DOMAIN events = 1 .. Len(events)
          /\ Len(events) \in Nat
          /\ events'[Len(events) + 1] = e
          /\ \A n \in 1 .. Len(events) : events'[n] = events[n]
      BY <3>1 DEF TypeOK
    <3>3. \A n \in 1 .. Len(events) :
            ~(/\ events[n].grantHash.owner = e.grantHash.owner
              /\ events[n].purchaseId = e.purchaseId)
      BY <3>1, <3>2 DEF PaymentInv, Marks
    <3>4. OnePaymentPerPurchase'
      BY <3>2, <3>3 DEF PaymentInv, OnePaymentPerPurchase
    <3>5. Marks(paid)'
      <4>1. ASSUME NEW n \in DOMAIN events'
            PROVE  paid[events'[n].grantHash.owner][events'[n].purchaseId]
        <5>1. CASE n = Len(events) + 1
          BY <3>1, <3>2, <5>1 DEF PaymentInv
        <5>2. CASE n \in 1 .. Len(events)
          BY <3>2, <5>2 DEF PaymentInv, Marks
        <5> QED
          BY <3>2, <5>1, <5>2
      <4> QED
        BY <3>1, <4>1 DEF Marks
    <3> QED
      BY <3>1, <3>4, <3>5 DEF PaymentInv
  <2>4. ASSUME NEW out, NEW in, NEW ok, TransferReverts(out, in, ok)
        PROVE  PaymentInv'
    BY <2>4 DEF TransferReverts, PaymentInv, OnePaymentPerPurchase, Marks
  <2>5. CASE Tick
    BY <2>5 DEF Tick, PaymentInv, OnePaymentPerPurchase, Marks
  <2>6. CASE UNCHANGED vars
    BY <2>6 DEF vars, PaymentInv, OnePaymentPerPurchase, Marks
  <2> QED
    BY <2>1, <2>2, <2>3, <2>4, <2>5, <2>6 DEF Next, TokenReturns
<1>3. PaymentInv => OnePaymentPerPurchase
  BY DEF PaymentInv
<1> QED
  BY <1>1, <1>2, <1>3, TypeCorrect, PTL DEF Spec

-----------------------------------------------------------------------------
(* The running call's grant was not revoked when the call began, and the   *)
(* call has only added revocations since.                                  *)
RevocationInv ==
    call # NoCall =>
        /\ ~call.saved.revoked[call.grant.owner][call.grant.grantId]
        /\ \A o \in Owner, i \in GrantId :
              call.saved.revoked[o][i] => revoked[o][i]

(* What one step of the contract may do to revoked grants. *)
RevocationKept ==
    \A o \in Owner, i \in GrantId :
        RevokedForGood(o, i) =>
            /\ RevokedForGood(o, i)'
            /\ \A n \in DOMAIN events' \ DOMAIN events :
                  ~(/\ events'[n].grantHash.owner = o
                    /\ events'[n].grantHash.grantId = i)

(* Revoking a grant on chain is final: no later payment is made under its  *)
(* id and no reverted transaction brings the id back.                      *)
THEOREM Revocation == Spec => RevocationIsFinal
<1> USE ExecutorAssumption
<1>1. Init => RevocationInv
  BY DEF Init, RevocationInv
<1>2. TypeOK /\ RevocationInv /\ [Next]_vars => RevocationInv' /\ RevocationKept
  <2> SUFFICES ASSUME TypeOK, RevocationInv, [Next]_vars
               PROVE  RevocationInv' /\ RevocationKept
    OBVIOUS
  <2> USE DEF RevocationInv, RevocationKept, RevokedForGood
  <2>1. ASSUME NEW o \in Owner, NEW i \in GrantId, Revoke(o, i)
        PROVE  RevocationInv' /\ RevocationKept
    <3>1. \A q \in Owner, j \in GrantId : revoked[q][j] => revoked'[q][j]
      BY <2>1 DEF Revoke, TypeOK
    <3> QED
      BY <2>1, <3>1 DEF Revoke
  <2>2. ASSUME NEW g \in Grants, NEW x \in Executions, Execute(g, x)
        PROVE  RevocationInv' /\ RevocationKept
    BY <2>2 DEF Execute, NotRevoked
  <2>3. ASSUME NEW out, NEW in, NEW ok, TransferSucceeds(out, in, ok)
        PROVE  RevocationInv' /\ RevocationKept
    <3> DEFINE e == [grantHash |-> call.grant,
                     purchaseId |-> call.execution.purchaseId,
                     amount |-> call.execution.amount]
    <3>1. /\ events' = Append(events, e) /\ call' = NoCall
          /\ revoked' = revoked /\ call # NoCall
      BY <2>3 DEF TransferSucceeds
    <3>2. \A n \in DOMAIN events' \ DOMAIN events : events'[n] = e
      BY <3>1 DEF TypeOK
    <3> QED
      BY <3>1, <3>2
  <2>4. ASSUME NEW out, NEW in, NEW ok, TransferReverts(out, in, ok)
        PROVE  RevocationInv' /\ RevocationKept
    BY <2>4 DEF TransferReverts
  <2>5. CASE Tick
    BY <2>5 DEF Tick
  <2>6. CASE UNCHANGED vars
    BY <2>6 DEF vars
  <2> QED
    BY <2>1, <2>2, <2>3, <2>4, <2>5, <2>6 DEF Next, TokenReturns
<1> QED
  BY <1>1, <1>2, TypeCorrect, PTL DEF Spec, RevocationIsFinal, RevocationKept

-----------------------------------------------------------------------------
(* What the log says was paid.                                             *)

LEMMA OutflowGrows ==
    ASSUME NEW log \in Seq(Event), NEW e \in Event, NEW G
    PROVE  /\ SumOver(Took(log, G), DOMAIN log) \in Nat
           /\ SumOver(Took(Append(log, e), G), DOMAIN Append(log, e))
                 = SumOver(Took(log, G), DOMAIN log) + (IF e.grantHash \in G THEN e.amount ELSE 0)
<1> DEFINE more == Append(log, e)
           n == Len(log) + 1
           F == Took(log, G)
           F2 == Took(more, G)
<1>1. /\ Len(log) \in Nat /\ n \in Nat /\ DOMAIN log = 1..Len(log) /\ DOMAIN more = 1..n
      /\ more[n] = e /\ more \in Seq(Event)
      /\ \A x \in 1..Len(log) : more[x] = log[x] /\ log[x] \in Event
      OBVIOUS
<1>2. IsFiniteSet(1..Len(log)) /\ IsFiniteSet(1..n)
      BY <1>1, FS_Interval
<1>3. \A x \in 1..Len(log) : F[x] \in Nat /\ F2[x] = F[x]
      BY <1>1 DEF Took, Event, PurchaseExecution
<1>4. F2[n] = (IF e.grantHash \in G THEN e.amount ELSE 0) /\ F2[n] \in Nat
      BY <1>1 DEF Took, Event
<1>5. n \in 1..n /\ (1..n) \ {n} = 1..Len(log)
      BY <1>1
<1>6. \A x \in 1..n : F2[x] \in Int
      BY <1>1, <1>3, <1>4
<1>. HIDE DEF F, F2, n, more
<1>7. SumOver(F2, 1..n) = F2[n] + SumOver(F2, 1..Len(log))
  <2>1. SumOver(F2, 1..n) = F2[n] + SumOver(F2, (1..n) \ {n})
    <3>1. IsFiniteSet(1..n) /\ n \in 1..n
          BY <1>2, <1>5
    <3>. QED  BY <3>1, <1>6, SumWithout
  <2>. QED  BY <2>1, <1>5
<1>8. SumOver(F2, 1..Len(log)) = SumOver(F, 1..Len(log)) /\ SumOver(F, 1..Len(log)) \in Nat
      BY <1>2, <1>3, SumSame, SumNat
<1>. QED  BY <1>1, <1>4, <1>7, <1>8 DEF F, F2, more

(* A storage whose accounting is that of the log. *)
Balanced(charge, account) ==
    /\ \A g \in Grants : charge[g] = Outflow({g})
    /\ \A o \in Owner :
          account[o] + Outflow({g \in Grants : g.owner = o}) = InitialBalance[o]

(* While a call runs, the storage it would restore agrees with the log, and *)
(* the current one differs from it by the call's charge.                   *)
AccountInv ==
    IF call = NoCall THEN Balanced(spent, balance)
    ELSE /\ Balanced(call.saved.spent, call.saved.balance)
         /\ spent = [call.saved.spent EXCEPT ![call.grant] = @ + call.execution.amount]
         /\ balance = call.saved.balance

(* What was paid under a set of grants is a number ...                     *)
LEMMA OutflowIsNat ==
    ASSUME TypeOK
    PROVE  \A G : Outflow(G) \in Nat
<1>1. events \in Seq(Event)
      BY DEF TypeOK
<1>2. /\ Len(events) \in Nat /\ DOMAIN events = 1..Len(events)
      /\ \A x \in DOMAIN events : events[x] \in Event
      BY <1>1
<1>3. IsFiniteSet(DOMAIN events)
      BY <1>2, FS_Interval
<1>4. ASSUME NEW G
      PROVE  SumOver(Took(events, G), DOMAIN events) \in Nat
  <2>1. \A x \in DOMAIN events : Took(events, G)[x] \in Nat
        BY <1>2 DEF Took, Event
  <2>. QED  BY <1>3, <2>1, SumNat
<1>. QED  BY <1>4 DEF Outflow

(* ... and stays as it is while the log does.                              *)
LEMMA SameLog ==
    ASSUME events' = events
    PROVE  \A G : Outflow(G)' = Outflow(G)
BY DEF Outflow

(* A call charges the storage, moves and logs the amount when its token    *)
(* call succeeds, and restores the storage when it does not.               *)
LEMMA AccountSteps ==
    ASSUME TypeOK, TypeOK', AccountInv, [Next]_vars
    PROVE  AccountInv'
<1> USE ExecutorAssumption
<1>1. ASSUME NEW o \in Owner, NEW i \in GrantId, Revoke(o, i)
      PROVE  AccountInv'
      BY <1>1, SameLog DEF Revoke, AccountInv, Balanced
<1>2. ASSUME NEW g \in Grants, NEW x \in Executions, Execute(g, x)
      PROVE  AccountInv'
  <2>1. /\ call = NoCall /\ call'.saved.spent = spent /\ call'.saved.balance = balance
        /\ call'.grant = g /\ call'.execution = x
        /\ spent' = [spent EXCEPT ![g] = @ + x.amount]
        /\ balance' = balance /\ events' = events
        BY <1>2 DEF Execute
  <2>4. call' # NoCall
    <3>1. call' \in Call
          BY <1>2 DEF Execute, Call, Storage, TypeOK
    <3>. QED  BY <3>1, CallAssumption
  <2>2. Balanced(spent, balance)
        BY <2>1 DEF AccountInv
  <2>3. Balanced(call.saved.spent, call.saved.balance)'
    <3>1. /\ \A h \in Grants : call'.saved.spent[h] = Outflow({h})'
          /\ \A o \in Owner : call'.saved.balance[o] + Outflow({h \in Grants : h.owner = o})'
                               = InitialBalance[o]
          BY <2>1, <2>2, SameLog DEF Balanced
    <3>. QED  BY <3>1 DEF Balanced
  <2>. QED  BY <2>1, <2>3, <2>4 DEF AccountInv
<1>3. ASSUME NEW out, NEW in, NEW ok, TransferSucceeds(out, in, ok)
      PROVE  AccountInv'
  <2> DEFINE g == call.grant
             x == call.execution
             e == [grantHash |-> g, purchaseId |-> x.purchaseId, amount |-> x.amount]
             s == call.saved.spent
             b == call.saved.balance
  <2>1. /\ call \in Call /\ call # NoCall /\ call' = NoCall
        /\ out = x.amount /\ in = x.amount
        /\ balance' = [balance EXCEPT ![g.owner] = @ - out, ![g.payee] = @ + in]
        /\ events' = Append(events, e)
        /\ spent' = spent
        BY <1>3 DEF TransferSucceeds, ExactTransfer, TypeOK
  <2>2. /\ g \in Grants /\ g.owner \in Owner /\ g.payee \notin Owner
        /\ x.amount \in Nat /\ e \in Event /\ e.grantHash = g /\ e.amount = x.amount
        /\ s \in [Grants -> Nat] /\ b \in [Account -> Nat]
    <3>1. g \in Grants /\ x \in Executions /\ call.saved \in Storage
          BY <2>1 DEF Call
    <3>2. /\ g.owner \in Owner /\ g.payee \in Payee
          /\ x.amount \in Nat /\ x.purchaseId \in PurchaseId
          BY <3>1 DEF SpendGrant, PurchaseExecution
    <3>. QED  BY <3>1, <3>2 DEF Event, Storage
  <2>3. /\ Balanced(s, b)
        /\ spent = [s EXCEPT ![g] = @ + x.amount]
        /\ balance = b
        BY <2>1 DEF AccountInv
  <2>4. events \in Seq(Event)
        BY DEF TypeOK
  <2>. HIDE DEF e
  <2>5. ASSUME NEW G
        PROVE  Outflow(G)' = Outflow(G) + (IF g \in G THEN x.amount ELSE 0)
    <3>1. SumOver(Took(Append(events, e), G), DOMAIN Append(events, e))
            = SumOver(Took(events, G), DOMAIN events) + (IF e.grantHash \in G THEN e.amount ELSE 0)
          BY <2>2, <2>4, OutflowGrows
    <3>. QED  BY <2>1, <2>2, <3>1 DEF Outflow
  <2>6. ASSUME NEW h \in Grants
        PROVE  spent'[h] = Outflow({h})'
    <3>1. s[h] = Outflow({h}) /\ Outflow({h})' = Outflow({h}) + (IF h = g THEN x.amount ELSE 0)
          BY <2>3, <2>5 DEF Balanced
    <3>2. spent'[h] = s[h] + (IF h = g THEN x.amount ELSE 0)
          BY <2>1, <2>2, <2>3
    <3>. QED  BY <3>1, <3>2
  <2>7. ASSUME NEW o \in Owner
        PROVE  balance'[o] + Outflow({h \in Grants : h.owner = o})' = InitialBalance[o]
    <3>1. /\ b[o] + Outflow({h \in Grants : h.owner = o}) = InitialBalance[o]
          /\ Outflow({h \in Grants : h.owner = o})'
                = Outflow({h \in Grants : h.owner = o}) + (IF g.owner = o THEN x.amount ELSE 0)
          BY <2>2, <2>3, <2>5 DEF Balanced
    <3>2. balance'[o] = b[o] - (IF g.owner = o THEN x.amount ELSE 0)
          BY <2>1, <2>2, <2>3 DEF Account
    <3>3. b[o] \in Nat /\ Outflow({h \in Grants : h.owner = o}) \in Nat
          BY <2>2, OutflowIsNat DEF Account
    <3>. QED  BY <2>2, <3>1, <3>2, <3>3
  <2>. QED  BY <2>1, <2>6, <2>7 DEF AccountInv, Balanced
<1>4. ASSUME NEW out, NEW in, NEW ok, TransferReverts(out, in, ok)
      PROVE  AccountInv'
      BY <1>4, SameLog DEF TransferReverts, AccountInv, Balanced
<1>5. CASE Tick
      BY <1>5, SameLog DEF Tick, AccountInv, Balanced
<1>6. CASE UNCHANGED vars
      BY <1>6, SameLog DEF vars, AccountInv, Balanced
<1>. QED  BY <1>1, <1>2, <1>3, <1>4, <1>5, <1>6 DEF Next, TokenReturns

(* Between transactions the charges and the balances are those of the log, *)
(* whatever the token does and however long the log grows.                 *)
THEOREM Accounting == Spec => []AccountingMatchesLog
<1>1. Init => AccountInv
  <2> SUFFICES ASSUME Init PROVE AccountInv
      OBVIOUS
  <2>1. ASSUME NEW G
        PROVE  Outflow(G) = 0
    <3>1. events = <<>> /\ DOMAIN events = {}
          BY DEF Init
    <3>. QED  BY <3>1, SumOfNone DEF Outflow
  <2>2. /\ call = NoCall
        /\ \A g \in Grants : spent[g] = 0
        /\ \A o \in Owner : balance[o] = InitialBalance[o] /\ balance[o] \in Nat
        BY ExecutorAssumption DEF Init, Account
  <2>. QED  BY <2>1, <2>2 DEF AccountInv, Balanced
<1>2. TypeOK /\ AccountInv /\ [Next]_vars /\ TypeOK' => AccountInv'
      BY AccountSteps
<1>3. AccountInv => AccountingMatchesLog
      BY DEF AccountInv, Balanced, AccountingMatchesLog
<1>. QED  BY <1>1, <1>2, <1>3, TypeCorrect, PTL DEF Spec

-----------------------------------------------------------------------------
(* The gate.  Whoever holds the lease or works on an order, the journal    *)
(* names that order, and the journal is cleared only for an order that was *)
(* paid or that has no attempt.  So when a Core prepares an attempt no     *)
(* other is under way: the node's pending count is the mined count, and no *)
(* Core's allocator is ahead of it.                                        *)

Unmined == {"prepared", "claimed", "sent"}

(* The lease and the Cores' work are for the order the journal names. *)
WorkIsActive ==
    /\ lease # NoOrder => active = lease
    /\ \A o \in Owner : operation[o] # NoOrder =>
          operation[o].owner = o /\ active = operation[o]

(* An allocator is ahead of the chain only for its own attempt. *)
AllocatorBehind ==
    \A o \in Owner :
        \/ nextNonce[o] <= mined
        \/ /\ nextNonce[o] = mined + 1
           /\ active # NoOrder
           /\ active.owner = o
           /\ InState(active, Unmined)

(* An attempt pays for its own order, in its own call. *)
AttemptOK(r) ==
    attempt[r] # NoAttempt =>
        /\ attempt[r].execution.grantHash.owner = r.owner
        /\ attempt[r].execution.purchaseId = r.purchaseId
        /\ attempt[r].state = "executing" =>
              /\ call # NoCall
              /\ call.execution = attempt[r].execution
              /\ call.grant = attempt[r].execution.grantHash

Paid(r) ==
    \E n \in DOMAIN events :
        /\ events[n].grantHash.owner = r.owner
        /\ events[n].purchaseId = r.purchaseId

LaneInv ==
    /\ RelayTypeOK
    /\ WorkIsActive
    /\ AllocatorBehind
    /\ \A r \in Orders : AttemptOK(r)
    /\ LaneIsExclusive
    /\ \A r \in Orders : InState(r, {"paid"}) => Paid(r)
    /\ completed # NoOrder => InState(completed, {"paid"})

-----------------------------------------------------------------------------
(* An order is an owner's purchase; an execution of a stored attempt is    *)
(* one that the callers of the contract may submit.                        *)
LEMMA OrderTyped ==
    ASSUME NEW r \in Orders
    PROVE  r.owner \in Owner /\ r.purchaseId \in PurchaseId /\ r # NoOrder
BY RelayAssumption DEF Order

LEMMA ExecutionTyped ==
    ASSUME NEW x \in Executions
    PROVE  x.grantHash \in Grants
BY ExecutorAssumption DEF PurchaseExecution

(* Every variable of the gate, the Cores and the chain keeps its type. *)
THEOREM RelayTypes == RelaySpec => []RelayTypeOK
<1>1. RelayInit => RelayTypeOK
      BY DEF RelayInit, LaneInit, RelayTypeOK
<1>2. RelayTypeOK /\ [RelayNext]_<<vars, relayVars>> => RelayTypeOK'
  <2> SUFFICES ASSUME RelayTypeOK, [RelayNext]_<<vars, relayVars>>
               PROVE  RelayTypeOK'
      OBVIOUS
  <2> USE DEF RelayTypeOK, gateVars, coreVars, relayVars
  <2>1. ASSUME NEW r \in Orders, Request(r) PROVE RelayTypeOK'
        BY <2>1, OrderTyped
        DEF Request, ReconcileVerifiedPayment, Enter, CompleteVerifiedPayment,
            AbortUnsubmitted, LeaveLease, TimeOut
  <2>2. ASSUME NEW r \in Orders, CoreStep(r) PROVE RelayTypeOK'
    <3>1. ASSUME NEW x \in Executions, NEW pending \in PendingCounts,
                 Prepare(r, x, pending)
          PROVE  RelayTypeOK'
      <4>1. pending \in Nat
            BY DEF PendingCounts
      <4>2. QED  BY <3>1, <4>1, OrderTyped DEF Prepare, AllocateRelayerNonce, Attempt, AttemptState
    <3>2. CASE Claim(r)
          BY <3>2, OrderTyped DEF Claim, InState, Attempt, AttemptState
    <3>3. ASSUME NEW taken \in BOOLEAN, Broadcast(r, taken) PROVE RelayTypeOK'
          BY <3>3, OrderTyped DEF Broadcast, InState, Attempt, AttemptState
    <3>4. CASE Record(r)
          BY <3>4, OrderTyped DEF Record, InState, Attempt, AttemptState
    <3>5. CASE Answer(r)
          BY <3>5, OrderTyped DEF Answer
    <3>6. CASE CoreDies(r)
          BY <3>6, OrderTyped DEF CoreDies
    <3>7. QED  BY <2>2, <3>1, <3>2, <3>3, <3>4, <3>5, <3>6 DEF CoreStep
  <2>3. ASSUME NEW r \in Orders, ChainStep(r) PROVE RelayTypeOK'
        BY <2>3 DEF ChainStep, Mine, MinedReturns, InState, Attempt, AttemptState
  <2>4. CASE Others
        BY <2>4 DEF Others
  <2>5. CASE UNCHANGED <<vars, relayVars>>
        BY <2>5
  <2>6. QED  BY <2>1, <2>2, <2>3, <2>4, <2>5 DEF RelayNext
<1>3. QED  BY <1>1, <1>2, PTL DEF RelaySpec

(* Whatever the gate, the Cores and the relayer do, the contract takes a   *)
(* step of BudgetExecutor or none: every theorem about it holds here.      *)
THEOREM RelayCallsContract == RelaySpec => Spec
<1>1. RelayTypeOK /\ [RelayNext]_<<vars, relayVars>> => [Next]_vars
  <2> SUFFICES ASSUME RelayTypeOK, [RelayNext]_<<vars, relayVars>>
               PROVE  [Next]_vars
      OBVIOUS
  <2>1. ASSUME NEW r \in Orders, Request(r) PROVE UNCHANGED vars
        BY <2>1
        DEF Request, ReconcileVerifiedPayment, Enter, CompleteVerifiedPayment,
            AbortUnsubmitted, LeaveLease, TimeOut
  <2>2. ASSUME NEW r \in Orders, CoreStep(r) PROVE UNCHANGED vars
        BY <2>2 DEF CoreStep, Prepare, Claim, Broadcast, Record, Answer, CoreDies
  <2>3. ASSUME NEW r \in Orders, Mine(r) PROVE [Next]_vars
    <3>1. attempt[r].execution \in Executions
          BY <2>3 DEF Mine, InState, RelayTypeOK, Attempt
    <3>2. QED  BY <2>3, <3>1, ExecutionTyped DEF Mine, Next
  <2>4. ASSUME NEW r \in Orders,
               NEW out \in {x.amount : x \in Executions} \cup {0},
               NEW in \in {x.amount : x \in Executions} \cup {0},
               NEW ok \in BOOLEAN,
               MinedReturns(r, out, in, ok)
        PROVE  Next
        BY <2>4 DEF MinedReturns, Next, TokenReturns
  <2>5. CASE Others
        BY <2>5 DEF Others, Next
  <2>6. CASE UNCHANGED <<vars, relayVars>>
        BY <2>6 DEF vars
  <2>7. QED  BY <2>1, <2>2, <2>3, <2>4, <2>5, <2>6 DEF RelayNext, ChainStep
<1>2. QED  BY <1>1, RelayTypes, PTL DEF RelaySpec, RelayInit, Spec

-----------------------------------------------------------------------------
(* What a step that leaves some of the state alone keeps of the invariant. *)
LEMMA PaidStays ==
    ASSUME NEW r, TypeOK, Paid(r),
           events' = events \/ \E e \in Event : events' = Append(events, e)
    PROVE  Paid(r)'
<1>1. PICK n \in DOMAIN events : /\ events[n].grantHash.owner = r.owner
                                /\ events[n].purchaseId = r.purchaseId
      BY DEF Paid
<1>2. CASE events' = events
      BY <1>1, <1>2 DEF Paid
<1>3. ASSUME NEW e \in Event, events' = Append(events, e)
      PROVE  n \in DOMAIN events' /\ events'[n] = events[n]
      BY <1>3 DEF TypeOK
<1>4. QED  BY <1>1, <1>2, <1>3 DEF Paid

LEMMA RequestLane ==
    ASSUME LaneInv, RelayTypeOK', NEW r \in Orders, Request(r)
    PROVE  LaneInv'
<1> USE DEF LaneInv, RelayTypeOK
<1>1. attempt' = attempt /\ mined' = mined /\ nextNonce' = nextNonce
      /\ call' = call /\ events' = events
      BY DEF Request, ReconcileVerifiedPayment, Enter, CompleteVerifiedPayment,
             AbortUnsubmitted, LeaveLease, TimeOut, coreVars, vars
<1>2. /\ \A q \in Orders \cup {NoOrder} : \A S : InState(q, S)' <=> InState(q, S)
      /\ \A q \in Orders : AttemptOK(q)'
      /\ \A q \in Orders : InState(q, {"paid"})' => Paid(q)'
      BY <1>1 DEF InState, AttemptOK, Paid
<1>3. CASE ReconcileVerifiedPayment(r) \/ CompleteVerifiedPayment(r)
  <2>1. /\ active = r /\ active' = NoOrder /\ completed' = r
        /\ InState(r, {"paid"})
        /\ operation' = operation /\ operation[r.owner] = NoOrder
        /\ lease' = NoOrder
        BY <1>3 DEF ReconcileVerifiedPayment, CompleteVerifiedPayment, Answered, LockFree,
                    VerifiedGateProof, coreVars
  <2>2. WorkIsActive'
        BY <2>1, OrderTyped DEF WorkIsActive
  <2>3. AllocatorBehind'
        BY <1>1, <2>1 DEF AllocatorBehind, InState, Unmined
  <2>4. LaneIsExclusive'
        BY <1>1, <1>2, <2>1 DEF LaneIsExclusive, InState
  <2>5. QED  BY <1>2, <2>1, <2>2, <2>3, <2>4, OrderTyped
<1>4. CASE Enter(r)
  <2>1. /\ active \in {r, NoOrder} /\ active' = r /\ lease' = r
        /\ completed' = completed
        /\ operation' = [operation EXCEPT ![r.owner] = r]
        BY <1>4 DEF Enter
  <2>2. WorkIsActive'
        BY <2>1, OrderTyped DEF WorkIsActive
  <2>3. AllocatorBehind'
        BY <1>1, <1>2, <2>1 DEF AllocatorBehind
  <2>4. LaneIsExclusive'
        BY <1>1, <1>2, <2>1, OrderTyped DEF LaneIsExclusive
  <2>5. QED  BY <1>2, <2>1, <2>2, <2>3, <2>4
<1>5. CASE AbortUnsubmitted(r)
  <2>1. /\ active = r /\ active' = NoOrder /\ completed' = completed
        /\ attempt[r] = NoAttempt
        /\ operation' = operation /\ operation[r.owner] = NoOrder
        /\ lease' = NoOrder
        BY <1>5 DEF AbortUnsubmitted, Answered, NoBroadcast, coreVars
  <2>2. WorkIsActive'
        BY <2>1, OrderTyped DEF WorkIsActive
  <2>3. AllocatorBehind'
        BY <1>1, <2>1 DEF AllocatorBehind, InState
  <2>4. LaneIsExclusive'
        BY <1>1, <1>2, <2>1 DEF LaneIsExclusive
  <2>5. QED  BY <1>2, <2>1, <2>2, <2>3, <2>4
<1>6. CASE LeaveLease(r) \/ TimeOut(r)
  <2>1. active' = active /\ completed' = completed /\ operation' = operation
        /\ lease' = NoOrder
        BY <1>6 DEF LeaveLease, TimeOut, coreVars
  <2>2. QED
        BY <1>1, <1>2, <2>1 DEF WorkIsActive, AllocatorBehind, LaneIsExclusive
<1>7. QED  BY <1>3, <1>4, <1>5, <1>6 DEF Request

(* When a Core prepares, no other attempt is under way. *)
LEMMA PendingIsMined ==
    ASSUME LaneInv, NEW r \in Orders, operation[r.owner] = r,
           attempt[r] = NoAttempt, NEW pending \in PendingCounts
    PROVE  pending = mined /\ nextNonce[r.owner] <= mined
<1> USE DEF LaneInv, RelayTypeOK
<1>1. active = r
      BY OrderTyped DEF WorkIsActive
<1>2. {q \in Orders : InState(q, {"sent"})} = {}
      BY <1>1 DEF LaneIsExclusive, InState
<1>3. Cardinality({q \in Orders : InState(q, {"sent"})}) = 0
      BY <1>2, FS_EmptySet
<1>4. pending = mined
      BY <1>3 DEF PendingCounts
<1>5. nextNonce[r.owner] <= mined
      BY <1>1, OrderTyped DEF AllocatorBehind, InState
<1>6. QED  BY <1>4, <1>5

LEMMA CoreLane ==
    ASSUME LaneInv, RelayTypeOK', NEW r \in Orders, CoreStep(r)
    PROVE  LaneInv'
<1> USE DEF LaneInv, RelayTypeOK
<1>1. /\ mined' = mined /\ call' = call /\ events' = events
      /\ active' = active /\ completed' = completed
      BY DEF CoreStep, Prepare, Claim, Broadcast, Record, Answer, CoreDies,
             gateVars, vars
<1>2. operation[r.owner] = r /\ active = r
      BY OrderTyped
      DEF CoreStep, Prepare, Claim, Broadcast, Record, Answer, CoreDies,
          WorkIsActive
<1>3. WorkIsActive'
      BY <1>1, <1>2, OrderTyped
      DEF CoreStep, Prepare, Claim, Broadcast, Record, Answer, CoreDies,
          WorkIsActive, gateVars, coreVars
<1>4. ASSUME NEW x \in Executions, NEW pending \in PendingCounts,
             Prepare(r, x, pending)
      PROVE  LaneInv'
  <2>1. pending = mined /\ nextNonce[r.owner] <= mined
        BY <1>2, <1>4, PendingIsMined DEF Prepare
  <2>2. /\ nextNonce' = [nextNonce EXCEPT ![r.owner] = mined + 1]
        /\ attempt' = [attempt EXCEPT ![r] =
                         [state |-> "prepared", nonce |-> mined,
                          execution |-> x, recorded |-> FALSE]]
        /\ attempt[r] = NoAttempt
        /\ x.grantHash.owner = r.owner /\ x.purchaseId = r.purchaseId
    <3>1. nextNonce[r.owner] \in Nat /\ mined \in Nat
          BY OrderTyped
    <3>2. AllocateRelayerNonce(r.owner, pending) = mined
          BY <2>1, <3>1 DEF AllocateRelayerNonce
    <3>3. QED  BY <1>4, <3>2 DEF Prepare
  <2>3. attempt'[r] # NoAttempt
    <3>1. attempt'[r] \in Attempt
          BY <2>2 DEF Attempt, AttemptState
    <3>2. QED  BY <3>1, RelayAssumption
  <2>4. QED
        BY <1>1, <1>2, <1>3, <2>1, <2>2, <2>3, OrderTyped
        DEF AllocatorBehind, AttemptOK, LaneIsExclusive, InState, Paid, Unmined
<1>5. ASSUME NEW s \in {"claimed", "sent"},
             attempt' = [attempt EXCEPT ![r].state = s],
             InState(r, {"prepared", "claimed"}), nextNonce' = nextNonce
      PROVE  LaneInv'
  <2>1. attempt'[r] # NoAttempt
    <3>1. attempt'[r] \in Attempt
          BY <1>5 DEF InState, Attempt, AttemptState
    <3>2. QED  BY <3>1, RelayAssumption
  <2>2. QED
        BY <1>1, <1>2, <1>3, <1>5, <2>1
        DEF AllocatorBehind, AttemptOK, LaneIsExclusive, InState, Paid, Unmined,
            Attempt
<1>6. CASE Record(r)
  <2>1. /\ attempt' = [attempt EXCEPT ![r].recorded = TRUE]
        /\ nextNonce' = nextNonce /\ InState(r, {"paid", "reverted"})
        BY <1>6 DEF Record, coreVars
  <2>2. attempt'[r] # NoAttempt
    <3>1. attempt'[r] \in Attempt
          BY <2>1 DEF InState, Attempt, AttemptState
    <3>2. QED  BY <3>1, RelayAssumption
  <2>3. QED
        BY <1>1, <1>2, <1>3, <2>1, <2>2
        DEF AllocatorBehind, AttemptOK, LaneIsExclusive, InState, Paid, Unmined,
            Attempt
<1>7. ASSUME attempt' = attempt, nextNonce' = nextNonce
      PROVE  LaneInv'
      BY <1>1, <1>3, <1>7
      DEF AllocatorBehind, AttemptOK, LaneIsExclusive, InState, Paid
<1>8. QED
      BY <1>4, <1>5, <1>6, <1>7
      DEF CoreStep, Claim, Broadcast, Answer, CoreDies, InState

(* A call of execute is running once its effects are made. *)
LEMMA ExecuteCalls ==
    ASSUME TypeOK, NEW g \in Grants, NEW x \in Executions, Execute(g, x)
    PROVE  call' # NoCall /\ call'.execution = x /\ call'.grant = g
<1>1. call' \in Call /\ call'.execution = x /\ call'.grant = g
      BY DEF Execute, TypeOK, Call, Storage
<1>2. QED  BY <1>1, RelayAssumption

(* The attempt of the active order moves on, and the others stay. *)
LEMMA MineLane ==
    ASSUME LaneInv, RelayTypeOK', TypeOK, NEW r \in Orders, Mine(r)
    PROVE  LaneInv'
<1> USE DEF LaneInv, RelayTypeOK
<1>1. /\ InState(r, {"sent"}) /\ attempt[r].nonce = mined /\ mined' = mined + 1
      /\ lease' = lease /\ active' = active /\ completed' = completed
      /\ operation' = operation /\ nextNonce' = nextNonce /\ events' = events
      /\ call = NoCall /\ active = r
      BY DEF Mine, Execute, gateVars, coreVars, vars, LaneIsExclusive, InState
<1>2. \A q \in Orders : ~InState(q, {"executing"})
      BY <1>1 DEF AttemptOK, InState
<1>3. PICK s \in {"executing", "reverted"} :
          /\ attempt' = [attempt EXCEPT ![r].state = s]
          /\ s = "executing" =>
                Execute(attempt[r].execution.grantHash, attempt[r].execution)
      BY DEF Mine
<1>4. s = "executing" =>
          /\ call' # NoCall
          /\ call'.execution = attempt[r].execution
          /\ call'.grant = attempt[r].execution.grantHash
  <2>1. attempt[r].execution \in Executions
        BY <1>1 DEF InState, Attempt
  <2>2. QED  BY <1>3, <2>1, ExecutionTyped, ExecuteCalls
<1>5. attempt'[r] # NoAttempt
  <2>1. attempt'[r] \in Attempt
        BY <1>1, <1>3 DEF InState, Attempt, AttemptState
  <2>2. QED  BY <2>1, RelayAssumption
<1>6. WorkIsActive' /\ AllocatorBehind'
      BY <1>1, <1>3 DEF WorkIsActive, AllocatorBehind, Unmined
<1>7. \A q \in Orders : AttemptOK(q)'
      BY <1>1, <1>2, <1>3, <1>4, <1>5 DEF AttemptOK, InState, Attempt
<1>8. LaneIsExclusive'
      BY <1>1, <1>3, <1>5 DEF LaneIsExclusive, InState, Attempt
<1>9. /\ \A q \in Orders : InState(q, {"paid"})' => Paid(q)'
      /\ completed' # NoOrder => InState(completed, {"paid"})'
      BY <1>1, <1>3, <1>5 DEF InState, Paid, Attempt
<1>10. QED  BY <1>6, <1>7, <1>8, <1>9

LEMMA ReturnLane ==
    ASSUME LaneInv, RelayTypeOK', TypeOK, NEW r \in Orders, NEW out, NEW in,
           NEW ok, MinedReturns(r, out, in, ok)
    PROVE  LaneInv'
<1> USE DEF LaneInv, RelayTypeOK
<1>1. /\ InState(r, {"executing"}) /\ mined' = mined
      /\ lease' = lease /\ active' = active /\ completed' = completed
      /\ operation' = operation /\ nextNonce' = nextNonce /\ active = r
      BY DEF MinedReturns, gateVars, coreVars, LaneIsExclusive, InState
<1>2. \A q \in Orders : q # r => ~InState(q, {"executing"})
      BY <1>1 DEF LaneIsExclusive, InState
<1>3. /\ call # NoCall
      /\ call.execution = attempt[r].execution
      /\ call.grant = attempt[r].execution.grantHash
      /\ attempt[r].execution \in Executions
      /\ attempt[r].execution.grantHash.owner = r.owner
      /\ attempt[r].execution.purchaseId = r.purchaseId
      BY <1>1 DEF AttemptOK, InState, Attempt
<1>4. PICK s \in {"paid", "reverted"} :
          /\ attempt' = [attempt EXCEPT ![r].state = s]
          /\ s = "paid" => TransferSucceeds(out, in, ok)
          /\ s = "reverted" => TransferReverts(out, in, ok)
      BY DEF MinedReturns
<1> DEFINE e == [grantHash |-> call.grant, purchaseId |-> call.execution.purchaseId,
                 amount |-> call.execution.amount]
<1>5. e \in Event
      BY <1>3, ExecutorAssumption DEF Event, PurchaseExecution
<1>6. /\ s = "paid" => events' = Append(events, e)
      /\ s = "reverted" => events' = events
      BY <1>4 DEF TransferSucceeds, TransferReverts
<1>7. s = "paid" => Paid(r)'
  <2> HAVE s = "paid"
  <2>1. Len(events) + 1 \in DOMAIN events' /\ events'[Len(events) + 1] = e
        BY <1>5, <1>6 DEF TypeOK
  <2>2. e.grantHash.owner = r.owner /\ e.purchaseId = r.purchaseId
        BY <1>3
  <2> HIDE DEF e
  <2>3. QED  BY <2>1, <2>2 DEF Paid
<1>8. \A q \in Orders : Paid(q) => Paid(q)'
      BY <1>5, <1>6, PaidStays
<1>9. attempt'[r] # NoAttempt
  <2>1. attempt'[r] \in Attempt
        BY <1>1, <1>4 DEF InState, Attempt, AttemptState
  <2>2. QED  BY <2>1, RelayAssumption
<1>10. WorkIsActive' /\ AllocatorBehind'
      BY <1>1, <1>4 DEF WorkIsActive, AllocatorBehind, InState, Unmined
<1>11. \A q \in Orders : AttemptOK(q)'
      BY <1>1, <1>2, <1>3, <1>4 DEF AttemptOK, InState, Attempt
<1>12. LaneIsExclusive'
      BY <1>1, <1>4, <1>9 DEF LaneIsExclusive, InState, Attempt
<1>13. /\ \A q \in Orders : InState(q, {"paid"})' => Paid(q)'
       /\ completed' # NoOrder => InState(completed, {"paid"})'
      BY <1>1, <1>4, <1>7, <1>8, <1>9 DEF InState, Attempt
<1>14. QED  BY <1>10, <1>11, <1>12, <1>13

LEMMA OthersLane ==
    ASSUME LaneInv, RelayTypeOK', TypeOK, Others
    PROVE  LaneInv'
<1> USE DEF LaneInv, RelayTypeOK
<1>1. UNCHANGED <<lease, active, completed, operation, nextNonce, attempt, mined>>
      BY DEF Others, relayVars, gateVars, coreVars
<1>2. \/ \A q \in Orders : ~InState(q, {"executing"})
      \/ call' = call
  <2>1. ASSUME NEW g, NEW x, Execute(g, x)
        PROVE  \A q \in Orders : ~InState(q, {"executing"})
        BY <2>1 DEF Execute, AttemptOK, InState
  <2>2. QED  BY <2>1 DEF Others, Revoke, Tick
<1>3. events' = events \/ \E e \in Event : events' = Append(events, e)
  <2>1. ASSUME NEW out, NEW in, NEW ok, TransferSucceeds(out, in, ok)
        PROVE  \E e \in Event : events' = Append(events, e)
    <3>1. call \in Call
          BY <2>1 DEF TransferSucceeds, TypeOK
    <3> DEFINE e == [grantHash |-> call.grant,
                     purchaseId |-> call.execution.purchaseId,
                     amount |-> call.execution.amount]
    <3>2. e \in Event
          BY <3>1, ExecutorAssumption DEF Call, Event, PurchaseExecution
    <3>3. QED  BY <2>1, <3>2 DEF TransferSucceeds
  <2>2. QED
        BY <2>1 DEF Others, TokenReturns, TransferReverts, Revoke, Execute, Tick
<1>4. \A q \in Orders : Paid(q) => Paid(q)'
      BY <1>3, PaidStays
<1>5. QED
      BY <1>1, <1>2, <1>4
      DEF WorkIsActive, AllocatorBehind, AttemptOK, LaneIsExclusive, InState

-----------------------------------------------------------------------------
(* The inductive invariant. *)
THEOREM LaneInvariant == RelaySpec => []LaneInv
<1>1. RelayInit => LaneInv
  <2> SUFFICES ASSUME RelayInit PROVE LaneInv
      OBVIOUS
  <2>1. /\ RelayTypeOK
        /\ \A r \in Orders : attempt[r] = NoAttempt
        BY DEF RelayInit, LaneInit, RelayTypeOK
  <2>2. QED
        BY <2>1
        DEF RelayInit, LaneInit, LaneInv, WorkIsActive, AllocatorBehind,
            AttemptOK, LaneIsExclusive, InState
<1>2. LaneInv /\ RelayTypeOK' /\ TypeOK /\ [RelayNext]_<<vars, relayVars>>
        => LaneInv'
  <2> SUFFICES ASSUME LaneInv, RelayTypeOK', TypeOK,
                      [RelayNext]_<<vars, relayVars>>
               PROVE  LaneInv'
      OBVIOUS
  <2>1. CASE RelayNext
        BY <2>1, RequestLane, CoreLane, MineLane, ReturnLane, OthersLane
        DEF RelayNext, ChainStep
  <2>2. CASE UNCHANGED <<vars, relayVars>>
        BY <2>2
        DEF vars, relayVars, gateVars, coreVars, LaneInv, RelayTypeOK,
            WorkIsActive, AllocatorBehind, AttemptOK, LaneIsExclusive, InState,
            Paid
  <2>3. QED  BY <2>1, <2>2
<1>3. QED
      BY <1>1, <1>2, RelayTypes, RelayCallsContract, TypeCorrect, PTL
      DEF RelaySpec

(* For any number of wallets: an attempt that is not known to have paid is *)
(* the active order's, and its nonce is the one the chain takes next.      *)
THEOREM LaneExclusive == RelaySpec => []LaneIsExclusive
<1>1. LaneInv => LaneIsExclusive
      BY DEF LaneInv
<1>2. QED  BY <1>1, LaneInvariant, PTL

(* The journal's last completed order was paid in the contract. *)
THEOREM CompletionIsPaid == RelaySpec => []CompletedIsPaid
<1>1. LaneInv => CompletedIsPaid
      BY DEF LaneInv, CompletedIsPaid, RelayTypeOK, Paid
<1>2. QED  BY <1>1, LaneInvariant, PTL
==============================================================================
