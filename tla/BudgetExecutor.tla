--------------------------- MODULE BudgetExecutor ---------------------------
(***************************************************************************)
(* The payment contract contracts/src/AgentonomyBudgetExecutor.sol.        *)
(*                                                                         *)
(* A keccak256 digest is modelled by the value it digests, so the hash of  *)
(* a SpendGrant is the grant record.  A call that reverts changes nothing  *)
(* and is a stuttering step, except that a call which reverts after        *)
(* handing control to the token is two steps: the effects, and their roll  *)
(* back.  While the token runs it may call back into the contract.         *)
(***************************************************************************)
EXTENDS Naturals, Sequences, Sums

CONSTANTS
    Owner,               \* accounts that sign spend grants and hold funds
    Payee,               \* accounts that are paid
    GrantId,             \* the nonzero grantId values
    PurchaseId,          \* the nonzero purchaseId values
    Grants,              \* SpendGrant structs that callers submit
    Executions,          \* PurchaseExecution structs that callers submit
    OwnerSignatures,     \* the grants that their owner signed
    ExecutionSignatures, \* the executions that the executionSigner signed
    InitialBalance,      \* the token balance each owner starts with
    MaxTime,             \* bound on block.timestamp
    NoGrant,             \* bytes32(0) in grantDigests
    NoCall               \* no transaction is inside the token

SpendGrant ==
    [grantId : GrantId, owner : Owner, payee : Payee, maxPerPayment : Nat,
     maxTotal : Nat, validAfter : Nat, validUntil : Nat]

PurchaseExecution ==
    [grantHash : Grants, purchaseId : PurchaseId, amount : Nat, deadline : Nat]

ASSUME ExecutorAssumption ==
    /\ Grants \subseteq SpendGrant
    /\ Executions \subseteq PurchaseExecution
    /\ OwnerSignatures \subseteq Grants
    /\ ExecutionSignatures \subseteq Executions
    /\ Owner \cap Payee = {}
    /\ InitialBalance \in [Owner \cup Payee -> Nat]
    /\ MaxTime \in Nat
    /\ NoGrant \notin Grants

Account == Owner \cup Payee

VARIABLES
    now,           \* block.timestamp
    grantDigests,  \* the grant pinned under an owner's grantId
    spent,         \* amount charged against a grant
    revoked,       \* grant ids an owner revoked
    paid,          \* purchases an owner paid
    balance,       \* the token's balanceOf
    events,        \* the PaymentExecuted log
    call           \* the execute call whose token transfer is running

storage == <<grantDigests, spent, revoked, paid, balance>>
vars == <<now, grantDigests, spent, revoked, paid, balance, events, call>>

Storage ==
    [grantDigests : [Owner -> [GrantId -> Grants \cup {NoGrant}]],
     spent : [Grants -> Nat],
     revoked : [Owner -> [GrantId -> BOOLEAN]],
     paid : [Owner -> [PurchaseId -> BOOLEAN]],
     balance : [Account -> Nat]]

Event == [grantHash : Grants, purchaseId : PurchaseId, amount : Nat]

Call == [grant : Grants, execution : Executions, saved : Storage]

ASSUME CallAssumption == NoCall \notin Call

Init ==
    /\ now = 0
    /\ grantDigests = [o \in Owner |-> [i \in GrantId |-> NoGrant]]
    /\ spent = [g \in Grants |-> 0]
    /\ revoked = [o \in Owner |-> [i \in GrantId |-> FALSE]]
    /\ paid = [o \in Owner |-> [p \in PurchaseId |-> FALSE]]
    /\ balance = InitialBalance
    /\ events = <<>>
    /\ call = NoCall

-----------------------------------------------------------------------------
(* _validateGrant: the grant is well formed and its window is open. *)
ValidGrant(g) ==
    /\ g.owner # g.payee
    /\ g.maxPerPayment > 0
    /\ g.maxPerPayment <= g.maxTotal
    /\ g.validAfter < g.validUntil
    /\ g.validAfter <= now
    /\ now < g.validUntil

(* _validateExecution: the permit fits the grant and has not expired. *)
ValidExecution(g, x) ==
    /\ x.amount > 0
    /\ x.deadline <= g.validUntil
    /\ now < x.deadline
    /\ x.amount <= g.maxPerPayment

(* Faults used to show that the properties are sensitive to the checks.    *)
FaultNoRevokedCheck(g) == TRUE
FaultPaidPerGrant(g, x) ==
    ~(paid[g.owner][x.purchaseId] /\ spent[g] > 0)
FaultTotalPerPayment(g, x) == x.amount <= g.maxTotal
FaultIgnoreDebit(amount, out, in, ok) == ok /\ in = amount

(* The owner's grantId is unused or already stands for this very grant. *)
NotConflicting(g) == grantDigests[g.owner][g.grantId] \in {NoGrant, g}

(* The pinned digests once this grant is used. *)
PinGrant(g) == [grantDigests EXCEPT ![g.owner][g.grantId] = g]

(* The owner has not revoked this grantId. *)
NotRevoked(g) == ~revoked[g.owner][g.grantId]

(* The owner has not paid this purchase, under any grant. *)
NotPaid(g, x) == ~paid[g.owner][x.purchaseId]

(* The amount fits what is left of maxTotal; the first comparison is what  *)
(* keeps the unsigned subtraction from underflowing.                       *)
FitsTotal(g, x) ==
    /\ spent[g] <= g.maxTotal
    /\ x.amount <= g.maxTotal - spent[g]

(* Both signatures recover to the accounts the grant names. *)
Signed(g, x) ==
    /\ g \in OwnerSignatures
    /\ x \in ExecutionSignatures

(* revoke: open to every sender for its own ids, and not guarded against   *)
(* reentrancy, so it may also run inside the token call of a payment.      *)
Revoke(o, i) ==
    /\ revoked' = [revoked EXCEPT ![o][i] = TRUE]
    /\ UNCHANGED <<now, grantDigests, spent, paid, balance, events, call>>

(* execute up to the token call: every check, then every effect.  The      *)
(* nonReentrant modifier reverts a call made from inside another one.      *)
Execute(g, x) ==
    /\ call = NoCall
    /\ ValidGrant(g)
    /\ ValidExecution(g, x)
    /\ x.grantHash = g
    /\ NotRevoked(g)
    /\ NotConflicting(g)
    /\ NotPaid(g, x)
    /\ FitsTotal(g, x)
    /\ Signed(g, x)
    /\ grantDigests' = PinGrant(g)
    /\ spent' = [spent EXCEPT ![g] = @ + x.amount]
    /\ paid' = [paid EXCEPT ![g.owner][x.purchaseId] = TRUE]
    /\ call' = [grant |-> g, execution |-> x,
                saved |-> [grantDigests |-> grantDigests, spent |-> spent,
                           revoked |-> revoked, paid |-> paid,
                           balance |-> balance]]
    /\ UNCHANGED <<now, revoked, balance, events>>

(* What _transferExact accepts of a token that took `out` from the owner,  *)
(* credited `in` to the payee and returned `ok`.                           *)
ExactTransfer(amount, out, in, ok) ==
    /\ ok
    /\ out = amount
    /\ in = amount

(* The token call returns and is accepted: the payment is logged. *)
TransferSucceeds(out, in, ok) ==
    /\ call # NoCall
    /\ LET g == call.grant
           x == call.execution
       IN  /\ out <= balance[g.owner]
           /\ ExactTransfer(x.amount, out, in, ok)
           /\ balance' = [balance EXCEPT ![g.owner] = @ - out,
                                         ![g.payee] = @ + in]
           /\ events' = Append(events, [grantHash |-> g,
                                        purchaseId |-> x.purchaseId,
                                        amount |-> x.amount])
    /\ call' = NoCall
    /\ UNCHANGED <<now, grantDigests, spent, revoked, paid>>

(* The token call fails or is rejected: the whole transaction is undone,   *)
(* with every call it made.                                                *)
TransferReverts(out, in, ok) ==
    /\ call # NoCall
    /\ ~ExactTransfer(call.execution.amount, out, in, ok)
    /\ grantDigests' = call.saved.grantDigests
    /\ spent' = call.saved.spent
    /\ revoked' = call.saved.revoked
    /\ paid' = call.saved.paid
    /\ balance' = call.saved.balance
    /\ call' = NoCall
    /\ UNCHANGED <<now, events>>

(* A later block: timestamps move between transactions only. *)
Tick ==
    /\ call = NoCall
    /\ now < MaxTime
    /\ now' = now + 1
    /\ UNCHANGED <<grantDigests, spent, revoked, paid, balance, events, call>>

TokenReturns ==
    LET Amount == {x.amount : x \in Executions}
    IN \E out, in \in Amount \cup {0}, ok \in BOOLEAN :
          TransferSucceeds(out, in, ok) \/ TransferReverts(out, in, ok)

Next ==
    \/ \E o \in Owner, i \in GrantId : Revoke(o, i)
    \/ \E g \in Grants, x \in Executions : Execute(g, x)
    \/ TokenReturns
    \/ Tick

Spec == Init /\ [][Next]_vars

-----------------------------------------------------------------------------
(* Every variable has the type of the storage slot it stands for. *)
TypeOK ==
    /\ now \in Nat
    /\ grantDigests \in [Owner -> [GrantId -> Grants \cup {NoGrant}]]
    /\ spent \in [Grants -> Nat]
    /\ revoked \in [Owner -> [GrantId -> BOOLEAN]]
    /\ paid \in [Owner -> [PurchaseId -> BOOLEAN]]
    /\ balance \in [Account -> Nat]
    /\ events \in Seq(Event)
    /\ call \in Call \cup {NoCall}

(* What the payments of a log took from the grants in G, one by one, and   *)
(* what those logged so far took together.                                 *)
Took(log, G) ==
    [n \in DOMAIN log |-> IF log[n].grantHash \in G THEN log[n].amount ELSE 0]

Outflow(G) == SumOver(Took(events, G), DOMAIN events)

(* The charge against a grant never exceeds its maxTotal, and of all the   *)
(* grants that share an owner and a grantId only the pinned one is ever    *)
(* charged: signing a second grant with the same id never adds to the      *)
(* budget (GrantConflict), and neither does a payment started from inside  *)
(* another one's token call.                                               *)
ChargedWithinPinnedGrant ==
    \A g \in Grants :
        /\ spent[g] <= g.maxTotal
        /\ spent[g] > 0 => grantDigests[g.owner][g.grantId] = g

(* A purchase is paid at most once, whichever grants of the owner are used *)
(* for it (paid is keyed by owner and purchaseId, not by grant).           *)
OnePaymentPerPurchase ==
    \A m, n \in DOMAIN events :
        /\ events[m].grantHash.owner = events[n].grantHash.owner
        /\ events[m].purchaseId = events[n].purchaseId
        => m = n

(* Between transactions the contract's accounting is the event log's: what *)
(* spent charges to a grant, and what its owner really lost of the token,  *)
(* are the logged payments.  A token that fails or moves another amount    *)
(* leaves no trace.                                                        *)
AccountingMatchesLog ==
    call = NoCall =>
        /\ \A g \in Grants : spent[g] = Outflow({g})
        /\ \A o \in Owner :
              balance[o] + Outflow({g \in Grants : g.owner = o})
                = InitialBalance[o]

(* Revocations that survive whatever the running transaction does. *)
RevokedForGood(o, i) ==
    IF call = NoCall THEN revoked[o][i] ELSE call.saved.revoked[o][i]

(* Once a revocation is on chain no step undoes it and no later payment is *)
(* logged under that grantId.  (A revocation made from inside a payment's  *)
(* own token call does not stop that payment, and is lost if it reverts.)  *)
RevocationIsFinal ==
    [][\A o \in Owner, i \in GrantId :
          RevokedForGood(o, i) =>
              /\ RevokedForGood(o, i)'
              /\ \A n \in DOMAIN events' \ DOMAIN events :
                    ~(/\ events'[n].grantHash.owner = o
                      /\ events'[n].grantHash.grantId = i)]_vars
=============================================================================
