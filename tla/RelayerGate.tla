----------------------------- MODULE RelayerGate -----------------------------
(***************************************************************************)
(* The wallets of the hosted service share one relayer account.  Each has  *)
(* a Core process of its own, with its own ledger and nonce allocator, so  *)
(* only the durable gate of relayer_gate.py keeps two Cores from signing   *)
(* with the same nonce.  This module is the gate, the request that passes  *)
(* through it (hosted_canary.py), what a Core does to its budget attempt   *)
(* meanwhile, and the relayer's transactions as calls of the contract in   *)
(* BudgetExecutor.                                                         *)
(*                                                                         *)
(* The chain is seen at its finalized boundary: a transaction in a block   *)
(* that can still be reorganised away is one that is only sent.            *)
(***************************************************************************)
EXTENDS BudgetExecutor

CONSTANTS
    Orders,    \* the purchases that have been previewed
    NoOrder,   \* None in the journal, and no lease
    NoAttempt  \* the ledger row has no budget_attempt

Order == [owner : Owner, purchaseId : PurchaseId]

AttemptState == {"prepared", "claimed", "sent", "executing", "paid", "reverted"}

Attempt ==
    [state : AttemptState, nonce : Nat, execution : Executions,
     recorded : BOOLEAN]

ASSUME RelayAssumption ==
    /\ Orders \subseteq Order
    /\ NoOrder \notin Orders
    /\ NoAttempt \notin Attempt
    /\ NoCall \notin Call

VARIABLES
    lease,      \* the order whose request holds the gate's file lock
    active,     \* the journal's active pair
    completed,  \* the journal's last completed pair
    operation,  \* the order each wallet's Core process is working on
    sending,    \* the Cores between a broadcast claim and the network call
    nextNonce,  \* each Core's own relayer nonce allocator
    attempt,    \* the budget attempt of each order's ledger row
    mined       \* the relayer's transaction count

gateVars == <<lease, active, completed>>
coreVars == <<operation, sending, nextNonce>>
relayVars == <<gateVars, coreVars, attempt, mined>>

LaneInit ==
    /\ lease = NoOrder
    /\ active = NoOrder
    /\ completed = NoOrder
    /\ operation = [o \in Owner |-> NoOrder]
    /\ sending = {}
    /\ nextNonce = [o \in Owner |-> 0]
    /\ attempt = [r \in Orders |-> NoAttempt]
    /\ mined = 0

RelayInit == Init /\ LaneInit

-----------------------------------------------------------------------------
(* Faults used to show that the properties are sensitive to the checks.    *)
FaultAnyEvidence(r) == attempt[r] # NoAttempt /\ attempt[r].recorded
FaultNotSent(r) ==
    ~(attempt[r] # NoAttempt /\ attempt[r].state \in AttemptState \ {"prepared"})

(* The attempt of the order's ledger row is in one of these states. *)
InState(r, S) == attempt[r] # NoAttempt /\ attempt[r].state \in S

(* _verified_gate_proof: the Core's evidence, verified by both RPCs, of a  *)
(* payment.  Evidence of a revert raises instead.                          *)
VerifiedGateProof(r) == InState(r, {"paid"}) /\ attempt[r].recorded
RevertRecorded(r) == InState(r, {"reverted"}) /\ attempt[r].recorded

(* payment_safety: the ledger row has no attempt of any kind. *)
NoBroadcast(r) == attempt[r] = NoAttempt

(* _acquire_lock: RelayerGateBusy otherwise. *)
LockFree == lease = NoOrder

(* A request for an order whose payment is verified does not enter the     *)
(* gate; it clears the journal when the order is the active one.           *)
ReconcileVerifiedPayment(r) ==
    /\ operation[r.owner] = NoOrder
    /\ VerifiedGateProof(r)
    /\ LockFree
    /\ active = r
    /\ active' = NoOrder
    /\ completed' = r
    /\ UNCHANGED <<lease, coreVars, attempt, mined, vars>>

(* Any other request takes the lock, unless it is held, and writes the     *)
(* journal, unless another order is active or this one was the last to     *)
(* complete; then its wallet's Core works on it.  A Core that is still     *)
(* busy with an earlier request keeps its state locked.                    *)
Enter(r) ==
    /\ operation[r.owner] = NoOrder
    /\ ~VerifiedGateProof(r)
    /\ ~RevertRecorded(r)
    /\ LockFree
    /\ \/ active = r
       \/ active = NoOrder /\ completed # r
    /\ lease' = r
    /\ active' = r
    /\ operation' = [operation EXCEPT ![r.owner] = r]
    /\ UNCHANGED <<completed, sending, nextNonce, attempt, mined, vars>>

-----------------------------------------------------------------------------
(* allocate_relayer_nonce: the Core's own counter, unless the chain is      *)
(* ahead of it.                                                            *)
AllocateRelayerNonce(o, pending) ==
    IF nextNonce[o] > pending THEN nextNonce[o] ELSE pending

(* settle_reservation: one ledger transaction allocates the nonce and      *)
(* stores the signed attempt.  The node's pending count includes at most   *)
(* the transactions that were sent, and may have forgotten them.           *)
Prepare(r, x, pending) ==
    /\ operation[r.owner] = r
    /\ attempt[r] = NoAttempt
    /\ x.grantHash.owner = r.owner
    /\ x.purchaseId = r.purchaseId
    /\ LET nonce == AllocateRelayerNonce(r.owner, pending)
       IN  /\ nextNonce' = [nextNonce EXCEPT ![r.owner] = nonce + 1]
           /\ attempt' = [attempt EXCEPT ![r] =
                            [state |-> "prepared", nonce |-> nonce,
                             execution |-> x, recorded |-> FALSE]]
    /\ UNCHANGED <<gateVars, operation, sending, mined, vars>>

PendingCounts ==
    mined .. mined + Cardinality({r \in Orders : InState(r, {"sent"})})

(* _broadcast_budget_attempt: the claim is committed before the network    *)
(* call, and an attempt that was claimed is never sent again.              *)
Claim(r) ==
    /\ operation[r.owner] = r
    /\ InState(r, {"prepared"})
    /\ attempt' = [attempt EXCEPT ![r].state = "claimed"]
    /\ sending' = sending \cup {r.owner}
    /\ UNCHANGED <<gateVars, operation, nextNonce, mined, vars>>

(* The network call, which may fail with or without the node's having the  *)
(* transaction.                                                            *)
Broadcast(r, taken) ==
    /\ operation[r.owner] = r
    /\ r.owner \in sending
    /\ InState(r, {"claimed"})
    /\ sending' = sending \ {r.owner}
    /\ attempt' = IF taken THEN [attempt EXCEPT ![r].state = "sent"]
                  ELSE attempt
    /\ UNCHANGED <<gateVars, operation, nextNonce, mined, vars>>

(* reconcile: the watcher's evidence of a final receipt is stored. *)
Record(r) ==
    /\ operation[r.owner] = r
    /\ r.owner \notin sending
    /\ InState(r, {"paid", "reverted"})
    /\ attempt' = [attempt EXCEPT ![r].recorded = TRUE]
    /\ UNCHANGED <<gateVars, coreVars, mined, vars>>

(* The Core's operation ends, well or badly: its answer goes to the        *)
(* request that still waits, or to nobody.                                 *)
Answer(r) ==
    /\ operation[r.owner] = r
    /\ r.owner \notin sending
    /\ operation' = [operation EXCEPT ![r.owner] = NoOrder]
    /\ UNCHANGED <<gateVars, sending, nextNonce, attempt, mined, vars>>

(* The Core process dies; the request that waits for it fails, and its     *)
(* lease leaves the journal as it is.                                      *)
CoreDies(r) ==
    /\ operation[r.owner] = r
    /\ operation' = [operation EXCEPT ![r.owner] = NoOrder]
    /\ sending' = sending \ {r.owner}
    /\ lease' = IF lease = r THEN NoOrder ELSE lease
    /\ UNCHANGED <<active, completed, nextNonce, attempt, mined, vars>>

-----------------------------------------------------------------------------
(* The request has its answer while it holds the lease. *)
Answered(r) == lease = r /\ operation[r.owner] = NoOrder

(* complete_verified_payment. *)
CompleteVerifiedPayment(r) ==
    /\ Answered(r)
    /\ VerifiedGateProof(r)
    /\ active = r
    /\ active' = NoOrder
    /\ completed' = r
    /\ lease' = NoOrder
    /\ UNCHANGED <<coreVars, attempt, mined, vars>>

(* abort_unsubmitted. *)
AbortUnsubmitted(r) ==
    /\ Answered(r)
    /\ ~VerifiedGateProof(r)
    /\ NoBroadcast(r)
    /\ active = r
    /\ active' = NoOrder
    /\ lease' = NoOrder
    /\ UNCHANGED <<completed, coreVars, attempt, mined, vars>>

(* The lease ends without completion: the request has nothing to prove, or *)
(* the service stopped.                                                    *)
LeaveLease(r) ==
    /\ Answered(r)
    /\ lease' = NoOrder
    /\ UNCHANGED <<active, completed, coreVars, attempt, mined, vars>>

(* The request gives up on its Marketplace process, or the service stops;  *)
(* the Core has no more caller and goes on with what it is doing.          *)
TimeOut(r) ==
    /\ lease = r
    /\ operation[r.owner] = r
    /\ lease' = NoOrder
    /\ UNCHANGED <<active, completed, coreVars, attempt, mined, vars>>

-----------------------------------------------------------------------------
(* The relayer's next transaction becomes final: its call of execute runs, *)
(* or reverts before it reaches the token, for lack of gas if nothing else.*)
Mine(r) ==
    LET x == attempt[r].execution
    IN  /\ InState(r, {"sent"})
        /\ attempt[r].nonce = mined
        /\ call = NoCall
        /\ mined' = mined + 1
        /\ \/ /\ Execute(x.grantHash, x)
              /\ attempt' = [attempt EXCEPT ![r].state = "executing"]
           \/ /\ attempt' = [attempt EXCEPT ![r].state = "reverted"]
              /\ UNCHANGED vars
        /\ UNCHANGED <<gateVars, coreVars>>

(* The token call of the relayer's transaction returns. *)
MinedReturns(r, out, in, ok) ==
    /\ InState(r, {"executing"})
    /\ \/ /\ TransferSucceeds(out, in, ok)
          /\ attempt' = [attempt EXCEPT ![r].state = "paid"]
       \/ /\ TransferReverts(out, in, ok)
          /\ attempt' = [attempt EXCEPT ![r].state = "reverted"]
    /\ UNCHANGED <<gateVars, coreVars, mined>>

(* What anybody else does to the contract. *)
Others ==
    /\ \/ \E o \in Owner, i \in GrantId : Revoke(o, i)
       \/ \E g \in Grants, x \in Executions : Execute(g, x)
       \/ /\ \A r \in Orders : ~InState(r, {"executing"})
          /\ TokenReturns
       \/ Tick
    /\ UNCHANGED relayVars

Request(r) ==
    \/ ReconcileVerifiedPayment(r)
    \/ Enter(r)
    \/ CompleteVerifiedPayment(r)
    \/ AbortUnsubmitted(r)
    \/ LeaveLease(r)
    \/ TimeOut(r)

CoreStep(r) ==
    \/ \E x \in Executions, pending \in PendingCounts : Prepare(r, x, pending)
    \/ Claim(r)
    \/ \E taken \in BOOLEAN : Broadcast(r, taken)
    \/ Record(r)
    \/ Answer(r)
    \/ CoreDies(r)

ChainStep(r) ==
    \/ Mine(r)
    \/ \E out, in \in {x.amount : x \in Executions} \cup {0}, ok \in BOOLEAN :
          MinedReturns(r, out, in, ok)

RelayNext ==
    \/ \E r \in Orders : Request(r) \/ CoreStep(r) \/ ChainStep(r)
    \/ Others

RelaySpec == RelayInit /\ [][RelayNext]_<<vars, relayVars>>

-----------------------------------------------------------------------------
(* The values of the journal, the ledgers and the allocators. *)
RelayTypeOK ==
    /\ lease \in Orders \cup {NoOrder}
    /\ active \in Orders \cup {NoOrder}
    /\ completed \in Orders \cup {NoOrder}
    /\ operation \in [Owner -> Orders \cup {NoOrder}]
    /\ sending \in SUBSET Owner
    /\ nextNonce \in [Owner -> Nat]
    /\ attempt \in [Orders -> Attempt \cup {NoAttempt}]
    /\ mined \in Nat

(* Whatever crashes, times out or is lost: an attempt that is not known to *)
(* have paid belongs to the order the journal names, even when the Core    *)
(* works on with nobody waiting for it, and until it is mined its nonce is *)
(* the one the chain takes next.  So no two wallets' Cores ever sign the   *)
(* same nonce, and none waits behind a nonce that nobody will use.         *)
LaneIsExclusive ==
    \A r \in Orders :
        /\ attempt[r] # NoAttempt /\ ~InState(r, {"paid"}) => active = r
        /\ InState(r, {"prepared", "claimed", "sent"})
              => attempt[r].nonce = mined

(* The order the journal says was completed last was paid in the contract, *)
(* by the relayer's own transaction.                                       *)
CompletedIsPaid ==
    completed # NoOrder =>
        /\ InState(completed, {"paid"})
        /\ \E n \in DOMAIN events :
              /\ events[n].grantHash.owner = completed.owner
              /\ events[n].purchaseId = completed.purchaseId
=============================================================================
