-------------------------- MODULE HostedExecution --------------------------
(***************************************************************************)
(* Hosted execution in the Facilitator: the durable execution repository   *)
(* (execution_repository.py), the relayer workers and the operator's       *)
(* reconciler that sign and submit (relayer.py), and the chain watcher     *)
(* (watcher.py), on one chain and with one relayer address.                *)
(*                                                                         *)
(* Every repository method is one database transaction, hence one step; a  *)
(* worker's clock readings, RPC calls and repository calls are separate    *)
(* steps, and what it read may be stale when it uses it.  The repository   *)
(* is built with pilot_policy None.  A block is produced at every tick, so *)
(* a block's number is also its timestamp.                                 *)
(***************************************************************************)
EXTENDS Naturals, Sequences

CONSTANTS
    Execution,      \* the intents, named by their execution id
    Worker,         \* processes that run execute, or the operator's command
    Deadline,       \* deadline of each intent
    Lease,          \* SIGNING_CLAIM_LEASE_SECONDS
    Depth,          \* confirmation_depth of the watcher
    MaxTime,        \* bound on the clock
    MaxRevisions,   \* bound on reorganisations below the finality boundary
    MaxWatchCrashes,\* bound on watcher restarts
    NoJob           \* no execution

ASSUME HostedAssumption ==
    /\ Deadline \in [Execution -> Nat]
    /\ Lease \in Nat \ {0}
    /\ Depth \in Nat
    /\ MaxTime \in Nat
    /\ MaxRevisions \in Nat
    /\ MaxWatchCrashes \in Nat
    /\ NoJob \notin Execution

VARIABLES
    now,        \* the clock, and the number of the newest block
    row,        \* the hosted_executions table
    nextNonce,  \* next_nonce of the relayer's nonce row
    worker,     \* program counter and local variables of each worker
    watch,      \* program counter and local variables of the watcher
    pool,       \* transactions in the mempool
    mined,      \* the relayer's mined transactions: mined[n + 1] has nonce n
    safe,       \* number of the block at the finality boundary
    revisions,  \* reorganisations that went below the finality boundary
    crashes     \* watcher restarts so far

vars == <<now, row, nextNonce, worker, watch, pool, mined, safe, revisions, crashes>>

Unsigned == {"preflight_approved", "signing"}
Broadcast == {"submitted", "submission_unknown", "submission_rejected"}
Given_up == {"expired", "released"}
Status ==
    {"none", "signed", "confirmed", "finalized", "reverted", "reorg_review"}
        \cup Unsigned \cup Broadcast \cup Given_up

(* A raw transaction: what it executes, its relayer nonce and the signing  *)
(* claim under which it was signed (each signing quotes its own fees).     *)
Tx == [exec : Execution, nonce : Nat, raw : Nat]

(* A receipt as the watcher reads it, with the boundary it was read at.    *)
(* fork stands for the block hash, which a reorganisation changes.         *)
Evidence == [ok : BOOLEAN, block : Nat, fork : Nat, safe : Nat]
NoEvidence == [ok |-> FALSE, block |-> 0, fork |-> 0, safe |-> 0]

Row == [status : Status,
        nonce : Nat,           \* relayer_nonce
        gen : Nat,             \* signing_claim_generation
        until : Nat,           \* signing_claim_expires_at
        raw : Nat,             \* raw_transaction, 0 before it is signed
        evidence : Evidence]   \* receipt and boundary columns

NoRow == [status |-> "none", nonce |-> 0, gen |-> 0, until |-> 0, raw |-> 0,
          evidence |-> NoEvidence]

WorkerState ==
    [pc : {"idle", "pending", "latest", "allocate", "release", "claim", "sign", "submit", "send",
           "operator_claim", "rebroadcast", "demote", "operator_send", "mark"},
     job : Execution \cup {NoJob},
     at : Nat,          \* its last clock reading
     pending : Nat,     \* chain_pending_nonce
     confirmed : Nat,   \* chain_confirmed_nonce
     gen : Nat,         \* the signing claim it holds
     raw : Nat,         \* the raw transaction it holds
     outcome : {"", "submitted", "submission_unknown", "submission_rejected"}]

IdleWorker == [pc |-> "idle", job |-> NoJob, at |-> 0, pending |-> 0,
               confirmed |-> 0, gen |-> 0, raw |-> 0, outcome |-> ""]

WatchState ==
    [pc : {"idle", "confirm", "finalize", "revert", "release", "review"},
     job : Execution \cup {NoJob}, evidence : Evidence]

IdleWatch == [pc |-> "idle", job |-> NoJob, evidence |-> NoEvidence]

Init ==
    /\ now = 0
    /\ row = [e \in Execution |-> NoRow]
    /\ nextNonce = 0
    /\ worker = [w \in Worker |-> IdleWorker]
    /\ watch = IdleWatch
    /\ pool = {}
    /\ mined = <<>>
    /\ safe = 0
    /\ revisions = 0
    /\ crashes = 0

chain == <<pool, mined, safe, revisions>>

(* One committed change of e's row; a change of worker w's local state. *)
Update(e, r) == row' = [row EXCEPT ![e] = r]
Become(w, s) == worker' = [worker EXCEPT ![w] = s]

-----------------------------------------------------------------------------
(* The chain, as the code in apps/facilitator uses it.                     *)

TxOf(e, raw) == [exec |-> e, nonce |-> row[e].nonce, raw |-> raw]

MinedIndex(tx) == {n \in DOMAIN mined : mined[n].tx = tx}

(* eth_getTransactionByHash finds it. *)
Known(tx) == tx \in pool \/ MinedIndex(tx) # {}

(* eth_getTransactionCount at "pending" answers n: the nonces from the     *)
(* mined ones up to n are in the pool, n is not.                           *)
IsPendingNonce(n) ==
    /\ \A k \in Len(mined) .. n - 1 : \E tx \in pool : tx.nonce = k
    /\ \A tx \in pool : tx.nonce # n

PaidOnChain(e) == \E n \in DOMAIN mined : mined[n].tx.exec = e /\ mined[n].ok

(* The executor contract accepts an execution once and before its deadline; *)
(* it may also revert for reasons of its own (funds, pause, signer epoch).  *)
Mine(tx, ok) ==
    /\ tx \in pool
    /\ tx.nonce = Len(mined)
    /\ ok => now < Deadline[tx.exec] /\ ~PaidOnChain(tx.exec)
    /\ mined' = Append(mined, [tx |-> tx, ok |-> ok, block |-> now, fork |-> revisions])
    /\ pool' = {t \in pool : t.nonce # tx.nonce}
    /\ UNCHANGED <<now, row, nextNonce, worker, watch, safe, revisions, crashes>>

(* The mempool forgets a transaction. *)
Drop(tx) ==
    /\ tx \in pool
    /\ pool' = pool \ {tx}
    /\ UNCHANGED <<now, row, nextNonce, worker, watch, mined, safe, revisions, crashes>>

(* Blocks above the finality boundary may be replaced at any time, those   *)
(* below it only MaxRevisions times.                                       *)
Reorganise(n) ==
    /\ n \in DOMAIN mined
    /\ mined[n].block <= safe => revisions < MaxRevisions
    /\ revisions' = IF mined[n].block <= safe THEN revisions + 1 ELSE revisions
    /\ mined' = SubSeq(mined, 1, n - 1)
    /\ pool' = pool \cup {mined[k].tx : k \in n .. Len(mined)}
    /\ UNCHANGED <<now, row, nextNonce, worker, watch, safe, crashes>>

(* Only complete blocks become final; the newest is still being built. *)
AdvanceSafe ==
    /\ safe + 1 < now
    /\ safe' \in safe + 1 .. now - 1
    /\ UNCHANGED <<now, row, nextNonce, worker, watch, pool, mined, revisions, crashes>>

Tick ==
    /\ now < MaxTime
    /\ now' = now + 1
    /\ UNCHANGED <<row, nextNonce, worker, watch, pool, mined, safe, revisions, crashes>>

-----------------------------------------------------------------------------
(* Workers: ExecutionRelayer.execute.                                      *)

(* Where execute goes on with a row of this status read at time t. *)
Branch(e, status, t) ==
    CASE status \in Unsigned /\ t >= Deadline[e] -> "release"
      [] status \in Unsigned /\ t < Deadline[e] -> "claim"
      [] status = "signed" /\ t < Deadline[e] -> "submit"
      [] OTHER -> "idle"

(* execute of an intent without a row: read the clock, ... *)
ExecuteNew(w, e) ==
    /\ worker[w].pc = "idle"
    /\ row[e].status = "none"
    /\ now < Deadline[e]
    /\ Become(w, [IdleWorker EXCEPT !.pc = "pending", !.job = e, !.at = now])
    /\ UNCHANGED <<now, row, nextNonce, watch, chain, crashes>>

(* ... then the relayer's pending transaction count, ... *)
ReadPending(w) ==
    /\ worker[w].pc = "pending"
    /\ \E n \in {Len(mined)} \cup {tx.nonce + 1 : tx \in pool} :
          /\ IsPendingNonce(n)
          /\ Become(w, [worker[w] EXCEPT !.pc = "latest", !.pending = n])
    /\ UNCHANGED <<now, row, nextNonce, watch, chain, crashes>>

(* ... and then its count in the latest block. *)
ReadLatest(w) ==
    /\ worker[w].pc = "latest"
    /\ Become(w, [worker[w] EXCEPT !.pc = "allocate", !.confirmed = Len(mined)])
    /\ UNCHANGED <<now, row, nextNonce, watch, chain, crashes>>

(* execute of an intent that has a row (a replayed request). *)
ExecuteExisting(w, e) ==
    /\ worker[w].pc = "idle"
    /\ row[e].status # "none"
    /\ Branch(e, row[e].status, now) # "idle"
    /\ Become(w, [IdleWorker EXCEPT !.pc = Branch(e, row[e].status, now), !.job = e,
                                    !.at = now])
    /\ UNCHANGED <<now, row, nextNonce, watch, chain, crashes>>

(* Nonces that an unsigned, given up execution leaves behind and no other  *)
(* execution uses or has signed.                                           *)
RecyclableNonces(confirmed) ==
    {n \in {row[f].nonce : f \in {f \in Execution : /\ row[f].status \in Given_up
                                                    /\ row[f].raw = 0}} :
        /\ n >= confirmed
        /\ \A f \in Execution :
              row[f].nonce = n =>
                  row[f].raw = 0 /\ row[f].status \in Given_up \cup {"none"}}

Larger(m, n) == IF m >= n THEN m ELSE n
Smaller(m, n) == IF m <= n THEN m ELSE n

(* _allocate_relayer_nonce returns n: the least recyclable nonce, or else  *)
(* a fresh one.                                                            *)
IsAllocatedNonce(n, pending, confirmed) ==
    LET recyclable == RecyclableNonces(confirmed)
    IN  IF recyclable # {} THEN n \in recyclable /\ \A m \in recyclable : n <= m
        ELSE n = Larger(nextNonce, pending)

(* allocate_or_return refuses nonce readings that contradict each other.   *)
(* Here another worker has created the row meanwhile.                      *)
AllocateExisting(w) ==
    LET e == worker[w].job
    IN  /\ worker[w].pc = "allocate"
        /\ worker[w].confirmed <= worker[w].pending
        /\ row[e].status # "none"
        /\ LET pc == Branch(e, row[e].status, worker[w].at)
           IN  Become(w, IF pc = "idle" THEN IdleWorker
                         ELSE [IdleWorker EXCEPT !.pc = pc, !.job = e, !.at = worker[w].at])
        /\ UNCHANGED <<now, row, nextNonce, watch, chain, crashes>>

(* allocate_or_return: create the row with a nonce of its own. *)
Allocate(w) ==
    LET e == worker[w].job
    IN  /\ worker[w].pc = "allocate"
        /\ worker[w].confirmed <= worker[w].pending
        /\ row[e].status = "none"
        /\ \E n \in 0 .. Larger(nextNonce, worker[w].pending) :
              /\ IsAllocatedNonce(n, worker[w].pending, worker[w].confirmed)
              /\ Update(e, [NoRow EXCEPT !.status = "preflight_approved", !.nonce = n])
              /\ nextNonce' = Larger(nextNonce, n + 1)
        /\ Become(w, [IdleWorker EXCEPT !.pc = "claim", !.job = e, !.at = worker[w].at])
        /\ UNCHANGED <<now, watch, chain, crashes>>

(* Fault: the deadline alone is taken for proof that nothing was paid. *)
FaultReleaseSigned(e, t) ==
    /\ row[e].status \in Unsigned \cup {"signed", "submission_unknown"}
    /\ t >= Deadline[e]

(* Fault: a signer that died with its claim is waited for. *)
FaultReleaseUnclaimed(e, t) ==
    /\ row[e].status = "preflight_approved"
    /\ t >= Deadline[e]

(* release_expired at time t: only an execution that was never signed. *)
CanReleaseExpired(e, t) ==
    /\ row[e].status \in Unsigned
    /\ t >= Deadline[e]
    /\ row[e].raw = 0

ReleaseExpired(w) ==
    LET e == worker[w].job
    IN  /\ worker[w].pc = "release"
        /\ CanReleaseExpired(e, worker[w].at)
        /\ Update(e, [row[e] EXCEPT !.status = "released", !.until = 0])
        /\ Become(w, IdleWorker)
        /\ UNCHANGED <<now, nextNonce, watch, chain, crashes>>

(* A signing claim can be taken at time t: nobody has one, or the last     *)
(* one's lease has run out.                                                *)
ClaimFree(e, t) ==
    /\ t < Deadline[e]
    /\ \/ row[e].status = "preflight_approved"
       \/ row[e].status = "signing" /\ t >= row[e].until

(* The generation that a new signing claim gets. *)
NextGeneration(e) == row[e].gen + 1

(* claim_signing with the clock read at the start of execute. *)
ClaimSigning(w) ==
    LET e == worker[w].job
        t == worker[w].at
    IN  /\ worker[w].pc = "claim"
        /\ ClaimFree(e, t)
        /\ Update(e, [row[e] EXCEPT !.status = "signing",
                                    !.gen = NextGeneration(e),
                                    !.until = Smaller(Deadline[e], t + Lease)])
        /\ Become(w, [worker[w] EXCEPT !.pc = "sign", !.gen = NextGeneration(e)])
        /\ UNCHANGED <<now, nextNonce, watch, chain, crashes>>

(* Fault: whoever signed persists, whether or not its claim still stands. *)
FaultPersistUnclaimed(e, gen, t) == t < Deadline[e]

(* The row still accepts what was signed under claim gen at time t. *)
ClaimHeld(e, gen, t) ==
    /\ row[e].gen = gen
    /\ row[e].status = "signing"
    /\ t < Deadline[e]

(* _sign: sign, then persist_signed_transaction with a clock read between. *)
PersistSigned(w) ==
    LET e == worker[w].job
    IN  /\ worker[w].pc = "sign"
        /\ \E t \in worker[w].at .. now :
              /\ ClaimHeld(e, worker[w].gen, t)
              /\ Become(w, [worker[w] EXCEPT !.pc = "submit", !.at = t])
        /\ Update(e, [row[e] EXCEPT !.status = "signed", !.until = 0, !.raw = worker[w].gen])
        /\ UNCHANGED <<now, nextNonce, watch, chain, crashes>>

(* claim_submission: the state says the outcome is unknown before anything *)
(* is sent, so that a crash in between is never taken for "not sent".      *)
(* The operator's command skips the deadline check.                        *)
ClaimSubmission(w) ==
    LET e == worker[w].job
    IN  /\ worker[w].pc \in {"submit", "operator_claim"}
        /\ row[e].status = "signed"
        /\ \E t \in worker[w].at .. now :
              /\ worker[w].pc = "submit" => t < Deadline[e]
              /\ Become(w, [worker[w] EXCEPT
                    !.pc = IF worker[w].pc = "submit" THEN "send" ELSE "operator_send",
                    !.at = t, !.raw = row[e].raw, !.gen = 0])
        /\ Update(e, [row[e] EXCEPT !.status = "submission_unknown"])
        /\ UNCHANGED <<now, nextNonce, watch, chain, crashes>>

(* _submit_signed finds its transaction already on the network. *)
AlreadyKnown(w) ==
    LET e == worker[w].job
    IN  /\ worker[w].pc = "send"
        /\ Known(TxOf(e, worker[w].raw))
        /\ Become(w, [worker[w] EXCEPT !.pc = "mark", !.outcome = "submitted", !.raw = 0])
        /\ UNCHANGED <<now, row, nextNonce, watch, chain, crashes>>

(* eth_sendRawTransaction: the node takes the transaction or does not      *)
(* (taken), and the caller sees acceptance, a definite rejection, a        *)
(* conflicting hash, or nothing it can classify (seen).  The worker looked *)
(* the transaction up and read the clock before; both may be stale.        *)
Send(w, taken, seen) ==
    LET e == worker[w].job
        tx == TxOf(e, worker[w].raw)
    IN  /\ \/ /\ worker[w].pc = "send"
              /\ \E t \in worker[w].at .. now : t < Deadline[e]
              /\ Become(w, IF seen = "nothing" THEN IdleWorker
                           ELSE [worker[w] EXCEPT !.pc = "mark", !.outcome = seen, !.raw = 0])
           \/ /\ worker[w].pc = "operator_send"
              /\ Become(w, [worker[w] EXCEPT !.pc = "mark", !.raw = 0,
                    !.outcome = IF seen = "nothing" THEN "submission_unknown" ELSE seen])
        /\ taken => tx.nonce >= Len(mined)
        /\ seen = "submitted" => taken
        /\ seen = "submission_rejected" => ~taken
        /\ pool' = IF taken THEN pool \cup {tx} ELSE pool
        /\ UNCHANGED <<now, row, nextNonce, watch, mined, safe, revisions, crashes>>

(* The statuses from which mark_submitted, mark_submission_unknown and     *)
(* mark_submission_rejected accept to move; elsewhere they raise, or       *)
(* return the row when it is already there.                                *)
MayMark(status, outcome) ==
    \/ /\ outcome = "submitted"
       /\ status \in {"signed", "submission_unknown", "submission_rejected"}
    \/ /\ outcome = "submission_unknown"
       /\ status \in {"signed", "submitted", "submission_rejected"}
    \/ /\ outcome = "submission_rejected"
       /\ status \in {"signed", "submission_unknown"}

Mark(w) ==
    LET e == worker[w].job
    IN  /\ worker[w].pc = "mark"
        /\ MayMark(row[e].status, worker[w].outcome)
        /\ Update(e, [row[e] EXCEPT !.status = worker[w].outcome])
        /\ Become(w, IdleWorker)
        /\ UNCHANGED <<now, nextNonce, watch, chain, crashes>>

-----------------------------------------------------------------------------
(* Workers: the operator's reconcile command.                              *)

(* rebroadcast_identical, or inspect_submission when the exact transaction *)
(* is found: read the row and look the transaction up.                     *)
OperatorInspect(w, e) ==
    /\ worker[w].pc = "idle"
    /\ row[e].status \in {"signed"} \cup Broadcast
    /\ Become(w,
          IF Known(TxOf(e, row[e].raw))
          THEN IF row[e].status = "submitted" THEN IdleWorker
               ELSE [IdleWorker EXCEPT !.pc = "mark", !.job = e, !.outcome = "submitted"]
          ELSE [IdleWorker EXCEPT
                   !.pc = IF row[e].status = "signed" THEN "operator_claim" ELSE "rebroadcast",
                   !.job = e, !.at = now])
    /\ UNCHANGED <<now, row, nextNonce, watch, chain, crashes>>

(* rebroadcast_raw_transaction: hand out the persisted bytes, no others. *)
Rebroadcast(w) ==
    LET e == worker[w].job
    IN  /\ worker[w].pc = "rebroadcast"
        /\ row[e].status \in Broadcast
        /\ Become(w, [worker[w] EXCEPT !.pc = "demote", !.raw = row[e].raw])
        /\ UNCHANGED <<now, row, nextNonce, watch, chain, crashes>>

(* mark_submission_unknown before the operator's send. *)
Demote(w) ==
    LET e == worker[w].job
    IN  /\ worker[w].pc = "demote"
        /\ row[e].status \in Broadcast
        /\ Update(e, [row[e] EXCEPT !.status = "submission_unknown"])
        /\ Become(w, [worker[w] EXCEPT !.pc = "operator_send"])
        /\ UNCHANGED <<now, nextNonce, watch, chain, crashes>>

(* A worker stops where it is: it crashes, a signer, an RPC call or the    *)
(* approval fails, the repository raises, or there is nothing left to do.  *)
Abandon(w) ==
    /\ worker[w].pc # "idle"
    /\ Become(w, IdleWorker)
    /\ UNCHANGED <<now, row, nextNonce, watch, chain, crashes>>

-----------------------------------------------------------------------------
(* The watcher: HostedChainWatcher.watch, called for every watchable row.  *)

(* Fault: the newest block is believed. *)
FaultObserveLatest(e) ==
    {[ok |-> mined[n].ok, block |-> mined[n].block, fork |-> mined[n].fork, safe |-> safe] :
        n \in {n \in DOMAIN mined : mined[n].tx = TxOf(e, row[e].raw)}}

(* The receipt of e's transaction, once it is deep enough below the        *)
(* finality boundary (_observe); the set is empty while it is not.         *)
Observations(e) ==
    {[ok |-> mined[n].ok, block |-> mined[n].block, fork |-> mined[n].fork, safe |-> safe] :
        n \in {n \in DOMAIN mined : /\ mined[n].tx = TxOf(e, row[e].raw)
                                    /\ mined[n].block + Depth <= safe}}

SameReceipt(a, b) == a.ok = b.ok /\ a.block = b.block /\ a.fork = b.fork

(* watch of an unsigned execution: release_expired in the same call. *)
WatchUnsigned(e) ==
    /\ watch.pc = "idle"
    /\ CanReleaseExpired(e, now)
    /\ Update(e, [row[e] EXCEPT !.status = "released", !.until = 0])
    /\ UNCHANGED <<now, nextNonce, worker, watch, chain, crashes>>

(* Fault: only submissions that the node acknowledged are looked up. *)
FaultOnlyAcknowledged == {"submitted", "confirmed"}

(* The statuses whose receipt watch looks up. *)
AwaitsReceipt == Broadcast \cup {"confirmed"}

(* watch of a row that has evidence to act on: read the row, observe. *)
Watch(e, pc) ==
    /\ watch.pc = "idle"
    /\ \E ev \in Observations(e) :
          /\ \/ pc = "confirm" /\ ev.ok /\ row[e].status \in AwaitsReceipt
             \/ pc = "revert" /\ ~ev.ok /\ row[e].status \in AwaitsReceipt
             \/ pc = "release" /\ ~ev.ok /\ row[e].status = "reverted" /\ ev.safe >= Deadline[e]
             \/ pc = "review" /\ row[e].status = "finalized" /\ ~SameReceipt(ev, row[e].evidence)
          /\ watch' = [pc |-> pc, job |-> e, evidence |-> ev]
    /\ UNCHANGED <<now, row, nextNonce, worker, chain, crashes>>

(* confirm, for the first time: the execution awaits a receipt. *)
Confirm ==
    LET e == watch.job
    IN  /\ watch.pc = "confirm"
        /\ row[e].status \in Broadcast
        /\ Update(e, [row[e] EXCEPT !.status = "confirmed", !.evidence = watch.evidence])
        /\ watch' = [watch EXCEPT !.pc = "finalize"]
        /\ UNCHANGED <<now, nextNonce, worker, chain, crashes>>

(* confirm of a confirmed row: only the recorded observation, unchanged,   *)
(* is accepted (_replayed_observation).                                    *)
ConfirmReplay ==
    LET e == watch.job
    IN  /\ watch.pc = "confirm"
        /\ row[e].status = "confirmed"
        /\ watch.evidence = row[e].evidence
        /\ watch' = [watch EXCEPT !.pc = "finalize"]
        /\ UNCHANGED <<now, row, nextNonce, worker, chain, crashes>>

Finalize ==
    LET e == watch.job
    IN  /\ watch.pc = "finalize"
        /\ row[e].status = "confirmed"
        /\ Update(e, [row[e] EXCEPT !.status = "finalized"])
        /\ watch' = IdleWatch
        /\ UNCHANGED <<now, nextNonce, worker, chain, crashes>>

Revert ==
    LET e == watch.job
    IN  /\ watch.pc = "revert"
        /\ row[e].status \in Broadcast
        /\ Update(e, [row[e] EXCEPT !.status = "reverted", !.evidence = watch.evidence])
        /\ watch' = IdleWatch
        /\ UNCHANGED <<now, nextNonce, worker, chain, crashes>>

(* release_reverted accepts the evidence: the same failed receipt, at a    *)
(* boundary that has not moved back and is past the deadline.              *)
ReleaseProven(e, ev) ==
    /\ SameReceipt(ev, row[e].evidence)
    /\ ev.safe >= row[e].evidence.safe
    /\ ev.safe >= Deadline[e]

ReleaseReverted ==
    LET e == watch.job
    IN  /\ watch.pc = "release"
        /\ row[e].status = "reverted"
        /\ ReleaseProven(e, watch.evidence)
        /\ Update(e, [row[e] EXCEPT !.status = "released", !.evidence = watch.evidence])
        /\ watch' = IdleWatch
        /\ UNCHANGED <<now, nextNonce, worker, chain, crashes>>

ReorgReview ==
    LET e == watch.job
    IN  /\ watch.pc = "review"
        /\ row[e].status = "finalized"
        /\ Update(e, [row[e] EXCEPT !.status = "reorg_review"])
        /\ watch' = IdleWatch
        /\ UNCHANGED <<now, nextNonce, worker, chain, crashes>>

(* The repository accepts what the watcher holds. *)
WatchAccepted ==
    LET e == watch.job
        status == row[e].status
    IN  \/ watch.pc = "confirm" /\ status \in Broadcast
        \/ watch.pc = "confirm" /\ status = "confirmed" /\ watch.evidence = row[e].evidence
        \/ watch.pc = "finalize" /\ status = "confirmed"
        \/ watch.pc = "revert" /\ status \in Broadcast
        \/ watch.pc = "release" /\ status = "reverted" /\ ReleaseProven(e, watch.evidence)
        \/ watch.pc = "review" /\ status = "finalized"

(* It does not: repository_rejected, and the row is tried again later. *)
WatchRejected ==
    /\ watch.pc # "idle"
    /\ ~WatchAccepted
    /\ watch' = IdleWatch
    /\ UNCHANGED <<now, row, nextNonce, worker, chain, crashes>>

WatchCrash ==
    /\ watch.pc # "idle"
    /\ crashes < MaxWatchCrashes
    /\ crashes' = crashes + 1
    /\ watch' = IdleWatch
    /\ UNCHANGED <<now, row, nextNonce, worker, chain>>

-----------------------------------------------------------------------------
ChainStep ==
    \/ \E tx \in pool, ok \in BOOLEAN : Mine(tx, ok)
    \/ \E tx \in pool : Drop(tx)
    \/ \E n \in DOMAIN mined : Reorganise(n)
    \/ AdvanceSafe

WorkerStep(w) ==
    \/ \E e \in Execution :
          ExecuteNew(w, e) \/ ExecuteExisting(w, e) \/ OperatorInspect(w, e)
    \/ ReadPending(w) \/ ReadLatest(w)
    \/ Allocate(w) \/ AllocateExisting(w) \/ ReleaseExpired(w)
    \/ ClaimSigning(w) \/ PersistSigned(w) \/ ClaimSubmission(w)
    \/ AlreadyKnown(w)
    \/ \E taken \in BOOLEAN,
          seen \in {"submitted", "submission_unknown", "submission_rejected", "nothing"} :
          Send(w, taken, seen)
    \/ Mark(w) \/ Rebroadcast(w) \/ Demote(w) \/ Abandon(w)

WatchPc == {"confirm", "revert", "release", "review"}

WatchStep ==
    \/ \E e \in Execution : WatchUnsigned(e) \/ \E pc \in WatchPc : Watch(e, pc)
    \/ Confirm \/ ConfirmReplay \/ Finalize \/ Revert \/ ReleaseReverted
    \/ ReorgReview \/ WatchRejected \/ WatchCrash

Next ==
    \/ Tick
    \/ ChainStep
    \/ \E w \in Worker : WorkerStep(w)
    \/ WatchStep

Spec == Init /\ [][Next]_vars

(* The watcher polls for ever and takes the rows in the order of their     *)
(* last attempt, so no watchable row is passed over for ever; time and the *)
(* finality boundary move on.  Nothing is assumed of workers, the operator *)
(* or the mempool.                                                         *)
Fairness ==
    /\ WF_vars(Tick)
    /\ WF_vars(AdvanceSafe)
    /\ \A e \in Execution :
          /\ SF_vars(WatchUnsigned(e))
          /\ \A pc \in WatchPc : SF_vars(Watch(e, pc))
    /\ WF_vars(Confirm \/ ConfirmReplay \/ Finalize \/ Revert \/ ReleaseReverted
                 \/ ReorgReview \/ WatchRejected)

FairSpec == Spec /\ Fairness

-----------------------------------------------------------------------------
(* Every variable has its type. *)
TypeOK ==
    /\ now \in Nat
    /\ row \in [Execution -> Row]
    /\ nextNonce \in Nat
    /\ worker \in [Worker -> WorkerState]
    /\ watch \in WatchState
    /\ pool \in SUBSET Tx
    /\ mined \in Seq([tx : Tx, ok : BOOLEAN, block : Nat, fork : Nat])
    /\ safe \in Nat
    /\ revisions \in Nat
    /\ crashes \in Nat

(* An execution owns its nonce while it is live, and for ever once it has  *)
(* been signed.                                                            *)
OwnsNonce(e) ==
    /\ row[e].status # "none"
    /\ row[e].status \notin Given_up \/ row[e].raw # 0

(* No two executions own one relayer nonce, although nonces of executions  *)
(* that expired unsigned are handed out again (_allocate_relayer_nonce)    *)
(* from nonce readings that may be stale.                                  *)
NonceExclusive ==
    \A e, f \in Execution :
        OwnsNonce(e) /\ OwnsNonce(f) /\ e # f => row[e].nonce # row[f].nonce

(* The network never sees two different transactions with one nonce: not   *)
(* from two signers whose claims overlapped, not from a rebroadcast, not   *)
(* from a recycled nonce.                                                  *)
OneTransactionPerNonce ==
    LET Sent == pool \cup {mined[n].tx : n \in DOMAIN mined}
    IN  \A s, t \in Sent : s.nonce = t.nonce => s = t

(* A released execution is not paid on chain, and stays unpaid: releasing  *)
(* an unsigned one is final, and a reverted one is only released when the  *)
(* chain's own clock is past the deadline.                                 *)
ReleasedIsUnpaid ==
    \A e \in Execution : row[e].status \in Given_up => ~PaidOnChain(e)

(* Unless the chain went back below its finality boundary, a finalized     *)
(* execution is paid and a reverted one is not, whatever was sent again    *)
(* meanwhile and however the mempool and the newest blocks changed.        *)
VerdictMatchesChain ==
    revisions = 0 =>
        \A e \in Execution :
            /\ row[e].status \in {"confirmed", "finalized"} => PaidOnChain(e)
            /\ row[e].status = "reverted" => ~PaidOnChain(e)
            /\ row[e].status # "reorg_review"

(* What the node that asked for an execution sees of it: whether it is open *)
(* or how it ended, and whether its money may move or has moved.            *)
Budget == [e \in Execution |->
    CASE row[e].status = "none" -> "none"
      [] row[e].status \in Given_up -> "released"
      [] row[e].status \in {"finalized", "reorg_review"} -> "settled"
      [] OTHER -> "reserved"]
Money == [e \in Execution |->
    IF PaidOnChain(e) THEN "moved"
    ELSE IF row[e].raw = 0 \/ \E n \in DOMAIN mined : mined[n].tx.exec = e THEN "idle"
    ELSE "sent"]

Promise(e) == INSTANCE HeldPayment WITH
    Payment <- {e}, budget <- [x \in {e} |-> Budget[x]], money <- [x \in {e} |-> Money[x]]

(* Each execution is a held payment, until the chain goes back below its    *)
(* finality boundary: it is given up only when it can never pay, finalized  *)
(* only after it paid, and neither is taken back.  One replaced block may   *)
(* undo several executions, so each is a payment of its own.                *)
HoldsPayments ==
    /\ \A e \in Execution : Promise(e)!Init
    /\ [][revisions' = 0 =>
             \A e \in Execution :
                (Budget'[e] = Budget[e] /\ Money'[e] = Money[e]) \/ Promise(e)!Next]_vars

(* A signed transaction is never replaced, and neither its nonce nor the   *)
(* execution is given up while it could still pay: once signed, a row      *)
(* reaches released only through reverted.                                 *)
SignedIsImmutable ==
    [][\A e \in Execution :
          row[e].raw # 0 =>
              /\ row'[e].raw = row[e].raw
              /\ row'[e].nonce = row[e].nonce
              /\ row'[e].status \in Given_up =>
                    row[e].status \in Given_up \cup {"reverted"}]_vars

(* An execution that nobody signs does not keep its nonce: it is signed or *)
(* released in the end, even if every worker died.                         *)
UnsignedIsResolved ==
    \A e \in Execution : row[e].status \in Unsigned ~> row[e].status \notin Unsigned

(* A receipt below the finality boundary is taken into account in the end, *)
(* even if the send that led to it was never answered.                     *)
ReceiptIsRecorded ==
    \A e \in Execution :
        row[e].status \in Broadcast /\ Observations(e) # {}
            ~> row[e].status \notin Broadcast

(* A confirmed execution is finalized in the end: the watcher takes it up  *)
(* again after a restart and replays its evidence before finalizing.       *)
ConfirmedIsFinalized ==
    \A e \in Execution : row[e].status = "confirmed" ~> row[e].status # "confirmed"
=============================================================================
