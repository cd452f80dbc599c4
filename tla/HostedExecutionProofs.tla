----------------------- MODULE HostedExecutionProofs -----------------------
(***************************************************************************)
(* Proofs about HostedExecution, for any set of executions and workers,    *)
(* any deadlines, lease, depth and bounds.                                 *)
(***************************************************************************)
EXTENDS HostedExecution, SequenceTheorems, TLAPS

(* A process that is not idle works on an execution. *)
JobsAssigned ==
    /\ \A w \in Worker : worker[w].pc # "idle" => worker[w].job \in Execution
    /\ watch.pc # "idle" => watch.job \in Execution

Typed == TypeOK /\ JobsAssigned

LEMMA InitialValuesTyped ==
    /\ NoEvidence \in Evidence
    /\ NoRow \in Row
    /\ IdleWorker \in WorkerState /\ IdleWorker.pc = "idle"
    /\ IdleWatch \in WatchState /\ IdleWatch.pc = "idle"
<1>1. NoEvidence \in Evidence
      BY DEF NoEvidence, Evidence
<1>2. NoRow \in Row
      BY <1>1 DEF NoRow, Row, Status
<1>3. IdleWorker \in WorkerState /\ IdleWorker.pc = "idle"
      BY DEF IdleWorker, WorkerState
<1>4. IdleWatch \in WatchState /\ IdleWatch.pc = "idle"
      BY <1>1 DEF IdleWatch, WatchState
<1>. QED  BY <1>1, <1>2, <1>3, <1>4

LEMMA MinedTyped ==
    ASSUME TypeOK
    PROVE  /\ Len(mined) \in Nat
           /\ DOMAIN mined = 1 .. Len(mined)
           /\ \A n \in 1 .. Len(mined) :
                 /\ mined[n] \in [tx : Tx, ok : BOOLEAN, block : Nat, fork : Nat]
                 /\ mined[n].tx \in Tx
                 /\ mined[n].ok \in BOOLEAN
                 /\ mined[n].block \in Nat
                 /\ mined[n].fork \in Nat
<1> DEFINE M == [tx : Tx, ok : BOOLEAN, block : Nat, fork : Nat]
<1>1. mined \in Seq(M)
      BY DEF TypeOK
<1>2. Len(mined) \in Nat /\ DOMAIN mined = 1 .. Len(mined)
      BY <1>1, LenProperties
<1>3. \A n \in 1 .. Len(mined) : mined[n] \in M
      BY <1>1, ElementOfSeq
<1>. QED  BY <1>2, <1>3

LEMMA InitTyped == Init => Typed
  BY InitialValuesTyped DEF Init, Typed, TypeOK, JobsAssigned

LEMMA ChainTyped == Typed /\ (ChainStep \/ Tick) => Typed'
<1> SUFFICES ASSUME Typed, ChainStep \/ Tick
             PROVE  Typed'
    OBVIOUS
<1> USE DEF Typed, TypeOK, JobsAssigned
<1>1. CASE \E tx \in pool, ok \in BOOLEAN : Mine(tx, ok)
      BY <1>1 DEF Mine
<1>2. CASE \E tx \in pool : Drop(tx)
      BY <1>2 DEF Drop
<1>3. CASE \E n \in DOMAIN mined : Reorganise(n)
  <2>1. PICK n \in DOMAIN mined : Reorganise(n)
        BY <1>3
  <2>2. mined' \in Seq([tx : Tx, ok : BOOLEAN, block : Nat, fork : Nat])
    <3>1. n \in Nat /\ n - 1 \in Int /\ \A k \in 1 .. n - 1 : k \in 1 .. Len(mined)
          BY MinedTyped
    <3>2. SubSeq(mined, 1, n - 1) \in Seq([tx : Tx, ok : BOOLEAN, block : Nat, fork : Nat])
          BY <3>1, MinedTyped, SubSeqProperties
    <3>. QED  BY <2>1, <3>2 DEF Reorganise
  <2>3. pool' \in SUBSET Tx
    <3>1. \A k \in n .. Len(mined) : mined[k].tx \in Tx
          BY MinedTyped
    <3>. QED  BY <2>1, <3>1 DEF Reorganise
  <2>4. revisions' \in Nat
        BY <2>1 DEF Reorganise
  <2>. QED  BY <2>1, <2>2, <2>3, <2>4 DEF Reorganise
<1>4. CASE AdvanceSafe
      BY <1>4 DEF AdvanceSafe
<1>5. CASE Tick
      BY <1>5 DEF Tick
<1>. QED  BY <1>1, <1>2, <1>3, <1>4, <1>5 DEF ChainStep

LEMMA UpdateTyped ==
    ASSUME TypeOK, NEW e \in Execution, NEW r \in Row, Update(e, r)
    PROVE  /\ row' \in [Execution -> Row]
           /\ row'[e] = r
           /\ \A f \in Execution : f # e => row'[f] = row[f]
  BY DEF TypeOK, Update

LEMMA BecomeTyped ==
    ASSUME Typed, NEW w \in Worker, NEW s \in WorkerState, Become(w, s),
           s.pc # "idle" => s.job \in Execution
    PROVE  /\ worker' \in [Worker -> WorkerState]
           /\ \A v \in Worker : worker'[v].pc # "idle" => worker'[v].job \in Execution
           /\ worker'[w] = s
           /\ \A v \in Worker : v # w => worker'[v] = worker[v]
  BY DEF Typed, TypeOK, JobsAssigned, Become

LEMMA WatchTyped == Typed /\ WatchStep => Typed'
<1> SUFFICES ASSUME Typed, WatchStep
             PROVE  Typed'
    OBVIOUS
<1> USE DEF Typed, TypeOK, JobsAssigned, chain
<1>1. ASSUME NEW e \in Execution, WatchUnsigned(e)
      PROVE  Typed'
  <2>1. [row[e] EXCEPT !.status = "released", !.until = 0] \in Row
        BY DEF Row, Status, Given_up
  <2>. QED  BY <1>1, <2>1, UpdateTyped DEF WatchUnsigned
<1>2. ASSUME NEW e \in Execution, NEW pc \in WatchPc, Watch(e, pc)
      PROVE  Typed'
  <2>1. PICK ev \in Observations(e) : watch' = [pc |-> pc, job |-> e, evidence |-> ev]
        BY <1>2 DEF Watch
  <2>2. ev \in Evidence
    <3>1. PICK n \in DOMAIN mined :
              ev = [ok |-> mined[n].ok, block |-> mined[n].block, fork |-> mined[n].fork,
                    safe |-> safe]
          BY <2>1 DEF Observations
    <3>. QED  BY <3>1, MinedTyped DEF Evidence
  <2>3. watch' \in WatchState /\ watch'.job \in Execution
        BY <2>1, <2>2 DEF WatchState, WatchPc
  <2>. QED  BY <1>2, <2>3 DEF Watch
<1>3. watch.evidence \in Evidence /\ (watch.pc # "idle" => watch.job \in Execution)
      BY DEF WatchState
<1>4. \A e \in Execution, st \in Status, ev \in Evidence :
          /\ [row[e] EXCEPT !.status = st] \in Row
          /\ [row[e] EXCEPT !.status = st, !.evidence = ev] \in Row
      BY DEF Row
<1>5. {"confirmed", "finalized", "reverted", "released", "reorg_review"} \subseteq Status
      BY DEF Status, Given_up
<1>6. CASE Confirm
      BY <1>6, <1>3, <1>4, <1>5, UpdateTyped DEF Confirm, WatchState
<1>7. CASE ConfirmReplay
      BY <1>7 DEF ConfirmReplay, WatchState
<1>8. CASE Finalize
      BY <1>8, <1>3, <1>4, <1>5, UpdateTyped, InitialValuesTyped DEF Finalize
<1>9. CASE Revert
      BY <1>9, <1>3, <1>4, <1>5, UpdateTyped, InitialValuesTyped DEF Revert
<1>10. CASE ReleaseReverted
      BY <1>10, <1>3, <1>4, <1>5, UpdateTyped, InitialValuesTyped DEF ReleaseReverted
<1>11. CASE ReorgReview
      BY <1>11, <1>3, <1>4, <1>5, UpdateTyped, InitialValuesTyped DEF ReorgReview
<1>12. CASE WatchRejected
      BY <1>12, InitialValuesTyped DEF WatchRejected
<1>13. CASE WatchCrash
      BY <1>13, InitialValuesTyped DEF WatchCrash
<1>. QED  BY <1>1, <1>2, <1>6, <1>7, <1>8, <1>9, <1>10, <1>11, <1>12, <1>13 DEF WatchStep

LEMMA BranchTyped ==
    ASSUME NEW e, NEW status, NEW t
    PROVE  Branch(e, status, t) \in {"idle", "release", "claim", "submit"}
  BY DEF Branch

LEMMA WorkerTyped ==
    ASSUME Typed, NEW w \in Worker, WorkerStep(w)
    PROVE  Typed'
<1> USE DEF Typed, TypeOK, JobsAssigned, chain
<1> DEFINE j == worker[w].job
<1>a. /\ worker[w] \in WorkerState
      /\ worker[w].at \in Nat /\ worker[w].pending \in Nat /\ worker[w].gen \in Nat
      /\ worker[w].pc # "idle" => j \in Execution
      BY DEF WorkerState
<1>b. \A e \in Execution : row[e] \in Row /\ row[e].gen \in Nat /\ row[e].raw \in Nat
                            /\ row[e].nonce \in Nat
      BY DEF Row
<1>1. ASSUME NEW e \in Execution, ExecuteNew(w, e)
      PROVE  Typed'
  <2> DEFINE s == [IdleWorker EXCEPT !.pc = "pending", !.job = e, !.at = now]
  <2>1. Become(w, s)
        BY <1>1 DEF ExecuteNew
  <2>2. s \in WorkerState /\ s.job = e
        BY DEF IdleWorker, WorkerState
  <2> HIDE DEF s
  <2>. QED  BY <1>1, <2>1, <2>2, BecomeTyped DEF ExecuteNew
<1>16. CASE ReadPending(w)
  <2>1. PICK n \in {Len(mined)} \cup {tx.nonce + 1 : tx \in pool} :
            Become(w, [worker[w] EXCEPT !.pc = "latest", !.pending = n])
        BY <1>16 DEF ReadPending
  <2>2. n \in Nat
        BY MinedTyped DEF Tx
  <2> DEFINE s == [worker[w] EXCEPT !.pc = "latest", !.pending = n]
  <2>3. s \in WorkerState /\ s.job = j /\ j \in Execution
        BY <1>16, <1>a, <2>2 DEF WorkerState, ReadPending
  <2>4. Become(w, s)
        BY <2>1
  <2> HIDE DEF s
  <2>. QED  BY <1>16, <2>3, <2>4, BecomeTyped DEF ReadPending
<1>17. CASE ReadLatest(w)
  <2> DEFINE s == [worker[w] EXCEPT !.pc = "allocate", !.confirmed = Len(mined)]
  <2>1. Len(mined) \in Nat
        BY MinedTyped
  <2>2. s \in WorkerState /\ s.job = j /\ j \in Execution
        BY <1>17, <1>a, <2>1 DEF WorkerState, ReadLatest
  <2>3. Become(w, s)
        BY <1>17 DEF ReadLatest
  <2> HIDE DEF s
  <2>. QED  BY <1>17, <2>2, <2>3, BecomeTyped DEF ReadLatest
<1>2. ASSUME NEW e \in Execution, ExecuteExisting(w, e)
      PROVE  Typed'
  <2> DEFINE pc == Branch(e, row[e].status, now)
             s == [IdleWorker EXCEPT !.pc = pc, !.job = e, !.at = now]
  <2>1. pc \in {"release", "claim", "submit"}
        BY <1>2, BranchTyped DEF ExecuteExisting
  <2>2. Become(w, s)
        BY <1>2 DEF ExecuteExisting
  <2> HIDE DEF pc
  <2>3. s \in WorkerState /\ s.job = e
        BY <2>1 DEF IdleWorker, WorkerState
  <2> HIDE DEF s
  <2>. QED  BY <1>2, <2>2, <2>3, BecomeTyped DEF ExecuteExisting
<1>3. ASSUME NEW e \in Execution, OperatorInspect(w, e)
      PROVE  Typed'
  <2>1. PICK s : /\ Become(w, s)
                 /\ \/ s = IdleWorker
                    \/ s = [IdleWorker EXCEPT !.pc = "mark", !.job = e, !.outcome = "submitted"]
                    \/ s = [IdleWorker EXCEPT
                               !.pc = IF row[e].status = "signed" THEN "operator_claim"
                                      ELSE "rebroadcast",
                               !.job = e, !.at = now]
        BY <1>3 DEF OperatorInspect
  <2>2. s \in WorkerState /\ (s.pc # "idle" => s.job \in Execution)
    <3>1. CASE s = IdleWorker
          BY <3>1, InitialValuesTyped
    <3>2. CASE s = [IdleWorker EXCEPT !.pc = "mark", !.job = e, !.outcome = "submitted"]
          BY <3>2 DEF IdleWorker, WorkerState
    <3>3. ASSUME NEW pc \in {"operator_claim", "rebroadcast"},
                 s = [IdleWorker EXCEPT !.pc = pc, !.job = e, !.at = now]
          PROVE  s \in WorkerState /\ s.job \in Execution
          BY <3>3 DEF IdleWorker, WorkerState
    <3>. QED  BY <2>1, <3>1, <3>2, <3>3
  <2>. QED  BY <1>3, <2>1, <2>2, BecomeTyped DEF OperatorInspect
<1>4. CASE Allocate(w)
  <2>1. j \in Execution
        BY <1>4, <1>a DEF Allocate
  <2>2. PICK n \in 0 .. Larger(nextNonce, worker[w].pending) :
            /\ Update(j, [NoRow EXCEPT !.status = "preflight_approved", !.nonce = n])
            /\ nextNonce' = Larger(nextNonce, n + 1)
        BY <1>4 DEF Allocate
  <2>3. n \in Nat /\ nextNonce' \in Nat
        BY <1>a, <2>2 DEF Larger
  <2>4. [NoRow EXCEPT !.status = "preflight_approved", !.nonce = n] \in Row
        BY <2>3, InitialValuesTyped DEF NoRow, Row, Status, Unsigned
  <2> DEFINE s == [IdleWorker EXCEPT !.pc = "claim", !.job = j, !.at = worker[w].at]
  <2>5. s \in WorkerState /\ s.job = j
        BY <1>a, <2>1 DEF IdleWorker, WorkerState
  <2>6. Become(w, s)
        BY <1>4 DEF Allocate
  <2> HIDE DEF s, j
  <2>. QED  BY <1>4, <2>1, <2>2, <2>3, <2>4, <2>5, <2>6, UpdateTyped, BecomeTyped DEF Allocate
<1>5. CASE AllocateExisting(w)
  <2> DEFINE pc == Branch(j, row[j].status, worker[w].at)
             s == IF pc = "idle" THEN IdleWorker
                  ELSE [IdleWorker EXCEPT !.pc = pc, !.job = j, !.at = worker[w].at]
  <2>1. j \in Execution
        BY <1>5, <1>a DEF AllocateExisting
  <2>2. pc \in {"idle", "release", "claim", "submit"}
        BY BranchTyped
  <2>3. Become(w, s)
        BY <1>5 DEF AllocateExisting
  <2> HIDE DEF pc
  <2>4. s \in WorkerState /\ (s.pc # "idle" => s.job \in Execution)
        BY <1>a, <2>1, <2>2 DEF IdleWorker, WorkerState
  <2> HIDE DEF s
  <2>. QED  BY <1>5, <2>3, <2>4, BecomeTyped DEF AllocateExisting
<1>6. CASE ReleaseExpired(w)
  <2>1. j \in Execution
        BY <1>6, <1>a DEF ReleaseExpired
  <2>2. [row[j] EXCEPT !.status = "released", !.until = 0] \in Row
        BY <1>b, <2>1 DEF Row, Status, Given_up
  <2>. QED  BY <1>6, <2>1, <2>2, UpdateTyped, BecomeTyped, InitialValuesTyped DEF ReleaseExpired
<1>7. CASE ClaimSigning(w)
  <2> DEFINE r == [row[j] EXCEPT !.status = "signing", !.gen = NextGeneration(j),
                                 !.until = Smaller(Deadline[j], worker[w].at + Lease)]
             s == [worker[w] EXCEPT !.pc = "sign", !.gen = NextGeneration(j)]
  <2>1. j \in Execution /\ Update(j, r) /\ Become(w, s)
        BY <1>7, <1>a DEF ClaimSigning
  <2>2. NextGeneration(j) \in Nat /\ Smaller(Deadline[j], worker[w].at + Lease) \in Nat
    <3>1. Deadline[j] \in Nat /\ Lease \in Nat
          BY <2>1, HostedAssumption
    <3>2. row[j].gen \in Nat /\ worker[w].at \in Nat
          BY <1>a, <1>b, <2>1
    <3> HIDE DEF j
    <3>3. NextGeneration(j) \in Nat
          BY <3>2 DEF NextGeneration
    <3>4. Smaller(Deadline[j], worker[w].at + Lease) \in {Deadline[j], worker[w].at + Lease}
          BY DEF Smaller
    <3>. QED  BY <3>1, <3>2, <3>3, <3>4
  <2>3. r \in Row
        BY <1>b, <2>1, <2>2 DEF Row, Status, Unsigned
  <2>4. s \in WorkerState /\ s.job = j
        BY <1>a, <2>2 DEF WorkerState
  <2> HIDE DEF r, s
  <2>. QED  BY <1>7, <2>1, <2>3, <2>4, UpdateTyped, BecomeTyped DEF ClaimSigning
<1>8. CASE PersistSigned(w)
  <2> DEFINE r == [row[j] EXCEPT !.status = "signed", !.until = 0, !.raw = worker[w].gen]
  <2>1. j \in Execution /\ Update(j, r)
        BY <1>8, <1>a DEF PersistSigned
  <2>2. PICK t \in worker[w].at .. now :
            Become(w, [worker[w] EXCEPT !.pc = "submit", !.at = t])
        BY <1>8 DEF PersistSigned
  <2> DEFINE s == [worker[w] EXCEPT !.pc = "submit", !.at = t]
  <2>3. r \in Row
        BY <1>a, <1>b, <2>1 DEF Row, Status
  <2>4. s \in WorkerState /\ s.job = j
    <3>1. t \in Nat
          BY <1>a
    <3>. QED  BY <1>a, <3>1 DEF WorkerState
  <2> HIDE DEF r
  <2>. QED  BY <1>8, <2>1, <2>2, <2>3, <2>4, UpdateTyped, BecomeTyped DEF PersistSigned
<1>9. CASE ClaimSubmission(w)
  <2> DEFINE r == [row[j] EXCEPT !.status = "submission_unknown"]
  <2>1. j \in Execution /\ Update(j, r)
        BY <1>9, <1>a DEF ClaimSubmission
  <2>2. PICK t \in worker[w].at .. now :
            Become(w, [worker[w] EXCEPT
                !.pc = IF worker[w].pc = "submit" THEN "send" ELSE "operator_send",
                !.at = t, !.raw = row[j].raw, !.gen = 0])
        BY <1>9 DEF ClaimSubmission
  <2> DEFINE pc == IF worker[w].pc = "submit" THEN "send" ELSE "operator_send"
             raw == row[j].raw
             s == [worker[w] EXCEPT !.pc = pc, !.at = t, !.raw = raw, !.gen = 0]
  <2>3. r \in Row
        BY <1>b, <2>1 DEF Row, Status, Broadcast
  <2>4. t \in Nat /\ raw \in Nat /\ pc \in {"send", "operator_send"}
        BY <1>a, <1>b, <2>1
  <2>5. Become(w, s)
        BY <2>2
  <2> HIDE DEF pc, raw
  <2>6. s \in WorkerState /\ s.job = j
        BY <1>a, <2>4 DEF WorkerState
  <2> HIDE DEF r, s
  <2>. QED  BY <1>9, <2>1, <2>3, <2>5, <2>6, UpdateTyped, BecomeTyped DEF ClaimSubmission
<1>10. CASE AlreadyKnown(w)
  <2> DEFINE s == [worker[w] EXCEPT !.pc = "mark", !.outcome = "submitted", !.raw = 0]
  <2>1. j \in Execution /\ Become(w, s)
        BY <1>10, <1>a DEF AlreadyKnown
  <2>2. s \in WorkerState /\ s.job = j
        BY <1>a DEF WorkerState
  <2> HIDE DEF s
  <2>. QED  BY <1>10, <2>1, <2>2, BecomeTyped DEF AlreadyKnown
<1>11. ASSUME NEW taken \in BOOLEAN,
              NEW seen \in {"submitted", "submission_unknown", "submission_rejected", "nothing"},
              Send(w, taken, seen)
       PROVE  Typed'
  <2> DEFINE s1 == [worker[w] EXCEPT !.pc = "mark", !.outcome = seen, !.raw = 0]
             s2 == [worker[w] EXCEPT !.pc = "mark", !.raw = 0,
                       !.outcome = IF seen = "nothing" THEN "submission_unknown" ELSE seen]
  <2>1. j \in Execution
        BY <1>11, <1>a DEF Send
  <2>2. \/ Become(w, IdleWorker)
        \/ seen # "nothing" /\ Become(w, s1)
        \/ Become(w, s2)
        BY <1>11 DEF Send
  <2>3. (seen # "nothing" => s1 \in WorkerState) /\ s1.job = j
        BY <1>a DEF WorkerState
  <2>4. s2 \in WorkerState /\ s2.job = j
        BY <1>a DEF WorkerState
  <2>5. pool' \in SUBSET Tx
    <3>1. TxOf(j, worker[w].raw) \in Tx
          BY <1>a, <1>b, <2>1 DEF TxOf, Tx, WorkerState
    <3>. QED  BY <1>11, <3>1 DEF Send
  <2> HIDE DEF s1, s2
  <2>6. worker' \in [Worker -> WorkerState]
        /\ \A v \in Worker : worker'[v].pc # "idle" => worker'[v].job \in Execution
        BY <2>1, <2>2, <2>3, <2>4, BecomeTyped, InitialValuesTyped
  <2>. QED  BY <1>11, <2>5, <2>6 DEF Send
<1>12. CASE Mark(w)
  <2>1. j \in Execution
        BY <1>12, <1>a DEF Mark
  <2>2. worker[w].outcome \in Broadcast
        BY <1>12, <1>a DEF Mark, MayMark, Broadcast
  <2>3. [row[j] EXCEPT !.status = worker[w].outcome] \in Row
        BY <1>b, <2>1, <2>2 DEF Row, Status
  <2>. QED  BY <1>12, <2>1, <2>3, UpdateTyped, BecomeTyped, InitialValuesTyped DEF Mark
<1>13. CASE Rebroadcast(w)
  <2> DEFINE s == [worker[w] EXCEPT !.pc = "demote", !.raw = row[j].raw]
  <2>1. j \in Execution /\ Become(w, s)
        BY <1>13, <1>a DEF Rebroadcast
  <2>2. s \in WorkerState /\ s.job = j
        BY <1>a, <1>b, <2>1 DEF WorkerState
  <2> HIDE DEF s
  <2>. QED  BY <1>13, <2>1, <2>2, BecomeTyped DEF Rebroadcast
<1>14. CASE Demote(w)
  <2> DEFINE r == [row[j] EXCEPT !.status = "submission_unknown"]
             s == [worker[w] EXCEPT !.pc = "operator_send"]
  <2>1. j \in Execution /\ Update(j, r) /\ Become(w, s)
        BY <1>14, <1>a DEF Demote
  <2>2. r \in Row
        BY <1>b, <2>1 DEF Row, Status, Broadcast
  <2>3. s \in WorkerState /\ s.job = j
        BY <1>a DEF WorkerState
  <2> HIDE DEF r, s
  <2>. QED  BY <1>14, <2>1, <2>2, <2>3, UpdateTyped, BecomeTyped DEF Demote
<1>15. CASE Abandon(w)
      BY <1>15, InitialValuesTyped, BecomeTyped DEF Abandon
<1>. QED  BY <1>1, <1>2, <1>3, <1>4, <1>5, <1>6, <1>7, <1>8, <1>9, <1>10, <1>11, <1>12,
             <1>13, <1>14, <1>15, <1>16, <1>17 DEF WorkerStep

LEMMA NextTyped == Typed /\ [Next]_vars => Typed'
<1> SUFFICES ASSUME Typed, [Next]_vars
             PROVE  Typed'
    OBVIOUS
<1>1. CASE UNCHANGED vars
      BY <1>1 DEF vars, Typed, TypeOK, JobsAssigned
<1>2. CASE Next
      BY <1>2, ChainTyped, WatchTyped, WorkerTyped DEF Next
<1>. QED  BY <1>1, <1>2

(* Every reachable state has the type that the columns, the local          *)
(* variables and the chain's answers have.                                 *)
THEOREM HostedTypes == Spec => []TypeOK
<1>1. Spec => []Typed
      BY InitTyped, NextTyped, PTL DEF Spec
<1>2. Typed => TypeOK
      BY DEF Typed
<1>. QED  BY <1>1, <1>2, PTL

-----------------------------------------------------------------------------
(* Who owns a nonce, and which bytes may be sent with it.                  *)

SignedStatus == Status \ (Unsigned \cup Given_up \cup {"none"})

(* The nonce row is ahead of every nonce that was handed out. *)
NonceIssued == \A e \in Execution : row[e].status # "none" => row[e].nonce < nextNonce

(* A raw transaction is there exactly when the status says so; one that    *)
(* was given up may have it or not.                                        *)
RawMatchesStatus ==
    \A e \in Execution :
        /\ row[e].status \in Unsigned \cup {"none"} => row[e].raw = 0
        /\ row[e].status \in SignedStatus => row[e].raw # 0

(* What a worker is about to send is what the row holds. *)
WorkerHoldsRow(w) ==
    /\ worker[w].pc = "sign" => worker[w].gen # 0
    /\ worker[w].pc \in {"demote", "send", "operator_send"} =>
          worker[w].raw # 0 /\ worker[w].raw = row[worker[w].job].raw

(* What was sent is what the row holds. *)
HoldsRow(tx) ==
    /\ tx.raw # 0
    /\ tx.raw = row[tx.exec].raw
    /\ tx.nonce = row[tx.exec].nonce

ChainHoldsRows ==
    /\ \A tx \in pool : HoldsRow(tx)
    /\ \A n \in DOMAIN mined : HoldsRow(mined[n].tx)

Ownership ==
    /\ Typed
    /\ NonceIssued
    /\ RawMatchesStatus
    /\ NonceExclusive
    /\ \A w \in Worker : WorkerHoldsRow(w)
    /\ ChainHoldsRows

(* What every step but an allocation and a signature does to the rows. *)
Undecided == SignedStatus \ {"finalized", "reorg_review"}
StatusKept(f) ==
    \/ row'[f].status = row[f].status
    \/ row[f].status \in Unsigned /\ row'[f].status \in Unsigned \cup Given_up
    \/ row[f].status \in Undecided /\ row'[f].status \in SignedStatus
    \/ row[f].status = "finalized" /\ row'[f].status = "reorg_review"
    \/ row[f].status = "reverted" /\ row'[f].status \in Given_up

RowsKept ==
    /\ nextNonce' = nextNonce
    /\ \A f \in Execution :
          /\ row'[f].nonce = row[f].nonce
          /\ row'[f].raw = row[f].raw
          /\ StatusKept(f)

LEMMA UpdateKeepsRows ==
    ASSUME TypeOK, NEW e \in Execution, NEW r \in Row, Update(e, r), nextNonce' = nextNonce,
           r.nonce = row[e].nonce, r.raw = row[e].raw,
           \/ row[e].status \in Unsigned /\ r.status \in Unsigned \cup Given_up
           \/ row[e].status \in Undecided /\ r.status \in SignedStatus
           \/ row[e].status = "finalized" /\ r.status = "reorg_review"
           \/ row[e].status = "reverted" /\ r.status \in Given_up
    PROVE  RowsKept
  BY UpdateTyped DEF RowsKept, StatusKept

LEMMA RowStep ==
    ASSUME Typed, [Next]_vars
    PROVE  \/ RowsKept
           \/ \E w \in Worker : Allocate(w)
           \/ \E w \in Worker : PersistSigned(w)
<1> DEFINE j(w) == worker[w].job
<1>a. ASSUME row' = row, nextNonce' = nextNonce
      PROVE  RowsKept
      BY <1>a DEF RowsKept, StatusKept
<1>b. /\ \A e \in Execution : row[e] \in Row
      /\ \A w \in Worker : worker[w].pc # "idle" => j(w) \in Execution
      /\ watch.pc # "idle" => watch.job \in Execution
      /\ watch.evidence \in Evidence
      BY DEF Typed, TypeOK, JobsAssigned, WatchState
<1>c. ASSUME NEW e \in Execution, NEW st \in Status,
             Update(e, [row[e] EXCEPT !.status = st]), nextNonce' = nextNonce,
             \/ row[e].status \in Undecided /\ st \in SignedStatus
             \/ row[e].status = "finalized" /\ st = "reorg_review"
      PROVE  RowsKept
  <2> DEFINE r == [row[e] EXCEPT !.status = st]
  <2>1. r \in Row /\ r.nonce = row[e].nonce /\ r.raw = row[e].raw /\ r.status = st
        BY <1>b DEF Row
  <2> HIDE DEF r
  <2>. QED  BY <1>c, <2>1, UpdateKeepsRows DEF Typed, r
<1>d. ASSUME NEW e \in Execution, NEW st \in Status,
             Update(e, [row[e] EXCEPT !.status = st, !.evidence = watch.evidence]),
             nextNonce' = nextNonce,
             \/ row[e].status \in Undecided /\ st \in SignedStatus
             \/ row[e].status = "reverted" /\ st \in Given_up
      PROVE  RowsKept
  <2> DEFINE r == [row[e] EXCEPT !.status = st, !.evidence = watch.evidence]
  <2>1. r \in Row /\ r.nonce = row[e].nonce /\ r.raw = row[e].raw /\ r.status = st
        BY <1>b DEF Row
  <2> HIDE DEF r
  <2>. QED  BY <1>d, <2>1, UpdateKeepsRows DEF Typed, r
<1>e. ASSUME NEW e \in Execution, nextNonce' = nextNonce, row[e].status \in Unsigned,
             Update(e, [row[e] EXCEPT !.status = "released", !.until = 0])
      PROVE  RowsKept
  <2> DEFINE r == [row[e] EXCEPT !.status = "released", !.until = 0]
  <2>1. /\ r \in Row /\ r.nonce = row[e].nonce /\ r.raw = row[e].raw
        /\ r.status \in Given_up
        BY <1>b DEF Row, Status, Given_up
  <2> HIDE DEF r
  <2>. QED  BY <1>e, <2>1, UpdateKeepsRows DEF Typed, r
<1>f. /\ Broadcast \cup {"signed", "confirmed", "reverted"} \subseteq Undecided
      /\ Undecided \cup {"finalized", "reorg_review"} \subseteq SignedStatus
      /\ SignedStatus \subseteq Status /\ "released" \in Status \cap Given_up
      BY DEF Undecided, SignedStatus, Status, Broadcast, Unsigned, Given_up
<1>1. CASE UNCHANGED vars \/ Tick \/ ChainStep
      BY <1>1, <1>a DEF vars, Tick, ChainStep, Mine, Drop, Reorganise, AdvanceSafe
<1>2. ASSUME NEW w \in Worker, WorkerStep(w), ~Allocate(w), ~PersistSigned(w)
      PROVE  RowsKept
  <2>1. CASE ReleaseExpired(w)
        BY <2>1, <1>b, <1>e DEF ReleaseExpired, CanReleaseExpired
  <2>2. CASE ClaimSigning(w)
    <3> DEFINE r == [row[j(w)] EXCEPT !.status = "signing", !.gen = NextGeneration(j(w)),
                          !.until = Smaller(Deadline[j(w)], worker[w].at + Lease)]
    <3>1. j(w) \in Execution /\ Update(j(w), r) /\ nextNonce' = nextNonce
          BY <2>2, <1>b DEF ClaimSigning
    <3>2. row[j(w)].status \in Unsigned
          BY <2>2 DEF ClaimSigning, ClaimFree, Unsigned
    <3>3. /\ r.nonce = row[j(w)].nonce /\ r.raw = row[j(w)].raw /\ r.status = "signing"
          BY <1>b, <3>1 DEF Row
    <3> HIDE DEF r
    <3>4. \A f \in Execution : row'[f] = IF f = j(w) THEN r ELSE row[f]
          BY <3>1 DEF Update, Typed, TypeOK
    <3>. QED  BY <3>1, <3>2, <3>3, <3>4 DEF RowsKept, StatusKept, Unsigned
  <2>3. CASE ClaimSubmission(w)
        BY <2>3, <1>b, <1>c, <1>f DEF ClaimSubmission, Broadcast
  <2>4. CASE Mark(w)
    <3>1. row[j(w)].status \in Undecided /\ worker[w].outcome \in SignedStatus
          BY <2>4, <1>f DEF Mark, MayMark, Broadcast
    <3>. QED  BY <2>4, <3>1, <1>b, <1>c, <1>f DEF Mark
  <2>5. CASE Demote(w)
        BY <2>5, <1>b, <1>c, <1>f DEF Demote, Broadcast
  <2>6. CASE \/ \E e \in Execution :
                    ExecuteNew(w, e) \/ ExecuteExisting(w, e) \/ OperatorInspect(w, e)
             \/ ReadPending(w) \/ ReadLatest(w) \/ AllocateExisting(w) \/ AlreadyKnown(w)
             \/ Rebroadcast(w) \/ Abandon(w)
             \/ \E taken \in BOOLEAN,
                   seen \in {"submitted", "submission_unknown", "submission_rejected",
                             "nothing"} : Send(w, taken, seen)
        BY <2>6, <1>a DEF ReadPending, ReadLatest,
              ExecuteNew, ExecuteExisting, OperatorInspect, AllocateExisting,
                          AlreadyKnown, Rebroadcast, Abandon, Send
  <2>. QED  BY <1>2, <2>1, <2>2, <2>3, <2>4, <2>5, <2>6 DEF WorkerStep
<1>3. CASE WatchStep
  <2>1. ASSUME NEW e \in Execution, WatchUnsigned(e)
        PROVE  RowsKept
        BY <2>1, <1>e DEF WatchUnsigned, CanReleaseExpired
  <2>2. CASE Confirm
        BY <2>2, <1>b, <1>d, <1>f DEF Confirm
  <2>3. CASE Revert
        BY <2>3, <1>b, <1>d, <1>f DEF Revert
  <2>4. CASE ReleaseReverted
        BY <2>4, <1>b, <1>d, <1>f DEF ReleaseReverted
  <2>5. CASE Finalize
        BY <2>5, <1>b, <1>c, <1>f DEF Finalize
  <2>6. CASE ReorgReview
        BY <2>6, <1>b, <1>c, <1>f DEF ReorgReview
  <2>7. CASE \/ \E e \in Execution, pc \in WatchPc : Watch(e, pc)
             \/ ConfirmReplay \/ WatchRejected \/ WatchCrash
        BY <2>7, <1>a DEF Watch, ConfirmReplay, WatchRejected, WatchCrash
  <2>. QED  BY <1>3, <2>1, <2>2, <2>3, <2>4, <2>5, <2>6, <2>7 DEF WatchStep
<1>. QED  BY <1>1, <1>2, <1>3 DEF Next

LEMMA AllocateEffect ==
    ASSUME Typed, NEW w \in Worker, Allocate(w)
    PROVE  \E e \in Execution, n \in Nat :
              /\ row[e].status = "none"
              /\ row'[e].status = "preflight_approved"
              /\ row'[e].nonce = n /\ row'[e].raw = 0
              /\ \A f \in Execution : f # e => row'[f] = row[f]
              /\ nextNonce' >= nextNonce /\ n < nextNonce'
              /\ \/ n >= nextNonce
                 \/ \A f \in Execution :
                       row[f].nonce = n =>
                          row[f].raw = 0 /\ row[f].status \in Given_up \cup {"none"}
<1> DEFINE e == worker[w].job
<1>1. e \in Execution /\ row[e].status = "none" /\ worker[w].pending \in Nat
      BY DEF Allocate, Typed, TypeOK, JobsAssigned, WorkerState
<1>2. PICK n \in 0 .. Larger(nextNonce, worker[w].pending) :
          /\ IsAllocatedNonce(n, worker[w].pending, worker[w].confirmed)
          /\ Update(e, [NoRow EXCEPT !.status = "preflight_approved", !.nonce = n])
          /\ nextNonce' = Larger(nextNonce, n + 1)
      BY DEF Allocate
<1>3. n \in Nat /\ nextNonce \in Nat
      BY <1>1, <1>2 DEF Typed, TypeOK, Larger
<1>4. nextNonce' >= nextNonce /\ n < nextNonce'
      BY <1>2, <1>3 DEF Larger
<1>5. \/ n >= nextNonce
      \/ \A f \in Execution :
            row[f].nonce = n => row[f].raw = 0 /\ row[f].status \in Given_up \cup {"none"}
      BY <1>1, <1>2, <1>3 DEF IsAllocatedNonce, RecyclableNonces, Larger
<1>6. /\ row'[e].status = "preflight_approved"
      /\ row'[e].nonce = n /\ row'[e].raw = 0
      /\ \A f \in Execution : f # e => row'[f] = row[f]
      BY <1>1, <1>2 DEF Update, NoRow, Typed, TypeOK
<1>. QED  BY <1>1, <1>3, <1>4, <1>5, <1>6

LEMMA PersistEffect ==
    ASSUME Ownership, NEW w \in Worker, PersistSigned(w)
    PROVE  \E e \in Execution :
              /\ row[e].status \in Unsigned /\ row[e].raw = 0
              /\ row'[e].status = "signed"
              /\ row'[e].nonce = row[e].nonce /\ row'[e].raw # 0
              /\ \A f \in Execution : f # e => row'[f] = row[f]
              /\ nextNonce' = nextNonce
<1> DEFINE e == worker[w].job
           r == [row[e] EXCEPT !.status = "signed", !.until = 0, !.raw = worker[w].gen]
<1>1. e \in Execution /\ worker[w].gen # 0 /\ Update(e, r) /\ nextNonce' = nextNonce
      BY DEF PersistSigned, Ownership, Typed, JobsAssigned, WorkerHoldsRow
<1>2. row[e].status \in Unsigned
      BY DEF PersistSigned, ClaimHeld, Unsigned
<1>3. r.status = "signed" /\ r.nonce = row[e].nonce /\ r.raw = worker[w].gen
      BY <1>1 DEF Ownership, Typed, TypeOK, Row
<1> HIDE DEF r
<1>4. \A f \in Execution : row'[f] = IF f = e THEN r ELSE row[f]
      BY <1>1 DEF Update, Ownership, Typed, TypeOK
<1>. QED  BY <1>1, <1>2, <1>3, <1>4 DEF Ownership, RawMatchesStatus

LEMMA SignedKept ==
    ASSUME Ownership, [Next]_vars
    PROVE  \A f \in Execution :
              row[f].raw # 0 =>
                  /\ row'[f].raw = row[f].raw
                  /\ row'[f].nonce = row[f].nonce
                  /\ row'[f].status \in Given_up =>
                        row[f].status \in Given_up \cup {"reverted"}
<1>1. CASE RowsKept
      BY <1>1 DEF RowsKept, StatusKept, Ownership, RawMatchesStatus,
                  Undecided, SignedStatus, Status, Given_up, Unsigned
<1>2. ASSUME NEW w \in Worker, Allocate(w)
      PROVE  \A f \in Execution : row[f].raw # 0 => row'[f] = row[f]
      BY <1>2, AllocateEffect DEF Ownership, RawMatchesStatus
<1>3. ASSUME NEW w \in Worker, PersistSigned(w)
      PROVE  \A f \in Execution : row[f].raw # 0 => row'[f] = row[f]
      BY <1>3, PersistEffect
<1>. QED  BY <1>1, <1>2, <1>3, RowStep DEF Ownership

LEMMA RowsOwned ==
    ASSUME Ownership, [Next]_vars
    PROVE  (NonceIssued /\ RawMatchesStatus /\ NonceExclusive)'
<1> USE DEF Ownership, NonceIssued, RawMatchesStatus, NonceExclusive, OwnsNonce
<1>t. /\ \A e \in Execution : row[e].status \in Status /\ row[e].nonce \in Nat
      /\ nextNonce \in Nat
      BY DEF Typed, TypeOK, Row
<1>u. /\ \A e \in Execution : row'[e].status \in Status /\ row'[e].nonce \in Nat
      /\ nextNonce' \in Nat
      BY NextTyped DEF Typed, TypeOK, Row
<1>1. CASE RowsKept
  <2>1. NonceIssued'
        BY <1>1 DEF RowsKept, StatusKept, Undecided, Unsigned, SignedStatus
  <2>2. RawMatchesStatus'
        BY <1>1 DEF RowsKept, StatusKept, Undecided, Unsigned, SignedStatus, Status, Given_up
  <2>3. \A e \in Execution : OwnsNonce(e)' => OwnsNonce(e)
        BY <1>1 DEF RowsKept, StatusKept, Undecided, Unsigned, SignedStatus, Status, Given_up
  <2>4. NonceExclusive'
        BY <1>1, <2>3 DEF RowsKept
  <2>. QED  BY <2>1, <2>2, <2>4
<1>2. ASSUME NEW w \in Worker, Allocate(w)
      PROVE  (NonceIssued /\ RawMatchesStatus /\ NonceExclusive)'
  <2>1. PICK e \in Execution, n \in Nat :
              /\ row[e].status = "none"
              /\ row'[e].status = "preflight_approved"
              /\ row'[e].nonce = n /\ row'[e].raw = 0
              /\ \A f \in Execution : f # e => row'[f] = row[f]
              /\ nextNonce' >= nextNonce /\ n < nextNonce'
              /\ \/ n >= nextNonce
                 \/ \A f \in Execution :
                       row[f].nonce = n =>
                          row[f].raw = 0 /\ row[f].status \in Given_up \cup {"none"}
        BY <1>2, AllocateEffect
  <2>2. NonceIssued'
        BY <1>t, <1>u, <2>1
  <2>3. RawMatchesStatus'
        BY <2>1 DEF SignedStatus, Unsigned
  <2>4. \A f \in Execution : f # e /\ OwnsNonce(f) => row[f].nonce # n
        BY <1>t, <2>1 DEF Given_up
  <2>5. NonceExclusive'
        BY <2>1, <2>4
  <2>. QED  BY <2>2, <2>3, <2>5
<1>3. ASSUME NEW w \in Worker, PersistSigned(w)
      PROVE  (NonceIssued /\ RawMatchesStatus /\ NonceExclusive)'
  <2>1. PICK e \in Execution :
              /\ row[e].status \in Unsigned /\ row[e].raw = 0
              /\ row'[e].status = "signed"
              /\ row'[e].nonce = row[e].nonce /\ row'[e].raw # 0
              /\ \A f \in Execution : f # e => row'[f] = row[f]
              /\ nextNonce' = nextNonce
        BY <1>3, PersistEffect
  <2>2. OwnsNonce(e)
        BY <2>1 DEF Unsigned, Given_up
  <2>3. NonceIssued' /\ RawMatchesStatus'
        BY <2>1, <2>2 DEF Unsigned, SignedStatus
  <2>4. NonceExclusive'
        BY <2>1, <2>2
  <2>. QED  BY <2>3, <2>4
<1>. QED  BY <1>1, <1>2, <1>3, RowStep

LEMMA HolderKept ==
    ASSUME Ownership, [Next]_vars, NEW v \in Worker, worker'[v] = worker[v]
    PROVE  WorkerHoldsRow(v)'
<1>1. worker[v].pc # "idle" => worker[v].job \in Execution
      BY DEF Ownership, Typed, JobsAssigned
<1>. QED  BY <1>1, SignedKept DEF Ownership, WorkerHoldsRow

LEMMA WorkersHold ==
    ASSUME Ownership, [Next]_vars
    PROVE  (\A w \in Worker : WorkerHoldsRow(w))'
<1>1. CASE worker' = worker
      BY <1>1, HolderKept
<1>2. ASSUME NEW w \in Worker, WorkerStep(w)
      PROVE  /\ WorkerHoldsRow(w)'
             /\ \A v \in Worker : v # w => worker'[v] = worker[v]
  <2> DEFINE e == worker[w].job
  <2>a. /\ worker \in [Worker -> WorkerState] /\ worker[w] \in WorkerState
        /\ row \in [Execution -> Row]
        /\ worker[w].pc # "idle" => e \in Execution
        BY DEF Ownership, Typed, TypeOK, JobsAssigned
  <2>b. ASSUME NEW s, Become(w, s)
        PROVE  worker'[w] = s /\ \A v \in Worker : v # w => worker'[v] = worker[v]
        BY <2>a, <2>b DEF Become
  <2>c. ASSUME NEW s, Become(w, s), s.pc \notin {"sign", "demote", "send", "operator_send"}
        PROVE  /\ WorkerHoldsRow(w)'
               /\ \A v \in Worker : v # w => worker'[v] = worker[v]
        BY <2>b, <2>c DEF WorkerHoldsRow
  <2>0. ASSUME NEW f \in Execution, ExecuteNew(w, f)
        PROVE  /\ WorkerHoldsRow(w)'
               /\ \A v \in Worker : v # w => worker'[v] = worker[v]
        BY <2>0, <2>c DEF ExecuteNew, IdleWorker
  <2>12. CASE ReadPending(w) \/ ReadLatest(w)
        BY <2>12, <2>a, <2>c DEF ReadPending, ReadLatest, WorkerState
  <2>1. ASSUME NEW f \in Execution, ExecuteExisting(w, f)
        PROVE  /\ WorkerHoldsRow(w)'
               /\ \A v \in Worker : v # w => worker'[v] = worker[v]
    <3> DEFINE pc == Branch(f, row[f].status, now)
               s == [IdleWorker EXCEPT !.pc = pc, !.job = f, !.at = now]
    <3>1. pc \in {"idle", "release", "claim", "submit"} /\ s.pc = pc
          BY BranchTyped DEF IdleWorker
    <3>2. Become(w, s)
          BY <2>1 DEF ExecuteExisting
    <3> HIDE DEF pc, s
    <3>. QED  BY <3>1, <3>2, <2>c
  <2>2. ASSUME NEW f \in Execution, OperatorInspect(w, f)
        PROVE  /\ WorkerHoldsRow(w)'
               /\ \A v \in Worker : v # w => worker'[v] = worker[v]
        BY <2>2, <2>c DEF OperatorInspect, IdleWorker
  <2>3. CASE Allocate(w) \/ ReleaseExpired(w) \/ Mark(w) \/ Abandon(w)
        BY <2>3, <2>c DEF Allocate, ReleaseExpired, Mark, Abandon, IdleWorker
  <2>4. CASE AllocateExisting(w)
        BY <2>4, <2>c, BranchTyped DEF AllocateExisting, IdleWorker
  <2>5. CASE ClaimSigning(w)
    <3>1. e \in Execution /\ row[e].gen \in Nat
          BY <2>5, <2>a DEF ClaimSigning, Row
    <3>2. NextGeneration(e) # 0
          BY <3>1 DEF NextGeneration
    <3> DEFINE s == [worker[w] EXCEPT !.pc = "sign", !.gen = NextGeneration(e)]
    <3>3. Become(w, s) /\ s.pc = "sign" /\ s.gen = NextGeneration(e)
          BY <2>5, <2>a DEF ClaimSigning, WorkerState
    <3> HIDE DEF s
    <3>. QED  BY <2>b, <3>2, <3>3 DEF WorkerHoldsRow
  <2>6. CASE PersistSigned(w)
        BY <2>6, <2>a, <2>c DEF PersistSigned, WorkerState
  <2>7. CASE ClaimSubmission(w)
    <3> DEFINE pc == IF worker[w].pc = "submit" THEN "send" ELSE "operator_send"
    <3>0. PICK t \in worker[w].at .. now :
              Become(w, [worker[w] EXCEPT !.pc = pc, !.at = t, !.raw = row[e].raw, !.gen = 0])
          BY <2>7 DEF ClaimSubmission
    <3> DEFINE s == [worker[w] EXCEPT !.pc = pc, !.at = t, !.raw = row[e].raw, !.gen = 0]
    <3>1. Become(w, s) /\ s.pc = pc /\ s.raw = row[e].raw /\ s.job = e
          BY <2>a, <3>0 DEF WorkerState
    <3> HIDE DEF s
    <3>2. e \in Execution /\ row[e].raw # 0
          BY <2>7, <2>a DEF ClaimSubmission, Ownership, RawMatchesStatus, Undecided, SignedStatus, Status,
                            Unsigned, Given_up
    <3>. QED  BY <2>b, <3>1, <3>2, SignedKept DEF WorkerHoldsRow
  <2>8. CASE AlreadyKnown(w)
        BY <2>8, <2>a, <2>c DEF AlreadyKnown, WorkerState
  <2>9. ASSUME NEW taken, NEW seen, Send(w, taken, seen)
        PROVE  /\ WorkerHoldsRow(w)'
               /\ \A v \in Worker : v # w => worker'[v] = worker[v]
    <3>1. \/ Become(w, IdleWorker)
          \/ Become(w, [worker[w] EXCEPT !.pc = "mark", !.outcome = seen, !.raw = 0])
          \/ Become(w, [worker[w] EXCEPT !.pc = "mark", !.raw = 0,
                 !.outcome = IF seen = "nothing" THEN "submission_unknown" ELSE seen])
          BY <2>9 DEF Send
    <3>. QED  BY <2>a, <2>c, <3>1 DEF IdleWorker, WorkerState
  <2>10. CASE Rebroadcast(w)
    <3> DEFINE s == [worker[w] EXCEPT !.pc = "demote", !.raw = row[e].raw]
    <3>1. Become(w, s) /\ s.pc = "demote" /\ s.raw = row[e].raw /\ s.job = e
          BY <2>10, <2>a DEF Rebroadcast, WorkerState
    <3> HIDE DEF s
    <3>2. e \in Execution /\ row[e].raw # 0
          BY <2>10, <2>a DEF Rebroadcast, Ownership, RawMatchesStatus, Undecided, SignedStatus, Status,
                             Unsigned, Given_up, Broadcast
    <3>. QED  BY <2>b, <3>1, <3>2, SignedKept DEF WorkerHoldsRow
  <2>11. CASE Demote(w)
    <3> DEFINE s == [worker[w] EXCEPT !.pc = "operator_send"]
    <3>1. Become(w, s) /\ s.pc = "operator_send" /\ s.raw = worker[w].raw /\ s.job = e
          BY <2>11, <2>a DEF Demote, WorkerState
    <3> HIDE DEF s
    <3>2. e \in Execution /\ worker[w].raw # 0 /\ worker[w].raw = row[e].raw
          BY <2>11, <2>a DEF Demote, Ownership, WorkerHoldsRow
    <3>. QED  BY <2>b, <3>1, <3>2, SignedKept DEF WorkerHoldsRow
  <2>. QED  BY <1>2, <2>0, <2>1, <2>2, <2>3, <2>4, <2>5, <2>6, <2>7, <2>8, <2>9, <2>10, <2>11,
               <2>12
            DEF WorkerStep
<1>3. CASE UNCHANGED vars \/ Tick \/ ChainStep \/ WatchStep
  <2>1. worker' = worker
        BY <1>3 DEF vars, Tick, ChainStep, Mine, Drop, Reorganise, AdvanceSafe, WatchStep,
              WatchUnsigned, Watch, Confirm, ConfirmReplay, Finalize, Revert, ReleaseReverted,
              ReorgReview, WatchRejected, WatchCrash
  <2>. QED  BY <2>1, <1>1
<1>. QED  BY <1>2, <1>3, HolderKept DEF Next

(* The mined transactions are kept, extended by one from the pool, or cut. *)
LEMMA MinedStep ==
    ASSUME Typed, [Next]_vars
    PROVE  /\ DOMAIN mined' = 1 .. Len(mined') /\ Len(mined') \in Nat
           /\ \/ mined' = mined
              \/ \E tx \in pool, ok \in BOOLEAN :
                    /\ Mine(tx, ok)
                    /\ Len(mined') = Len(mined) + 1
                    /\ \A i \in 1 .. Len(mined) : mined'[i] = mined[i]
                    /\ mined'[Len(mined) + 1].tx = tx
                    /\ mined'[Len(mined) + 1].ok = ok
                    /\ mined'[Len(mined) + 1].block = now
              \/ \E n \in 1 .. Len(mined) :
                    /\ Reorganise(n)
                    /\ Len(mined') = n - 1
                    /\ \A i \in 1 .. n - 1 : mined'[i] = mined[i]
<1> DEFINE M == [tx : Tx, ok : BOOLEAN, block : Nat, fork : Nat]
<1>t. Len(mined) \in Nat /\ DOMAIN mined = 1 .. Len(mined) /\ mined \in Seq(M)
      BY MinedTyped DEF Typed, TypeOK
<1>u. mined' \in Seq(M)
      BY NextTyped DEF Typed, TypeOK
<1>1. DOMAIN mined' = 1 .. Len(mined') /\ Len(mined') \in Nat
      BY <1>u, LenProperties
<1>2. ASSUME NEW tx \in pool, NEW ok \in BOOLEAN, Mine(tx, ok)
      PROVE  /\ Len(mined') = Len(mined) + 1
             /\ \A i \in 1 .. Len(mined) : mined'[i] = mined[i]
             /\ mined'[Len(mined) + 1].tx = tx
             /\ mined'[Len(mined) + 1].ok = ok
             /\ mined'[Len(mined) + 1].block = now
  <2> DEFINE m == [tx |-> tx, ok |-> ok, block |-> now, fork |-> revisions]
  <2>1. m \in M /\ m.tx = tx /\ m.ok = ok /\ m.block = now
        BY DEF Typed, TypeOK
  <2>2. mined' = Append(mined, m)
        BY <1>2 DEF Mine
  <2> HIDE DEF m, M
  <2>. QED  BY <1>t, <2>1, <2>2, AppendProperties
<1>3. ASSUME NEW n \in 1 .. Len(mined), Reorganise(n)
      PROVE  /\ Len(mined') = n - 1
             /\ \A i \in 1 .. n - 1 : mined'[i] = mined[i]
  <2>1. n \in Nat /\ 1 \in Int /\ n - 1 \in Int /\ \A i \in 1 .. n - 1 : mined[i] \in M
        BY <1>t, MinedTyped DEF Typed
  <2>2. mined' = SubSeq(mined, 1, n - 1)
        BY <1>3 DEF Reorganise
  <2> HIDE DEF M
  <2>3. /\ Len(mined') = IF 1 <= n - 1 THEN (n - 1) - 1 + 1 ELSE 0
        /\ \A i \in 1 .. (n - 1) - 1 + 1 : mined'[i] = mined[1 + i - 1]
        BY <2>1, <2>2, SubSeqProperties
  <2>. QED  BY <1>t, <2>1, <2>3
<1>4. CASE /\ ~(\E tx \in pool, ok \in BOOLEAN : Mine(tx, ok))
           /\ ~(\E n \in DOMAIN mined : Reorganise(n))
  <2>1. ASSUME ChainStep
        PROVE  mined' = mined
        BY <1>4, <2>1 DEF ChainStep, Drop, AdvanceSafe
  <2>2. ASSUME NEW w \in Worker, WorkerStep(w)
        PROVE  mined' = mined
        BY <2>2 DEF chain, WorkerStep, ReadPending, ReadLatest,
              ExecuteNew, ExecuteExisting, OperatorInspect, Allocate,
              AllocateExisting, ReleaseExpired, ClaimSigning, PersistSigned, ClaimSubmission,
              AlreadyKnown, Send, Mark, Rebroadcast, Demote, Abandon
  <2>3. ASSUME UNCHANGED vars \/ Tick \/ WatchStep
        PROVE  mined' = mined
        BY <2>3 DEF vars, Tick, chain, WatchStep, WatchUnsigned, Watch, Confirm, ConfirmReplay,
              Finalize, Revert, ReleaseReverted, ReorgReview, WatchRejected, WatchCrash
  <2>. QED  BY <1>1, <2>1, <2>2, <2>3 DEF Next
<1>. QED  BY <1>t, <1>1, <1>2, <1>3, <1>4

LEMMA HeldKept ==
    ASSUME Ownership, [Next]_vars, NEW tx \in Tx, HoldsRow(tx)
    PROVE  /\ tx.raw # 0
           /\ tx.raw = row'[tx.exec].raw
           /\ tx.nonce = row'[tx.exec].nonce
<1>1. tx.exec \in Execution
      BY DEF Tx
<1>. QED  BY <1>1, SignedKept DEF HoldsRow

LEMMA ChainHolds ==
    ASSUME Ownership, [Next]_vars
    PROVE  ChainHoldsRows'
<1>t. /\ pool \subseteq Tx /\ DOMAIN mined = 1 .. Len(mined) /\ Len(mined) \in Nat
      /\ \A n \in 1 .. Len(mined) : mined[n].tx \in Tx
      BY MinedTyped DEF Ownership, Typed, TypeOK
<1>1. \A n \in DOMAIN mined' : HoldsRow(mined[n].tx)'
  <2>1. \A n \in 1 .. Len(mined) :
            /\ mined[n].tx.raw # 0
            /\ mined[n].tx.raw = row'[mined[n].tx.exec].raw
            /\ mined[n].tx.nonce = row'[mined[n].tx.exec].nonce
        BY <1>t, HeldKept DEF Ownership, ChainHoldsRows
  <2>2. \A tx \in pool :
            /\ tx.raw # 0
            /\ tx.raw = row'[tx.exec].raw
            /\ tx.nonce = row'[tx.exec].nonce
        BY <1>t, HeldKept DEF Ownership, ChainHoldsRows
  <2>3. ASSUME NEW n \in DOMAIN mined'
        PROVE  \/ n \in 1 .. Len(mined) /\ mined'[n].tx = mined[n].tx
               \/ mined'[n].tx \in pool
        BY <1>t, <2>3, MinedStep DEF Ownership
  <2>. QED  BY <2>1, <2>2, <2>3 DEF HoldsRow
<1>2. \A tx \in pool' : HoldsRow(tx)'
  <2>1. ASSUME NEW tx \in pool'
        PROVE  \/ tx \in pool
               \/ \E n \in 1 .. Len(mined) : tx = mined[n].tx
               \/ \E w \in Worker :
                     /\ worker[w].pc \in {"send", "operator_send"}
                     /\ tx = TxOf(worker[w].job, worker[w].raw)
    <3>1. CASE ChainStep
      <4>1. ASSUME NEW n \in DOMAIN mined, Reorganise(n)
            PROVE  tx \in pool \/ \E k \in 1 .. Len(mined) : tx = mined[k].tx
        <5>1. n .. Len(mined) \subseteq 1 .. Len(mined)
              BY <1>t
        <5>2. pool' = pool \cup {mined[k].tx : k \in n .. Len(mined)}
              BY <4>1 DEF Reorganise
        <5>. QED  BY <2>1, <5>1, <5>2
      <4>. QED  BY <2>1, <3>1, <4>1 DEF ChainStep, Mine, Drop, AdvanceSafe
    <3>2. ASSUME NEW w \in Worker, WorkerStep(w)
          PROVE  \/ tx \in pool
                 \/ /\ worker[w].pc \in {"send", "operator_send"}
                    /\ tx = TxOf(worker[w].job, worker[w].raw)
          BY <2>1, <3>2 DEF chain, WorkerStep, ReadPending, ReadLatest,
                ExecuteNew, ExecuteExisting, OperatorInspect,
              Allocate, AllocateExisting, ReleaseExpired, ClaimSigning, PersistSigned,
              ClaimSubmission, AlreadyKnown, Send, Mark, Rebroadcast, Demote, Abandon
    <3>3. CASE UNCHANGED vars \/ Tick \/ WatchStep
          BY <2>1, <3>3 DEF vars, Tick, chain, WatchStep, WatchUnsigned, Watch, Confirm,
              ConfirmReplay, Finalize, Revert, ReleaseReverted, ReorgReview, WatchRejected,
              WatchCrash
    <3>. QED  BY <3>1, <3>2, <3>3 DEF Next
  <2>2. ASSUME NEW w \in Worker, worker[w].pc \in {"send", "operator_send"}
        PROVE  /\ TxOf(worker[w].job, worker[w].raw) \in Tx
               /\ HoldsRow(TxOf(worker[w].job, worker[w].raw))
    <3>1. worker[w].job \in Execution /\ worker[w].raw \in Nat
          /\ row[worker[w].job].nonce \in Nat
          BY <2>2 DEF Ownership, Typed, TypeOK, JobsAssigned, WorkerState, Row
    <3>2. worker[w].raw # 0 /\ worker[w].raw = row[worker[w].job].raw
          BY <2>2 DEF Ownership, WorkerHoldsRow
    <3>. QED  BY <3>1, <3>2 DEF TxOf, Tx, HoldsRow
  <2>3. ASSUME NEW tx \in pool'
        PROVE  tx \in Tx /\ HoldsRow(tx)
        BY <1>t, <2>1, <2>2, <2>3 DEF Ownership, ChainHoldsRows
  <2>. QED  BY <2>3, HeldKept DEF HoldsRow
<1>. QED  BY <1>1, <1>2 DEF ChainHoldsRows

LEMMA InitOwnership == Init => Ownership
<1> SUFFICES ASSUME Init PROVE Ownership
    OBVIOUS
<1>1. \A e \in Execution : row[e].status = "none" /\ row[e].raw = 0
      BY DEF Init, NoRow
<1>2. NonceIssued /\ RawMatchesStatus /\ NonceExclusive
      BY <1>1 DEF NonceIssued, RawMatchesStatus, NonceExclusive, OwnsNonce, SignedStatus
<1>3. \A w \in Worker : WorkerHoldsRow(w)
      BY DEF Init, WorkerHoldsRow, IdleWorker
<1>4. pool = {} /\ DOMAIN mined = {}
      BY EmptySeq DEF Init
<1>. QED  BY <1>2, <1>3, <1>4, InitTyped DEF Ownership, ChainHoldsRows

LEMMA NextOwnership == Ownership /\ [Next]_vars => Ownership'
  BY NextTyped, RowsOwned, WorkersHold, ChainHolds DEF Ownership

LEMMA OwnershipInvariant == Spec => []Ownership
  BY InitOwnership, NextOwnership, PTL DEF Spec

(* However workers, restarts and stale nonce readings interleave, no two   *)
(* executions own one relayer nonce (_allocate_relayer_nonce).             *)
THEOREM NoncesExclusive == Spec => []NonceExclusive
<1>1. Ownership => NonceExclusive
      BY DEF Ownership
<1>. QED  BY <1>1, OwnershipInvariant, PTL

(* The network never sees two different transactions with one nonce, so    *)
(* that nothing the relayer sends can replace a payment that it has sent.  *)
THEOREM OneTransaction == Spec => []OneTransactionPerNonce
<1>1. Ownership => OneTransactionPerNonce
  <2> SUFFICES ASSUME Ownership PROVE OneTransactionPerNonce
      OBVIOUS
  <2> DEFINE Sent == pool \cup {mined[n].tx : n \in DOMAIN mined}
  <2>1. \A tx \in Sent : tx \in Tx /\ HoldsRow(tx)
        BY MinedTyped DEF Ownership, Typed, TypeOK, ChainHoldsRows
  <2>2. \A tx \in Sent : tx.exec \in Execution /\ OwnsNonce(tx.exec)
        BY <2>1 DEF HoldsRow, Tx, OwnsNonce, Ownership, RawMatchesStatus
  <2>3. ASSUME NEW s \in Sent, NEW t \in Sent, s.nonce = t.nonce
        PROVE  s = t
    <3>1. s.exec = t.exec
          BY <2>1, <2>2, <2>3 DEF HoldsRow, Ownership, NonceExclusive
    <3>2. s.raw = t.raw
          BY <2>1, <3>1 DEF HoldsRow
    <3>. QED  BY <2>1, <2>3, <3>1, <3>2 DEF Tx
  <2>. QED  BY <2>3 DEF OneTransactionPerNonce
<1>. QED  BY <1>1, OwnershipInvariant, PTL

(* A signed transaction is never replaced, its nonce never changes, and    *)
(* its execution is only given up after it was seen to revert.             *)
THEOREM SignedForGood == Spec => SignedIsImmutable
<1>1. Ownership /\ [Next]_vars =>
        [\A e \in Execution :
          row[e].raw # 0 =>
              /\ row'[e].raw = row[e].raw
              /\ row'[e].nonce = row[e].nonce
              /\ row'[e].status \in Given_up =>
                    row[e].status \in Given_up \cup {"reverted"}]_vars
      BY SignedKept
<1>. QED  BY <1>1, OwnershipInvariant, PTL DEF Spec, SignedIsImmutable

-----------------------------------------------------------------------------
(* What was released is not paid.                                          *)

(* Nobody can pay e any more, and nobody has. *)
Unpayable(e) == now >= Deadline[e] /\ ~PaidOnChain(e)

(* Mined transactions are in the order of their nonces, the finality       *)
(* boundary is not ahead of the clock, and what was signed and given up,   *)
(* or is about to be, is unpayable.                                        *)
Released ==
    /\ \A n \in DOMAIN mined : mined[n].tx.nonce = n - 1
    /\ safe <= now
    /\ \A e \in Execution : row[e].status \in Given_up /\ row[e].raw # 0 => Unpayable(e)
    /\ watch.pc = "release" => Unpayable(watch.job)

LEMMA InitReleased == Init => Released
<1> SUFFICES ASSUME Init PROVE Released
    OBVIOUS
<1>1. DOMAIN mined = {} /\ safe <= now /\ watch.pc # "release"
      BY EmptySeq DEF Init, IdleWatch
<1>2. \A e \in Execution : row[e].raw = 0
      BY DEF Init, NoRow
<1>. QED  BY <1>1, <1>2 DEF Released

LEMMA ClockStep ==
    ASSUME Typed, [Next]_vars, safe <= now
    PROVE  now' >= now /\ safe' <= now' /\ safe' >= safe
<1>t. now \in Nat /\ safe \in Nat
      BY DEF Typed, TypeOK
<1>1. CASE Tick
      BY <1>t, <1>1 DEF Tick
<1>2. CASE AdvanceSafe
      BY <1>t, <1>2 DEF AdvanceSafe
<1>3. CASE ~Tick /\ ~AdvanceSafe
  <2>1. now' = now /\ safe' = safe
    <3>1. ASSUME NEW w \in Worker, WorkerStep(w)
          PROVE  now' = now /\ safe' = safe
          BY <3>1 DEF chain, WorkerStep, ReadPending, ReadLatest,
                ExecuteNew, ExecuteExisting, OperatorInspect, Allocate,
              AllocateExisting, ReleaseExpired, ClaimSigning, PersistSigned, ClaimSubmission,
              AlreadyKnown, Send, Mark, Rebroadcast, Demote, Abandon
    <3>2. CASE UNCHANGED vars \/ WatchStep
          BY <3>2 DEF vars, chain, WatchStep, WatchUnsigned, Watch, Confirm, ConfirmReplay,
              Finalize, Revert, ReleaseReverted, ReorgReview, WatchRejected, WatchCrash
    <3>3. CASE ChainStep
          BY <1>3, <3>3 DEF ChainStep, Mine, Drop, Reorganise
    <3>. QED  BY <1>3, <3>1, <3>2, <3>3 DEF Next
  <2>. QED  BY <1>t, <2>1
<1>. QED  BY <1>1, <1>2, <1>3

(* The contract refuses an execution after its deadline. *)
LEMMA UnpayableKept ==
    ASSUME Typed, [Next]_vars, safe <= now, NEW e \in Execution, Unpayable(e)
    PROVE  now' >= Deadline[e] /\ ~(PaidOnChain(e)')
<1>t. now \in Nat /\ now' \in Nat /\ Deadline[e] \in Nat /\ Len(mined) \in Nat
      /\ DOMAIN mined = 1 .. Len(mined)
      BY NextTyped, MinedTyped, HostedAssumption DEF Typed, TypeOK
<1>1. now' >= Deadline[e]
      BY <1>t, ClockStep DEF Unpayable
<1>2. ASSUME NEW n \in DOMAIN mined', mined'[n].tx.exec = e, mined'[n].ok
      PROVE  FALSE
  <2>1. CASE n \in 1 .. Len(mined) /\ mined'[n] = mined[n]
        BY <1>t, <1>2, <2>1 DEF Unpayable, PaidOnChain
  <2>2. ASSUME NEW tx \in pool, NEW ok \in BOOLEAN, Mine(tx, ok),
               mined'[n].tx = tx, mined'[n].ok = ok
        PROVE  FALSE
        BY <1>t, <1>2, <2>2 DEF Mine, Unpayable
  <2>3. CASE mined' = mined
        BY <1>t, <1>2, <2>1, <2>3
  <2>4. ASSUME NEW tx \in pool, NEW ok \in BOOLEAN, Mine(tx, ok),
               Len(mined') = Len(mined) + 1, DOMAIN mined' = 1 .. Len(mined'),
               \A i \in 1 .. Len(mined) : mined'[i] = mined[i],
               mined'[Len(mined) + 1].tx = tx, mined'[Len(mined) + 1].ok = ok
        PROVE  FALSE
    <3>1. n \in 1 .. Len(mined) \/ n = Len(mined) + 1
          BY <1>t, <2>4
    <3>. QED  BY <2>1, <2>2, <2>4, <3>1
  <2>5. ASSUME NEW k \in 1 .. Len(mined), Len(mined') = k - 1,
               DOMAIN mined' = 1 .. Len(mined'),
               \A i \in 1 .. k - 1 : mined'[i] = mined[i]
        PROVE  FALSE
    <3>1. n \in 1 .. Len(mined) /\ n \in 1 .. k - 1
          BY <1>t, <2>5
    <3>. QED  BY <2>1, <2>5, <3>1
  <2>. QED  BY <2>3, <2>4, <2>5, MinedStep
<1>. QED  BY <1>1, <1>2 DEF PaidOnChain

(* The watcher saw the transaction fail at a boundary past the deadline,   *)
(* and there is no other transaction that could have paid.                 *)
LEMMA WatchedRevert ==
    ASSUME Ownership, Released, NEW e \in Execution, Watch(e, "release")
    PROVE  Unpayable(e)
<1>t. /\ DOMAIN mined = 1 .. Len(mined) /\ Len(mined) \in Nat
      /\ \A n \in 1 .. Len(mined) : mined[n].tx \in Tx
      /\ now \in Nat /\ safe \in Nat /\ Deadline[e] \in Nat
      BY MinedTyped, HostedAssumption DEF Ownership, Typed, TypeOK
<1>1. PICK ev \in Observations(e) : ~ev.ok /\ ev.safe >= Deadline[e]
      BY DEF Watch
<1>2. PICK n \in DOMAIN mined :
          /\ mined[n].tx = TxOf(e, row[e].raw)
          /\ ev = [ok |-> mined[n].ok, block |-> mined[n].block, fork |-> mined[n].fork,
                   safe |-> safe]
      BY <1>1 DEF Observations
<1>3. ~mined[n].ok /\ safe >= Deadline[e]
      BY <1>1, <1>2
<1>4. ASSUME NEW m \in DOMAIN mined, mined[m].tx.exec = e
      PROVE  m = n
  <2>1. mined[m].tx.nonce = row[e].nonce /\ mined[n].tx.nonce = row[e].nonce
        BY <1>2, <1>4 DEF Ownership, ChainHoldsRows, HoldsRow, TxOf
  <2>2. m - 1 = n - 1
        BY <2>1 DEF Released
  <2>. QED  BY <1>t, <2>2
<1>5. ~PaidOnChain(e)
      BY <1>3, <1>4 DEF PaidOnChain
<1>6. now >= Deadline[e]
      BY <1>t, <1>3 DEF Released
<1>. QED  BY <1>5, <1>6 DEF Unpayable

LEMMA NextReleased == Ownership /\ Released /\ [Next]_vars => Released'
<1> SUFFICES ASSUME Ownership, Released, [Next]_vars
             PROVE  Released'
    OBVIOUS
<1>t. /\ DOMAIN mined = 1 .. Len(mined) /\ Len(mined) \in Nat /\ Typed /\ safe <= now
      BY MinedTyped DEF Ownership, Typed, Released
<1>1. \A n \in DOMAIN mined' : mined'[n].tx.nonce = n - 1
  <2>1. CASE mined' = mined
        BY <2>1 DEF Released
  <2>2. ASSUME NEW tx \in pool, NEW ok \in BOOLEAN, Mine(tx, ok),
               Len(mined') = Len(mined) + 1, DOMAIN mined' = 1 .. Len(mined'),
               \A i \in 1 .. Len(mined) : mined'[i] = mined[i],
               mined'[Len(mined) + 1].tx = tx,
               NEW n \in DOMAIN mined'
        PROVE  mined'[n].tx.nonce = n - 1
    <3>1. n \in 1 .. Len(mined) \/ n = Len(mined) + 1
          BY <1>t, <2>2
    <3>2. tx.nonce = Len(mined) /\ Len(mined) = (Len(mined) + 1) - 1
          BY <1>t, <2>2 DEF Mine
    <3>. QED  BY <1>t, <2>2, <3>1, <3>2 DEF Released
  <2>3. ASSUME NEW k \in 1 .. Len(mined), Len(mined') = k - 1,
               DOMAIN mined' = 1 .. Len(mined'),
               \A i \in 1 .. k - 1 : mined'[i] = mined[i],
               NEW n \in DOMAIN mined'
        PROVE  mined'[n].tx.nonce = n - 1
    <3>1. n \in 1 .. Len(mined) /\ n \in 1 .. k - 1
          BY <1>t, <2>3
    <3>. QED  BY <1>t, <2>3, <3>1 DEF Released
  <2>. QED  BY <1>t, <2>1, <2>2, <2>3, MinedStep
<1>2. safe' <= now'
      BY <1>t, ClockStep
<1>3. ASSUME NEW e \in Execution, row'[e].status \in Given_up, row'[e].raw # 0
      PROVE  Unpayable(e)'
  <2>1. Unpayable(e)
    <3>1. CASE row'[e] = row[e]
          BY <1>3, <3>1 DEF Released
    <3>2. CASE row'[e] # row[e]
      <4>1. RowsKept
            BY <1>3, <1>t, <3>2, RowStep, AllocateEffect, PersistEffect DEF Given_up
      <4>2. row[e].raw # 0
            BY <1>3, <4>1 DEF RowsKept
      <4>3. row[e].status \in Given_up \cup {"reverted"}
            BY <1>3, <4>2, SignedKept
      <4>4. CASE row[e].status \in Given_up
            BY <4>2, <4>4 DEF Released
      <4>5. CASE row[e].status = "reverted"
        <5>1. row'[e].status # row[e].status
              BY <1>3, <4>5 DEF Given_up
        <5>2. ReleaseReverted /\ e = watch.job
          <6>a. ASSUME NEW f, NEW r, Update(f, r), f # e
                PROVE  row'[e] = row[e]
                BY <6>a DEF Update, Ownership, Typed, TypeOK
          <6>1. ASSUME NEW w \in Worker, WorkerStep(w)
                PROVE  FALSE
            <7>1. CASE Allocate(w) \/ ReleaseExpired(w) \/ ClaimSigning(w) \/ PersistSigned(w)
                  BY <3>2, <4>5, <6>a, <7>1
                  DEF Allocate, ReleaseExpired, CanReleaseExpired, ClaimSigning, ClaimFree,
                      PersistSigned, ClaimHeld, Unsigned
            <7>2. CASE ClaimSubmission(w) \/ Mark(w) \/ Demote(w)
                  BY <3>2, <4>5, <6>a, <7>2
                  DEF ClaimSubmission, Mark, MayMark, Demote, Broadcast
            <7>3. CASE row' = row
                  BY <3>2, <7>3
            <7>. QED  BY <6>1, <7>1, <7>2, <7>3
                      DEF WorkerStep, ReadPending, ReadLatest,
                          ExecuteNew, ExecuteExisting, OperatorInspect,
                          AllocateExisting, AlreadyKnown, Send, Rebroadcast, Abandon
          <6>2. ASSUME UNCHANGED vars \/ Tick \/ ChainStep
                PROVE  FALSE
                BY <3>2, <6>2 DEF vars, Tick, ChainStep, Mine, Drop, Reorganise, AdvanceSafe
          <6>3. ASSUME WatchStep, ~ReleaseReverted
                PROVE  FALSE
                BY <3>2, <4>5, <6>a, <6>3
                DEF WatchStep, WatchUnsigned, CanReleaseExpired, Unsigned, Watch, Confirm,
                    ConfirmReplay, Finalize, Revert, ReorgReview, WatchRejected, WatchCrash,
                    Broadcast
          <6>4. ReleaseReverted
                BY <6>1, <6>2, <6>3 DEF Next
          <6>. QED  BY <3>2, <6>a, <6>4 DEF ReleaseReverted
        <5>. QED  BY <5>2 DEF ReleaseReverted, Released
      <4>. QED  BY <4>3, <4>4, <4>5
    <3>. QED  BY <3>1, <3>2
  <2>. QED  BY <1>t, <2>1, UnpayableKept DEF Unpayable
<1>4. ASSUME watch'.pc = "release"
      PROVE  Unpayable(watch.job)'
  <2>1. watch'.job \in Execution
        BY <1>4, <1>t, NextTyped DEF Typed, JobsAssigned
  <2>2. Unpayable(watch'.job)
    <3>1. CASE watch' = watch
          BY <1>4, <3>1 DEF Released
    <3>2. CASE watch' # watch
      <4>1. WatchStep
        <5>1. ASSUME NEW w \in Worker, WorkerStep(w)
              PROVE  watch' = watch
              BY <5>1 DEF WorkerStep, ReadPending, ReadLatest,
                    ExecuteNew, ExecuteExisting, OperatorInspect, Allocate,
                 AllocateExisting, ReleaseExpired, ClaimSigning, PersistSigned, ClaimSubmission,
                 AlreadyKnown, Send, Mark, Rebroadcast, Demote, Abandon
        <5>. QED  BY <3>2, <5>1
                  DEF Next, vars, Tick, ChainStep, Mine, Drop, Reorganise, AdvanceSafe
      <4>2. \E e \in Execution, pc \in WatchPc : Watch(e, pc)
        <5>1. CASE Confirm \/ ConfirmReplay
          <6>1. watch' = [watch EXCEPT !.pc = "finalize"] /\ watch \in WatchState
                BY <5>1, <1>t DEF Confirm, ConfirmReplay, Typed, TypeOK
          <6>. QED  BY <1>4, <6>1 DEF WatchState
        <5>2. CASE \/ Finalize \/ Revert \/ ReleaseReverted \/ ReorgReview
                   \/ WatchRejected \/ WatchCrash
          <6>1. watch' = IdleWatch
                BY <5>2 DEF Finalize, Revert, ReleaseReverted, ReorgReview, WatchRejected,
                            WatchCrash
          <6>. QED  BY <1>4, <6>1, InitialValuesTyped
        <5>3. ASSUME NEW e \in Execution, WatchUnsigned(e)
              PROVE  FALSE
              BY <3>2, <5>3 DEF WatchUnsigned
        <5>. QED  BY <4>1, <5>1, <5>2, <5>3 DEF WatchStep
      <4>3. PICK e \in Execution, pc \in WatchPc : Watch(e, pc)
            BY <4>2
      <4>4. pc = "release" /\ watch'.job = e
            BY <1>4, <4>3 DEF Watch
      <4>. QED  BY <4>3, <4>4, WatchedRevert
    <3>. QED  BY <3>1, <3>2
  <2>. QED  BY <1>t, <2>1, <2>2, UnpayableKept DEF Unpayable
<1>. QED  BY <1>1, <1>2, <1>3, <1>4 DEF Released

(* A released execution is not paid, and no later block can pay it: what   *)
(* its owner gets back was not spent.                                      *)
THEOREM ReleasedUnpaid == Spec => []ReleasedIsUnpaid
<1>1. Ownership /\ Released => ReleasedIsUnpaid
  <2> SUFFICES ASSUME Ownership, Released, NEW e \in Execution, row[e].status \in Given_up
               PROVE  ~PaidOnChain(e)
      BY DEF ReleasedIsUnpaid
  <2>1. CASE row[e].raw = 0
        BY <2>1 DEF PaidOnChain, Ownership, ChainHoldsRows, HoldsRow
  <2>2. CASE row[e].raw # 0
        BY <2>2 DEF Released, Unpayable
  <2>. QED  BY <2>1, <2>2
<1>2. Spec => [](Ownership /\ Released)
  <2>1. Init => Ownership /\ Released
        BY InitOwnership, InitReleased
  <2>2. Ownership /\ Released /\ [Next]_vars => (Ownership /\ Released)'
        BY NextOwnership, NextReleased
  <2>. QED  BY <2>1, <2>2, PTL DEF Spec
<1>. QED  BY <1>1, <1>2, PTL

-----------------------------------------------------------------------------
(* What the watcher has concluded is what the chain says.                  *)

(* A receipt of e as ev has it is on the chain, and below the boundary.    *)
Seen(e, ev) ==
    \E n \in DOMAIN mined :
        /\ mined[n].tx.exec = e
        /\ mined[n].ok = ev.ok /\ mined[n].block = ev.block /\ mined[n].fork = ev.fork
        /\ mined[n].block <= safe

(* Blocks are mined in order, so that a reorganisation that leaves the     *)
(* boundary alone cuts nothing below it.                                   *)
BlocksOrdered ==
    \A n \in DOMAIN mined :
        /\ mined[n].block <= now
        /\ \A m \in 1 .. n : mined[m].block <= mined[n].block

RowVerdict(e) ==
    /\ row[e].status \in {"confirmed", "finalized"} =>
          Seen(e, row[e].evidence) /\ row[e].evidence.ok
    /\ row[e].status = "reverted" => Seen(e, row[e].evidence) /\ ~ row[e].evidence.ok
    /\ row[e].status # "reorg_review"

WatchVerdict ==
    /\ watch.pc = "confirm" => Seen(watch.job, watch.evidence) /\ watch.evidence.ok
    /\ watch.pc = "revert" => Seen(watch.job, watch.evidence) /\ ~ watch.evidence.ok
    /\ watch.pc # "review"

Verdicts ==
    /\ BlocksOrdered
    /\ revisions = 0 => WatchVerdict /\ \A e \in Execution : RowVerdict(e)

LEMMA InitVerdicts == Init => Verdicts
<1> SUFFICES ASSUME Init PROVE Verdicts
    OBVIOUS
<1>1. DOMAIN mined = {} /\ watch.pc = "idle" /\ \A e \in Execution : row[e].status = "none"
      BY EmptySeq DEF Init, IdleWatch, NoRow
<1>. QED  BY <1>1 DEF Verdicts, BlocksOrdered, RowVerdict, WatchVerdict

LEMMA BlocksStep ==
    ASSUME Typed, BlocksOrdered, [Next]_vars, safe <= now
    PROVE  BlocksOrdered'
<1>t. /\ DOMAIN mined = 1 .. Len(mined) /\ Len(mined) \in Nat /\ now \in Nat
      /\ \A n \in 1 .. Len(mined) : mined[n].block \in Nat
      /\ DOMAIN mined' = 1 .. Len(mined') /\ Len(mined') \in Nat
      /\ now' \in Nat /\ now' >= now
      BY MinedTyped, MinedStep, ClockStep, NextTyped DEF Typed, TypeOK
<1>1. CASE mined' = mined
      BY <1>t, <1>1 DEF BlocksOrdered
<1>2. ASSUME Len(mined') = Len(mined) + 1,
             \A i \in 1 .. Len(mined) : mined'[i] = mined[i],
             mined'[Len(mined) + 1].block = now
      PROVE  BlocksOrdered'
  <2>1. ASSUME NEW n \in 1 .. Len(mined')
        PROVE  /\ mined'[n].block <= now'
               /\ \A m \in 1 .. n : mined'[m].block <= mined'[n].block
    <3>1. CASE n \in 1 .. Len(mined)
      <4>1. /\ mined'[n] = mined[n] /\ mined[n].block <= now /\ mined[n].block \in Nat
            /\ \A m \in 1 .. n : mined'[m] = mined[m] /\ mined[m].block <= mined[n].block
            BY <1>t, <1>2, <3>1 DEF BlocksOrdered
      <4>. QED  BY <1>t, <4>1
    <3>2. CASE n = Len(mined) + 1
      <4>1. \A m \in 1 .. Len(mined) : mined'[m] = mined[m] /\ mined[m].block <= now
            BY <1>t, <1>2 DEF BlocksOrdered
      <4>2. ASSUME NEW m \in 1 .. n
            PROVE  mined'[m].block <= now
        <5>1. CASE m \in 1 .. Len(mined)
              BY <4>1, <5>1
        <5>2. CASE m = Len(mined) + 1
              BY <1>t, <1>2, <5>2
        <5>. QED  BY <1>t, <3>2, <5>1, <5>2
      <4>3. mined'[n].block = now
            BY <1>2, <3>2
      <4>. QED  BY <1>t, <4>2, <4>3
    <3>. QED  BY <1>t, <1>2, <3>1, <3>2
  <2>. QED  BY <1>t, <2>1 DEF BlocksOrdered
<1>3. ASSUME NEW k \in 1 .. Len(mined), Len(mined') = k - 1,
             \A i \in 1 .. k - 1 : mined'[i] = mined[i]
      PROVE  BlocksOrdered'
  <2>1. ASSUME NEW n \in 1 .. Len(mined')
        PROVE  /\ mined'[n].block <= now'
               /\ \A m \in 1 .. n : mined'[m].block <= mined'[n].block
    <3>1. n \in 1 .. Len(mined) /\ \A m \in 1 .. n : m \in 1 .. k - 1
          BY <1>t, <1>3
    <3>2. /\ mined'[n] = mined[n] /\ mined[n].block <= now /\ mined[n].block \in Nat
          /\ \A m \in 1 .. n : mined'[m] = mined[m] /\ mined[m].block <= mined[n].block
          BY <1>t, <1>3, <3>1 DEF BlocksOrdered
    <3>. QED  BY <1>t, <3>2
  <2>. QED  BY <1>t, <2>1 DEF BlocksOrdered
<1>. QED  BY <1>1, <1>2, <1>3, MinedStep

LEMMA RevisionStep ==
    ASSUME Typed, [Next]_vars, revisions' = 0
    PROVE  /\ revisions = 0
           /\ \A n \in DOMAIN mined : Reorganise(n) => ~ (mined[n].block <= safe)
<1>t. revisions \in Nat
      BY DEF Typed, TypeOK
<1>1. ASSUME NEW n \in DOMAIN mined, Reorganise(n)
      PROVE  revisions = 0 /\ ~ (mined[n].block <= safe)
      BY <1>t, <1>1 DEF Reorganise
<1>2. CASE \A n \in DOMAIN mined : ~ Reorganise(n)
  <2>1. ASSUME NEW w \in Worker, WorkerStep(w)
        PROVE  revisions' = revisions
        BY <2>1 DEF chain, WorkerStep, ReadPending, ReadLatest,
              ExecuteNew, ExecuteExisting, OperatorInspect, Allocate,
              AllocateExisting, ReleaseExpired, ClaimSigning, PersistSigned, ClaimSubmission,
              AlreadyKnown, Send, Mark, Rebroadcast, Demote, Abandon
  <2>2. ASSUME UNCHANGED vars \/ Tick \/ WatchStep
        PROVE  revisions' = revisions
        BY <2>2 DEF vars, Tick, chain, WatchStep, WatchUnsigned, Watch, Confirm, ConfirmReplay,
              Finalize, Revert, ReleaseReverted, ReorgReview, WatchRejected, WatchCrash
  <2>3. ASSUME ChainStep
        PROVE  revisions' = revisions
        BY <1>2, <2>3 DEF ChainStep, Mine, Drop, AdvanceSafe
  <2>4. revisions' = revisions
        BY <2>1, <2>2, <2>3 DEF Next
  <2>. QED  BY <1>2, <2>4
<1>. QED  BY <1>1, <1>2

(* What is below the boundary stays there.                                 *)
LEMMA SeenStays ==
    ASSUME Typed, BlocksOrdered, safe <= now, [Next]_vars, revisions' = 0,
           NEW e, NEW ev, Seen(e, ev)
    PROVE  \E n \in DOMAIN mined' :
              /\ mined'[n].tx.exec = e
              /\ mined'[n].ok = ev.ok /\ mined'[n].block = ev.block /\ mined'[n].fork = ev.fork
              /\ mined'[n].block <= safe'
<1>t. /\ DOMAIN mined = 1 .. Len(mined) /\ Len(mined) \in Nat
      /\ \A n \in 1 .. Len(mined) : mined[n].block \in Nat
      /\ DOMAIN mined' = 1 .. Len(mined') /\ Len(mined') \in Nat
      /\ safe \in Nat /\ safe' \in Nat /\ safe' >= safe
      BY MinedTyped, MinedStep, ClockStep, NextTyped DEF Typed, TypeOK
<1>1. PICK n \in 1 .. Len(mined) :
        /\ mined[n].tx.exec = e
        /\ mined[n].ok = ev.ok /\ mined[n].block = ev.block /\ mined[n].fork = ev.fork
        /\ mined[n].block <= safe
      BY <1>t DEF Seen
<1>2. mined[n].block \in Nat /\ mined[n].block <= safe'
      BY <1>t, <1>1
<1>3. n \in 1 .. Len(mined') /\ mined'[n] = mined[n]
  <2>1. CASE mined' = mined
        BY <2>1
  <2>2. ASSUME Len(mined') = Len(mined) + 1, \A i \in 1 .. Len(mined) : mined'[i] = mined[i]
        PROVE  n \in 1 .. Len(mined') /\ mined'[n] = mined[n]
        BY <1>t, <2>2
  <2>3. ASSUME NEW k \in 1 .. Len(mined), Reorganise(k), Len(mined') = k - 1,
               \A i \in 1 .. k - 1 : mined'[i] = mined[i]
        PROVE  n \in 1 .. Len(mined') /\ mined'[n] = mined[n]
    <3>1. ~ (mined[k].block <= safe)
          BY <1>t, <2>3, RevisionStep
    <3>2. k <= n => mined[k].block <= mined[n].block
          BY <1>t DEF BlocksOrdered
    <3>3. mined[k].block \in Nat
          BY <1>t
    <3>4. ~ (k <= n)
          BY <1>t, <1>1, <1>2, <3>1, <3>2, <3>3
    <3>. QED  BY <1>t, <2>3, <3>4
  <2>. QED  BY <2>1, <2>2, <2>3, MinedStep
<1>. QED  BY <1>t, <1>1, <1>2, <1>3

(* Only the watcher gives a verdict.                                       *)
LEMMA VerdictStep ==
    ASSUME Typed, [Next]_vars, NEW e \in Execution,
           row'[e].status \in {"confirmed", "finalized", "reverted", "reorg_review"}
    PROVE  \/ /\ row'[e].evidence = row[e].evidence
              /\ \/ row'[e].status = row[e].status
                 \/ row'[e].status = "finalized" /\ row[e].status = "confirmed"
           \/ /\ watch.job = e
              /\ \/ row'[e].status = "confirmed" /\ watch.pc = "confirm"
                    /\ row'[e].evidence = watch.evidence
                 \/ row'[e].status = "reverted" /\ watch.pc = "revert"
                    /\ row'[e].evidence = watch.evidence
                 \/ row'[e].status = "reorg_review" /\ watch.pc = "review"
<1> DEFINE j(w) == worker[w].job
<1>b. /\ \A f \in Execution : row[f] \in Row
      /\ \A w \in Worker : worker[w].pc # "idle" => j(w) \in Execution
      /\ watch.pc # "idle" => watch.job \in Execution
      BY DEF Typed, TypeOK, JobsAssigned
<1>c. ASSUME NEW f \in Execution, NEW r, Update(f, r)
      PROVE  row'[e] = IF e = f THEN r ELSE row[e]
      BY <1>c DEF Update, Typed, TypeOK
<1>1. CASE row'[e] = row[e]
      BY <1>1
<1>2. CASE row'[e] # row[e]
  <2>1. ASSUME UNCHANGED vars \/ Tick \/ ChainStep
        PROVE  FALSE
        BY <1>2, <2>1 DEF vars, Tick, ChainStep, Mine, Drop, Reorganise, AdvanceSafe
  <2>2. ASSUME NEW w \in Worker, WorkerStep(w)
        PROVE  FALSE
    <3>1. CASE row' = row
          BY <1>2, <3>1
    <3>2. CASE Allocate(w)
      <4>1. PICK r : Update(j(w), r) /\ r.status = "preflight_approved"
        <5>1. PICK n : Update(j(w), [NoRow EXCEPT !.status = "preflight_approved", !.nonce = n])
              BY <3>2 DEF Allocate
        <5>2. PICK r : r = [NoRow EXCEPT !.status = "preflight_approved", !.nonce = n]
              OBVIOUS
        <5>3. r.status = "preflight_approved"
              BY <5>2 DEF NoRow
        <5>4. Update(j(w), r)
              BY <5>1, <5>2
        <5>. QED  BY <5>3, <5>4
      <4>. QED  BY <1>b, <1>c, <1>2, <3>2, <4>1 DEF Allocate
    <3>3. CASE ReleaseExpired(w) \/ ClaimSigning(w) \/ PersistSigned(w)
      <4>1. j(w) \in Execution
            BY <1>b, <3>3 DEF ReleaseExpired, ClaimSigning, PersistSigned
      <4>2. row[j(w)] \in Row
            BY <1>b, <4>1
      <4>3. CASE ReleaseExpired(w)
        <5>1. PICK r : r = [row[j(w)] EXCEPT !.status = "released", !.until = 0]
              OBVIOUS
        <5>2. r.status = "released"
              BY <4>2, <5>1 DEF Row
        <5>3. Update(j(w), r)
              BY <4>3, <5>1 DEF ReleaseExpired
        <5>. QED  BY <1>c, <1>2, <4>1, <5>2, <5>3
      <4>4. CASE ClaimSigning(w)
        <5>1. PICK r : r = [row[j(w)] EXCEPT
                               !.status = "signing", !.gen = NextGeneration(j(w)),
                               !.until = Smaller(Deadline[j(w)], worker[w].at + Lease)]
              OBVIOUS
        <5>2. r.status = "signing"
              BY <4>2, <5>1 DEF Row
        <5>3. Update(j(w), r)
              BY <4>4, <5>1 DEF ClaimSigning
        <5>. QED  BY <1>c, <1>2, <4>1, <5>2, <5>3
      <4>5. CASE PersistSigned(w)
        <5>1. PICK r : r = [row[j(w)] EXCEPT
                               !.status = "signed", !.until = 0, !.raw = worker[w].gen]
              OBVIOUS
        <5>2. r.status = "signed"
              BY <4>2, <5>1 DEF Row
        <5>3. Update(j(w), r)
              BY <4>5, <5>1 DEF PersistSigned
        <5>. QED  BY <1>c, <1>2, <4>1, <5>2, <5>3
      <4>. QED  BY <3>3, <4>3, <4>4, <4>5
    <3>4. CASE ClaimSubmission(w) \/ Demote(w) \/ Mark(w)
      <4>1. j(w) \in Execution
            BY <1>b, <3>4 DEF ClaimSubmission, Demote, Mark
      <4>2. row[j(w)] \in Row
            BY <1>b, <4>1
      <4>3. CASE ClaimSubmission(w) \/ Demote(w)
        <5>1. PICK r : r = [row[j(w)] EXCEPT !.status = "submission_unknown"]
              OBVIOUS
        <5>2. r.status = "submission_unknown"
              BY <4>2, <5>1 DEF Row
        <5>3. Update(j(w), r)
              BY <4>3, <5>1 DEF ClaimSubmission, Demote
        <5>. QED  BY <1>c, <1>2, <4>1, <5>2, <5>3
      <4>4. CASE Mark(w)
        <5>1. PICK r : r = [row[j(w)] EXCEPT !.status = worker[w].outcome]
              OBVIOUS
        <5>2. r.status = worker[w].outcome
              BY <4>2, <5>1 DEF Row
        <5>3. worker[w].outcome \in Broadcast
              BY <4>4 DEF Mark, MayMark, Broadcast
        <5>4. Update(j(w), r)
              BY <4>4, <5>1 DEF Mark
        <5>. QED  BY <1>c, <1>2, <4>1, <5>2, <5>3, <5>4 DEF Broadcast
      <4>. QED  BY <3>4, <4>3, <4>4
    <3>. QED  BY <2>2, <3>1, <3>2, <3>3, <3>4
              DEF WorkerStep, ReadPending, ReadLatest, ExecuteNew, ExecuteExisting,
                  OperatorInspect, AllocateExisting, AlreadyKnown, Send, Rebroadcast, Abandon
  <2>3. ASSUME WatchStep
        PROVE  \/ /\ row'[e].evidence = row[e].evidence
                  /\ row'[e].status = "finalized" /\ row[e].status = "confirmed"
               \/ /\ watch.job = e
                  /\ \/ row'[e].status = "confirmed" /\ watch.pc = "confirm"
                        /\ row'[e].evidence = watch.evidence
                     \/ row'[e].status = "reverted" /\ watch.pc = "revert"
                        /\ row'[e].evidence = watch.evidence
                     \/ row'[e].status = "reorg_review" /\ watch.pc = "review"
    <3>1. CASE row' = row
          BY <1>2, <3>1
    <3>2. ASSUME NEW f \in Execution, WatchUnsigned(f)
          PROVE  FALSE
      <4>1. PICK r : r = [row[f] EXCEPT !.status = "released", !.until = 0]
            OBVIOUS
      <4>2. r.status = "released"
            BY <1>b, <3>2, <4>1 DEF Row
      <4>3. Update(f, r)
            BY <3>2, <4>1 DEF WatchUnsigned
      <4>. QED  BY <1>c, <1>2, <3>2, <4>2, <4>3
    <3>3. CASE ReleaseReverted
      <4>1. watch.job \in Execution
            BY <1>b, <3>3 DEF ReleaseReverted
      <4>2. PICK r : r = [row[watch.job] EXCEPT !.status = "released", !.evidence = watch.evidence]
            OBVIOUS
      <4>3. r.status = "released"
            BY <1>b, <4>1, <4>2 DEF Row
      <4>4. Update(watch.job, r)
            BY <3>3, <4>2 DEF ReleaseReverted
      <4>. QED  BY <1>c, <1>2, <4>1, <4>3, <4>4
    <3>4. CASE Finalize
      <4>1. watch.job \in Execution /\ row[watch.job].status = "confirmed"
            BY <1>b, <3>4 DEF Finalize
      <4>2. PICK r : r = [row[watch.job] EXCEPT !.status = "finalized"]
            OBVIOUS
      <4>3. r.status = "finalized" /\ r.evidence = row[watch.job].evidence
            BY <1>b, <4>1, <4>2 DEF Row
      <4>4. Update(watch.job, r)
            BY <3>4, <4>2 DEF Finalize
      <4>. QED  BY <1>c, <1>2, <4>1, <4>3, <4>4
    <3>5. CASE Confirm
      <4>1. watch.job \in Execution /\ watch.pc = "confirm"
            BY <1>b, <3>5 DEF Confirm
      <4>2. PICK r : r = [row[watch.job] EXCEPT !.status = "confirmed", !.evidence = watch.evidence]
            OBVIOUS
      <4>3. r.status = "confirmed" /\ r.evidence = watch.evidence
            BY <1>b, <4>1, <4>2 DEF Row
      <4>4. Update(watch.job, r)
            BY <3>5, <4>2 DEF Confirm
      <4>. QED  BY <1>c, <1>2, <4>1, <4>3, <4>4
    <3>6. CASE Revert
      <4>1. watch.job \in Execution /\ watch.pc = "revert"
            BY <1>b, <3>6 DEF Revert
      <4>2. PICK r : r = [row[watch.job] EXCEPT !.status = "reverted", !.evidence = watch.evidence]
            OBVIOUS
      <4>3. r.status = "reverted" /\ r.evidence = watch.evidence
            BY <1>b, <4>1, <4>2 DEF Row
      <4>4. Update(watch.job, r)
            BY <3>6, <4>2 DEF Revert
      <4>. QED  BY <1>c, <1>2, <4>1, <4>3, <4>4
    <3>7. CASE ReorgReview
      <4>1. watch.job \in Execution /\ watch.pc = "review"
            BY <1>b, <3>7 DEF ReorgReview
      <4>2. PICK r : r = [row[watch.job] EXCEPT !.status = "reorg_review"]
            OBVIOUS
      <4>3. r.status = "reorg_review"
            BY <1>b, <4>1, <4>2 DEF Row
      <4>4. Update(watch.job, r)
            BY <3>7, <4>2 DEF ReorgReview
      <4>. QED  BY <1>c, <1>2, <4>1, <4>3, <4>4
    <3>. QED  BY <2>3, <3>1, <3>2, <3>3, <3>4, <3>5, <3>6, <3>7
              DEF WatchStep, Watch, ConfirmReplay, WatchRejected, WatchCrash
  <2>. QED  BY <2>1, <2>2, <2>3 DEF Next
<1>. QED  BY <1>1, <1>2

(* The watcher's evidence is what it has just observed.                    *)
LEMMA WatchTakes ==
    ASSUME Typed, [Next]_vars, watch'.pc \notin {"idle", "finalize"}, watch' # watch
    PROVE  \E e \in Execution, pc \in WatchPc : Watch(e, pc)
<1>1. WatchStep
  <2>1. ASSUME NEW w \in Worker, WorkerStep(w)
        PROVE  watch' = watch
        BY <2>1 DEF WorkerStep, ReadPending, ReadLatest, ExecuteNew, ExecuteExisting,
              OperatorInspect, Allocate, AllocateExisting, ReleaseExpired, ClaimSigning,
              PersistSigned, ClaimSubmission, AlreadyKnown, Send, Mark, Rebroadcast, Demote,
              Abandon
  <2>. QED  BY <2>1 DEF Next, vars, Tick, ChainStep, Mine, Drop, Reorganise, AdvanceSafe
<1>2. CASE Confirm \/ ConfirmReplay
  <2>1. watch' = [watch EXCEPT !.pc = "finalize"] /\ watch \in WatchState
        BY <1>2 DEF Confirm, ConfirmReplay, Typed, TypeOK
  <2>. QED  BY <2>1 DEF WatchState
<1>3. CASE Finalize \/ Revert \/ ReleaseReverted \/ ReorgReview \/ WatchRejected \/ WatchCrash
  <2>1. watch' = IdleWatch
        BY <1>3 DEF Finalize, Revert, ReleaseReverted, ReorgReview, WatchRejected, WatchCrash
  <2>. QED  BY <2>1, InitialValuesTyped
<1>4. ASSUME NEW e \in Execution, WatchUnsigned(e)
      PROVE  FALSE
      BY <1>4 DEF WatchUnsigned
<1>. QED  BY <1>1, <1>2, <1>3, <1>4 DEF WatchStep

(* Both receipts of e below the boundary are one: e has one nonce.         *)
LEMMA OneReceipt ==
    ASSUME Ownership, Released, NEW m \in DOMAIN mined, NEW n \in DOMAIN mined,
           mined[m].tx.exec = mined[n].tx.exec
    PROVE  m = n
<1>t. DOMAIN mined = 1 .. Len(mined) /\ Len(mined) \in Nat
      BY MinedTyped DEF Ownership, Typed
<1>1. mined[m].tx.nonce = mined[n].tx.nonce
      BY DEF Ownership, ChainHoldsRows, HoldsRow
<1>2. m - 1 = n - 1
      BY <1>1 DEF Released
<1>. QED  BY <1>t, <1>2

LEMMA WatchSees ==
    ASSUME Ownership, Released, NEW e \in Execution, NEW pc \in WatchPc, Watch(e, pc)
    PROVE  /\ watch'.job = e /\ watch'.pc = pc /\ Seen(e, watch'.evidence)
           /\ pc = "confirm" => watch'.evidence.ok
           /\ pc = "revert" => ~ watch'.evidence.ok
           /\ pc = "review" =>
                 row[e].status = "finalized" /\ ~ SameReceipt(watch'.evidence, row[e].evidence)
<1>1. PICK ev \in Observations(e) :
          /\ watch' = [pc |-> pc, job |-> e, evidence |-> ev]
          /\ pc = "confirm" => ev.ok
          /\ pc = "revert" => ~ ev.ok
          /\ pc = "review" => row[e].status = "finalized" /\ ~ SameReceipt(ev, row[e].evidence)
      BY DEF Watch
<1>2. PICK n \in DOMAIN mined :
          /\ mined[n].tx = TxOf(e, row[e].raw) /\ mined[n].block + Depth <= safe
          /\ ev = [ok |-> mined[n].ok, block |-> mined[n].block, fork |-> mined[n].fork,
                   safe |-> safe]
      BY <1>1 DEF Observations
<1>3. mined[n].block <= safe
  <2>1. mined[n].block \in Nat /\ safe \in Nat /\ Depth \in Nat
        BY MinedTyped, HostedAssumption DEF Ownership, Typed, TypeOK
  <2>. QED  BY <1>2, <2>1
<1>4. Seen(e, ev)
      BY <1>2, <1>3 DEF Seen, TxOf
<1>. QED  BY <1>1, <1>4

LEMMA NextVerdicts ==
    Ownership /\ Released /\ Verdicts /\ [Next]_vars => Verdicts'
<1> SUFFICES ASSUME Ownership, Released, Verdicts, [Next]_vars
             PROVE  Verdicts'
    OBVIOUS
<1>t. Typed /\ BlocksOrdered /\ safe <= now
      BY DEF Ownership, Released, Verdicts
<1>1. BlocksOrdered'
      BY <1>t, BlocksStep
<1>2. ASSUME revisions' = 0
      PROVE  WatchVerdict' /\ \A e \in Execution : RowVerdict(e)'
  <2>1. WatchVerdict /\ \A e \in Execution : RowVerdict(e)
        BY <1>2, <1>t, RevisionStep DEF Verdicts
  <2>2. ASSUME NEW e, NEW ev, Seen(e, ev)
        PROVE  Seen(e, ev)'
        BY <1>2, <1>t, <2>2, SeenStays DEF Seen
  <2>3. ASSUME NEW e \in Execution
        PROVE  RowVerdict(e)'
    <3>1. RowVerdict(e)
          BY <2>1
    <3>2. CASE row'[e].status \notin {"confirmed", "finalized", "reverted", "reorg_review"}
          BY <3>2 DEF RowVerdict
    <3>3. CASE row'[e].status \in {"confirmed", "finalized", "reverted", "reorg_review"}
      <4>1. PICK ev : ev = row'[e].evidence
            OBVIOUS
      <4>2. /\ row'[e].status \in {"confirmed", "finalized"} => Seen(e, ev) /\ ev.ok
            /\ row'[e].status = "reverted" => Seen(e, ev) /\ ~ ev.ok
            /\ row'[e].status # "reorg_review"
            BY <1>t, <2>1, <3>1, <3>3, <4>1, VerdictStep DEF RowVerdict, WatchVerdict
      <4>3. Seen(e, ev) => Seen(e, ev)'
            BY <2>2
      <4>. QED  BY <4>1, <4>2, <4>3 DEF RowVerdict, Seen
    <3>. QED  BY <3>2, <3>3
  <2>4. WatchVerdict'
    <3>1. PICK ev, e : ev = watch'.evidence /\ e = watch'.job
          OBVIOUS
    <3>2. Seen(e, ev) => Seen(e, ev)'
          BY <2>2
    <3>3. /\ watch'.pc = "confirm" => Seen(e, ev) /\ ev.ok
          /\ watch'.pc = "revert" => Seen(e, ev) /\ ~ ev.ok
          /\ watch'.pc # "review"
      <4>1. CASE watch' = watch
            BY <2>1, <3>1, <4>1 DEF WatchVerdict
      <4>2. CASE watch' # watch /\ watch'.pc \notin {"idle", "finalize"}
        <5>1. PICK f \in Execution, pc \in WatchPc : Watch(f, pc)
              BY <1>t, <4>2, WatchTakes
        <5>2. /\ e = f /\ watch'.pc = pc /\ Seen(e, ev)
              /\ pc = "confirm" => ev.ok
              /\ pc = "revert" => ~ ev.ok
              /\ pc = "review" => row[e].status = "finalized" /\ ~ SameReceipt(ev, row[e].evidence)
              BY <3>1, <5>1, WatchSees
        <5>3. pc # "review"
          <6> SUFFICES ASSUME pc = "review"
                       PROVE  FALSE
              OBVIOUS
          <6>1. Seen(e, row[e].evidence) /\ ~ SameReceipt(ev, row[e].evidence)
                BY <2>1, <5>2 DEF RowVerdict
          <6>2. PICK m \in DOMAIN mined :
                   /\ mined[m].tx.exec = e
                   /\ mined[m].ok = ev.ok /\ mined[m].block = ev.block /\ mined[m].fork = ev.fork
                BY <5>2 DEF Seen
          <6>3. PICK n \in DOMAIN mined :
                   /\ mined[n].tx.exec = e
                   /\ mined[n].ok = row[e].evidence.ok /\ mined[n].block = row[e].evidence.block
                   /\ mined[n].fork = row[e].evidence.fork
                BY <6>1 DEF Seen
          <6>4. m = n
                BY <6>2, <6>3, OneReceipt
          <6>. QED  BY <6>1, <6>2, <6>3, <6>4 DEF SameReceipt
        <5>. QED  BY <5>2, <5>3
      <4>3. CASE watch'.pc \in {"idle", "finalize"}
            BY <4>3
      <4>. QED  BY <4>1, <4>2, <4>3
    <3>. QED  BY <3>1, <3>2, <3>3 DEF WatchVerdict, Seen
  <2>. QED  BY <2>3, <2>4
<1>. QED  BY <1>1, <1>2 DEF Verdicts

(* Unless the chain went back below its finality boundary, a finalized     *)
(* execution is paid and a reverted one is not.                            *)
THEOREM VerdictsMatch == Spec => []VerdictMatchesChain
<1>1. Ownership /\ Released /\ Verdicts => VerdictMatchesChain
  <2> SUFFICES ASSUME Ownership, Released, Verdicts, revisions = 0, NEW e \in Execution
               PROVE  /\ row[e].status \in {"confirmed", "finalized"} => PaidOnChain(e)
                      /\ row[e].status = "reverted" => ~PaidOnChain(e)
                      /\ row[e].status # "reorg_review"
      BY DEF VerdictMatchesChain
  <2>1. RowVerdict(e)
        BY DEF Verdicts
  <2>2. row[e].status \in {"confirmed", "finalized"} => PaidOnChain(e)
        BY <2>1 DEF RowVerdict, Seen, PaidOnChain
  <2>3. ASSUME row[e].status = "reverted", NEW m \in DOMAIN mined, mined[m].tx.exec = e
        PROVE  ~ mined[m].ok
    <3>1. PICK n \in DOMAIN mined : mined[n].tx.exec = e /\ ~ mined[n].ok
          BY <2>1, <2>3 DEF RowVerdict, Seen
    <3>2. m = n
          BY <2>3, <3>1, OneReceipt
    <3>. QED  BY <3>1, <3>2
  <2>. QED  BY <2>1, <2>2, <2>3 DEF RowVerdict, PaidOnChain
<1>2. Spec => [](Ownership /\ Released /\ Verdicts)
  <2>1. Init => Ownership /\ Released /\ Verdicts
        BY InitOwnership, InitReleased, InitVerdicts
  <2>2. Ownership /\ Released /\ Verdicts /\ [Next]_vars => (Ownership /\ Released /\ Verdicts)'
        BY NextOwnership, NextReleased, NextVerdicts
  <2>. QED  BY <2>1, <2>2, PTL DEF Spec
<1>. QED  BY <1>1, <1>2, PTL

-----------------------------------------------------------------------------
(* HostedExecution implements HeldPayment, one execution at a time.  What   *)
(* an execution ended with is below the boundary.                           *)
Final(e) == \E n \in DOMAIN mined : mined[n].tx.exec = e /\ mined[n].block <= safe

Ended ==
    revisions = 0 =>
        \A e \in Execution : row[e].status \in Given_up /\ row[e].raw # 0 => Final(e)

Holding == Ownership /\ Released /\ Verdicts /\ Ended

LEMMA NextEnded == Holding /\ [Next]_vars => Ended'
<1> SUFFICES ASSUME Holding, [Next]_vars, revisions' = 0,
                    NEW e \in Execution, row'[e].status \in Given_up, row'[e].raw # 0
             PROVE  Final(e)'
    BY DEF Ended
<1>t. Typed /\ BlocksOrdered /\ safe <= now /\ revisions = 0
  <2>1. Typed /\ BlocksOrdered /\ safe <= now
        BY DEF Holding, Ownership, Released, Verdicts
  <2>. QED  BY <2>1, RevisionStep
<1>1. row[e].raw # 0
  <2>1. ASSUME NEW w \in Worker, Allocate(w), row[e].raw = 0
        PROVE  FALSE
        BY <1>t, <2>1, AllocateEffect
  <2>2. ASSUME NEW w \in Worker, PersistSigned(w), row[e].raw = 0
        PROVE  FALSE
        BY <2>2, PersistEffect DEF Holding, Given_up
  <2>. QED  BY <1>t, <2>1, <2>2, RowStep DEF RowsKept
<1>2. row[e].status \in Given_up \cup {"reverted"}
      BY <1>1, SignedKept DEF Holding
<1>3. Final(e)
      BY <1>t, <1>1, <1>2 DEF Holding, Ended, Verdicts, RowVerdict, Seen, Final
<1>4. PICK m \in DOMAIN mined : mined[m].tx.exec = e /\ mined[m].block <= safe
      BY <1>3 DEF Final
<1>5. PICK ev : ev = mined[m]
      OBVIOUS
<1>6. Seen(e, ev)
      BY <1>4, <1>5 DEF Seen
<1>7. \E n \in DOMAIN mined' : mined'[n].tx.exec = e /\ mined'[n].block <= safe'
      BY <1>t, <1>6, SeenStays
<1>. QED  BY <1>7 DEF Final

HeldStep(e) == (Budget'[e] = Budget[e] /\ Money'[e] = Money[e]) \/ Promise(e)!Next

(* A step of HeldPayment, for an execution that changes as it may.          *)
LEMMA OneHeld ==
    ASSUME NEW e \in Execution,
           \/ Budget[e] = "none" /\ Budget'[e] = "reserved" /\ Money'[e] = Money[e]
           \/ /\ Budget[e] = "reserved" /\ Budget'[e] = "reserved"
              /\ \/ Money[e] = "idle" /\ Money'[e] = "sent"
                 \/ Money[e] = "sent" /\ Money'[e] \in {"moved", "idle"}
                 \/ Money[e] = "moved" /\ Money'[e] = "sent"
           \/ /\ Budget[e] = "reserved" /\ Money'[e] = Money[e]
              /\ \/ Money[e] = "moved" /\ Budget'[e] = "settled"
                 \/ Money[e] = "idle" /\ Budget'[e] = "released"
    PROVE  HeldStep(e)
<1> DEFINE b == [x \in {e} |-> Budget[x]]
           m == [x \in {e} |-> Money[x]]
<1>1. /\ b[e] = Budget[e] /\ b' = [b EXCEPT ![e] = Budget'[e]]
      /\ m[e] = Money[e] /\ m' = [m EXCEPT ![e] = Money'[e]]
      OBVIOUS
<1>2. /\ Budget'[e] = Budget[e] => b' = b
      /\ Money'[e] = Money[e] => m' = m
      OBVIOUS
<1>3. CASE Budget[e] = "none" /\ Budget'[e] = "reserved" /\ Money'[e] = Money[e]
      BY <1>1, <1>2, <1>3 DEF HeldStep, Promise!Next, Promise!Reserve
<1>4. CASE Budget[e] = "reserved" /\ Budget'[e] = "reserved"
           /\ Money[e] \in {"idle", "moved"} /\ Money'[e] = "sent"
      BY <1>1, <1>2, <1>4 DEF HeldStep, Promise!Next, Promise!Undo
<1>5. CASE Budget[e] = "reserved" /\ Budget'[e] = "reserved"
           /\ Money[e] = "sent" /\ Money'[e] = "moved"
      BY <1>1, <1>2, <1>5 DEF HeldStep, Promise!Next, Promise!Move
<1>6. CASE Budget[e] = "reserved" /\ Budget'[e] = "reserved"
           /\ Money[e] = "sent" /\ Money'[e] = "idle"
      BY <1>1, <1>2, <1>6 DEF HeldStep, Promise!Next, Promise!Fail
<1>7. CASE Budget[e] = "reserved" /\ Money'[e] = Money[e]
           /\ Money[e] = "moved" /\ Budget'[e] = "settled"
      BY <1>1, <1>2, <1>7 DEF HeldStep, Promise!Next, Promise!Settle
<1>8. CASE Budget[e] = "reserved" /\ Money'[e] = Money[e]
           /\ Money[e] = "idle" /\ Budget'[e] = "released"
      BY <1>1, <1>2, <1>8 DEF HeldStep, Promise!Next, Promise!Release
<1>. QED  BY <1>3, <1>4, <1>5, <1>6, <1>7, <1>8

(* The money of an execution follows its one receipt.                       *)
MoneyOK(e) ==
    /\ row[e].raw = 0 => Money[e] = "idle" /\ \A n \in DOMAIN mined : mined[n].tx.exec # e
    /\ row[e].raw # 0 /\ (\A n \in DOMAIN mined : mined[n].tx.exec # e) => Money[e] = "sent"
    /\ \A n \in DOMAIN mined :
          mined[n].tx.exec = e => Money[e] = IF mined[n].ok THEN "moved" ELSE "idle"

MoneyKept == \A e \in Execution : MoneyOK(e)

LEMMA MoneyFollows == Holding => MoneyKept
<1> SUFFICES ASSUME Holding, NEW e \in Execution
             PROVE  MoneyOK(e)
    BY DEF MoneyKept
<1>1. \A n \in DOMAIN mined : mined[n].tx.exec = e => row[e].raw # 0
      BY DEF Holding, Ownership, ChainHoldsRows, HoldsRow
<1>2. ASSUME NEW n \in DOMAIN mined, mined[n].tx.exec = e
      PROVE  Money[e] = IF mined[n].ok THEN "moved" ELSE "idle"
  <2>1. \A m \in DOMAIN mined : mined[m].tx.exec = e => m = n
        BY <1>2, OneReceipt DEF Holding
  <2>. QED  BY <1>2, <2>1 DEF Money, PaidOnChain
<1>3. ASSUME \A n \in DOMAIN mined : mined[n].tx.exec # e
      PROVE  Money[e] = IF row[e].raw = 0 THEN "idle" ELSE "sent"
      BY <1>3 DEF Money, PaidOnChain
<1>. QED  BY <1>1, <1>2, <1>3 DEF MoneyOK

(* What was signed is open until its receipt is below the boundary.         *)
LEMMA OpenUntilFinal ==
    ASSUME Holding, revisions = 0, NEW e \in Execution, row[e].raw # 0, ~ Final(e)
    PROVE  Budget[e] = "reserved"
<1>1. row[e].status \notin Unsigned \cup {"none"}
      BY DEF Holding, Ownership, RawMatchesStatus
<1>2. row[e].status \notin Given_up
      BY DEF Holding, Ended
<1>3. row[e].status \notin {"finalized", "reorg_review"}
      BY DEF Holding, Verdicts, RowVerdict, Seen, Final
<1>. QED  BY <1>1, <1>2, <1>3 DEF Budget

LEMMA NextHolding == Holding /\ [Next]_vars => Holding'
BY NextOwnership, NextReleased, NextVerdicts, NextEnded DEF Holding

(* Core's rows change: nothing is mined.                                    *)
LEMMA RowHeld ==
    ASSUME Holding, [Next]_vars, revisions' = 0, mined' = mined, NEW e \in Execution
    PROVE  HeldStep(e)
<1>t. /\ Typed /\ revisions = 0 /\ WatchVerdict /\ RowVerdict(e)
      /\ MoneyOK(e) /\ MoneyOK(e)'
  <2>1. Typed
        BY DEF Holding, Ownership
  <2>2. revisions = 0
        BY <2>1, RevisionStep
  <2>3. WatchVerdict /\ RowVerdict(e)
        BY <2>2 DEF Holding, Verdicts
  <2>4. MoneyKept /\ MoneyKept'
        BY NextHolding, MoneyFollows, PTL
  <2>. QED  BY <2>1, <2>2, <2>3, <2>4 DEF MoneyKept
<1>m. row'[e].raw = row[e].raw => Money'[e] = Money[e]
      BY DEF Money, PaidOnChain
<1>1. CASE row'[e] = row[e]
      BY <1>1, <1>m DEF Budget, HeldStep
<1>2. CASE RowsKept
  <2>1. row'[e].raw = row[e].raw /\ StatusKept(e)
        BY <1>2 DEF RowsKept
  <2>2. Money'[e] = Money[e]
        BY <1>m, <2>1
  <2>3. CASE \/ row'[e].status = row[e].status
             \/ row[e].status = "finalized" /\ row'[e].status = "reorg_review"
        BY <2>2, <2>3 DEF Budget, Given_up, HeldStep
  <2>4. CASE row[e].status \in Unsigned /\ row'[e].status \in Unsigned \cup Given_up
    <3>1. Budget[e] = "reserved" /\ Budget'[e] \in {"reserved", "released"}
          BY <2>4 DEF Budget, Unsigned, Given_up
    <3>2. Money[e] = "idle"
          BY <1>t, <2>4 DEF Holding, Ownership, RawMatchesStatus, MoneyOK
    <3>. QED  BY <2>2, <3>1, <3>2, OneHeld DEF HeldStep
  <2>5. CASE row[e].status \in Undecided /\ row'[e].status \in SignedStatus
    <3>1. Budget[e] = "reserved" /\ Budget'[e] \in {"reserved", "settled"}
          BY <2>5 DEF Budget, Undecided, SignedStatus, Unsigned, Given_up
    <3>2. CASE row'[e].status \in {"finalized", "reorg_review"}
      <4>1. row[e].status = "confirmed"
            BY <1>t, <2>5, <3>2, VerdictStep DEF WatchVerdict, Undecided
      <4>2. Money[e] = "moved"
            BY <1>t, <4>1 DEF RowVerdict, Seen, MoneyOK
      <4>3. Budget'[e] = "settled"
            BY <3>1, <3>2 DEF Budget, Given_up
      <4>. QED  BY <2>2, <3>1, <4>2, <4>3, OneHeld
    <3>3. CASE row'[e].status \notin {"finalized", "reorg_review"}
      <4>1. Budget'[e] = "reserved"
            BY <2>5, <3>3 DEF Budget, SignedStatus, Unsigned, Given_up
      <4>. QED  BY <2>2, <3>1, <4>1 DEF HeldStep
    <3>. QED  BY <3>2, <3>3
  <2>6. CASE row[e].status = "reverted" /\ row'[e].status \in Given_up
    <3>1. Budget[e] = "reserved" /\ Budget'[e] = "released"
          BY <2>6 DEF Budget, Given_up
    <3>2. Money[e] = "idle"
          BY <1>t, <2>6 DEF RowVerdict, Seen, MoneyOK
    <3>. QED  BY <2>2, <3>1, <3>2, OneHeld
  <2>. QED  BY <2>1, <2>3, <2>4, <2>5, <2>6 DEF StatusKept
<1>3. ASSUME NEW w \in Worker, Allocate(w), row'[e] # row[e]
      PROVE  HeldStep(e)
  <2>1. /\ row[e].status = "none" /\ row'[e].status = "preflight_approved" /\ row'[e].raw = 0
        BY <1>t, <1>3, AllocateEffect
  <2>2. row[e].raw = 0
        BY <2>1 DEF Holding, Ownership, RawMatchesStatus
  <2>3. Budget[e] = "none" /\ Budget'[e] = "reserved"
        BY <2>1 DEF Budget, Given_up
  <2>. QED  BY <1>m, <2>1, <2>2, <2>3, OneHeld
<1>4. ASSUME NEW w \in Worker, PersistSigned(w), row'[e] # row[e]
      PROVE  HeldStep(e)
  <2>1. /\ row[e].status \in Unsigned /\ row[e].raw = 0
        /\ row'[e].status = "signed" /\ row'[e].raw # 0
        BY <1>4, PersistEffect DEF Holding
  <2>2. Budget[e] = "reserved" /\ Budget'[e] = "reserved"
        BY <2>1 DEF Budget, Unsigned, Given_up
  <2>3. Money[e] = "idle" /\ Money'[e] = "sent"
        BY <1>t, <2>1 DEF MoneyOK
  <2>. QED  BY <2>2, <2>3, OneHeld
<1>. QED  BY <1>t, <1>1, <1>2, <1>3, <1>4, RowStep

(* The chain moves: no row changes.                                         *)
LEMMA ChainHeld ==
    ASSUME Holding, [Next]_vars, revisions' = 0, mined' # mined, NEW e \in Execution
    PROVE  HeldStep(e)
<1>t. /\ DOMAIN mined = 1 .. Len(mined) /\ Len(mined) \in Nat
      /\ \A n \in 1 .. Len(mined) : mined[n].block \in Nat
      /\ safe \in Nat /\ revisions = 0 /\ Typed /\ BlocksOrdered
  <2>1. Typed /\ BlocksOrdered
        BY DEF Holding, Ownership, Verdicts
  <2>. QED  BY <2>1, MinedTyped, RevisionStep DEF Typed, TypeOK
<1>m. MoneyOK(e) /\ MoneyOK(e)'
  <2>1. MoneyKept /\ MoneyKept'
        BY NextHolding, MoneyFollows, PTL
  <2>. QED  BY <2>1 DEF MoneyKept
<1>s. row' = row
  <2>1. \/ \E tx \in pool, ok \in BOOLEAN : Mine(tx, ok)
        \/ \E n \in 1 .. Len(mined) : Reorganise(n)
        BY <1>t, MinedStep
  <2>. QED  BY <2>1 DEF Mine, Reorganise
<1>b. Budget' = Budget
      BY <1>s DEF Budget
<1>1. ASSUME \A n \in DOMAIN mined : mined[n].tx.exec # e,
             \A n \in DOMAIN mined' : mined'[n].tx.exec # e
      PROVE  HeldStep(e)
  <2>1. Money'[e] = Money[e]
        BY <1>s, <1>1 DEF Money, PaidOnChain
  <2>. QED  BY <1>b, <2>1 DEF HeldStep
<1>2. ASSUME NEW m \in DOMAIN mined, mined[m].tx.exec = e,
             m \in DOMAIN mined', mined'[m] = mined[m]
      PROVE  HeldStep(e)
  <2>1. Money'[e] = Money[e]
        BY <1>m, <1>2 DEF MoneyOK
  <2>. QED  BY <1>b, <2>1 DEF HeldStep
<1>3. ASSUME NEW tx \in pool, NEW ok \in BOOLEAN, Mine(tx, ok),
             Len(mined') = Len(mined) + 1, DOMAIN mined' = 1 .. Len(mined'),
             \A i \in 1 .. Len(mined) : mined'[i] = mined[i],
             mined'[Len(mined) + 1].tx = tx
      PROVE  HeldStep(e)
  <2>1. CASE tx.exec # e
    <3>1. CASE \E m \in DOMAIN mined : mined[m].tx.exec = e
          BY <1>t, <1>2, <1>3, <3>1
    <3>2. CASE \A m \in DOMAIN mined : mined[m].tx.exec # e
      <4>1. \A n \in DOMAIN mined' : mined'[n].tx.exec # e
        <5>1. ASSUME NEW n \in DOMAIN mined'
              PROVE  n \in 1 .. Len(mined) \/ n = Len(mined) + 1
              BY <1>t, <1>3
        <5>. QED  BY <1>t, <1>3, <2>1, <3>2, <5>1
      <4>. QED  BY <1>1, <3>2, <4>1
    <3>. QED  BY <3>1, <3>2
  <2>2. CASE tx.exec = e
    <3>1. row[e].raw # 0 /\ row[e].nonce = Len(mined)
          BY <1>3, <2>2 DEF Mine, Holding, Ownership, ChainHoldsRows, HoldsRow
    <3>2. ASSUME NEW n \in DOMAIN mined, mined[n].tx.exec = e
          PROVE  FALSE
      <4>1. mined[n].tx.nonce = row[e].nonce /\ mined[n].tx.nonce = n - 1
            BY <3>2 DEF Holding, Ownership, ChainHoldsRows, HoldsRow, Released
      <4>. QED  BY <1>t, <3>1, <4>1
    <3>3. Money[e] = "sent"
          BY <1>m, <3>1, <3>2 DEF MoneyOK
    <3>4. Money'[e] \in {"moved", "idle"}
      <4>1. Len(mined) + 1 \in DOMAIN mined' /\ mined'[Len(mined) + 1].tx.exec = e
            BY <1>t, <1>3, <2>2
      <4>. QED  BY <1>m, <4>1 DEF MoneyOK
    <3>5. Budget[e] = "reserved"
          BY <1>t, <3>1, <3>2, OpenUntilFinal DEF Final
    <3>. QED  BY <1>b, <3>3, <3>4, <3>5, OneHeld
  <2>. QED  BY <2>1, <2>2
<1>4. ASSUME NEW k \in 1 .. Len(mined), Reorganise(k),
             Len(mined') = k - 1, DOMAIN mined' = 1 .. Len(mined'),
             \A i \in 1 .. k - 1 : mined'[i] = mined[i]
      PROVE  HeldStep(e)
  <2>1. CASE \A m \in DOMAIN mined : mined[m].tx.exec # e
        BY <1>t, <1>1, <1>4, <2>1
  <2>2. ASSUME NEW m \in DOMAIN mined, mined[m].tx.exec = e, m < k
        PROVE  HeldStep(e)
        BY <1>t, <1>2, <1>4, <2>2
  <2>3. ASSUME NEW m \in DOMAIN mined, mined[m].tx.exec = e, ~ (m < k)
        PROVE  HeldStep(e)
    <3>1. \A n \in DOMAIN mined : mined[n].tx.exec = e => n = m
          BY <2>3, OneReceipt DEF Holding
    <3>2. ~ (mined[m].block <= safe)
      <4>1. ~ (mined[k].block <= safe)
            BY <1>t, <1>4, RevisionStep
      <4>2. mined[k].block <= mined[m].block
            BY <1>t, <2>3 DEF BlocksOrdered
      <4>. QED  BY <1>t, <2>3, <4>1, <4>2
    <3>3. row[e].raw # 0 /\ Money[e] \in {"moved", "idle"}
          BY <1>m, <2>3 DEF MoneyOK
    <3>4. \A n \in DOMAIN mined' : mined'[n].tx.exec # e
          BY <1>t, <1>4, <2>3, <3>1
    <3>5. Money'[e] = "sent"
          BY <1>m, <1>s, <3>3, <3>4 DEF MoneyOK
    <3>6. Budget[e] = "reserved"
          BY <1>t, <3>1, <3>2, <3>3, OpenUntilFinal DEF Final
    <3>. QED  BY <1>b, <3>3, <3>5, <3>6, OneHeld
  <2>. QED  BY <2>1, <2>2, <2>3
<1>. QED  BY <1>t, <1>3, <1>4, MinedStep

(* Seen from outside an execution is a held payment, as long as the chain   *)
(* keeps what is below its finality boundary: whatever workers, operators,  *)
(* the watcher, the mempool and newer blocks do, each step is one of        *)
(* HeldPayment's or none.                                                   *)
THEOREM ExecutionsAreHeld == Spec => HoldsPayments
<1>1. Init => Holding /\ \A e \in Execution : Promise(e)!Init
  <2> SUFFICES ASSUME Init
               PROVE  Holding /\ \A e \in Execution : Promise(e)!Init
      OBVIOUS
  <2>1. \A e \in Execution : row[e].status = "none" /\ row[e].raw = 0
        BY DEF Init, NoRow
  <2>2. Holding
        BY <2>1, InitOwnership, InitReleased, InitVerdicts DEF Holding, Ended, Given_up
  <2>3. ASSUME NEW e \in Execution
        PROVE  Promise(e)!Init
    <3>1. MoneyOK(e)
          BY <2>2, MoneyFollows DEF MoneyKept
    <3>2. Budget[e] = "none"
          BY <2>1 DEF Budget, Given_up
    <3>3. Money[e] = "idle"
          BY <2>1, <3>1 DEF MoneyOK
    <3>. QED  BY <3>2, <3>3 DEF Promise!Init
  <2>. QED  BY <2>2, <2>3
<1>2. Holding /\ [Next]_vars =>
          [revisions' = 0 =>
             \A e \in Execution :
                (Budget'[e] = Budget[e] /\ Money'[e] = Money[e]) \/ Promise(e)!Next]_vars
      BY RowHeld, ChainHeld DEF HeldStep
<1>. QED  BY <1>1, <1>2, NextHolding, PTL DEF Spec, HoldsPayments
====
