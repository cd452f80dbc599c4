------------------------- MODULE MCHostedExecution -------------------------
(* Instances of HostedExecution: intents with an early and a late deadline. *)
EXTENDS HostedExecution, TLC

CONSTANTS e1, e2, w1, w2, EarlyDeadline, LateDeadline

MCDeadline == [e \in Execution |-> IF e = e1 THEN EarlyDeadline ELSE LateDeadline]

(* Two executions compete for nonces, or one is followed through            *)
(* reorganisations, restarts of the watcher and a later time.              *)
Alternatives ==
    \/ row[e2] = NoRow /\ \A w \in Worker : worker[w].job # e2
    \/ now <= 2 /\ revisions = 0 /\ crashes = 0

WorkerSymmetry == Permutations(Worker)
=============================================================================
