-------------------------- MODULE MCSpendingRails --------------------------
(* Small instances of SpendingRails. *)
EXTENDS SpendingRails, TLC

CONSTANTS n1, s1, x1, p1, w1, w2, c1, c2

MCRail == [r \in Reservation |-> CASE r \in {n1, s1} -> "native_allowance"
                                   [] r = x1 -> "external_x402"
                                   [] r = p1 -> "clink_payer_proxy"]
(* One gas price; the second transaction of an authorization is sent after   *)
(* the first has reverted, and only for a reservation's first authorization. *)
SentAgain == {t \in pool \cup mined : t.leg = "pay" /\ t.copy = c2}
FewCopies ==
    /\ \A r \in Reservation : row[r].tx # NoTx /\ row[r].tx.leg = "pull" => row[r].tx.copy = c1
    /\ \A t \in SentAgain : t.id = 1 /\ [t EXCEPT !.copy = c1] \in failed

WorkerSymmetry == Permutations(Worker)
=============================================================================
