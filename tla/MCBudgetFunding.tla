--------------------------- MODULE MCBudgetFunding ---------------------------
(* Instances of BudgetFunding for TLC: purchases of 2, 1 and 1, and limits *)
(* that two of them fill exactly.                                          *)
EXTENDS BudgetFunding, TLC

CONSTANTS p1, p3

MCAmount == [p \in Purchase |-> IF p = p1 THEN 2 ELSE 1]
MCExpires == [g \in Grant |-> 2]
MCLater == [g \in Grant |-> 3]

Limit(max, hourly) == [max |-> max, payment |-> 2, hourly |-> hourly, daily |-> max]
TwoLimits == {Limit(3, 3), Limit(2, 2)}
OneLimit == {Limit(3, 3)}
MixedLimits == {Limit(3, 2), Limit(3, 3), Limit(2, 2)}
ExactLimit == {Limit(2, 2)}

(* Either hours and days pass for two workers and three purchases under a   *)
(* grant that its owner leaves alone, or the owner acts while one worker    *)
(* serves two purchases at one instant.                                    *)
OwnerIsAway ==
    \A g \in Grant : bound[g] = NoLimits /\ grant[g].status # "revoked"
                    /\ grant[g].limits \in {NoLimits, Limit(3, 2)}
TwoScenarios ==
    \/ OwnerIsAway
    \/ /\ now = 0
       /\ row[p3] = NoReservation
       /\ Cardinality({w \in Worker : worker[w] # IdleWorker}) <= 1

Symmetry == Permutations(Worker)
=============================================================================
