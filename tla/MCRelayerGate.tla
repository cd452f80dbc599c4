--------------------------- MODULE MCRelayerGate ---------------------------
(* The contract with one owner's three grants, two of them under one id,   *)
(* and a token that may misbehave; or two wallets with an ordinary grant   *)
(* each that pay through the relayer.                                      *)
EXTENDS RelayerGate

CONSTANTS o1, o2, m1, i1, i2, p1, p2, p3

Grant(owner, id, total, until) ==
    [grantId |-> id, owner |-> owner, payee |-> m1, maxPerPayment |-> 2,
     maxTotal |-> total, validAfter |-> 0, validUntil |-> until]

Ordinary == {Grant(o1, i1, 4, 3), Grant(o2, i1, 4, 3)}
MCGrants == Ordinary \cup {Grant(o1, i1, 3, 2), Grant(o1, i2, 2, 3)}
MCExecutions ==
    {[grantHash |-> g, purchaseId |-> p, amount |-> a, deadline |-> 2] :
        g \in {h \in MCGrants : h.owner = o1},
        p \in {p1, p2, p3}, a \in {1, 2}}
    \cup {[grantHash |-> Grant(o2, i1, 4, 3), purchaseId |-> p1,
           amount |-> 2, deadline |-> 2]}
MCExecutionSignatures == {x \in MCExecutions : x.amount = 2 \/ x.purchaseId = p1}
MCInitialBalance == [a \in {o1, o2, m1} |-> 5]
MCOrders == {[owner |-> o1, purchaseId |-> p1], [owner |-> o1, purchaseId |-> p2],
             [owner |-> o2, purchaseId |-> p1]}

(* Nobody has asked the gate for anything, and the second owner is away;   *)
(* or only the ordinary grants are used.                                   *)
Scenarios ==
    \/ /\ active = NoOrder /\ completed = NoOrder
       /\ attempt = [r \in Orders |-> NoAttempt]
       /\ \A g \in Grants : g.owner = o2 => spent[g] = 0
       /\ ~revoked[o2][i1] /\ ~revoked[o2][i2]
    \/ /\ \A o \in Owner : ~revoked[o][i2]
       /\ \A g \in Grants \ Ordinary : spent[g] = 0
       /\ \A r \in Orders : attempt[r] # NoAttempt =>
             /\ attempt[r].execution.grantHash \in Ordinary
             /\ attempt[r].execution.amount = 2
=============================================================================
