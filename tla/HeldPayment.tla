---------------------------- MODULE HeldPayment ----------------------------
(***************************************************************************)
(* What is promised about one payment, by Core for a payment made under a  *)
(* spending grant and by the Facilitator for a hosted execution, however   *)
(* it is carried out: it is held (in the budget, or open) for as long as   *)
(* the user's money may move, the money moves at most once, it is booked   *)
(* as spent only after it moved, and given back only if it never can.      *)
(***************************************************************************)
CONSTANT Payment

VARIABLES
    budget,     \* reserved, settled or released
    money       \* idle, sent (it may move) or moved

vars == <<budget, money>>

Init ==
    /\ budget \in [Payment -> {"none", "reserved", "released"}]
    /\ money = [p \in Payment |-> "idle"]

Reserve(p) ==
    /\ budget[p] = "none"
    /\ budget' = [budget EXCEPT ![p] = "reserved"]
    /\ UNCHANGED money

(* Sending, moving, failing, and a chain that takes a move back. *)
Send(p) ==
    /\ budget[p] = "reserved" /\ money[p] = "idle"
    /\ money' = [money EXCEPT ![p] = "sent"]
    /\ UNCHANGED budget
Move(p) ==
    /\ budget[p] = "reserved" /\ money[p] = "sent"
    /\ money' = [money EXCEPT ![p] = "moved"]
    /\ UNCHANGED budget
Fail(p) ==
    /\ budget[p] = "reserved" /\ money[p] = "sent"
    /\ money' = [money EXCEPT ![p] = "idle"]
    /\ UNCHANGED budget
Undo(p) ==
    /\ budget[p] = "reserved" /\ money[p] # "sent"
    /\ money' = [money EXCEPT ![p] = "sent"]
    /\ UNCHANGED budget

Settle(p) ==
    /\ budget[p] = "reserved" /\ money[p] = "moved"
    /\ budget' = [budget EXCEPT ![p] = "settled"]
    /\ UNCHANGED money
Release(p) ==
    /\ budget[p] = "reserved" /\ money[p] = "idle"
    /\ budget' = [budget EXCEPT ![p] = "released"]
    /\ UNCHANGED money

Next == \E p \in Payment :
    Reserve(p) \/ Send(p) \/ Move(p) \/ Fail(p) \/ Undo(p) \/ Settle(p) \/ Release(p)

Spec == Init /\ [][Next]_vars
=============================================================================
