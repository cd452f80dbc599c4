--------------------------- MODULE MCOrderSigning ---------------------------
(* Instances of OrderSigning, and of the VenueFunding in it, for TLC. *)
EXTENDS OrderSigning, TLC

Interchangeable ==
    Permutations(Worker) \cup Permutations(Operation) \cup Permutations(Caller)

(* The claim is contended before the first operation gets under way, two    *)
(* requests drive one operation, and one at a time the second. *)
Early == \A o \in Operation : op[o].status \in {"none", "created", "confirmed"}
Second == \A o \in Operation : op[o].status # "none"
Scenarios ==
    /\ claim = NoClaim \/ Early
    /\ Second => Cardinality({w \in Worker : worker[w].pc # "idle"}) <= 1

(* An order is signed while the bridge has not answered yet, or once the    *)
(* operation is finalized along the shortest way; no request drives the     *)
(* operation meanwhile and no message to Core is left. *)
Untraded == \A s \in Session : session[s] = NewSession
Settled ==
    /\ \A w \in Worker : worker[w] = Idle
    /\ late = {} /\ claim = NoClaim
    /\ ~ Second
    /\ \E o \in Operation : 
          \/ op[o].status = "bridge_pending" /\ op[o].revision <= 12
          \/ op[o].status = "finalized" /\ op[o].revision <= 15
TradingScenarios == Scenarios /\ (Untraded \/ Settled)
=============================================================================
