--------------------------- MODULE MCFacilitator ---------------------------
(* One node is enrolled when we begin, and its executions share a deadline; *)
(* an invite for a second node is open to two clients.                      *)
EXTENDS Enrollment, TLC

CONSTANTS t1, n1, n2, e1, e2, c1, CommonDeadline,
    MaxLate  \* bound on different requests under way that nobody waits for

MCTenantOf == [n \in Node |-> t1]
MCNodeOf == [e \in Execution |-> n1]
MCControlled == {<<"platform">>}
MCDeadline == [e \in Execution |-> CommonDeadline]
MCMember == [c \in Client |-> IF c = c1 THEN n1 ELSE NoNode]
MCFirstKey == [c \in Client |-> IF c = c1 THEN 1 ELSE NoKey]
WorkerSymmetry == Permutations(Worker)

NobodyPays ==
    /\ now = 0 /\ paused = {<<"platform">>}
    /\ worker = [w \in Worker |-> Idle]
    /\ \A e \in Execution : row[e].status \in {"none", "preflight_approved"}

CredentialsRest ==
    /\ made = 1 /\ late = {} /\ invited = {n2}
    /\ bundle[c1] # NoBundle
    /\ awaited = [c \in Client |-> NoRequest]

(* A transaction that was signed before the gate existed costs a whole day, *)
(* the most that such a one is charged.                                     *)
SignedBeforeCostsADay ==
    \A e \in Execution : gate[e].gas = 0 => row[e].cost \in {0, NodeGas}

(* A worker's clock is from today or from yesterday. *)
ClocksADayLate ==
    \A w \in Worker : worker[w].pc # "idle" => worker[w].clock + DayLength >= now

(* The whole life of the credentials while nobody pays, and payments while  *)
(* no credential changes.                                                   *)
Explored ==
    /\ SignedBeforeCostsADay /\ ClocksADayLate
    /\ NobodyPays \/ CredentialsRest
    /\ Cardinality(late) <= MaxLate
=============================================================================
