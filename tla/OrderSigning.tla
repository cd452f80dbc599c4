---------------------------- MODULE OrderSigning ----------------------------
(***************************************************************************)
(* Orders that the user signs in the browser                               *)
(* (prediction-markets/services/execution_service), placed with the money  *)
(* that VenueFunding brought to the venue.                                 *)
(*                                                                         *)
(* A signing session is completed by a request that claims it, records the *)
(* intent in a second store, posts the order to the venue and records what *)
(* became of it in three places: the live submission, the execution file   *)
(* and the session.  Any other request that meets the session meanwhile,   *)
(* or after the first one died, asks the venue about the order and records *)
(* the answer in the same three places.  A post may arrive after the       *)
(* request stopped waiting for it.                                         *)
(*                                                                         *)
(* Checks that end a request without a trace are covered by AbandonCall.   *)
(***************************************************************************)
EXTENDS VenueFunding

CONSTANTS
    Session,        \* order signing sessions, one order each
    Caller,         \* requests to complete a session or to see its status
    NoSession

ASSUME OrderAssumption == NoSession \notin Session

VARIABLES
    session,    \* order_signing_sessions rows
    live,       \* polymarket_live_submissions rows
    execution,  \* the last record of each execution in the execution file
    caller,     \* program counter and local variables of each request
    lapsed,     \* sessions past expires_at
    order,      \* the order of each session on its way to the venue
    posts       \* how often each order was posted

orders == <<session, live, execution, caller, lapsed, order, posts>>

Ended == {"submitted", "unknown", "failed"}
SessionRow ==
    [status : Ended \cup {"none", "pending_browser_signature", "submitting", "blocked", "expired"},
     execution : {"none", "uuid", "recovery"},   \* execution_id: random, or derived from the session
     funding : Operation \cup {NoOp},            \* funding_operation_id of the preview
     revision : Nat]
LiveRow ==
    [status : {"none", "intent_recorded", "submitting", "unknown", "submitted", "rejected"},
     revision : Nat]
Result == {"none", "submitted", "unknown", "rejected", "blocked"}

NewSession == [status |-> "none", execution |-> "none", funding |-> NoOp, revision |-> 0]
NoLive == [status |-> "none", revision |-> 0]
Resting == [pc |-> "idle", s |-> NoSession, seen |-> NewSession, row |-> NoLive, result |-> "none"]

OrderInit ==
    /\ session = [s \in Session |-> NewSession]
    /\ live = [s \in Session |-> NoLive]
    /\ execution = [s \in Session |-> [uuid |-> "none", recovery |-> "none"]]
    /\ caller = [k \in Caller |-> Resting]
    /\ lapsed = {}
    /\ order = [s \in Session |-> "none"]
    /\ posts = [s \in Session |-> 0]

Turn(k, c) == caller' = [caller EXCEPT ![k] = c]
Proceed(k, pc) == Turn(k, [caller[k] EXCEPT !.pc = pc])
Rest(k) == Turn(k, Resting)

-----------------------------------------------------------------------------
(* get_funding_readiness: the proof of a finalized funding operation. *)
FaultReady(o) == op[o].core_state \in {"settled", "finalized"}
Ready(o) == op[o].status = "finalized" /\ op[o].core_state = "finalized"

(* create_polymarket_order_signing_session *)
CreateSession(s, o) ==
    /\ session[s].status = "none"
    /\ \E status \in {"pending_browser_signature", "blocked"} :
          /\ status = "blocked" \/ Ready(o)
          /\ session' = [session EXCEPT ![s].status = status, ![s].funding = o]
    /\ UNCHANGED <<live, execution, caller, lapsed, order, posts>>

Lapse(s) ==
    /\ session[s].status # "none" /\ s \notin lapsed
    /\ lapsed' = lapsed \cup {s}
    /\ UNCHANGED <<session, live, execution, caller, order, posts>>

(* complete_polymarket_order_signing_session, or the browser's question     *)
(* for the status. *)
Receive(k, s) ==
    LET status == session[s].status IN
    /\ caller[k].pc = "idle"
    /\ status \in {"pending_browser_signature", "submitting", "unknown"}
    /\ Turn(k, [Resting EXCEPT !.s = s, !.seen = session[s],
           !.pc = IF status # "pending_browser_signature" THEN "reconcile"
                  ELSE IF s \in lapsed THEN "expire" ELSE "check"])
    /\ UNCHANGED <<session, live, execution, lapsed, order, posts>>

(* compare_and_set_terminal, claim_for_submission *)
Current(k, from) ==
    /\ session[caller[k].s].status \in from
    /\ session[caller[k].s].revision = caller[k].seen.revision
Replaceable(status) ==
    CASE status \in {"blocked", "expired"} -> {"pending_browser_signature"}
      [] status = "failed" -> {"pending_browser_signature", "submitting"}
      [] status = "submitted" -> {"submitting", "unknown"}
      [] OTHER -> {"submitting"}
Updated(k, status, id) ==
    [caller[k].seen EXCEPT !.status = status, !.execution = id, !.revision = @ + 1]

Terminate(k, status, id) ==
    /\ session' = IF Current(k, Replaceable(status))
                  THEN [session EXCEPT ![caller[k].s] = Updated(k, status, id)] ELSE session
    /\ Rest(k)
    /\ UNCHANGED <<live, execution, lapsed, order, posts>>

(* _block_order_signing_session and the other refusals before the claim. *)
Refuse(k) ==
    /\ caller[k].pc \in {"expire", "check"}
    /\ \E status \in {"expired", "blocked", "failed"} :
          /\ caller[k].pc = "expire" <=> status = "expired"
          /\ Terminate(k, status, "none")

ClaimSession(k) ==
    LET new == Updated(k, "submitting", "none") IN
    /\ caller[k].pc = "check"
    /\ Ready(caller[k].seen.funding)
    /\ IF Current(k, {"pending_browser_signature"})
       THEN /\ session' = [session EXCEPT ![caller[k].s] = new]
            /\ Turn(k, [caller[k] EXCEPT !.pc = "intent", !.seen = new])
       ELSE Rest(k) /\ UNCHANGED session
    /\ UNCHANGED <<live, execution, lapsed, order, posts>>

-----------------------------------------------------------------------------
(* The live submission, _compare_and_set. *)
SameLive(k, from) ==
    live[caller[k].s].status \in from /\ live[caller[k].s].revision = caller[k].row.revision
Recordable(status) == IF status = "submitted" THEN {"submitting", "unknown"} ELSE {"submitting"}
SetLive(k, status) ==
    live' = [live EXCEPT ![caller[k].s] =
                [status |-> status, revision |-> caller[k].row.revision + 1]]

(* create_submission_intent *)
RecordIntent(k) ==
    LET s == caller[k].s
        row == IF live[s] = NoLive THEN [status |-> "intent_recorded", revision |-> 0] ELSE live[s] IN
    /\ caller[k].pc = "intent"
    /\ \/ /\ live' = [live EXCEPT ![s] = row]
          /\ Turn(k, [caller[k] EXCEPT !.pc = "claim", !.row = row])
       \/ Proceed(k, "fail") /\ UNCHANGED live
    /\ UNCHANGED <<session, execution, lapsed, order, posts>>

(* claim_submission *)
ClaimLive(k) ==
    /\ caller[k].pc = "claim"
    /\ \/ IF SameLive(k, {"intent_recorded"})
          THEN /\ SetLive(k, "submitting")
               /\ Turn(k, [caller[k] EXCEPT !.pc = "post", !.row.revision = @ + 1])
          ELSE Proceed(k, "doubt") /\ UNCHANGED live
       \/ Proceed(k, "fail") /\ UNCHANGED live
    /\ UNCHANGED <<session, execution, lapsed, order, posts>>

FailUnsent(k) == caller[k].pc = "fail" /\ Terminate(k, "failed", "none")
Doubt(k) == caller[k].pc = "doubt" /\ Terminate(k, "unknown", "none")

(* submit_signed_order: sent, or stopped by the credentials. *)
Post(k) ==
    LET s == caller[k].s IN
    /\ caller[k].pc = "post"
    /\ \/ /\ order' = [order EXCEPT ![s] = IF @ = "none" THEN "sent" ELSE @]
          /\ posts' = [posts EXCEPT ![s] = @ + 1]
          /\ Proceed(k, "await")
       \/ /\ Turn(k, [caller[k] EXCEPT !.pc = "record", !.result = "blocked"])
          /\ UNCHANGED <<order, posts>>
    /\ UNCHANGED <<session, live, execution, lapsed>>

Venue(s) ==
    /\ order[s] = "sent"
    /\ \E end \in {"accepted", "refused", "lost"} : order' = [order EXCEPT ![s] = end]
    /\ UNCHANGED <<session, live, execution, caller, lapsed, posts>>

(* _is_definite_rejection: every other failure leaves the outcome open. *)
FaultVenueAnswer(s) == {"unknown"} \cup IF order[s] = "accepted" THEN {"submitted"} ELSE {"rejected"}
VenueAnswer(s) ==
    {"unknown"} \cup (IF order[s] = "accepted" THEN {"submitted"} ELSE {})
                \cup (IF order[s] = "refused" THEN {"rejected"} ELSE {})

Await(k) ==
    /\ caller[k].pc = "await"
    /\ \E result \in VenueAnswer(caller[k].s) :
          Turn(k, [caller[k] EXCEPT !.pc = "record", !.result = result])
    /\ UNCHANGED <<session, live, execution, lapsed, order, posts>>

(* record_submission_result, and what the row says if somebody else was     *)
(* there first. *)
LiveStatus(result) == IF result = "blocked" THEN "unknown" ELSE result

Record(k) ==
    LET status == LiveStatus(caller[k].result) IN
    /\ caller[k].pc = "record"
    /\ \/ SameLive(k, Recordable(status)) /\ SetLive(k, status) /\ Proceed(k, "save")
       \/ ~ SameLive(k, Recordable(status)) /\ Proceed(k, "compare") /\ UNCHANGED live
       \/ Proceed(k, "doubt") /\ UNCHANGED live
    /\ UNCHANGED <<session, execution, lapsed, order, posts>>

Compare(k) ==
    /\ caller[k].pc = "compare"
    /\ Proceed(k, IF live[caller[k].s].status = LiveStatus(caller[k].result)
                  THEN "save" ELSE "doubt")
    /\ UNCHANGED <<session, live, execution, lapsed, order, posts>>

(* _execution_from_signed_order_session, _save *)
Outcome(result) == IF result \in {"submitted", "unknown"} THEN result ELSE "failed"

SaveExecution(k) ==
    /\ caller[k].pc = "save"
    /\ execution' = [execution EXCEPT ![caller[k].s].uuid = Outcome(caller[k].result)]
    /\ Proceed(k, "finish")
    /\ UNCHANGED <<session, live, lapsed, order, posts>>

Finish(k) == caller[k].pc = "finish" /\ Terminate(k, Outcome(caller[k].result), "uuid")

-----------------------------------------------------------------------------
(* _reconcile_order_signing_session *)
ReadLive(k) ==
    LET s == caller[k].s IN
    /\ caller[k].pc = "reconcile"
    /\ live[s].status # "none"
    /\ Turn(k, [caller[k] EXCEPT !.pc = "query", !.row = live[s]])
    /\ UNCHANGED <<session, live, execution, lapsed, order, posts>>

(* reconcile_signed_order: the venue shows the order, or does not, or the   *)
(* credentials are no longer those of the session. *)
Query(k) ==
    /\ caller[k].pc = "query"
    /\ \E result \in {"submitted", "unknown", "blocked"} :
          /\ result = "submitted" => order[caller[k].s] = "accepted"
          /\ Turn(k, [caller[k] EXCEPT !.pc = "apply", !.result = result])
    /\ UNCHANGED <<session, live, execution, lapsed, order, posts>>

Target(result) == IF result = "blocked" THEN "rejected" ELSE result

FaultApply(k) ==
    LET told == Target(caller[k].result) IN
    /\ caller[k].pc = "apply"
    /\ IF told # caller[k].row.status /\ SameLive(k, Recordable(told))
       THEN SetLive(k, told) ELSE UNCHANGED live
    /\ IF caller[k].result = "submitted" THEN Proceed(k, "recover")
       ELSE IF caller[k].result = "unknown" THEN Proceed(k, "post") ELSE Rest(k)
    /\ UNCHANGED <<session, execution, lapsed, order, posts>>
Apply(k) ==
    LET told == Target(caller[k].result) IN
    /\ caller[k].pc = "apply"
    /\ IF told # caller[k].row.status /\ SameLive(k, Recordable(told))
       THEN SetLive(k, told) ELSE UNCHANGED live
    /\ IF caller[k].result = "submitted" THEN Proceed(k, "recover") ELSE Rest(k)
    /\ UNCHANGED <<session, execution, lapsed, order, posts>>

(* The execution that the session names, or one derived from the session. *)
Recovered(k) == IF caller[k].seen.execution = "none" THEN "recovery" ELSE caller[k].seen.execution

RecoverExecution(k) ==
    /\ caller[k].pc = "recover"
    /\ execution' = [execution EXCEPT ![caller[k].s][Recovered(k)] = "submitted"]
    /\ Proceed(k, "restore")
    /\ UNCHANGED <<session, live, lapsed, order, posts>>

RecoverSession(k) == caller[k].pc = "restore" /\ Terminate(k, "submitted", Recovered(k))

(* A request fails, or dies with its process. *)
AbandonCall(k) ==
    /\ caller[k].pc # "idle"
    /\ Rest(k)
    /\ UNCHANGED <<session, live, execution, lapsed, order, posts>>

Complete(k) ==
    \/ \E s \in Session : Receive(k, s)
    \/ Refuse(k) \/ ClaimSession(k) \/ RecordIntent(k) \/ ClaimLive(k) \/ FailUnsent(k)
    \/ Doubt(k) \/ Post(k) \/ Await(k) \/ Record(k) \/ Compare(k) \/ SaveExecution(k)
    \/ Finish(k) \/ ReadLive(k) \/ Query(k) \/ Apply(k) \/ RecoverExecution(k)
    \/ RecoverSession(k) \/ AbandonCall(k)

OrderNext ==
    \/ \E s \in Session : Lapse(s) \/ Venue(s) \/ \E o \in Operation : CreateSession(s, o)
    \/ \E k \in Caller : Complete(k)

(* Funding and trading side by side. *)
TradingNext ==
    \/ Next /\ UNCHANGED orders
    \/ OrderNext /\ UNCHANGED vars

TradingInit == Init /\ OrderInit
TradingSpec == TradingInit /\ [][TradingNext]_<<vars, orders>>

-----------------------------------------------------------------------------
CallerState ==
    [pc : {"idle", "expire", "check", "intent", "claim", "fail", "doubt", "post", "await",
           "record", "compare", "save", "finish", "reconcile", "query", "apply", "recover",
           "restore"},
     s : Session \cup {NoSession}, seen : SessionRow, row : LiveRow, result : Result]

(* The type of every variable of the orders. *)
OrderTypeOK ==
    /\ session \in [Session -> SessionRow]
    /\ live \in [Session -> LiveRow]
    /\ execution \in [Session -> [uuid : Ended \cup {"none"}, recovery : Ended \cup {"none"}]]
    /\ caller \in [Caller -> CallerState]
    /\ lapsed \subseteq Session
    /\ order \in [Session -> {"none", "sent", "accepted", "refused", "lost"}]
    /\ posts \in [Session -> Nat]

(* An order is posted at most once: the request that claimed the session    *)
(* posts it or nobody does, and recovery only asks. *)
PostedOnce == \A s \in Session : posts[s] <= 1

(* What the user is told of an order agrees with the venue, whichever       *)
(* request told it: a submitted order is there, and one that failed, was    *)
(* blocked or expired is not, is not on its way and will not be sent.       *)
OutcomeMatchesVenue == \A s \in Session :
    /\ session[s].status = "submitted" => order[s] = "accepted"
    /\ session[s].status \in {"blocked", "expired", "failed"} =>
          /\ order[s] \notin {"sent", "accepted"}
          /\ \A k \in Caller : caller[k].s = s => caller[k].pc \notin {"intent", "claim", "post"}

(* The execution that a submitted session names is in the execution file,   *)
(* and its last record says submitted, although the file is written before  *)
(* the session and by requests that lose the session to each other. *)
SubmittedHasExecution == \A s \in Session :
    session[s].status = "submitted" =>
        session[s].execution # "none" /\ execution[s][session[s].execution] = "submitted"

(* An order leaves for the venue only when the transfer of its own funding  *)
(* operation was completed by the bridge and booked by Core. *)
FundedOrder == \A s \in Session :
    order[s] # "none" =>
        LET o == session[s].funding IN
        money[o] = "moved" /\ bridge[o] = "COMPLETED" /\ core[o].state = "finalized"
=============================================================================
