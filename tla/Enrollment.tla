----------------------------- MODULE Enrollment -----------------------------
(***************************************************************************)
(* How a node gets, rotates and gives up the credential it presents to the *)
(* Facilitator: the node's side (hosted_enrollment.py), which keeps one    *)
(* bundle in a secret store and may die or stop waiting at any point, and  *)
(* the Facilitator's side (app.py, enrollment.py, repository.py), whose    *)
(* requests are authenticated in one transaction and carried out in        *)
(* another.  The two meet the pilot gate: a request to pay is taken only   *)
(* from a node that is registered.                                         *)
(*                                                                         *)
(* A device key, its access token and the ids of the rotation that brings  *)
(* it in and of the revocation that ends it are one value, a Key; keys are *)
(* numbered in the order in which they are made.  (A second revocation id  *)
(* for the same key is made only when the first was never sent.)  A node   *)
(* is named by the invite that creates it.                                 *)
(***************************************************************************)
EXTENDS PilotGate

CONSTANTS
    Client,   \* installations with a secret store each
    MaxKeys,  \* bound on the credentials that are made
    Earlier,  \* number of those that exist when we begin to look
    Member,   \* the node each client is enrolled as when we begin to look
    FirstKey, \* and its credential
    NoNode, NoKey, NoBundle, NoRequest, NoRotation

Key == 1..MaxKeys

ASSUME EnrollmentAssumption ==
    /\ MaxKeys \in Nat
    /\ Earlier \in 0..MaxKeys
    /\ Member \in [Client -> Node \cup {NoNode}]
    /\ FirstKey \in [Client -> (1..Earlier) \cup {NoKey}]
    /\ \A c \in Client : (Member[c] = NoNode) <=> (FirstKey[c] = NoKey)
    /\ \A c, d \in Client :
          c # d /\ Member[c] # NoNode =>
             Member[c] # Member[d] /\ FirstKey[c] # FirstKey[d]
    /\ NoNode \notin Node /\ NoKey \notin Key

VARIABLES
    invited,  \* invites that have not expired
    node,     \* the hosted_node_registrations table
    rotation, \* the hosted_node_rotations table, by the key it introduces
    retired,  \* the hosted_retired_credentials table
    bundle,   \* each client's secret store
    awaited,  \* the request each client waits for
    late,     \* requests that nobody waits for and that may still arrive
    made      \* number of the last key that was generated

serverVars == <<invited, node, rotation, retired>>
clientVars == <<bundle, awaited, late, made>>
enrollVars == <<serverVars, clientVars>>

Registration == [key : Key, epoch : Nat, status : {"active", "revoked"}]

Rotation == [node : Node, epoch : Nat, status : {"prepared", "committed"}]

Bundle ==
    [state : {"enrollment_pending", "active", "rotation_pending", "revocation_pending"},
     node : Node, epoch : Nat, key : Key, pending : Key \cup {NoKey},
     prepared : BOOLEAN]

(* key authenticates the request, next is the one it introduces; expected  *)
(* is the epoch of the registration that the client knows.                 *)
Request ==
    [kind : {"enroll", "prepare", "commit", "revoke"}, node : Node,
     expected : Nat, key : Key, next : Key]

Late == [request : Request, authenticated : BOOLEAN]

Awaited ==
    [request : Request, stage : {"sent", "authenticated", "accepted"},
     revoking : BOOLEAN]

ASSUME AbsentAssumption ==
    /\ NoNode \notin Registration
    /\ NoRotation \notin Rotation
    /\ NoBundle \notin Bundle
    /\ NoRequest \notin Awaited

ActiveBundle(n, epoch, k) ==
    [state |-> "active", node |-> n, epoch |-> epoch, key |-> k,
     pending |-> NoKey, prepared |-> FALSE]

EnrollInit ==
    /\ invited = Node \ {Member[c] : c \in Client}
    /\ node = [n \in Node |->
                  IF \E c \in Client : Member[c] = n
                  THEN [key |-> FirstKey[CHOOSE c \in Client : Member[c] = n],
                        epoch |-> 1, status |-> "active"]
                  ELSE NoNode]
    /\ rotation = [k \in Key |-> NoRotation]
    /\ retired = {}
    /\ bundle = [c \in Client |->
                    IF Member[c] = NoNode THEN NoBundle
                    ELSE ActiveBundle(Member[c], 1, FirstKey[c])]
    /\ awaited = [c \in Client |-> NoRequest]
    /\ late = {}
    /\ made = Earlier

-----------------------------------------------------------------------------
(* What the Facilitator checks. *)

Active(n) == node[n] # NoNode /\ node[n].status = "active"

(* get_node_by_access_digest: an active registration has this key. *)
Holds(n, k) == Active(n) /\ node[n].key = k

(* get_pending_rotation_by_access_digest. *)
Prepared(n, k) ==
    rotation[k] # NoRotation /\ rotation[k].node = n /\ rotation[k].status = "prepared"

(* get_revoked_node_by_access_digest. *)
RevokedBy(m) ==
    /\ node[m.node] # NoNode
    /\ node[m.node] = [key |-> m.key, epoch |-> m.expected + 1, status |-> "revoked"]

(* authenticate, authenticate_commit and authenticate_revocation.  An      *)
(* enrollment has only its invite.                                         *)
Authenticates(m) ==
    \/ m.kind = "enroll"
    \/ m.kind = "prepare" /\ Holds(m.node, m.key) /\ node[m.node].epoch = m.expected
    \/ /\ m.kind = "commit"
       /\ \/ Prepared(m.node, m.key) /\ Active(m.node)
          \/ Holds(m.node, m.key) /\ node[m.node].epoch = m.expected + 1
    \/ m.kind = "revoke" /\ (Holds(m.node, m.key) \/ RevokedBy(m))

(* enroll_node: an invite is spent once; afterwards the same request, and  *)
(* no other, finds the registration as it made it.                         *)
AcceptsEnroll(m) ==
    \/ /\ node[m.node] = NoNode
       /\ m.node \in invited
       /\ m.key \notin retired
    \/ Holds(m.node, m.key) /\ node[m.node].epoch = 1

(* A rotation that was prepared once is refused when it is asked for again. *)
FaultPrepareOnce(m) ==
    /\ rotation[m.next] = NoRotation
    /\ Active(m.node)
    /\ node[m.node].epoch = m.expected

(* prepare_rotation: one rotation for an epoch, asked for any number of    *)
(* times until it is committed.                                            *)
AcceptsPrepare(m) ==
    IF rotation[m.next] # NoRotation
    THEN rotation[m.next] = [node |-> m.node, epoch |-> m.expected, status |-> "prepared"]
    ELSE /\ Active(m.node)
         /\ node[m.node].epoch = m.expected
         /\ \A k \in Key : rotation[k] # NoRotation =>
               ~(rotation[k].node = m.node /\ rotation[k].epoch = m.expected)

(* commit_rotation, of the service and of the repository. *)
IsCommitted(m) ==
    /\ rotation[m.next].status = "committed"
    /\ Holds(m.node, m.next)
    /\ node[m.node].epoch = m.expected + 1

CanCommit(m) ==
    /\ rotation[m.next].status = "prepared"
    /\ Active(m.node)
    /\ node[m.node].epoch = m.expected
    /\ m.next \notin retired
    /\ \A n \in Node : node[n] # NoNode => node[n].key # m.next

AcceptsCommit(m) ==
    /\ rotation[m.next] # NoRotation
    /\ rotation[m.next].node = m.node
    /\ rotation[m.next].epoch = m.expected
    /\ IsCommitted(m) \/ CanCommit(m)

(* revoke, of the service and of the repository. *)
AcceptsRevoke(m) ==
    \/ RevokedBy(m)
    \/ Holds(m.node, m.key) /\ node[m.node].epoch = m.expected

Accepts(m) ==
    \/ m.kind = "enroll" /\ AcceptsEnroll(m)
    \/ m.kind = "prepare" /\ AcceptsPrepare(m)
    \/ m.kind = "commit" /\ AcceptsCommit(m)
    \/ m.kind = "revoke" /\ AcceptsRevoke(m)

-----------------------------------------------------------------------------
(* What the Facilitator writes when it accepts a request. *)

Registers(n, k, epoch, status) ==
    node' = [node EXCEPT ![n] = [key |-> k, epoch |-> epoch, status |-> status]]

EnrollNode(m) ==
    /\ m.kind = "enroll"
    /\ Registers(m.node, m.key, 1, "active")
    /\ UNCHANGED <<invited, rotation, retired>>

PrepareRotation(m) ==
    /\ m.kind = "prepare"
    /\ rotation' = [rotation EXCEPT ![m.next] =
                      [node |-> m.node, epoch |-> m.expected, status |-> "prepared"]]
    /\ UNCHANGED <<invited, node, retired>>

CommitRotation(m) ==
    /\ m.kind = "commit"
    /\ rotation' = [rotation EXCEPT ![m.next].status = "committed"]
    /\ retired' = IF IsCommitted(m) THEN retired ELSE retired \cup {node[m.node].key}
    /\ Registers(m.node, m.next, m.expected + 1, "active")
    /\ UNCHANGED invited

RevokeNode(m) ==
    /\ m.kind = "revoke"
    /\ retired' = retired \cup {m.key}
    /\ Registers(m.node, m.key, m.expected + 1, "revoked")
    /\ UNCHANGED <<invited, rotation>>

CarriesOut(m) ==
    /\ Accepts(m)
    /\ EnrollNode(m) \/ PrepareRotation(m) \/ CommitRotation(m) \/ RevokeNode(m)

(* An invite that was not used in time. *)
Expire(n) ==
    /\ n \in invited
    /\ invited' = invited \ {n}
    /\ UNCHANGED <<node, rotation, retired, clientVars>>

(* A request that a client waits for is authenticated, then carried out;   *)
(* a refusal ends the client's command and leaves its bundle alone.        *)
Stage(c, stage) == awaited' = [awaited EXCEPT ![c].stage = stage]
Refuse(c) == awaited' = [awaited EXCEPT ![c] = NoRequest]

Authenticate(c) ==
    /\ awaited[c] # NoRequest
    /\ awaited[c].stage = "sent"
    /\ \/ Authenticates(awaited[c].request) /\ Stage(c, "authenticated")
       \/ ~Authenticates(awaited[c].request) /\ Refuse(c)
    /\ UNCHANGED <<serverVars, bundle, late, made>>

Serve(c) ==
    /\ awaited[c] # NoRequest
    /\ awaited[c].stage = "authenticated"
    /\ \/ CarriesOut(awaited[c].request) /\ Stage(c, "accepted")
       \/ ~Accepts(awaited[c].request) /\ Refuse(c) /\ UNCHANGED serverVars
    /\ UNCHANGED <<bundle, late, made>>

(* So is one that nobody waits for any more, however late, and again: its  *)
(* client may have sent it any number of times.                            *)
AuthenticateLate(l) ==
    /\ ~l.authenticated
    /\ Authenticates(l.request)
    /\ late' = late \cup {[l EXCEPT !.authenticated = TRUE]}
    /\ UNCHANGED <<serverVars, bundle, awaited, made>>

ServeLate(l) ==
    /\ l.authenticated
    /\ CarriesOut(l.request)
    /\ UNCHANGED clientVars

-----------------------------------------------------------------------------
(* The node's commands; each holds the mutation lock until it ends. *)

(* The request that a client's bundle calls for. *)
Resumes(b) ==
    LET ask(kind, key, next) ==
          [kind |-> kind, node |-> b.node, expected |-> b.epoch, key |-> key, next |-> next]
    IN  CASE b.state = "enrollment_pending" -> ask("enroll", b.key, b.key)
          [] b.state = "rotation_pending" /\ ~b.prepared -> ask("prepare", b.key, b.pending)
          [] b.state = "rotation_pending" /\ b.prepared -> ask("commit", b.pending, b.pending)
          [] OTHER -> ask("revoke", b.key, b.key)

(* _save, and then the request is sent. *)
SaveAndSend(c, b, revoking) ==
    /\ bundle' = [bundle EXCEPT ![c] = b]
    /\ awaited' = [awaited EXCEPT ![c] =
                     [request |-> Resumes(b), stage |-> "sent", revoking |-> revoking]]

(* _save or delete, and the command ends. *)
SaveAndEnd(c, b) ==
    /\ bundle' = [bundle EXCEPT ![c] = b]
    /\ awaited' = [awaited EXCEPT ![c] = NoRequest]

Free(c) == awaited[c] = NoRequest
InBundle(c, state) == bundle[c] # NoBundle /\ bundle[c].state = state

NewKey == made < MaxKeys /\ made' = made + 1

(* enroll, with a new key or, after a failure, with the stored one. *)
Enroll(c, n) ==
    /\ Free(c)
    /\ bundle[c] = NoBundle
    /\ NewKey
    /\ SaveAndSend(c, [ActiveBundle(n, 0, made') EXCEPT !.state = "enrollment_pending"], FALSE)
    /\ UNCHANGED <<serverVars, late>>

EnrollAgain(c) ==
    /\ Free(c)
    /\ InBundle(c, "enrollment_pending")
    /\ SaveAndSend(c, bundle[c], FALSE)
    /\ UNCHANGED <<serverVars, late, made>>

(* The new key is not saved before it is sent. *)
FaultRotate(c) ==
    /\ Free(c)
    /\ InBundle(c, "active")
    /\ NewKey
    /\ awaited' = [awaited EXCEPT ![c] =
          [request |-> Resumes([bundle[c] EXCEPT !.state = "rotation_pending", !.pending = made']),
           stage |-> "sent", revoking |-> FALSE]]
    /\ UNCHANGED <<serverVars, bundle, late>>

Rotate(c) ==
    /\ Free(c)
    /\ InBundle(c, "active")
    /\ NewKey
    /\ SaveAndSend(c, [bundle[c] EXCEPT !.state = "rotation_pending", !.pending = made'], FALSE)
    /\ UNCHANGED <<serverVars, late>>

(* resume_rotation, or revoke, which finishes the rotation first. *)
ResumeRotation(c, revoking) ==
    /\ Free(c)
    /\ InBundle(c, "rotation_pending")
    /\ SaveAndSend(c, bundle[c], revoking)
    /\ UNCHANGED <<serverVars, late, made>>

Revoke(c) ==
    /\ Free(c)
    /\ InBundle(c, "active")
    /\ SaveAndSend(c, [bundle[c] EXCEPT !.state = "revocation_pending"], TRUE)
    /\ UNCHANGED <<serverVars, late, made>>

ResumeRevocation(c) ==
    /\ Free(c)
    /\ InBundle(c, "revocation_pending")
    /\ SaveAndSend(c, bundle[c], TRUE)
    /\ UNCHANGED <<serverVars, late, made>>

-----------------------------------------------------------------------------
(* Answers. *)

Answered(c, kind) ==
    /\ awaited[c] # NoRequest
    /\ awaited[c].stage = "accepted"
    /\ awaited[c].request.kind = kind

EnrollAnswered(c) ==
    /\ Answered(c, "enroll")
    /\ SaveAndEnd(c, [bundle[c] EXCEPT !.state = "active", !.epoch = 1])
    /\ UNCHANGED <<serverVars, late, made>>

PrepareAnswered(c) ==
    /\ Answered(c, "prepare")
    /\ SaveAndSend(c, [bundle[c] EXCEPT !.prepared = TRUE], awaited[c].revoking)
    /\ UNCHANGED <<serverVars, late, made>>

(* revoke goes on with the new generation, and comes back to it when its   *)
(* request could not be sent at all.                                       *)
CommitAnswered(c) ==
    LET b == ActiveBundle(bundle[c].node, bundle[c].epoch + 1, bundle[c].pending)
    IN  /\ Answered(c, "commit")
        /\ \/ SaveAndEnd(c, b)
           \/ awaited[c].revoking
              /\ SaveAndSend(c, [b EXCEPT !.state = "revocation_pending"], TRUE)
        /\ UNCHANGED <<serverVars, late, made>>

RevokeAnswered(c) ==
    /\ Answered(c, "revoke")
    /\ SaveAndEnd(c, NoBundle)
    /\ UNCHANGED <<serverVars, late, made>>

(* The client times out or its process dies.  What was saved stays, and a  *)
(* request under way stays under way.                                      *)
GiveUp(c) ==
    /\ awaited[c] # NoRequest
    /\ awaited' = [awaited EXCEPT ![c] = NoRequest]
    /\ late' = IF awaited[c].stage = "accepted" THEN late
               ELSE late \cup {[request |-> awaited[c].request,
                                authenticated |-> awaited[c].stage = "authenticated"]}
    /\ UNCHANGED <<serverVars, bundle, made>>

Command(c) ==
    \/ \E n \in Node : Enroll(c, n)
    \/ EnrollAgain(c)
    \/ Rotate(c)
    \/ \E revoking \in BOOLEAN : ResumeRotation(c, revoking)
    \/ Revoke(c)
    \/ ResumeRevocation(c)

Continue(c) ==
    \/ EnrollAnswered(c) \/ PrepareAnswered(c) \/ CommitAnswered(c) \/ RevokeAnswered(c)
    \/ GiveUp(c)

EnrollNext ==
    \/ \E c \in Client : Command(c) \/ Continue(c) \/ Authenticate(c) \/ Serve(c)
    \/ \E l \in late : AuthenticateLate(l) \/ ServeLate(l)
    \/ \E n \in Node : Expire(n)

(* execute_payment authenticates the node before anything else; what it    *)
(* started goes on whatever becomes of the node.                           *)
Begins(w) ==
    worker[w].pc = "idle" /\ worker'[w].pc \in {"allocate", "claim_signing", "claim_submission"}

HostedRequests ==
    /\ Next
    /\ \A w \in Worker : Begins(w) => Active(NodeOf[worker'[w].job])
    /\ UNCHANGED enrollVars

FacilitatorInit == Init /\ EnrollInit

FacilitatorNext ==
    \/ HostedRequests
    \/ EnrollNext /\ UNCHANGED vars

FacilitatorSpec == FacilitatorInit /\ [][FacilitatorNext]_<<vars, enrollVars>>

-----------------------------------------------------------------------------
(* The values of the Facilitator's tables and of the secret stores. *)
EnrollTypeOK ==
    /\ invited \subseteq Node
    /\ node \in [Node -> Registration \cup {NoNode}]
    /\ rotation \in [Key -> Rotation \cup {NoRotation}]
    /\ retired \subseteq Key
    /\ bundle \in [Client -> Bundle \cup {NoBundle}]
    /\ awaited \in [Client -> Awaited \cup {NoRequest}]
    /\ late \subseteq Late
    /\ made \in 0..MaxKeys

(* Wherever a command died, whatever was lost or arrives late: the request *)
(* that resuming it sends is one the Facilitator authenticates and accepts *)
(* (resume_rotation, resume_revocation), and a client at rest holds the    *)
(* credential its node is registered with.  Only an enrollment can fail    *)
(* for good, when its invite expired or went to somebody else.             *)
ResumeIsAccepted ==
    \A c \in Client :
        bundle[c] # NoBundle =>
            IF bundle[c].state = "enrollment_pending"
            THEN node[bundle[c].node] # NoNode /\ node[bundle[c].node].key = bundle[c].key
                    => Accepts(Resumes(bundle[c]))
            ELSE Authenticates(Resumes(bundle[c])) /\ Accepts(Resumes(bundle[c]))

(* No credential the Facilitator accepts, or would accept a rotation to,   *)
(* is lost: some client still has it, so that it can be rotated away or    *)
(* revoked.  None of them was retired.                                     *)
AcceptedIsHeld ==
    \A n \in Node, k \in Key :
        Holds(n, k) \/ (Prepared(n, k) /\ Active(n)) =>
            /\ k \notin retired
            /\ \E c \in Client :
                  /\ bundle[c] # NoBundle
                  /\ bundle[c].node = n
                  /\ k \in {bundle[c].key, bundle[c].pending}
=============================================================================
