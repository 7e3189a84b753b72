--------------------------- MODULE PolicyControl ---------------------------
(***************************************************************************)
(* One policy on its way from the controller's database to the derper of   *)
(* one node and back as acknowledgements: AcknowledgePolicy and the        *)
(* operations on the node's row (internal/control/control_stream.go,       *)
(* resources.go, nodes.go, node_self.go), the node's control loop          *)
(* (internal/cluster/client.go) and the daemon's Leave                     *)
(* (internal/daemon/local_cluster.go).                                     *)
(*                                                                         *)
(* The parts that other modules open up are closed here: the stream of     *)
(* ControlStream delivers revisions in order until it ends, the files of   *)
(* PolicyCache are the register of PolicyRegister with one bit that says   *)
(* whether the snapshot loads, and challenges, leases and instances are    *)
(* one exchange that mints a session.  A request can be processed long     *)
(* after its sender has given up, or never.                                *)
(***************************************************************************)
EXTENDS Naturals, Sequences

CONSTANTS
  MaxRevision,  \* bound: policy revisions
  MaxSessions,  \* bound: session tokens minted
  MaxInbox,     \* bound: policies in the connection
  MaxFaults     \* bound: crashes, disk errors, timeouts and lost connections

ASSUME BoundsAssumption ==
  /\ MaxRevision \in Nat \ {0}
  /\ MaxSessions \in Nat \ {0}
  /\ MaxInbox \in Nat \ {0}
  /\ MaxFaults \in Nat

VARIABLES
  nodeState,  \* nodes.state; "registered" stands for ready and offline too
  enabled,    \* nodes.enabled
  policy,     \* node_policies: desired_revision and whether there are grants
  received,   \* node_policies.received_revision
  applied,    \* node_policies.applied_revision
  failed,     \* a policy_apply_failed event is open
  removal,    \* the removal that has looked for the stream and not yet committed
  session,    \* the token of node_sessions, 0 when there is none
  minted,     \* tokens minted so far
  stream,     \* the token of the registered stream's request, 0 when there is none
  joining,    \* the token of a handler that has yet to register, 0 when there is none
  sent,       \* the revision the stream sent last, 0 before the first
  inbox,      \* policies in the connection
  wire,       \* requests on their way to the controller
  myToken,    \* the node's registration: its session token, 0 when it has none
  pc,         \* the node's control loop
  hand,       \* the policy it is working on
  post,       \* the request it waits for
  reply,      \* what has come back: "none", "ok" or "refused"
  receiveErr, \* the confirmation of receipt failed
  status,     \* controlStatus.AppliedRevision
  held,       \* the watermark's policy
  loadable,   \* the snapshot carries the watermark's digest
  notice,     \* the policy named in the derper's socket
  running,    \* the policy the derper enforces
  faults      \* faults so far

row == <<nodeState, enabled, policy, received, applied, failed, removal>>
tokens == <<session, minted>>
link == <<stream, joining, sent, inbox>>
client == <<pc, hand, post, reply, receiveErr, status>>
host == <<held, loadable, notice, running>>
vars == <<nodeState, enabled, policy, received, applied, failed, removal, session, minted,
          stream, joining, sent, inbox, wire, myToken, pc, hand, post, reply, receiveErr, status, held,
          loadable, notice, running, faults>>

Revisions == 0..MaxRevision
Tokens == 0..MaxSessions
Policies == [rev : 1..MaxRevision, grants : BOOLEAN]
NoPolicy == [rev |-> 0, grants |-> FALSE]
MaybePolicy == Policies \cup {NoPolicy}

\* Requests: an acknowledgement of a revision, or "leave".
Requests == [state : {"received", "applied", "nack", "leave"}, rev : Revisions, token : Tokens]
NoRequest == [state |-> "leave", rev |-> 0, token |-> 0]

\* "off": not connected; "scan": waiting for a message; "save": SaveCache is next;
\* "received": the receipt is posted; "apply": ApplyPolicy is next; "ack": the
\* outcome is posted; "left": Leave has cleared the registration.
Places == {"off", "scan", "save", "received", "apply", "ack", "left"}

\* No removal, or one that has found the stream in the table or has not.
Removals == {"none", "connected", "absent"}

TypeOK ==
  /\ nodeState \in {"pending", "registered", "domain_pending", "deleted"}
  /\ enabled \in BOOLEAN
  /\ policy \in MaybePolicy
  /\ received \in Revisions
  /\ applied \in Revisions
  /\ failed \in BOOLEAN
  /\ removal \in Removals
  /\ session \in Tokens
  /\ minted \in Tokens
  /\ stream \in Tokens
  /\ joining \in Tokens
  /\ sent \in Revisions
  /\ inbox \in Seq(Policies) /\ Len(inbox) <= MaxInbox
  /\ wire \subseteq Requests
  /\ myToken \in Tokens
  /\ pc \in Places
  /\ hand \in MaybePolicy
  /\ post \in Requests
  /\ reply \in {"none", "ok", "refused"}
  /\ receiveErr \in BOOLEAN
  /\ status \in Revisions
  /\ held \in MaybePolicy
  /\ loadable \in BOOLEAN
  /\ notice \in MaybePolicy
  /\ running \in MaybePolicy
  /\ faults \in 0..MaxFaults

\* The node has enrolled; its first policy waits in the database.
Init ==
  /\ nodeState = "registered"
  /\ enabled = TRUE
  /\ policy = [rev |-> 1, grants |-> FALSE]
  /\ received = 0
  /\ applied = 0
  /\ failed = FALSE
  /\ removal = "none"
  /\ session = 1
  /\ minted = 1
  /\ stream = 0
  /\ joining = 0
  /\ sent = 0
  /\ inbox = <<>>
  /\ wire = {}
  /\ myToken = 1
  /\ pc = "off"
  /\ hand = NoPolicy
  /\ post = NoRequest
  /\ reply = "none"
  /\ receiveErr = FALSE
  /\ status = 0
  /\ held = NoPolicy
  /\ loadable = FALSE
  /\ notice = NoPolicy
  /\ running = NoPolicy
  /\ faults = 0

\* The database has one connection, which a transaction keeps until its end.
DatabaseFree == removal = "none"

Fault == faults < MaxFaults /\ faults' = faults + 1

-----------------------------------------------------------------------------
(* The controller: operations on the node *)

\* A changed policy gets the next revision, an unchanged one keeps its own.
Rebuilt(grants) ==
  IF policy.grants \/ grants THEN [rev |-> policy.rev + 1, grants |-> grants] ELSE policy

CanRevise == policy.rev < MaxRevision

\* A change of grants, identities, QoS or retention, or a heartbeat, which moves
\* the deadlines of every grant.
ChangePolicy(grants) ==
  /\ DatabaseFree /\ nodeState = "registered" /\ CanRevise
  /\ grants => enabled
  /\ policy' = [rev |-> policy.rev + 1, grants |-> grants]
  /\ UNCHANGED <<nodeState, enabled, received, applied, failed, removal, tokens, link, wire, myToken,
                 client, host, faults>>

\* SetNodeEnabled: a pending node's policy is not rebuilt.
SetNodeEnabled(on, grants) ==
  /\ DatabaseFree /\ nodeState # "deleted" /\ CanRevise
  /\ on => nodeState # "domain_pending"
  /\ grants => on /\ nodeState = "registered"
  /\ enabled' = on
  /\ policy' = IF nodeState = "pending" THEN policy ELSE Rebuilt(grants)
  /\ UNCHANGED <<nodeState, received, applied, failed, removal, tokens, link, wire, myToken, client,
                 host, faults>>

\* Fault: receipt of the newest policy counts as its application.
Drained_Received ==
  /\ ~enabled
  /\ stream # 0 => received = policy.rev

\* What DeleteNode and ChangeNodeDomain ask of a node that has enrolled: it is
\* paused, and if its stream is open it has applied the newest policy.
Drained ==
  /\ ~enabled
  /\ stream # 0 => applied = policy.rev

\* DeleteNode or ChangeNodeDomain looks for the stream and lets policyMu go; its
\* transaction stays open.
LookForStream ==
  /\ DatabaseFree
  /\ nodeState \in {"registered", "domain_pending"}
  /\ Drained
  /\ removal' = IF stream # 0 THEN "connected" ELSE "absent"
  /\ UNCHANGED <<nodeState, enabled, policy, received, applied, failed, tokens, link, wire,
                 myToken, client, host, faults>>

\* The rest of DeleteNode, which does not look for the stream of a pending node.
DeleteNode ==
  /\ ~DatabaseFree \/ nodeState = "pending"
  /\ nodeState' = "deleted"
  /\ session' = 0
  /\ removal' = "none"
  /\ UNCHANGED <<enabled, policy, received, applied, failed, minted, link, wire, myToken,
                 client, host, faults>>

\* The rest of ChangeNodeDomain.
ChangeNodeDomain ==
  /\ ~DatabaseFree
  /\ nodeState' = "domain_pending"
  /\ session' = 0
  /\ removal' = "none"
  /\ UNCHANGED <<enabled, policy, received, applied, failed, minted, link, wire, myToken,
                 client, host, faults>>

\* A statement of either fails after the look, or its commit does.
RemovalFails ==
  /\ ~DatabaseFree
  /\ Fault
  /\ removal' = "none"
  /\ UNCHANGED <<nodeState, enabled, policy, received, applied, failed, tokens, link, wire,
                 myToken, client, host>>

\* releaseNode and closeNodeStream.
Released ==
  /\ nodeState' = "pending"
  /\ policy' = [rev |-> policy.rev + 1, grants |-> FALSE]
  /\ received' = 0
  /\ applied' = 0
  /\ session' = 0
  /\ stream' = 0
  /\ sent' = 0

\* IssueEnrollment for a node that has enrolled.
IssueEnrollment ==
  /\ DatabaseFree /\ nodeState \in {"registered", "domain_pending"} /\ CanRevise
  /\ Released
  /\ UNCHANGED <<enabled, failed, removal, minted, joining, inbox, wire, myToken, client, host, faults>>

-----------------------------------------------------------------------------
(* The controller: requests of the node *)

\* A request leaves the wire, and its answer reaches the node if that still waits
\* for it and the answer is not lost.
Answer(a, outcome) ==
  /\ wire' = wire \ {a}
  /\ \/ /\ reply' = IF post = a /\ reply = "none" THEN outcome ELSE reply
        /\ UNCHANGED faults
     \/ post = a /\ UNCHANGED reply /\ Fault

Authenticated(a) == a.token # 0 /\ a.token = session /\ nodeState = "registered"

\* Fault: a receipt of an older revision overwrites a newer one.
Acceptable_StaleReceipt(a) ==
  /\ a.rev <= policy.rev
  /\ a.state = "applied" => a.rev <= received /\ a.rev >= applied
  /\ a.state = "nack" => a.rev > applied /\ a.rev >= received

\* What AcknowledgePolicy accepts from an authenticated node.
Acceptable(a) ==
  /\ a.rev <= policy.rev
  /\ a.state = "received" => a.rev >= received
  /\ a.state = "applied" => a.rev <= received /\ a.rev >= applied
  /\ a.state = "nack" => a.rev > applied /\ a.rev >= received

AcknowledgePolicy(a) ==
  /\ DatabaseFree /\ a \in wire /\ a.state # "leave"
  /\ Authenticated(a) /\ Acceptable(a)
  /\ received' = IF a.state = "received" THEN a.rev ELSE received
  /\ applied' = IF a.state = "applied" THEN a.rev ELSE applied
  /\ failed' = CASE a.state = "applied" -> FALSE
                 [] a.state = "nack" -> TRUE
                 [] OTHER -> failed
  /\ Answer(a, "ok")
  /\ UNCHANGED <<nodeState, enabled, policy, removal, tokens, link, myToken, pc, hand, post, receiveErr,
                 status, host>>

\* ReleaseNode.
ReleaseNode(a) ==
  /\ DatabaseFree /\ a \in wire /\ a.state = "leave"
  /\ Authenticated(a) /\ CanRevise
  /\ Released
  /\ wire' = wire \ {a}
  /\ UNCHANGED <<enabled, failed, removal, minted, joining, inbox, myToken, client, host, faults>>

Refuse(a) ==
  /\ DatabaseFree /\ a \in wire
  /\ ~Authenticated(a) \/ (a.state # "leave" /\ ~Acceptable(a))
  /\ Answer(a, "refused")
  /\ UNCHANGED <<row, tokens, link, myToken, pc, hand, post, receiveErr, status, host>>

LoseRequest(a) ==
  /\ a \in wire
  /\ wire' = wire \ {a}
  /\ Fault
  /\ UNCHANGED <<row, tokens, link, myToken, client, host>>

\* RenewNodeSession, called by a node that is not connected: a new token, which the
\* node misses if the response is lost.
RenewSession ==
  /\ DatabaseFree /\ pc = "off" /\ myToken # 0
  /\ nodeState \in {"registered", "domain_pending"}
  /\ minted < MaxSessions
  /\ nodeState' = "registered"
  /\ minted' = minted + 1
  /\ session' = minted + 1
  /\ \/ myToken' = minted + 1 /\ UNCHANGED faults
     \/ Fault /\ UNCHANGED myToken
  /\ UNCHANGED <<enabled, policy, received, applied, failed, removal, link, wire, client, host>>

\* Join with a fresh code after Leave.
Enroll ==
  /\ DatabaseFree /\ pc = "off" /\ myToken = 0
  /\ nodeState = "pending"
  /\ minted < MaxSessions
  /\ nodeState' = "registered"
  /\ minted' = minted + 1
  /\ session' = minted + 1
  /\ myToken' = minted + 1
  /\ UNCHANGED <<enabled, policy, received, applied, failed, removal, link, wire, client, host, faults>>

-----------------------------------------------------------------------------
(* The stream *)

\* The handler authenticates the node, which waits for the stream.  Bound: one handler
\* at a time is on its way to the table.
Connect ==
  /\ DatabaseFree /\ pc = "off" /\ myToken # 0
  /\ myToken = session /\ nodeState = "registered"
  /\ joining = 0
  /\ joining' = myToken
  /\ inbox' = <<>>
  /\ pc' = "scan"
  /\ UNCHANGED <<row, tokens, stream, sent, wire, myToken, hand, post, reply, receiveErr,
                 status, host, faults>>

\* It enters itself in the table, in the place of the stream before it.
Register ==
  /\ joining # 0
  /\ stream' = joining
  /\ joining' = 0
  /\ sent' = 0
  /\ UNCHANGED <<row, tokens, inbox, wire, myToken, client, host, faults>>

\* What the handler asks before its first policy: the session is still the node's, and
\* the node does not say it has applied a later revision.
Admits == stream = session /\ nodeState = "registered" /\ status <= policy.rev

\* A policy the stream has not sent yet; to a session that has ended, only an empty
\* one, and never as the first.
Push ==
  /\ DatabaseFree /\ stream # 0 /\ joining = 0 /\ pc # "off"
  /\ sent < policy.rev /\ nodeState # "deleted"
  /\ Admits \/ (sent # 0 /\ (stream = session \/ ~policy.grants))
  /\ Len(inbox) < MaxInbox
  /\ inbox' = Append(inbox, policy)
  /\ sent' = policy.rev
  /\ UNCHANGED <<row, tokens, stream, joining, wire, myToken, client, host, faults>>

\* The handler returns: the client has gone, the session has ended, the node has not
\* been admitted, or a write failed.
StreamEnds ==
  /\ stream # 0
  /\ stream' = 0
  /\ sent' = 0
  /\ \/ /\ pc \in {"off", "left"} \/ joining # 0 \/ stream # session \/ (sent = 0 /\ ~Admits)
        /\ UNCHANGED faults
     \/ Fault
  /\ UNCHANGED <<row, tokens, joining, inbox, wire, myToken, client, host>>

-----------------------------------------------------------------------------
(* The node: controlConnection *)

\* controlConnection returns; what is left in the connection is dropped.
Disconnected ==
  /\ pc' = "off"
  /\ hand' = NoPolicy
  /\ post' = NoRequest
  /\ reply' = "none"
  /\ receiveErr' = FALSE
  /\ inbox' = <<>>

Receive ==
  /\ pc = "scan" /\ inbox # <<>>
  /\ hand' = Head(inbox)
  /\ inbox' = Tail(inbox)
  /\ pc' = "save"
  /\ UNCHANGED <<row, tokens, stream, joining, sent, wire, myToken, post, reply, receiveErr, status,
                 host, faults>>

Post(state, place) ==
  LET a == [state |-> state, rev |-> hand.rev, token |-> myToken]
  IN /\ post' = a
     /\ wire' = wire \cup {a}
     /\ reply' = "none"
     /\ pc' = place

\* SaveCache, and the receipt is posted.
SaveCache ==
  /\ pc = "save"
  /\ hand.rev >= held.rev
  /\ held' = hand
  /\ loadable' = TRUE
  /\ Post("received", "received")
  /\ UNCHANGED <<row, tokens, link, myToken, hand, receiveErr, status, notice, running, faults>>

\* ValidatePolicy refuses the policy, or SaveCache fails, before or after it has
\* replaced the watermark: a nack.
SaveCacheFails ==
  /\ pc = "save"
  /\ \/ hand.rev < held.rev /\ UNCHANGED <<held, loadable, faults>>
     \/ /\ hand.rev >= held.rev
        /\ Fault
        /\ \/ UNCHANGED <<held, loadable>>
           \/ held' = hand /\ loadable' = FALSE
  /\ Post("nack", "ack")
  /\ UNCHANGED <<row, tokens, link, myToken, hand, receiveErr, status, notice, running>>

\* The post returns: an answer has come, nothing can come any more, or the node
\* does not wait for it.
PostReturns ==
  \/ reply # "none" /\ UNCHANGED faults
  \/ reply = "none" /\ post \notin wire /\ UNCHANGED faults
  \/ reply = "none" /\ post \in wire /\ Fault

\* The policy is applied whatever became of the receipt.
ReceiptReturns ==
  /\ pc = "received"
  /\ PostReturns
  /\ receiveErr' = (reply # "ok")
  /\ pc' = "apply"
  /\ post' = NoRequest
  /\ reply' = "none"
  /\ UNCHANGED <<row, tokens, link, wire, myToken, hand, status, host>>

\* After ApplyPolicy the outcome is posted, unless the receipt had failed.
PostOutcome(state) ==
  IF receiveErr THEN Disconnected /\ UNCHANGED wire
                ELSE Post(state, "ack") /\ UNCHANGED <<hand, receiveErr, inbox>>

\* ApplyPolicy saves the same policy once more and the derper applies it.
ApplyPolicy ==
  /\ pc = "apply"
  /\ running.rev <= hand.rev
  /\ running' = hand
  /\ status' = hand.rev
  /\ PostOutcome("applied")
  /\ UNCHANGED <<row, tokens, stream, joining, sent, myToken, held, loadable, notice, faults>>

\* The derper is down, refuses, or answers too late; then the notice is still in
\* its socket.
ApplyFails ==
  /\ pc = "apply"
  /\ Fault
  /\ notice' \in {hand, notice}
  /\ PostOutcome("nack")
  /\ UNCHANGED <<row, tokens, stream, joining, sent, myToken, status, held, loadable, running>>

\* Fault: the loop goes on although the outcome could not be posted.
OutcomeReturns_Continues ==
  /\ pc = "ack"
  /\ PostReturns
  /\ pc' = "scan"
  /\ hand' = NoPolicy
  /\ post' = NoRequest
  /\ reply' = "none"
  /\ UNCHANGED <<row, tokens, link, wire, myToken, receiveErr, status, host>>

\* The outcome's post returns; an error ends the connection.
OutcomeReturns ==
  /\ pc = "ack"
  /\ PostReturns
  /\ IF reply = "ok"
       THEN /\ pc' = "scan"
            /\ hand' = NoPolicy
            /\ post' = NoRequest
            /\ reply' = "none"
            /\ UNCHANGED <<inbox, receiveErr>>
       ELSE Disconnected
  /\ UNCHANGED <<row, tokens, stream, joining, sent, wire, myToken, status, host>>

\* The stream has ended and everything in it is read.
StreamClosed ==
  /\ pc = "scan" /\ inbox = <<>> /\ stream = 0 /\ joining = 0
  /\ Disconnected
  /\ UNCHANGED <<row, tokens, stream, joining, sent, wire, myToken, status, host, faults>>

\* The connection breaks, or a heartbeat fails and cancels it.
ConnectionLost ==
  /\ pc = "scan"
  /\ Fault
  /\ Disconnected
  /\ UNCHANGED <<row, tokens, stream, joining, sent, wire, myToken, status, host>>

-----------------------------------------------------------------------------
(* The node: daemon and derper *)

\* The daemon dies, its derper with it, and starts again: a snapshot that does not
\* load under the present registration is deleted.
Restart ==
  /\ Fault
  /\ Disconnected
  /\ status' = 0
  /\ loadable' = (loadable /\ myToken # 0)
  /\ notice' = NoPolicy
  /\ running' = NoPolicy
  /\ UNCHANGED <<row, tokens, stream, joining, sent, wire, myToken, held>>

\* RunControl loads the cache before the first connection and applies it.
LoadOnStart ==
  /\ pc = "off" /\ myToken # 0 /\ status = 0
  /\ loadable
  /\ running.rev <= held.rev
  /\ running' = held
  /\ status' = held.rev
  /\ UNCHANGED <<row, tokens, link, wire, myToken, pc, hand, post, reply, receiveErr, held,
                 loadable, notice, faults>>

\* Leave: the loop and the relay are stopped and the registration is cleared,
Leave ==
  /\ pc # "left" /\ myToken # 0
  /\ pc' = "left"
  /\ post' = [state |-> "leave", rev |-> 0, token |-> myToken]
  /\ myToken' = 0
  /\ hand' = NoPolicy
  /\ reply' = "none"
  /\ receiveErr' = FALSE
  /\ inbox' = <<>>
  /\ status' = 0
  /\ running' = NoPolicy
  /\ notice' = NoPolicy
  /\ UNCHANGED <<row, tokens, stream, joining, sent, wire, held, loadable, faults>>

\* then the cache is removed and the controller told,
LeaveRemovesCache ==
  /\ pc = "left"
  /\ held' = NoPolicy
  /\ loadable' = FALSE
  /\ wire' = wire \cup {post}
  /\ pc' = "off"
  /\ post' = NoRequest
  /\ UNCHANGED <<row, tokens, link, myToken, hand, reply, receiveErr, status, notice, running,
                 faults>>

\* or the cache cannot be removed and the controller is not told.
LeaveFails ==
  /\ pc = "left"
  /\ Fault
  /\ held' \in {held, NoPolicy}
  /\ loadable' \in {FALSE, loadable /\ held' # NoPolicy}
  /\ pc' = "off"
  /\ post' = NoRequest
  /\ UNCHANGED <<row, tokens, link, wire, myToken, hand, reply, receiveErr, status, notice,
                 running>>

DerperExit ==
  /\ running # NoPolicy
  /\ Fault
  /\ running' = NoPolicy
  /\ notice' = NoPolicy
  /\ UNCHANGED <<row, tokens, link, wire, myToken, client, held, loadable>>

\* A derper that starts takes the policy from the cache.
DerperStart ==
  /\ running = NoPolicy /\ myToken # 0
  /\ loadable
  /\ running' = held
  /\ UNCHANGED <<row, tokens, link, wire, myToken, client, held, loadable, notice, faults>>

\* Fault: the notice is obeyed without a look at the running revision or the cache.
LateNotice_Unchecked ==
  /\ notice # NoPolicy
  /\ notice' = NoPolicy
  /\ running' = notice
  /\ UNCHANGED <<row, tokens, link, wire, myToken, client, held, loadable, faults>>

\* A notice the daemon has given up on is handled, against the cache as it is now.
LateNotice ==
  /\ notice # NoPolicy
  /\ notice' = NoPolicy
  /\ running' = IF loadable /\ notice = held /\ running.rev <= held.rev THEN held ELSE running
  /\ UNCHANGED <<row, tokens, link, wire, myToken, client, held, loadable, faults>>

-----------------------------------------------------------------------------

Admin ==
  \/ \E grants \in BOOLEAN : ChangePolicy(grants)
  \/ \E on, grants \in BOOLEAN : SetNodeEnabled(on, grants)
  \/ LookForStream
  \/ DeleteNode
  \/ ChangeNodeDomain
  \/ RemovalFails
  \/ IssueEnrollment

Controller ==
  \/ \E a \in wire : AcknowledgePolicy(a) \/ ReleaseNode(a) \/ Refuse(a)
  \/ Register
  \/ Push
  \/ StreamEnds

\* One goroutine: wherever it stands, one step is next, with its outcomes.
ControlLoop ==
  \/ Connect
  \/ Receive
  \/ SaveCache
  \/ SaveCacheFails
  \/ ReceiptReturns
  \/ ApplyPolicy
  \/ ApplyFails
  \/ OutcomeReturns
  \/ StreamClosed

Node ==
  \/ ControlLoop
  \/ RenewSession
  \/ Enroll
  \/ LoadOnStart
  \/ LeaveRemovesCache
  \/ LeaveFails
  \/ DerperStart
  \/ LateNotice

Environment ==
  \/ \E a \in wire : LoseRequest(a)
  \/ ConnectionLost
  \/ Restart
  \/ Leave
  \/ DerperExit

Next == Admin \/ Controller \/ Node \/ Environment

SafetySpec == Init /\ [][Next]_vars

\* A removal comes to its end; a handler registers, sends what is new and ends with its
\* session; requests that are not lost are processed; the node's loop goes on.  Faults
\* come to an end.
Fairness ==
  /\ WF_vars(\E a \in wire : AcknowledgePolicy(a) \/ ReleaseNode(a) \/ Refuse(a))
  /\ WF_vars(~DatabaseFree /\ (DeleteNode \/ ChangeNodeDomain \/ RemovalFails))
  /\ WF_vars(Register)
  /\ WF_vars(Push)
  /\ WF_vars(stream # session /\ StreamEnds)
  /\ WF_vars(ControlLoop)

Spec == SafetySpec /\ Fairness

-----------------------------------------------------------------------------
(* Properties *)

Enrolled == myToken # 0 /\ myToken = session /\ nodeState = "registered"

\* The controller never believes more than the node can keep: of the node that holds
\* the session, a revision acknowledged as received is on its disk, one acknowledged
\* as applied is not ahead of what its derper enforces (also when acknowledgements
\* arrive late, twice or after a restart), and the revision the node reports when it
\* connects is never ahead of the database.  And the variables keep their types.
AckSound ==
  /\ TypeOK
  /\ applied <= received /\ received <= policy.rev
  /\ Enrolled => /\ received <= held.rev
                 /\ running # NoPolicy => applied <= running.rev
                 /\ status <= policy.rev

\* A policy that came from the database: the present one, or an older one.
FromDatabase(p) == p.rev <= policy.rev /\ (p.rev = policy.rev => p = policy)

\* What the three properties below and above rest on: a paused or unclaimed node has an empty
\* policy, a removal that has found the stream open has found the newest policy applied, a revision names one policy wherever it is kept, tokens are never drawn again, a
\* node without a registration runs nothing, and an acknowledgement on its way under the
\* present session is already true of the disk and of the derper.
ControlInv ==
  /\ TypeOK
  /\ applied <= received /\ received <= policy.rev
  /\ policy.grants => enabled
  /\ nodeState = "pending" => received = 0 /\ ~policy.grants
  /\ removal # "none" => ~enabled /\ nodeState # "pending"
  /\ removal = "connected" => applied = policy.rev
  /\ session <= minted /\ myToken <= minted /\ post.token <= minted
  /\ \A a \in wire : a.token <= minted
  /\ FromDatabase(hand) /\ FromDatabase(held) /\ FromDatabase(notice) /\ FromDatabase(running)
  /\ \A k \in 1..Len(inbox) : FromDatabase(inbox[k])
  /\ status <= policy.rev
  /\ myToken = 0 => pc \in {"off", "left"} /\ running = NoPolicy /\ notice = NoPolicy
  /\ pc = "left" => myToken = 0 /\ post.state = "leave"
  /\ pc \in {"received", "apply"} => held = hand
  /\ running.rev <= held.rev
  /\ myToken # 0 =>
       /\ received <= held.rev
       /\ running # NoPolicy => applied <= running.rev
       /\ \A a \in wire :
            a.token = session /\ a.token # 0 =>
              /\ a.state \in {"received", "applied"} => a.rev <= held.rev
              /\ a.state = "applied" /\ running # NoPolicy => a.rev <= running.rev

\* When DeleteNode or ChangeNodeDomain has found the node's stream in the table, the
\* derper admits nobody from that look until the commit, and neither does a policy that
\* it would start again with from the node's cache: whatever streams end or register,
\* daemons restart, late notices are handled and requests are waiting in between.  Of a
\* stream that registers only after the look it says nothing.
DrainedBeforeRemoval ==
  removal = "connected" => ~running.grants /\ (myToken # 0 => ~held.grants)

\* What the derper enforces only moves forward until the derper itself stops, and is
\* never ahead of the cache.
DerperGoesForward ==
  [][running' = NoPolicy \/ (running'.rev >= running.rev /\ running'.rev <= held'.rev)]_vars

\* Lost requests and answers, timeouts, broken connections and restarts never leave
\* a connected node behind: unless the controller has recorded a failure, a node that
\* holds the session ends up with the newest policy applied and acknowledged.
Settles == <>failed \/ <>[](Enrolled => applied = policy.rev)

=============================================================================
