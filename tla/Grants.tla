------------------------------- MODULE Grants -------------------------------
(***************************************************************************)
(* One grant: the permission of one tailnet to use one node, from request  *)
(* over approval and confirmation to revocation, and the entry it has in   *)
(* the node's policy (internal/control/grants.go, policy.go, resources.go, *)
(* credentials.go, auth.go, nodes.go, node_self.go).                       *)
(*                                                                         *)
(* Every operation is one database transaction.  A request carries the     *)
(* revision its sender saw on the console; since it can be delayed,        *)
(* repeated and overtaken, a step may take up a request for any revision   *)
(* the grant ever had.                                                     *)
(***************************************************************************)
EXTENDS Naturals

CONSTANTS
  Users,        \* user accounts
  Provider,     \* the owner of the node
  Applicant,    \* the first owner of the tailnet
  Admins,       \* the users with the role "admin"
  MaxRevision,  \* bound: revisions of the grant
  MaxTime       \* bound: the clock

ASSUME UsersAssumption ==
  /\ Provider \in Users
  /\ Applicant \in Users
  /\ Admins \subseteq Users

ASSUME BoundsAssumption ==
  /\ MaxRevision \in Nat
  /\ MaxTime \in Nat \ {0}

VARIABLES
  now,            \* the controller's clock
  users,          \* users.enabled
  nodeState,      \* nodes.state; "registered" stands for ready and offline too
  nodeEnabled,    \* nodes.enabled
  tailnetOwner,   \* tailnets.owner_id
  tailnetState,   \* tailnets.enabled, or "deleted"
  grant,          \* the row of grants
  entry,          \* the grant's entry in node_policies.policy_json
  consent         \* history of the grant, see Consents

resources == <<users, nodeState, nodeEnabled, tailnetOwner, tailnetState>>
vars == <<now, users, nodeState, nodeEnabled, tailnetOwner, tailnetState, grant, entry, consent>>

Open == {"requested", "owner_approved", "active"}
Closed == {"cancelled", "rejected", "revoked"}

\* until: explicit_until, 0 when there is none; contact: last_control_success.
GrantRows == [state : {"none"} \cup Open \cup Closed, rev : Nat, until : Nat, contact : Nat]
NoGrant == [state |-> "none", rev |-> 0, until |-> 0, contact |-> 0]

\* A policy entry names the grant's revision and the times its deadlines come from.
Entries == [rev : Nat, until : Nat, contact : Nat]
NoEntry == [rev |-> 0, until |-> 0, contact |-> 0]

\* History: the revision at which the grant last ended, the revision made by the
\* request that opened it again, and the revisions the provider and the applicant
\* had seen when they approved and confirmed it; own: the tailnet was the provider's.
Consents == [ended : Nat, asked : Nat, approved : Nat, confirmed : Nat, own : BOOLEAN]
NoConsent == [ended |-> 0, asked |-> 0, approved |-> 0, confirmed |-> 0, own |-> FALSE]

TypeOK ==
  /\ now \in 1..MaxTime
  /\ users \subseteq Users
  /\ nodeState \in {"pending", "registered", "domain_pending", "identity_conflict", "deleted"}
  /\ nodeEnabled \in BOOLEAN
  /\ tailnetOwner \in Users
  /\ tailnetState \in {"enabled", "disabled", "deleted"}
  /\ grant \in GrantRows
  /\ entry \in Entries
  /\ consent \in Consents

Init ==
  /\ now = 1
  /\ users = Users
  /\ nodeState = "registered"
  /\ nodeEnabled = TRUE
  /\ tailnetOwner = Applicant
  /\ tailnetState = "enabled"
  /\ grant = NoGrant
  /\ entry = NoEntry
  /\ consent = NoConsent

-----------------------------------------------------------------------------

\* scanGrant: the state that readers of the row see.
Shown == IF grant.state \in Open /\ grant.until # 0 /\ now >= grant.until
           THEN "expired" ELSE grant.state

\* RequireOwner and activeActor.
MayAct(u, owner) == u \in users /\ (u = owner \/ u \in Admins)

GrantResourcesEnabled ==
  /\ nodeEnabled /\ nodeState = "registered"
  /\ tailnetState = "enabled"
  /\ {Provider, tailnetOwner} \subseteq users

\* The grant's entry in the policy that buildPolicy makes from the database.
Entry ==
  IF GrantResourcesEnabled /\ grant.state = "active" /\ grant.contact > 0
    THEN [rev |-> grant.rev, until |-> grant.until, contact |-> grant.contact]
    ELSE NoEntry

\* buildPolicy, at the end of a transaction.
BuildPolicy == entry' = Entry'

\* RequestGrant: the owner of the tailnet asks for the node; one's own is active at once.
\* A repeated request that meets its own outcome is answered and changes nothing.
RequestGrant(u, expected, until) ==
  LET own == Provider = tailnetOwner IN
  /\ MayAct(u, tailnetOwner)
  /\ GrantResourcesEnabled
  /\ until # 0 => now < until
  /\ expected = grant.rev /\ grant.rev < MaxRevision
  /\ Shown \in Closed \cup {"none", "expired"}
  /\ grant' = [state |-> IF own THEN "active" ELSE "requested", rev |-> grant.rev + 1,
               until |-> until, contact |-> IF own THEN now ELSE 0]
  /\ consent' = [ended |-> grant.rev, asked |-> grant.rev + 1, approved |-> 0,
                 confirmed |-> 0, own |-> own]
  /\ UNCHANGED <<now, resources>>
  /\ BuildPolicy

\* Fault: the revision the sender saw is not compared.
Apply_AnyRevision(u, owner, expected, from, next) ==
  /\ MayAct(u, owner)
  /\ grant.rev < MaxRevision
  /\ Shown \in from
  /\ grant' = [grant EXCEPT !.state = next, !.rev = @ + 1,
                            !.contact = IF next = "active" THEN now ELSE 0]
  /\ UNCHANGED <<now, resources>>
  /\ BuildPolicy

\* ApplyGrantAction, once its action has been told apart.
Apply(u, owner, expected, from, next) ==
  /\ MayAct(u, owner)
  /\ expected = grant.rev /\ grant.rev < MaxRevision
  /\ Shown \in from
  /\ grant' = [grant EXCEPT !.state = next, !.rev = @ + 1,
                            !.contact = IF next = "active" THEN now ELSE 0]
  /\ UNCHANGED <<now, resources>>
  /\ BuildPolicy

Approve(u, expected) ==
  /\ GrantResourcesEnabled
  /\ Apply(u, Provider, expected, {"requested"}, "owner_approved")
  /\ consent' = [consent EXCEPT !.approved = expected]

Confirm(u, expected) ==
  /\ GrantResourcesEnabled
  /\ Apply(u, tailnetOwner, expected, {"owner_approved"}, "active")
  /\ consent' = [consent EXCEPT !.confirmed = expected]

Cancel(u, expected) ==
  /\ Apply(u, tailnetOwner, expected, {"requested", "owner_approved"}, "cancelled")
  /\ consent' = [consent EXCEPT !.ended = grant.rev + 1]

Reject(u, expected) ==
  /\ Apply(u, Provider, expected, {"requested"}, "rejected")
  /\ consent' = [consent EXCEPT !.ended = grant.rev + 1]

Revoke(u, expected) ==
  /\ Apply(u, Provider, expected, {"owner_approved", "active"}, "revoked")
  /\ consent' = [consent EXCEPT !.ended = grant.rev + 1]

LeaveGrant(u, expected) ==
  /\ Apply(u, tailnetOwner, expected, {"owner_approved", "active"}, "revoked")
  /\ consent' = [consent EXCEPT !.ended = grant.rev + 1]

-----------------------------------------------------------------------------
(* What else the grant and its entry depend on *)

Tick == now < MaxTime /\ now' = now + 1 /\ UNCHANGED <<resources, grant, entry, consent>>

\* A heartbeat of the node moves the deadline of an active grant.
NodeHeartbeat ==
  /\ nodeState = "registered" /\ Provider \in users
  /\ grant' = IF grant.state = "active" THEN [grant EXCEPT !.contact = now] ELSE grant
  /\ UNCHANGED <<now, resources, consent>>
  /\ BuildPolicy

SetTailnetEnabled(u, on) ==
  /\ MayAct(u, tailnetOwner)
  /\ tailnetState # "deleted"
  /\ tailnetState' = IF on THEN "enabled" ELSE "disabled"
  /\ UNCHANGED <<now, users, nodeState, nodeEnabled, tailnetOwner, grant, consent>>
  /\ BuildPolicy

\* The grants of a tailnet or a node are deleted with it.
DeleteTailnet(u) ==
  /\ MayAct(u, tailnetOwner)
  /\ tailnetState # "deleted"
  /\ tailnetState' = "deleted"
  /\ grant' = NoGrant
  /\ consent' = NoConsent
  /\ UNCHANGED <<now, users, nodeState, nodeEnabled, tailnetOwner>>
  /\ BuildPolicy

TransferTailnet(u, newOwner) ==
  /\ u \in Admins \cap users
  /\ newOwner \in users
  /\ tailnetState # "deleted"
  /\ tailnetOwner' = newOwner
  /\ UNCHANGED <<now, users, nodeState, nodeEnabled, tailnetState, grant, consent>>
  /\ BuildPolicy

\* Fault: the policies are not rebuilt.
SetUserEnabled_NoRebuild(u, user, on) ==
  /\ u \in Admins \cap users
  /\ users' = IF on THEN users \cup {user} ELSE users \ {user}
  /\ UNCHANGED <<now, nodeState, nodeEnabled, tailnetOwner, tailnetState, grant, entry, consent>>

SetUserEnabled(u, user, on) ==
  /\ u \in Admins \cap users
  /\ users' = IF on THEN users \cup {user} ELSE users \ {user}
  /\ UNCHANGED <<now, nodeState, nodeEnabled, tailnetOwner, tailnetState, grant, consent>>
  /\ BuildPolicy

\* A pending node's policy is not rebuilt.
SetNodeEnabled(u, on) ==
  /\ MayAct(u, Provider)
  /\ nodeState # "deleted"
  /\ on => nodeState # "domain_pending"
  /\ nodeEnabled' = on
  /\ UNCHANGED <<now, users, nodeState, tailnetOwner, tailnetState, grant, consent>>
  /\ IF nodeState = "pending" THEN UNCHANGED entry ELSE BuildPolicy

\* The policy goes with the node.
DeleteNode(u) ==
  /\ MayAct(u, Provider)
  /\ nodeState # "deleted"
  /\ nodeState # "pending" => ~nodeEnabled
  /\ nodeState' = "deleted"
  /\ grant' = NoGrant
  /\ entry' = NoEntry
  /\ consent' = NoConsent
  /\ UNCHANGED <<now, users, nodeEnabled, tailnetOwner, tailnetState>>

\* ChangeNodeDomain leaves the policy as it is, and so does the proof of the new
\* domain in RenewNodeSession.
ChangeNodeDomain(u) ==
  /\ MayAct(u, Provider)
  /\ nodeState = "registered" /\ ~nodeEnabled
  /\ nodeState' = "domain_pending"
  /\ UNCHANGED <<now, users, nodeEnabled, tailnetOwner, tailnetState, grant, entry, consent>>

VerifyDomain ==
  /\ nodeState = "domain_pending" /\ Provider \in users
  /\ nodeState' = "registered"
  /\ UNCHANGED <<now, users, nodeEnabled, tailnetOwner, tailnetState, grant, entry, consent>>

\* A second instance presents the node's key while the lease runs.
IdentityConflict ==
  /\ nodeState \in {"registered", "domain_pending"} /\ Provider \in users
  /\ nodeState' = "identity_conflict"
  /\ UNCHANGED <<now, users, nodeEnabled, tailnetOwner, tailnetState, grant, consent>>
  /\ BuildPolicy

RecoverNodeInstance(u) ==
  /\ MayAct(u, Provider)
  /\ nodeState = "identity_conflict"
  /\ nodeState' = "registered"
  /\ UNCHANGED <<now, users, nodeEnabled, tailnetOwner, tailnetState, grant, consent>>
  /\ BuildPolicy

\* releaseNode: the node leaves, or its owner issues a new enrollment code.
ReleaseNode ==
  /\ nodeState \notin {"pending", "deleted"}
  /\ grant.rev < MaxRevision
  /\ nodeState' = "pending"
  /\ IF grant.state \in {"none", "revoked"}
       THEN UNCHANGED <<grant, consent>>
       ELSE /\ grant' = [grant EXCEPT !.state = "revoked", !.rev = @ + 1, !.contact = 0]
            /\ consent' = [consent EXCEPT !.ended = grant.rev + 1]
  /\ UNCHANGED <<now, users, nodeEnabled, tailnetOwner, tailnetState>>
  /\ BuildPolicy

EnrollNode ==
  /\ nodeState = "pending" /\ Provider \in users
  /\ nodeState' = "registered"
  /\ UNCHANGED <<now, users, nodeEnabled, tailnetOwner, tailnetState, grant, consent>>
  /\ BuildPolicy

-----------------------------------------------------------------------------

GrantSteps ==
  \E u \in Users, expected \in 0..grant.rev :
    \/ \E until \in 0..MaxTime : RequestGrant(u, expected, until)
    \/ Approve(u, expected)
    \/ Confirm(u, expected)
    \/ Cancel(u, expected)
    \/ Reject(u, expected)
    \/ Revoke(u, expected)
    \/ LeaveGrant(u, expected)

ResourceSteps ==
  \E u \in Users :
    \/ \E on \in BOOLEAN : SetTailnetEnabled(u, on) \/ SetNodeEnabled(u, on)
    \/ \E user \in Users, on \in BOOLEAN : SetUserEnabled(u, user, on)
    \/ \E user \in Users : TransferTailnet(u, user)
    \/ DeleteTailnet(u)
    \/ DeleteNode(u)
    \/ ChangeNodeDomain(u)
    \/ RecoverNodeInstance(u)

NodeSteps ==
  \/ NodeHeartbeat
  \/ VerifyDomain
  \/ IdentityConflict
  \/ ReleaseNode
  \/ EnrollNode

Next == Tick \/ GrantSteps \/ ResourceSteps \/ NodeSteps

Spec == Init /\ [][Next]_vars

-----------------------------------------------------------------------------
(* Properties *)

\* Both sides agreed to this very round of the grant: after its last end it was
\* requested anew, the provider approved it having seen that request, and the
\* applicant confirmed it having seen that approval.
Agreed ==
  /\ consent.ended < consent.asked
  /\ consent.asked <= consent.approved
  /\ consent.approved < consent.confirmed
  /\ consent.confirmed < grant.rev

\* A grant that is active and was not the provider's own has the consent of both
\* sides since its last end; no delayed or repeated approval, confirmation or
\* request for an earlier round brings it back (RequestGrant, ApplyGrantAction and
\* releaseNode compare and advance the revision).
ActiveByConsent == grant.state = "active" /\ ~consent.own => Agreed

\* The stored policy of the node is always the one the database implies: there is no
\* operation on users, tailnets, nodes or grants after which buildPolicy would write
\* something else, the ones that do not call it included.
PolicyIsCurrent == entry = Entry

=============================================================================
