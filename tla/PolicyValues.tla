---------------------------- MODULE PolicyValues ----------------------------
(***************************************************************************)
(* The policies a controller issues to its nodes, as the cache and the     *)
(* derper tell them apart (internal/cluster/protocol.go).  A policy names  *)
(* the node it is for and its revision; grants, keys, deadlines and QoS    *)
(* are one opaque body.  A SHA-256 digest of the JSON is modelled by the   *)
(* policy itself: two policies have one digest only if they are equal.     *)
(***************************************************************************)
EXTENDS Naturals

CONSTANTS
  Ids,          \* node identities: a cluster id with a node id
  Bodies,       \* everything else a policy says
  MaxRevision,  \* highest revision the controller issues
  None          \* no policy, no file

ASSUME MaxRevisionAssumption == MaxRevision \in Nat

Policies == [id : Ids, rev : 1..MaxRevision, body : Bodies]

MaybePolicy == Policies \cup {None}

\* p may take the place of q: the same node, not older, and never a second
\* content for one revision.
Follows(p, q) ==
  /\ p.id = q.id
  /\ p.rev >= q.rev
  /\ p.rev = q.rev => p = q

=============================================================================
