----------------------------- MODULE Enrollment -----------------------------
(***************************************************************************)
(* How a machine becomes a node: the owner issues a code, the machine asks *)
(* for a challenge with it, keeps its signed request on disk, posts it,    *)
(* and the controller proves the domain between two transactions           *)
(* (internal/control/nodes.go, node_self.go; the machine in                *)
(* internal/cluster/node_client.go, internal/daemon/local_cluster.go).     *)
(*                                                                         *)
(* A machine has one call at a time (EnrollmentClient.mu); when its        *)
(* connection ends so does the request's context at the controller.  What  *)
(* was committed stays, and its answer may be lost.  A machine stands for  *)
(* its key and, since the request is kept, for its instance id.            *)
(***************************************************************************)
EXTENDS Naturals, FiniteSets

CONSTANTS
  Clients,        \* machines the code is entered on
  None,           \* no key yet
  MaxChallenges,  \* open challenges of a node (8 in the code)
  MaxCodes,       \* bound: codes issued
  MaxNonces,      \* bound: challenges given out
  MaxFaults       \* bound: lost answers and failed writes

ASSUME ConstantsAssumption ==
  /\ None \notin Clients
  /\ MaxChallenges \in Nat \ {0}
  /\ MaxCodes \in Nat \ {0}
  /\ MaxNonces \in Nat
  /\ MaxFaults \in Nat

VARIABLES
  enabled,     \* the owner's row in users
  node,        \* the row: state, public_key, the token in node_sessions
  code,        \* the enrollments row: the code, its life and its receipt
  challenges,  \* node_challenges that are not used
  nonces,      \* challenges given out so far
  expired,     \* nonces whose two minutes are over
  call,        \* the Enroll call of each machine
  pending,     \* registration.json: the request not yet answered
  reg,         \* registration.json: the session
  minted,      \* history: sessions given for codes
  dropped,     \* history: machines that let go of the request or session of a registration
               \* at their operator's order, or on a refusal while the owner was disabled
  faults       \* faults so far

vars == <<enabled, node, code, challenges, nonces, expired, call, pending, reg, minted, dropped,
          faults>>

\* A request is known by its challenge and its code, a session by the nonce of the
\* challenge it was given for; 0 is none.
Requests == [nonce : 0..MaxNonces, code : 0..MaxCodes]
NoRequest == [nonce |-> 0, code |-> 0]
Sessions == [token : 0..MaxNonces, code : 0..MaxCodes]
NoSession == [token |-> 0, code |-> 0]
Idle == [pc |-> "idle", code |-> 0, attempt |-> 0]

TypeOK ==
  /\ enabled \in BOOLEAN
  /\ node \in [state : {"pending", "registered"}, key : Clients \cup {None},
               session : 0..MaxNonces]
  /\ code \in [n : 1..MaxCodes, live : BOOLEAN, used : Requests]
  /\ challenges \subseteq [nonce : 1..MaxNonces, client : Clients]
  /\ Cardinality(challenges) <= MaxChallenges
  /\ nonces \in 0..MaxNonces
  /\ expired \subseteq 1..nonces
  /\ call \in [Clients -> [pc : {"idle", "ask", "posted", "verifying"},
                           code : 0..MaxCodes, attempt : 0..1]]
  /\ pending \in [Clients -> Requests]
  /\ reg \in [Clients -> Sessions]
  /\ minted \subseteq [code : 1..MaxCodes, client : Clients, token : 1..MaxNonces]
  /\ dropped \subseteq Clients
  /\ faults \in 0..MaxFaults

\* CreateNode has made the row and issued the first code.
Init ==
  /\ enabled = TRUE
  /\ node = [state |-> "pending", key |-> None, session |-> 0]
  /\ code = [n |-> 1, live |-> TRUE, used |-> NoRequest]
  /\ challenges = {}
  /\ nonces = 0
  /\ expired = {}
  /\ call = [c \in Clients |-> Idle]
  /\ pending = [c \in Clients |-> NoRequest]
  /\ reg = [c \in Clients |-> NoSession]
  /\ minted = {}
  /\ dropped = {}
  /\ faults = 0

-----------------------------------------------------------------------------
(***************************************************************************)
(* Time and the owner.                                                     *)
(***************************************************************************)

Fault == faults < MaxFaults /\ faults' = faults + 1

\* SetUserEnabled, of the owner.
SetUserEnabled ==
  /\ enabled' = ~enabled
  /\ UNCHANGED <<node, code, challenges, nonces, expired, call, pending, reg, minted, dropped,
                 faults>>

CodeExpires ==
  /\ code.live
  /\ code' = [code EXCEPT !.live = FALSE]
  /\ UNCHANGED <<enabled, node, challenges, nonces, expired, call, pending, reg, minted, dropped,
                 faults>>

ChallengeExpires(n) ==
  /\ n \in (1..nonces) \ expired
  /\ expired' = expired \cup {n}
  /\ UNCHANGED <<enabled, node, code, challenges, nonces, call, pending, reg, minted, dropped,
                 faults>>

\* The key stays with the row when the node is released.
Released(n) == [n EXCEPT !.state = "pending", !.session = 0]

\* A new code takes the place of the old one, its receipt and its challenges.
IssueEnrollment ==
  /\ code.n < MaxCodes
  /\ node' = IF node.state = "pending" THEN node ELSE Released(node)
  /\ code' = [n |-> code.n + 1, live |-> TRUE, used |-> NoRequest]
  /\ challenges' = {}
  /\ dropped' = {}
  /\ UNCHANGED <<enabled, nonces, expired, call, pending, reg, minted, faults>>

-----------------------------------------------------------------------------
(***************************************************************************)
(* Enroll on the machine.                                                  *)
(***************************************************************************)

\* An operator enters a code that was issued at some time, or RegisterLocal goes on with
\* the pending one: a kept request for that code is posted again.
Enroll(c, n) ==
  /\ call[c].pc = "idle"
  /\ reg[c] = NoSession
  /\ n \in 1..code.n
  /\ call' = [call EXCEPT ![c] = [pc |-> IF pending[c].code = n THEN "posted" ELSE "ask",
                                  code |-> n, attempt |-> 0]]
  /\ UNCHANGED <<enabled, node, code, challenges, nonces, expired, pending, reg, minted, dropped,
                 faults>>

End(c) == call' = [call EXCEPT ![c] = Idle]

\* The call ends on an error: a timeout, a refusal, a crash.  The request on disk stays.
Fails(c) == End(c) /\ UNCHANGED <<pending, reg>>

\* The machine's call is over before the controller has answered.
GiveUp(c) ==
  /\ call[c].pc # "idle"
  /\ Fault
  /\ Fails(c)
  /\ UNCHANGED <<enabled, node, code, challenges, nonces, expired, minted, dropped>>

\* Fault: a request that was not answered is dropped.
Lost_DropsRequest(c) ==
  End(c) /\ pending' = [pending EXCEPT ![c] = NoRequest] /\ UNCHANGED reg

\* The controller's answer does not arrive, or cannot be saved.
Lost(c) == Fails(c)

\* acceptSession: the session takes the place of the request.
Accept(c, token) ==
  /\ End(c)
  /\ reg' = [reg EXCEPT ![c] = [token |-> token, code |-> pending[c].code]]
  /\ pending' = [pending EXCEPT ![c] = NoRequest]

\* The proof is refused: a request whose challenge is over by the machine's clock, which
\* need not agree with the controller's, is dropped, and the first attempt is followed by
\* a second one with a new challenge.
Rejected(c) ==
  \/ /\ call[c].attempt = 0
     /\ call' = [call EXCEPT ![c].pc = "ask", ![c].attempt = 1]
     /\ pending' = [pending EXCEPT ![c] = NoRequest]
     /\ dropped' = IF enabled THEN dropped ELSE dropped \cup {c}
     /\ UNCHANGED reg
  \/ Fails(c) /\ UNCHANGED dropped

\* Join with another controller, or Leave before there is a session.
ClearRegistration(c) ==
  /\ call[c].pc = "idle"
  /\ pending[c] # NoRequest
  /\ pending' = [pending EXCEPT ![c] = NoRequest]
  /\ dropped' = dropped \cup {c}
  /\ UNCHANGED <<enabled, node, code, challenges, nonces, expired, call, reg, minted, faults>>

-----------------------------------------------------------------------------
(***************************************************************************)
(* The controller.                                                         *)
(***************************************************************************)

\* Fault: the key is not compared.
KeyFits_Any(c) == TRUE

\* public_key IS NULL OR public_key=?
KeyFits(c) == node.key \in {None, c}

Unexpired == {ch \in challenges : ch.nonce \notin expired}

\* newNodeChallenge: challenges that are over make room.
HasRoom == Cardinality(Unexpired) < MaxChallenges

\* EnrollmentChallenge, with newNodeChallenge; the machine keeps its signed request
\* before it posts it.
EnrollmentChallenge(c) ==
  /\ call[c].pc = "ask"
  /\ IF /\ call[c].code = code.n /\ code.live /\ code.used = NoRequest
        /\ node.state = "pending" /\ KeyFits(c) /\ enabled
        /\ HasRoom
       THEN /\ nonces < MaxNonces
            /\ nonces' = nonces + 1
            /\ challenges' = Unexpired \cup {[nonce |-> nonces', client |-> c]}
            /\ \/ /\ pending' = [pending EXCEPT ![c] = [nonce |-> nonces', code |-> code.n]]
                  /\ call' = [call EXCEPT ![c].pc = "posted"]
                  /\ UNCHANGED <<reg, faults>>
               \/ Fault /\ Lost(c)
       ELSE Fails(c) /\ UNCHANGED <<challenges, nonces, faults>>
  /\ UNCHANGED <<enabled, node, code, expired, minted, dropped>>

\* The code is known and its owner enabled, and what enrollmentReceipt finds for the
\* machine's request.
Known(c) == enabled /\ code.live /\ pending[c].code = code.n
Mine(c) == Known(c) /\ code.used = pending[c]

\* The code is not consumed and checkNodeChallenge agrees.
Open(c) ==
  /\ Known(c)
  /\ code.used = NoRequest
  /\ [nonce |-> pending[c].nonce, client |-> c] \in Unexpired

Delivered(c, token) ==
  \/ Accept(c, token) /\ UNCHANGED faults
  \/ Fault /\ Lost(c)

\* The receipt of an earlier transaction, or a refusal.
Settled(c) ==
  IF Mine(c)
    THEN Delivered(c, code.used.nonce) /\ UNCHANGED dropped
    ELSE Rejected(c) /\ UNCHANGED faults

\* EnrollNode up to the domain proof.
EnrollNode(c) ==
  /\ call[c].pc = "posted"
  /\ IF Open(c)
       THEN /\ call' = [call EXCEPT ![c].pc = "verifying"]
            /\ UNCHANGED <<pending, reg, dropped, faults>>
       ELSE Settled(c)
  /\ UNCHANGED <<enabled, node, code, challenges, nonces, expired, minted>>

\* There is no place among nodeRequests in time, or the domain does not show the proof.
VerifyFails(c) ==
  /\ call[c].pc = "verifying"
  /\ Rejected(c)
  /\ UNCHANGED <<enabled, node, code, challenges, nonces, expired, minted, faults>>

\* Fault: the code and the row are not looked at again.
Confirmed_NotAgain(c) ==
  Known(c) /\ [nonce |-> pending[c].nonce, client |-> c] \in Unexpired

\* What the second transaction looks at again.
Confirmed(c) == Open(c) /\ node.state = "pending" /\ KeyFits(c)

\* The domain has shown the proof: the second transaction of EnrollNode.
Register(c) ==
  /\ call[c].pc = "verifying"
  /\ IF Confirmed(c)
       THEN /\ node' = [state |-> "registered", key |-> c, session |-> pending[c].nonce]
            /\ challenges' = {ch \in challenges : ch.nonce # pending[c].nonce}
            /\ code' = [code EXCEPT !.used = pending[c]]
            /\ minted' = minted \cup {[code |-> code.n, client |-> c, token |-> pending[c].nonce]}
            /\ dropped' = dropped \ {c}
            /\ Delivered(c, pending[c].nonce)
       ELSE Settled(c) /\ UNCHANGED <<node, challenges, code, minted>>
  /\ UNCHANGED <<enabled, nonces, expired>>

\* ReleaseNode: a session that is no longer the node's is refused, and so is every
\* session while the owner is disabled.
ReleaseNode(token) ==
  IF enabled /\ token = node.session
    THEN /\ node' = Released(node)
         /\ code' = [code EXCEPT !.live = FALSE, !.used = NoRequest]
         /\ challenges' = {}
    ELSE UNCHANGED <<node, code, challenges>>

\* Fault: the machine keeps its registration.
Leave_KeepsSession(c) ==
  /\ call[c].pc = "idle"
  /\ reg[c] # NoSession
  /\ ReleaseNode(reg[c].token)
  /\ UNCHANGED <<enabled, nonces, expired, call, pending, reg, minted, dropped, faults>>

\* The machine clears its registration first; the controller may not hear of it.
Leave(c) ==
  /\ call[c].pc = "idle"
  /\ reg[c] # NoSession
  /\ reg' = [reg EXCEPT ![c] = NoSession]
  /\ dropped' = dropped \cup {c}
  /\ \/ ReleaseNode(reg[c].token) /\ UNCHANGED faults
     \/ Fault /\ UNCHANGED <<node, code, challenges>>
  /\ UNCHANGED <<enabled, nonces, expired, call, pending, minted>>

Machine(c) ==
  \/ \E n \in 1..MaxCodes : Enroll(c, n)
  \/ GiveUp(c)
  \/ ClearRegistration(c)
  \/ Leave(c)

Controller(c) ==
  \/ EnrollmentChallenge(c)
  \/ EnrollNode(c)
  \/ VerifyFails(c)
  \/ Register(c)

Next ==
  \/ \E c \in Clients : Machine(c) \/ Controller(c)
  \/ SetUserEnabled
  \/ IssueEnrollment
  \/ CodeExpires
  \/ \E n \in 1..MaxNonces : ChallengeExpires(n)

Spec == Init /\ [][Next]_vars

-----------------------------------------------------------------------------

\* A code gives out one session to one machine, however many requests with it are
\* between their two transactions (the second transaction of EnrollNode).  And the
\* variables keep their types.
CodeOnce ==
  /\ TypeOK
  /\ \A m, n \in minted : m.code = n.code => m = n

\* A machine that holds a session of the present code is the node: the row is
\* registered with its key and the session is the row's (acceptSession, EnrollNode,
\* releaseNode).
HolderIsNode ==
  \A c \in Clients :
    reg[c] # NoSession /\ reg[c].code = code.n =>
      node = [state |-> "registered", key |-> c, session |-> reg[c].token]

\* A registration whose answer was lost is within the machine's reach: as long as the
\* code lives the registered machine has the session, or the very request that was
\* accepted is still on its disk to be posted again (Enroll, enrollmentReceipt).  There are
\* two exceptions since that registration: its operator has dropped the one or the other,
\* or it posted the request again while the owner was disabled and, its challenge being
\* over, dropped it on the refusal.  The code has no way back from either, though the owner
\* may be enabled again and the code alive.
AnswerInReach ==
  node.state = "registered" /\ code.live /\ node.key \notin dropped =>
    \/ reg[node.key] = [token |-> node.session, code |-> code.n]
    \/ reg[node.key] = NoSession /\ pending[node.key] = code.used

\* What the three rest on.  A nonce belongs to one machine, whether it is still in the request
\* or already the token of a session; the row agrees with the receipt of the present code; and
\* a request that is between its two transactions is not the one on the receipt.
EnrollInv ==
  /\ CodeOnce /\ HolderIsNode /\ AnswerInReach
  /\ IsFiniteSet(challenges)
  /\ \A m \in minted :
       m.code <= code.n /\ (m.code = code.n => ~code.live \/ code.used # NoRequest)
  /\ node.state = "registered" =>
       node.key # None /\ node.session # 0 /\ code.used = [nonce |-> node.session, code |-> code.n]
  /\ node.state = "pending" => node.session = 0
  /\ code.live /\ code.used # NoRequest => node.state = "registered"
  /\ \A c \in Clients :
       /\ pending[c].code <= code.n /\ reg[c].code <= code.n
       /\ pending[c].nonce <= nonces /\ reg[c].token <= nonces
       /\ pending[c].nonce = 0 <=> pending[c] = NoRequest
       /\ reg[c].token = 0 <=> reg[c] = NoSession
       /\ call[c].pc # "idle" => reg[c] = NoSession
       /\ call[c].pc \in {"posted", "verifying"} => pending[c] # NoRequest
       /\ call[c].pc = "verifying" => code.used # pending[c]
       /\ node.session # 0 /\ node.session \in {pending[c].nonce, reg[c].token} => node.key = c
  /\ \A c, d \in Clients :
       c # d => /\ pending[c].nonce # 0 => pending[c].nonce \notin {pending[d].nonce, reg[d].token}
                /\ reg[c].token # 0 => reg[c].token # reg[d].token

\* The key a node was first registered with is never replaced, not even by a machine
\* that enrols with a later code (public_key in EnrollmentChallenge and EnrollNode).
KeyPinned == [][node.key # None => node'.key = node.key]_vars

=============================================================================
