---------------------------- MODULE NodeSession ----------------------------
(***************************************************************************)
(* How a registered node gets and keeps its session: challenge, proof and  *)
(* renewal, heartbeats and the instance lease, a change of domain, and a   *)
(* copied disk (internal/control/nodes.go, policy.go, resources.go; the    *)
(* node in internal/cluster/client.go, node_client.go).                    *)
(*                                                                         *)
(* A process draws a new instance id when it starts and works on one disk, *)
(* which holds the node's key and registration.  Two disks are the         *)
(* original and a copy of it.  Requests stay on the wire until the         *)
(* controller takes them up; answers can be lost.  Time is what is left of *)
(* leases and waits.                                                       *)
(***************************************************************************)
EXTENDS Naturals, FiniteSets

CONSTANTS
  Instances,    \* processes of the node, each started at most once
  First,        \* the one that enrolled and is running at the start
  Disks,        \* disks with the node's registration
  Original,     \* the disk the first process works on
  Lease,        \* length of the lease, and of the wait after a restart
  LateRequests, \* a request may be taken up after its process has died
  MaxChallenges, \* open challenges of a node (8 in the code)
  MaxNonces,    \* bound: nonces and tokens in use at a time
  MaxDomain,    \* bound: changes of domain
  MaxFaults     \* bound: lost answers and failed writes

ASSUME ConstantsAssumption ==
  /\ First \in Instances
  /\ Original \in Disks
  /\ Lease \in Nat \ {0}
  /\ LateRequests \in BOOLEAN
  /\ MaxChallenges \in Nat \ {0}
  /\ MaxNonces \in Nat \ {0}
  /\ MaxDomain \in Nat
  /\ MaxFaults \in Nat

VARIABLES
  enabled,     \* users.enabled of the node's owner
  state,       \* nodes.state; "registered" stands for ready and offline too
  domain,      \* nodes.domain
  instance,    \* nodes.instance_id
  lease,       \* what is left until nodes.lease_until
  session,     \* the token in node_sessions, 0 when there is none
  challenges,  \* node_challenges: not used and not expired
  probing,     \* domain changes between the two transactions of RenewNodeSession
  wire,        \* requests on their way to the controller
  proc,        \* the processes
  disk,        \* the registration on each disk
  promise,     \* history: what is left of the latest lease given to each process
  presented,   \* history: the process that met the identity conflict
  faults       \* faults so far

row == <<enabled, state, domain, instance, lease, session, challenges>>
vars == <<enabled, state, domain, instance, lease, session, challenges, probing, wire, proc,
          disk, promise, presented, faults>>

Nonces == 0..MaxNonces
Challenges == [nonce : Nonces, instance : Instances, purpose : {"session", "domain_change"},
               domain : 0..MaxDomain]
NoChallenge == [nonce |-> 0, instance |-> First, purpose |-> "session", domain |-> 0]

\* A heartbeat is known by its sender and its token.
Beats == [token : Nonces, instance : Instances]

\* "new": not started; "wait": in the wait after a restart; "idle": about to renew;
\* "posted": a renewal is posted; "up": it holds a session; "conflict": its loop has
\* ended with ErrIdentityConflict; "dead": it has stopped.
Places == {"new", "wait", "idle", "posted", "up", "conflict", "dead"}
Running == {"wait", "idle", "posted", "up", "conflict"}

TypeOK ==
  /\ enabled \in BOOLEAN
  /\ state \in {"registered", "domain_pending", "identity_conflict"}
  /\ domain \in 0..MaxDomain
  /\ instance \in Instances
  /\ lease \in 0..Lease
  /\ session \in Nonces
  /\ challenges \subseteq Challenges
  /\ probing \subseteq Challenges
  /\ wire \subseteq [kind : {"renew"}, ch : Challenges] \cup [kind : {"beat"}, ch : Beats]
  /\ proc \in [Instances -> [pc : Places, disk : Disks, wait : 0..Lease, ch : Challenges]]
  /\ disk \in [Disks -> [instance : Instances, token : Nonces, domain : 0..MaxDomain]]
  /\ promise \in [Instances -> 0..Lease]
  /\ presented \in Instances
  /\ faults \in 0..MaxFaults

Init ==
  /\ enabled = TRUE
  /\ state = "registered"
  /\ domain = 0
  /\ instance = First
  /\ lease = Lease
  /\ session = 1
  /\ challenges = {}
  /\ probing = {}
  /\ wire = {}
  /\ proc = [i \in Instances |-> [pc |-> IF i = First THEN "up" ELSE "new", disk |-> Original,
                                  wait |-> 0, ch |-> NoChallenge]]
  /\ disk = [d \in Disks |-> [instance |-> First, token |-> 1, domain |-> 0]]
  /\ promise = [i \in Instances |-> IF i = First THEN Lease ELSE 0]
  /\ presented = First
  /\ faults = 0

-----------------------------------------------------------------------------

Fault == faults < MaxFaults /\ faults' = faults + 1

Less(n) == IF n = 0 THEN 0 ELSE n - 1

\* Time passes: what is left of the lease and of every wait gets shorter.
Tick ==
  /\ lease' = Less(lease)
  /\ proc' = [i \in Instances |-> [proc[i] EXCEPT !.wait = Less(@)]]
  /\ promise' = [i \in Instances |-> Less(promise[i])]
  /\ UNCHANGED <<enabled, state, domain, instance, session, challenges, probing, wire, disk,
                 presented, faults>>

Goto(i, place) ==
  proc' = [proc EXCEPT ![i].pc = place, ![i].ch = NoChallenge, ![i].wait = 0]

\* Randomly drawn nonces and tokens are not in use.
InUse ==
  {c.nonce : c \in challenges \cup probing} \cup {r.ch.nonce : r \in {w \in wire : w.kind = "renew"}}
    \cup {r.ch.token : r \in {w \in wire : w.kind = "beat"}}
    \cup {disk[d].token : d \in Disks} \cup {proc[i].ch.nonce : i \in Instances} \cup {session, 0}

\* One daemon at a time works on a disk.
Start(i, d) ==
  /\ proc[i].pc = "new"
  /\ \A j \in Instances : proc[j].pc \in Running => proc[j].disk # d
  /\ proc' = [proc EXCEPT ![i].pc = "wait", ![i].disk = d, ![i].wait = Lease]
  /\ UNCHANGED <<row, probing, wire, disk, promise, presented, faults>>

Stop(i) ==
  /\ proc[i].pc \in Running
  /\ Goto(i, "dead")
  /\ wire' = IF LateRequests THEN wire ELSE {w \in wire : w.ch.instance # i}
  /\ probing' = IF LateRequests THEN probing ELSE {c \in probing : c.instance # i}
  /\ UNCHANGED <<row, disk, promise, presented, faults>>

\* Fault: the restarted process does not wait.
WaitOver_NoWait(i) ==
  /\ proc[i].pc = "wait"
  /\ Goto(i, "idle")
  /\ UNCHANGED <<row, probing, wire, disk, promise, presented, faults>>

\* RunControl: a registration of another instance is waited out.
WaitOver(i) ==
  /\ proc[i].pc = "wait"
  /\ proc[i].wait = 0
  /\ Goto(i, "idle")
  /\ UNCHANGED <<row, probing, wire, disk, promise, presented, faults>>

\* A process that is up renews ahead of the session's end, or after a 401.
RenewDue(i) ==
  /\ proc[i].pc = "up"
  /\ Goto(i, "idle")
  /\ UNCHANGED <<row, probing, wire, disk, promise, presented, faults>>

-----------------------------------------------------------------------------
(* Challenge and renewal *)

\* RenewSession accepts a challenge for the domain it knows, or for a new one.
Valid(i, c) == c.purpose = "domain_change" \/ c.domain = disk[proc[i].disk].domain

\* SessionChallenge, and what RenewSession does with the answer: it posts the proof,
\* or it gives up and tries again later.  With too many open challenges, or while the owner
\* is disabled, it is refused.
SessionChallenge(i) ==
  /\ proc[i].pc = "idle"
  /\ enabled
  /\ state \in {"registered", "domain_pending"}
  /\ Cardinality(challenges) < MaxChallenges
  /\ \E n \in 1..MaxNonces :
       LET c == [nonce |-> n, instance |-> i, domain |-> domain,
                 purpose |-> IF state = "domain_pending" THEN "domain_change" ELSE "session"]
       IN /\ n \notin InUse
          /\ \A m \in 1..(n - 1) : m \in InUse
          /\ challenges' = challenges \cup {c}
          /\ \/ /\ Valid(i, c)
                /\ proc' = [proc EXCEPT ![i].pc = "posted", ![i].ch = c]
                /\ wire' = wire \cup {[kind |-> "renew", ch |-> c]}
                /\ UNCHANGED faults
             \/ ~Valid(i, c) /\ UNCHANGED <<proc, wire, faults>>
             \/ Fault /\ UNCHANGED <<proc, wire>>
  /\ UNCHANGED <<enabled, state, domain, instance, lease, session, probing, disk, promise,
                 presented>>

ExpireChallenge(c) ==
  /\ c \in challenges
  /\ [kind |-> "renew", ch |-> c] \notin wire /\ c \notin probing
  /\ challenges' = challenges \ {c}
  /\ UNCHANGED <<enabled, state, domain, instance, lease, session, probing, wire, proc, disk,
                 promise, presented, faults>>

\* Fault: a lost answer is waited for without end.
Answered_NoTimeout(c, place) ==
  LET i == c.instance IN
  IF proc[i].pc = "posted" /\ proc[i].ch = c
    THEN \/ Goto(i, place) /\ UNCHANGED faults
         \/ Fault /\ UNCHANGED proc
    ELSE UNCHANGED <<proc, faults>>

\* The answer to the renewal with challenge c: the process takes it, or it is lost.
Answered(c, place) ==
  LET i == c.instance IN
  IF proc[i].pc = "posted" /\ proc[i].ch = c
    THEN \/ Goto(i, place) /\ UNCHANGED faults
         \/ Fault /\ Goto(i, "idle")
    ELSE UNCHANGED <<proc, faults>>

Taken(c) == wire' = wire \ {[kind |-> "renew", ch |-> c]}

\* checkNodeChallenge and the row the second transaction of RenewNodeSession wants.
Proven(c) ==
  /\ enabled
  /\ c \in challenges
  /\ c.domain = domain
  /\ state = IF c.purpose = "session" THEN "registered" ELSE "domain_pending"

\* Fault: the last moment of a lease does not count.
Held_OffByOne(c) == instance # c.instance /\ lease > 1

\* The lease belongs to another instance and is running.
Held(c) == instance # c.instance /\ lease > 0

\* A lease is given from now on, whatever is left of the one before.
NewLease == Lease

\* The last transaction of RenewNodeSession.
Decide(c) ==
  IF Held(c)
    THEN /\ state' = "identity_conflict"
         /\ session' = 0
         /\ presented' = c.instance
         /\ challenges' = challenges \ {c}
         /\ Answered(c, "conflict")
         /\ UNCHANGED <<instance, lease, disk, promise>>
    ELSE /\ state' = "registered"
         /\ instance' = c.instance
         /\ lease' = NewLease
         /\ session' = c.nonce
         /\ promise' = [promise EXCEPT ![c.instance] = Lease]
         /\ challenges' = challenges \ {c}
         /\ Answered(c, "up")
         /\ disk' = IF proc'[c.instance].pc = "up" /\ proc[c.instance].pc = "posted"
                      THEN [disk EXCEPT ![proc[c.instance].disk] =
                             [instance |-> c.instance, token |-> c.nonce, domain |-> c.domain]]
                      ELSE disk
         /\ UNCHANGED presented

RenewNodeSession(c) ==
  /\ [kind |-> "renew", ch |-> c] \in wire
  /\ c.purpose = "session" /\ Proven(c)
  /\ Taken(c)
  /\ Decide(c)
  /\ UNCHANGED <<enabled, domain, probing>>

\* The first transaction for a change of domain.
CheckDomain(c) ==
  /\ [kind |-> "renew", ch |-> c] \in wire
  /\ c.purpose = "domain_change" /\ Proven(c)
  /\ Taken(c)
  /\ probing' = probing \cup {c}
  /\ UNCHANGED <<row, proc, disk, promise, presented, faults>>

\* The proof was served under the new domain, and the second transaction agrees.
VerifyDomain(c) ==
  /\ c \in probing /\ Proven(c)
  /\ probing' = probing \ {c}
  /\ Decide(c)
  /\ UNCHANGED <<enabled, domain, wire>>

\* The proof cannot be fetched, or things have changed meanwhile.
VerifyFails(c) ==
  /\ c \in probing
  /\ probing' = probing \ {c}
  /\ \/ ~Proven(c) /\ Answered(c, "idle")
     \/ Proven(c) /\ Fault
        /\ proc' = IF proc[c.instance].pc = "posted" /\ proc[c.instance].ch = c
                     THEN [proc EXCEPT ![c.instance].pc = "idle",
                                       ![c.instance].ch = NoChallenge]
                     ELSE proc
  /\ UNCHANGED <<row, wire, disk, promise, presented>>

Refuse(c) ==
  /\ [kind |-> "renew", ch |-> c] \in wire
  /\ ~Proven(c)
  /\ Taken(c)
  /\ Answered(c, "idle")
  /\ UNCHANGED <<row, probing, disk, promise, presented>>

\* The client's timeout: the request may still be on the wire.
Timeout(i) ==
  /\ proc[i].pc = "posted"
  /\ Fault
  /\ Goto(i, "idle")
  /\ UNCHANGED <<row, probing, wire, disk, promise, presented>>

-----------------------------------------------------------------------------
(* Heartbeats *)

Beat(i) ==
  /\ proc[i].pc = "up"
  /\ wire' = wire \cup {[kind |-> "beat", ch |-> [token |-> disk[proc[i].disk].token,
                                                  instance |-> i]]}
  /\ wire' # wire
  /\ UNCHANGED <<row, probing, proc, disk, promise, presented, faults>>

NodeHeartbeat(b) ==
  /\ [kind |-> "beat", ch |-> b] \in wire
  /\ wire' = wire \ {[kind |-> "beat", ch |-> b]}
  /\ IF b.token = session /\ state = "registered" /\ enabled
       THEN /\ lease' = NewLease
            /\ promise' = [promise EXCEPT ![b.instance] = Lease]
            /\ UNCHANGED proc
       ELSE /\ UNCHANGED <<lease, promise>>
            /\ IF proc[b.instance].pc = "up" THEN Goto(b.instance, "idle") ELSE UNCHANGED proc
  /\ UNCHANGED <<enabled, state, domain, instance, session, challenges, probing, disk, presented,
                 faults>>

-----------------------------------------------------------------------------
(* The owner, and the administrator *)

\* The relay is paused and drained (PolicyControl).
ChangeNodeDomain ==
  /\ state \in {"registered", "domain_pending"}
  /\ domain < MaxDomain
  /\ domain' = domain + 1
  /\ state' = "domain_pending"
  /\ session' = 0
  /\ challenges' = {}
  /\ UNCHANGED <<enabled, instance, lease, probing, wire, proc, disk, promise, presented, faults>>

\* The duplicates are stopped first; promises made before no longer count.
RecoverNodeInstance(i) ==
  /\ state = "identity_conflict"
  /\ proc[i].pc \in Running
  /\ \A j \in Instances \ {i} : proc[j].pc \notin Running
  /\ state' = "registered"
  /\ instance' = i
  /\ lease' = NewLease
  /\ session' = 0
  /\ challenges' = {}
  /\ promise' = [j \in Instances |-> IF j = i THEN Lease ELSE 0]
  /\ UNCHANGED <<enabled, domain, probing, wire, proc, disk, presented, faults>>

\* An administrator disables the owner, or enables them again.
SetUserEnabled ==
  /\ enabled' = ~enabled
  /\ UNCHANGED <<state, domain, instance, lease, session, challenges, probing, wire, proc, disk,
                 promise, presented, faults>>

-----------------------------------------------------------------------------

Renewals == {w.ch : w \in {v \in wire : v.kind = "renew"}}
Heartbeats == {w.ch : w \in {v \in wire : v.kind = "beat"}}

\* The controller takes up a request of process i, or goes on with one.
Controller(i) ==
  \/ \E c \in Renewals : c.instance = i /\ (RenewNodeSession(c) \/ CheckDomain(c) \/ Refuse(c))
  \/ \E c \in probing : c.instance = i /\ (VerifyDomain(c) \/ VerifyFails(c))
  \/ \E b \in Heartbeats : b.instance = i /\ NodeHeartbeat(b)

Node(i) == WaitOver(i) \/ RenewDue(i) \/ SessionChallenge(i) \/ Timeout(i) \/ Beat(i)

Environment ==
  \/ Tick
  \/ \E i \in Instances, d \in Disks : Start(i, d)
  \/ \E i \in Instances : Stop(i)
  \/ \E c \in challenges : ExpireChallenge(c)
  \/ ChangeNodeDomain
  \/ \E i \in Instances : RecoverNodeInstance(i)
  \/ SetUserEnabled

Next == (\E i \in Instances : Controller(i) \/ Node(i)) \/ Environment

SafetySpec == Init /\ [][Next]_vars

\* Every request has a goroutine of the controller to itself, challenges run out by the
\* clock, and a process that is to renew keeps trying (RunControl's loop).
Fairness ==
  /\ WF_vars(\E c \in challenges : ExpireChallenge(c))
  /\ \A i \in Instances : WF_vars(Controller(i)) /\ SF_vars(SessionChallenge(i))

Spec == SafetySpec /\ Fairness

-----------------------------------------------------------------------------
(* Properties *)

\* While a lease that the controller has given to a process runs, no other process
\* becomes the node's instance: a copy of the disk cannot displace a live node
\* (RenewNodeSession).  And the variables keep their types.
LeaseKept ==
  /\ TypeOK
  /\ \A i \in Instances : promise[i] > 0 /\ state # "identity_conflict" => instance = i

\* What LeaseKept rests on.  Tokens tell the instances apart: a challenge's nonce is in use
\* nowhere else, so that the session made of it is known to no disk and to no heartbeat but
\* those of the process that gets it.
LeaseInv ==
  /\ TypeOK
  /\ \A i \in Instances :
       promise[i] > 0 /\ state # "identity_conflict" => instance = i /\ promise[i] <= lease
  /\ \A c \in challenges :
       /\ c.nonce # 0 /\ c.nonce # session
       /\ \A e \in challenges : e.nonce = c.nonce => e = c
       /\ \A d \in Disks : disk[d].token # c.nonce
       /\ \A b \in Heartbeats : b.token # c.nonce
  /\ \A d \in Disks : disk[d].token # 0 /\ (disk[d].token = session => disk[d].instance = instance)
  /\ \A b \in Heartbeats : b.token # 0 /\ (b.token = session => b.instance = instance)
  /\ \A i \in Instances : proc[i].pc = "up" => disk[proc[i].disk].instance = i
  /\ \A i, j \in Instances :
       proc[i].pc \in Running /\ proc[j].pc \in Running /\ proc[i].disk = proc[j].disk => i = j

\* An identity conflict is only ever declared between two disks: a node that restarts
\* waits out every lease its earlier processes hold, heartbeats whose answer was lost
\* included.
ConflictMeansCopy ==
  state = "identity_conflict" => proc[presented].disk # proc[instance].disk

\* What ConflictMeansCopy rests on, when requests die with their process: whoever asks has
\* waited, and a process that shares its disk with the node's instance waits for as long as
\* that one's lease runs.
CopyInv ==
  /\ \A w \in wire : proc[w.ch.instance].pc \in Running \ {"wait"}
  /\ \A c \in probing : proc[c.instance].pc \in Running \ {"wait"}
  /\ \A i \in Instances : proc[i].pc \in Running \ {"wait"} => proc[i].wait = 0
  /\ \A i \in Instances :
       proc[i].pc \in Running /\ instance # i /\ proc[instance].disk = proc[i].disk =>
         lease <= proc[i].wait
  /\ proc[instance].pc # "new"
  /\ state = "identity_conflict" => proc[presented].pc # "new"
  /\ ConflictMeansCopy

\* The controller knows the node under a domain that the disk of process i does not have:
\* the answer that moved it there was lost, and a challenge for an ordinary session, which is
\* all the controller now offers, is one that RenewSession does not accept.
Stranded(i) == state = "registered" /\ disk[proc[i].disk].domain # domain

\* A process that wants to renew gets its session, unless an identity conflict is declared,
\* the process stops, the owner is disabled, or the process is stranded by a lost answer to a
\* change of domain; other lost answers and timeouts only delay it, and so does an owner who is
\* enabled again (RunControl, RenewSession, RenewNodeSession).
RenewalSucceeds ==
  \A i \in Instances :
    proc[i].pc = "idle" ~> \/ proc[i].pc \in {"up", "conflict", "dead"}
                          \/ state = "identity_conflict"
                          \/ ~enabled
                          \/ Stranded(i)

=============================================================================
