---------------------------- MODULE DerperServer ----------------------------
(***************************************************************************)
(* The part of the derper that the patch adds to Tailscale's DERP server   *)
(* (patches/tailscale/uniderp.patch: derpserver.go, uniderp.go,            *)
(* uniderp_traffic.go): the policy in force and its bindings, the          *)
(* handshake that reads a binding before it registers, the timer that      *)
(* closes what is no longer admitted, and the packets queued for a client  *)
(* against the budgets of its tailnet and of the tailnet's group.          *)
(*                                                                         *)
(* What the code does under Server.mu is one step.  A reading of the clock *)
(* has a wall part and a monotonic part: until, which comes from the       *)
(* policy, is compared with the first, the deadline that is derived from   *)
(* it with the second.  The machine may be suspended, when the monotonic   *)
(* clock stands still, or the wall clock may be set back, but not both.    *)
(* uniderpClockValidLocked compares monotonic readings, which do not run   *)
(* back, so that uniderpClockBad stays unset and is left out.              *)
(***************************************************************************)
EXTENDS Integers, Sequences, FiniteSets, Functions

CONSTANTS
  Conns,        \* connections
  KeyOf,        \* the key that the client of each connection proves
  Keys,         \* node keys of clients
  Grants,       \* grants of the node
  Tailnets,     \* tailnets
  TailnetOf,    \* the tailnet of each grant
  Offers,       \* what a policy may say
  Boot,         \* the policy in the cache when the derper starts
  None,         \* no binding
  QueueLen,     \* length of a client's send queue (32 packets in the code)
  TailnetBytes, \* uniderpTailnetQueueBytes
  GroupBytes,   \* uniderpGroupQueueBytes
  Sizes,        \* sizes of packets
  MaxRevision,  \* bound: revisions
  MaxTime       \* bound: time

Groups == {"owner", "shared"}

ASSUME ConstantsAssumption ==
  /\ KeyOf \in [Conns -> Keys]
  /\ TailnetOf \in [Grants -> Tailnets]
  /\ Offers \subseteq [keys : [Keys -> [grant : Grants, until : 0..MaxTime] \cup {None}],
                       group : [Tailnets -> Groups]]
  /\ Boot \in Offers
  /\ QueueLen \in Nat \ {0}
  /\ TailnetBytes \in Nat /\ GroupBytes \in Nat
  /\ Sizes \subseteq Nat \ {0}
  /\ MaxRevision \in Nat /\ MaxTime \in Nat \ {0}

VARIABLES
  now,      \* real time
  wall,     \* the wall clock
  mono,     \* the monotonic clock
  rev,      \* the policies applied so far
  binding,  \* uniderpPolicy.keys: each key's grant, until and deadline
  traffic,  \* uniderpPolicy.traffic: the counters of each tailnet in the policy, or 0
  group,    \* the group of each tailnet
  budget,   \* bytes reserved on each set of counters, and on each group (uniderpGroupQueued)
  conn,     \* the connections
  queue,    \* the send queue of each
  hand,     \* the packet that each sender has taken from its queue
  limit     \* history: the real time at which each key's authorization runs out

clock == <<now, wall, mono>>
policy == <<rev, binding, traffic, group, limit>>
packets == <<queue, hand>>
vars == <<now, wall, mono, rev, binding, traffic, group, budget, conn, queue, hand, limit>>

\* The sets of counters in use: those of the policy, and those that packets still hold.
\* The number of one that nothing refers to any more is used again.
Counters == 1..(2 * Cardinality(Tailnets) + Cardinality(Conns) * (QueueLen + 1))

Packets == [n : Sizes, counter : Counters, group : Groups]
NoPacket == [n |-> 0]
NoBytes == [counter |-> [i \in Counters |-> 0], group |-> [g \in Groups |-> 0]]

\* accept: "new", "bound", "hello" (registered, the server info is being written), "up" (run),
\* "gone"; the sender, which run starts: "off", "idle" in its select, "wait" for the scheduler,
\* "write", "stop" (on its way out), "closed" (uniderpSendClosed, which stays).
Places == {"new", "bound", "hello", "up", "gone"}
Senders == {"off", "idle", "wait", "write", "stop", "closed"}
NoConn == [pc |-> "new", grant |-> None, send |-> "off",
           cancelled |-> FALSE, left |-> FALSE]

TypeOK ==
  /\ now \in 0..MaxTime /\ wall \in 0..MaxTime /\ mono \in 0..MaxTime
  /\ rev \in 0..MaxRevision
  /\ \A k \in Keys : binding[k] = None
                       \/ binding[k] \in [grant : Grants, until : 0..MaxTime, deadline : Int]
  /\ traffic \in [Tailnets -> Counters \cup {0}]
  /\ group \in [Tailnets -> Groups]
  /\ budget \in [counter : [Counters -> Nat], group : [Groups -> Nat]]
  /\ conn \in [Conns -> [pc : Places, grant : Grants \cup {None},
                         send : Senders, cancelled : BOOLEAN, left : BOOLEAN]]
  /\ \A c \in Conns : Len(queue[c]) <= QueueLen /\ \A i \in 1..Len(queue[c]) : queue[c][i] \in Packets
  /\ hand \in [Conns -> Packets \cup {NoPacket}]
  /\ limit \in [Keys -> Nat]

\* EnableUniDERP: no keys.  The policy in the cache is applied before anything else.
Init ==
  /\ now = 1 /\ wall = 1 /\ mono = 1
  /\ rev = 0
  /\ binding = [k \in Keys |-> None]
  /\ traffic = [t \in Tailnets |-> 0]
  /\ group = [t \in Tailnets |-> "owner"]
  /\ budget = NoBytes
  /\ conn = [c \in Conns |-> NoConn]
  /\ queue = [c \in Conns |-> <<>>]
  /\ hand = [c \in Conns |-> NoPacket]
  /\ limit = [k \in Keys |-> 0]

-----------------------------------------------------------------------------
(* The clock *)

Tick ==
  /\ now < MaxTime
  /\ now' = now + 1 /\ wall' = wall + 1 /\ mono' = mono + 1
  /\ UNCHANGED <<policy, budget, packets, conn>>

Suspend ==
  /\ now < MaxTime /\ now = wall /\ now = mono
  /\ now' = now + 1 /\ wall' = wall + 1
  /\ UNCHANGED <<mono, policy, budget, packets, conn>>

SetBack ==
  /\ now = wall /\ now = mono
  /\ wall' = wall - 1
  /\ UNCHANGED <<now, mono, policy, budget, packets, conn>>

-----------------------------------------------------------------------------
(* Bindings *)

\* Fault: the time in the policy is not looked at.
InTime_DeadlineOnly(b) == b # None /\ mono < b.deadline

\* uniderpBindingLocked: there is a binding, and neither clock has reached its end.
InTime(b) == b # None /\ wall < b.until /\ mono < b.deadline

\* uniderpClientAllowedLocked under the bindings b: the key of the connection is admitted
\* under the connection's grant.
AllowedBy(b, c) == InTime(b[KeyOf[c]]) /\ b[KeyOf[c]].grant = conn[c].grant
Allowed(c) == AllowedBy(binding, c)

\* The budgets after a packet is reserved, and after some are released (uniderpRelease).
Reserved(b, p) == [b EXCEPT !.counter[p.counter] = @ + p.n, !.group[p.group] = @ + p.n]
Less(p, b) == [b EXCEPT !.counter[p.counter] = @ - p.n, !.group[p.group] = @ - p.n]
Released(b, ps) == FoldFunction(Less, b, ps)

\* The packets in the queues of some connections, one queue after the other.
QueuesOf(cs) == FoldFunctionOnSet(\o, <<>>, queue, cs)

\* The connection is among the server's clients.
Registered(c) == conn[c].pc \in {"hello", "up"}

\* uniderpReapLocked under the bindings b: every registered connection that is not allowed is
\* cancelled and its queue emptied.  What its sender has in hand stays with the sender.
Reap(b) ==
  LET reaped == {c \in Conns : Registered(c) /\ ~AllowedBy(b, c)} IN
  /\ budget' = Released(budget, QueuesOf(reaped))
  /\ conn' = [c \in Conns |-> IF c \in reaped THEN [conn[c] EXCEPT !.cancelled = TRUE] ELSE conn[c]]
  /\ queue' = [c \in Conns |-> IF c \in reaped THEN <<>> ELSE queue[c]]

\* The timer, at least once a second, and UniDERPPolicyStatus.
Timer ==
  /\ Reap(binding)
  /\ UNCHANGED <<clock, policy, hand>>

\* The deadline of a key: what is left until then, but no later than the one it has if until
\* is no later either.
Deadline(k, until) ==
  LET fresh == mono + until - wall
      old == binding[k]
  IN IF old # None /\ until <= old.until /\ old.deadline < fresh THEN old.deadline ELSE fresh

\* The same in real time, for a wall clock that is right whenever a policy is applied.
Limit(k, until) ==
  LET fresh == now + until - wall
      old == binding[k]
  IN IF old # None /\ until <= old.until /\ limit[k] < fresh THEN limit[k] ELSE fresh

\* The tailnets with a rule in the policy are those of its grants.
TailnetsOf(offer) ==
  {TailnetOf[offer.keys[k].grant] : k \in {j \in Keys : offer.keys[j] # None}}

\* A set of counters for each tailnet that nothing refers to.
NewCounters ==
  LET unused == Counters \ ({traffic[t] : t \in Tailnets} \cup {i \in Counters : budget.counter[i] > 0})
  IN CHOOSE f \in [Tailnets -> unused] :
       /\ \A t, u \in Tailnets : f[t] = f[u] => t = u
       /\ \A t \in Tailnets : Cardinality({i \in unused : i < f[t]}) < Cardinality(Tailnets)

\* ApplyUniDERPPolicy with a newer revision; the same one changes nothing, an older one is
\* refused.
Apply(offer) ==
  /\ rev < MaxRevision
  /\ rev' = rev + 1
  /\ binding' = [k \in Keys |->
       IF offer.keys[k] = None THEN None
       ELSE [grant |-> offer.keys[k].grant, until |-> offer.keys[k].until,
             deadline |-> Deadline(k, offer.keys[k].until)]]
  /\ limit' = [k \in Keys |-> IF offer.keys[k] = None THEN 0 ELSE Limit(k, offer.keys[k].until)]
  /\ traffic' = [t \in Tailnets |-> IF t \notin TailnetsOf(offer) THEN 0
                                    ELSE IF traffic[t] # 0 THEN traffic[t] ELSE NewCounters[t]]
  /\ group' = offer.group
  /\ Reap(binding')
  /\ UNCHANGED <<clock, hand>>

-----------------------------------------------------------------------------
(* accept *)

\* The client proves its key.  verifyClient finds it admitted, and then the binding is read
\* again, for the tailnet and the grant of the connection: the second reading decides.
Bind(c) ==
  /\ conn[c].pc = "new" /\ InTime(binding[KeyOf[c]])
  /\ conn' = [conn EXCEPT ![c].pc = "bound", ![c].grant = binding[KeyOf[c]].grant]
  /\ UNCHANGED <<clock, policy, budget, packets>>

\* Fault: what the handshake has read is taken to be still true.
Register_NoCheck(c) ==
  /\ conn[c].pc = "bound"
  /\ conn' = [conn EXCEPT ![c].pc = "hello"]
  /\ UNCHANGED <<clock, policy, budget, packets>>

\* registerClient refuses a connection whose authorization has changed meanwhile.
Register(c) ==
  /\ conn[c].pc = "bound"
  /\ conn' = IF Allowed(c) THEN [conn EXCEPT ![c].pc = "hello"]
                           ELSE [conn EXCEPT ![c] = [NoConn EXCEPT !.pc = "gone"]]
  /\ UNCHANGED <<clock, policy, budget, packets>>

\* sendServerInfo has written, and run starts the sender,
StartRun(c) ==
  /\ conn[c].pc = "hello"
  /\ conn' = [conn EXCEPT ![c].pc = "up", ![c].send = "idle"]
  /\ UNCHANGED <<clock, policy, budget, packets>>

\* or the write fails, and accept unregisters the client, which never had a sender, and cancels
\* its context: what was queued for it since its registration stays in the queue.
HelloFails(c) ==
  /\ conn[c].pc = "hello"
  /\ conn' = [conn EXCEPT ![c] = [NoConn EXCEPT !.pc = "gone"]]
  /\ UNCHANGED <<clock, policy, budget, packets>>

\* The receiving loop of run ends: the peer has gone, or a frame finds that the client is not
\* allowed any more.  The sender is told to stop.
RunEnds(c) ==
  /\ conn[c].pc = "up" /\ ~conn[c].left /\ ~conn[c].cancelled /\ conn[c].send # "closed"
  /\ conn' = [conn EXCEPT ![c].left = TRUE]
  /\ UNCHANGED <<clock, policy, budget, packets>>

\* run returns once its sender has; accept unregisters the client and cancels its context.
Unregister(c) ==
  /\ conn[c].pc = "up" /\ conn[c].send = "closed"
  /\ conn' = [conn EXCEPT ![c] = [NoConn EXCEPT !.pc = "gone", !.send = "closed"]]
  /\ UNCHANGED <<clock, policy, budget, packets>>

-----------------------------------------------------------------------------
(* Packets *)

\* Fault: the sender may have closed.
Reservable_Closed(c, n) ==
  LET t == TailnetOf[conn[c].grant] IN
  /\ Allowed(c)
  /\ traffic[t] # 0
  /\ budget.counter[traffic[t]] + n <= TailnetBytes
  /\ budget.group[group[t]] + n <= GroupBytes

\* uniderpReservePacketLocked.
Reservable(c, n) ==
  LET t == TailnetOf[conn[c].grant] IN
  /\ conn[c].send # "closed"
  /\ Allowed(c)
  /\ traffic[t] # 0
  /\ budget.counter[traffic[t]] + n <= TailnetBytes
  /\ budget.group[group[t]] + n <= GroupBytes

\* Fault: the packet that makes room is not released.
Displaced_NotReleased(c) == <<>>

\* A full queue gives up its head.
Displaced(c) == IF Len(queue[c]) = QueueLen THEN <<Head(queue[c])>> ELSE <<>>

\* sendPkt of some client for connection c: reserve, then enqueue unless the connection's
\* context is done.  A packet that cannot be reserved is dropped.
SendPkt(c, n) ==
  /\ Registered(c)
  /\ Reservable(c, n)
  /\ ~conn[c].cancelled
  /\ LET t == TailnetOf[conn[c].grant]
         p == [n |-> n, counter |-> traffic[t], group |-> group[t]]
     IN /\ budget' = Released(Reserved(budget, p), Displaced(c))
        /\ queue' = [queue EXCEPT ![c] =
                       (IF Len(@) = QueueLen THEN Tail(@) ELSE @) \o <<p>>]
  /\ UNCHANGED <<clock, policy, conn, hand>>

Send(c, place) == conn' = [conn EXCEPT ![c].send = place]

\* The select of sendLoop: a packet,
Take(c) ==
  /\ conn[c].send = "idle" /\ queue[c] # <<>>
  /\ hand' = [hand EXCEPT ![c] = Head(queue[c])]
  /\ queue' = [queue EXCEPT ![c] = Tail(@)]
  /\ Send(c, "wait")
  /\ UNCHANGED <<clock, policy, budget>>

\* Fault: the sender's context is that of the connection.
SendLoopEnds_ConnOnly(c) ==
  /\ conn[c].send = "idle" /\ conn[c].cancelled
  /\ Send(c, "stop")
  /\ UNCHANGED <<clock, policy, budget, packets>>

\* or the end of its context.
SendLoopEnds(c) ==
  /\ conn[c].send = "idle" /\ (conn[c].left \/ conn[c].cancelled)
  /\ Send(c, "stop")
  /\ UNCHANGED <<clock, policy, budget, packets>>

\* The packet in hand is done with, in one way or the other (sendQueuedPacket's defer).
Release(c) ==
  /\ budget' = Released(budget, <<hand[c]>>)
  /\ hand' = [hand EXCEPT ![c] = NoPacket]

\* The connection's context ends the wait for the scheduler,
WaitEnds(c) ==
  /\ conn[c].send = "wait" /\ conn[c].cancelled
  /\ Release(c)
  /\ Send(c, "stop")
  /\ UNCHANGED <<clock, policy, queue>>

\* or the scheduler lets the packet pass.  sendPacket asks again whether the client is allowed,
Check(c) ==
  /\ conn[c].send = "wait"
  /\ IF Allowed(c) THEN Send(c, "write") /\ UNCHANGED <<budget, hand>>
                   ELSE Send(c, "stop") /\ Release(c)
  /\ UNCHANGED <<clock, policy, queue>>

\* and writes, or fails to.
Write(c) ==
  /\ conn[c].send = "write"
  /\ Release(c)
  /\ Send(c, "idle") \/ Send(c, "stop")
  /\ UNCHANGED <<clock, policy, queue>>

\* onSendLoopDone: the queue is closed and drained.
OnSendLoopDone(c) ==
  /\ conn[c].send = "stop"
  /\ Send(c, "closed")
  /\ budget' = Released(budget, queue[c])
  /\ queue' = [queue EXCEPT ![c] = <<>>]
  /\ UNCHANGED <<clock, policy, hand>>

-----------------------------------------------------------------------------

Sender(c) ==
  \/ Take(c)
  \/ SendLoopEnds(c)
  \/ WaitEnds(c)
  \/ Check(c)
  \/ Write(c)
  \/ OnSendLoopDone(c)

Next ==
  \/ Tick \/ Suspend \/ SetBack
  \/ Timer
  \/ \E offer \in Offers : (rev = 0 => offer = Boot) /\ Apply(offer)
  \/ \E c \in Conns :
       \/ Bind(c)
       \/ Register(c)
       \/ StartRun(c)
       \/ HelloFails(c)
       \/ RunEnds(c)
       \/ Unregister(c)
       \/ \E n \in Sizes : SendPkt(c, n)
       \/ Sender(c)

\* The timer is always set again; a write to a connection that reap has closed returns, also the
\* one of the server info; a sender that can go on does, and its select does not pass over the
\* end of its context for ever.
Fairness ==
  /\ WF_vars(Timer)
  /\ \A c \in Conns :
       /\ WF_vars(conn[c].cancelled /\ (StartRun(c) \/ HelloFails(c)))
       /\ WF_vars(Sender(c) \/ Unregister(c))
       /\ SF_vars(SendLoopEnds(c))

Spec == Init /\ [][Next]_vars /\ Fairness

-----------------------------------------------------------------------------
(* Properties *)

\* The refinement: admitted are the pairs whose time has not run out; a connection is open
\* from its registration until it is cancelled or one of its two loops ends.
Promise == INSTANCE Admission WITH
  version <- rev,
  inForce <- {<<k, binding[k].grant>> : k \in {j \in Keys : InTime(binding[j])}},
  open <- [c \in Conns |->
             IF Registered(c) /\ conn[c].send \notin {"stop", "closed"}
                  /\ ~conn[c].cancelled /\ ~conn[c].left
               THEN <<KeyOf[c], conn[c].grant>> ELSE <<>>]

\* Admission, reap and the timer keep the promise of Admission: no connection opens under a
\* grant that has gone while it shook hands, a new policy closes what it does not admit, a
\* clock that is set back revives nothing, and what has lapsed is closed.
ImplementsAdmission == Promise!Spec

\* A key is admitted no longer than what was left of its time, by the wall clock, when a policy
\* gave it that time: neither a suspended machine nor a clock set back adds to it, nor a later
\* policy with no later time (uniderpBindingLocked, ApplyUniDERPPolicy).
NoOvertime == \A k \in Keys : InTime(binding[k]) => now < limit[k]

\* The packets in the hands of some senders.
HandsOf(cs) ==
  FoldFunctionOnSet(\o, <<>>, [c \in cs |-> IF hand[c] = NoPacket THEN <<>> ELSE <<hand[c]>>], cs)

\* The counters are exactly what is held in queues and by senders, whatever policies, displaced
\* heads, reaps and ends of senders have come between reservation and release; so what a
\* tailnet and a group hold in memory stays within their budgets.  The queue of a connection
\* that ended in "hello" counts as holding what is in it.
BudgetExact ==
  /\ TypeOK
  /\ Released(budget, QueuesOf(Conns) \o HandsOf(Conns)) = NoBytes
  /\ \A i \in Counters : budget.counter[i] <= TailnetBytes
  /\ \A g \in Groups : budget.group[g] <= GroupBytes

\* A packet never waits for a sender that has gone, nor for a client before it is registered
\* (onSendLoopDone against sendPkt).  Only a client whose server info could not be written goes
\* without a sender to drain its queue: accept returns between registerClient and run, and what
\* was queued for it in between keeps its place and its bytes.
NoPacketStranded ==
  \A c \in Conns :
    conn[c].send = "closed" \/ conn[c].pc \in {"new", "bound"}
      => queue[c] = <<>> /\ hand[c] = NoPacket

\* The inductive invariant behind NoOvertime, NoPacketStranded and the refinement.  At most one
\* of the two clocks is behind real time, by one.
OneClockBehind ==
  \/ wall = now /\ mono \in {now, now - 1}
  \/ mono = now /\ wall = now - 1

\* The deadline of a key is no later than its real limit; while the wall clock is right it is
\* also no later than until, and earlier than the limit wherever until is not the tighter bound:
\* so a suspension, which the deadline does not see, leaves until to end the time.
DeadlineTight(k) ==
  binding[k] # None =>
    /\ binding[k].deadline <= limit[k]
    /\ wall = now => /\ binding[k].deadline <= binding[k].until
                     /\ binding[k].until <= limit[k] \/ binding[k].deadline < limit[k]

\* A connection has a sender while it is in run, and one that has closed afterwards; it is
\* cancelled only while it is registered, and has left only in run; the sender has a packet in
\* hand only between its select and the release; nothing is queued before the registration or
\* once the sender has closed.
SenderPlaced(c) ==
  /\ conn[c].pc = "up" => conn[c].send # "off"
  /\ conn[c].pc \in {"new", "bound", "hello"} => conn[c].send = "off"
  /\ conn[c].pc = "gone" => conn[c].send \in {"off", "closed"}
  /\ conn[c].cancelled => Registered(c)
  /\ conn[c].left => conn[c].pc = "up"
  /\ conn[c].send \notin {"wait", "write"} => hand[c] = NoPacket
  /\ conn[c].send = "closed" \/ conn[c].pc \in {"new", "bound"} => queue[c] = <<>>

RelayInv ==
  /\ now \in 1..MaxTime /\ wall \in 0..MaxTime /\ mono \in 0..MaxTime
  /\ OneClockBehind
  /\ \A k \in Keys : binding[k] = None
                       \/ binding[k] \in [grant : Grants, until : 0..MaxTime, deadline : Int]
  /\ limit \in [Keys -> Nat]
  /\ conn \in [Conns -> [pc : Places, grant : Grants \cup {None},
                         send : Senders, cancelled : BOOLEAN, left : BOOLEAN]]
  /\ queue = [c \in Conns |-> queue[c]] /\ hand = [c \in Conns |-> hand[c]]
  /\ \A k \in Keys : DeadlineTight(k)
  /\ \A c \in Conns : SenderPlaced(c)

\* A connection that is cancelled, or whose receiving loop has ended, goes.
ConnectionsEnd == \A c \in Conns : (conn[c].cancelled \/ conn[c].left) ~> conn[c].pc = "gone"

=============================================================================
