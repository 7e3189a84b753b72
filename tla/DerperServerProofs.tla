------------------------ MODULE DerperServerProofs ------------------------
(***************************************************************************)
(* The relay, for any connections, keys, policies, queue lengths, budgets  *)
(* and times: no key has more than its time, no sender leaves a packet     *)
(* behind, and the server implements the safety part of Admission.  The    *)
(* invariant has a part about the clocks and one about the connections,    *)
(* and no step needs the one to keep the other.                            *)
(***************************************************************************)
EXTENDS DerperServer, TLAPS

Clients == [pc : Places, grant : Grants \cup {None},
            send : Senders, cancelled : BOOLEAN, left : BOOLEAN]

Bindings == [grant : Grants, until : 0..MaxTime, deadline : Int]

TimeInv ==
  /\ now \in 1..MaxTime /\ wall \in 0..MaxTime /\ mono \in 0..MaxTime
  /\ OneClockBehind
  /\ \A k \in Keys : binding[k] = None \/ binding[k] \in Bindings
  /\ limit \in [Keys -> Nat]
  /\ \A k \in Keys : DeadlineTight(k)

ConnInv ==
  /\ conn \in [Conns -> Clients]
  /\ queue = [c \in Conns |-> queue[c]] /\ hand = [c \in Conns |-> hand[c]]
  /\ \A c \in Conns : SenderPlaced(c)

\* The invariant is its two parts.
LEMMA Parts == RelayInv <=> TimeInv /\ ConnInv
BY DEF RelayInv, TimeInv, ConnInv, Clients, Bindings

LEMMA PartsNext == TimeInv' /\ ConnInv' => RelayInv'
BY DEF RelayInv, TimeInv, ConnInv, Clients, Bindings

\* A derper starts with no keys, no connections and clocks that agree.
LEMMA InitInv == Init => RelayInv
<1>1. SUFFICES ASSUME Init PROVE TimeInv /\ ConnInv
  BY Parts
<1>2. TimeInv
  BY <1>1, ConstantsAssumption DEF Init, TimeInv, OneClockBehind, DeadlineTight
<1>3. NoConn \in Clients
  BY DEF NoConn, Clients, Places, Senders
<1>4. ConnInv
  BY <1>1, <1>3 DEF Init, ConnInv, SenderPlaced, NoConn, Registered
<1>5. QED
  BY <1>2, <1>4

-----------------------------------------------------------------------------
(* The clocks *)

\* A step that leaves the clocks and the policy alone keeps the times.
LEMMA TimeKeep ==
  ASSUME TimeInv, UNCHANGED <<now, wall, mono, binding, limit>>
  PROVE  TimeInv'
BY DEF TimeInv, OneClockBehind, DeadlineTight

\* Time passes on the three clocks alike.
LEMMA TickTime ==
  ASSUME TimeInv, Tick
  PROVE  TimeInv'
<1>1. /\ now' = now + 1 /\ wall' = wall + 1 /\ mono' = mono + 1 /\ now < MaxTime
      /\ UNCHANGED <<binding, limit>>
  BY DEF Tick, policy
<1>2. /\ now' \in 1..MaxTime /\ wall' \in 0..MaxTime /\ mono' \in 0..MaxTime
      /\ OneClockBehind'
  BY <1>1, ConstantsAssumption DEF TimeInv, OneClockBehind
<1>3. ASSUME NEW k \in Keys PROVE DeadlineTight(k)'
  <2>1. DeadlineTight(k)
    BY DEF TimeInv
  <2>2. wall' = now' => wall = now
    BY <1>1 DEF TimeInv
  <2>3. QED
    BY <2>1, <2>2, <1>1 DEF DeadlineTight
<1>4. QED
  BY <1>1, <1>2, <1>3 DEF TimeInv

\* While the machine is suspended only the monotonic clock stands still.
LEMMA SuspendTime ==
  ASSUME TimeInv, Suspend
  PROVE  TimeInv'
<1>1. /\ now' = now + 1 /\ wall' = wall + 1 /\ mono' = mono /\ now < MaxTime
      /\ now = wall /\ now = mono
      /\ UNCHANGED <<binding, limit>>
  BY DEF Suspend, policy
<1>2. /\ now' \in 1..MaxTime /\ wall' \in 0..MaxTime /\ mono' \in 0..MaxTime
      /\ OneClockBehind'
  BY <1>1, ConstantsAssumption DEF TimeInv, OneClockBehind
<1>3. ASSUME NEW k \in Keys PROVE DeadlineTight(k)'
  <2>1. DeadlineTight(k)
    BY DEF TimeInv
  <2>2. QED
    BY <2>1, <1>1 DEF DeadlineTight
<1>4. QED
  BY <1>1, <1>2, <1>3 DEF TimeInv

\* The wall clock is set back.
LEMMA SetBackTime ==
  ASSUME TimeInv, SetBack
  PROVE  TimeInv'
<1>1. /\ now' = now /\ wall' = wall - 1 /\ mono' = mono
      /\ now = wall /\ now = mono
      /\ UNCHANGED <<binding, limit>>
  BY DEF SetBack, policy
<1>2. /\ now' \in 1..MaxTime /\ wall' \in 0..MaxTime /\ mono' \in 0..MaxTime
      /\ OneClockBehind' /\ wall' # now'
  BY <1>1, ConstantsAssumption DEF TimeInv, OneClockBehind
<1>3. ASSUME NEW k \in Keys PROVE DeadlineTight(k)'
  <2>1. DeadlineTight(k)
    BY DEF TimeInv
  <2>2. QED
    BY <2>1, <1>1, <1>2 DEF DeadlineTight
<1>4. QED
  BY <1>1, <1>2, <1>3 DEF TimeInv

\* What a policy with the time u makes of the deadline and of the limit of a key: both are what
\* is left of u or what the key had before, and the invariant holds of them.
LEMMA NewTimes ==
  ASSUME TimeInv, NEW k \in Keys, NEW u \in 0..MaxTime
  PROVE  /\ Deadline(k, u) \in Int /\ Limit(k, u) \in Nat
         /\ Deadline(k, u) <= Limit(k, u)
         /\ wall = now => /\ Deadline(k, u) <= u
                          /\ u <= Limit(k, u) \/ Deadline(k, u) < Limit(k, u)
<1>1. /\ now \in Int /\ wall \in Int /\ mono \in Int /\ u \in Int /\ u >= 0
      /\ wall <= now /\ mono <= now
      /\ (wall = now /\ (mono = now \/ mono = now - 1)) \/ (mono = now /\ wall = now - 1)
  BY ConstantsAssumption DEF TimeInv, OneClockBehind
<1>2. limit[k] \in Nat
  BY DEF TimeInv
<1> DEFINE d == mono + u - wall
           l == now + u - wall
<1>3. /\ d \in Int /\ l \in Nat /\ d <= l
      /\ wall = now => l = u /\ d <= u
      /\ wall # now => d = l
  BY <1>1
<1>4. CASE binding[k] = None
  <2>1. Deadline(k, u) = d /\ Limit(k, u) = l
    BY <1>4 DEF Deadline, Limit
  <2>2. QED
    BY <2>1, <1>3, <1>1
<1>5. CASE binding[k] # None
  <2> DEFINE o == binding[k]
  <2>1. o.until \in Int /\ o.deadline \in Int
    BY <1>5, ConstantsAssumption DEF TimeInv, Bindings
  <2>2. /\ o.deadline <= limit[k]
        /\ wall = now => /\ o.deadline <= o.until
                         /\ o.until <= limit[k] \/ o.deadline < limit[k]
    BY <1>5 DEF TimeInv, DeadlineTight
  <2>3. /\ Deadline(k, u) = IF u <= o.until /\ o.deadline < d THEN o.deadline ELSE d
        /\ Limit(k, u) = IF u <= o.until /\ limit[k] < l THEN limit[k] ELSE l
    BY <1>5 DEF Deadline, Limit
  <2> HIDE DEF o, d, l
  <2>4. CASE u <= o.until
    BY <2>1, <2>2, <2>3, <2>4, <1>1, <1>2, <1>3
  <2>5. CASE ~(u <= o.until)
    BY <2>1, <2>2, <2>3, <2>5, <1>1, <1>2, <1>3
  <2>6. QED
    BY <2>4, <2>5
<1>6. QED
  BY <1>4, <1>5

\* The entry of a key in a policy that may be applied.
LEMMA OfferKeys ==
  ASSUME NEW offer \in Offers, NEW k \in Keys, offer.keys[k] # None
  PROVE  offer.keys[k].grant \in Grants /\ offer.keys[k].until \in 0..MaxTime
BY ConstantsAssumption

\* A policy gives every key it names a new grant and time.
LEMMA ApplyTime ==
  ASSUME TimeInv, NEW offer \in Offers, Apply(offer)
  PROVE  TimeInv'
<1>1. UNCHANGED <<now, wall, mono>>
  BY DEF Apply, clock
<1>2. ASSUME NEW k \in Keys, offer.keys[k] = None
      PROVE  binding'[k] = None /\ limit'[k] = 0
  BY <1>2 DEF Apply
<1>3. ASSUME NEW k \in Keys, offer.keys[k] # None
      PROVE  /\ binding'[k] = [grant |-> offer.keys[k].grant, until |-> offer.keys[k].until,
                               deadline |-> Deadline(k, offer.keys[k].until)]
             /\ limit'[k] = Limit(k, offer.keys[k].until)
  BY <1>3 DEF Apply
<1>4. ASSUME NEW k \in Keys
      PROVE  /\ binding'[k] = None \/ binding'[k] \in Bindings
             /\ limit'[k] \in Nat
             /\ DeadlineTight(k)'
  <2>1. CASE offer.keys[k] = None
    BY <1>2, <2>1 DEF DeadlineTight
  <2>2. CASE offer.keys[k] # None
    <3> DEFINE u == offer.keys[k].until
    <3>1. u \in 0..MaxTime /\ offer.keys[k].grant \in Grants
      BY <2>2, OfferKeys
    <3>2. /\ binding'[k] = [grant |-> offer.keys[k].grant, until |-> u, deadline |-> Deadline(k, u)]
          /\ limit'[k] = Limit(k, u)
      BY <1>3, <2>2
    <3> HIDE DEF u
    <3>3. /\ Deadline(k, u) \in Int /\ Limit(k, u) \in Nat
          /\ Deadline(k, u) <= Limit(k, u)
          /\ wall = now => /\ Deadline(k, u) <= u
                           /\ u <= Limit(k, u) \/ Deadline(k, u) < Limit(k, u)
      BY <3>1, NewTimes
    <3>4. binding'[k] \in Bindings /\ limit'[k] \in Nat
      BY <3>1, <3>2, <3>3 DEF Bindings
    <3>5. DeadlineTight(k)'
      BY <3>2, <3>3, <1>1 DEF DeadlineTight
    <3>6. QED
      BY <3>4, <3>5
  <2>3. QED
    BY <2>1, <2>2
<1>5. limit' = [k \in Keys |-> limit'[k]]
  BY DEF Apply
<1>6. limit' \in [Keys -> Nat]
  BY <1>4, <1>5
<1>7. QED
  BY <1>1, <1>4, <1>6 DEF TimeInv, OneClockBehind

-----------------------------------------------------------------------------
(* The connections *)

\* A step that leaves the connections and their packets alone keeps their part.
LEMMA ConnKeep ==
  ASSUME ConnInv, UNCHANGED <<conn, queue, hand>>
  PROVE  ConnInv'
BY DEF ConnInv, SenderPlaced, Registered

\* A step of one connection keeps the part of all if it keeps its own.
LEMMA ConnStep ==
  ASSUME ConnInv, NEW c \in Conns, NEW r \in Clients,
         conn' = [conn EXCEPT ![c] = r],
         queue' = queue \/ \E q : queue' = [queue EXCEPT ![c] = q],
         hand' = hand \/ \E h : hand' = [hand EXCEPT ![c] = h],
         SenderPlaced(c)'
  PROVE  ConnInv'
<1>1. conn' \in [Conns -> Clients] /\ \A d \in Conns \ {c} : conn'[d] = conn[d]
  BY DEF ConnInv
<1>2. queue' = [d \in Conns |-> queue'[d]] /\ \A d \in Conns \ {c} : queue'[d] = queue[d]
  BY DEF ConnInv
<1>3. hand' = [d \in Conns |-> hand'[d]] /\ \A d \in Conns \ {c} : hand'[d] = hand[d]
  BY DEF ConnInv
<1>4. ASSUME NEW d \in Conns PROVE SenderPlaced(d)'
  <2>1. CASE d = c
    BY <2>1
  <2>2. CASE d # c
    <3>1. SenderPlaced(d)
      BY DEF ConnInv
    <3>2. conn'[d] = conn[d] /\ queue'[d] = queue[d] /\ hand'[d] = hand[d]
      BY <2>2, <1>1, <1>2, <1>3
    <3>3. QED
      BY <3>1, <3>2 DEF SenderPlaced, Registered
  <2>3. QED
    BY <2>1, <2>2
<1>5. QED
  BY <1>1, <1>2, <1>3, <1>4 DEF ConnInv

\* What a move of a sender does to its connection.
LEMMA SendFacts ==
  ASSUME ConnInv, NEW c \in Conns, NEW place \in Senders, Send(c, place)
  PROVE  /\ conn'[c] \in Clients
         /\ conn' = [conn EXCEPT ![c] = conn'[c]]
         /\ conn'[c].send = place
         /\ conn'[c].pc = conn[c].pc /\ conn'[c].grant = conn[c].grant
         /\ conn'[c].cancelled = conn[c].cancelled /\ conn'[c].left = conn[c].left
<1>1. conn[c] \in Clients
  BY DEF ConnInv
<1>2. conn'[c] = [conn[c] EXCEPT !.send = place] /\ conn' = [conn EXCEPT ![c] = conn'[c]]
  BY DEF Send, ConnInv
<1>3. QED
  BY <1>1, <1>2 DEF Clients

\* A sender moves: the places it leaves and reaches decide what may be queued and in hand.
LEMMA SendStep ==
  ASSUME ConnInv, NEW c \in Conns, NEW place \in Senders \ {"off"}, Send(c, place),
         conn[c].send \notin {"off", "closed"},
         queue' = queue \/ \E q : queue' = [queue EXCEPT ![c] = q],
         hand' = hand \/ \E h : hand' = [hand EXCEPT ![c] = h],
         place \notin {"wait", "write"} => hand'[c] = NoPacket,
         place = "closed" => queue'[c] = <<>>
  PROVE  ConnInv'
<1>1. /\ conn'[c] \in Clients
      /\ conn' = [conn EXCEPT ![c] = conn'[c]]
      /\ conn'[c].send = place /\ conn'[c].pc = conn[c].pc
  BY SendFacts
<1>2. SenderPlaced(c) /\ conn[c] \in Clients
  BY DEF ConnInv
<1>3. conn[c].pc = "up"
  BY <1>2 DEF SenderPlaced, Clients, Places
<1>4. SenderPlaced(c)'
  BY <1>1, <1>3 DEF SenderPlaced, Registered
<1>5. QED
  BY <1>1, <1>4, ConnStep

\* Reaping cancels and empties queues, and moves no sender.
LEMMA ReapConn ==
  ASSUME ConnInv, NEW b, Reap(b), hand' = hand
  PROVE  ConnInv'
<1> DEFINE gone(c) == Registered(c) /\ ~AllowedBy(b, c)
<1>1. /\ conn' = [c \in Conns |-> IF gone(c) THEN [conn[c] EXCEPT !.cancelled = TRUE] ELSE conn[c]]
      /\ queue' = [c \in Conns |-> IF gone(c) THEN <<>> ELSE queue[c]]
  BY DEF Reap
<1>2. ASSUME NEW c \in Conns PROVE conn'[c] \in Clients /\ SenderPlaced(c)'
  <2>1. conn[c] \in Clients /\ SenderPlaced(c)
    BY DEF ConnInv
  <2>2. CASE gone(c)
    <3>1. conn'[c] = [conn[c] EXCEPT !.cancelled = TRUE] /\ queue'[c] = <<>>
      BY <1>1, <2>2
    <3>2. /\ conn'[c] \in Clients
          /\ conn'[c].pc = conn[c].pc /\ conn'[c].send = conn[c].send
          /\ conn'[c].left = conn[c].left
      BY <2>1, <3>1 DEF Clients
    <3>3. QED
      BY <2>1, <2>2, <3>1, <3>2 DEF SenderPlaced, Registered
  <2>3. CASE ~gone(c)
    <3>1. conn'[c] = conn[c] /\ queue'[c] = queue[c]
      BY <1>1, <2>3
    <3>2. QED
      BY <2>1, <3>1 DEF SenderPlaced, Registered
  <2>4. QED
    BY <2>2, <2>3
<1>3. conn' \in [Conns -> Clients]
  BY <1>1, <1>2
<1>4. queue' = [c \in Conns |-> queue'[c]]
  BY <1>1
<1>5. QED
  BY <1>2, <1>3, <1>4 DEF ConnInv

\* accept reads a binding, and registers or refuses.
LEMMA BindConn ==
  ASSUME TimeInv, ConnInv, NEW c \in Conns, Bind(c)
  PROVE  ConnInv'
<1>1. conn[c] \in Clients /\ SenderPlaced(c)
  BY DEF ConnInv
<1>2. binding[KeyOf[c]].grant \in Grants
  <2>1. KeyOf[c] \in Keys /\ binding[KeyOf[c]] # None
    BY ConstantsAssumption DEF Bind, InTime
  <2>2. QED
    BY <2>1 DEF TimeInv, Bindings
<1>3. /\ conn' = [conn EXCEPT ![c] = conn'[c]]
      /\ conn'[c] = [conn[c] EXCEPT !.pc = "bound", !.grant = binding[KeyOf[c]].grant]
  BY DEF Bind, ConnInv
<1>4. /\ conn'[c] \in Clients
      /\ conn'[c].pc = "bound" /\ conn'[c].send = conn[c].send
      /\ conn'[c].cancelled = conn[c].cancelled /\ conn'[c].left = conn[c].left
  BY <1>1, <1>2, <1>3 DEF Clients, Places
<1>5. conn[c].pc = "new" /\ queue' = queue /\ hand' = hand
  BY DEF Bind, packets
<1>6. SenderPlaced(c)'
  BY <1>1, <1>4, <1>5 DEF SenderPlaced, Registered
<1>7. QED
  BY <1>3, <1>4, <1>5, <1>6, ConnStep

\* A connection that leaves the server without a sender, or after its sender has closed.
LEMMA GoneConn ==
  ASSUME ConnInv, NEW c \in Conns, NEW r \in Clients,
         conn[c].send \in {"off", "closed"},
         r.pc = "gone", r.send = conn[c].send, ~r.cancelled, ~r.left,
         conn' = [conn EXCEPT ![c] = r],
         UNCHANGED packets
  PROVE  ConnInv'
<1>1. SenderPlaced(c)
  BY DEF ConnInv
<1>2. conn'[c] = r
  BY DEF ConnInv
<1>3. queue' = queue /\ hand' = hand
  BY DEF packets
<1>4. SenderPlaced(c)'
  BY <1>1, <1>2, <1>3 DEF SenderPlaced
<1>5. QED
  BY <1>3, <1>4, ConnStep

\* A connection that had no sender.
LEMMA RefusedConn ==
  ASSUME ConnInv, NEW c \in Conns, conn[c].send = "off",
         conn' = [conn EXCEPT ![c] = [NoConn EXCEPT !.pc = "gone"]],
         UNCHANGED packets
  PROVE  ConnInv'
<1> DEFINE r == [NoConn EXCEPT !.pc = "gone"]
<1>1. r \in Clients /\ r.pc = "gone" /\ r.send = "off" /\ ~r.cancelled /\ ~r.left
  BY DEF NoConn, Clients, Places, Senders
<1>2. QED
  BY <1>1, GoneConn

\* registerClient.
LEMMA RegisterConn ==
  ASSUME ConnInv, NEW c \in Conns, Register(c)
  PROVE  ConnInv'
<1>1. conn[c] \in Clients /\ SenderPlaced(c)
  BY DEF ConnInv
<1>2. conn[c].pc = "bound" /\ UNCHANGED packets
  BY DEF Register
<1>3. conn[c].send = "off"
  BY <1>1, <1>2 DEF SenderPlaced
<1>4. CASE Allowed(c)
  <2>1. /\ conn' = [conn EXCEPT ![c] = conn'[c]]
        /\ conn'[c] = [conn[c] EXCEPT !.pc = "hello"]
    BY <1>4 DEF Register, ConnInv
  <2>2. /\ conn'[c] \in Clients /\ conn'[c].pc = "hello"
        /\ conn'[c].send = conn[c].send /\ conn'[c].left = conn[c].left
    BY <1>1, <2>1 DEF Clients, Places
  <2>3. queue' = queue /\ hand' = hand
    BY <1>2 DEF packets
  <2>4. SenderPlaced(c)'
    BY <1>1, <1>2, <1>3, <2>2, <2>3 DEF SenderPlaced, Registered
  <2>5. QED
    BY <2>1, <2>2, <2>3, <2>4, ConnStep
<1>5. CASE ~Allowed(c)
  <2>1. conn' = [conn EXCEPT ![c] = [NoConn EXCEPT !.pc = "gone"]]
    BY <1>5 DEF Register
  <2>2. QED
    BY <2>1, <1>2, <1>3, RefusedConn
<1>6. QED
  BY <1>4, <1>5

\* The server info is written, or not.
LEMMA HelloConn ==
  ASSUME ConnInv, NEW c \in Conns, StartRun(c) \/ HelloFails(c)
  PROVE  ConnInv'
<1>1. conn[c] \in Clients /\ SenderPlaced(c)
  BY DEF ConnInv
<1>2. conn[c].pc = "hello" /\ UNCHANGED packets
  BY DEF StartRun, HelloFails
<1>3. conn[c].send = "off"
  BY <1>1, <1>2 DEF SenderPlaced
<1>4. CASE StartRun(c)
  <2>1. /\ conn' = [conn EXCEPT ![c] = conn'[c]]
        /\ conn'[c] = [conn[c] EXCEPT !.pc = "up", !.send = "idle"]
    BY <1>4 DEF StartRun, ConnInv
  <2>2. conn'[c] \in Clients /\ conn'[c].pc = "up" /\ conn'[c].send = "idle"
    BY <1>1, <2>1 DEF Clients, Places, Senders
  <2>3. queue' = queue /\ hand' = hand
    BY <1>2 DEF packets
  <2>4. SenderPlaced(c)'
    BY <1>1, <1>3, <2>2, <2>3 DEF SenderPlaced, Registered
  <2>5. QED
    BY <2>1, <2>2, <2>3, <2>4, ConnStep
<1>5. CASE HelloFails(c)
  <2>1. conn' = [conn EXCEPT ![c] = [NoConn EXCEPT !.pc = "gone"]]
    BY <1>5 DEF HelloFails
  <2>2. QED
    BY <2>1, <1>2, <1>3, RefusedConn
<1>6. QED
  BY <1>4, <1>5

\* The receiving loop ends.
LEMMA RunEndsConn ==
  ASSUME ConnInv, NEW c \in Conns, RunEnds(c)
  PROVE  ConnInv'
<1>1. conn[c] \in Clients /\ SenderPlaced(c)
  BY DEF ConnInv
<1>2. /\ conn' = [conn EXCEPT ![c] = conn'[c]]
      /\ conn'[c] = [conn[c] EXCEPT !.left = TRUE]
      /\ conn[c].pc = "up"
  BY DEF RunEnds, ConnInv
<1>3. conn'[c] \in Clients /\ conn'[c].pc = "up" /\ conn'[c].send = conn[c].send
  BY <1>1, <1>2 DEF Clients
<1>4. queue' = queue /\ hand' = hand
  BY DEF RunEnds, packets
<1>5. SenderPlaced(c)'
  BY <1>1, <1>2, <1>3, <1>4 DEF SenderPlaced, Registered
<1>6. QED
  BY <1>2, <1>3, <1>4, <1>5, ConnStep

\* sendPkt: the client is registered and its sender has not closed.
LEMMA SendPktConn ==
  ASSUME ConnInv, NEW c \in Conns, NEW n \in Sizes, SendPkt(c, n)
  PROVE  ConnInv'
<1>1. conn[c] \in Clients /\ SenderPlaced(c)
  BY DEF ConnInv
<1>2. /\ conn[c].pc \in {"hello", "up"} /\ conn[c].send # "closed"
      /\ conn' = conn /\ hand' = hand
      /\ \E q : queue' = [queue EXCEPT ![c] = q]
  BY DEF SendPkt, Reservable, Registered
<1>3. SenderPlaced(c)'
  BY <1>1, <1>2 DEF SenderPlaced, Registered
<1>4. conn' = [conn EXCEPT ![c] = conn[c]]
  BY <1>2 DEF ConnInv
<1>5. QED
  BY <1>1, <1>2, <1>3, <1>4, ConnStep

\* The release of the packet in hand leaves none.
LEMMA ReleaseFacts ==
  ASSUME ConnInv, NEW c \in Conns, Release(c)
  PROVE  hand'[c] = NoPacket /\ \E h : hand' = [hand EXCEPT ![c] = h]
<1>1. hand' = [hand EXCEPT ![c] = NoPacket]
  BY DEF Release
<1>2. c \in DOMAIN hand
  BY DEF ConnInv
<1>3. QED
  BY <1>1, <1>2

\* The steps of a sender.
LEMMA SenderConn ==
  ASSUME ConnInv, NEW c \in Conns, Sender(c)
  PROVE  ConnInv'
<1>0. SenderPlaced(c) /\ c \in DOMAIN queue
  BY DEF ConnInv
<1>1. CASE Take(c)
  <2>1. Send(c, "wait") /\ conn[c].send = "idle"
    BY <1>1 DEF Take
  <2>2. (\E q : queue' = [queue EXCEPT ![c] = q]) /\ \E h : hand' = [hand EXCEPT ![c] = h]
    BY <1>1 DEF Take
  <2>3. QED
    BY <2>1, <2>2, SendStep DEF Senders
<1>2. CASE SendLoopEnds(c)
  <2>1. Send(c, "stop") /\ conn[c].send = "idle" /\ queue' = queue /\ hand' = hand
    BY <1>2 DEF SendLoopEnds, packets
  <2>2. hand[c] = NoPacket
    BY <1>0, <2>1 DEF SenderPlaced
  <2>3. QED
    BY <2>1, <2>2, SendStep DEF Senders
<1>3. CASE WaitEnds(c)
  <2>1. Send(c, "stop") /\ conn[c].send = "wait" /\ queue' = queue /\ Release(c)
    BY <1>3 DEF WaitEnds
  <2>2. QED
    BY <2>1, ReleaseFacts, SendStep DEF Senders
<1>4. CASE Check(c)
  <2>1. conn[c].send = "wait" /\ queue' = queue
    BY <1>4 DEF Check
  <2>2. CASE Allowed(c)
    <3>1. Send(c, "write") /\ hand' = hand
      BY <1>4, <2>2 DEF Check
    <3>2. QED
      BY <2>1, <3>1, SendStep DEF Senders
  <2>3. CASE ~Allowed(c)
    <3>1. Send(c, "stop") /\ Release(c)
      BY <1>4, <2>3 DEF Check
    <3>2. QED
      BY <2>1, <3>1, ReleaseFacts, SendStep DEF Senders
  <2>4. QED
    BY <2>2, <2>3
<1>5. CASE Write(c)
  <2>1. conn[c].send = "write" /\ queue' = queue /\ Release(c)
    BY <1>5 DEF Write
  <2>2. Send(c, "idle") \/ Send(c, "stop")
    BY <1>5 DEF Write
  <2>3. QED
    BY <2>1, <2>2, ReleaseFacts, SendStep DEF Senders
<1>6. CASE OnSendLoopDone(c)
  <2>1. /\ Send(c, "closed") /\ conn[c].send = "stop" /\ hand' = hand
        /\ queue' = [queue EXCEPT ![c] = <<>>]
    BY <1>6 DEF OnSendLoopDone
  <2>2. hand[c] = NoPacket
    BY <1>0, <2>1 DEF SenderPlaced
  <2>3. queue'[c] = <<>>
    BY <1>0, <2>1
  <2>4. QED
    BY <2>1, <2>2, <2>3, SendStep DEF Senders
<1>7. QED
  BY <1>1, <1>2, <1>3, <1>4, <1>5, <1>6 DEF Sender

-----------------------------------------------------------------------------
(* The invariant *)

\* Every step of a connection leaves the clocks and the policy alone.
LEMMA ConnFrame ==
  ASSUME NEW c \in Conns,
         \/ Bind(c) \/ Register(c) \/ StartRun(c) \/ HelloFails(c) \/ RunEnds(c) \/ Unregister(c)
         \/ (\E n \in Sizes : SendPkt(c, n)) \/ Sender(c)
  PROVE  UNCHANGED <<now, wall, mono, rev, binding, limit>>
<1>1. CASE Sender(c)
  BY <1>1 DEF Sender, Take, SendLoopEnds, WaitEnds, Check, Write, OnSendLoopDone, clock, policy
<1>2. CASE ~Sender(c)
  BY <1>2 DEF Bind, Register, StartRun, HelloFails, RunEnds, Unregister, SendPkt, clock, policy
<1>3. QED
  BY <1>1, <1>2

\* Every step keeps the invariant.
LEMMA NextInv == RelayInv /\ [Next]_vars => RelayInv'
<1>1. SUFFICES ASSUME TimeInv, ConnInv, [Next]_vars PROVE TimeInv' /\ ConnInv'
  BY Parts, PartsNext
<1>2. CASE Tick \/ Suspend \/ SetBack
  <2>1. UNCHANGED <<conn, queue, hand>>
    BY <1>2 DEF Tick, Suspend, SetBack, packets
  <2>2. QED
    BY <1>1, <1>2, <2>1, TickTime, SuspendTime, SetBackTime, ConnKeep
<1>3. CASE Timer
  <2>1. Reap(binding) /\ hand' = hand /\ UNCHANGED <<now, wall, mono, binding, limit>>
    BY <1>3 DEF Timer, clock, policy
  <2>2. QED
    BY <1>1, <2>1, ReapConn, TimeKeep
<1>4. ASSUME NEW offer \in Offers, Apply(offer) PROVE TimeInv' /\ ConnInv'
  <2>1. Reap(binding') /\ hand' = hand
    BY <1>4 DEF Apply
  <2>2. QED
    BY <1>1, <1>4, <2>1, ReapConn, ApplyTime
<1>5. ASSUME NEW c \in Conns,
             \/ Bind(c) \/ Register(c) \/ StartRun(c) \/ HelloFails(c)
             \/ RunEnds(c) \/ Unregister(c) \/ (\E n \in Sizes : SendPkt(c, n)) \/ Sender(c)
      PROVE  TimeInv' /\ ConnInv'
  <2>1. TimeInv'
    BY <1>1, <1>5, ConnFrame, TimeKeep
  <2>2. CASE Unregister(c)
    <3> DEFINE r == [NoConn EXCEPT !.pc = "gone", !.send = "closed"]
    <3>1. conn[c].send = "closed" /\ UNCHANGED packets /\ conn' = [conn EXCEPT ![c] = r]
      BY <2>2 DEF Unregister
    <3>2. r \in Clients /\ r.pc = "gone" /\ r.send = "closed" /\ ~r.cancelled /\ ~r.left
      BY DEF NoConn, Clients, Places, Senders
    <3>3. QED
      BY <1>1, <2>1, <3>1, <3>2, GoneConn
  <2>3. QED
    BY <1>1, <1>5, <2>1, <2>2, BindConn, RegisterConn, HelloConn, RunEndsConn,
       SendPktConn, SenderConn
<1>6. CASE UNCHANGED vars
  <2>1. UNCHANGED <<now, wall, mono, binding, limit>> /\ UNCHANGED <<conn, queue, hand>>
    BY <1>6 DEF vars
  <2>2. QED
    BY <1>1, <2>1, TimeKeep, ConnKeep
<1>7. QED
  BY <1>1, <1>2, <1>3, <1>4, <1>5, <1>6 DEF Next

\* Whatever the policies, the clocks and the peers do, the two clocks are never both behind and no
\* deadline is later than what is left of a key's time; and a connection has a sender exactly from
\* the start of run on, which holds a packet only while it sends it and leaves none behind.
THEOREM RelayInvariant == Spec => []RelayInv
BY InitInv, NextInv, PTL DEF Spec

\* No key is admitted longer than what was left of its time when a policy gave it that time: what
\* the deadline misses while the machine sleeps, until ends, and what until misses after the clock
\* is set back, the deadline ends.
THEOREM NoKeyOvertime == Spec => []NoOvertime
<1>1. RelayInv => NoOvertime
  <2>1. SUFFICES ASSUME RelayInv, NEW k \in Keys, InTime(binding[k]) PROVE now < limit[k]
    BY DEF NoOvertime
  <2>2. TimeInv
    BY <2>1, Parts
  <2>3. /\ binding[k] # None /\ wall < binding[k].until /\ mono < binding[k].deadline
    BY <2>1 DEF InTime
  <2>4. DeadlineTight(k) /\ binding[k] \in Bindings /\ limit[k] \in Nat
    BY <2>2, <2>3 DEF TimeInv
  <2>5. binding[k].until \in Int /\ binding[k].deadline \in Int
    BY <2>4, ConstantsAssumption DEF Bindings
  <2>6. /\ now \in Int /\ wall \in Int /\ mono \in Int
        /\ (wall = now /\ (mono = now \/ mono = now - 1)) \/ (mono = now /\ wall = now - 1)
    BY <2>2, ConstantsAssumption DEF TimeInv, OneClockBehind
  <2>7. QED
    BY <2>3, <2>4, <2>5, <2>6 DEF DeadlineTight
<1>2. QED
  BY <1>1, RelayInvariant, PTL

\* A sender that has gone leaves no packet behind, and none is queued before the registration:
\* onSendLoopDone closes the queue before it drains it, and sendPkt reserves nothing for a closed
\* one.  Left out is a client that goes before run has started its sender.
THEOREM NothingStranded == Spec => []NoPacketStranded
<1>1. RelayInv => NoPacketStranded
  <2>1. SUFFICES ASSUME ConnInv, NEW c \in Conns,
                        conn[c].send = "closed" \/ conn[c].pc \in {"new", "bound"}
                 PROVE  queue[c] = <<>> /\ hand[c] = NoPacket
    BY Parts DEF NoPacketStranded
  <2>2. SenderPlaced(c)
    BY <2>1 DEF ConnInv
  <2>3. QED
    BY <2>1, <2>2 DEF SenderPlaced
<1>2. QED
  BY <1>1, RelayInvariant, PTL

-----------------------------------------------------------------------------
(* The refinement *)

\* The pairs that the bindings b admit, and what Admission sees of a connection.
PairsOf(b) == {<<k, b[k].grant>> : k \in {j \in Keys : InTime(b[j])}}
InForce == PairsOf(binding)
IsOpen(c) ==
  /\ Registered(c) /\ conn[c].send \notin {"stop", "closed"}
  /\ ~conn[c].cancelled /\ ~conn[c].left
Open == [c \in Conns |-> IF IsOpen(c) THEN <<KeyOf[c], conn[c].grant>> ELSE <<>>]

\* The steps of Admission, under the mapping.
LEMMA Mapped ==
  /\ Promise!vars = <<rev, InForce, Open>>
  /\ UNCHANGED <<rev, InForce, Open>> => UNCHANGED Promise!vars
  /\ InForce' \subseteq InForce /\ UNCHANGED <<rev, Open>> => Promise!Next
  /\ rev' = rev + 1 /\ InForce' \subseteq Keys \X Grants
       /\ Open' = [c \in Conns |-> IF Open[c] \in InForce' THEN Open[c] ELSE <<>>] => Promise!Next
  /\ Open' = [c \in Conns |-> IF Open[c] \in InForce THEN Open[c] ELSE <<>>]
       /\ UNCHANGED <<rev, InForce>> => Promise!Next
  /\ \A c \in Conns :
       /\ Open' = [Open EXCEPT ![c] = <<>>] /\ UNCHANGED <<rev, InForce>> => Promise!Next
       /\ Open[c] = <<>> /\ Open'[c] \in InForce /\ Open' = [Open EXCEPT ![c] = Open'[c]]
            /\ UNCHANGED <<rev, InForce>> => Promise!Next
<1>1. Promise!vars = <<rev, InForce, Open>>
  BY DEF Promise!vars, InForce, PairsOf, Open, IsOpen, Registered
<1>2. UNCHANGED <<rev, InForce, Open>> => UNCHANGED Promise!vars
  BY DEF Promise!vars, InForce, PairsOf, Open, IsOpen, Registered
<1>3. Promise!Lapse <=> InForce' \subseteq InForce /\ UNCHANGED <<rev, Open>>
  BY DEF Promise!Lapse, InForce, PairsOf, Open, IsOpen, Registered
<1>4. Promise!Publish
        <=> /\ rev' = rev + 1 /\ InForce' \subseteq Keys \X Grants
            /\ Open' = [c \in Conns |-> IF Open[c] \in InForce' THEN Open[c] ELSE <<>>]
  BY DEF Promise!Publish, Promise!Kept, Promise!Closed, Promise!Pairs, InForce, PairsOf, Open,
         IsOpen, Registered
<1>5. Promise!Reap
        <=> /\ Open' = [c \in Conns |-> IF Open[c] \in InForce THEN Open[c] ELSE <<>>]
            /\ UNCHANGED <<rev, InForce>>
  BY DEF Promise!Reap, Promise!Kept, Promise!Closed, InForce, PairsOf, Open, IsOpen, Registered
<1>6. ASSUME NEW c \in Conns
      PROVE  Promise!Leave(c) <=> Open' = [Open EXCEPT ![c] = <<>>] /\ UNCHANGED <<rev, InForce>>
  BY DEF Promise!Leave, Promise!Closed, InForce, PairsOf, Open, IsOpen, Registered
<1>7. ASSUME NEW c \in Conns
      PROVE  Promise!Admit(c)
               <=> /\ Open[c] = <<>> /\ Open'[c] \in InForce
                   /\ Open' = [Open EXCEPT ![c] = Open'[c]] /\ UNCHANGED <<rev, InForce>>
  BY DEF Promise!Admit, Promise!Closed, InForce, PairsOf, Open, IsOpen, Registered
<1>8. QED
  BY <1>1, <1>2, <1>3, <1>4, <1>5, <1>6, <1>7 DEF Promise!Next

\* The relay starts as Admission does.
LEMMA InitMapped == Init => Promise!Init
<1>1. SUFFICES ASSUME Init PROVE Promise!Init
  OBVIOUS
<1>2. \A k \in Keys : ~InTime(binding[k])
  BY <1>1 DEF Init, InTime
<1>3. \A c \in Conns : conn[c].pc = "new"
  BY <1>1 DEF Init, NoConn
<1>4. rev = 0
  BY <1>1 DEF Init
<1>5. QED
  BY <1>2, <1>3, <1>4 DEF Promise!Init, Promise!Closed, Registered

\* An open connection is allowed under the bindings b exactly if b admits its pair, and the pair
\* of a closed one is never admitted.
LEMMA AllowedIsAdmitted ==
  ASSUME NEW c \in Conns, NEW b
  PROVE  /\ IsOpen(c) => (Open[c] \in PairsOf(b) <=> AllowedBy(b, c))
         /\ ~IsOpen(c) => Open[c] = <<>>
         /\ <<>> \notin PairsOf(b)
<1>1. KeyOf[c] \in Keys
  BY ConstantsAssumption
<1>2. IsOpen(c) => Open[c] = <<KeyOf[c], conn[c].grant>>
  BY DEF Open
<1>3. <<KeyOf[c], conn[c].grant>> \in PairsOf(b) <=> AllowedBy(b, c)
  BY <1>1 DEF PairsOf, AllowedBy
<1>4. <<>> \notin PairsOf(b)
  BY DEF PairsOf
<1>5. QED
  BY <1>2, <1>3, <1>4 DEF Open

\* Reaping under the bindings b closes exactly the connections whose pair b does not admit.
LEMMA ReapOpen ==
  ASSUME ConnInv, NEW b, Reap(b)
  PROVE  Open' = [c \in Conns |-> IF Open[c] \in PairsOf(b) THEN Open[c] ELSE <<>>]
<1> DEFINE gone(c) == Registered(c) /\ ~AllowedBy(b, c)
<1>1. conn' = [c \in Conns |-> IF gone(c) THEN [conn[c] EXCEPT !.cancelled = TRUE] ELSE conn[c]]
  BY DEF Reap
<1>2. ASSUME NEW c \in Conns
      PROVE  Open'[c] = IF Open[c] \in PairsOf(b) THEN Open[c] ELSE <<>>
  <2>1. conn[c] \in Clients
    BY DEF ConnInv
  <2>2. CASE gone(c)
    <3>1. conn'[c].cancelled
      BY <1>1, <2>1, <2>2 DEF Clients
    <3>2. Open'[c] = <<>>
      BY <3>1 DEF Open, IsOpen, Registered
    <3>3. QED
      BY <2>2, <3>2, AllowedIsAdmitted
  <2>3. CASE ~gone(c)
    <3>1. conn'[c] = conn[c]
      BY <1>1, <2>3
    <3>2. Open'[c] = Open[c]
      BY <3>1 DEF Open, IsOpen, Registered
    <3>3. IsOpen(c) => AllowedBy(b, c)
      BY <2>3 DEF IsOpen
    <3>4. QED
      BY <3>2, <3>3, AllowedIsAdmitted
  <2>4. QED
    BY <2>2, <2>3
<1>3. Open' = [c \in Conns |-> Open'[c]]
  BY DEF Open
<1>4. QED
  BY <1>2, <1>3

\* No move of the clocks admits a pair again: one that is set back leaves the deadline, which was
\* no later than until while the clocks agreed.
LEMMA ClockLapses ==
  ASSUME TimeInv, Tick \/ Suspend \/ SetBack
  PROVE  InForce' \subseteq InForce /\ UNCHANGED <<rev, Open>>
<1>1. UNCHANGED <<rev, binding, conn>>
  BY DEF Tick, Suspend, SetBack, policy
<1>2. UNCHANGED Open
  BY <1>1 DEF Open, IsOpen, Registered
<1>3. ASSUME NEW k \in Keys, InTime(binding[k])' PROVE InTime(binding[k])
  <2>1. binding[k] # None /\ wall' < binding[k].until /\ mono' < binding[k].deadline
    BY <1>1, <1>3 DEF InTime
  <2>2. DeadlineTight(k) /\ binding[k].until \in Int /\ binding[k].deadline \in Int
    BY <2>1, ConstantsAssumption DEF TimeInv, Bindings
  <2>3. now \in Int /\ wall \in Int /\ mono \in Int
    BY ConstantsAssumption DEF TimeInv
  <2>4. CASE Tick \/ Suspend
    <3>1. wall' = wall + 1 /\ (mono' = mono + 1 \/ mono' = mono)
      BY <2>4 DEF Tick, Suspend
    <3>2. wall < binding[k].until /\ mono < binding[k].deadline
      BY <2>1, <2>2, <2>3, <3>1
    <3>3. QED
      BY <2>1, <3>2 DEF InTime
  <2>5. CASE SetBack
    <3>1. wall = now /\ mono = now /\ mono' = mono
      BY <2>5 DEF SetBack
    <3>2. binding[k].deadline <= binding[k].until
      BY <2>1, <2>2, <3>1 DEF DeadlineTight
    <3>3. wall < binding[k].until /\ mono < binding[k].deadline
      BY <2>1, <2>2, <2>3, <3>1, <3>2
    <3>4. QED
      BY <2>1, <3>3 DEF InTime
  <2>6. QED
    BY <2>4, <2>5
<1>4. InForce' \subseteq InForce
  BY <1>1, <1>3 DEF InForce, PairsOf
<1>5. QED
  BY <1>1, <1>2, <1>4

\* A step of one connection changes what Admission sees of this one only.
LEMMA OneOpens ==
  ASSUME NEW c \in Conns, \A d \in Conns \ {c} : conn'[d] = conn[d]
  PROVE  Open' = [Open EXCEPT ![c] = Open'[c]]
<1>1. ASSUME NEW d \in Conns \ {c} PROVE Open'[d] = Open[d]
  <2>1. conn'[d] = conn[d]
    OBVIOUS
  <2>2. QED
    BY <2>1 DEF Open, IsOpen, Registered
<1>2. Open' = [d \in Conns |-> Open'[d]] /\ Open = [d \in Conns |-> Open[d]]
  BY DEF Open
<1>3. QED
  BY <1>1, <1>2

\* A step of one connection that opens nothing is a leave, or is not seen.
LEMMA OneCloses ==
  ASSUME NEW c \in Conns, \A d \in Conns \ {c} : conn'[d] = conn[d],
         IsOpen(c)' => IsOpen(c) /\ conn'[c].grant = conn[c].grant,
         UNCHANGED <<rev, InForce>>
  PROVE  [Promise!Next]_(Promise!vars)
<1>1. Open' = [Open EXCEPT ![c] = Open'[c]]
  BY OneOpens
<1>2. Open = [d \in Conns |-> Open[d]]
  BY DEF Open
<1>3. CASE IsOpen(c)'
  <2>1. Open'[c] = Open[c]
    BY <1>3 DEF Open
  <2>2. Open' = Open
    BY <1>1, <1>2, <2>1
  <2>3. QED
    BY <2>2, Mapped
<1>4. CASE ~IsOpen(c)'
  <2>1. Open'[c] = <<>>
    BY <1>4 DEF Open
  <2>2. QED
    BY <1>1, <2>1, Mapped
<1>5. QED
  BY <1>3, <1>4

\* registerClient opens a connection only if the policy admits its pair at that moment.
LEMMA RegisterMapped ==
  ASSUME ConnInv, NEW c \in Conns, Register(c), UNCHANGED <<rev, InForce>>
  PROVE  [Promise!Next]_(Promise!vars)
<1>1. conn[c] \in Clients /\ SenderPlaced(c) /\ conn[c].pc = "bound"
  BY DEF ConnInv, Register
<1>2. \A d \in Conns \ {c} : conn'[d] = conn[d]
  BY DEF ConnInv, Register
<1>3. CASE Allowed(c)
  <2>1. conn'[c] = [conn[c] EXCEPT !.pc = "hello"]
    BY <1>3 DEF Register, ConnInv
  <2>2. /\ conn'[c].pc = "hello" /\ conn'[c].send = conn[c].send /\ conn'[c].grant = conn[c].grant
        /\ conn'[c].cancelled = conn[c].cancelled /\ conn'[c].left = conn[c].left
    BY <1>1, <2>1 DEF Clients
  <2>3. IsOpen(c)'
    BY <1>1, <2>2 DEF IsOpen, SenderPlaced, Registered
  <2>4. Open'[c] = <<KeyOf[c], conn[c].grant>>
    BY <2>2, <2>3 DEF Open
  <2>5. Open'[c] \in InForce
    <3>1. KeyOf[c] \in Keys
      BY ConstantsAssumption
    <3>2. QED
      BY <1>3, <2>4, <3>1 DEF Allowed, AllowedBy, InForce, PairsOf
  <2>6. Open[c] = <<>>
    BY <1>1 DEF Open, IsOpen, Registered
  <2>7. QED
    BY <1>2, <2>5, <2>6, OneOpens, Mapped
<1>4. CASE ~Allowed(c)
  <2>1. conn'[c] = [NoConn EXCEPT !.pc = "gone"]
    BY <1>4 DEF Register, ConnInv
  <2>2. ~IsOpen(c)'
    BY <2>1 DEF IsOpen, NoConn, Registered
  <2>3. QED
    BY <1>2, <2>2, OneCloses
<1>5. QED
  BY <1>3, <1>4

\* A sender that moves opens nothing.
LEMMA SenderMapped ==
  ASSUME ConnInv, NEW c \in Conns, Sender(c), UNCHANGED <<rev, InForce>>
  PROVE  [Promise!Next]_(Promise!vars)
<1>1. PICK place \in Senders : Send(c, place)
  BY DEF Sender, Take, SendLoopEnds, WaitEnds, Check, Write, OnSendLoopDone, Senders
<1>2. conn[c].send \in {"idle", "wait", "write", "stop"}
  BY DEF Sender, Take, SendLoopEnds, WaitEnds, Check, Write, OnSendLoopDone
<1>3. conn[c].send = "stop" => place = "closed"
  <2>1. SUFFICES ASSUME conn[c].send = "stop" PROVE place = "closed"
    OBVIOUS
  <2>2. Send(c, "closed")
    BY <2>1 DEF Sender, Take, SendLoopEnds, WaitEnds, Check, Write, OnSendLoopDone
  <2>3. conn'[c].send = "closed" /\ conn'[c].send = place
    BY <1>1, <2>2, SendFacts DEF Senders
  <2>4. QED
    BY <2>3
<1>4. /\ conn' = [conn EXCEPT ![c] = conn'[c]]
      /\ conn'[c].send = place
      /\ conn'[c].pc = conn[c].pc /\ conn'[c].grant = conn[c].grant
      /\ conn'[c].cancelled = conn[c].cancelled /\ conn'[c].left = conn[c].left
  BY <1>1, SendFacts
<1>5. \A d \in Conns \ {c} : conn'[d] = conn[d]
  BY <1>4 DEF ConnInv
<1>6. IsOpen(c)' => IsOpen(c)
  BY <1>2, <1>3, <1>4 DEF IsOpen, Registered
<1>7. QED
  BY <1>4, <1>5, <1>6, OneCloses

\* The other steps of a connection open nothing either.
LEMMA OthersMapped ==
  ASSUME ConnInv, NEW c \in Conns, UNCHANGED <<rev, InForce>>,
         \/ Bind(c) \/ StartRun(c) \/ HelloFails(c) \/ RunEnds(c) \/ Unregister(c)
         \/ \E n \in Sizes : SendPkt(c, n)
  PROVE  [Promise!Next]_(Promise!vars)
<1>1. conn[c] \in Clients /\ SenderPlaced(c)
  BY DEF ConnInv
<1>2. \A d \in Conns \ {c} : conn'[d] = conn[d]
  BY DEF ConnInv, Bind, StartRun, HelloFails, RunEnds, Unregister, SendPkt
<1>3. CASE Bind(c)
  <2>1. conn'[c].pc = "bound"
    BY <1>1, <1>3 DEF Bind, ConnInv, Clients
  <2>2. QED
    BY <1>2, <2>1, OneCloses DEF IsOpen, Registered
<1>4. CASE RunEnds(c)
  <2>1. conn'[c].left
    BY <1>1, <1>4 DEF RunEnds, ConnInv, Clients
  <2>2. QED
    BY <1>2, <2>1, OneCloses DEF IsOpen
<1>5. CASE Unregister(c) \/ HelloFails(c)
  <2>1. conn'[c].pc = "gone"
    BY <1>5 DEF Unregister, HelloFails, ConnInv, NoConn
  <2>2. QED
    BY <1>2, <2>1, OneCloses DEF IsOpen, Registered
<1>6. CASE \E n \in Sizes : SendPkt(c, n)
  <2>1. conn' = conn
    BY <1>6 DEF SendPkt
  <2>2. QED
    BY <1>2, <2>1, OneCloses DEF IsOpen, Registered
<1>7. CASE StartRun(c)
  <2>1. conn[c].pc = "hello" /\ conn'[c] = [conn[c] EXCEPT !.pc = "up", !.send = "idle"]
    BY <1>7 DEF StartRun, ConnInv
  <2>2. conn[c].send = "off"
    BY <1>1, <2>1 DEF SenderPlaced
  <2>3. /\ conn'[c].grant = conn[c].grant
        /\ conn'[c].cancelled = conn[c].cancelled /\ conn'[c].left = conn[c].left
    BY <1>1, <2>1 DEF Clients
  <2>4. IsOpen(c)' => IsOpen(c)
    BY <2>1, <2>2, <2>3 DEF IsOpen, Registered
  <2>5. QED
    BY <1>2, <2>3, <2>4, OneCloses
<1>8. QED
  BY <1>3, <1>4, <1>5, <1>6, <1>7

\* A policy admits pairs of a key and a grant, and closes what it does not admit.
LEMMA ApplyMapped ==
  ASSUME RelayInv, RelayInv', NEW offer \in Offers, Apply(offer)
  PROVE  Promise!Next
<1>1. Reap(binding') /\ rev' = rev + 1 /\ wall' = wall /\ mono' = mono
  BY DEF Apply, clock
<1>2. InForce' = PairsOf(binding')
  BY <1>1 DEF InForce, PairsOf, InTime
<1>3. Open' = [c \in Conns |-> IF Open[c] \in InForce' THEN Open[c] ELSE <<>>]
  BY <1>1, <1>2, Parts, ReapOpen
<1>4. ASSUME NEW k \in Keys, InTime(binding[k])' PROVE binding'[k].grant \in Grants
  BY <1>4 DEF RelayInv, InTime
<1>5. InForce' \subseteq Keys \X Grants
  BY <1>4 DEF InForce, PairsOf
<1>6. QED
  BY <1>1, <1>3, <1>5, Mapped

\* Every step of the relay is a step of Admission or is not seen.
LEMMA NextMapped == RelayInv /\ RelayInv' /\ [Next]_vars => [Promise!Next]_(Promise!vars)
<1>1. SUFFICES ASSUME RelayInv, RelayInv', [Next]_vars PROVE [Promise!Next]_(Promise!vars)
  OBVIOUS
<1>2. TimeInv /\ ConnInv
  BY <1>1, Parts
<1>3. CASE Tick \/ Suspend \/ SetBack
  BY <1>2, <1>3, ClockLapses, Mapped
<1>4. CASE Timer
  <2>1. Reap(binding) /\ UNCHANGED <<rev, binding, wall, mono>>
    BY <1>4 DEF Timer, clock, policy
  <2>2. UNCHANGED <<rev, InForce>>
    BY <2>1 DEF InForce, PairsOf, InTime
  <2>3. Open' = [c \in Conns |-> IF Open[c] \in InForce THEN Open[c] ELSE <<>>]
    BY <1>2, <2>1, ReapOpen DEF InForce
  <2>4. QED
    BY <2>2, <2>3, Mapped
<1>5. ASSUME NEW offer \in Offers, Apply(offer) PROVE [Promise!Next]_(Promise!vars)
  BY <1>1, <1>5, ApplyMapped
<1>6. ASSUME NEW c \in Conns,
             \/ Bind(c) \/ Register(c) \/ StartRun(c) \/ HelloFails(c)
             \/ RunEnds(c) \/ Unregister(c) \/ (\E n \in Sizes : SendPkt(c, n)) \/ Sender(c)
      PROVE  [Promise!Next]_(Promise!vars)
  <2>1. UNCHANGED <<rev, binding, wall, mono>>
    BY <1>6, ConnFrame
  <2>2. UNCHANGED <<rev, InForce>>
    BY <2>1 DEF InForce, PairsOf, InTime
  <2>3. QED
    BY <1>2, <1>6, <2>2, RegisterMapped, SenderMapped, OthersMapped
<1>7. CASE UNCHANGED vars
  <2>1. UNCHANGED <<rev, InForce, Open>>
    BY <1>7 DEF vars, InForce, PairsOf, InTime, Open, IsOpen, Registered
  <2>2. QED
    BY <2>1, Mapped
<1>8. QED
  BY <1>1, <1>3, <1>4, <1>5, <1>6, <1>7 DEF Next

\* The relay implements the safety part of Admission: a connection opens only while the policy
\* admits its pair, a new policy closes at once what it does not admit, and no clock brings an
\* admission back.  That what has lapsed is closed in the end is left to ImplementsAdmission.
THEOREM RelayImplementsAdmission == Spec => Promise!SafetySpec
BY InitMapped, NextMapped, RelayInvariant, PTL DEF Spec, Promise!SafetySpec

=============================================================================
