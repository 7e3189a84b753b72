-------------------------- MODULE NodeSessionProofs --------------------------
(***************************************************************************)
(* LeaseInv is inductive, for every number of processes, disks, nonces,    *)
(* challenges, domains and faults and every length of the lease.  Most     *)
(* actions hand out no token: lemma Keep says what they have in common.    *)
(* The others start a process, open a challenge, make a session of one, or *)
(* send a heartbeat.                                                       *)
(***************************************************************************)
EXTENDS NodeSession, TLAPS

\* The parts of LeaseInv, each about one thing.
Promised ==
  \A i \in Instances :
    promise[i] > 0 /\ state # "identity_conflict" => instance = i /\ promise[i] <= lease

Unused ==
  \A c \in challenges :
    /\ c.nonce # 0 /\ c.nonce # session
    /\ \A e \in challenges : e.nonce = c.nonce => e = c
    /\ \A d \in Disks : disk[d].token # c.nonce
    /\ \A b \in Heartbeats : b.token # c.nonce

DisksKnown ==
  \A d \in Disks : disk[d].token # 0 /\ (disk[d].token = session => disk[d].instance = instance)

BeatsKnown ==
  \A b \in Heartbeats : b.token # 0 /\ (b.token = session => b.instance = instance)

UpOwns == \A i \in Instances : proc[i].pc = "up" => disk[proc[i].disk].instance = i

Apart ==
  \A i, j \in Instances :
    proc[i].pc \in Running /\ proc[j].pc \in Running /\ proc[i].disk = proc[j].disk => i = j

\* LeaseInv is its parts.
LEMMA Parts ==
  LeaseInv <=> TypeOK /\ Promised /\ Unused /\ DisksKnown /\ BeatsKnown /\ UpOwns /\ Apart
BY DEF LeaseInv, Promised, Unused, DisksKnown, BeatsKnown, UpOwns, Apart

\* The same of the next state.
LEMMA PartsNext ==
  LeaseInv' <=> TypeOK' /\ Promised' /\ Unused' /\ DisksKnown' /\ BeatsKnown' /\ UpOwns' /\ Apart'
BY DEF LeaseInv, Promised, Unused, DisksKnown, BeatsKnown, UpOwns, Apart

\* The first process holds the lease (Init).
LEMMA InitInv == Init => LeaseInv
<1> SUFFICES ASSUME Init PROVE LeaseInv
  OBVIOUS
<1>1. NoChallenge \in Challenges
  BY ConstantsAssumption DEF NoChallenge, Challenges, Nonces
<1>2. TypeOK
  BY <1>1, ConstantsAssumption DEF Init, TypeOK, Nonces, Places
<1>3. Heartbeats = {}
  BY DEF Init, Heartbeats
<1>4. Promised /\ Unused /\ DisksKnown /\ BeatsKnown
  BY <1>3, ConstantsAssumption DEF Init, Promised, Unused, DisksKnown, BeatsKnown
<1>5. UpOwns /\ Apart
  BY ConstantsAssumption DEF Init, UpOwns, Apart, Running
<1> QED
  BY <1>2, <1>4, <1>5, Parts

\* Fewer requests on the wire are no more heartbeats.
LEMMA FewerBeats ==
  ASSUME wire' \subseteq wire
  PROVE  Heartbeats' \subseteq Heartbeats
BY DEF Heartbeats

\* Heartbeats are the contents of the requests of that kind.
LEMMA BeatOnWire ==
  ASSUME NEW x
  PROVE  /\ x \in Heartbeats <=> \E w \in wire : w.kind = "beat" /\ w.ch = x
         /\ x \in Heartbeats' <=> \E w \in wire' : w.kind = "beat" /\ w.ch = x
BY DEF Heartbeats

\* A step that gives out no token keeps what is known of tokens.
LEMMA Keep ==
  ASSUME LeaseInv, TypeOK', Promised',
         challenges' \subseteq challenges,
         session' \in {session, 0},
         instance' = instance \/ session' = 0,
         disk' = disk,
         Heartbeats' \subseteq Heartbeats,
         \A i \in Instances :
           /\ proc'[i].pc = "up" => proc[i].pc = "up"
           /\ proc'[i].pc \in Running => proc[i].pc \in Running /\ proc'[i].disk = proc[i].disk
  PROVE  LeaseInv'
<1>1. Unused'
  BY Parts DEF Unused
<1>2. DisksKnown'
  BY Parts DEF DisksKnown
<1>3. BeatsKnown'
  BY Parts DEF BeatsKnown
<1>4. UpOwns'
  BY Parts DEF UpOwns, Running
<1>5. Apart'
  BY Parts DEF Apart
<1> QED
  BY <1>1, <1>2, <1>3, <1>4, <1>5, PartsNext

\* What Goto does to the processes.
LEMMA GotoFacts ==
  ASSUME TypeOK, NEW i \in Instances, NEW place \in Places, Goto(i, place)
  PROVE  /\ proc' \in [Instances -> [pc : Places, disk : Disks, wait : 0..Lease, ch : Challenges]]
         /\ proc'[i].pc = place /\ proc'[i].disk = proc[i].disk /\ proc'[i].wait = 0
         /\ \A j \in Instances \ {i} : proc'[j] = proc[j]
<1>1. NoChallenge \in Challenges
  BY ConstantsAssumption DEF NoChallenge, Challenges, Nonces
<1>2. 0 \in 0..Lease
  BY ConstantsAssumption
<1> DEFINE Procs == [pc : Places, disk : Disks, wait : 0..Lease, ch : Challenges]
           p == [proc[i] EXCEPT !.pc = place, !.ch = NoChallenge, !.wait = 0]
<1>3. proc \in [Instances -> Procs] /\ proc[i] \in Procs
  BY DEF TypeOK
<1>4. p \in Procs /\ p.pc = place /\ p.disk = proc[i].disk /\ p.wait = 0
  BY <1>1, <1>2, <1>3
<1>5. proc' = [proc EXCEPT ![i] = p]
  BY <1>3 DEF Goto
<1> HIDE DEF p, Procs
<1>6. proc' \in [Instances -> Procs] /\ proc'[i] = p /\ \A j \in Instances \ {i} : proc'[j] = proc[j]
  BY <1>3, <1>4, <1>5
<1> QED
  BY <1>4, <1>6 DEF Procs

\* Time passes for the lease and for what was promised alike.
LEMMA TickKeeps ==
  ASSUME LeaseInv, Tick
  PROVE  LeaseInv'
<1>1. TypeOK /\ Promised
  BY Parts
<1>2. \A n \in 0..Lease : Less(n) \in 0..Lease
  BY ConstantsAssumption DEF Less
<1>3. proc' \in [Instances -> [pc : Places, disk : Disks, wait : 0..Lease, ch : Challenges]]
  BY <1>1, <1>2 DEF Tick, TypeOK
<1>4. promise' \in [Instances -> 0..Lease] /\ lease' \in 0..Lease
  BY <1>1, <1>2 DEF Tick, TypeOK
<1>5. TypeOK'
  BY <1>1, <1>3, <1>4 DEF Tick, TypeOK
<1>6. \A n, k \in 0..Lease : Less(n) > 0 => n > 0 /\ (n <= k => Less(n) <= Less(k))
  BY ConstantsAssumption DEF Less
<1>7. Promised'
  BY <1>1, <1>6 DEF Tick, Promised, TypeOK
<1>8. \A i \in Instances : proc'[i].pc = proc[i].pc /\ proc'[i].disk = proc[i].disk
  BY <1>1 DEF Tick, TypeOK
<1>9. Heartbeats' \subseteq Heartbeats
  BY FewerBeats DEF Tick
<1> QED
  BY <1>5, <1>7, <1>8, <1>9, Keep DEF Tick

\* What the answer to a renewal does to the process that posted it.
LEMMA AnsweredFacts ==
  ASSUME TypeOK, NEW c \in Challenges, NEW place \in {"idle", "up", "conflict"},
         Answered(c, place)
  PROVE  /\ proc' \in [Instances -> [pc : Places, disk : Disks, wait : 0..Lease, ch : Challenges]]
         /\ faults' \in 0..MaxFaults
         /\ \/ proc' = proc
            \/ /\ proc[c.instance].pc = "posted" /\ proc'[c.instance].pc \in {place, "idle"}
               /\ proc'[c.instance].disk = proc[c.instance].disk /\ proc'[c.instance].wait = 0
               /\ \A j \in Instances \ {c.instance} : proc'[j] = proc[j]
<1>1. c.instance \in Instances
  BY DEF Challenges
<1>2. place \in Places /\ "idle" \in Places
  BY DEF Places
<1>3. CASE proc[c.instance].pc = "posted" /\ proc[c.instance].ch = c
  <2>1. CASE Goto(c.instance, place) /\ UNCHANGED faults
    BY <1>1, <1>2, <1>3, <2>1, GotoFacts DEF TypeOK
  <2>2. CASE Fault /\ Goto(c.instance, "idle")
    <3>1. faults' \in 0..MaxFaults
      BY <2>2, ConstantsAssumption DEF Fault, TypeOK
    <3> QED
      BY <1>1, <1>2, <1>3, <2>2, <3>1, GotoFacts
  <2> QED
    BY <1>3, <2>1, <2>2 DEF Answered
<1>4. CASE ~(proc[c.instance].pc = "posted" /\ proc[c.instance].ch = c)
  BY <1>4 DEF Answered, TypeOK
<1> QED
  BY <1>3, <1>4

\* Requests of the two kinds have challenges and heartbeats in them.
LEMMA WireTypes ==
  ASSUME TypeOK
  PROVE  Renewals \subseteq Challenges /\ Heartbeats \subseteq Beats
BY DEF TypeOK, Renewals, Heartbeats

\* The steps of a process that neither post nor send anything keep the invariant.
LEMMA ProcessKeeps ==
  ASSUME LeaseInv, NEW i \in Instances,
         WaitOver(i) \/ RenewDue(i) \/ Timeout(i) \/ Stop(i)
  PROVE  LeaseInv'
<1>1. TypeOK /\ Promised
  BY Parts
<1>2. PICK place \in {"idle", "dead"} : Goto(i, place) /\ proc[i].pc \in Running
  BY DEF WaitOver, RenewDue, Timeout, Stop, Running
<1>3. /\ proc' \in [Instances -> [pc : Places, disk : Disks, wait : 0..Lease, ch : Challenges]]
      /\ proc'[i].pc = place /\ proc'[i].disk = proc[i].disk
      /\ \A j \in Instances \ {i} : proc'[j] = proc[j]
  BY <1>1, <1>2, GotoFacts DEF Places
<1>4. /\ UNCHANGED <<row, disk, promise, presented>>
      /\ wire' \subseteq wire /\ probing' \subseteq probing
  BY DEF WaitOver, RenewDue, Timeout, Stop
<1>5. faults' \in 0..MaxFaults
  BY <1>1, ConstantsAssumption DEF WaitOver, RenewDue, Timeout, Stop, Fault, TypeOK
<1>6. TypeOK'
  BY <1>1, <1>3, <1>4, <1>5 DEF TypeOK, row
<1>7. Promised'
  BY <1>1, <1>4 DEF Promised, row
<1>8. \A j \in Instances :
        /\ proc'[j].pc = "up" => proc[j].pc = "up"
        /\ proc'[j].pc \in Running => proc[j].pc \in Running /\ proc'[j].disk = proc[j].disk
  BY <1>2, <1>3
<1>9. Heartbeats' \subseteq Heartbeats
  BY <1>4, FewerBeats
<1> QED
  BY <1>4, <1>6, <1>7, <1>8, <1>9, Keep DEF row

\* A process starts on a disk that no running process works on.
LEMMA StartKeeps ==
  ASSUME LeaseInv, NEW i \in Instances, NEW d \in Disks, Start(i, d)
  PROVE  LeaseInv'
<1>1. TypeOK /\ Promised /\ Unused /\ DisksKnown /\ BeatsKnown /\ UpOwns /\ Apart
  BY Parts
<1>2. /\ proc' \in [Instances -> [pc : Places, disk : Disks, wait : 0..Lease, ch : Challenges]]
      /\ proc'[i].pc = "wait" /\ proc'[i].disk = d
      /\ \A j \in Instances \ {i} : proc'[j] = proc[j]
  <2>1. Lease \in 0..Lease /\ "wait" \in Places
    BY ConstantsAssumption DEF Places
  <2> QED
    <3> DEFINE Procs == [pc : Places, disk : Disks, wait : 0..Lease, ch : Challenges]
               p == [proc[i] EXCEPT !.pc = "wait", !.disk = d, !.wait = Lease]
    <3>1. proc \in [Instances -> Procs] /\ proc[i] \in Procs
      BY <1>1 DEF TypeOK
    <3>2. p \in Procs /\ p.pc = "wait" /\ p.disk = d
      BY <2>1, <3>1
    <3>3. proc' = [proc EXCEPT ![i] = p]
      BY <3>1 DEF Start
    <3> HIDE DEF p, Procs
    <3>4. proc' \in [Instances -> Procs] /\ proc'[i] = p /\ \A j \in Instances \ {i} : proc'[j] = proc[j]
      BY <3>1, <3>2, <3>3
    <3> QED
      BY <3>2, <3>4 DEF Procs
<1>3. UNCHANGED <<row, probing, wire, disk, promise, presented, faults>> /\ Heartbeats' = Heartbeats
  BY DEF Start, Heartbeats
<1>4. TypeOK'
  BY <1>1, <1>2, <1>3 DEF TypeOK, row
<1>5. Promised' /\ Unused' /\ DisksKnown' /\ BeatsKnown'
  BY <1>1, <1>3 DEF Promised, Unused, DisksKnown, BeatsKnown, row
<1>6. UpOwns'
  BY <1>1, <1>2, <1>3 DEF UpOwns
<1>7. Apart'
  BY <1>1, <1>2 DEF Apart, Start
<1> QED
  BY <1>4, <1>5, <1>6, <1>7, PartsNext

\* The steps of the controller before its decision, and its refusals, keep the invariant.
LEMMA RefusalKeeps ==
  ASSUME LeaseInv, NEW c \in Challenges, CheckDomain(c) \/ VerifyFails(c) \/ Refuse(c)
  PROVE  LeaseInv'
<1>1. TypeOK /\ Promised
  BY Parts
<1>2. UNCHANGED <<row, disk, promise, presented>> /\ wire' \subseteq wire
  BY DEF CheckDomain, VerifyFails, Refuse, Taken
<1>3. probing' \subseteq Challenges
  BY <1>1 DEF CheckDomain, VerifyFails, Refuse, TypeOK
<1>4. /\ proc' \in [Instances -> [pc : Places, disk : Disks, wait : 0..Lease, ch : Challenges]]
      /\ faults' \in 0..MaxFaults
      /\ \A j \in Instances :
           /\ proc'[j].pc = "up" => proc[j].pc = "up"
           /\ proc'[j].pc \in Running => proc[j].pc \in Running /\ proc'[j].disk = proc[j].disk
  <2>1. CASE Answered(c, "idle")
    BY <1>1, <2>1, AnsweredFacts DEF Running
  <2>2. CASE UNCHANGED <<proc, faults>>
    BY <1>1, <2>2 DEF TypeOK
  <2>3. CASE /\ Fault
             /\ proc' = IF proc[c.instance].pc = "posted" /\ proc[c.instance].ch = c
                          THEN [proc EXCEPT ![c.instance].pc = "idle",
                                            ![c.instance].ch = NoChallenge]
                          ELSE proc
    <3>1. faults' \in 0..MaxFaults
      BY <1>1, <2>3, ConstantsAssumption DEF Fault, TypeOK
    <3>2. NoChallenge \in Challenges /\ c.instance \in Instances
      BY ConstantsAssumption DEF NoChallenge, Challenges, Nonces
    <3>3. proc' \in [Instances -> [pc : Places, disk : Disks, wait : 0..Lease, ch : Challenges]]
      <4>1. "idle" \in Places
        BY DEF Places
      <4>2. [proc EXCEPT ![c.instance].pc = "idle", ![c.instance].ch = NoChallenge]
              \in [Instances -> [pc : Places, disk : Disks, wait : 0..Lease, ch : Challenges]]
        <5> DEFINE Procs == [pc : Places, disk : Disks, wait : 0..Lease, ch : Challenges]
                   p == [proc[c.instance] EXCEPT !.pc = "idle", !.ch = NoChallenge]
        <5>1. proc \in [Instances -> Procs] /\ proc[c.instance] \in Procs
          BY <1>1, <3>2 DEF TypeOK
        <5>2. p \in Procs
          BY <3>2, <4>1, <5>1
        <5>3. [proc EXCEPT ![c.instance].pc = "idle", ![c.instance].ch = NoChallenge]
                = [proc EXCEPT ![c.instance] = p]
          BY <3>2, <5>1
        <5> HIDE DEF p, Procs
        <5>4. [proc EXCEPT ![c.instance] = p] \in [Instances -> Procs]
          BY <5>1, <5>2
        <5> QED
          BY <5>3, <5>4 DEF Procs
      <4>3. proc \in [Instances -> [pc : Places, disk : Disks, wait : 0..Lease, ch : Challenges]]
        BY <1>1 DEF TypeOK
      <4> QED
        BY <2>3, <4>2, <4>3
    <3> QED
      <4>1. CASE proc[c.instance].pc = "posted" /\ proc[c.instance].ch = c
        <5>1. /\ proc'[c.instance].pc = "idle" /\ proc'[c.instance].disk = proc[c.instance].disk
              /\ \A j \in Instances \ {c.instance} : proc'[j] = proc[j]
          BY <1>1, <2>3, <3>2, <4>1 DEF TypeOK
        <5> QED
          BY <3>1, <3>3, <4>1, <5>1 DEF Running
      <4>2. CASE ~(proc[c.instance].pc = "posted" /\ proc[c.instance].ch = c)
        BY <2>3, <3>1, <3>3, <4>2
      <4> QED
        BY <4>1, <4>2
  <2> QED
    BY <2>1, <2>2, <2>3 DEF CheckDomain, VerifyFails, Refuse
<1>5. TypeOK'
  BY <1>1, <1>2, <1>3, <1>4 DEF TypeOK, row
<1>6. Promised'
  BY <1>1, <1>2 DEF Promised, row
<1>7. Heartbeats' \subseteq Heartbeats
  BY <1>2, FewerBeats
<1> QED
  BY <1>2, <1>4, <1>5, <1>6, <1>7, Keep DEF row

\* A heartbeat extends the lease of the instance whose token it carries.
LEMMA HeartbeatKeeps ==
  ASSUME LeaseInv, NEW b \in Heartbeats, NodeHeartbeat(b)
  PROVE  LeaseInv'
<1>1. TypeOK /\ Promised /\ BeatsKnown
  BY Parts
<1>2. b.instance \in Instances
  BY <1>1, WireTypes DEF Beats
<1>3. /\ UNCHANGED <<enabled, state, domain, instance, session, challenges, probing, disk,
                     presented, faults>>
      /\ wire' \subseteq wire
  BY DEF NodeHeartbeat
<1>4. CASE b.token = session /\ state = "registered" /\ enabled
  <2>1. lease' = Lease /\ promise' = [promise EXCEPT ![b.instance] = Lease] /\ UNCHANGED proc
    BY <1>4 DEF NodeHeartbeat, NewLease
  <2>2. b.instance = instance
    BY <1>1, <1>4 DEF BeatsKnown
  <2>3. promise' \in [Instances -> 0..Lease] /\ lease' \in 0..Lease
    <3>1. Lease \in 0..Lease
      BY ConstantsAssumption
    <3> QED
      BY <1>1, <1>2, <2>1, <3>1 DEF TypeOK
  <2>4. TypeOK'
    BY <1>1, <1>3, <2>1, <2>3 DEF TypeOK
  <2>5. \A i \in Instances : promise'[i] > 0 /\ state # "identity_conflict" => instance = i
    BY <1>1, <1>2, <2>1, <2>2 DEF Promised, TypeOK
  <2>6. \A i \in Instances : promise'[i] <= lease'
    BY <2>1, <2>3, ConstantsAssumption
  <2>7. Promised'
    BY <1>3, <2>5, <2>6 DEF Promised
  <2> QED
    BY <1>3, <2>1, <2>4, <2>7, FewerBeats, Keep
<1>5. CASE ~(b.token = session /\ state = "registered" /\ enabled)
  <2>1. /\ UNCHANGED <<lease, promise>>
        /\ (proc[b.instance].pc = "up" /\ Goto(b.instance, "idle")) \/ UNCHANGED proc
    BY <1>5 DEF NodeHeartbeat
  <2>2. /\ proc' \in [Instances -> [pc : Places, disk : Disks, wait : 0..Lease, ch : Challenges]]
        /\ \A j \in Instances :
             /\ proc'[j].pc = "up" => proc[j].pc = "up"
             /\ proc'[j].pc \in Running => proc[j].pc \in Running /\ proc'[j].disk = proc[j].disk
    <3>1. CASE proc[b.instance].pc = "up" /\ Goto(b.instance, "idle")
      <4>1. "idle" \in Places
        BY DEF Places
      <4> QED
        BY <1>1, <1>2, <3>1, <4>1, GotoFacts DEF Running
    <3>2. CASE UNCHANGED proc
      BY <1>1, <3>2 DEF TypeOK
    <3> QED
      BY <2>1, <3>1, <3>2
  <2>3. TypeOK'
    BY <1>1, <1>3, <2>1, <2>2 DEF TypeOK
  <2>4. Promised'
    BY <1>1, <1>3, <2>1 DEF Promised
  <2> QED
    BY <1>3, <2>2, <2>3, <2>4, FewerBeats, Keep
<1> QED
  BY <1>4, <1>5

\* A heartbeat carries the token of its sender's disk, which is the sender's own.
LEMMA BeatKeeps ==
  ASSUME LeaseInv, NEW i \in Instances, Beat(i)
  PROVE  LeaseInv'
<1> DEFINE b == [token |-> disk[proc[i].disk].token, instance |-> i]
<1>1. TypeOK /\ Promised /\ Unused /\ DisksKnown /\ BeatsKnown /\ UpOwns /\ Apart
  BY Parts
<1>2. /\ wire' = wire \cup {[kind |-> "beat", ch |-> b]}
      /\ proc[i].pc = "up"
      /\ UNCHANGED <<row, probing, proc, disk, promise, presented, faults>>
  BY DEF Beat
<1>3. proc[i].disk \in Disks /\ b \in Beats
  BY <1>1 DEF TypeOK, Beats
<1>4. Heartbeats' = Heartbeats \cup {b}
  <2> HIDE DEF b
  <2>1. ASSUME NEW x PROVE x \in Heartbeats' <=> x \in Heartbeats \cup {b}
    <3> DEFINE r == [kind |-> "beat", ch |-> b]
    <3>1. r.kind = "beat" /\ r.ch = b
      OBVIOUS
    <3>2. wire' = wire \cup {r}
      BY <1>2
    <3> HIDE DEF r
    <3> QED
      BY <3>1, <3>2, BeatOnWire
  <2> QED
    BY <2>1
<1>5. wire' \subseteq [kind : {"renew"}, ch : Challenges] \cup [kind : {"beat"}, ch : Beats]
  BY <1>1, <1>2, <1>3 DEF TypeOK
<1>6. TypeOK'
  BY <1>1, <1>2, <1>5 DEF TypeOK, row
<1>7. /\ b.token # 0 /\ (b.token = session => b.instance = instance)
      /\ \A c \in challenges : b.token # c.nonce
  BY <1>1, <1>2, <1>3 DEF DisksKnown, UpOwns, Unused
<1> HIDE DEF b
<1>8. Promised' /\ DisksKnown' /\ UpOwns' /\ Apart'
  BY <1>1, <1>2 DEF Promised, DisksKnown, UpOwns, Apart, row
<1>9. Unused'
  BY <1>1, <1>2, <1>4, <1>7 DEF Unused, row
<1>10. BeatsKnown'
  BY <1>1, <1>2, <1>4, <1>7 DEF BeatsKnown, row
<1> QED
  BY <1>6, <1>8, <1>9, <1>10, PartsNext

\* A new challenge has a nonce that is not in use, and is posted or given up.
LEMMA ChallengeKeeps ==
  ASSUME LeaseInv, NEW i \in Instances, SessionChallenge(i)
  PROVE  LeaseInv'
<1> DEFINE ch(n) == [nonce |-> n, instance |-> i, domain |-> domain,
                     purpose |-> IF state = "domain_pending" THEN "domain_change" ELSE "session"]
<1>1. TypeOK /\ Promised /\ Unused /\ DisksKnown /\ BeatsKnown /\ UpOwns /\ Apart
  BY Parts
<1>2. PICK n \in 1..MaxNonces :
        /\ n \notin InUse
        /\ challenges' = challenges \cup {ch(n)}
        /\ \/ /\ proc' = [proc EXCEPT ![i].pc = "posted", ![i].ch = ch(n)]
              /\ wire' = wire \cup {[kind |-> "renew", ch |-> ch(n)]}
              /\ UNCHANGED faults
           \/ UNCHANGED <<proc, wire, faults>>
           \/ Fault /\ UNCHANGED <<proc, wire>>
  BY DEF SessionChallenge
<1> DEFINE c == ch(n)
<1>3. c \in Challenges /\ c.nonce = n /\ n # 0
  BY <1>1, ConstantsAssumption DEF TypeOK, Challenges, Nonces
<1>4. /\ UNCHANGED <<enabled, state, domain, instance, lease, session, probing, disk, promise,
                     presented>>
      /\ proc[i].pc = "idle"
  BY DEF SessionChallenge
<1>5. /\ n # session
      /\ \A e \in challenges : e.nonce # n
      /\ \A d \in Disks : disk[d].token # n
      /\ \A b \in Heartbeats : b.token # n
  BY <1>2 DEF InUse, Heartbeats
<1>6. challenges' = challenges \cup {c}
  BY <1>2
<1>7. faults' \in 0..MaxFaults
  BY <1>1, <1>2, ConstantsAssumption DEF TypeOK, Fault
<1>8. \/ /\ proc' = [proc EXCEPT ![i].pc = "posted", ![i].ch = c]
         /\ wire' = wire \cup {[kind |-> "renew", ch |-> c]}
      \/ UNCHANGED <<proc, wire>>
  BY <1>2
<1> HIDE DEF c, ch
<1>9. /\ proc' \in [Instances -> [pc : Places, disk : Disks, wait : 0..Lease, ch : Challenges]]
      /\ proc'[i].pc \in {"posted", "idle"} /\ proc'[i].disk = proc[i].disk
      /\ \A j \in Instances \ {i} : proc'[j] = proc[j]
  <2>1. "posted" \in Places
    BY DEF Places
  <2> QED
    <3>1. CASE proc' = [proc EXCEPT ![i].pc = "posted", ![i].ch = c]
      <4> DEFINE Procs == [pc : Places, disk : Disks, wait : 0..Lease, ch : Challenges]
                 p == [proc[i] EXCEPT !.pc = "posted", !.ch = c]
      <4>1. proc \in [Instances -> Procs] /\ proc[i] \in Procs
        BY <1>1 DEF TypeOK
      <4>2. p \in Procs /\ p.pc = "posted" /\ p.disk = proc[i].disk
        BY <1>3, <2>1, <4>1
      <4>3. proc' = [proc EXCEPT ![i] = p]
        BY <3>1, <4>1
      <4> HIDE DEF p, Procs
      <4>4. /\ proc' \in [Instances -> Procs] /\ proc'[i] = p
            /\ \A j \in Instances \ {i} : proc'[j] = proc[j]
        BY <4>1, <4>2, <4>3
      <4> QED
        BY <4>2, <4>4 DEF Procs
    <3>2. CASE UNCHANGED proc
      BY <1>1, <1>4, <3>2 DEF TypeOK
    <3> QED
      BY <1>8, <3>1, <3>2
<1>10. wire' \subseteq [kind : {"renew"}, ch : Challenges] \cup [kind : {"beat"}, ch : Beats]
  BY <1>1, <1>3, <1>8 DEF TypeOK
<1>11. Heartbeats' = Heartbeats
  <2>1. ASSUME NEW x PROVE x \in Heartbeats' <=> x \in Heartbeats
    <3> DEFINE r == [kind |-> "renew", ch |-> c]
    <3>1. r.kind # "beat"
      OBVIOUS
    <3>2. wire' = wire \cup {r} \/ wire' = wire
      BY <1>8
    <3> HIDE DEF r
    <3> QED
      BY <3>1, <3>2, BeatOnWire
  <2> QED
    BY <2>1
<1>12. TypeOK'
  BY <1>1, <1>3, <1>4, <1>6, <1>7, <1>9, <1>10 DEF TypeOK
<1>13. Promised' /\ DisksKnown' /\ BeatsKnown'
  BY <1>1, <1>4, <1>11 DEF Promised, DisksKnown, BeatsKnown
<1>14. Unused'
  BY <1>1, <1>3, <1>4, <1>5, <1>6, <1>11 DEF Unused
<1>15. UpOwns'
  BY <1>1, <1>4, <1>9 DEF UpOwns
<1>16. Apart'
  BY <1>1, <1>4, <1>9 DEF Apart, Running
<1> QED
  BY <1>12, <1>13, <1>14, <1>15, <1>16, PartsNext

\* The decision on a renewal: a running lease of another instance makes it a conflict,
\* otherwise the instance gets a new session with the challenge's nonce as its token.
LEMMA DecideKeeps ==
  ASSUME LeaseInv, NEW c \in Challenges, Proven(c), Decide(c), UNCHANGED <<enabled, domain>>,
         wire' \subseteq wire, probing' \subseteq probing
  PROVE  LeaseInv'
<1>1. TypeOK /\ Promised /\ Unused /\ DisksKnown /\ BeatsKnown /\ UpOwns /\ Apart
  BY Parts
<1>2. c \in challenges /\ c.instance \in Instances /\ c.nonce \in Nonces /\ c.domain \in 0..MaxDomain
  BY DEF Proven, Challenges
<1>3. Heartbeats' \subseteq Heartbeats
  BY FewerBeats
<1>4. CASE Held(c)
  <2>1. /\ state' = "identity_conflict" /\ session' = 0 /\ presented' = c.instance
        /\ challenges' = challenges \ {c} /\ Answered(c, "conflict")
        /\ UNCHANGED <<instance, lease, disk, promise>>
    BY <1>4 DEF Decide
  <2>2. /\ proc' \in [Instances -> [pc : Places, disk : Disks, wait : 0..Lease, ch : Challenges]]
        /\ faults' \in 0..MaxFaults
        /\ \A j \in Instances :
             /\ proc'[j].pc = "up" => proc[j].pc = "up"
             /\ proc'[j].pc \in Running => proc[j].pc \in Running /\ proc'[j].disk = proc[j].disk
    BY <1>1, <1>2, <2>1, AnsweredFacts DEF Running
  <2>3. TypeOK'
    <3>1. 0 \in Nonces
      BY ConstantsAssumption DEF Nonces
    <3> QED
      BY <1>1, <1>2, <2>1, <2>2, <3>1 DEF TypeOK
  <2>4. Promised'
    BY <2>1 DEF Promised
  <2> QED
    BY <1>3, <2>1, <2>2, <2>3, <2>4, Keep
<1>5. CASE ~Held(c)
  <2>1. /\ state' = "registered" /\ instance' = c.instance /\ lease' = Lease /\ session' = c.nonce
        /\ promise' = [promise EXCEPT ![c.instance] = Lease]
        /\ challenges' = challenges \ {c} /\ Answered(c, "up")
        /\ disk' = IF proc'[c.instance].pc = "up" /\ proc[c.instance].pc = "posted"
                     THEN [disk EXCEPT ![proc[c.instance].disk] =
                            [instance |-> c.instance, token |-> c.nonce, domain |-> c.domain]]
                     ELSE disk
        /\ presented' = presented
    BY <1>5 DEF Decide, NewLease
  <2>2. /\ proc' \in [Instances -> [pc : Places, disk : Disks, wait : 0..Lease, ch : Challenges]]
        /\ faults' \in 0..MaxFaults
        /\ \/ proc' = proc
           \/ /\ proc[c.instance].pc = "posted" /\ proc'[c.instance].pc \in {"up", "idle"}
              /\ proc'[c.instance].disk = proc[c.instance].disk
              /\ \A j \in Instances \ {c.instance} : proc'[j] = proc[j]
    BY <1>1, <2>1, AnsweredFacts
  <2>3. proc[c.instance].disk \in Disks
    BY <1>1, <1>2 DEF TypeOK
  <2>4. disk' \in [Disks -> [instance : Instances, token : Nonces, domain : 0..MaxDomain]]
    BY <1>1, <1>2, <2>1, <2>3 DEF TypeOK
  <2>5. promise' \in [Instances -> 0..Lease] /\ lease' \in 0..Lease
    <3>1. Lease \in 0..Lease
      BY ConstantsAssumption
    <3> QED
      BY <1>1, <1>2, <2>1, <3>1 DEF TypeOK
  <2>6. TypeOK'
    BY <1>1, <1>2, <2>1, <2>2, <2>4, <2>5 DEF TypeOK
  <2>7. Promised'
    <3>1. state # "identity_conflict"
      BY DEF Proven
    <3>2. ASSUME NEW i \in Instances \ {c.instance} PROVE promise[i] = 0
      <4>1. promise[i] \in 0..Lease /\ lease \in 0..Lease
        BY <1>1 DEF TypeOK
      <4>2. ~(promise[i] > 0)
        <5> SUFFICES ASSUME promise[i] > 0 PROVE FALSE
          OBVIOUS
        <5>1. instance = i /\ promise[i] <= lease
          BY <1>1, <3>1 DEF Promised
        <5>2. lease > 0
          BY <4>1, <5>1, ConstantsAssumption
        <5> QED
          BY <1>5, <5>1, <5>2 DEF Held
      <4> QED
        BY <4>1, <4>2, ConstantsAssumption
    <3>3. \A i \in Instances : promise'[i] > 0 => i = c.instance
      <4>1. \A i \in Instances \ {c.instance} : promise'[i] = 0
        BY <1>1, <1>2, <2>1, <3>2 DEF TypeOK
      <4> QED
        BY <4>1
    <3>4. \A i \in Instances : promise'[i] <= lease'
      BY <2>1, <2>5, ConstantsAssumption
    <3> QED
      BY <2>1, <3>3, <3>4 DEF Promised
  <2>8. \A d \in Disks :
          \/ disk'[d] = disk[d]
          \/ disk'[d].token = c.nonce /\ disk'[d].instance = c.instance
    <3> DEFINE new == [instance |-> c.instance, token |-> c.nonce, domain |-> c.domain]
    <3>1. new.token = c.nonce /\ new.instance = c.instance
      OBVIOUS
    <3>2. disk' = disk \/ disk' = [disk EXCEPT ![proc[c.instance].disk] = new]
      BY <2>1
    <3>3. DOMAIN disk = Disks
      BY <1>1 DEF TypeOK
    <3> HIDE DEF new
    <3> QED
      BY <2>3, <3>1, <3>2, <3>3
  <2>9. Unused'
    <3> SUFFICES ASSUME NEW e \in challenges'
                 PROVE  /\ e.nonce # 0 /\ e.nonce # session'
                        /\ \A x \in challenges' : x.nonce = e.nonce => x = e
                        /\ \A d \in Disks : disk'[d].token # e.nonce
                        /\ \A b \in Heartbeats' : b.token # e.nonce
      BY DEF Unused
    <3>1. e \in challenges /\ e # c /\ challenges' \subseteq challenges
      BY <2>1
    <3>2. e.nonce # 0 /\ e.nonce # c.nonce
      BY <1>1, <1>2, <3>1 DEF Unused
    <3>3. /\ \A x \in challenges : x.nonce = e.nonce => x = e
          /\ \A d \in Disks : disk[d].token # e.nonce
          /\ \A b \in Heartbeats : b.token # e.nonce
      BY <1>1, <3>1 DEF Unused
    <3>4. \A d \in Disks : disk'[d].token # e.nonce
      BY <2>8, <3>2, <3>3
    <3> QED
      BY <1>3, <2>1, <3>1, <3>2, <3>3, <3>4
  <2>10. DisksKnown'
    BY <1>1, <1>2, <2>1, <2>8 DEF DisksKnown, Unused
  <2>11. BeatsKnown'
    BY <1>1, <1>2, <1>3, <2>1 DEF BeatsKnown, Unused
  <2>12. \A j \in Instances : /\ proc'[j].disk = proc[j].disk
                              /\ proc'[j].pc \in Running => proc[j].pc \in Running
    BY <2>2 DEF Running
  <2>13. Apart'
    BY <1>1, <2>12 DEF Apart
  <2>14. UpOwns'
    <3> SUFFICES ASSUME NEW j \in Instances, proc'[j].pc = "up"
                 PROVE  disk'[proc'[j].disk].instance = j
      BY DEF UpOwns
    <3>1. proc[j].disk \in Disks
      BY <1>1 DEF TypeOK
    <3>2. CASE proc[c.instance].pc = "posted" /\ proc'[c.instance].pc = "up"
      <4>1. CASE j = c.instance
        BY <1>1, <2>1, <2>12, <3>1, <3>2, <4>1 DEF TypeOK
      <4>2. CASE j # c.instance
        <5>1. proc[j].pc = "up"
          BY <2>2, <4>2
        <5>2. proc[j].disk # proc[c.instance].disk
          BY <1>1, <1>2, <3>2, <4>2, <5>1 DEF Apart, Running
        <5>3. disk'[proc[j].disk] = disk[proc[j].disk]
          BY <1>1, <2>1, <2>3, <3>1, <3>2, <5>2 DEF TypeOK
        <5> QED
          BY <1>1, <2>12, <5>1, <5>3 DEF UpOwns
      <4> QED
        BY <4>1, <4>2
    <3>3. CASE ~(proc[c.instance].pc = "posted" /\ proc'[c.instance].pc = "up")
      <4>1. disk' = disk /\ proc[j].pc = "up"
        BY <2>1, <2>2, <3>3
      <4> QED
        BY <1>1, <2>12, <4>1 DEF UpOwns
    <3> QED
      BY <3>2, <3>3
  <2> QED
    BY <2>6, <2>7, <2>9, <2>10, <2>11, <2>13, <2>14, PartsNext
<1> QED
  BY <1>4, <1>5

\* A challenge that runs out is known no more.
LEMMA ExpireKeeps ==
  ASSUME LeaseInv, NEW c \in challenges, ExpireChallenge(c)
  PROVE  LeaseInv'
<1>1. TypeOK /\ Promised
  BY Parts
<1>2. TypeOK'
  BY <1>1 DEF TypeOK, ExpireChallenge
<1>3. Promised'
  BY <1>1 DEF Promised, ExpireChallenge
<1> QED
  BY <1>2, <1>3, FewerBeats, Keep DEF ExpireChallenge

\* The owner's operations end the session and the challenges.
LEMMA OwnerKeeps ==
  ASSUME LeaseInv, ChangeNodeDomain \/ \E i \in Instances : RecoverNodeInstance(i)
  PROVE  LeaseInv'
<1>1. TypeOK /\ Promised
  BY Parts
<1>2. 0 \in Nonces
  BY ConstantsAssumption DEF Nonces
<1>3. CASE ChangeNodeDomain
  <2>1. domain' \in 0..MaxDomain
    <3>1. domain \in 0..MaxDomain /\ domain < MaxDomain /\ domain' = domain + 1
      BY <1>1, <1>3 DEF ChangeNodeDomain, TypeOK
    <3> QED
      BY <3>1, ConstantsAssumption
  <2>2. TypeOK'
    BY <1>1, <1>2, <1>3, <2>1 DEF ChangeNodeDomain, TypeOK
  <2>3. Promised'
    BY <1>1, <1>3 DEF ChangeNodeDomain, Promised
  <2> QED
    BY <1>3, <2>2, <2>3, FewerBeats, Keep DEF ChangeNodeDomain
<1>4. ASSUME NEW i \in Instances, RecoverNodeInstance(i) PROVE LeaseInv'
  <2>1. promise' \in [Instances -> 0..Lease] /\ lease' \in 0..Lease
    BY <1>4, ConstantsAssumption DEF RecoverNodeInstance, NewLease
  <2>2. TypeOK'
    BY <1>1, <1>2, <1>4, <2>1 DEF RecoverNodeInstance, TypeOK
  <2>3. Promised'
    BY <1>4, ConstantsAssumption DEF RecoverNodeInstance, Promised, NewLease
  <2> QED
    BY <1>4, <2>2, <2>3, FewerBeats, Keep DEF RecoverNodeInstance
<1> QED
  BY <1>3, <1>4

\* An owner who is disabled or enabled changes no lease and no token.
LEMMA SetUserEnabledKeeps ==
  ASSUME LeaseInv, SetUserEnabled
  PROVE  LeaseInv'
<1>1. TypeOK /\ Promised
  BY Parts
<1>2. enabled' \in BOOLEAN
  BY Zenon DEF SetUserEnabled
<1>3. UNCHANGED <<state, domain, instance, lease, session, challenges, probing, wire, proc, disk,
                  promise, presented, faults>>
  BY DEF SetUserEnabled
<1>4. TypeOK'
  BY <1>1, <1>2, <1>3 DEF TypeOK
<1>5. Promised'
  BY <1>1, <1>3 DEF Promised
<1> QED
  BY <1>3, <1>4, <1>5, FewerBeats, Keep

\* Every step keeps the invariant.
LEMMA NextInv == LeaseInv /\ [Next]_vars => LeaseInv'
<1> SUFFICES ASSUME LeaseInv, [Next]_vars PROVE LeaseInv'
  OBVIOUS
<1>1. TypeOK
  BY Parts
<1>2. Renewals \subseteq Challenges /\ probing \subseteq Challenges
  BY <1>1, WireTypes DEF TypeOK
<1>3. ASSUME NEW i \in Instances, Controller(i) PROVE LeaseInv'
  <2>1. ASSUME NEW c \in Renewals, RenewNodeSession(c) PROVE LeaseInv'
    BY <1>2, <2>1, DecideKeeps DEF RenewNodeSession, Taken
  <2>2. ASSUME NEW c \in Renewals, CheckDomain(c) \/ Refuse(c) PROVE LeaseInv'
    BY <1>2, <2>2, RefusalKeeps
  <2>3. ASSUME NEW c \in probing, VerifyDomain(c) PROVE LeaseInv'
    BY <1>2, <2>3, DecideKeeps DEF VerifyDomain
  <2>4. ASSUME NEW c \in probing, VerifyFails(c) PROVE LeaseInv'
    BY <1>2, <2>4, RefusalKeeps
  <2>5. ASSUME NEW b \in Heartbeats, NodeHeartbeat(b) PROVE LeaseInv'
    BY <2>5, HeartbeatKeeps
  <2> QED
    BY <1>3, <2>1, <2>2, <2>3, <2>4, <2>5 DEF Controller
<1>4. ASSUME NEW i \in Instances, Node(i) PROVE LeaseInv'
  BY <1>4, ProcessKeeps, ChallengeKeeps, BeatKeeps DEF Node
<1>5. CASE Environment
  BY <1>5, TickKeeps, StartKeeps, ProcessKeeps, ExpireKeeps, OwnerKeeps, SetUserEnabledKeeps
  DEF Environment
<1>6. CASE UNCHANGED vars
  BY <1>6 DEF vars, LeaseInv, TypeOK, Heartbeats
<1> QED
  BY <1>3, <1>4, <1>5, <1>6 DEF Next

\* While a lease that the controller has given to a process runs, that process stays the
\* node's instance (RenewNodeSession, NodeHeartbeat), however many processes and copies of
\* the disk there are and however long the lease is.
THEOREM LeaseSafe == SafetySpec => []LeaseKept
<1>1. LeaseInv => LeaseKept
  BY DEF LeaseInv, LeaseKept
<1> QED
  BY <1>1, InitInv, NextInv, PTL DEF SafetySpec

-----------------------------------------------------------------------------
(* CopyInv, from LeaseInv, when requests die with their process *)

\* The process has waited and still runs: it may have requests at the controller.
Asks(i) == proc[i].pc \in Running \ {"wait"}

AllAsk == (\A w \in wire : Asks(w.ch.instance)) /\ (\A c \in probing : Asks(c.instance))

Waited == \A i \in Instances : Asks(i) => proc[i].wait = 0

WaitsOut ==
  \A i \in Instances :
    proc[i].pc \in Running /\ instance # i /\ proc[instance].disk = proc[i].disk =>
      lease <= proc[i].wait

Started ==
  /\ proc[instance].pc # "new"
  /\ state = "identity_conflict" => proc[presented].pc # "new"

\* CopyInv is its parts.
LEMMA CopyParts == CopyInv <=> AllAsk /\ Waited /\ WaitsOut /\ Started /\ ConflictMeansCopy
BY DEF CopyInv, AllAsk, Asks, Waited, WaitsOut, Started

\* The same of the next state.
LEMMA CopyPartsNext ==
  CopyInv' <=> AllAsk' /\ Waited' /\ WaitsOut' /\ Started' /\ ConflictMeansCopy'
BY DEF CopyInv, AllAsk, Asks, Waited, WaitsOut, Started

\* Whose requests they are.
LEMMA Senders ==
  ASSUME TypeOK
  PROVE  /\ \A w \in wire : w.ch.instance \in Instances
         /\ \A c \in probing : c.instance \in Instances
BY DEF TypeOK, Challenges, Beats

\* The process goes on as it was, or has waited and is asking.
GoesOn(i) ==
  /\ proc'[i].disk = proc[i].disk /\ proc'[i].wait = proc[i].wait
  /\ \/ proc'[i].pc = proc[i].pc
     \/ proc[i].pc \in Running /\ proc[i].wait = 0 /\ proc'[i].pc \in Running \ {"wait"}

\* Most steps let every process go on, take up requests or have some from a process that
\* asks, and give the lease to none but a running process, whose disk is its own.
LEMMA CopyKeep ==
  ASSUME LeaseInv, CopyInv, TypeOK',
         \A i \in Instances : GoesOn(i),
         \A w \in wire' : w \in wire \/ Asks(w.ch.instance),
         \A c \in probing' : c \in probing \/ Asks(c.instance),
         UNCHANGED <<instance, lease>> \/ proc[instance'].pc \in Running,
         state' = "identity_conflict" =>
           proc[presented'].pc # "new" /\ proc[presented'].disk # proc[instance'].disk
  PROVE  CopyInv'
<1>1. TypeOK /\ Apart /\ AllAsk /\ Waited /\ WaitsOut /\ Started
  BY Parts, CopyParts
<1>2. instance \in Instances /\ instance' \in Instances /\ presented' \in Instances
  BY <1>1 DEF TypeOK
<1>3. \A i \in Instances :
        /\ proc'[i].pc \in Running <=> proc[i].pc \in Running
        /\ proc'[i].pc = "new" => proc[i].pc = "new"
        /\ Asks(i) => Asks(i)'
        /\ proc'[i].disk = proc[i].disk /\ proc'[i].wait = proc[i].wait
  BY DEF GoesOn, Running, Asks
<1>4. AllAsk'
  <2>1. \A w \in wire' : Asks(w.ch.instance) /\ w.ch.instance \in Instances
    BY <1>1, Senders DEF AllAsk, TypeOK, Challenges, Beats
  <2>2. \A c \in probing' : Asks(c.instance) /\ c.instance \in Instances
    BY <1>1 DEF AllAsk, TypeOK, Challenges
  <2> QED
    BY <1>3, <2>1, <2>2 DEF AllAsk
<1>5. Waited'
  BY <1>1 DEF Waited, GoesOn, Asks
<1>6. WaitsOut'
  <2>1. CASE UNCHANGED <<instance, lease>>
    BY <1>1, <1>2, <1>3, <2>1 DEF WaitsOut
  <2>2. CASE proc[instance'].pc \in Running
    BY <1>1, <1>2, <1>3, <2>2 DEF WaitsOut, Apart
  <2> QED
    BY <2>1, <2>2
<1>7. Started'
  <2>1. proc[instance'].pc # "new"
    BY <1>1 DEF Started, Running
  <2> QED
    BY <1>2, <1>3, <2>1 DEF Started
<1>8. ConflictMeansCopy'
  BY <1>2, <1>3 DEF ConflictMeansCopy
<1> QED
  BY <1>4, <1>5, <1>6, <1>7, <1>8, CopyPartsNext

\* The first process runs and nobody has asked anything (Init).
LEMMA InitCopy == Init => CopyInv
<1> SUFFICES ASSUME Init PROVE CopyInv
  OBVIOUS
<1>1. AllAsk /\ Waited /\ Started /\ ConflictMeansCopy
  BY ConstantsAssumption DEF Init, AllAsk, Waited, Asks, Started, ConflictMeansCopy
<1>2. WaitsOut
  BY ConstantsAssumption DEF Init, WaitsOut, Running
<1> QED
  BY <1>1, <1>2, CopyParts

\* A conflict that is declared already stays one between two disks.
LEMMA CopySame ==
  ASSUME CopyInv, state = "identity_conflict"
  PROVE  proc[presented].pc # "new" /\ proc[presented].disk # proc[instance].disk
BY CopyParts DEF Started, ConflictMeansCopy

\* Time passes for the lease and for the waits alike.
LEMMA TickCopy ==
  ASSUME LeaseInv, CopyInv, Tick
  PROVE  CopyInv'
<1>1. TypeOK /\ AllAsk /\ Waited /\ WaitsOut /\ Started /\ ConflictMeansCopy
  BY Parts, CopyParts
<1>2. \A i \in Instances :
        proc'[i].pc = proc[i].pc /\ proc'[i].disk = proc[i].disk /\ proc'[i].wait = Less(proc[i].wait)
  BY <1>1 DEF Tick, TypeOK
<1>3. \A n, k \in 0..Lease : n <= k => Less(n) <= Less(k)
  BY ConstantsAssumption DEF Less
<1>4. /\ lease' = Less(lease)
      /\ UNCHANGED <<state, instance, presented, wire, probing>>
      /\ instance \in Instances /\ presented \in Instances /\ lease \in 0..Lease
      /\ \A i \in Instances : proc[i].wait \in 0..Lease
  BY <1>1 DEF Tick, TypeOK
<1>5. AllAsk'
  BY <1>1, <1>2, <1>4, Senders DEF AllAsk, Asks
<1>6. Waited'
  BY <1>1, <1>2 DEF Waited, Asks, Less
<1>7. WaitsOut'
  BY <1>1, <1>2, <1>3, <1>4 DEF WaitsOut
<1>8. Started' /\ ConflictMeansCopy'
  BY <1>1, <1>2, <1>4 DEF Started, ConflictMeansCopy
<1> QED
  BY <1>5, <1>6, <1>7, <1>8, CopyPartsNext

\* A process that starts waits for a whole lease, whoever holds it.
LEMMA StartCopy ==
  ASSUME LeaseInv, CopyInv, NEW i \in Instances, NEW d \in Disks, Start(i, d)
  PROVE  CopyInv'
<1>1. TypeOK /\ AllAsk /\ Waited /\ WaitsOut /\ Started /\ ConflictMeansCopy
  BY Parts, CopyParts
<1>2. /\ proc'[i].pc = "wait" /\ proc'[i].wait = Lease
      /\ \A j \in Instances \ {i} : proc'[j] = proc[j]
  BY <1>1 DEF Start, TypeOK
<1>3. /\ proc[i].pc = "new" /\ UNCHANGED <<state, instance, lease, presented, wire, probing>>
      /\ instance \in Instances /\ presented \in Instances /\ lease \in 0..Lease
  BY <1>1 DEF Start, TypeOK, row
<1>4. AllAsk'
  BY <1>1, <1>2, <1>3, Senders DEF AllAsk, Asks, Running
<1>5. Waited'
  BY <1>1, <1>2 DEF Waited, Asks
<1>6. instance # i /\ (state = "identity_conflict" => presented # i)
  BY <1>1, <1>3 DEF Started
<1>7. WaitsOut'
  BY <1>1, <1>2, <1>3, <1>6, ConstantsAssumption DEF WaitsOut
<1>8. Started' /\ ConflictMeansCopy'
  BY <1>1, <1>2, <1>3, <1>6 DEF Started, ConflictMeansCopy
<1> QED
  BY <1>4, <1>5, <1>7, <1>8, CopyPartsNext

\* With a process go its requests.
LEMMA StopCopy ==
  ASSUME ~LateRequests, LeaseInv, CopyInv, NEW i \in Instances, Stop(i)
  PROVE  CopyInv'
<1>1. TypeOK /\ AllAsk /\ Waited /\ WaitsOut /\ Started /\ ConflictMeansCopy
  BY Parts, CopyParts
<1>2. /\ proc'[i].pc = "dead" /\ proc'[i].disk = proc[i].disk
      /\ \A j \in Instances \ {i} : proc'[j] = proc[j]
  BY <1>1, GotoFacts DEF Stop, Places
<1>3. /\ UNCHANGED <<state, instance, lease, presented>>
      /\ wire' = {w \in wire : w.ch.instance # i}
      /\ probing' = {c \in probing : c.instance # i}
      /\ instance \in Instances /\ presented \in Instances
  BY <1>1 DEF Stop, TypeOK, row
<1>4. AllAsk'
  BY <1>1, <1>2, <1>3, Senders DEF AllAsk, Asks
<1>5. Waited'
  BY <1>1, <1>2 DEF Waited, Asks, Running
<1>6. WaitsOut'
  BY <1>1, <1>2, <1>3 DEF WaitsOut, Running
<1>7. Started' /\ ConflictMeansCopy'
  BY <1>1, <1>2, <1>3 DEF Started, ConflictMeansCopy
<1> QED
  BY <1>4, <1>5, <1>6, <1>7, CopyPartsNext

\* A process that goes on after its wait, or from one asking state to another.
LEMMA GotoGoesOn ==
  ASSUME TypeOK, Waited, NEW i \in Instances, NEW place \in Running \ {"wait"}, Goto(i, place),
         proc[i].pc \in Running, proc[i].wait = 0 \/ Asks(i)
  PROVE  \A j \in Instances : GoesOn(j)
<1>1. proc[i].wait = 0
  BY DEF Waited
<1>2. place \in Places
  BY DEF Running, Places
<1> QED
  BY <1>1, <1>2, GotoFacts DEF GoesOn

\* The answer to a renewal finds its process asking.
LEMMA AnsweredGoesOn ==
  ASSUME TypeOK, Waited, NEW c \in Challenges, NEW place \in {"idle", "up", "conflict"},
         Answered(c, place)
  PROVE  \A j \in Instances : GoesOn(j)
<1>1. c.instance \in Instances
  BY DEF Challenges
<1>2. proc[c.instance].pc = "posted" => proc[c.instance].wait = 0
  BY <1>1 DEF Waited, Asks, Running
<1>3. CASE proc' = proc
  BY <1>3 DEF GoesOn
<1>4. CASE proc' # proc
  <2>1. /\ proc[c.instance].pc = "posted" /\ proc'[c.instance].pc \in {place, "idle"}
        /\ proc'[c.instance].disk = proc[c.instance].disk /\ proc'[c.instance].wait = 0
        /\ \A j \in Instances \ {c.instance} : proc'[j] = proc[j]
    BY <1>4, AnsweredFacts
  <2> QED
    BY <1>1, <1>2, <2>1 DEF GoesOn, Running
<1> QED
  BY <1>3, <1>4

\* The steps of a running process: what it sends, it sends while it asks.
LEMMA NodeCopy ==
  ASSUME LeaseInv, CopyInv, TypeOK', NEW i \in Instances, Node(i)
  PROVE  CopyInv'
<1>1. TypeOK /\ Waited
  BY Parts, CopyParts
<1>2. UNCHANGED <<state, instance, lease, presented, probing>>
  BY DEF Node, WaitOver, RenewDue, SessionChallenge, Timeout, Beat, row
<1>3. \A j \in Instances : GoesOn(j)
  <2>1. CASE WaitOver(i) \/ RenewDue(i) \/ Timeout(i)
    <3>1. Goto(i, "idle")
      BY <2>1 DEF WaitOver, RenewDue, Timeout
    <3>2. proc[i].pc \in Running /\ (proc[i].wait = 0 \/ Asks(i))
      BY <2>1 DEF WaitOver, RenewDue, Timeout, Running, Asks
    <3>3. "idle" \in Running \ {"wait"}
      BY DEF Running
    <3> QED
      BY <1>1, <3>1, <3>2, <3>3, GotoGoesOn
  <2>2. CASE SessionChallenge(i)
    <3>1. proc[i].pc = "idle" /\ (UNCHANGED proc \/ \E c : proc' = [proc EXCEPT ![i].pc = "posted", ![i].ch = c])
      BY <2>2 DEF SessionChallenge
    <3>2. proc[i].wait = 0
      BY <1>1, <3>1 DEF Waited, Asks, Running
    <3>3. ASSUME NEW c, proc' = [proc EXCEPT ![i].pc = "posted", ![i].ch = c]
          PROVE  \A j \in Instances : GoesOn(j)
      <4>1. /\ proc'[i].pc = "posted" /\ proc'[i].disk = proc[i].disk /\ proc'[i].wait = proc[i].wait
            /\ \A j \in Instances \ {i} : proc'[j] = proc[j]
        BY <1>1, <3>3 DEF TypeOK
      <4> QED
        BY <3>1, <3>2, <4>1 DEF GoesOn, Running
    <3> QED
      BY <3>1, <3>3 DEF GoesOn
  <2>3. CASE Beat(i)
    BY <2>3 DEF Beat, GoesOn
  <2> QED
    BY <2>1, <2>2, <2>3 DEF Node
<1>4. \A w \in wire' : w \in wire \/ Asks(w.ch.instance)
  <2>1. CASE WaitOver(i) \/ RenewDue(i) \/ Timeout(i)
    BY <2>1 DEF WaitOver, RenewDue, Timeout
  <2>2. CASE SessionChallenge(i)
    <3>1. Asks(i)
      BY <2>2 DEF SessionChallenge, Asks, Running
    <3>2. \A w \in wire' : w \in wire \/ w.ch.instance = i
      BY <2>2 DEF SessionChallenge
    <3> QED
      BY <3>1, <3>2
  <2>3. CASE Beat(i)
    <3>1. Asks(i)
      BY <2>3 DEF Beat, Asks, Running
    <3>2. \A w \in wire' : w \in wire \/ w.ch.instance = i
      BY <2>3 DEF Beat
    <3> QED
      BY <3>1, <3>2
  <2> QED
    BY <2>1, <2>2, <2>3 DEF Node
<1> QED
  BY <1>2, <1>3, <1>4, CopyKeep, CopySame

\* A heartbeat extends the lease of a process that runs.
LEMMA HeartbeatCopy ==
  ASSUME LeaseInv, CopyInv, TypeOK', NEW b \in Heartbeats, NodeHeartbeat(b)
  PROVE  CopyInv'
<1>1. TypeOK /\ BeatsKnown /\ AllAsk /\ Waited
  BY Parts, CopyParts
<1>2. b.instance \in Instances /\ Asks(b.instance)
  <2>1. PICK w \in wire : w.ch = b
    BY BeatOnWire
  <2> QED
    BY <1>1, <2>1, Senders DEF AllAsk
<1>3. UNCHANGED <<state, instance, presented, probing>> /\ wire' \subseteq wire
  BY DEF NodeHeartbeat
<1>4. UNCHANGED <<instance, lease>> \/ proc[instance'].pc \in Running
  BY <1>1, <1>2, <1>3 DEF NodeHeartbeat, BeatsKnown, Asks
<1>5. \A j \in Instances : GoesOn(j)
  <2>1. CASE proc[b.instance].pc = "up" /\ Goto(b.instance, "idle")
    BY <1>1, <1>2, <2>1, GotoGoesOn DEF Running
  <2>2. CASE UNCHANGED proc
    BY <2>2 DEF GoesOn
  <2> QED
    BY <2>1, <2>2 DEF NodeHeartbeat
<1> QED
  BY <1>3, <1>4, <1>5, CopyKeep, CopySame

\* The decision: the asker has waited, so that a lease of another instance that still runs
\* belongs to a process of another disk.
LEMMA DecideCopy ==
  ASSUME LeaseInv, CopyInv, TypeOK', NEW c \in Challenges, Asks(c.instance), Proven(c), Decide(c),
         wire' \subseteq wire, probing' \subseteq probing
  PROVE  CopyInv'
<1>1. TypeOK /\ Waited /\ WaitsOut
  BY Parts, CopyParts
<1>2. c.instance \in Instances /\ proc[c.instance].pc \in Running /\ proc[c.instance].pc # "new"
  BY DEF Challenges, Asks, Running
<1>3. \A j \in Instances : GoesOn(j)
  BY <1>1, AnsweredGoesOn DEF Decide
<1>4. CASE Held(c)
  <2>1. /\ UNCHANGED <<instance, lease>> /\ presented' = c.instance
        /\ instance # c.instance /\ lease > 0
    BY <1>4 DEF Decide, Held
  <2>2. proc[c.instance].wait = 0 /\ lease \in 0..Lease
    BY <1>1, <1>2 DEF Waited, TypeOK
  <2>3. ~(lease <= proc[c.instance].wait)
    BY <2>1, <2>2, ConstantsAssumption
  <2>4. proc[c.instance].disk # proc[instance].disk
    BY <1>1, <1>2, <2>1, <2>3 DEF WaitsOut
  <2> QED
    BY <1>2, <1>3, <2>1, <2>4, CopyKeep
<1>5. CASE ~Held(c)
  <2>1. instance' = c.instance /\ state' = "registered"
    BY <1>5 DEF Decide
  <2> QED
    BY <1>2, <1>3, <2>1, CopyKeep
<1> QED
  BY <1>4, <1>5

\* The first transaction of a change of domain, and refusals, decide nothing.
LEMMA RefusalCopy ==
  ASSUME LeaseInv, CopyInv, TypeOK', NEW c \in Challenges, Asks(c.instance),
         CheckDomain(c) \/ VerifyFails(c) \/ Refuse(c)
  PROVE  CopyInv'
<1>1. TypeOK /\ Waited
  BY Parts, CopyParts
<1>2. UNCHANGED <<state, instance, lease, presented>> /\ wire' \subseteq wire
  BY DEF CheckDomain, VerifyFails, Refuse, Taken, row
<1>3. \A e \in probing' : e \in probing \/ Asks(e.instance)
  BY DEF CheckDomain, VerifyFails, Refuse
<1>4. c.instance \in Instances
  BY DEF Challenges
<1>5. \A j \in Instances : GoesOn(j)
  <2>1. CASE Answered(c, "idle")
    BY <1>1, <2>1, AnsweredGoesOn
  <2>2. CASE UNCHANGED proc
    BY <2>2 DEF GoesOn
  <2>3. CASE /\ proc[c.instance].pc = "posted"
             /\ proc' = [proc EXCEPT ![c.instance].pc = "idle", ![c.instance].ch = NoChallenge]
    <3>1. /\ proc'[c.instance].pc = "idle" /\ proc'[c.instance].disk = proc[c.instance].disk
          /\ proc'[c.instance].wait = proc[c.instance].wait
          /\ \A j \in Instances \ {c.instance} : proc'[j] = proc[j]
      BY <1>1, <1>4, <2>3 DEF TypeOK
    <3>2. proc[c.instance].wait = 0
      BY <1>1, <1>4 DEF Waited
    <3> QED
      BY <2>3, <3>1, <3>2 DEF GoesOn, Running
  <2> QED
    BY <2>1, <2>2, <2>3 DEF CheckDomain, VerifyFails, Refuse
<1> QED
  BY <1>2, <1>3, <1>5, CopyKeep, CopySame

\* What runs out, and what the owner and the administrator do, leaves the processes alone.
LEMMA OwnerCopy ==
  ASSUME LeaseInv, CopyInv, TypeOK',
         \/ \E c \in challenges : ExpireChallenge(c)
         \/ ChangeNodeDomain
         \/ \E i \in Instances : RecoverNodeInstance(i)
         \/ SetUserEnabled
  PROVE  CopyInv'
<1>1. UNCHANGED <<proc, wire, probing, presented>>
  BY DEF ExpireChallenge, ChangeNodeDomain, RecoverNodeInstance, SetUserEnabled
<1>2. \A j \in Instances : GoesOn(j)
  BY <1>1 DEF GoesOn
<1>3. UNCHANGED <<instance, lease>> \/ proc[instance'].pc \in Running
  BY DEF ExpireChallenge, ChangeNodeDomain, RecoverNodeInstance, SetUserEnabled
<1>4. state' = "identity_conflict" => state = "identity_conflict" /\ instance' = instance
  BY DEF ExpireChallenge, ChangeNodeDomain, RecoverNodeInstance, SetUserEnabled
<1> QED
  BY <1>1, <1>2, <1>3, <1>4, CopyKeep, CopySame

\* Every step keeps CopyInv.
LEMMA NextCopy ==
  ASSUME ~LateRequests, LeaseInv, LeaseInv', CopyInv, [Next]_vars
  PROVE  CopyInv'
<1>1. TypeOK /\ TypeOK' /\ AllAsk
  BY Parts, PartsNext, CopyParts
<1>2. /\ \A c \in Renewals : c \in Challenges /\ Asks(c.instance)
      /\ \A c \in probing : c \in Challenges /\ Asks(c.instance)
  <2>1. \A c \in Renewals : Asks(c.instance)
    BY <1>1 DEF Renewals, AllAsk
  <2> QED
    BY <1>1, <2>1, WireTypes DEF TypeOK, AllAsk
<1>3. ASSUME NEW i \in Instances, Controller(i) PROVE CopyInv'
  <2>1. ASSUME NEW c \in Renewals, RenewNodeSession(c) PROVE CopyInv'
    BY <1>1, <1>2, <2>1, DecideCopy DEF RenewNodeSession, Taken
  <2>2. ASSUME NEW c \in Renewals, CheckDomain(c) \/ Refuse(c) PROVE CopyInv'
    BY <1>1, <1>2, <2>2, RefusalCopy
  <2>3. ASSUME NEW c \in probing, VerifyDomain(c) PROVE CopyInv'
    BY <1>1, <1>2, <2>3, DecideCopy DEF VerifyDomain
  <2>4. ASSUME NEW c \in probing, VerifyFails(c) PROVE CopyInv'
    BY <1>1, <1>2, <2>4, RefusalCopy
  <2>5. ASSUME NEW b \in Heartbeats, NodeHeartbeat(b) PROVE CopyInv'
    BY <1>1, <2>5, HeartbeatCopy
  <2> QED
    BY <1>3, <2>1, <2>2, <2>3, <2>4, <2>5 DEF Controller
<1>4. ASSUME NEW i \in Instances, Node(i) PROVE CopyInv'
  BY <1>1, <1>4, NodeCopy
<1>5. CASE Environment
  BY <1>1, <1>5, TickCopy, StartCopy, StopCopy, OwnerCopy DEF Environment
<1>6. CASE UNCHANGED vars
  BY <1>6 DEF vars, CopyInv, ConflictMeansCopy
<1> QED
  BY <1>3, <1>4, <1>5, <1>6 DEF Next

\* When requests die with their process, an identity conflict is declared between processes
\* of two disks only (RenewNodeSession): the wait of RunControl after a restart is long
\* enough for a lease of every length, renewed by heartbeats whose answers are lost too.
THEOREM RestartNoConflict == ~LateRequests => (SafetySpec => []ConflictMeansCopy)
<1> SUFFICES ASSUME ~LateRequests PROVE SafetySpec => []ConflictMeansCopy
  OBVIOUS
<1>1. Init => LeaseInv /\ CopyInv
  BY InitInv, InitCopy
<1>2. LeaseInv /\ CopyInv /\ [Next]_vars => LeaseInv' /\ CopyInv'
  BY NextInv, NextCopy
<1>3. CopyInv => ConflictMeansCopy
  BY DEF CopyInv
<1> QED
  BY <1>1, <1>2, <1>3, PTL DEF SafetySpec

=============================================================================
