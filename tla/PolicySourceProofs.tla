------------------------- MODULE PolicySourceProofs -------------------------
(***************************************************************************)
(* Proofs about what a node's policy is made from: the identities of the   *)
(* tailnets (IdentityRefresh), for any tailnets, device lists, workers and *)
(* calls, and the grant (Grants, as the instance Grant), for any users,    *)
(* any number of revisions and any clock.                                  *)
(***************************************************************************)
EXTENDS IdentityRefresh, TLAPS

\* RefreshInOrder, of a row and a job.
InOrder(r, j) ==
  j.pc \in {"fetching", "answered"} =>
    /\ r.place # "new"
    /\ j.pc = "fetching" => j.ver = 0
    /\ r.place = "live" =>
         /\ j.rev <= r.rev
         /\ j.pc = "answered" /\ j.ver # 0 /\ j.rev = r.rev => r.ver <= j.ver

\* A row whose list was fetched with the credential at revision s.
Credited(r, s) == r.ver # 0 => r.status # "missing" /\ s = r.rev

CallsKnown == calls \subseteq Calls /\ \A c \in calls : c.ver <= upstream[c.id]

\* A version of some list, and the length of a list.
LEMMA VersionTypes ==
  /\ \A t \in Tailnets : Len(Devices[t]) \in Nat /\ Len(Devices[t]) >= 1
  /\ \A t \in Tailnets : \A v \in 0..Len(Devices[t]) : v \in Versions
  /\ Versions \subseteq Nat /\ 0 \in 0..MaxRevision /\ 0 \in 0..MaxSeq
  /\ \A t \in Tailnets : \A v \in 1..Len(Devices[t]) : Devices[t][v] \subseteq Keys
<1>1. ASSUME NEW t \in Tailnets PROVE Len(Devices[t]) \in Nat /\ Len(Devices[t]) >= 1
  <2>1. Devices[t] \in Seq(SUBSET Keys) /\ Devices[t] # <<>>
    BY ConstantsAssumption
  <2>2. QED
    BY <2>1
<1>2. ASSUME NEW t \in Tailnets, NEW v \in 1..Len(Devices[t]) PROVE Devices[t][v] \subseteq Keys
  <2>1. Devices[t] \in Seq(SUBSET Keys)
    BY ConstantsAssumption
  <2>2. QED
    BY <2>1
<1>3. 0 \in 0..MaxRevision /\ 0 \in 0..MaxSeq
  BY ConstantsAssumption
<1>4. QED
  BY <1>1, <1>2, <1>3 DEF Versions

\* What the invariant says of one tailnet.
LEMMA Of ==
  ASSUME RefreshInv, NEW t \in Tailnets
  PROVE  /\ row[t] \in Rows /\ job[t] \in Jobs /\ source[t] \in 0..MaxRevision
         /\ upstream[t] \in 1..Len(Devices[t]) /\ upstream[t] \in Nat
         /\ row[t].ver \in 0..upstream[t] /\ job[t].ver \in 0..upstream[t]
         /\ Credited(row[t], source[t])
         /\ InOrder(row[t], job[t])
<1>1. /\ row[t] \in Rows /\ job[t] \in Jobs /\ source[t] \in 0..MaxRevision
      /\ Credited(row[t], source[t])
  BY DEF RefreshInv, KeysOfCredential, TypeOK, Credited
<1>2. NotAhead(t) /\ RefreshInOrder(t)
  BY DEF RefreshInv
<1>3. row[t].ver \in Nat /\ job[t].ver \in Nat
  BY <1>1, VersionTypes DEF Rows, Jobs
<1>4. QED
  BY <1>1, <1>2, <1>3, VersionTypes DEF NotAhead, RefreshInOrder, InOrder

\* Two states of the rows that agree on places, switches and lists make one policy.
LEMMA SamePolicy ==
  ASSUME NEW r, NEW s,
         \A t \in Tailnets : /\ r[t].place = s[t].place /\ r[t].enabled = s[t].enabled
                             /\ r[t].ver = s[t].ver
  PROVE  buildPolicy(r) = buildPolicy(s)
<1>1. \A t \in Tailnets : SnapshotKeys(r, t) = SnapshotKeys(s, t)
  BY DEF SnapshotKeys
<1>2. conflictingKeys(r) = conflictingKeys(s)
  BY <1>1 DEF conflictingKeys
<1>3. QED
  BY <1>1, <1>2 DEF buildPolicy

\* A policy is made of device keys.
LEMMA PolicyTypes ==
  ASSUME NEW r, \A t \in Tailnets : r[t].ver \in 0..Len(Devices[t])
  PROVE  buildPolicy(r) \in [Tailnets -> SUBSET Keys]
<1>1. ASSUME NEW t \in Tailnets PROVE SnapshotKeys(r, t) \subseteq Keys
  <2>1. r[t].ver = 0 \/ r[t].ver \in 1..Len(Devices[t])
    BY VersionTypes
  <2>2. QED
    BY <2>1, VersionTypes DEF SnapshotKeys
<1>2. QED
  BY <1>1 DEF buildPolicy

\* A step that changes the rows, the refresh and the history of one tailnet keeps the invariant
\* if it leaves this tailnet in order and the policy built.
LEMMA OneTailnet ==
  ASSUME RefreshInv, NEW t \in Tailnets, NEW r \in Rows, NEW j \in Jobs, NEW s \in 0..MaxRevision,
         row' = [row EXCEPT ![t] = r], job' = [job EXCEPT ![t] = j],
         source' = [source EXCEPT ![t] = s],
         upstream' = upstream, policy' = buildPolicy(row'),
         conflict' \subseteq Tailnets, unavailable' \subseteq Tailnets, faults' \in 0..MaxFaults,
         calls' \subseteq Calls, \A c \in calls' : c.ver <= upstream[c.id],
         r.ver \in 0..upstream[t], j.ver \in 0..upstream[t],
         Credited(r, s), InOrder(r, j)
  PROVE  RefreshInv'
<1>1. /\ row \in [Tailnets -> Rows] /\ job \in [Tailnets -> Jobs]
      /\ source \in [Tailnets -> 0..MaxRevision] /\ upstream \in [Tailnets -> Versions \ {0}]
  BY DEF RefreshInv, KeysOfCredential, TypeOK
<1>2. /\ row' \in [Tailnets -> Rows] /\ job' \in [Tailnets -> Jobs]
      /\ source' \in [Tailnets -> 0..MaxRevision]
  BY <1>1
<1>3. ASSUME NEW u \in Tailnets
      PROVE  /\ row'[u].ver \in 0..upstream[u] /\ job'[u].ver \in 0..upstream[u]
             /\ upstream[u] \in 1..Len(Devices[u])
             /\ Credited(row'[u], source'[u])
             /\ InOrder(row'[u], job'[u])
  <2>1. CASE u = t
    <3>1. row'[u] = r /\ job'[u] = j /\ source'[u] = s
      BY <1>1, <2>1
    <3>2. QED
      BY <2>1, <3>1, Of
  <2>2. CASE u # t
    <3>1. row'[u] = row[u] /\ job'[u] = job[u] /\ source'[u] = source[u]
      BY <1>1, <2>2
    <3>2. QED
      BY <3>1, Of
  <2>3. QED
    BY <2>1, <2>2
<1>4. policy' \in [Tailnets -> SUBSET Keys]
  <2>1. \A u \in Tailnets : row'[u].ver \in 0..Len(Devices[u])
    BY <1>3, VersionTypes
  <2>2. QED
    BY <2>1, PolicyTypes
<1>5. TypeOK'
  BY <1>1, <1>2, <1>4 DEF TypeOK
<1>6. KeysOfCredential'
  BY <1>3, <1>5 DEF KeysOfCredential, Credited
<1>7. \A u \in Tailnets : NotAhead(u)' /\ RefreshInOrder(u)'
  BY <1>3, VersionTypes DEF NotAhead, RefreshInOrder, InOrder
<1>8. QED
  BY <1>6, <1>7 DEF RefreshInv

\* The same for a step that leaves the row of the tailnet alone.
LEMMA OneJob ==
  ASSUME RefreshInv, NEW t \in Tailnets, NEW j \in Jobs,
         job' = [job EXCEPT ![t] = j], UNCHANGED <<store, upstream>>, faults' \in 0..MaxFaults,
         calls' \subseteq Calls, \A c \in calls' : c.ver <= upstream[c.id],
         j.ver \in 0..upstream[t], InOrder(row[t], j)
  PROVE  RefreshInv'
<1>1. /\ row \in [Tailnets -> Rows] /\ source \in [Tailnets -> 0..MaxRevision]
      /\ conflict \subseteq Tailnets /\ unavailable \subseteq Tailnets
      /\ policy = buildPolicy(row)
  BY DEF RefreshInv, KeysOfCredential, TypeOK
<1>2. /\ row' = [row EXCEPT ![t] = row[t]] /\ source' = [source EXCEPT ![t] = source[t]]
      /\ policy' = buildPolicy(row') /\ conflict' \subseteq Tailnets /\ unavailable' \subseteq Tailnets
  BY <1>1 DEF store
<1>3. row[t] \in Rows /\ source[t] \in 0..MaxRevision /\ row[t].ver \in 0..upstream[t]
      /\ Credited(row[t], source[t])
  BY Of
<1>4. QED
  BY <1>2, <1>3, OneTailnet

\* The same for a step that leaves the refresh of the tailnet alone.
LEMMA OneRow ==
  ASSUME RefreshInv, NEW t \in Tailnets, NEW r \in Rows, NEW s \in 0..MaxRevision,
         row' = [row EXCEPT ![t] = r], source' = [source EXCEPT ![t] = s],
         UNCHANGED <<upstream, job, faults>>, policy' = buildPolicy(row'),
         conflict' \subseteq Tailnets, unavailable' \subseteq Tailnets, calls' \subseteq calls,
         r.ver \in 0..upstream[t], Credited(r, s), InOrder(r, job[t])
  PROVE  RefreshInv'
<1>1. job' = [job EXCEPT ![t] = job[t]] /\ faults' \in 0..MaxFaults /\ CallsKnown
  BY DEF RefreshInv, KeysOfCredential, TypeOK, CallsKnown
<1>2. job[t] \in Jobs /\ job[t].ver \in 0..upstream[t]
  BY Of
<1>3. calls' \subseteq Calls /\ \A c \in calls' : c.ver <= upstream[c.id]
  BY <1>1 DEF CallsKnown
<1>4. QED
  BY <1>1, <1>2, <1>3, OneTailnet

\* What the invariant says besides the tailnets.
LEMMA Rest ==
  ASSUME RefreshInv
  PROVE  /\ row \in [Tailnets -> Rows] /\ job \in [Tailnets -> Jobs]
         /\ source \in [Tailnets -> 0..MaxRevision]
         /\ conflict \subseteq Tailnets /\ unavailable \subseteq Tailnets
         /\ policy = buildPolicy(row) /\ faults \in 0..MaxFaults
         /\ calls \subseteq Calls /\ \A c \in calls : c.ver <= upstream[c.id]
BY DEF RefreshInv, KeysOfCredential, TypeOK

\* The job of a tailnet that is not being refreshed.
LEMMA IdleJob ==
  ASSUME NEW t \in Tailnets, NEW r \in Rows, NEW pc \in {"idle", "taken", "done"}
  PROVE  LET j == [NoJob EXCEPT !.pc = pc] IN j \in Jobs /\ j.ver = 0 /\ j.pc = pc /\ InOrder(r, j)
BY VersionTypes DEF NoJob, Jobs, InOrder

\* At the start every list is the first one and nothing is under way.
LEMMA InitInv == Init => RefreshInv
<1>1. SUFFICES ASSUME Init PROVE RefreshInv
  OBVIOUS
<1>2. 1 \in 0..MaxRevision /\ First \subseteq Tailnets /\ 0 \in 0..MaxFaults
  BY ConstantsAssumption
<1>3. ASSUME NEW t \in Tailnets
      PROVE  /\ upstream[t] = 1 /\ upstream[t] \in Versions \ {0} /\ 1 \in 1..Len(Devices[t])
             /\ row[t] \in Rows /\ row[t].ver \in 0..1
             /\ job[t] = NoJob /\ job[t] \in Jobs
             /\ source[t] \in 0..MaxRevision
             /\ Credited(row[t], source[t])
  <2>1. upstream[t] = 1 /\ 1 \in 1..Len(Devices[t]) /\ 1 \in Versions /\ 0 \in Versions
    BY <1>1, VersionTypes DEF Init
  <2>2. job[t] = NoJob /\ NoJob \in Jobs
    BY <1>1, <2>1, VersionTypes DEF Init, NoJob, Jobs
  <2>3. CASE t \in First
    <3>1. /\ row[t] = [place |-> "live", enabled |-> TRUE, status |-> "valid",
                       rev |-> 1, seq |-> 0, ver |-> 1]
          /\ source[t] = 1
      BY <1>1, <2>3 DEF Init
    <3>2. QED
      BY <1>2, <2>1, <2>2, <3>1, VersionTypes DEF Rows, Credited
  <2>4. CASE t \notin First
    <3>1. row[t] = NoRow /\ source[t] = 0
      BY <1>1, <2>4 DEF Init
    <3>2. QED
      BY <2>1, <2>2, <3>1, VersionTypes DEF Rows, NoRow, Credited
  <2>5. QED
    BY <2>3, <2>4
<1>4. policy = buildPolicy(row) /\ policy \in [Tailnets -> SUBSET Keys]
  <2>1. \A t \in Tailnets : row[t].ver \in 0..Len(Devices[t])
    BY <1>3, VersionTypes
  <2>2. QED
    BY <1>1, <2>1, PolicyTypes DEF Init
<1>5. /\ upstream \in [Tailnets -> Versions \ {0}] /\ row \in [Tailnets -> Rows]
      /\ job \in [Tailnets -> Jobs] /\ source \in [Tailnets -> 0..MaxRevision]
  <2>1. /\ upstream = [t \in Tailnets |-> upstream[t]] /\ row = [t \in Tailnets |-> row[t]]
        /\ job = [t \in Tailnets |-> job[t]] /\ source = [t \in Tailnets |-> source[t]]
    BY <1>1 DEF Init
  <2>2. QED
    BY <1>3, <2>1
<1>6. conflict \subseteq Tailnets /\ unavailable = {} /\ calls = {} /\ faults = 0
  BY <1>1, <1>2 DEF Init
<1>7. KeysOfCredential
  BY <1>2, <1>3, <1>4, <1>5, <1>6 DEF KeysOfCredential, TypeOK, Credited
<1>8. \A t \in Tailnets : NotAhead(t) /\ RefreshInOrder(t)
  BY <1>3 DEF NotAhead, RefreshInOrder, NoJob
<1>9. QED
  BY <1>4, <1>6, <1>7, <1>8 DEF RefreshInv

\* The upstream list changes, and every version known is still one of its past.
LEMMA DeviceChangeKeeps ==
  ASSUME RefreshInv, NEW t \in Tailnets, DeviceChange(t)
  PROVE  RefreshInv'
<1>1. /\ upstream' = [upstream EXCEPT ![t] = upstream[t] + 1] /\ upstream[t] < Len(Devices[t])
      /\ UNCHANGED <<row, policy, conflict, unavailable, source, job, calls, faults>>
  BY DEF DeviceChange, store
<1>2. upstream \in [Tailnets -> Versions \ {0}] /\ calls \subseteq Calls
  BY DEF RefreshInv, KeysOfCredential, TypeOK
<1>3. ASSUME NEW u \in Tailnets
      PROVE  upstream'[u] \in 1..Len(Devices[u]) /\ upstream'[u] >= upstream[u]
  <2>1. upstream[u] \in 1..Len(Devices[u]) /\ Len(Devices[u]) \in Nat
    BY Of, VersionTypes
  <2>2. upstream'[u] = IF u = t THEN upstream[u] + 1 ELSE upstream[u]
    BY <1>1, <1>2
  <2>3. QED
    BY <1>1, <2>1, <2>2
<1>4. upstream' \in [Tailnets -> Versions \ {0}]
  <2>1. \A u \in Tailnets : upstream'[u] \in Versions \ {0}
    BY <1>3, VersionTypes
  <2>2. upstream' = [u \in Tailnets |-> upstream'[u]]
    BY <1>1, <1>2
  <2>3. QED
    BY <2>1, <2>2
<1>5. KeysOfCredential'
  BY <1>1, <1>4 DEF RefreshInv, KeysOfCredential, TypeOK
<1>6. ASSUME NEW u \in Tailnets PROVE NotAhead(u)' /\ RefreshInOrder(u)'
  <2>1. /\ upstream[u] \in Nat /\ row[u].ver \in 0..upstream[u] /\ job[u].ver \in 0..upstream[u]
        /\ InOrder(row[u], job[u])
    BY Of
  <2>2. upstream'[u] \in Nat
    BY <1>3, VersionTypes
  <2>3. QED
    BY <1>1, <1>3, <2>1, <2>2 DEF NotAhead, RefreshInOrder, InOrder
<1>7. ASSUME NEW c \in calls' PROVE c.ver <= upstream'[c.id]
  <2>1. c \in calls /\ c.id \in Tailnets /\ c.ver \in Nat /\ c.ver <= upstream[c.id]
    BY <1>1, <1>2, VersionTypes DEF Calls, RefreshInv
  <2>2. upstream'[c.id] >= upstream[c.id] /\ upstream'[c.id] \in Nat /\ upstream[c.id] \in Nat
    BY <1>3, <2>1, Of, VersionTypes
  <2>3. QED
    BY <2>1, <2>2
<1>8. policy' = buildPolicy(row)'
  BY <1>1 DEF RefreshInv, buildPolicy, SnapshotKeys, conflictingKeys
<1>9. QED
  BY <1>5, <1>6, <1>7, <1>8 DEF RefreshInv

\* Steps that only make jobs idle, taken or done.
LEMMA JobsKeep ==
  ASSUME RefreshInv, UNCHANGED <<upstream, store>>, faults' \in 0..MaxFaults, calls' \subseteq calls,
         NEW S \in SUBSET Tailnets, NEW pc \in {"idle", "taken", "done"},
         job' = [t \in Tailnets |-> IF t \in S THEN [NoJob EXCEPT !.pc = pc] ELSE job[t]]
  PROVE  RefreshInv'
<1>1. UNCHANGED <<upstream, row, policy, conflict, unavailable, source>>
  BY DEF store
<1>2. ASSUME NEW t \in Tailnets
      PROVE  /\ job'[t] \in Jobs /\ job'[t].ver \in 0..upstream[t]
             /\ InOrder(row[t], job'[t])
  <2>1. /\ row[t] \in Rows /\ job[t] \in Jobs /\ job[t].ver \in 0..upstream[t] /\ upstream[t] \in Nat
        /\ InOrder(row[t], job[t])
    BY Of
  <2>2. CASE t \in S
    <3>1. job'[t] = [NoJob EXCEPT !.pc = pc]
      BY <2>2
    <3>2. QED
      BY <2>1, <3>1, IdleJob
  <2>3. CASE t \notin S
    BY <2>1, <2>3
  <2>4. QED
    BY <2>2, <2>3
<1>3. job' \in [Tailnets -> Jobs]
  BY <1>2
<1>4. KeysOfCredential'
  BY <1>1, <1>3, Rest DEF RefreshInv, KeysOfCredential, TypeOK
<1>5. ASSUME NEW t \in Tailnets PROVE NotAhead(t)' /\ RefreshInOrder(t)'
  <2>1. upstream[t] \in Nat /\ upstream[t] \in 1..Len(Devices[t]) /\ row[t].ver \in 0..upstream[t]
    BY Of
  <2>2. QED
    BY <1>1, <1>2, <2>1 DEF NotAhead, RefreshInOrder, InOrder
<1>6. policy' = buildPolicy(row)'
  BY <1>1 DEF RefreshInv, buildPolicy, SnapshotKeys, conflictingKeys
<1>7. QED
  BY <1>1, <1>4, <1>5, <1>6 DEF RefreshInv

\* A fault leaves the count within its bound.
LEMMA FaultBound ==
  ASSUME RefreshInv, Fault
  PROVE  faults' \in 0..MaxFaults
BY Rest, ConstantsAssumption DEF Fault

\* RefreshIdentity's first transaction.
LEMMA RefreshStartKeeps ==
  ASSUME RefreshInv, NEW t \in Tailnets, RefreshStart(t)
  PROVE  RefreshInv'
<1>1. UNCHANGED <<upstream, policy, conflict, unavailable, calls, source, faults>>
  BY DEF RefreshStart
<1>2. /\ row[t] \in Rows /\ job[t] \in Jobs /\ source[t] \in 0..MaxRevision
      /\ upstream[t] \in Nat /\ row[t].ver \in 0..upstream[t] /\ Credited(row[t], source[t])
  BY Of
<1>3. CASE Active(t)
  <2> DEFINE seq == NextSeq(row[t].seq)
             r == [row[t] EXCEPT !.seq = seq]
             j == [pc |-> "fetching", rev |-> row[t].rev, seq |-> seq, ver |-> 0]
  <2>1. row' = [row EXCEPT ![t] = r] /\ job' = [job EXCEPT ![t] = j]
    BY <1>3, Rest DEF RefreshStart
  <2>2. seq \in 0..MaxSeq
    BY <1>2, ConstantsAssumption DEF NextSeq, Rows
  <2> HIDE DEF seq
  <2>3. /\ r \in Rows /\ r.ver = row[t].ver /\ r.rev = row[t].rev /\ r.status = row[t].status
        /\ r.place = row[t].place /\ r.enabled = row[t].enabled
    BY <1>2, <2>2 DEF Rows
  <2>4. /\ j \in Jobs /\ j.ver \in 0..upstream[t] /\ j.ver = 0
        /\ j.pc = "fetching" /\ j.rev = row[t].rev
    BY <1>2, <2>2, VersionTypes DEF Rows, Jobs
  <2> HIDE DEF r, j
  <2>5. row[t].place = "live" /\ row[t].rev \in Nat
    BY <1>2, <1>3 DEF Active, Rows
  <2>6. InOrder(r, j)
    BY <2>3, <2>4, <2>5 DEF InOrder
  <2>7. Credited(r, source[t]) /\ r.ver \in 0..upstream[t]
    BY <1>2, <2>3 DEF Credited
  <2>8. policy' = buildPolicy(row')
    <3>1. ASSUME NEW u \in Tailnets
          PROVE  /\ row'[u].place = row[u].place /\ row'[u].enabled = row[u].enabled
                 /\ row'[u].ver = row[u].ver
      BY <2>1, <2>3, Rest
    <3>2. buildPolicy(row') = buildPolicy(row)
      BY <3>1, SamePolicy
    <3>3. QED
      BY <1>1, <3>2, Rest
  <2>9. source' = [source EXCEPT ![t] = source[t]]
    BY <1>1, Rest
  <2>10. /\ conflict' \subseteq Tailnets /\ unavailable' \subseteq Tailnets /\ faults' \in 0..MaxFaults
         /\ calls' \subseteq Calls /\ \A c \in calls' : c.ver <= upstream[c.id]
    BY <1>1, Rest
  <2>11. QED
    BY <1>1, <1>2, <2>1, <2>3, <2>4, <2>6, <2>7, <2>8, <2>9, <2>10, OneTailnet
<1>4. CASE ~Active(t)
  <2>1. UNCHANGED <<upstream, store>> /\ job' = [job EXCEPT ![t] = [NoJob EXCEPT !.pc = "done"]]
    BY <1>1, <1>4 DEF RefreshStart, store
  <2>2. job' = [u \in Tailnets |-> IF u \in {t} THEN [NoJob EXCEPT !.pc = "done"] ELSE job[u]]
    BY <2>1, Rest
  <2>3. PICK S \in SUBSET Tailnets : S = {t}
    OBVIOUS
  <2>4. job' = [u \in Tailnets |-> IF u \in S THEN [NoJob EXCEPT !.pc = "done"] ELSE job[u]]
    BY <2>2, <2>3
  <2>5. faults' \in 0..MaxFaults /\ calls' \subseteq calls
    BY <1>1, Rest DEF RefreshStart
  <2>6. QED
    BY <1>1, <2>1, <2>4, <2>5, JobsKeep
<1>5. QED
  BY <1>3, <1>4

\* The answer: the list as it is, which is no older than what any row shows.
LEMMA FetchKeeps ==
  ASSUME RefreshInv, NEW t \in Tailnets, Fetch(t)
  PROVE  RefreshInv'
<1>1. UNCHANGED <<upstream, store, calls>> /\ job[t].pc = "fetching"
  BY DEF Fetch
<1>2. /\ row[t] \in Rows /\ job[t] \in Jobs /\ upstream[t] \in 1..Len(Devices[t])
      /\ upstream[t] \in Nat /\ row[t].ver \in 0..upstream[t] /\ job[t].ver \in 0..upstream[t]
      /\ InOrder(row[t], job[t]) /\ upstream[t] \in Versions
  BY Of, VersionTypes
<1>3. CASE job' = [job EXCEPT ![t].pc = "answered", ![t].ver = upstream[t]] /\ UNCHANGED faults
  <2> DEFINE j == [job[t] EXCEPT !.pc = "answered", !.ver = upstream[t]]
  <2>1. job' = [job EXCEPT ![t] = j]
    BY <1>3, Rest
  <2>2. j \in Jobs /\ j.ver = upstream[t] /\ j.pc = "answered" /\ j.rev = job[t].rev
    BY <1>2 DEF Jobs
  <2> HIDE DEF j
  <2>3. InOrder(row[t], j) /\ j.ver \in 0..upstream[t]
    BY <1>1, <1>2, <2>2 DEF InOrder
  <2>4. QED
    BY <1>1, <1>2, <1>3, <2>1, <2>2, <2>3, Rest, OneJob
<1>4. CASE job' = [job EXCEPT ![t].pc = "answered"] /\ Fault
  <2> DEFINE j == [job[t] EXCEPT !.pc = "answered"]
  <2>1. job' = [job EXCEPT ![t] = j]
    BY <1>4, Rest
  <2>2. j \in Jobs /\ j.ver = job[t].ver /\ j.pc = "answered" /\ j.rev = job[t].rev
    BY <1>2 DEF Jobs
  <2> HIDE DEF j
  <2>3. InOrder(row[t], j)
    BY <1>1, <1>2, <2>2 DEF InOrder
  <2>4. QED
    BY <1>1, <1>2, <1>4, <2>1, <2>2, <2>3, Rest, FaultBound, OneJob
<1>5. QED
  BY <1>3, <1>4 DEF Fetch

\* The rows with one row changed, as a transaction writes them.
LEMMA Publish ==
  ASSUME RefreshInv, NEW t \in Tailnets, NEW r, NEW s, publishIdentity(r, t, s)
  PROVE  /\ row' = r /\ policy' = buildPolicy(row') /\ source' = [source EXCEPT ![t] = s]
         /\ conflict' \subseteq Tailnets /\ unavailable' \subseteq Tailnets
BY Rest DEF publishIdentity, updateIdentityConflicts

\* RefreshIdentity's second transaction.
LEMMA RefreshCommitKeeps ==
  ASSUME RefreshInv, NEW t \in Tailnets, RefreshCommit(t)
  PROVE  RefreshInv'
<1>1. /\ UNCHANGED <<upstream, calls>> /\ job[t].pc = "answered"
      /\ job' = [job EXCEPT ![t] = [NoJob EXCEPT !.pc = "done"]]
  BY DEF RefreshCommit
<1>2. /\ row[t] \in Rows /\ job[t] \in Jobs /\ source[t] \in 0..MaxRevision
      /\ upstream[t] \in Nat /\ row[t].ver \in 0..upstream[t] /\ job[t].ver \in 0..upstream[t]
      /\ Credited(row[t], source[t])
  BY Of
<1> DEFINE j == [NoJob EXCEPT !.pc = "done"]
<1>3. j \in Jobs /\ j.ver \in 0..upstream[t] /\ \A r \in Rows : InOrder(r, j)
  BY <1>2, IdleJob
<1>4. job' = [job EXCEPT ![t] = j]
  BY <1>1
<1>5. /\ row \in [Tailnets -> Rows] /\ source \in [Tailnets -> 0..MaxRevision]
      /\ calls' \subseteq Calls /\ \A c \in calls' : c.ver <= upstream[c.id]
  BY <1>1, Rest
<1>6. CASE /\ SameRefresh(t) /\ job[t].ver # 0 /\ UNCHANGED faults
           /\ publishIdentity([row EXCEPT ![t].status = "valid", ![t].ver = job[t].ver], t, job[t].rev)
  <2> DEFINE r == [row[t] EXCEPT !.status = "valid", !.ver = job[t].ver]
  <2>1. /\ row' = [row EXCEPT ![t] = r] /\ policy' = buildPolicy(row')
        /\ source' = [source EXCEPT ![t] = job[t].rev]
        /\ conflict' \subseteq Tailnets /\ unavailable' \subseteq Tailnets
    BY <1>5, <1>6, Publish
  <2>2. r \in Rows /\ r.ver = job[t].ver /\ r.status = "valid" /\ r.rev = row[t].rev
    BY <1>2 DEF Rows, Jobs
  <2>3. row[t].rev = job[t].rev /\ job[t].rev \in 0..MaxRevision /\ faults' \in 0..MaxFaults
    BY <1>2, <1>6, Rest DEF SameRefresh, Jobs
  <2> HIDE DEF r, j
  <2>4. Credited(r, job[t].rev) /\ r.ver \in 0..upstream[t]
    BY <1>2, <2>2, <2>3 DEF Credited
  <2>5. QED
    BY <1>1, <1>3, <1>4, <1>5, <2>1, <2>2, <2>3, <2>4, OneTailnet
<1>7. CASE /\ SameRefresh(t) /\ job[t].ver = 0
           /\ row' = [row EXCEPT ![t].status = "unavailable"]
           /\ unavailable' = unavailable \cup {t}
           /\ UNCHANGED <<policy, conflict, source, faults>>
  <2> DEFINE r == [row[t] EXCEPT !.status = "unavailable"]
  <2>1. row' = [row EXCEPT ![t] = r]
    BY <1>5, <1>7
  <2>2. /\ r \in Rows /\ r.ver = row[t].ver /\ r.status = "unavailable" /\ r.rev = row[t].rev
        /\ r.place = row[t].place /\ r.enabled = row[t].enabled
    BY <1>2 DEF Rows
  <2> HIDE DEF r, j
  <2>3. Credited(r, source[t]) /\ r.ver \in 0..upstream[t]
    BY <1>2, <2>2 DEF Credited
  <2>4. policy' = buildPolicy(row')
    <3>1. ASSUME NEW u \in Tailnets
          PROVE  /\ row'[u].place = row[u].place /\ row'[u].enabled = row[u].enabled
                 /\ row'[u].ver = row[u].ver
      BY <1>5, <2>1, <2>2
    <3>2. buildPolicy(row') = buildPolicy(row)
      BY <3>1, SamePolicy
    <3>3. QED
      BY <1>7, <3>2, Rest
  <2>5. /\ source' = [source EXCEPT ![t] = source[t]] /\ faults' \in 0..MaxFaults
        /\ conflict' \subseteq Tailnets /\ unavailable' \subseteq Tailnets
    BY <1>7, Rest
  <2>6. QED
    BY <1>1, <1>2, <1>3, <1>4, <1>5, <2>1, <2>2, <2>3, <2>4, <2>5, OneTailnet
<1>8. CASE UNCHANGED store /\ faults' \in 0..MaxFaults
  BY <1>1, <1>2, <1>3, <1>4, <1>5, <1>8, OneJob
<1>9. QED
  <2>1. faults \in 0..MaxFaults /\ (Fault => faults' \in 0..MaxFaults)
    BY Rest, FaultBound
  <2>2. \/ /\ SameRefresh(t) /\ job[t].ver # 0 /\ UNCHANGED faults
           /\ publishIdentity([row EXCEPT ![t].status = "valid", ![t].ver = job[t].ver], t, job[t].rev)
        \/ /\ SameRefresh(t) /\ job[t].ver = 0
           /\ row' = [row EXCEPT ![t].status = "unavailable"]
           /\ unavailable' = unavailable \cup {t}
           /\ UNCHANGED <<policy, conflict, source, faults>>
        \/ UNCHANGED store /\ (UNCHANGED faults \/ Fault)
    BY DEF RefreshCommit
  <2>3. QED
    BY <1>6, <1>7, <1>8, <2>1, <2>2

\* An owner's call begins and fetches.
LEMMA CallStartKeeps ==
  ASSUME RefreshInv, NEW t \in Tailnets, CallStart(t)
  PROVE  RefreshInv'
<1>1. /\ UNCHANGED <<upstream, store, job, faults>>
      /\ calls' = calls \cup {[id |-> t, rev |-> row[t].rev, ver |-> 0]}
  BY DEF CallStart
<1>2. /\ job[t] \in Jobs /\ row[t] \in Rows /\ upstream[t] \in Nat /\ job[t].ver \in 0..upstream[t]
      /\ InOrder(row[t], job[t]) /\ 0 \in Versions
  BY Of, VersionTypes
<1>3. [id |-> t, rev |-> row[t].rev, ver |-> 0] \in Calls
  BY <1>2 DEF Calls, Rows
<1>4. calls' \subseteq Calls /\ \A c \in calls' : c.ver <= upstream[c.id]
  BY <1>1, <1>2, <1>3, Rest
<1>5. job' = [job EXCEPT ![t] = job[t]] /\ faults' \in 0..MaxFaults
  BY <1>1, Rest
<1>6. QED
  BY <1>1, <1>2, <1>4, <1>5, OneJob

LEMMA CallFetchKeeps ==
  ASSUME RefreshInv, NEW c \in calls, CallFetch(c)
  PROVE  RefreshInv'
<1>1. UNCHANGED <<upstream, store, job, faults>>
  BY DEF CallFetch
<1>2. c \in Calls /\ c.id \in Tailnets
  BY Rest DEF Calls
<1>3. /\ job[c.id] \in Jobs /\ row[c.id] \in Rows /\ job[c.id].ver \in 0..upstream[c.id]
      /\ InOrder(row[c.id], job[c.id]) /\ upstream[c.id] \in Versions /\ upstream[c.id] \in Nat
  BY <1>2, Of, VersionTypes
<1> DEFINE d == [c EXCEPT !.ver = upstream[c.id]]
<1>4. d \in Calls /\ d.ver = upstream[c.id] /\ d.id = c.id
  BY <1>2, <1>3 DEF Calls
<1>5. calls' \subseteq calls \cup {d}
  BY DEF CallFetch
<1> HIDE DEF d
<1>6. calls' \subseteq Calls /\ \A e \in calls' : e.ver <= upstream[e.id]
  BY <1>3, <1>4, <1>5, Rest
<1>7. job' = [job EXCEPT ![c.id] = job[c.id]] /\ faults' \in 0..MaxFaults
  BY <1>1, Rest
<1>8. QED
  BY <1>1, <1>2, <1>3, <1>6, <1>7, OneJob

\* AddTailnet and ReplaceCredential in their transaction: the revision goes up, so that an answer
\* fetched with the credential before finds another one.
LEMMA CallCommitKeeps ==
  ASSUME RefreshInv, NEW c \in calls, CallCommit(c)
  PROVE  RefreshInv'
<1>1. /\ UNCHANGED <<upstream, job, faults>> /\ calls' = calls \ {c}
      /\ c.ver # 0 /\ c.rev < MaxRevision
  BY DEF CallCommit
<1>2. c \in Calls /\ c.id \in Tailnets /\ c.rev \in 0..MaxRevision /\ c.ver \in Versions
      /\ c.ver <= upstream[c.id]
  BY Rest DEF Calls
<1> DEFINE t == c.id
<1>3. /\ row[t] \in Rows /\ job[t] \in Jobs /\ upstream[t] \in Nat /\ job[t].ver \in 0..upstream[t]
      /\ InOrder(row[t], job[t])
  BY <1>2, Of
<1>4. c.rev + 1 \in 0..MaxRevision /\ c.ver \in 0..upstream[t] /\ 0 \in 0..MaxSeq
  <2>1. MaxRevision \in Nat /\ c.ver \in Nat /\ 0 \in 0..MaxSeq
    BY <1>2, VersionTypes, ConstantsAssumption
  <2>2. c.rev + 1 \in 0..MaxRevision
    BY <1>1, <1>2, <2>1
  <2>3. QED
    BY <1>2, <1>3, <2>1, <2>2
<1>5. CASE /\ row[t].rev = c.rev /\ row[t].place # "gone"
           /\ publishIdentity(NewCredential(c), t, c.rev + 1)
  <2> DEFINE r == [place |-> "live", enabled |-> IF c.rev = 0 THEN TRUE ELSE row[t].enabled,
                   status |-> "valid", rev |-> c.rev + 1, seq |-> 0, ver |-> c.ver]
  <2>1. NewCredential(c) = [row EXCEPT ![t] = r]
    BY <1>2, Rest DEF NewCredential
  <2>2. /\ row' = [row EXCEPT ![t] = r] /\ policy' = buildPolicy(row')
        /\ source' = [source EXCEPT ![t] = c.rev + 1]
        /\ conflict' \subseteq Tailnets /\ unavailable' \subseteq Tailnets
    BY <1>2, <1>5, <2>1, Publish
  <2>3. row[t].enabled \in BOOLEAN
    BY <1>3 DEF Rows
  <2>4. r \in Rows
    BY <1>2, <1>4, <2>3 DEF Rows
  <2>5. r.ver = c.ver /\ r.rev = c.rev + 1 /\ r.status = "valid" /\ r.place = "live"
    OBVIOUS
  <2> HIDE DEF r
  <2>6. Credited(r, c.rev + 1) /\ r.ver \in 0..upstream[t]
    BY <1>4, <2>5 DEF Credited
  <2>7. InOrder(r, job[t])
    <3>1. SUFFICES ASSUME job[t].pc \in {"fetching", "answered"}
                   PROVE  /\ job[t].pc = "fetching" => job[t].ver = 0
                          /\ job[t].rev < r.rev
      BY <1>2, <1>3, <2>5 DEF InOrder, Jobs
    <3>2. row[t].place = "live"
      BY <1>3, <1>5, <3>1 DEF InOrder, Rows
    <3>3. job[t].rev <= row[t].rev /\ (job[t].pc = "fetching" => job[t].ver = 0)
      BY <1>3, <3>1, <3>2 DEF InOrder
    <3>4. job[t].rev \in Nat /\ c.rev \in Nat
      BY <1>2, <1>3 DEF Jobs
    <3>5. QED
      BY <1>5, <2>5, <3>3, <3>4
  <2>8. QED
    BY <1>1, <1>2, <1>4, <2>2, <2>4, <2>6, <2>7, OneRow
<1>6. CASE UNCHANGED store
  <2>1. job' = [job EXCEPT ![t] = job[t]] /\ faults' \in 0..MaxFaults
        /\ calls' \subseteq Calls /\ \A e \in calls' : e.ver <= upstream[e.id]
    BY <1>1, Rest
  <2>2. QED
    BY <1>1, <1>2, <1>3, <1>6, <2>1, OneJob
<1>7. QED
  BY <1>5, <1>6 DEF CallCommit

\* The credential is deleted: no list, and a new revision.
LEMMA DeleteCredentialKeeps ==
  ASSUME RefreshInv, NEW t \in Tailnets, DeleteCredential(t)
  PROVE  RefreshInv'
<1> DEFINE r == [row[t] EXCEPT !.status = "missing", !.rev = row[t].rev + 1, !.seq = 0, !.ver = 0]
<1>1. /\ row[t].place = "live" /\ row[t].rev < MaxRevision /\ policy' = buildPolicy(row')
      /\ UNCHANGED <<upstream, unavailable, job, calls, source, faults>>
  BY DEF DeleteCredential
<1>2. row' = [row EXCEPT ![t] = r] /\ source' = [source EXCEPT ![t] = source[t]]
  BY Rest DEF DeleteCredential
<1>3. conflict' \subseteq Tailnets /\ unavailable' \subseteq Tailnets
  BY <1>1, Rest DEF DeleteCredential, updateIdentityConflicts
<1>4. /\ row[t] \in Rows /\ job[t] \in Jobs /\ source[t] \in 0..MaxRevision /\ upstream[t] \in Nat
      /\ InOrder(row[t], job[t])
  BY Of
<1>5. row[t].rev \in Nat /\ row[t].rev + 1 \in 0..MaxRevision
  BY <1>1, <1>4, ConstantsAssumption DEF Rows
<1>6. r \in Rows /\ r.ver = 0 /\ r.rev = row[t].rev + 1 /\ r.place = "live"
  <2>1. 0 \in Versions /\ 0 \in 0..MaxSeq
    BY VersionTypes
  <2>2. QED
    BY <1>1, <1>4, <1>5, <2>1 DEF Rows
<1> HIDE DEF r
<1>7. Credited(r, source[t]) /\ r.ver \in 0..upstream[t]
  BY <1>4, <1>6 DEF Credited
<1>8. InOrder(r, job[t])
  <2>1. job[t].rev \in Nat
    BY <1>4 DEF Jobs
  <2>2. QED
    BY <1>1, <1>4, <1>5, <1>6, <2>1 DEF InOrder
<1>9. QED
  BY <1>1, <1>2, <1>3, <1>4, <1>6, <1>7, <1>8, OneRow

\* The tailnet is switched on or off.
LEMMA SetTailnetEnabledKeeps ==
  ASSUME RefreshInv, NEW t \in Tailnets, NEW enabled \in BOOLEAN, SetTailnetEnabled(t, enabled)
  PROVE  RefreshInv'
<1> DEFINE r == [row[t] EXCEPT !.enabled = enabled]
<1>1. /\ policy' = buildPolicy(row')
      /\ UNCHANGED <<upstream, conflict, unavailable, job, calls, source, faults>>
  BY DEF SetTailnetEnabled
<1>2. /\ row' = [row EXCEPT ![t] = r] /\ source' = [source EXCEPT ![t] = source[t]]
      /\ conflict' \subseteq Tailnets /\ unavailable' \subseteq Tailnets
  BY Rest DEF SetTailnetEnabled
<1>3. /\ row[t] \in Rows /\ source[t] \in 0..MaxRevision /\ row[t].ver \in 0..upstream[t]
      /\ Credited(row[t], source[t]) /\ InOrder(row[t], job[t])
  BY Of
<1>4. /\ r \in Rows /\ r.ver = row[t].ver /\ r.rev = row[t].rev /\ r.place = row[t].place
      /\ r.status = row[t].status
  BY <1>3 DEF Rows
<1> HIDE DEF r
<1>5. Credited(r, source[t]) /\ r.ver \in 0..upstream[t] /\ InOrder(r, job[t])
  BY <1>3, <1>4 DEF Credited, InOrder
<1>6. QED
  BY <1>1, <1>2, <1>3, <1>4, <1>5, OneRow

\* The tailnet is deleted, for good.
LEMMA DeleteTailnetKeeps ==
  ASSUME RefreshInv, NEW t \in Tailnets, DeleteTailnet(t)
  PROVE  RefreshInv'
<1> DEFINE r == [NoRow EXCEPT !.place = "gone"]
<1>1. /\ policy' = buildPolicy(row') /\ row' = [row EXCEPT ![t] = r]
      /\ UNCHANGED <<upstream, conflict, unavailable, job, calls, source, faults>>
  BY DEF DeleteTailnet
<1>2. /\ source' = [source EXCEPT ![t] = source[t]]
      /\ conflict' \subseteq Tailnets /\ unavailable' \subseteq Tailnets
  BY <1>1, Rest
<1>3. source[t] \in 0..MaxRevision /\ upstream[t] \in Nat /\ InOrder(row[t], job[t])
  BY Of
<1>4. r \in Rows /\ r.ver = 0 /\ r.place = "gone"
  <2>1. 0 \in Versions /\ 0 \in 0..MaxSeq /\ 0 \in 0..MaxRevision
    BY VersionTypes
  <2>2. QED
    BY <2>1 DEF Rows, NoRow
<1> HIDE DEF r
<1>5. Credited(r, source[t]) /\ r.ver \in 0..upstream[t] /\ InOrder(r, job[t])
  BY <1>3, <1>4 DEF Credited, InOrder
<1>6. QED
  BY <1>1, <1>2, <1>3, <1>4, <1>5, OneRow

\* Every step keeps the invariant.
LEMMA NextInv == RefreshInv /\ [Next]_vars => RefreshInv'
<1>1. SUFFICES ASSUME RefreshInv, [Next]_vars PROVE RefreshInv'
  OBVIOUS
<1>2. ASSUME NEW S \in SUBSET Tailnets, Poll(S) PROVE RefreshInv'
  <2>1. /\ UNCHANGED <<upstream, store, calls, faults>>
        /\ job' = [t \in Tailnets |-> IF t \in S THEN [NoJob EXCEPT !.pc = "taken"] ELSE job[t]]
    BY <1>2 DEF Poll
  <2>2. faults' \in 0..MaxFaults /\ calls' \subseteq calls
    BY <1>1, <2>1, Rest
  <2>3. QED
    BY <1>1, <2>1, <2>2, JobsKeep
<1>3. ASSUME NEW t \in Tailnets, Result(t) PROVE RefreshInv'
  <2>1. UNCHANGED <<upstream, store, calls, faults>> /\ job' = [job EXCEPT ![t] = NoJob]
    BY <1>3 DEF Result
  <2>2. NoJob = [NoJob EXCEPT !.pc = "idle"]
    BY DEF NoJob
  <2>3. job' = [u \in Tailnets |-> IF u \in {t} THEN [NoJob EXCEPT !.pc = "idle"] ELSE job[u]]
    BY <1>1, <2>1, <2>2, Rest
  <2>4. PICK S \in SUBSET Tailnets : S = {t}
    OBVIOUS
  <2>5. job' = [u \in Tailnets |-> IF u \in S THEN [NoJob EXCEPT !.pc = "idle"] ELSE job[u]]
    BY <2>3, <2>4
  <2>6. faults' \in 0..MaxFaults /\ calls' \subseteq calls
    BY <1>1, <2>1, Rest
  <2>7. QED
    BY <1>1, <2>1, <2>5, <2>6, JobsKeep
<1>4. CASE Restart
  <2>1. UNCHANGED <<upstream, store>> /\ calls' = {} /\ Fault /\ job' = [t \in Tailnets |-> NoJob]
    BY <1>4 DEF Restart
  <2>2. NoJob = [NoJob EXCEPT !.pc = "idle"]
    BY DEF NoJob
  <2>3. job' = [u \in Tailnets |-> IF u \in Tailnets THEN [NoJob EXCEPT !.pc = "idle"] ELSE job[u]]
    BY <2>1, <2>2
  <2>4. QED
    BY <1>1, <2>1, <2>3, FaultBound, JobsKeep
<1>5. CASE Sync
  BY <1>1, <1>2, <1>3, <1>5, RefreshStartKeeps, FetchKeeps, RefreshCommitKeeps DEF Sync
<1>6. CASE Owner
  BY <1>1, <1>6, CallStartKeeps, CallFetchKeeps, CallCommitKeeps, DeleteCredentialKeeps,
     SetTailnetEnabledKeeps, DeleteTailnetKeeps DEF Owner
<1>7. CASE UNCHANGED vars
  <2>1. KeysOfCredential'
    BY <1>1, <1>7 DEF vars, RefreshInv, KeysOfCredential, TypeOK
  <2>2. policy' = buildPolicy(row)'
    <3>1. row' = row /\ policy' = policy
      BY <1>7 DEF vars
    <3>2. buildPolicy(row') = buildPolicy(row)
      BY <3>1
    <3>3. policy = buildPolicy(row)
      BY <1>1 DEF RefreshInv
    <3>4. policy' = buildPolicy(row')
      BY <3>1, <3>2, <3>3
    <3>5. QED
      BY <3>4
  <2>3. /\ \A t \in Tailnets : NotAhead(t)' /\ RefreshInOrder(t)'
        /\ \A c \in calls' : c.ver <= upstream'[c.id]
    BY <1>1, <1>7 DEF vars, RefreshInv, NotAhead, RefreshInOrder
  <2>4. QED
    BY <2>1, <2>2, <2>3 DEF RefreshInv
<1>8. QED
  BY <1>1, <1>4, <1>5, <1>6, <1>7, DeviceChangeKeeps DEF Next

\* The identities stay in order, whatever owners, workers, the upstream API and restarts do.
THEOREM RefreshInvariant == Spec => []RefreshInv
BY InitInv, NextInv, PTL DEF Spec

\* A stored device list was always fetched with the present credential of its tailnet.
THEOREM KeysCredited == Spec => []KeysOfCredential
<1>1. RefreshInv => KeysOfCredential
  BY DEF RefreshInv
<1>2. QED
  BY <1>1, RefreshInvariant, PTL

\* No key is admitted for two tailnets, nor for one that is switched off or does not show it:
\* every transaction that changes a list builds the policy anew.
THEOREM KeysAdmittedOnce == Spec => []AdmittedOnce
<1>1. RefreshInv => AdmittedOnce
  <2>1. SUFFICES ASSUME RefreshInv, NEW t \in Tailnets, NEW k \in policy[t]
                 PROVE  /\ row[t].place = "live" /\ row[t].enabled
                        /\ k \in SnapshotKeys(row, t)
                        /\ \A u \in Tailnets \ {t} : k \notin SnapshotKeys(row, u)
    BY DEF AdmittedOnce
  <2>2. policy = buildPolicy(row) /\ policy \in [Tailnets -> SUBSET Keys]
    BY <2>1 DEF RefreshInv, KeysOfCredential, TypeOK
  <2>3. /\ row[t].place = "live" /\ row[t].enabled
        /\ k \in SnapshotKeys(row, t) /\ k \notin conflictingKeys(row) /\ k \in Keys
    BY <2>1, <2>2 DEF buildPolicy
  <2>4. QED
    BY <2>3 DEF conflictingKeys
<1>2. QED
  BY <1>1, RefreshInvariant, PTL

\* RefreshIdentity never replaces a device list by an older one.
THEOREM RefreshesForward == Spec => RefreshForward
<1>1. RefreshInv /\ [Next]_vars
        => [\A t \in Tailnets :
              (job[t].pc = "answered" /\ job'[t].pc = "done") => row'[t].ver >= row[t].ver]_vars
  <2>1. SUFFICES ASSUME RefreshInv, Next, NEW t \in Tailnets,
                        job[t].pc = "answered", job'[t].pc = "done"
                 PROVE  row'[t].ver >= row[t].ver
    OBVIOUS
  <2>2. /\ row[t] \in Rows /\ job[t] \in Jobs /\ upstream[t] \in Nat
        /\ row[t].ver \in 0..upstream[t] /\ job[t].ver \in 0..upstream[t]
        /\ InOrder(row[t], job[t])
    BY <2>1, Of
  <2>3. /\ job \in [Tailnets -> Jobs] /\ row \in [Tailnets -> Rows]
    BY <2>1, Rest
  <2>4. CASE row' = row
    BY <2>2, <2>4
  <2>5. ASSUME NEW u \in Tailnets, RefreshCommit(u) PROVE row'[t].ver >= row[t].ver
    <3>1. job' = [job EXCEPT ![u] = [NoJob EXCEPT !.pc = "done"]]
      BY <2>5 DEF RefreshCommit
    <3>2. u = t
      BY <2>1, <2>3, <3>1
    <3>3. CASE /\ SameRefresh(t) /\ job[t].ver # 0
               /\ row' = [row EXCEPT ![t].status = "valid", ![t].ver = job[t].ver]
      <4>1. row'[t].ver = job[t].ver
        BY <2>2, <2>3, <3>3 DEF Rows
      <4>2. row[t].ver <= job[t].ver
        BY <2>1, <2>2, <3>3 DEF InOrder, SameRefresh
      <4>3. QED
        BY <2>2, <4>1, <4>2
    <3>4. CASE row' = [row EXCEPT ![t].status = "unavailable"]
      <4>1. row'[t].ver = row[t].ver
        BY <2>2, <2>3, <3>4 DEF Rows
      <4>2. QED
        BY <2>2, <4>1
    <3>5. QED
      BY <2>4, <2>5, <3>2, <3>3, <3>4 DEF RefreshCommit, publishIdentity, store
  <2>6. CASE job' = job
    BY <2>1, <2>6
  <2>7. CASE Sync
    <3>1. ASSUME NEW u \in Tailnets, RefreshStart(u) PROVE FALSE
      BY <2>1, <2>3, <3>1 DEF RefreshStart
    <3>2. QED
      BY <2>4, <2>5, <2>7, <3>1 DEF Sync, Poll, Fetch, Result, store
  <2>8. CASE Owner
    BY <2>6, <2>8 DEF Owner, CallStart, CallFetch, CallCommit, DeleteCredential,
                      SetTailnetEnabled, DeleteTailnet
  <2>9. QED
    BY <2>1, <2>4, <2>7, <2>8 DEF Next, DeviceChange, Restart, store
<1>2. QED
  BY <1>1, RefreshInvariant, PTL DEF Spec, RefreshForward

-----------------------------------------------------------------------------
(* The grant: permissions, consent, and the entry in the policy *)

CONSTANTS Users, Provider, Applicant, Admins, MaxGrantRevision, MaxTime
VARIABLES now, users, nodeState, nodeEnabled, tailnetOwner, tailnetState, grant, entry, consent

Grant == INSTANCE Grants WITH MaxRevision <- MaxGrantRevision

\* What Grants assumes of its constants.
GrantConstants == Grant!UsersAssumption /\ Grant!BoundsAssumption

\* How far the consent to the present round has come, by the state of the grant.
Progress ==
  /\ consent.ended <= grant.rev
  /\ grant.state = "requested" => ~consent.own
  /\ grant.state = "owner_approved" => ~consent.own
  /\ grant.state = "requested" => consent.ended < consent.asked /\ consent.asked <= grant.rev
  /\ grant.state = "owner_approved" =>
       /\ consent.ended < consent.asked
       /\ consent.asked <= consent.approved
       /\ consent.approved < grant.rev
  /\ Grant!ActiveByConsent

\* A node that waits for the proof of a new domain is paused, which is why the two
\* operations on its domain may leave the policy alone.
Paused == nodeState = "domain_pending" => ~nodeEnabled

\* The inductive invariant.
GrantInv == Grant!TypeOK /\ Progress /\ Paused /\ Grant!PolicyIsCurrent

\* What buildPolicy writes at the end of a transaction is current and well formed.
LEMMA Rebuilt ==
  ASSUME grant' \in Grant!GrantRows, Grant!BuildPolicy
  PROVE  Grant!PolicyIsCurrent' /\ entry' \in Grant!Entries
BY DEF Grant!BuildPolicy, Grant!PolicyIsCurrent, Grant!Entry, Grant!Entries, Grant!NoEntry,
       Grant!GrantRows

\* Before the first request there is no grant, no consent and no policy entry.
LEMMA GrantInitInv ==
  ASSUME GrantConstants
  PROVE  Grant!Init => GrantInv
BY DEF GrantConstants, Grant!UsersAssumption, Grant!BoundsAssumption, Grant!Init, GrantInv,
       Grant!TypeOK, Progress, Paused, Grant!PolicyIsCurrent, Grant!ActiveByConsent, Grant!Entry,
       Grant!NoGrant,
       Grant!NoEntry, Grant!NoConsent, Grant!GrantRows, Grant!Entries, Grant!Consents, Grant!Open,
       Grant!Closed

\* RequestGrant opens a round that the consents of earlier rounds do not reach.
LEMMA RequestGrantInv ==
  ASSUME GrantInv, NEW u, NEW expected, NEW until \in 0..MaxTime,
         Grant!RequestGrant(u, expected, until)
  PROVE  GrantInv'
<1>1. grant' \in Grant!GrantRows
  BY DEF GrantInv, Grant!TypeOK, Grant!RequestGrant, Grant!GrantRows, Grant!Open
<1>2. Grant!PolicyIsCurrent' /\ entry' \in Grant!Entries
  BY <1>1, Rebuilt DEF Grant!RequestGrant
<1>3. Grant!TypeOK'
  BY <1>1, <1>2 DEF GrantInv, Grant!TypeOK, Grant!RequestGrant, Grant!GrantRows, Grant!Consents,
                    Grant!resources
<1>4. Progress'
  <2>1. /\ grant.rev \in Nat
        /\ grant'.rev = grant.rev + 1
        /\ grant'.state = IF Provider = tailnetOwner THEN "active" ELSE "requested"
    BY DEF GrantInv, Grant!TypeOK, Grant!RequestGrant, Grant!GrantRows
  <2>2. /\ consent'.ended = grant.rev
        /\ consent'.asked = grant.rev + 1
        /\ consent'.own = (Provider = tailnetOwner)
    BY DEF Grant!RequestGrant
  <2>3. CASE Provider = tailnetOwner
    <3>1. grant'.state = "active" /\ consent'.own
      BY <2>1, <2>2, <2>3
    <3> QED
      BY <2>1, <2>2, <3>1 DEF Progress, Grant!ActiveByConsent
  <2>4. CASE Provider # tailnetOwner
    <3>1. grant'.state = "requested" /\ ~consent'.own
      BY <2>1, <2>2, <2>4
    <3> QED
      BY <2>1, <2>2, <3>1 DEF Progress, Grant!ActiveByConsent
  <2> QED
    BY <2>3, <2>4
<1>5. Paused'
  BY DEF GrantInv, Paused, Grant!RequestGrant, Grant!resources
<1> QED
  BY <1>2, <1>3, <1>4, <1>5 DEF GrantInv

\* An action on the grant, given what it does to the history.
LEMMA ApplyInv ==
  ASSUME GrantConstants, GrantInv, NEW u, NEW owner, NEW expected, NEW from,
         NEW next \in Grant!Open \cup Grant!Closed,
         Grant!Apply(u, owner, expected, from, next),
         consent' \in Grant!Consents,
         Progress'
  PROVE  GrantInv'
<1>1. grant' \in Grant!GrantRows
  <2>1. now \in Nat
    BY DEF GrantConstants, Grant!BoundsAssumption, GrantInv, Grant!TypeOK
  <2>2. PICK c \in Nat : grant' = [grant EXCEPT !.state = next, !.rev = @ + 1, !.contact = c]
    BY <2>1 DEF Grant!Apply
  <2>3. grant \in Grant!GrantRows
    BY DEF GrantInv, Grant!TypeOK
  <2>4. grant' = [state |-> next, rev |-> grant.rev + 1, until |-> grant.until, contact |-> c]
    BY <2>2, <2>3 DEF Grant!GrantRows
  <2> QED
    BY <2>3, <2>4 DEF Grant!GrantRows
<1>2. Grant!PolicyIsCurrent' /\ entry' \in Grant!Entries
  BY <1>1, Rebuilt DEF Grant!Apply
<1>3. Grant!TypeOK'
  BY <1>1, <1>2 DEF GrantInv, Grant!TypeOK, Grant!Apply, Grant!resources
<1>4. Paused'
  BY DEF GrantInv, Paused, Grant!Apply, Grant!resources
<1> QED
  BY <1>2, <1>3, <1>4 DEF GrantInv

\* An action that ends the round.
LEMMA EndInv ==
  ASSUME GrantConstants, GrantInv, NEW u, NEW owner, NEW expected, NEW from, NEW next \in Grant!Closed,
         Grant!Apply(u, owner, expected, from, next),
         consent' = [consent EXCEPT !.ended = grant.rev + 1]
  PROVE  GrantInv'
<1>1. consent' \in Grant!Consents
  BY DEF GrantInv, Grant!TypeOK, Grant!Consents, Grant!GrantRows
<1>2. grant'.state = next /\ grant'.rev = grant.rev + 1 /\ consent'.ended = grant.rev + 1
  BY DEF Grant!Apply, GrantInv, Grant!TypeOK, Grant!GrantRows, Grant!Consents
<1>3. Progress'
  BY <1>2 DEF Progress, Grant!ActiveByConsent, Grant!Closed, GrantInv, Grant!TypeOK,
              Grant!GrantRows
<1> QED
  BY <1>1, <1>3, ApplyInv

\* Approval and confirmation take the round one step further.
LEMMA ApproveInv ==
  ASSUME GrantConstants, GrantInv, NEW u, NEW expected, Grant!Approve(u, expected)
  PROVE  GrantInv'
<1>1. grant.state = "requested" /\ expected = grant.rev
  BY DEF Grant!Approve, Grant!Apply, Grant!Shown
<1>2. /\ grant'.state = "owner_approved" /\ grant'.rev = grant.rev + 1
      /\ consent' = [consent EXCEPT !.approved = grant.rev]
  BY <1>1 DEF Grant!Approve, Grant!Apply, GrantInv, Grant!TypeOK, Grant!GrantRows
<1>3. consent' \in Grant!Consents
  BY <1>2 DEF GrantInv, Grant!TypeOK, Grant!Consents, Grant!GrantRows
<1>4. Progress'
  BY <1>1, <1>2 DEF Progress, Grant!ActiveByConsent, GrantInv, Grant!TypeOK, Grant!GrantRows,
                    Grant!Consents
<1> QED
  BY <1>3, <1>4, ApplyInv DEF Grant!Approve, Grant!Open

\* Confirmation activates a round that the provider has approved.
LEMMA ConfirmInv ==
  ASSUME GrantConstants, GrantInv, NEW u, NEW expected, Grant!Confirm(u, expected)
  PROVE  GrantInv'
<1>1. grant.state = "owner_approved" /\ expected = grant.rev
  BY DEF Grant!Confirm, Grant!Apply, Grant!Shown
<1>2. /\ grant'.state = "active" /\ grant'.rev = grant.rev + 1
      /\ consent' = [consent EXCEPT !.confirmed = grant.rev]
  BY <1>1 DEF Grant!Confirm, Grant!Apply, GrantInv, Grant!TypeOK, Grant!GrantRows
<1>3. consent' \in Grant!Consents
  BY <1>2 DEF GrantInv, Grant!TypeOK, Grant!Consents, Grant!GrantRows
<1>4. Progress'
  BY <1>1, <1>2 DEF Progress, Grant!ActiveByConsent, Grant!Agreed, GrantInv, Grant!TypeOK,
                    Grant!GrantRows, Grant!Consents
<1> QED
  BY <1>3, <1>4, ApplyInv DEF Grant!Confirm, Grant!Open

\* The operations that change neither the grant's state and revision nor the history.
LEMMA SameRoundInv ==
  ASSUME Progress, grant \in Grant!GrantRows, consent' = consent,
         grant' \in {grant, [grant EXCEPT !.contact = now]}
  PROVE  Progress'
BY DEF Progress, Grant!ActiveByConsent, Grant!Agreed, Grant!GrantRows

\* RequestGrant and the six actions of ApplyGrantAction keep the invariant.
LEMMA GrantStepsInv ==
  ASSUME GrantConstants
  PROVE  GrantInv /\ Grant!GrantSteps => GrantInv'
<1> SUFFICES ASSUME GrantInv, NEW u \in Users, NEW expected \in 0..grant.rev,
                    \/ \E until \in 0..MaxTime : Grant!RequestGrant(u, expected, until)
                    \/ Grant!Approve(u, expected) \/ Grant!Confirm(u, expected)
                    \/ Grant!Cancel(u, expected)
                    \/ Grant!Reject(u, expected) \/ Grant!Revoke(u, expected)
                    \/ Grant!LeaveGrant(u, expected)
             PROVE  GrantInv'
  BY DEF Grant!GrantSteps
<1>1. CASE \E until \in 0..MaxTime : Grant!RequestGrant(u, expected, until)
  BY <1>1, RequestGrantInv
<1>2. CASE Grant!Approve(u, expected)
  BY <1>2, ApproveInv
<1>3. CASE Grant!Confirm(u, expected)
  BY <1>3, ConfirmInv
<1>4. CASE Grant!Cancel(u, expected)
  BY <1>4, EndInv DEF Grant!Cancel, Grant!Closed
<1>5. CASE Grant!Reject(u, expected)
  BY <1>5, EndInv DEF Grant!Reject, Grant!Closed
<1>6. CASE Grant!Revoke(u, expected)
  BY <1>6, EndInv DEF Grant!Revoke, Grant!Closed
<1>7. CASE Grant!LeaveGrant(u, expected)
  BY <1>7, EndInv DEF Grant!LeaveGrant, Grant!Closed
<1> QED
  BY <1>1, <1>2, <1>3, <1>4, <1>5, <1>6, <1>7

\* A step that leaves grant and history alone and rebuilds the policy.
LEMMA RebuildInv ==
  ASSUME GrantInv, UNCHANGED <<now, grant, consent>>, Grant!BuildPolicy,
         users' \subseteq Users,
         nodeState' \in {"pending", "registered", "domain_pending", "identity_conflict", "deleted"},
         nodeEnabled' \in BOOLEAN,
         tailnetOwner' \in Users,
         tailnetState' \in {"enabled", "disabled", "deleted"},
         Paused'
  PROVE  GrantInv'
<1>1. Grant!PolicyIsCurrent' /\ entry' \in Grant!Entries
  BY Rebuilt DEF GrantInv, Grant!TypeOK
<1>2. Grant!TypeOK'
  BY <1>1 DEF GrantInv, Grant!TypeOK
<1>3. Progress'
  BY SameRoundInv DEF GrantInv, Grant!TypeOK
<1> QED
  BY <1>1, <1>2, <1>3 DEF GrantInv

\* Without a grant there is no entry and no round.
LEMMA NoGrantInv ==
  ASSUME grant' = Grant!NoGrant, consent' = Grant!NoConsent
  PROVE  /\ grant' \in Grant!GrantRows /\ consent' \in Grant!Consents
         /\ Progress' /\ Grant!Entry' = Grant!NoEntry
BY DEF Grant!NoGrant, Grant!NoConsent, Grant!GrantRows, Grant!Consents, Progress,
       Grant!ActiveByConsent, Grant!Entry, Grant!Open, Grant!Closed

\* The operations on users, tailnets and the node keep the invariant.
LEMMA ResourceStepsInv == GrantInv /\ Grant!ResourceSteps => GrantInv'
<1> SUFFICES ASSUME GrantInv, NEW u \in Users,
                    \/ \E on \in BOOLEAN :
                         Grant!SetTailnetEnabled(u, on) \/ Grant!SetNodeEnabled(u, on)
                    \/ \E user \in Users, on \in BOOLEAN : Grant!SetUserEnabled(u, user, on)
                    \/ \E user \in Users : Grant!TransferTailnet(u, user)
                    \/ Grant!DeleteTailnet(u) \/ Grant!DeleteNode(u)
                    \/ Grant!ChangeNodeDomain(u) \/ Grant!RecoverNodeInstance(u)
             PROVE  GrantInv'
  BY DEF Grant!ResourceSteps
<1> USE DEF GrantInv, Grant!TypeOK, Paused
<1>1. ASSUME NEW on \in BOOLEAN, Grant!SetTailnetEnabled(u, on)  PROVE GrantInv'
  BY <1>1, RebuildInv DEF Grant!SetTailnetEnabled
<1>2. ASSUME NEW on \in BOOLEAN, Grant!SetNodeEnabled(u, on)  PROVE GrantInv'
  <2>1. CASE nodeState = "pending"
    <3>1. Grant!Entry' = Grant!NoEntry /\ Grant!Entry = Grant!NoEntry
      BY <1>2, <2>1 DEF Grant!SetNodeEnabled, Grant!Entry, Grant!GrantResourcesEnabled
    <3>2. Grant!PolicyIsCurrent'
      BY <1>2, <2>1, <3>1 DEF Grant!SetNodeEnabled, Grant!PolicyIsCurrent
    <3>3. Progress'
      BY <1>2, SameRoundInv DEF Grant!SetNodeEnabled
    <3> QED
      BY <1>2, <2>1, <3>2, <3>3 DEF Grant!SetNodeEnabled
  <2>2. CASE nodeState # "pending"
    BY <1>2, <2>2, RebuildInv DEF Grant!SetNodeEnabled
  <2> QED
    BY <2>1, <2>2
<1>3. ASSUME NEW user \in Users, NEW on \in BOOLEAN, Grant!SetUserEnabled(u, user, on)  PROVE GrantInv'
  BY <1>3, RebuildInv DEF Grant!SetUserEnabled
<1>4. ASSUME NEW user \in Users, Grant!TransferTailnet(u, user)  PROVE GrantInv'
  BY <1>4, RebuildInv DEF Grant!TransferTailnet
<1>5. CASE Grant!DeleteTailnet(u)
  <2>1. grant' \in Grant!GrantRows /\ consent' \in Grant!Consents /\ Progress'
    BY <1>5, NoGrantInv DEF Grant!DeleteTailnet
  <2>2. Grant!PolicyIsCurrent' /\ entry' \in Grant!Entries
    BY <1>5, <2>1, Rebuilt DEF Grant!DeleteTailnet
  <2> QED
    BY <1>5, <2>1, <2>2 DEF Grant!DeleteTailnet
<1>6. CASE Grant!DeleteNode(u)
  <2>1. /\ grant' \in Grant!GrantRows /\ consent' \in Grant!Consents
        /\ Progress' /\ Grant!Entry' = Grant!NoEntry
    BY <1>6, NoGrantInv DEF Grant!DeleteNode
  <2>2. Grant!PolicyIsCurrent' /\ entry' \in Grant!Entries
    BY <1>6, <2>1 DEF Grant!DeleteNode, Grant!PolicyIsCurrent, Grant!NoEntry, Grant!Entries
  <2> QED
    BY <1>6, <2>1, <2>2 DEF Grant!DeleteNode
<1>7. CASE Grant!ChangeNodeDomain(u)
  <2>1. Grant!Entry' = Grant!NoEntry /\ Grant!Entry = Grant!NoEntry
    BY <1>7 DEF Grant!ChangeNodeDomain, Grant!Entry, Grant!GrantResourcesEnabled
  <2>2. Grant!PolicyIsCurrent'
    BY <1>7, <2>1 DEF Grant!ChangeNodeDomain, Grant!PolicyIsCurrent
  <2>3. Progress'
    BY <1>7, SameRoundInv DEF Grant!ChangeNodeDomain
  <2> QED
    BY <1>7, <2>2, <2>3 DEF Grant!ChangeNodeDomain
<1>8. CASE Grant!RecoverNodeInstance(u)
  BY <1>8, RebuildInv DEF Grant!RecoverNodeInstance
<1> QED
  BY <1>1, <1>2, <1>3, <1>4, <1>5, <1>6, <1>7, <1>8

\* The steps that change the node's state keep the invariant: those that leave the
\* policy as it is happen while the node is paused or not admitted.
LEMMA NodeStepsInv ==
  ASSUME GrantConstants
  PROVE  GrantInv /\ Grant!NodeSteps => GrantInv'
<1> SUFFICES ASSUME GrantInv, Grant!NodeSteps  PROVE GrantInv'
  OBVIOUS
<1> USE DEF GrantInv, Grant!TypeOK, Paused
<1>1. CASE Grant!NodeHeartbeat
  <2>1. grant' \in {grant, [grant EXCEPT !.contact = now]}
    BY <1>1 DEF Grant!NodeHeartbeat
  <2>2. grant' \in Grant!GrantRows
    BY <2>1 DEF GrantConstants, Grant!BoundsAssumption, Grant!GrantRows
  <2>3. Grant!PolicyIsCurrent' /\ entry' \in Grant!Entries
    BY <1>1, <2>2, Rebuilt DEF Grant!NodeHeartbeat
  <2>4. Progress'
    BY <1>1, <2>1, SameRoundInv DEF Grant!NodeHeartbeat
  <2> QED
    BY <1>1, <2>2, <2>3, <2>4 DEF Grant!NodeHeartbeat, Grant!resources
<1>2. CASE Grant!VerifyDomain
  <2>1. Grant!Entry' = Grant!NoEntry /\ Grant!Entry = Grant!NoEntry
    BY <1>2 DEF Grant!VerifyDomain, Grant!Entry, Grant!GrantResourcesEnabled
  <2>2. Grant!PolicyIsCurrent'
    BY <1>2, <2>1 DEF Grant!VerifyDomain, Grant!PolicyIsCurrent
  <2>3. Progress'
    BY <1>2, SameRoundInv DEF Grant!VerifyDomain
  <2> QED
    BY <1>2, <2>2, <2>3 DEF Grant!VerifyDomain
<1>3. CASE Grant!IdentityConflict
  BY <1>3, RebuildInv DEF Grant!IdentityConflict
<1>4. CASE Grant!ReleaseNode
  <2>1. CASE grant.state \in {"none", "revoked"}
    BY <1>4, <2>1, RebuildInv DEF Grant!ReleaseNode
  <2>2. CASE grant.state \notin {"none", "revoked"}
    <3>1. /\ grant' = [grant EXCEPT !.state = "revoked", !.rev = grant.rev + 1, !.contact = 0]
          /\ consent' = [consent EXCEPT !.ended = grant.rev + 1]
      BY <1>4, <2>2 DEF Grant!ReleaseNode, Grant!GrantRows
    <3>2. grant' \in Grant!GrantRows /\ consent' \in Grant!Consents
      <4>1. grant' = [state |-> "revoked", rev |-> grant.rev + 1, until |-> grant.until,
                      contact |-> 0]
        BY <3>1 DEF Grant!GrantRows
      <4> QED
        BY <3>1, <4>1 DEF Grant!GrantRows, Grant!Consents, Grant!Closed
    <3>3. Grant!PolicyIsCurrent' /\ entry' \in Grant!Entries
      BY <1>4, <3>2, Rebuilt DEF Grant!ReleaseNode
    <3>4. Progress'
      <4>1. /\ grant'.state = "revoked" /\ grant'.rev = grant.rev + 1
            /\ consent'.ended = grant.rev + 1 /\ grant.rev \in Nat
        BY <3>1 DEF Grant!GrantRows, Grant!Consents
      <4> QED
        BY <4>1 DEF Progress, Grant!ActiveByConsent
    <3> QED
      BY <1>4, <3>2, <3>3, <3>4 DEF Grant!ReleaseNode
  <2> QED
    BY <2>1, <2>2
<1>5. CASE Grant!EnrollNode
  BY <1>5, RebuildInv DEF Grant!EnrollNode
<1> QED
  BY <1>1, <1>2, <1>3, <1>4, <1>5 DEF Grant!NodeSteps

\* Every transaction keeps the invariant.
LEMMA GrantNextInv ==
  ASSUME GrantConstants
  PROVE  GrantInv /\ [Grant!Next]_(Grant!vars) => GrantInv'
<1> SUFFICES ASSUME GrantInv, [Grant!Next]_(Grant!vars)  PROVE GrantInv'
  OBVIOUS
<1>1. CASE Grant!Tick
  <2>1. Progress' /\ Paused' /\ Grant!PolicyIsCurrent'
    BY <1>1 DEF Grant!Tick, GrantInv, Progress, Grant!ActiveByConsent, Grant!Agreed, Paused,
                Grant!PolicyIsCurrent, Grant!Entry,
                Grant!GrantResourcesEnabled, Grant!resources
  <2>2. Grant!TypeOK'
    BY <1>1 DEF GrantConstants, Grant!BoundsAssumption, Grant!Tick, GrantInv, Grant!TypeOK,
                Grant!resources
  <2> QED
    BY <2>1, <2>2 DEF GrantInv
<1>2. CASE UNCHANGED Grant!vars
  BY <1>2 DEF Grant!vars, GrantInv, Grant!TypeOK, Progress, Grant!ActiveByConsent, Grant!Agreed,
              Paused, Grant!PolicyIsCurrent,
              Grant!Entry, Grant!GrantResourcesEnabled
<1> QED
  BY <1>1, <1>2, GrantStepsInv, ResourceStepsInv, NodeStepsInv DEF Grant!Next

\* The invariant holds throughout every behaviour of the grant.
THEOREM GrantInvariant == GrantConstants => (Grant!Spec => []GrantInv)
<1> SUFFICES ASSUME GrantConstants PROVE Grant!Spec => []GrantInv
  OBVIOUS
<1>1. Grant!Init => GrantInv
  BY GrantInitInv
<1>2. GrantInv /\ [Grant!Next]_(Grant!vars) => GrantInv'
  BY GrantNextInv
<1> QED
  BY <1>1, <1>2, PTL DEF Grant!Spec

\* The variables keep their types.
THEOREM GrantTypes == GrantConstants => (Grant!Spec => []Grant!TypeOK)
<1>1. GrantInv => Grant!TypeOK
  BY DEF GrantInv
<1> QED
  BY <1>1, GrantInvariant, PTL

\* No grant to a third party is active without the consent of both sides to its
\* present round, whatever requests are delayed, repeated or overtaken.
THEOREM ConsentSafe == GrantConstants => (Grant!Spec => []Grant!ActiveByConsent)
<1>1. GrantInv => Grant!ActiveByConsent
  BY DEF GrantInv, Progress
<1> QED
  BY <1>1, GrantInvariant, PTL

\* The stored policy never differs from what buildPolicy would write.
THEOREM PolicyCurrent == GrantConstants => (Grant!Spec => []Grant!PolicyIsCurrent)
<1>1. GrantInv => Grant!PolicyIsCurrent
  BY DEF GrantInv
<1> QED
  BY <1>1, GrantInvariant, PTL

=============================================================================
