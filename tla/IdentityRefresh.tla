-------------------------- MODULE IdentityRefresh --------------------------
(***************************************************************************)
(* The device keys of the tailnets: RunIdentitySync and its workers        *)
(* refresh them from the upstream API while owners add and delete          *)
(* tailnets, replace and delete credentials (internal/control:             *)
(* identity_store.go, identity_sync.go, credentials.go, resources.go).     *)
(*                                                                         *)
(* A fetch lies between two transactions, so the row it was made for may   *)
(* have changed when the answer comes.  An answer is known by the version  *)
(* of the upstream device list it shows.  One node has an active grant for *)
(* every tailnet.  The delay before the next refresh is left out: a poll   *)
(* may find any tailnet due.                                               *)
(***************************************************************************)
EXTENDS Naturals, Sequences, FiniteSets

CONSTANTS
  Tailnets,     \* tailnet ids, each given out at most once
  First,        \* the tailnets that exist at the start
  Keys,         \* device keys
  Devices,      \* Devices[t][v]: the keys in version v of t's upstream list; as many
                \* versions of each list are looked at as are given (a bound)
  Workers,      \* workers of RunIdentitySync, and the capacity of results
  MaxRevision,  \* bound: credential revisions
  MaxSeq,       \* bound: refresh_seq goes on at 1 after this
  MaxCalls,     \* bound: AddTailnet and ReplaceCredential calls under way
  MaxFaults     \* bound: failed fetches, failed transactions, restarts

ASSUME ConstantsAssumption ==
  /\ First \subseteq Tailnets
  /\ Devices \in [Tailnets -> Seq(SUBSET Keys) \ {<<>>}]
  /\ Workers \in Nat \ {0}
  /\ MaxRevision \in Nat \ {0}
  /\ MaxSeq \in Nat \ {0}
  /\ MaxCalls \in Nat
  /\ MaxFaults \in Nat

VARIABLES
  upstream,     \* the current version of each upstream device list
  row,          \* tailnets, credentials and identity_snapshots
  policy,       \* the keys in the node's policy, per tailnet
  conflict,     \* tailnets with an open identity_conflict event
  unavailable,  \* tailnets with an open identity_unavailable event
  job,          \* the refresh of each tailnet (states[id].busy: it has one)
  calls,        \* AddTailnet and ReplaceCredential calls under way
  source,       \* history: the credential revision that fetched the snapshot
  faults        \* faults so far

store == <<row, policy, conflict, unavailable, source>>
vars == <<upstream, row, policy, conflict, unavailable, job, calls, source, faults>>

\* Version 0 stands for no list: none published, none received.
Versions == UNION {0..Len(Devices[t]) : t \in Tailnets}
Rows == [place : {"new", "live", "gone"}, enabled : BOOLEAN,
         status : {"valid", "unavailable", "missing"},
         rev : 0..MaxRevision, seq : 0..MaxSeq, ver : Versions]
NoRow == [place |-> "new", enabled |-> FALSE, status |-> "missing", rev |-> 0, seq |-> 0, ver |-> 0]

\* "taken": handed to a worker; "fetching": between the transactions; "answered": the
\* answer is there, version 0 when the fetch failed; "done": the result waits for the loop.
Jobs == [pc : {"idle", "taken", "fetching", "answered", "done"},
         rev : 0..MaxRevision, seq : 0..MaxSeq, ver : Versions]
NoJob == [pc |-> "idle", rev |-> 0, seq |-> 0, ver |-> 0]

\* A call with revision 0 adds a tailnet; version 0 is a fetch still out.
Calls == [id : Tailnets, rev : 0..MaxRevision, ver : Versions]

TypeOK ==
  /\ upstream \in [Tailnets -> Versions \ {0}]
  /\ row \in [Tailnets -> Rows]
  /\ policy \in [Tailnets -> SUBSET Keys]
  /\ conflict \subseteq Tailnets
  /\ unavailable \subseteq Tailnets
  /\ job \in [Tailnets -> Jobs]
  /\ calls \subseteq Calls
  /\ source \in [Tailnets -> 0..MaxRevision]
  /\ faults \in 0..MaxFaults

-----------------------------------------------------------------------------

\* The snapshots of a state r of the rows, and the keys in two of them.
SnapshotKeys(r, t) == IF r[t].ver = 0 THEN {} ELSE Devices[t][r[t].ver]

conflictingKeys(r) ==
  {k \in Keys : \E t, u \in Tailnets : t # u /\ k \in SnapshotKeys(r, t) \cap SnapshotKeys(r, u)}

\* The keys the node's policy admits for each tailnet.
buildPolicy(r) ==
  [t \in Tailnets |-> IF r[t].place = "live" /\ r[t].enabled
                      THEN SnapshotKeys(r, t) \ conflictingKeys(r)
                      ELSE {}]

updateIdentityConflicts_OnlyOpens(r) ==
  conflict \cup {t \in Tailnets : SnapshotKeys(r, t) \cap conflictingKeys(r) # {}}

\* The open identity_conflict events: those of rows that are gone are not looked at.
updateIdentityConflicts(r) ==
  {t \in Tailnets : IF r[t].place = "live"
                    THEN SnapshotKeys(r, t) \cap conflictingKeys(r) # {}
                    ELSE t \in conflict}

\* The rows a refresh works on.
Active(t) == row[t].place = "live" /\ row[t].enabled /\ row[t].status # "missing"

Fault == faults < MaxFaults /\ faults' = faults + 1

\* A transaction that makes r the rows, publishing for t what the credential at rev fetched.
publishIdentity(r, t, rev) ==
  /\ row' = r
  /\ policy' = buildPolicy(r)
  /\ conflict' = updateIdentityConflicts(r)
  /\ unavailable' = unavailable \ {t}
  /\ source' = [source EXCEPT ![t] = rev]

Init ==
  /\ upstream = [t \in Tailnets |-> 1]
  /\ row = [t \in Tailnets |-> IF t \in First
                               THEN [place |-> "live", enabled |-> TRUE, status |-> "valid",
                                     rev |-> 1, seq |-> 0, ver |-> 1]
                               ELSE NoRow]
  /\ policy = buildPolicy(row)
  /\ conflict = {t \in First : SnapshotKeys(row, t) \cap conflictingKeys(row) # {}}
  /\ unavailable = {}
  /\ job = [t \in Tailnets |-> NoJob]
  /\ calls = {}
  /\ source = [t \in Tailnets |-> IF t \in First THEN 1 ELSE 0]
  /\ faults = 0

-----------------------------------------------------------------------------
(***************************************************************************)
(* RunIdentitySync and RefreshIdentity.                                    *)
(***************************************************************************)

\* The upstream list changes: a device joins, leaves or rotates its key.
DeviceChange(t) ==
  /\ upstream[t] < Len(Devices[t])
  /\ upstream' = [upstream EXCEPT ![t] = @ + 1]
  /\ UNCHANGED <<store, job, calls, faults>>

At(pc) == {t \in Tailnets : job[t].pc = pc}

\* Workers that wait for a job: not in a refresh, nor before a full results channel.
FreeWorkers ==
  LET busy == Cardinality(At("taken") \cup At("fetching") \cup At("answered"))
      held == Cardinality(At("done"))
      used == busy + (IF held > Workers THEN held - Workers ELSE 0)
  IN  IF used < Workers THEN Workers - used ELSE 0

\* A poll hands the tailnets in S to workers; it never waits for one.
Poll(S) ==
  /\ S \subseteq {t \in At("idle") : Active(t)}
  /\ Cardinality(S) <= FreeWorkers
  /\ job' = [t \in Tailnets |-> IF t \in S THEN [NoJob EXCEPT !.pc = "taken"] ELSE job[t]]
  /\ UNCHANGED <<upstream, store, calls, faults>>

\* The next refresh_seq; it is 0 only in a new credential revision.
NextSeq(n) == IF n = MaxSeq THEN 1 ELSE n + 1

\* The first transaction reads the credential and counts the refresh.
RefreshStart(t) ==
  /\ job[t].pc = "taken"
  /\ \/ /\ Active(t)
        /\ LET seq == NextSeq(row[t].seq)
           IN  /\ row' = [row EXCEPT ![t].seq = seq]
               /\ job' = [job EXCEPT ![t] = [pc |-> "fetching", rev |-> row[t].rev,
                                             seq |-> seq, ver |-> 0]]
     \/ /\ ~Active(t)
        /\ job' = [job EXCEPT ![t] = [NoJob EXCEPT !.pc = "done"]]
        /\ UNCHANGED row
  /\ UNCHANGED <<upstream, policy, conflict, unavailable, calls, source, faults>>

\* Fault: the answer may be an old one.
Fetch_Cached(t) ==
  /\ job[t].pc = "fetching"
  /\ \E v \in 1..upstream[t] : job' = [job EXCEPT ![t].pc = "answered", ![t].ver = v]
  /\ UNCHANGED <<upstream, store, calls, faults>>

\* fetchIdentity answers with the whole list, or fails.
Fetch(t) ==
  /\ job[t].pc = "fetching"
  /\ \/ /\ job' = [job EXCEPT ![t].pc = "answered", ![t].ver = upstream[t]]
        /\ UNCHANGED faults
     \/ /\ job' = [job EXCEPT ![t].pc = "answered"]
        /\ Fault
  /\ UNCHANGED <<upstream, store, calls>>

\* Fault: revision and refresh_seq are not compared.
SameRefresh_Any(t) == row[t].place = "live"

\* The row is the one the refresh read.
SameRefresh(t) ==
  row[t].place = "live" /\ row[t].rev = job[t].rev /\ row[t].seq = job[t].seq

\* The second transaction publishes the answer or records the failure, and the worker
\* sends its result, whatever it is.
RefreshCommit(t) ==
  /\ job[t].pc = "answered"
  /\ job' = [job EXCEPT ![t] = [NoJob EXCEPT !.pc = "done"]]
  /\ \/ /\ SameRefresh(t)
        /\ job[t].ver # 0
        /\ publishIdentity([row EXCEPT ![t].status = "valid", ![t].ver = job[t].ver], t, job[t].rev)
        /\ UNCHANGED faults
     \/ /\ SameRefresh(t)
        /\ job[t].ver = 0
        /\ row' = [row EXCEPT ![t].status = "unavailable"]
        /\ unavailable' = unavailable \cup {t}
        /\ UNCHANGED <<policy, conflict, source, faults>>
     \/ /\ ~SameRefresh(t)
        /\ UNCHANGED <<store, faults>>
     \/ /\ SameRefresh(t)
        /\ Fault    \* the transaction fails, or the clock was set back
        /\ UNCHANGED store
  /\ UNCHANGED <<upstream, calls>>

\* The loop takes the result: the tailnet is no longer busy.
Result(t) ==
  /\ job[t].pc = "done"
  /\ job' = [job EXCEPT ![t] = NoJob]
  /\ UNCHANGED <<upstream, store, calls, faults>>

-----------------------------------------------------------------------------
(***************************************************************************)
(* The owners' calls.                                                      *)
(***************************************************************************)

\* AddTailnet and ReplaceCredential up to the fetch; a replacement reads the revision.
CallStart(t) ==
  /\ Cardinality(calls) < MaxCalls
  /\ row[t].place \in {"new", "live"}
  /\ calls' = calls \cup {[id |-> t, rev |-> row[t].rev, ver |-> 0]}
  /\ UNCHANGED <<upstream, store, job, faults>>

\* The fetch, with the credential the caller gave; when it fails so does the call.
CallFetch(c) ==
  /\ c.ver = 0
  /\ \/ calls' = (calls \ {c}) \cup {[c EXCEPT !.ver = upstream[c.id]]}
     \/ calls' = calls \ {c}
  /\ UNCHANGED <<upstream, store, job, faults>>

\* The row after the call: a new one, or the old one with the next revision.
NewCredential(c) ==
  [row EXCEPT ![c.id] = [place |-> "live", enabled |-> IF c.rev = 0 THEN TRUE ELSE @.enabled,
                         status |-> "valid", rev |-> c.rev + 1, seq |-> 0, ver |-> c.ver]]

\* The transaction of the call; it gives up if the revision is not the one read.
CallCommit(c) ==
  /\ c.ver # 0
  /\ c.rev < MaxRevision
  /\ calls' = calls \ {c}
  /\ \/ /\ row[c.id].rev = c.rev
        /\ row[c.id].place # "gone"
        /\ publishIdentity(NewCredential(c), c.id, c.rev + 1)
     \/ /\ row[c.id].rev # c.rev \/ row[c.id].place = "gone"
        /\ UNCHANGED store
  /\ UNCHANGED <<upstream, job, faults>>

\* Fault: no policy is built.
DeleteCredential_NoRebuild(t) ==
  /\ row[t].place = "live"
  /\ row[t].rev < MaxRevision
  /\ row' = [row EXCEPT ![t].status = "missing", ![t].rev = @ + 1, ![t].seq = 0, ![t].ver = 0]
  /\ UNCHANGED <<upstream, policy, conflict, unavailable, job, calls, source, faults>>

DeleteCredential(t) ==
  /\ row[t].place = "live"
  /\ row[t].rev < MaxRevision
  /\ row' = [row EXCEPT ![t].status = "missing", ![t].rev = @ + 1, ![t].seq = 0, ![t].ver = 0]
  /\ policy' = buildPolicy(row')
  /\ conflict' = updateIdentityConflicts(row')
  /\ UNCHANGED <<upstream, unavailable, job, calls, source, faults>>

SetTailnetEnabled(t, enabled) ==
  /\ row[t].place = "live"
  /\ row' = [row EXCEPT ![t].enabled = enabled]
  /\ policy' = buildPolicy(row')
  /\ UNCHANGED <<upstream, conflict, unavailable, job, calls, source, faults>>

\* The rows of the tailnet go with it; its open events, and those of others, stay.
DeleteTailnet(t) ==
  /\ row[t].place = "live"
  /\ row' = [row EXCEPT ![t] = [NoRow EXCEPT !.place = "gone"]]
  /\ policy' = buildPolicy(row')
  /\ UNCHANGED <<upstream, conflict, unavailable, job, calls, source, faults>>

\* The controller stops at any point and starts again with what the database holds.
Restart ==
  /\ Fault
  /\ job' = [t \in Tailnets |-> NoJob]
  /\ calls' = {}
  /\ UNCHANGED <<upstream, store>>

Sync ==
  \/ \E S \in SUBSET Tailnets : S # {} /\ Poll(S)
  \/ \E t \in Tailnets : RefreshStart(t) \/ Fetch(t) \/ RefreshCommit(t) \/ Result(t)

Owner ==
  \/ \E t \in Tailnets : CallStart(t) \/ DeleteCredential(t) \/ DeleteTailnet(t)
  \/ \E c \in calls : CallFetch(c) \/ CallCommit(c)
  \/ \E t \in Tailnets, enabled \in BOOLEAN : SetTailnetEnabled(t, enabled)

Next ==
  \/ \E t \in Tailnets : DeviceChange(t)
  \/ Sync
  \/ Owner
  \/ Restart

\* A worker that waits is at its receive when the next poll comes, and a refresh ends:
\* the HTTP client has a timeout, the database answers.
Fairness ==
  \A t \in Tailnets :
    /\ SF_vars(\E S \in SUBSET Tailnets : t \in S /\ Poll(S))
    /\ WF_vars(RefreshStart(t) \/ Fetch(t) \/ RefreshCommit(t) \/ Result(t))

Spec == Init /\ [][Next]_vars /\ Fairness

-----------------------------------------------------------------------------

\* A tailnet's keys were fetched with its present credential: what an older one
\* fetched is not published after ReplaceCredential, and nothing after DeleteCredential
\* (the revision and refresh_seq RefreshIdentity compares).  And the variables keep their
\* types.
KeysOfCredential ==
  /\ TypeOK
  /\ \A t \in Tailnets : row[t].ver # 0 => row[t].status # "missing" /\ source[t] = row[t].rev

\* The policy admits a key only for a tailnet that is enabled and shows it, and for no
\* tailnet while a second one shows it (conflictingKeys, rebuildPolicies in every
\* transaction that changes a snapshot).
AdmittedOnce ==
  \A t \in Tailnets : \A k \in policy[t] :
    /\ row[t].place = "live" /\ row[t].enabled
    /\ k \in SnapshotKeys(row, t)
    /\ \A u \in Tailnets \ {t} : k \notin SnapshotKeys(row, u)

\* A refresh never puts an older device list in the place of a newer one, whatever was
\* replaced while its request was out (RefreshIdentity's second transaction).
RefreshForward ==
  [][\A t \in Tailnets :
       (job[t].pc = "answered" /\ job'[t].pc = "done") => row'[t].ver >= row[t].ver]_vars

\* The inductive invariant behind the three.  No version that is stored or on its way is newer
\* than the upstream list.
NotAhead(t) ==
  /\ upstream[t] \in 1..Len(Devices[t])
  /\ row[t].ver <= upstream[t]
  /\ job[t].ver <= upstream[t]

\* A refresh that is out was begun under a revision of the row's credential, which only goes up;
\* while it is still the same one, the row has no newer list than the answer.
RefreshInOrder(t) ==
  job[t].pc \in {"fetching", "answered"} =>
    /\ row[t].place # "new"
    /\ job[t].pc = "fetching" => job[t].ver = 0
    /\ row[t].place = "live" =>
         /\ job[t].rev <= row[t].rev
         /\ job[t].pc = "answered" /\ job[t].ver # 0 /\ job[t].rev = row[t].rev
              => row[t].ver <= job[t].ver

RefreshInv ==
  /\ KeysOfCredential
  /\ policy = buildPolicy(row)
  /\ \A t \in Tailnets : NotAhead(t) /\ RefreshInOrder(t)
  /\ \A c \in calls : c.ver <= upstream[c.id]

\* A tailnet that stays enabled and keeps a credential ends up with the current device
\* list, its source valid, and its open events the true ones: no worker, result or busy
\* mark is lost (RunIdentitySync), and an identity_conflict that another tailnet's
\* deletion ended is resolved (updateIdentityConflicts at the next refresh).
IdentitySettles ==
  \A t \in Tailnets :
    <>[]Active(t) =>
      <>[](/\ row[t].ver = upstream[t] /\ row[t].status = "valid"
           /\ t \notin unavailable
           /\ t \in conflict <=> SnapshotKeys(row, t) \cap conflictingKeys(row) # {})

=============================================================================
