---------------------------- MODULE PolicyCache ----------------------------
(***************************************************************************)
(* The policy cache of one node host (internal/cluster/cache.go) with its  *)
(* two users: the daemon, which saves, loads and removes it, and the       *)
(* patched derper, which reads the same two files without the daemon's     *)
(* lock (patches/tailscale/uniderp.patch, cmd/derper/uniderp_policy.go).   *)
(*                                                                         *)
(* The cache is a snapshot (the policy) and a watermark (its identity,     *)
(* revision and digest, and the latest time at which the cache was used).  *)
(* Each file is replaced atomically by a rename, but the pair is not: the  *)
(* daemon can die, or a write can fail, between the two, and the derper    *)
(* can read in between.  cacheMu makes the daemon's own calls one at a     *)
(* time, so pc holds the single call in progress.                          *)
(*                                                                         *)
(* writeCacheFile fails either before its rename (the file is untouched)   *)
(* or after it (the directory sync fails and the new file is in place);    *)
(* both are modelled wherever it is called.  Time is the host's wall clock *)
(* and may be set back.                                                    *)
(***************************************************************************)
EXTENDS PolicyValues

CONSTANTS
  Issued,   \* the policies that reach this host
  MaxTime,  \* bound on the wall clock
  Skew      \* clock steps back that are tolerated (5 seconds in the code)

ASSUME IssuedAssumption == Issued \subseteq Policies

ASSUME TimeAssumption == MaxTime \in Nat /\ Skew \in Nat

VARIABLES
  mark,      \* the watermark file, or None
  snapshot,  \* the snapshot file, or None
  now,       \* wall clock
  pc,        \* the daemon's call in progress
  saving,    \* the policy that call saves
  loaded,    \* what LoadCache last returned to the running daemon
  notice,    \* the revision and digest waiting in the derper's socket
  reading,   \* the digest the derper has read from the watermark
  running,   \* the policy the derper enforces
  saved,     \* history: the policy of the last SaveCache that returned nil
  lastUsed   \* history: the latest time at which a call used the cache

files == <<mark, snapshot>>
derper == <<notice, reading, running>>
history == <<saved, lastUsed>>
vars == <<mark, snapshot, now, pc, saving, loaded, notice, reading, running, saved,
          lastUsed>>

Times == 0..MaxTime

Marks == [id : Ids, rev : 1..MaxRevision, digest : Policies, observed : Times]

ASSUME NoneAssumption == None \notin Policies /\ None \notin Marks

\* "save": the watermark is in place and the snapshot is due; "saveNotify": the
\* same inside ApplyPolicy; "notice": ApplyPolicy waits for the derper's answer;
\* "remove": RemoveCache has tried the snapshot and turns to the watermark.
Calls == {"idle", "save", "saveNotify", "notice", "remove"}

TypeOK ==
  /\ mark \in Marks \cup {None}
  /\ snapshot \in MaybePolicy
  /\ now \in Times
  /\ pc \in Calls
  /\ saving \in MaybePolicy
  /\ loaded \in MaybePolicy
  /\ notice \in MaybePolicy
  /\ reading \in MaybePolicy
  /\ running \in MaybePolicy
  /\ saved \in MaybePolicy
  /\ lastUsed \in Times

Init ==
  /\ mark = None
  /\ snapshot = None
  /\ now = 0
  /\ pc = "idle"
  /\ saving = None
  /\ loaded = None
  /\ notice = None
  /\ reading = None
  /\ running = None
  /\ saved = None
  /\ lastUsed = 0

Later(s, t) == IF s > t THEN s ELSE t

\* Neither SaveCache, nor LoadCache, nor the derper goes on when the clock
\* stands before the watermark's time by more than the tolerance.
ClockOK == now + Skew >= mark.observed

-----------------------------------------------------------------------------
(* SaveCache and ApplyPolicy *)

\* Fault: an older revision, or a second content of one, is saved like any other.
Accepts_AnyRevision(p) ==
  /\ mark = None => snapshot = None
  /\ mark # None => mark.id = p.id /\ ClockOK

\* The refusals of saveCacheAt.
Accepts(p) ==
  /\ mark = None => snapshot = None
  /\ mark # None => /\ mark.id = p.id
                    /\ p.rev >= mark.rev
                    /\ p.rev = mark.rev => mark.digest = p
                    /\ ClockOK

\* Fault: a save takes the present clock even where the watermark is ahead of it.
MarkFor_ClockBack(p) ==
  [id |-> p.id, rev |-> p.rev, digest |-> p, observed |-> now]

MarkFor(p) ==
  [id |-> p.id, rev |-> p.rev, digest |-> p,
   observed |-> IF mark = None THEN now ELSE Later(now, mark.observed)]

\* saveCacheAt up to its first write: the watermark goes first.  It is called
\* by the control loop (call = "save") and by ApplyPolicy (call = "saveNotify").
\* When the directory sync fails the call returns an error with the watermark
\* already replaced.
SaveWatermark(p, call) ==
  /\ pc = "idle"
  /\ Accepts(p)
  /\ mark' = MarkFor(p)
  /\ lastUsed' = Later(now, lastUsed)
  /\ \/ pc' = call /\ saving' = p
     \/ UNCHANGED <<pc, saving>>
  /\ UNCHANGED <<snapshot, now, loaded, derper, saved>>

\* The second write of saveCacheAt, and its return; ApplyPolicy then writes the
\* policy's revision and digest to the derper's socket.
SaveSnapshot ==
  /\ pc \in {"save", "saveNotify"}
  /\ snapshot' = saving
  /\ saved' = saving
  /\ saving' = None
  /\ IF pc = "save" THEN pc' = "idle" /\ UNCHANGED notice
                    ELSE pc' = "notice" /\ notice' = saving
  /\ UNCHANGED <<mark, now, loaded, reading, running, lastUsed>>

\* The second write fails, before or after its rename: SaveCache returns an error.
SaveSnapshotFails ==
  /\ pc \in {"save", "saveNotify"}
  /\ snapshot' \in {snapshot, saving}
  /\ pc' = "idle"
  /\ saving' = None
  /\ UNCHANGED <<mark, now, loaded, derper, history>>

\* exchange returns: an answer, an error or the five-second deadline.  A request
\* that was written before the deadline stays in the derper's socket.
NoticeReturns ==
  /\ pc = "notice"
  /\ pc' = "idle"
  /\ UNCHANGED <<files, now, saving, loaded, derper, history>>

-----------------------------------------------------------------------------
(* LoadCache, prepareNodePolicy, RemoveCache *)

Loadable(id) ==
  /\ mark # None
  /\ mark.id = id
  /\ ClockOK
  /\ snapshot = mark.digest
  /\ snapshot.id = id
  /\ snapshot.rev = mark.rev

TouchMark == mark' = [mark EXCEPT !.observed = Later(now, mark.observed)]

\* LoadCache hands the snapshot out after moving the watermark's time forward.
LoadCache(id) ==
  /\ pc = "idle"
  /\ Loadable(id)
  /\ TouchMark
  /\ lastUsed' = Later(now, lastUsed)
  /\ loaded' = snapshot
  /\ UNCHANGED <<snapshot, now, pc, saving, derper, saved>>

\* LoadCache rewrites the watermark and then fails to sync the directory.
LoadCacheFails(id) ==
  /\ pc = "idle"
  /\ Loadable(id)
  /\ now > mark.observed
  /\ TouchMark
  /\ lastUsed' = Later(now, lastUsed)
  /\ UNCHANGED <<snapshot, now, pc, saving, loaded, derper, saved>>

\* prepareNodePolicy: a snapshot that does not load is deleted; the watermark stays.
PrepareNodePolicy(id) ==
  /\ pc = "idle"
  /\ ~Loadable(id)
  /\ snapshot' = None
  /\ UNCHANGED <<mark, now, pc, saving, loaded, derper, history>>

\* RunControl on an identity conflict: os.Remove of the snapshot, whatever it is.
DiscardOnConflict ==
  /\ pc = "idle"
  /\ snapshot' = None
  /\ UNCHANGED <<mark, now, pc, saving, loaded, derper, history>>

\* RemoveCache: the snapshot first.  A failed removal does not stop the loop.
RemoveSnapshot ==
  /\ pc = "idle"
  /\ snapshot' \in {snapshot, None}
  /\ pc' = "remove"
  /\ UNCHANGED <<mark, now, saving, loaded, derper, history>>

\* RemoveCache: then the watermark, which may also fail to go.
RemoveWatermark ==
  /\ pc = "remove"
  /\ pc' = "idle"
  /\ \/ mark' = None /\ saved' = None /\ lastUsed' = 0
     \/ UNCHANGED <<mark, history>>
  /\ UNCHANGED <<snapshot, now, saving, loaded, derper>>

\* The daemon dies at any point of any call.
DaemonCrash ==
  /\ pc' = "idle"
  /\ saving' = None
  /\ loaded' = None
  /\ UNCHANGED <<files, now, derper, history>>

-----------------------------------------------------------------------------
(* The derper *)

\* loadUniDERPPolicy reads the watermark: at startup, when it serves nothing yet
\* and expects nothing, or on a notice, when revision and digest must be those
\* of the notice.
DerperReadMark ==
  /\ reading = None
  /\ mark # None
  /\ ClockOK
  /\ \/ running = None /\ UNCHANGED notice
     \/ notice = mark.digest /\ notice.rev = mark.rev /\ notice' = None
  /\ reading' = mark.digest
  /\ UNCHANGED <<files, now, pc, saving, loaded, running, history>>

\* A notice that finds no watermark, another one or a bad clock is answered with
\* an error.
DerperRefuseNotice ==
  /\ reading = None
  /\ notice # None
  /\ \/ mark = None
     \/ mark # None /\ (notice # mark.digest \/ ~ClockOK)
  /\ notice' = None
  /\ UNCHANGED <<files, now, pc, saving, loaded, reading, running, history>>

\* Fault: the derper trusts the snapshot it finds after reading the watermark.
DerperApply_NoDigest ==
  /\ reading # None
  /\ snapshot # None
  /\ running # None => Follows(snapshot, running)
  /\ running' = snapshot
  /\ reading' = None
  /\ UNCHANGED <<files, now, pc, saving, loaded, notice, history>>

\* It then reads the snapshot, compares the digests and applies the policy.
\* ApplyUniDERPPolicy refuses another identity, an older revision and a second
\* content; the revision it already has is a success that changes nothing.
DerperApply ==
  /\ reading # None
  /\ snapshot = reading
  /\ running # None => Follows(snapshot, running)
  /\ running' = snapshot
  /\ reading' = None
  /\ UNCHANGED <<files, now, pc, saving, loaded, notice, history>>

\* The digests differ, the snapshot is gone, or ApplyUniDERPPolicy refuses (also
\* when the server is closed or has seen its own clock run back).
DerperReject ==
  /\ reading # None
  /\ reading' = None
  /\ UNCHANGED <<files, now, pc, saving, loaded, notice, running, history>>

\* The derper is stopped or dies; the policy it enforced is gone with it.
DerperExit ==
  /\ notice' = None
  /\ reading' = None
  /\ running' = None
  /\ UNCHANGED <<files, now, pc, saving, loaded, history>>

\* The wall clock moves on, or is set to any other time.
SetClock(t) ==
  /\ now' = t
  /\ UNCHANGED <<files, pc, saving, loaded, derper, history>>

-----------------------------------------------------------------------------

Next ==
  \/ \E p \in Issued, call \in {"save", "saveNotify"} : SaveWatermark(p, call)
  \/ SaveSnapshot
  \/ SaveSnapshotFails
  \/ NoticeReturns
  \/ \E id \in Ids : LoadCache(id)
  \/ \E id \in Ids : LoadCacheFails(id)
  \/ \E id \in Ids : PrepareNodePolicy(id)
  \/ DiscardOnConflict
  \/ RemoveSnapshot
  \/ RemoveWatermark
  \/ DaemonCrash
  \/ DerperReadMark
  \/ DerperRefuseNotice
  \/ DerperApply
  \/ DerperReject
  \/ DerperExit
  \/ \E t \in Times : SetClock(t)

Spec == Init /\ [][Next]_vars

-----------------------------------------------------------------------------
(* Properties *)

\* A load never goes back behind a save that returned success: whatever crashed,
\* failed or was deleted since, LoadCache hands out the last policy SaveCache
\* reported as saved, or one accepted after it, and never another content under
\* the same revision (the refusals of saveCacheAt).
LoadReturnsNewest ==
  [][(loaded' # loaded /\ loaded' # None /\ saved # None) => Follows(loaded', saved)]_vars

\* Nobody obtains a policy from the cache while the clock stands further back
\* than the tolerance from the latest time at which the cache was used, however
\* the clock was moved in small steps in between (ObservedAt only moves forward).
ClockNeverRunsBack ==
  [][((loaded' # loaded /\ loaded' # None) \/ (reading' # reading /\ reading' # None))
        => now + Skew >= lastUsed]_vars

Register == INSTANCE PolicyRegister WITH held <- IF mark = None THEN None ELSE mark.digest

\* The two files implement one register: the watermark is the register, and both
\* readers obtain what it held when their read began, or nothing ("a crash between
\* replacements must reject the older snapshot", cache.go).
ImplementsRegister == Register!Spec

=============================================================================
