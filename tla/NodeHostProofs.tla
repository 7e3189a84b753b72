--------------------------- MODULE NodeHostProofs ---------------------------
(***************************************************************************)
(* Proofs about the node host: its policy cache and its daemon.            *)
(*                                                                         *)
(* The policy cache (PolicyCache), for any identities, contents, revisions *)
(* and clock: type correctness, the two action properties, and that the    *)
(* two files implement the register of PolicyRegister.                     *)
(*                                                                         *)
(* The daemon (DerperDaemon, as the instance Daemon), for any number of    *)
(* operations and faults: its alarms are true, a healthy child is watched, *)
(* and an identity conflict stops the relay.                               *)
(***************************************************************************)
EXTENDS PolicyCache, TLAPS

\* The watermark describes the policy whose digest it carries.
MarkMatches ==
  mark # None => mark.id = mark.digest.id /\ mark.rev = mark.digest.rev

\* While a snapshot is due, the watermark already stands for it.
SaveInProgress ==
  pc \in {"save", "saveNotify"} => mark # None /\ saving = mark.digest

\* The watermark never falls behind a save that returned success.
MarkCoversSaved ==
  saved # None => mark # None /\ Follows(mark.digest, saved)

\* The watermark's time is the latest time at which the cache was used.
MarkTime ==
  /\ mark # None => mark.observed = lastUsed
  /\ mark = None => lastUsed = 0

CacheInv ==
  /\ TypeOK
  /\ MarkMatches
  /\ SaveInProgress
  /\ MarkCoversSaved
  /\ MarkTime

\* The later of two times of the clock is one of its times, and none of the two
\* is later than it.
LEMMA LaterTime ==
  ASSUME NEW s \in Times, NEW t \in Times
  PROVE  Later(s, t) \in Times /\ Later(s, t) >= s /\ Later(s, t) >= t
BY TimeAssumption DEF Later, Times

\* Taking the place of a policy is transitive, so a chain of accepted saves
\* never leads back behind its first.
LEMMA FollowsTransitive ==
  ASSUME NEW p \in Policies, NEW q \in Policies, NEW r \in Policies,
         Follows(p, q), Follows(q, r)
  PROVE  Follows(p, r)
BY MaxRevisionAssumption DEF Follows, Policies

\* Saving the same policy again, as ApplyPolicy does, is always accepted.
LEMMA FollowsReflexive ==
  ASSUME NEW p \in Policies
  PROVE  Follows(p, p)
BY MaxRevisionAssumption DEF Follows, Policies

\* The watermark saveCacheAt writes for an accepted policy is well formed, stands
\* for that policy, and carries the latest time at which the cache was used.
LEMMA MarkForAccepted ==
  ASSUME CacheInv, NEW p \in Policies
  PROVE  /\ MarkFor(p) \in Marks
         /\ MarkFor(p) # None
         /\ MarkFor(p).digest = p
         /\ MarkFor(p).id = p.id
         /\ MarkFor(p).rev = p.rev
         /\ mark # None => MarkFor(p).observed = Later(now, lastUsed)
         /\ mark = None => MarkFor(p).observed = now
<1>1. MarkFor(p).observed \in Times
  BY LaterTime DEF CacheInv, TypeOK, MarkFor, Marks
<1>2. QED
  BY <1>1, NoneAssumption DEF CacheInv, TypeOK, MarkTime, MarkFor, Marks, Policies

\* A host without cache files satisfies the invariant.
LEMMA InitInv == Init => CacheInv
BY TimeAssumption, NoneAssumption
   DEF Init, CacheInv, TypeOK, MarkMatches, SaveInProgress, MarkCoversSaved, MarkTime,
       Calls, Times, MaybePolicy

\* The first write of saveCacheAt: the watermark runs ahead of what is reported saved.
LEMMA SaveWatermarkInv ==
  ASSUME CacheInv, NEW p \in Issued, NEW call \in {"save", "saveNotify"},
         SaveWatermark(p, call)
  PROVE  CacheInv'
<1> USE DEF CacheInv
<1>1. p \in Policies
  BY IssuedAssumption
<1>2. /\ mark' = MarkFor(p) /\ mark' \in Marks /\ mark' # None
      /\ mark'.digest = p /\ mark'.id = p.id /\ mark'.rev = p.rev
  BY <1>1, MarkForAccepted DEF SaveWatermark
<1>3. lastUsed' \in Times /\ mark'.observed = lastUsed'
  <2>1. lastUsed' = Later(now, lastUsed) /\ now \in Times /\ lastUsed \in Times
    BY DEF SaveWatermark, TypeOK
  <2>2. CASE mark # None
    BY <1>1, <1>2, <2>1, <2>2, MarkForAccepted, LaterTime
  <2>3. CASE mark = None
    BY <1>1, <1>2, <2>1, <2>3, MarkForAccepted, LaterTime, TimeAssumption
       DEF MarkTime, Later, Times
  <2>4. QED
    BY <2>2, <2>3
<1>4. TypeOK'
  BY <1>1, <1>2, <1>3 DEF TypeOK, SaveWatermark, Calls, MaybePolicy, derper
<1>5. SaveInProgress'
  BY <1>2 DEF SaveInProgress, SaveWatermark
<1>6. MarkCoversSaved'
  <2>1. SUFFICES ASSUME saved # None
                 PROVE  Follows(p, saved)
    BY <1>2 DEF MarkCoversSaved, SaveWatermark
  <2>2. mark \in Marks /\ mark.digest \in Policies /\ saved \in Policies
    BY <2>1 DEF TypeOK, MarkCoversSaved, Marks, MaybePolicy
  <2>3. Follows(p, mark.digest)
    BY <2>1, <2>2, <1>1, MaxRevisionAssumption
       DEF SaveWatermark, Accepts, MarkMatches, MarkCoversSaved, Follows, Policies
  <2>4. QED
    BY <2>1, <2>2, <2>3, <1>1, FollowsTransitive DEF MarkCoversSaved
<1>7. QED
  BY <1>2, <1>3, <1>4, <1>5, <1>6 DEF MarkMatches, MarkTime

\* The second write of saveCacheAt: the save that returns is the one the watermark covers.
LEMMA SaveSnapshotInv ==
  ASSUME CacheInv, SaveSnapshot
  PROVE  CacheInv'
<1> USE DEF CacheInv
<1>1. TypeOK'
  BY DEF TypeOK, SaveSnapshot, Calls, MaybePolicy
<1>2. MarkCoversSaved'
  <2>1. mark # None /\ saved' = mark.digest /\ mark' = mark
    BY DEF SaveSnapshot, SaveInProgress
  <2>2. mark.digest \in Policies
    BY <2>1 DEF TypeOK, Marks
  <2>3. QED
    BY <2>1, <2>2, FollowsReflexive DEF MarkCoversSaved
<1>3. QED
  BY <1>1, <1>2 DEF SaveSnapshot, MarkMatches, SaveInProgress, MarkTime

\* Moving the watermark's time forward changes nothing else in it.
LEMMA TouchMarkKeeps ==
  ASSUME CacheInv, mark # None, TouchMark
  PROVE  /\ mark' \in Marks /\ mark' # None
         /\ mark'.id = mark.id /\ mark'.rev = mark.rev /\ mark'.digest = mark.digest
         /\ mark'.observed = Later(now, lastUsed)
<1>1. mark \in Marks /\ now \in Times /\ lastUsed \in Times /\ mark.observed = lastUsed
  BY DEF CacheInv, TypeOK, MarkTime
<1>2. Later(now, lastUsed) \in Times
  BY <1>1, LaterTime
<1>3. QED
  BY <1>1, <1>2, NoneAssumption DEF TouchMark, Marks

\* LoadCache, also when its directory sync fails, moves only the watermark's time.
LEMMA TouchMarkInv ==
  ASSUME CacheInv, mark # None, TouchMark, lastUsed' = Later(now, lastUsed),
         pc = "idle", UNCHANGED <<snapshot, now, pc, saving, derper, saved>>,
         loaded' \in MaybePolicy
  PROVE  CacheInv'
<1> USE DEF CacheInv
<1>1. /\ mark' \in Marks /\ mark' # None
      /\ mark'.id = mark.id /\ mark'.rev = mark.rev /\ mark'.digest = mark.digest
      /\ mark'.observed = lastUsed'
  BY TouchMarkKeeps
<1>2. lastUsed' \in Times
  BY LaterTime DEF TypeOK
<1>3. TypeOK'
  BY <1>1, <1>2 DEF TypeOK, derper
<1>4. QED
  BY <1>1, <1>3 DEF MarkMatches, SaveInProgress, MarkCoversSaved, MarkTime

\* The steps that leave the watermark, the history and a save in progress alone:
\* they disturb only types.
LEMMA OtherStepsInv ==
  ASSUME CacheInv,
         \/ SaveSnapshotFails \/ NoticeReturns \/ DiscardOnConflict \/ RemoveSnapshot
         \/ DaemonCrash \/ DerperReadMark \/ DerperRefuseNotice \/ DerperApply
         \/ DerperReject \/ DerperExit
         \/ \E id \in Ids : PrepareNodePolicy(id)
         \/ \E t \in Times : SetClock(t)
  PROVE  CacheInv'
<1> USE DEF CacheInv, files, derper, history
<1>1. mark' = mark /\ saved' = saved /\ lastUsed' = lastUsed
  BY DEF SaveSnapshotFails, NoticeReturns, DiscardOnConflict, RemoveSnapshot, DaemonCrash,
         DerperReadMark, DerperRefuseNotice, DerperApply, DerperReject, DerperExit,
         PrepareNodePolicy, SetClock
<1>2. pc' \in {"save", "saveNotify"} => pc' = pc /\ saving' = saving
  BY DEF SaveSnapshotFails, NoticeReturns, DiscardOnConflict, RemoveSnapshot, DaemonCrash,
         DerperReadMark, DerperRefuseNotice, DerperApply, DerperReject, DerperExit,
         PrepareNodePolicy, SetClock
<1>3. now' \in Times /\ pc' \in Calls /\ saving' \in MaybePolicy /\ loaded' \in MaybePolicy
  BY DEF TypeOK, Calls, MaybePolicy, SaveSnapshotFails, NoticeReturns, DiscardOnConflict,
         RemoveSnapshot, DaemonCrash, DerperReadMark, DerperRefuseNotice, DerperApply,
         DerperReject, DerperExit, PrepareNodePolicy, SetClock
<1>4. snapshot' \in MaybePolicy /\ notice' \in MaybePolicy
  BY DEF TypeOK, MaybePolicy, SaveSnapshotFails, NoticeReturns, DiscardOnConflict,
         RemoveSnapshot, DaemonCrash, DerperReadMark, DerperRefuseNotice, DerperApply,
         DerperReject, DerperExit, PrepareNodePolicy, SetClock
<1>5. reading' \in MaybePolicy /\ running' \in MaybePolicy
  BY DEF TypeOK, MaybePolicy, Marks, SaveSnapshotFails, NoticeReturns, DiscardOnConflict,
         RemoveSnapshot, DaemonCrash, DerperReadMark, DerperRefuseNotice, DerperApply,
         DerperReject, DerperExit, PrepareNodePolicy, SetClock
<1>6. TypeOK'
  BY <1>1, <1>3, <1>4, <1>5 DEF TypeOK
<1>7. QED
  BY <1>1, <1>2, <1>6 DEF MarkMatches, SaveInProgress, MarkCoversSaved, MarkTime

\* Every step of the daemon, the derper, the clock and the failures keeps the invariant.
LEMMA NextInv == CacheInv /\ [Next]_vars => CacheInv'
<1>1. SUFFICES ASSUME CacheInv, [Next]_vars
               PROVE  CacheInv'
  OBVIOUS
<1>2. CASE \E p \in Issued, call \in {"save", "saveNotify"} : SaveWatermark(p, call)
  BY <1>1, <1>2, SaveWatermarkInv
<1>3. CASE SaveSnapshot
  BY <1>1, <1>3, SaveSnapshotInv
<1>4. CASE \E id \in Ids : LoadCache(id) \/ LoadCacheFails(id)
  BY <1>1, <1>4, TouchMarkInv DEF LoadCache, LoadCacheFails, Loadable, CacheInv, TypeOK
<1>5. CASE RemoveWatermark
  BY <1>1, <1>5, TimeAssumption
     DEF RemoveWatermark, derper, history, CacheInv, TypeOK, MarkMatches, SaveInProgress,
         MarkCoversSaved, MarkTime, Calls, Times, MaybePolicy
<1>6. CASE UNCHANGED vars
  BY <1>1, <1>6
     DEF vars, CacheInv, TypeOK, MarkMatches, SaveInProgress, MarkCoversSaved, MarkTime
<1>7. QED
  BY <1>1, <1>2, <1>3, <1>4, <1>5, <1>6, OtherStepsInv DEF Next

\* The watermark stands for the newest policy accepted, covers every save that returned
\* success and carries the latest time at which saveCacheAt or LoadCache used the cache.
THEOREM CacheInvariant == Spec => []CacheInv
BY InitInv, NextInv, PTL DEF Spec

\* Every variable of the cache keeps its type, whatever fails or dies in between.
THEOREM TypeCorrect == Spec => []TypeOK
BY CacheInvariant, PTL DEF CacheInv

\* LoadCache never hands out a policy older than, or conflicting with, the last one
\* SaveCache reported as saved: the watermark covers every successful save and a
\* snapshot loads only if the watermark carries its digest.
THEOREM LoadSafe == Spec => LoadReturnsNewest
<1>1. CacheInv /\ [Next]_vars
        => [(loaded' # loaded /\ loaded' # None /\ saved # None)
              => Follows(loaded', saved)]_vars
  <2>1. SUFFICES ASSUME CacheInv, Next, loaded' # loaded, loaded' # None, saved # None
                 PROVE  Follows(loaded', saved)
    BY DEF vars
  <2>2. PICK id \in Ids : LoadCache(id)
    BY <2>1 DEF Next, SaveWatermark, SaveSnapshot, SaveSnapshotFails, NoticeReturns,
                LoadCacheFails, PrepareNodePolicy, DiscardOnConflict, RemoveSnapshot,
                RemoveWatermark, DaemonCrash, DerperReadMark, DerperRefuseNotice,
                DerperApply, DerperReject, DerperExit, SetClock
  <2>3. QED
    BY <2>1, <2>2 DEF LoadCache, Loadable, CacheInv, MarkCoversSaved
<1>2. QED
  BY <1>1, CacheInvariant, PTL DEF Spec, LoadReturnsNewest

\* Neither LoadCache nor the derper obtains a policy while the clock stands further
\* back than the tolerance from the latest use of the cache: the watermark's time is
\* that latest use.
THEOREM ClockSafe == Spec => ClockNeverRunsBack
<1>1. CacheInv /\ [Next]_vars
        => [((loaded' # loaded /\ loaded' # None) \/ (reading' # reading /\ reading' # None))
              => now + Skew >= lastUsed]_vars
  <2>1. SUFFICES ASSUME CacheInv, Next,
                        \/ loaded' # loaded /\ loaded' # None
                        \/ reading' # reading /\ reading' # None
                 PROVE  now + Skew >= lastUsed
    BY DEF vars
  <2>2. DerperReadMark \/ \E id \in Ids : LoadCache(id)
    BY <2>1 DEF Next, SaveWatermark, SaveSnapshot, SaveSnapshotFails, NoticeReturns,
                LoadCacheFails, PrepareNodePolicy, DiscardOnConflict, RemoveSnapshot,
                RemoveWatermark, DaemonCrash, DerperRefuseNotice, DerperApply,
                DerperReject, DerperExit, SetClock, derper
  <2>3. QED
    BY <2>1, <2>2 DEF DerperReadMark, LoadCache, Loadable, ClockOK, CacheInv, MarkTime
<1>2. QED
  BY <1>1, CacheInvariant, PTL DEF Spec, ClockNeverRunsBack

\* The two files, written and read without a common lock and with failures between
\* them, implement one register that only moves forward.
THEOREM CacheImplementsRegister == Spec => ImplementsRegister
<1>1. Init => Register!Init
  BY DEF Init, Register!Init
<1>2. CacheInv /\ [Next]_vars => [Register!Next]_(Register!vars)
  <2>1. SUFFICES ASSUME CacheInv, [Next]_vars
                 PROVE  [Register!Next]_(Register!vars)
    OBVIOUS
  <2> USE <2>1 DEF CacheInv, Register!vars
  <2>2. ASSUME NEW p \in Issued, NEW call \in {"save", "saveNotify"},
               SaveWatermark(p, call)
        PROVE  Register!Accept(p) /\ p \in Policies
    <3>1. p \in Policies
      BY IssuedAssumption
    <3>2. mark' # None /\ mark'.digest = p
      BY <2>2, <3>1, MarkForAccepted DEF SaveWatermark
    <3>3. mark # None => Follows(p, mark.digest)
      BY <2>2, <3>1, MaxRevisionAssumption
         DEF SaveWatermark, Accepts, MarkMatches, Follows, Policies
    <3>4. UNCHANGED <<loaded, reading, running>>
      BY <2>2 DEF SaveWatermark, derper
    <3>5. QED
      BY <3>1, <3>2, <3>3, <3>4, NoneAssumption
         DEF Register!Accept, Register!Follows, Follows, TypeOK, Marks
  <2>3. ASSUME NEW id \in Ids, LoadCache(id) \/ LoadCacheFails(id)
        PROVE  Register!Load \/ UNCHANGED Register!vars
    <3>1. mark # None /\ TouchMark /\ UNCHANGED <<reading, running>>
      BY <2>3 DEF LoadCache, LoadCacheFails, Loadable, derper
    <3>2. mark' # None /\ mark'.digest = mark.digest /\ mark.digest # None
      BY <3>1, TouchMarkKeeps, NoneAssumption DEF TypeOK, Marks
    <3>3. loaded' = loaded \/ loaded' = mark.digest
      BY <2>3 DEF LoadCache, LoadCacheFails, Loadable
    <3>4. QED
      BY <3>1, <3>2, <3>3 DEF Register!Load
  <2>4. ASSUME RemoveWatermark
        PROVE  Register!Forget \/ UNCHANGED Register!vars
    BY <2>4 DEF RemoveWatermark, derper, history, Register!Forget
  <2>5. ASSUME DaemonCrash
        PROVE  Register!DaemonExit
    BY <2>5 DEF DaemonCrash, files, derper, Register!DaemonExit
  <2>6. ASSUME DerperReadMark
        PROVE  Register!BeginRead
    BY <2>6, NoneAssumption DEF DerperReadMark, files, Register!BeginRead, TypeOK, Marks
  <2>7. ASSUME DerperApply
        PROVE  Register!EndRead
    BY <2>7 DEF DerperApply, files, Register!EndRead, Register!Follows, Follows
  <2>8. ASSUME DerperReject
        PROVE  Register!AbandonRead
    BY <2>8 DEF DerperReject, files, Register!AbandonRead
  <2>9. ASSUME DerperExit
        PROVE  Register!DerperExit
    BY <2>9 DEF DerperExit, files, Register!DerperExit
  <2>10. ASSUME \/ SaveSnapshot \/ SaveSnapshotFails \/ NoticeReturns
                \/ DiscardOnConflict \/ RemoveSnapshot \/ DerperRefuseNotice
                \/ \E id \in Ids : PrepareNodePolicy(id)
                \/ \E t \in Times : SetClock(t)
                \/ UNCHANGED vars
         PROVE  UNCHANGED Register!vars
    BY <2>10 DEF SaveSnapshot, SaveSnapshotFails, NoticeReturns, DiscardOnConflict,
                 RemoveSnapshot, DerperRefuseNotice, PrepareNodePolicy, SetClock, vars,
                 files, derper
  <2>11. QED
    BY <2>2, <2>3, <2>4, <2>5, <2>6, <2>7, <2>8, <2>9, <2>10
       DEF Next, Register!Next, Register!Policies, Policies
<1>3. QED
  BY <1>1, <1>2, CacheInvariant, PTL DEF Spec, ImplementsRegister, Register!Spec

-----------------------------------------------------------------------------
(* The daemon and its child *)

CONSTANTS MaxOps, MaxFaults
VARIABLES stopping, childOK, childGeneration, expected, nodeConflict, applyError, fatal, lock, sync,
          halt, child, watched, start, op, ctl, shut, reported, ops, faults

Daemon == INSTANCE DerperDaemon

\* NoFalseAlarm without the types.
Alarms == \A g \in reported : child[g] = "exited"

\* The parts of DaemonInv that the steps are shown to keep one by one.
DaemonParts ==
  /\ Daemon!FlagTypes /\ Daemon!PlaceTypes /\ Alarms
  /\ Daemon!LockHeld /\ Daemon!GenerationsCounted /\ Daemon!StopsExpected
  /\ Daemon!HealthyOrPublished /\ Daemon!ConflictStopping

\* The invariant is its parts, before and after a step.
LEMMA DaemonPartsSplit == (Daemon!DaemonInv <=> DaemonParts) /\ (Daemon!DaemonInv' <=> DaemonParts')
BY DEF Daemon!DaemonInv, Daemon!NoFalseAlarm, Daemon!TypeOK, DaemonParts, Alarms

\* A step that leaves a part's variables alone keeps the part.
LEMMA SamePlaces ==
  ASSUME Daemon!PlaceTypes,
         UNCHANGED <<childGeneration, expected, lock, sync, halt, child, watched, start, op, ctl,
                     shut, reported, ops, faults>>
  PROVE  Daemon!PlaceTypes'
BY DEF Daemon!PlaceTypes

\* The steps of Shutdown that neither stop a child nor begin it.
LEMMA ShutdownPasses ==
  ASSUME Daemon!DaemonInv,
         NEW from \in {"flagged", "ctl", "wait", "lock"},
         NEW to \in {"ctl", "stop", "lock", "ended"},
         Daemon!Shutdown(from, to),
         UNCHANGED <<stopping, childOK, child>>,
         ctl' = ctl \/ (ctl # "stopping" /\ ctl' = "off"),
         faults' \in 0..MaxFaults
  PROVE  Daemon!DaemonInv'
<1>1. DaemonParts
  BY DaemonPartsSplit
<1>2. UNCHANGED <<stopping, childOK, childGeneration, expected, nodeConflict, applyError, fatal,
                  lock, sync, halt, child, watched, start, op, reported, ops>>
  BY DEF Daemon!Shutdown
<1>3. Daemon!FlagTypes' /\ Alarms' /\ Daemon!HealthyOrPublished' /\ Daemon!ConflictStopping'
  BY <1>1, <1>2 DEF DaemonParts, Daemon!FlagTypes, Alarms, Daemon!HealthyOrPublished,
                    Daemon!ConflictStopping
<1>4. Daemon!PlaceTypes'
  BY <1>1, <1>2 DEF DaemonParts, Daemon!PlaceTypes, Daemon!Shutdown
<1>5. Daemon!LockHeld'
  BY <1>1, <1>2 DEF DaemonParts, Daemon!LockHeld
<1>6. Daemon!GenerationsCounted'
  BY <1>1, <1>2 DEF DaemonParts, Daemon!GenerationsCounted
<1>7. Daemon!StopsExpected'
  BY <1>1, <1>2 DEF DaemonParts, Daemon!StopsExpected, Daemon!Shutdown
<1> QED
  BY <1>3, <1>4, <1>5, <1>6, <1>7, DaemonPartsSplit DEF DaemonParts

\* A child that exits was asked to, or exits by itself.
LEMMA ChildExitsKeeps ==
  ASSUME Daemon!DaemonInv, Daemon!ChildExits
  PROVE  Daemon!DaemonInv'
<1>1. DaemonParts
  BY DaemonPartsSplit
<1>2. Daemon!FlagTypes'
  BY <1>1 DEF Daemon!ChildExits, Daemon!Running, Daemon!flags, Daemon!threads, DaemonParts,
              Daemon!FlagTypes
<1>3. Daemon!PlaceTypes'
  BY <1>1 DEF Daemon!ChildExits, Daemon!Running, Daemon!flags, Daemon!threads, DaemonParts,
              Daemon!PlaceTypes, Daemon!ChildTables
<1>4. Alarms'
  BY <1>1 DEF Daemon!ChildExits, Daemon!Running, Daemon!flags, Daemon!threads, DaemonParts,
              Daemon!PlaceTypes, Daemon!ChildTables, Alarms
<1>5. Daemon!GenerationsCounted'
  BY <1>1 DEF Daemon!ChildExits, Daemon!Running, Daemon!flags, Daemon!threads, DaemonParts,
              Daemon!PlaceTypes, Daemon!ChildTables, Daemon!GenerationsCounted
<1>6. Daemon!StopsExpected'
  BY <1>1 DEF Daemon!ChildExits, Daemon!Running, Daemon!flags, Daemon!threads, DaemonParts,
              Daemon!PlaceTypes, Daemon!ChildTables, Daemon!StopsExpected
<1>7. Daemon!ConflictStopping'
  BY <1>1 DEF Daemon!ChildExits, Daemon!Running, Daemon!flags, Daemon!threads, DaemonParts,
              Daemon!PlaceTypes, Daemon!ChildTables, Daemon!ConflictStopping
<1>8. Daemon!LockHeld' /\ Daemon!HealthyOrPublished'
  BY <1>1 DEF Daemon!ChildExits, Daemon!Running, Daemon!flags, Daemon!threads, DaemonParts,
              Daemon!LockHeld, Daemon!HealthyOrPublished
<1> QED
  BY <1>2, <1>3, <1>4, <1>5, <1>6, <1>7, <1>8, DaemonPartsSplit DEF DaemonParts

\* Process.Stop under derperMu: a child that has a monitor is marked.
LEMMA HaltKeeps ==
  ASSUME Daemon!DaemonInv, Daemon!Halt
  PROVE  Daemon!DaemonInv'
<1>1. DaemonParts
  BY DaemonPartsSplit
<1>2. Daemon!FlagTypes'
  BY <1>1 DEF Daemon!Halt, Daemon!Signalled, Daemon!flags, Daemon!threads, DaemonParts,
              Daemon!FlagTypes
<1>3. Daemon!PlaceTypes'
  BY <1>1 DEF Daemon!Halt, Daemon!Signalled, Daemon!flags, Daemon!threads, DaemonParts,
              Daemon!PlaceTypes, Daemon!ChildTables
<1>4. Alarms'
  BY <1>1 DEF Daemon!Halt, Daemon!Signalled, Daemon!flags, Daemon!threads, DaemonParts,
              Daemon!PlaceTypes, Daemon!ChildTables, Alarms
<1>5. Daemon!LockHeld'
  BY <1>1 DEF Daemon!Halt, Daemon!Signalled, Daemon!flags, Daemon!threads, DaemonParts,
              Daemon!PlaceTypes, Daemon!ChildTables, Daemon!LockHeld
<1>6. Daemon!GenerationsCounted'
  BY <1>1 DEF Daemon!Halt, Daemon!Signalled, Daemon!flags, Daemon!threads, DaemonParts,
              Daemon!PlaceTypes, Daemon!ChildTables, Daemon!GenerationsCounted
<1>7. Daemon!StopsExpected'
  BY <1>1 DEF Daemon!Halt, Daemon!Signalled, Daemon!flags, Daemon!threads, DaemonParts,
              Daemon!PlaceTypes, Daemon!ChildTables, Daemon!LockHeld, Daemon!StopsExpected
<1>8. Daemon!ConflictStopping'
  BY <1>1 DEF Daemon!Halt, Daemon!Signalled, Daemon!flags, Daemon!threads, DaemonParts,
              Daemon!PlaceTypes, Daemon!ChildTables, Daemon!ConflictStopping
<1>9. Daemon!HealthyOrPublished'
  BY <1>1 DEF Daemon!Halt, Daemon!Signalled, Daemon!flags, Daemon!threads, DaemonParts,
              Daemon!HealthyOrPublished
<1> QED
  BY <1>2, <1>3, <1>4, <1>5, <1>6, <1>7, <1>8, <1>9, DaemonPartsSplit DEF DaemonParts

\* The child of a new generation, or none.
LEMMA SpawnKeeps ==
  ASSUME Daemon!BoundsAssumption, Daemon!DaemonInv, Daemon!Spawn
  PROVE  Daemon!DaemonInv'
<1>1. DaemonParts
  BY DaemonPartsSplit
<1>2. Daemon!FlagTypes'
  BY <1>1 DEF Daemon!Spawn, Daemon!SyncReturns, Daemon!OpFails, DaemonParts, Daemon!FlagTypes
<1>3. Daemon!PlaceTypes'
  BY <1>1 DEF Daemon!Spawn, Daemon!SyncReturns, Daemon!OpFails, DaemonParts, Daemon!PlaceTypes,
              Daemon!Ops, Daemon!ChildTables
<1>4. Alarms'
  <2>1. childGeneration \in Daemon!Generations \cup {0} /\ child[childGeneration] = "none"
    BY <1>1 DEF Daemon!Spawn, DaemonParts, Daemon!PlaceTypes, Daemon!StopsExpected
  <2>2. \A g \in reported : g # childGeneration /\ child[g] = "exited"
    BY <1>1, <2>1 DEF DaemonParts, Alarms
  <2>3. reported' = reported /\ child' \in {child, [child EXCEPT ![childGeneration] = "alive"]}
    BY DEF Daemon!Spawn
  <2>4. \A g \in reported : g \in Daemon!Generations \cup {0}
    BY <1>1 DEF Daemon!BoundsAssumption, DaemonParts, Daemon!PlaceTypes, Daemon!Generations
  <2>5. \A g \in reported : child'[g] = child[g]
    BY <1>1, <2>1, <2>2, <2>3, <2>4 DEF DaemonParts, Daemon!PlaceTypes, Daemon!ChildTables
  <2> QED
    BY <2>2, <2>3, <2>5 DEF Alarms
<1>5. Daemon!LockHeld'
  BY <1>1 DEF Daemon!Spawn, Daemon!SyncReturns, Daemon!OpFails, DaemonParts, Daemon!PlaceTypes,
              Daemon!Ops, Daemon!ChildTables, Daemon!Kinds, Daemon!Console, Daemon!NoOp,
              Daemon!LockHeld
<1>6. Daemon!GenerationsCounted'
  BY <1>1 DEF Daemon!Spawn, Daemon!SyncReturns, Daemon!OpFails, DaemonParts, Daemon!PlaceTypes,
              Daemon!Ops, Daemon!ChildTables, Daemon!NoOp, Daemon!GenerationsCounted
<1>7. Daemon!StopsExpected'
  BY <1>1 DEF Daemon!BoundsAssumption, Daemon!Spawn, Daemon!SyncReturns, Daemon!OpFails,
              DaemonParts, Daemon!PlaceTypes, Daemon!Ops, Daemon!ChildTables, Daemon!LockHeld,
              Daemon!GenerationsCounted, Daemon!Generations, Daemon!StopsExpected
<1>8. Daemon!HealthyOrPublished'
  BY <1>1 DEF Daemon!Spawn, Daemon!SyncReturns, Daemon!OpFails, DaemonParts, Daemon!PlaceTypes,
              Daemon!Ops, Daemon!ChildTables, Daemon!HealthyOrPublished
<1>9. Daemon!ConflictStopping'
  BY <1>1 DEF Daemon!Spawn, Daemon!SyncReturns, Daemon!OpFails, DaemonParts, Daemon!PlaceTypes,
              Daemon!Ops, Daemon!ChildTables, Daemon!ConflictStopping
<1> QED
  BY <1>2, <1>3, <1>4, <1>5, <1>6, <1>7, <1>8, <1>9, DaemonPartsSplit DEF DaemonParts

\* A child that did not get ready is stopped before it has a monitor.
LEMMA WaitReadyKeeps ==
  ASSUME Daemon!DaemonInv, Daemon!WaitReady
  PROVE  Daemon!DaemonInv'
<1>1. DaemonParts
  BY DaemonPartsSplit
<1>2. Daemon!FlagTypes'
  BY <1>1 DEF Daemon!WaitReady, Daemon!Running, Daemon!flags, Daemon!children, Daemon!threads,
              DaemonParts, Daemon!FlagTypes
<1>3. Daemon!PlaceTypes'
  BY <1>1 DEF Daemon!WaitReady, Daemon!Running, Daemon!flags, Daemon!children, Daemon!threads,
              DaemonParts, Daemon!PlaceTypes
<1>4. Daemon!LockHeld'
  BY <1>1 DEF Daemon!WaitReady, Daemon!Running, Daemon!flags, Daemon!children, Daemon!threads,
              DaemonParts, Daemon!PlaceTypes, Daemon!LockHeld
<1>5. Daemon!GenerationsCounted'
  BY <1>1 DEF Daemon!WaitReady, Daemon!Running, Daemon!flags, Daemon!children, Daemon!threads,
              DaemonParts, Daemon!PlaceTypes, Daemon!GenerationsCounted
<1>6. Daemon!StopsExpected'
  BY <1>1 DEF Daemon!WaitReady, Daemon!Running, Daemon!flags, Daemon!children, Daemon!threads,
              DaemonParts, Daemon!PlaceTypes, Daemon!StopsExpected
<1>7. Daemon!HealthyOrPublished'
  BY <1>1 DEF Daemon!WaitReady, Daemon!Running, Daemon!flags, Daemon!children, Daemon!threads,
              DaemonParts, Daemon!PlaceTypes, Daemon!HealthyOrPublished
<1>8. Daemon!ConflictStopping'
  BY <1>1 DEF Daemon!WaitReady, Daemon!Running, Daemon!flags, Daemon!children, Daemon!threads,
              DaemonParts, Daemon!PlaceTypes, Daemon!ConflictStopping
<1>9. Alarms'
  BY <1>1 DEF Daemon!WaitReady, Daemon!Running, Daemon!flags, Daemon!children, Daemon!threads,
              DaemonParts, Alarms
<1> QED
  BY <1>2, <1>3, <1>4, <1>5, <1>6, <1>7, <1>8, <1>9, DaemonPartsSplit DEF DaemonParts

\* publishChildIfCurrent, its first half.
LEMMA PublishRunningKeeps ==
  ASSUME Daemon!DaemonInv, Daemon!PublishRunning
  PROVE  Daemon!DaemonInv'
<1>1. DaemonParts
  BY DaemonPartsSplit
<1>2. Daemon!FlagTypes'
  BY <1>1 DEF Daemon!PublishRunning, Daemon!Running, Daemon!flags, Daemon!children,
              Daemon!threads, DaemonParts, Daemon!FlagTypes
<1>3. Daemon!PlaceTypes'
  BY <1>1 DEF Daemon!PublishRunning, Daemon!Running, Daemon!flags, Daemon!children,
              Daemon!threads, DaemonParts, Daemon!PlaceTypes
<1>4. Daemon!LockHeld'
  BY <1>1 DEF Daemon!PublishRunning, Daemon!Running, Daemon!flags, Daemon!children,
              Daemon!threads, DaemonParts, Daemon!PlaceTypes, Daemon!LockHeld
<1>5. Daemon!GenerationsCounted'
  BY <1>1 DEF Daemon!PublishRunning, Daemon!Running, Daemon!flags, Daemon!children,
              Daemon!threads, DaemonParts, Daemon!PlaceTypes, Daemon!GenerationsCounted
<1>6. Daemon!StopsExpected'
  BY <1>1 DEF Daemon!PublishRunning, Daemon!Running, Daemon!flags, Daemon!children,
              Daemon!threads, DaemonParts, Daemon!PlaceTypes, Daemon!StopsExpected
<1>7. Daemon!HealthyOrPublished'
  BY <1>1 DEF Daemon!PublishRunning, Daemon!Running, Daemon!flags, Daemon!children,
              Daemon!threads, DaemonParts, Daemon!PlaceTypes, Daemon!HealthyOrPublished
<1>8. Daemon!ConflictStopping'
  BY <1>1 DEF Daemon!PublishRunning, Daemon!Running, Daemon!flags, Daemon!children,
              Daemon!threads, DaemonParts, Daemon!PlaceTypes, Daemon!ConflictStopping
<1>9. Alarms'
  BY <1>1 DEF Daemon!PublishRunning, Daemon!Running, Daemon!flags, Daemon!children,
              Daemon!threads, DaemonParts, Alarms
<1> QED
  BY <1>2, <1>3, <1>4, <1>5, <1>6, <1>7, <1>8, <1>9, DaemonPartsSplit DEF DaemonParts

\* publishChildIfCurrent, its second half.
LEMMA PublishCommitKeeps ==
  ASSUME Daemon!DaemonInv, Daemon!PublishCommit
  PROVE  Daemon!DaemonInv'
<1>1. DaemonParts
  BY DaemonPartsSplit
<1>2. Daemon!FlagTypes'
  BY <1>1 DEF Daemon!PublishCommit, Daemon!MayPublish, Daemon!flags, Daemon!children,
              Daemon!threads, DaemonParts, Daemon!FlagTypes
<1>3. Daemon!PlaceTypes'
  BY <1>1 DEF Daemon!PublishCommit, Daemon!MayPublish, Daemon!flags, Daemon!children,
              Daemon!threads, DaemonParts, Daemon!PlaceTypes
<1>4. Daemon!LockHeld'
  BY <1>1 DEF Daemon!PublishCommit, Daemon!MayPublish, Daemon!flags, Daemon!children,
              Daemon!threads, DaemonParts, Daemon!PlaceTypes, Daemon!LockHeld
<1>5. Daemon!GenerationsCounted'
  BY <1>1 DEF Daemon!PublishCommit, Daemon!MayPublish, Daemon!flags, Daemon!children,
              Daemon!threads, DaemonParts, Daemon!PlaceTypes, Daemon!GenerationsCounted
<1>6. Daemon!StopsExpected'
  BY <1>1 DEF Daemon!PublishCommit, Daemon!MayPublish, Daemon!flags, Daemon!children,
              Daemon!threads, DaemonParts, Daemon!PlaceTypes, Daemon!StopsExpected
<1>7. Daemon!HealthyOrPublished'
  BY <1>1 DEF Daemon!PublishCommit, Daemon!MayPublish, Daemon!flags, Daemon!children,
              Daemon!threads, DaemonParts, Daemon!PlaceTypes, Daemon!HealthyOrPublished
<1>8. Daemon!ConflictStopping'
  BY <1>1 DEF Daemon!PublishCommit, Daemon!MayPublish, Daemon!flags, Daemon!children,
              Daemon!threads, DaemonParts, Daemon!PlaceTypes, Daemon!ConflictStopping
<1>9. Alarms'
  BY <1>1 DEF Daemon!PublishCommit, Daemon!MayPublish, Daemon!flags, Daemon!children,
              Daemon!threads, DaemonParts, Alarms
<1> QED
  BY <1>2, <1>3, <1>4, <1>5, <1>6, <1>7, <1>8, <1>9, DaemonPartsSplit DEF DaemonParts

\* The monitor starts.
LEMMA WatchKeeps ==
  ASSUME Daemon!BoundsAssumption, Daemon!DaemonInv, Daemon!Watch
  PROVE  Daemon!DaemonInv'
<1>1. DaemonParts
  BY DaemonPartsSplit
<1>2. Daemon!FlagTypes'
  BY <1>1 DEF Daemon!Watch, Daemon!SyncReturns, Daemon!OpFails, DaemonParts, Daemon!FlagTypes
<1>3. Daemon!PlaceTypes'
  BY <1>1 DEF Daemon!BoundsAssumption, Daemon!Watch, Daemon!SyncReturns, Daemon!OpFails,
              DaemonParts, Daemon!PlaceTypes, Daemon!Ops, Daemon!LockHeld,
              Daemon!GenerationsCounted, Daemon!Generations, Daemon!Kinds, Daemon!Console,
              Daemon!NoOp
<1>4. Daemon!LockHeld'
  BY <1>1 DEF Daemon!Watch, Daemon!SyncReturns, Daemon!OpFails, DaemonParts, Daemon!PlaceTypes,
              Daemon!Ops, Daemon!Kinds, Daemon!Console, Daemon!NoOp, Daemon!LockHeld
<1>5. Daemon!GenerationsCounted'
  BY <1>1 DEF Daemon!Watch, Daemon!SyncReturns, Daemon!OpFails, DaemonParts, Daemon!PlaceTypes,
              Daemon!Ops, Daemon!NoOp, Daemon!GenerationsCounted
<1>6. Daemon!StopsExpected'
  BY <1>1 DEF Daemon!Watch, Daemon!SyncReturns, Daemon!OpFails, DaemonParts, Daemon!LockHeld,
              Daemon!StopsExpected
<1>7. Daemon!HealthyOrPublished'
  BY <1>1 DEF Daemon!Watch, Daemon!SyncReturns, Daemon!OpFails, DaemonParts, Daemon!PlaceTypes,
              Daemon!Ops, Daemon!HealthyOrPublished
<1>8. Daemon!ConflictStopping'
  BY <1>1 DEF Daemon!Watch, Daemon!SyncReturns, Daemon!OpFails, DaemonParts, Daemon!PlaceTypes,
              Daemon!Ops, Daemon!ConflictStopping
<1>9. Alarms'
  BY <1>1 DEF Daemon!Watch, Daemon!SyncReturns, Daemon!OpFails, DaemonParts, Alarms
<1> QED
  BY <1>2, <1>3, <1>4, <1>5, <1>6, <1>7, <1>8, <1>9, DaemonPartsSplit DEF DaemonParts

\* syncDerperConfig returns after it stopped its child.
LEMMA CleanedUpKeeps ==
  ASSUME Daemon!BoundsAssumption, Daemon!DaemonInv, Daemon!CleanedUp
  PROVE  Daemon!DaemonInv'
<1>1. DaemonParts
  BY DaemonPartsSplit
<1>2. Daemon!FlagTypes'
  BY <1>1 DEF Daemon!CleanedUp, Daemon!HaltReturns, Daemon!StopOutcome, Daemon!Running,
              Daemon!SyncReturns, Daemon!OpFails, Daemon!children, DaemonParts, Daemon!FlagTypes
<1>3. Daemon!PlaceTypes'
  BY <1>1 DEF Daemon!BoundsAssumption, Daemon!CleanedUp, Daemon!HaltReturns, Daemon!StopOutcome,
              Daemon!Running, Daemon!SyncReturns, Daemon!OpFails, Daemon!children, DaemonParts,
              Daemon!PlaceTypes, Daemon!Ops, Daemon!LockHeld, Daemon!GenerationsCounted,
              Daemon!Generations, Daemon!Kinds, Daemon!Console, Daemon!NoOp
<1>4. Daemon!LockHeld'
  BY <1>1 DEF Daemon!CleanedUp, Daemon!HaltReturns, Daemon!StopOutcome, Daemon!Running,
              Daemon!SyncReturns, Daemon!OpFails, Daemon!children, DaemonParts, Daemon!PlaceTypes,
              Daemon!Ops, Daemon!Kinds, Daemon!Console, Daemon!NoOp, Daemon!LockHeld
<1>5. Daemon!GenerationsCounted'
  BY <1>1 DEF Daemon!CleanedUp, Daemon!HaltReturns, Daemon!StopOutcome, Daemon!Running,
              Daemon!SyncReturns, Daemon!OpFails, Daemon!children, DaemonParts, Daemon!PlaceTypes,
              Daemon!Ops, Daemon!NoOp, Daemon!GenerationsCounted
<1>6. Daemon!StopsExpected'
  BY <1>1 DEF Daemon!CleanedUp, Daemon!HaltReturns, Daemon!StopOutcome, Daemon!Running,
              Daemon!SyncReturns, Daemon!OpFails, Daemon!children, DaemonParts, Daemon!PlaceTypes,
              Daemon!Ops, Daemon!StopsExpected
<1>7. Daemon!HealthyOrPublished'
  BY <1>1 DEF Daemon!CleanedUp, Daemon!HaltReturns, Daemon!StopOutcome, Daemon!Running,
              Daemon!SyncReturns, Daemon!OpFails, Daemon!children, DaemonParts, Daemon!PlaceTypes,
              Daemon!Ops, Daemon!HealthyOrPublished
<1>8. Daemon!ConflictStopping'
  BY <1>1 DEF Daemon!CleanedUp, Daemon!HaltReturns, Daemon!StopOutcome, Daemon!Running,
              Daemon!SyncReturns, Daemon!OpFails, Daemon!children, DaemonParts, Daemon!PlaceTypes,
              Daemon!Ops, Daemon!ConflictStopping
<1>9. Alarms'
  BY <1>1 DEF Daemon!CleanedUp, Daemon!HaltReturns, Daemon!StopOutcome, Daemon!Running,
              Daemon!SyncReturns, Daemon!OpFails, Daemon!children, DaemonParts, Alarms
<1> QED
  BY <1>2, <1>3, <1>4, <1>5, <1>6, <1>7, <1>8, <1>9, DaemonPartsSplit DEF DaemonParts

\* monitorDerper reports no child that was asked to stop.
LEMMA MonitorKeeps ==
  ASSUME Daemon!DaemonInv, NEW g \in Daemon!Generations, Daemon!Monitor(g)
  PROVE  Daemon!DaemonInv'
<1>1. DaemonParts
  BY DaemonPartsSplit
<1>2. Daemon!FlagTypes'
  BY <1>1 DEF Daemon!Monitor, Daemon!flags, Daemon!threads, DaemonParts, Daemon!FlagTypes
<1>3. Daemon!PlaceTypes'
  <2>1. /\ watched' \subseteq watched /\ expected' \subseteq expected
        /\ reported' \subseteq reported \cup watched
    <3>1. CASE g \in expected \/ stopping
      BY <3>1 DEF Daemon!Monitor
    <3>2. CASE ~(g \in expected \/ stopping)
      BY <3>2 DEF Daemon!Monitor
    <3> QED
      BY <3>1, <3>2
  <2>2. UNCHANGED <<childGeneration, lock, sync, halt, child, start, op, ctl, shut, ops, faults>>
    BY DEF Daemon!Monitor, Daemon!threads
  <2> QED
    BY <1>1, <2>1, <2>2 DEF DaemonParts, Daemon!PlaceTypes
<1>4. Alarms'
  BY <1>1 DEF Daemon!Monitor, Daemon!flags, Daemon!threads, DaemonParts, Daemon!PlaceTypes,
              Daemon!StopsExpected, Alarms
<1>5. Daemon!StopsExpected'
  BY <1>1 DEF Daemon!Monitor, Daemon!flags, Daemon!threads, DaemonParts, Daemon!PlaceTypes,
              Daemon!StopsExpected
<1>6. Daemon!HealthyOrPublished'
  BY <1>1 DEF Daemon!Monitor, Daemon!flags, Daemon!threads, DaemonParts, Daemon!PlaceTypes,
              Daemon!HealthyOrPublished
<1>7. Daemon!LockHeld' /\ Daemon!GenerationsCounted' /\ Daemon!ConflictStopping'
  BY <1>1 DEF Daemon!Monitor, Daemon!flags, Daemon!threads, DaemonParts, Daemon!LockHeld,
              Daemon!GenerationsCounted, Daemon!ConflictStopping
<1> QED
  BY <1>2, <1>3, <1>4, <1>5, <1>6, <1>7, DaemonPartsSplit DEF DaemonParts

\* RunControl returns.
LEMMA ControlReturnsKeeps ==
  ASSUME Daemon!DaemonInv, Daemon!ControlReturns
  PROVE  Daemon!DaemonInv'
<1>1. DaemonParts
  BY DaemonPartsSplit
<1>2. Daemon!FlagTypes'
  BY <1>1 DEF Daemon!ControlReturns, Daemon!flags, Daemon!children, DaemonParts, Daemon!FlagTypes
<1>3. Daemon!PlaceTypes'
  BY <1>1 DEF Daemon!ControlReturns, Daemon!flags, Daemon!children, DaemonParts, Daemon!PlaceTypes
<1>4. Daemon!LockHeld'
  BY <1>1 DEF Daemon!ControlReturns, Daemon!flags, Daemon!children, DaemonParts,
              Daemon!PlaceTypes, Daemon!LockHeld
<1>5. Daemon!GenerationsCounted'
  BY <1>1 DEF Daemon!ControlReturns, Daemon!flags, Daemon!children, DaemonParts,
              Daemon!PlaceTypes, Daemon!GenerationsCounted
<1>6. Alarms' /\ Daemon!StopsExpected' /\ Daemon!HealthyOrPublished' /\ Daemon!ConflictStopping'
  BY <1>1 DEF Daemon!ControlReturns, Daemon!flags, Daemon!children, DaemonParts, Alarms,
              Daemon!StopsExpected, Daemon!HealthyOrPublished, Daemon!ConflictStopping
<1> QED
  BY <1>2, <1>3, <1>4, <1>5, <1>6, DaemonPartsSplit DEF DaemonParts

\* The control loop begins to stop the relay.
LEMMA ConflictStopKeeps ==
  ASSUME Daemon!BoundsAssumption, Daemon!DaemonInv, Daemon!ConflictStop
  PROVE  Daemon!DaemonInv'
<1>1. DaemonParts
  BY DaemonPartsSplit
<1>2. Daemon!FlagTypes'
  BY <1>1 DEF Daemon!ConflictStop, Daemon!Conflict, Daemon!children, DaemonParts, Daemon!FlagTypes
<1>3. Daemon!PlaceTypes'
  <2>1. childGeneration \in Nat /\ childGeneration # 0
    BY <1>1 DEF Daemon!BoundsAssumption, Daemon!ConflictStop, Daemon!Conflict, DaemonParts,
                Daemon!PlaceTypes,
       Daemon!GenerationsCounted, Daemon!Generations
  <2>2. expected' \subseteq 1..childGeneration
    BY <1>1, <2>1 DEF Daemon!ConflictStop, Daemon!Conflict, DaemonParts, Daemon!PlaceTypes
  <2>3. /\ lock' = "ctl" /\ halt' = "signal" /\ ctl' = "stopping"
        /\ UNCHANGED <<childGeneration, sync, child, watched, start, op, shut>>
        /\ UNCHANGED <<reported, ops, faults>>
    BY DEF Daemon!ConflictStop, Daemon!Conflict, Daemon!children
  <2> QED
    BY <1>1, <2>2, <2>3 DEF DaemonParts, Daemon!PlaceTypes
<1>4. Daemon!LockHeld'
  BY <1>1 DEF Daemon!ConflictStop, Daemon!Conflict, Daemon!children, DaemonParts,
              Daemon!PlaceTypes, Daemon!LockHeld
<1>5. Daemon!GenerationsCounted'
  BY <1>1 DEF Daemon!ConflictStop, Daemon!Conflict, Daemon!children, DaemonParts,
              Daemon!PlaceTypes, Daemon!GenerationsCounted
<1>6. Daemon!StopsExpected'
  BY <1>1 DEF Daemon!ConflictStop, Daemon!Conflict, Daemon!children, DaemonParts,
              Daemon!PlaceTypes, Daemon!StopsExpected
<1>7. Daemon!HealthyOrPublished'
  BY <1>1 DEF Daemon!ConflictStop, Daemon!Conflict, Daemon!children, DaemonParts,
              Daemon!PlaceTypes, Daemon!HealthyOrPublished
<1>8. Daemon!ConflictStopping'
  BY <1>1 DEF Daemon!ConflictStop, Daemon!Conflict, Daemon!children, DaemonParts, Daemon!LockHeld,
              Daemon!ConflictStopping
<1>9. Alarms'
  BY <1>1 DEF Daemon!ConflictStop, Daemon!Conflict, Daemon!children, DaemonParts, Alarms
<1> QED
  BY <1>2, <1>3, <1>4, <1>5, <1>6, <1>7, <1>8, <1>9, DaemonPartsSplit DEF DaemonParts

\* The control loop has stopped the relay.
LEMMA ConflictStoppedKeeps ==
  ASSUME Daemon!BoundsAssumption, Daemon!DaemonInv, Daemon!ConflictStopped
  PROVE  Daemon!DaemonInv'
<1>1. DaemonParts
  BY DaemonPartsSplit
<1>2. Daemon!FlagTypes'
  BY <1>1 DEF Daemon!ConflictStopped, Daemon!HaltReturns, Daemon!StopOutcome, Daemon!Running,
              Daemon!flags, Daemon!children, DaemonParts, Daemon!FlagTypes
<1>3. Daemon!PlaceTypes'
  BY <1>1 DEF Daemon!BoundsAssumption, Daemon!ConflictStopped, Daemon!HaltReturns,
              Daemon!StopOutcome, Daemon!Running, Daemon!flags, Daemon!children, DaemonParts,
              Daemon!PlaceTypes, Daemon!Generations
<1>4. Daemon!LockHeld'
  BY <1>1 DEF Daemon!ConflictStopped, Daemon!HaltReturns, Daemon!StopOutcome, Daemon!Running,
              Daemon!flags, Daemon!children, DaemonParts, Daemon!PlaceTypes, Daemon!LockHeld
<1>5. Daemon!GenerationsCounted'
  BY <1>1 DEF Daemon!ConflictStopped, Daemon!HaltReturns, Daemon!StopOutcome, Daemon!Running,
              Daemon!flags, Daemon!children, DaemonParts, Daemon!LockHeld,
              Daemon!GenerationsCounted
<1>6. Daemon!StopsExpected'
  BY <1>1 DEF Daemon!ConflictStopped, Daemon!HaltReturns, Daemon!StopOutcome, Daemon!Running,
              Daemon!flags, Daemon!children, DaemonParts, Daemon!PlaceTypes, Daemon!StopsExpected
<1>7. Daemon!ConflictStopping'
  BY <1>1 DEF Daemon!ConflictStopped, Daemon!HaltReturns, Daemon!StopOutcome, Daemon!Running,
              Daemon!flags, Daemon!children, DaemonParts, Daemon!PlaceTypes,
              Daemon!ConflictStopping
<1>8. Alarms' /\ Daemon!HealthyOrPublished'
  BY <1>1 DEF Daemon!ConflictStopped, Daemon!HaltReturns, Daemon!StopOutcome, Daemon!Running,
              Daemon!flags, Daemon!children, DaemonParts, Alarms, Daemon!HealthyOrPublished
<1> QED
  BY <1>2, <1>3, <1>4, <1>5, <1>6, <1>7, <1>8, DaemonPartsSplit DEF DaemonParts

\* stopNodeControl cancels the loop.
LEMMA CancelControlKeeps ==
  ASSUME Daemon!DaemonInv, Daemon!CancelControl
  PROVE  Daemon!DaemonInv'
<1>1. DaemonParts
  BY DaemonPartsSplit
<1>2. Daemon!FlagTypes'
  BY <1>1 DEF Daemon!CancelControl, Daemon!flags, Daemon!children, DaemonParts, Daemon!FlagTypes
<1>3. Daemon!PlaceTypes'
  BY <1>1 DEF Daemon!CancelControl, Daemon!flags, Daemon!children, DaemonParts, Daemon!PlaceTypes
<1>4. Daemon!LockHeld'
  BY <1>1 DEF Daemon!CancelControl, Daemon!flags, Daemon!children, DaemonParts, Daemon!PlaceTypes,
              Daemon!LockHeld
<1>5. Daemon!GenerationsCounted'
  BY <1>1 DEF Daemon!CancelControl, Daemon!flags, Daemon!children, DaemonParts, Daemon!PlaceTypes,
              Daemon!GenerationsCounted
<1>6. Alarms' /\ Daemon!StopsExpected' /\ Daemon!HealthyOrPublished' /\ Daemon!ConflictStopping'
  BY <1>1 DEF Daemon!CancelControl, Daemon!flags, Daemon!children, DaemonParts, Alarms,
              Daemon!StopsExpected, Daemon!HealthyOrPublished, Daemon!ConflictStopping
<1> QED
  BY <1>2, <1>3, <1>4, <1>5, <1>6, DaemonPartsSplit DEF DaemonParts

\* Start up to syncDerper.
LEMMA StartBeginKeeps ==
  ASSUME Daemon!BoundsAssumption, Daemon!DaemonInv, Daemon!StartBegin
  PROVE  Daemon!DaemonInv'
<1>1. DaemonParts
  BY DaemonPartsSplit
<1>2. Daemon!FlagTypes'
  BY <1>1 DEF Daemon!StartBegin, Daemon!flags, Daemon!children, DaemonParts, Daemon!FlagTypes
<1>3. Daemon!PlaceTypes'
  BY <1>1 DEF Daemon!StartBegin, Daemon!flags, Daemon!children, DaemonParts, Daemon!PlaceTypes
<1>4. Daemon!LockHeld'
  BY <1>1 DEF Daemon!StartBegin, Daemon!flags, Daemon!children, DaemonParts, Daemon!PlaceTypes,
              Daemon!LockHeld
<1>5. Daemon!GenerationsCounted'
  <2>1. start = "begin" /\ start' \in {"sync", "flags", "aborted"}
    BY DEF Daemon!StartBegin
  <2>2. UNCHANGED <<childGeneration, lock, op, sync, ops, child, nodeConflict, ctl>>
    BY DEF Daemon!StartBegin, Daemon!flags, Daemon!children
  <2>3. lock # "start" /\ childGeneration \in Nat /\ ops \in Nat
    BY <1>1, <2>1 DEF Daemon!BoundsAssumption, DaemonParts, Daemon!LockHeld, Daemon!PlaceTypes,
                      Daemon!Generations
  <2> QED
    BY <1>1, <2>1, <2>2, <2>3 DEF DaemonParts, Daemon!GenerationsCounted
<1>6. Alarms' /\ Daemon!StopsExpected' /\ Daemon!HealthyOrPublished' /\ Daemon!ConflictStopping'
  BY <1>1 DEF Daemon!StartBegin, Daemon!flags, Daemon!children, DaemonParts, Alarms,
              Daemon!StopsExpected, Daemon!HealthyOrPublished, Daemon!ConflictStopping
<1> QED
  BY <1>2, <1>3, <1>4, <1>5, <1>6, DaemonPartsSplit DEF DaemonParts

\* The rest of Start.
LEMMA StartEndsKeeps ==
  ASSUME Daemon!DaemonInv, Daemon!StartEnds
  PROVE  Daemon!DaemonInv'
<1>1. DaemonParts
  BY DaemonPartsSplit
<1>2. Daemon!FlagTypes'
  BY <1>1 DEF Daemon!StartEnds, Daemon!Running, Daemon!flags, Daemon!children, DaemonParts,
              Daemon!FlagTypes
<1>3. Daemon!PlaceTypes'
  BY <1>1 DEF Daemon!StartEnds, Daemon!Running, Daemon!flags, Daemon!children, DaemonParts,
              Daemon!PlaceTypes
<1>4. Daemon!LockHeld'
  BY <1>1 DEF Daemon!StartEnds, Daemon!Running, Daemon!flags, Daemon!children, DaemonParts,
              Daemon!PlaceTypes, Daemon!LockHeld
<1>5. Daemon!GenerationsCounted'
  BY <1>1 DEF Daemon!StartEnds, Daemon!Running, Daemon!flags, Daemon!children, DaemonParts,
              Daemon!PlaceTypes, Daemon!GenerationsCounted
<1>6. Alarms' /\ Daemon!StopsExpected' /\ Daemon!HealthyOrPublished' /\ Daemon!ConflictStopping'
  BY <1>1 DEF Daemon!StartEnds, Daemon!Running, Daemon!flags, Daemon!children, DaemonParts,
              Alarms, Daemon!StopsExpected, Daemon!HealthyOrPublished, Daemon!ConflictStopping
<1> QED
  BY <1>2, <1>3, <1>4, <1>5, <1>6, DaemonPartsSplit DEF DaemonParts

\* syncDerperConfig begins a generation that was not used before, or returns at once.
LEMMA SyncBeginKeeps ==
  ASSUME Daemon!BoundsAssumption, Daemon!DaemonInv, NEW who \in {"start", "op"},
         Daemon!SyncBegin(who)
  PROVE  Daemon!DaemonInv'
<1>1. DaemonParts
  BY DaemonPartsSplit
<1>2. Daemon!FlagTypes'
  BY <1>1 DEF Daemon!SyncBegin, Daemon!Calls, Daemon!Unneeded, Daemon!NextGeneration,
              Daemon!Running, Daemon!SyncReturns, Daemon!OpFails, DaemonParts, Daemon!FlagTypes
<1>3. Daemon!PlaceTypes'
  BY <1>1 DEF Daemon!BoundsAssumption, Daemon!SyncBegin, Daemon!Calls, Daemon!Unneeded,
              Daemon!NextGeneration, Daemon!Running, Daemon!SyncReturns, Daemon!OpFails,
              DaemonParts, Daemon!PlaceTypes, Daemon!Ops, Daemon!LockHeld,
              Daemon!GenerationsCounted, Daemon!Generations, Daemon!Kinds, Daemon!Console,
              Daemon!NoOp
<1>4. Daemon!LockHeld'
  BY <1>1 DEF Daemon!SyncBegin, Daemon!Calls, Daemon!Unneeded, Daemon!NextGeneration,
              Daemon!Running, Daemon!SyncReturns, Daemon!OpFails, DaemonParts, Daemon!PlaceTypes,
              Daemon!Ops, Daemon!Kinds, Daemon!Console, Daemon!NoOp, Daemon!LockHeld
<1>5. Daemon!GenerationsCounted'
  BY <1>1 DEF Daemon!BoundsAssumption, Daemon!SyncBegin, Daemon!Calls, Daemon!Unneeded,
              Daemon!NextGeneration, Daemon!Running, Daemon!SyncReturns, Daemon!OpFails,
              DaemonParts, Daemon!PlaceTypes, Daemon!Ops, Daemon!LockHeld, Daemon!Generations,
              Daemon!Kinds, Daemon!Console, Daemon!NoOp, Daemon!GenerationsCounted
<1>6. Daemon!StopsExpected'
  BY <1>1 DEF Daemon!BoundsAssumption, Daemon!SyncBegin, Daemon!Calls, Daemon!Unneeded,
              Daemon!NextGeneration, Daemon!Running, Daemon!SyncReturns, Daemon!OpFails,
              DaemonParts, Daemon!PlaceTypes, Daemon!Ops, Daemon!LockHeld,
              Daemon!GenerationsCounted, Daemon!Generations, Daemon!StopsExpected
<1>7. Daemon!HealthyOrPublished'
  BY <1>1 DEF Daemon!SyncBegin, Daemon!Calls, Daemon!Unneeded, Daemon!NextGeneration,
              Daemon!Running, Daemon!SyncReturns, Daemon!OpFails, DaemonParts, Daemon!PlaceTypes,
              Daemon!Ops, Daemon!HealthyOrPublished
<1>8. Daemon!ConflictStopping'
  BY <1>1 DEF Daemon!SyncBegin, Daemon!Calls, Daemon!Unneeded, Daemon!NextGeneration,
              Daemon!Running, Daemon!SyncReturns, Daemon!OpFails, DaemonParts, Daemon!PlaceTypes,
              Daemon!Ops, Daemon!ConflictStopping
<1>9. Alarms'
  BY <1>1 DEF Daemon!SyncBegin, Daemon!Calls, Daemon!Unneeded, Daemon!NextGeneration,
              Daemon!Running, Daemon!SyncReturns, Daemon!OpFails, DaemonParts, Alarms
<1> QED
  BY <1>2, <1>3, <1>4, <1>5, <1>6, <1>7, <1>8, <1>9, DaemonPartsSplit DEF DaemonParts

\* An operation begins.
LEMMA OpBeginKeeps ==
  ASSUME Daemon!BoundsAssumption, Daemon!DaemonInv, NEW kind \in Daemon!Kinds, Daemon!OpBegin(kind)
  PROVE  Daemon!DaemonInv'
<1>1. DaemonParts
  BY DaemonPartsSplit
<1>2. Daemon!FlagTypes'
  BY <1>1 DEF Daemon!OpBegin, Daemon!FirstStep, Daemon!flags, Daemon!children, DaemonParts,
              Daemon!FlagTypes
<1>3. Daemon!PlaceTypes'
  BY <1>1 DEF Daemon!BoundsAssumption, Daemon!OpBegin, Daemon!FirstStep, Daemon!flags,
              Daemon!children, DaemonParts, Daemon!PlaceTypes, Daemon!Ops, Daemon!Generations
<1>4. Daemon!LockHeld'
  BY <1>1 DEF Daemon!OpBegin, Daemon!FirstStep, Daemon!Console, Daemon!flags, Daemon!children,
              DaemonParts, Daemon!PlaceTypes, Daemon!Ops, Daemon!Kinds, Daemon!NoOp,
              Daemon!LockHeld
<1>5. Daemon!GenerationsCounted'
  BY <1>1 DEF Daemon!BoundsAssumption, Daemon!OpBegin, Daemon!FirstStep, Daemon!flags,
              Daemon!children, DaemonParts, Daemon!PlaceTypes, Daemon!Ops, Daemon!Generations,
              Daemon!GenerationsCounted
<1>6. Alarms' /\ Daemon!StopsExpected' /\ Daemon!HealthyOrPublished' /\ Daemon!ConflictStopping'
  BY <1>1 DEF Daemon!OpBegin, Daemon!FirstStep, Daemon!Console, Daemon!flags, Daemon!children,
              DaemonParts, Alarms, Daemon!StopsExpected, Daemon!HealthyOrPublished,
              Daemon!ConflictStopping
<1> QED
  BY <1>2, <1>3, <1>4, <1>5, <1>6, DaemonPartsSplit DEF DaemonParts

\* applyLocalConfig looks at the configuration.
LEMMA ApplyChecksKeeps ==
  ASSUME Daemon!BoundsAssumption, Daemon!DaemonInv, Daemon!ApplyChecks
  PROVE  Daemon!DaemonInv'
<1>1. DaemonParts
  BY DaemonPartsSplit
<1>2. Daemon!FlagTypes'
  BY <1>1 DEF Daemon!ApplyChecks, Daemon!OpFails, Daemon!Goto, Daemon!children, DaemonParts,
              Daemon!FlagTypes
<1>3. Daemon!PlaceTypes'
  BY <1>1 DEF Daemon!ApplyChecks, Daemon!OpFails, Daemon!Goto, Daemon!children, DaemonParts,
              Daemon!PlaceTypes, Daemon!Ops, Daemon!NoOp
<1>4. Daemon!LockHeld'
  BY <1>1 DEF Daemon!ApplyChecks, Daemon!OpFails, Daemon!Goto, Daemon!children, DaemonParts,
              Daemon!PlaceTypes, Daemon!Ops, Daemon!Kinds, Daemon!Console, Daemon!NoOp,
              Daemon!LockHeld
<1>5. Daemon!GenerationsCounted'
  BY <1>1 DEF Daemon!BoundsAssumption, Daemon!ApplyChecks, Daemon!OpFails, Daemon!Goto,
              Daemon!children, DaemonParts, Daemon!PlaceTypes, Daemon!Ops, Daemon!LockHeld,
              Daemon!Generations, Daemon!Kinds, Daemon!Console, Daemon!NoOp,
              Daemon!GenerationsCounted
<1>6. Alarms' /\ Daemon!StopsExpected' /\ Daemon!HealthyOrPublished' /\ Daemon!ConflictStopping'
  BY <1>1 DEF Daemon!ApplyChecks, Daemon!OpFails, Daemon!Goto, Daemon!children, DaemonParts,
              Alarms, Daemon!StopsExpected, Daemon!HealthyOrPublished, Daemon!ConflictStopping
<1> QED
  BY <1>2, <1>3, <1>4, <1>5, <1>6, DaemonPartsSplit DEF DaemonParts

\* The operation has stopped the control loop.
LEMMA OpControlStoppedKeeps ==
  ASSUME Daemon!BoundsAssumption, Daemon!DaemonInv, Daemon!OpControlStopped
  PROVE  Daemon!DaemonInv'
<1>1. DaemonParts
  BY DaemonPartsSplit
<1>2. Daemon!FlagTypes'
  BY <1>1 DEF Daemon!OpControlStopped, Daemon!Goto, Daemon!GiveUp, Daemon!ThenApply,
              Daemon!Running, Daemon!children, DaemonParts, Daemon!FlagTypes
<1>3. Daemon!PlaceTypes'
  BY <1>1 DEF Daemon!OpControlStopped, Daemon!Goto, Daemon!GiveUp, Daemon!ThenApply,
              Daemon!Running, Daemon!children, DaemonParts, Daemon!PlaceTypes, Daemon!Ops,
              Daemon!LockHeld, Daemon!Kinds, Daemon!Console, Daemon!NoOp
<1>4. Daemon!LockHeld'
  BY <1>1 DEF Daemon!OpControlStopped, Daemon!Goto, Daemon!GiveUp, Daemon!ThenApply,
              Daemon!Running, Daemon!children, DaemonParts, Daemon!PlaceTypes, Daemon!Ops,
              Daemon!Kinds, Daemon!Console, Daemon!NoOp, Daemon!LockHeld
<1>5. Daemon!GenerationsCounted'
  BY <1>1 DEF Daemon!BoundsAssumption, Daemon!OpControlStopped, Daemon!Goto, Daemon!GiveUp,
              Daemon!ThenApply, Daemon!Running, Daemon!children, DaemonParts, Daemon!PlaceTypes,
              Daemon!Ops, Daemon!LockHeld, Daemon!Generations, Daemon!Kinds, Daemon!Console,
              Daemon!NoOp, Daemon!GenerationsCounted
<1>6. Alarms' /\ Daemon!StopsExpected' /\ Daemon!HealthyOrPublished' /\ Daemon!ConflictStopping'
  BY <1>1 DEF Daemon!OpControlStopped, Daemon!Goto, Daemon!GiveUp, Daemon!ThenApply,
              Daemon!Running, Daemon!children, DaemonParts, Alarms, Daemon!StopsExpected,
              Daemon!HealthyOrPublished, Daemon!ConflictStopping
<1> QED
  BY <1>2, <1>3, <1>4, <1>5, <1>6, DaemonPartsSplit DEF DaemonParts

\* stopRelay marks a child that runs.
LEMMA StopRelayKeeps ==
  ASSUME Daemon!BoundsAssumption, Daemon!DaemonInv, Daemon!StopRelay
  PROVE  Daemon!DaemonInv'
<1>1. DaemonParts
  BY DaemonPartsSplit
<1>2. Daemon!FlagTypes'
  BY <1>1 DEF Daemon!StopRelay, Daemon!Marked, Daemon!Running, Daemon!Goto, Daemon!children,
              DaemonParts, Daemon!FlagTypes
<1>3. Daemon!PlaceTypes'
  BY <1>1 DEF Daemon!BoundsAssumption, Daemon!StopRelay, Daemon!Marked, Daemon!Running,
              Daemon!Goto, Daemon!children, DaemonParts, Daemon!PlaceTypes, Daemon!Ops,
              Daemon!LockHeld, Daemon!GenerationsCounted, Daemon!Generations, Daemon!Kinds,
              Daemon!Console, Daemon!NoOp
<1>4. Daemon!LockHeld'
  BY <1>1 DEF Daemon!StopRelay, Daemon!Marked, Daemon!Running, Daemon!Goto, Daemon!children,
              DaemonParts, Daemon!PlaceTypes, Daemon!Ops, Daemon!LockHeld
<1>5. Daemon!GenerationsCounted'
  BY <1>1 DEF Daemon!StopRelay, Daemon!Marked, Daemon!Running, Daemon!Goto, Daemon!children,
              DaemonParts, Daemon!LockHeld, Daemon!GenerationsCounted
<1>6. Daemon!StopsExpected'
  BY <1>1 DEF Daemon!StopRelay, Daemon!Marked, Daemon!Running, Daemon!Goto, Daemon!children,
              DaemonParts, Daemon!PlaceTypes, Daemon!Ops, Daemon!StopsExpected
<1>7. Daemon!HealthyOrPublished'
  BY <1>1 DEF Daemon!StopRelay, Daemon!Marked, Daemon!Running, Daemon!Goto, Daemon!children,
              DaemonParts, Daemon!PlaceTypes, Daemon!Ops, Daemon!HealthyOrPublished
<1>8. Daemon!ConflictStopping'
  BY <1>1 DEF Daemon!StopRelay, Daemon!Marked, Daemon!Running, Daemon!Goto, Daemon!children,
              DaemonParts, Daemon!PlaceTypes, Daemon!Ops, Daemon!ConflictStopping
<1>9. Alarms'
  BY <1>1 DEF Daemon!StopRelay, Daemon!Marked, Daemon!Running, Daemon!Goto, Daemon!children,
              DaemonParts, Alarms
<1> QED
  BY <1>2, <1>3, <1>4, <1>5, <1>6, <1>7, <1>8, <1>9, DaemonPartsSplit DEF DaemonParts

\* stopRelay returns.
LEMMA RelayStoppedKeeps ==
  ASSUME Daemon!BoundsAssumption, Daemon!DaemonInv, Daemon!RelayStopped
  PROVE  Daemon!DaemonInv'
<1>1. DaemonParts
  BY DaemonPartsSplit
<1>2. Daemon!FlagTypes'
  BY <1>1 DEF Daemon!RelayStopped, Daemon!HaltReturns, Daemon!StopOutcome, Daemon!Running,
              Daemon!OpFails, Daemon!Goto, Daemon!children, DaemonParts, Daemon!FlagTypes
<1>3. Daemon!PlaceTypes'
  BY <1>1 DEF Daemon!BoundsAssumption, Daemon!RelayStopped, Daemon!HaltReturns,
              Daemon!StopOutcome, Daemon!Running, Daemon!OpFails, Daemon!Goto, Daemon!children,
              DaemonParts, Daemon!PlaceTypes, Daemon!Ops, Daemon!LockHeld,
              Daemon!GenerationsCounted, Daemon!Generations, Daemon!Kinds, Daemon!Console,
              Daemon!NoOp
<1>4. Daemon!LockHeld'
  BY <1>1 DEF Daemon!RelayStopped, Daemon!HaltReturns, Daemon!StopOutcome, Daemon!Running,
              Daemon!OpFails, Daemon!Goto, Daemon!children, DaemonParts, Daemon!PlaceTypes,
              Daemon!Ops, Daemon!Kinds, Daemon!Console, Daemon!NoOp, Daemon!LockHeld
<1>5. Daemon!GenerationsCounted'
  BY <1>1 DEF Daemon!BoundsAssumption, Daemon!RelayStopped, Daemon!HaltReturns,
              Daemon!StopOutcome, Daemon!Running, Daemon!OpFails, Daemon!Goto, Daemon!children,
              DaemonParts, Daemon!PlaceTypes, Daemon!Ops, Daemon!LockHeld, Daemon!Generations,
              Daemon!Kinds, Daemon!Console, Daemon!NoOp, Daemon!GenerationsCounted
<1>6. Daemon!StopsExpected'
  BY <1>1 DEF Daemon!RelayStopped, Daemon!HaltReturns, Daemon!StopOutcome, Daemon!Running,
              Daemon!OpFails, Daemon!Goto, Daemon!children, DaemonParts, Daemon!PlaceTypes,
              Daemon!Ops, Daemon!StopsExpected
<1>7. Daemon!ConflictStopping'
  BY <1>1 DEF Daemon!RelayStopped, Daemon!HaltReturns, Daemon!StopOutcome, Daemon!Running,
              Daemon!OpFails, Daemon!Goto, Daemon!children, DaemonParts, Daemon!PlaceTypes,
              Daemon!Ops, Daemon!ConflictStopping
<1>8. Alarms' /\ Daemon!HealthyOrPublished'
  BY <1>1 DEF Daemon!RelayStopped, Daemon!HaltReturns, Daemon!StopOutcome, Daemon!Running,
              Daemon!OpFails, Daemon!Goto, Daemon!children, DaemonParts, Alarms,
              Daemon!HealthyOrPublished
<1> QED
  BY <1>2, <1>3, <1>4, <1>5, <1>6, <1>7, <1>8, DaemonPartsSplit DEF DaemonParts

\* Leave clears the registration.
LEMMA LeaveClearsKeeps ==
  ASSUME Daemon!BoundsAssumption, Daemon!DaemonInv, Daemon!LeaveClears
  PROVE  Daemon!DaemonInv'
<1>1. DaemonParts
  BY DaemonPartsSplit
<1>2. Daemon!FlagTypes'
  BY <1>1 DEF Daemon!LeaveClears, Daemon!ThenApply, Daemon!children, DaemonParts, Daemon!FlagTypes
<1>3. Daemon!PlaceTypes'
  <2>1. op' \in Daemon!Ops
    BY DEF Daemon!LeaveClears, Daemon!ThenApply, Daemon!Ops, Daemon!Kinds, Daemon!Console
  <2>2. UNCHANGED <<childGeneration, expected, lock, sync, halt, child, watched, start, ctl, shut,
                    reported, ops, faults>>
    BY DEF Daemon!LeaveClears, Daemon!children
  <2> QED
    BY <1>1, <2>1, <2>2 DEF DaemonParts, Daemon!PlaceTypes
<1>4. Daemon!LockHeld'
  <2>1. op.pc = "cleared" /\ UNCHANGED <<lock, sync, halt, start, ctl>>
    BY DEF Daemon!LeaveClears
  <2>2. op'.pc \in {"check", "none"} /\ op'.kind \in {"apply", "none"}
    BY DEF Daemon!LeaveClears, Daemon!ThenApply, Daemon!NoOp
  <2>3. start = "done" /\ lock # "op"
    BY <1>1, <2>1 DEF DaemonParts, Daemon!LockHeld, Daemon!Console
  <2> QED
    BY <1>1, <2>1, <2>2, <2>3 DEF DaemonParts, Daemon!LockHeld, Daemon!Console
<1>5. Daemon!GenerationsCounted'
  <2>1. /\ op.pc = "cleared"
        /\ UNCHANGED <<childGeneration, start, lock, sync, ops, child, nodeConflict, ctl>>
    BY DEF Daemon!LeaveClears, Daemon!children
  <2>2. op'.pc \in {"check", "none"}
    BY DEF Daemon!LeaveClears, Daemon!ThenApply, Daemon!NoOp
  <2>3. lock # "op" /\ childGeneration \in Nat /\ ops \in Nat
    BY <1>1, <2>1 DEF Daemon!BoundsAssumption, DaemonParts, Daemon!LockHeld, Daemon!PlaceTypes,
                      Daemon!Generations
  <2> QED
    BY <1>1, <2>1, <2>2, <2>3 DEF DaemonParts, Daemon!GenerationsCounted
<1>6. Alarms' /\ Daemon!StopsExpected' /\ Daemon!HealthyOrPublished' /\ Daemon!ConflictStopping'
  BY <1>1 DEF Daemon!LeaveClears, Daemon!ThenApply, Daemon!children, DaemonParts, Alarms,
              Daemon!StopsExpected, Daemon!HealthyOrPublished, Daemon!ConflictStopping
<1> QED
  BY <1>2, <1>3, <1>4, <1>5, <1>6, DaemonPartsSplit DEF DaemonParts

\* applyLocalConfig ends a conflict while no relay runs under it.
LEMMA ApplyPreparesKeeps ==
  ASSUME Daemon!BoundsAssumption, Daemon!DaemonInv, Daemon!ApplyPrepares
  PROVE  Daemon!DaemonInv'
<1>1. DaemonParts
  BY DaemonPartsSplit
<1>2. Daemon!FlagTypes'
  BY <1>1 DEF Daemon!ApplyPrepares, Daemon!OpFails, Daemon!Goto, Daemon!children, DaemonParts,
              Daemon!FlagTypes
<1>3. Daemon!PlaceTypes'
  BY <1>1 DEF Daemon!ApplyPrepares, Daemon!OpFails, Daemon!Goto, Daemon!children, DaemonParts,
              Daemon!PlaceTypes, Daemon!Ops, Daemon!NoOp
<1>4. Daemon!LockHeld'
  BY <1>1 DEF Daemon!ApplyPrepares, Daemon!OpFails, Daemon!Goto, Daemon!children, DaemonParts,
              Daemon!PlaceTypes, Daemon!Ops, Daemon!Kinds, Daemon!Console, Daemon!NoOp,
              Daemon!LockHeld
<1>5. Daemon!GenerationsCounted'
  BY <1>1 DEF Daemon!BoundsAssumption, Daemon!ApplyPrepares, Daemon!OpFails, Daemon!Goto,
              Daemon!children, DaemonParts, Daemon!PlaceTypes, Daemon!Ops, Daemon!LockHeld,
              Daemon!Generations, Daemon!Kinds, Daemon!Console, Daemon!NoOp,
              Daemon!GenerationsCounted
<1>6. Daemon!ConflictStopping'
  BY <1>1 DEF Daemon!ApplyPrepares, Daemon!OpFails, Daemon!Goto, Daemon!children, DaemonParts,
              Daemon!PlaceTypes, Daemon!Ops, Daemon!ConflictStopping
<1>7. Alarms' /\ Daemon!StopsExpected' /\ Daemon!HealthyOrPublished'
  BY <1>1 DEF Daemon!ApplyPrepares, Daemon!OpFails, Daemon!Goto, Daemon!children, DaemonParts,
              Alarms, Daemon!StopsExpected, Daemon!HealthyOrPublished
<1> QED
  BY <1>2, <1>3, <1>4, <1>5, <1>6, <1>7, DaemonPartsSplit DEF DaemonParts

\* The operation ends, and the control loop starts.
LEMMA OpFinishesKeeps ==
  ASSUME Daemon!DaemonInv, Daemon!OpFinishes
  PROVE  Daemon!DaemonInv'
<1>1. DaemonParts
  BY DaemonPartsSplit
<1>2. Daemon!FlagTypes'
  BY <1>1 DEF Daemon!OpFinishes, Daemon!OpFails, Daemon!GiveUp, Daemon!Running, Daemon!children,
              DaemonParts, Daemon!FlagTypes
<1>3. Daemon!PlaceTypes'
  <2>1. op' = Daemon!NoOp /\ ctl' \in {ctl, "run"}
    BY DEF Daemon!OpFinishes, Daemon!OpFails, Daemon!GiveUp
  <2>2. UNCHANGED <<childGeneration, expected, lock, sync, halt, child, watched, start, shut,
                    reported, ops, faults>>
    BY DEF Daemon!OpFinishes, Daemon!children
  <2> QED
    BY <1>1, <2>1, <2>2 DEF DaemonParts, Daemon!PlaceTypes, Daemon!Ops
<1>4. Daemon!LockHeld'
  <2>1. op' = Daemon!NoOp /\ ctl' \in {ctl, "run"}
    BY DEF Daemon!OpFinishes, Daemon!OpFails, Daemon!GiveUp
  <2>2. /\ op.pc = "finish" /\ op.kind \in {"apply", "register"}
        /\ UNCHANGED <<lock, sync, halt, start>>
    BY DEF Daemon!OpFinishes
  <2>3. start = "done" /\ ctl = "off" /\ lock # "ctl" /\ lock # "op"
    BY <1>1, <2>2 DEF DaemonParts, Daemon!LockHeld, Daemon!Console
  <2> QED
    BY <1>1, <2>1, <2>2, <2>3 DEF DaemonParts, Daemon!LockHeld, Daemon!NoOp, Daemon!Console
<1>5. Daemon!GenerationsCounted'
  <2>1. op' = Daemon!NoOp /\ ctl' \in {ctl, "run"}
    BY DEF Daemon!OpFinishes, Daemon!OpFails, Daemon!GiveUp
  <2>2. /\ op.pc = "finish"
        /\ UNCHANGED <<childGeneration, start, lock, sync, ops, child, nodeConflict>>
    BY DEF Daemon!OpFinishes, Daemon!children
  <2> QED
    BY <1>1, <2>1, <2>2 DEF DaemonParts, Daemon!GenerationsCounted, Daemon!NoOp
<1>6. Alarms' /\ Daemon!StopsExpected' /\ Daemon!HealthyOrPublished' /\ Daemon!ConflictStopping'
  BY <1>1 DEF Daemon!OpFinishes, Daemon!OpFails, Daemon!GiveUp, Daemon!Running, Daemon!children,
              DaemonParts, Alarms, Daemon!StopsExpected, Daemon!HealthyOrPublished,
              Daemon!ConflictStopping
<1> QED
  BY <1>2, <1>3, <1>4, <1>5, <1>6, DaemonPartsSplit DEF DaemonParts

\* Shutdown, until it waits for opMu.
LEMMA ShutdownBeginKeeps ==
  ASSUME Daemon!DaemonInv, Daemon!ShutdownBegin
  PROVE  Daemon!DaemonInv'
<1>1. DaemonParts
  BY DaemonPartsSplit
<1>2. Daemon!FlagTypes'
  BY <1>1 DEF Daemon!ShutdownBegin, Daemon!Shutdown, DaemonParts, Daemon!FlagTypes
<1>3. Daemon!PlaceTypes'
  BY <1>1 DEF Daemon!ShutdownBegin, Daemon!Shutdown, DaemonParts, Daemon!PlaceTypes
<1>4. Daemon!StopsExpected'
  BY <1>1 DEF Daemon!ShutdownBegin, Daemon!Shutdown, DaemonParts, Daemon!PlaceTypes,
              Daemon!StopsExpected
<1>5. Daemon!HealthyOrPublished'
  BY <1>1 DEF Daemon!ShutdownBegin, Daemon!Shutdown, DaemonParts, Daemon!PlaceTypes,
              Daemon!HealthyOrPublished
<1>6. Alarms' /\ Daemon!LockHeld' /\ Daemon!GenerationsCounted' /\ Daemon!ConflictStopping'
  BY <1>1 DEF Daemon!ShutdownBegin, Daemon!Shutdown, DaemonParts, Alarms, Daemon!LockHeld,
              Daemon!GenerationsCounted, Daemon!ConflictStopping
<1> QED
  BY <1>2, <1>3, <1>4, <1>5, <1>6, DaemonPartsSplit DEF DaemonParts

\* Process.Stop without derperMu.
LEMMA ShutdownStopsKeeps ==
  ASSUME Daemon!DaemonInv, Daemon!ShutdownStops
  PROVE  Daemon!DaemonInv'
<1>1. DaemonParts
  BY DaemonPartsSplit
<1>2. Daemon!FlagTypes'
  BY <1>1 DEF Daemon!ShutdownStops, Daemon!Signalled, Daemon!Shutdown, DaemonParts,
              Daemon!FlagTypes
<1>3. Daemon!PlaceTypes'
  <2>1. child' \in Daemon!ChildTables
    BY <1>1 DEF Daemon!ShutdownStops, Daemon!Signalled, DaemonParts, Daemon!PlaceTypes,
                Daemon!ChildTables
  <2>2. /\ shut' = "wait"
        /\ UNCHANGED <<childGeneration, expected, lock, sync, halt, watched, start, op, ctl>>
        /\ UNCHANGED <<reported, ops, faults>>
    BY DEF Daemon!ShutdownStops, Daemon!Shutdown
  <2> QED
    BY <1>1, <2>1, <2>2 DEF DaemonParts, Daemon!PlaceTypes
<1>4. Alarms'
  BY <1>1 DEF Daemon!ShutdownStops, Daemon!Signalled, Daemon!Shutdown, DaemonParts,
              Daemon!PlaceTypes, Daemon!ChildTables, Alarms
<1>5. Daemon!GenerationsCounted'
  BY <1>1 DEF Daemon!ShutdownStops, Daemon!Signalled, Daemon!Shutdown, DaemonParts,
              Daemon!PlaceTypes, Daemon!ChildTables, Daemon!GenerationsCounted
<1>6. Daemon!StopsExpected'
  BY <1>1 DEF Daemon!ShutdownStops, Daemon!Signalled, Daemon!Shutdown, DaemonParts,
              Daemon!PlaceTypes, Daemon!ChildTables, Daemon!StopsExpected
<1>7. Daemon!ConflictStopping'
  BY <1>1 DEF Daemon!ShutdownStops, Daemon!Signalled, Daemon!Shutdown, DaemonParts,
              Daemon!PlaceTypes, Daemon!ChildTables, Daemon!ConflictStopping
<1>8. Daemon!LockHeld' /\ Daemon!HealthyOrPublished'
  BY <1>1 DEF Daemon!ShutdownStops, Daemon!Signalled, Daemon!Shutdown, DaemonParts,
              Daemon!LockHeld, Daemon!HealthyOrPublished
<1> QED
  BY <1>2, <1>3, <1>4, <1>5, <1>6, <1>7, <1>8, DaemonPartsSplit DEF DaemonParts

\* Before Start there is no child.
LEMMA DaemonInitInv ==
  ASSUME Daemon!BoundsAssumption
  PROVE  Daemon!Init => Daemon!DaemonInv
<1> SUFFICES ASSUME Daemon!Init PROVE Daemon!DaemonInv
  OBVIOUS
<1>1. Daemon!FlagTypes
  BY DEF Daemon!Init, Daemon!FlagTypes
<1>2. Daemon!PlaceTypes
  <2>1. child \in Daemon!ChildTables /\ op \in Daemon!Ops
    BY DEF Daemon!Init, Daemon!ChildTables, Daemon!Ops
  <2>2. /\ childGeneration \in Daemon!Generations \cup {0}
        /\ ops \in 0..MaxOps /\ faults \in 0..MaxFaults
        /\ expected = {} /\ watched = {} /\ reported = {}
    BY DEF Daemon!BoundsAssumption, Daemon!Init
  <2> QED
    BY <2>1, <2>2 DEF Daemon!Init, Daemon!PlaceTypes
<1>3. Alarms /\ Daemon!LockHeld /\ Daemon!HealthyOrPublished /\ Daemon!ConflictStopping
  BY DEF Daemon!Init, Alarms, Daemon!LockHeld, Daemon!HealthyOrPublished, Daemon!ConflictStopping,
         Daemon!NoOp, Daemon!Console
<1>4. Daemon!GenerationsCounted
  BY DEF Daemon!Init, Daemon!GenerationsCounted, Daemon!NoOp
<1>5. Daemon!StopsExpected
  BY DEF Daemon!Init, Daemon!StopsExpected
<1> QED
  BY <1>1, <1>2, <1>3, <1>4, <1>5, DaemonPartsSplit DEF DaemonParts

\* Every step keeps the invariant.
LEMMA DaemonNextInv ==
  ASSUME Daemon!BoundsAssumption
  PROVE  Daemon!DaemonInv /\ [Daemon!Next]_(Daemon!vars) => Daemon!DaemonInv'
<1> SUFFICES ASSUME Daemon!DaemonInv, [Daemon!Next]_(Daemon!vars) PROVE Daemon!DaemonInv'
  OBVIOUS
<1>1. CASE Daemon!SyncSteps
  BY <1>1, SpawnKeeps, WaitReadyKeeps, PublishRunningKeeps, PublishCommitKeeps, WatchKeeps,
     CleanedUpKeeps DEF Daemon!SyncSteps
<1>2. CASE Daemon!StartSteps
  BY <1>2, StartBeginKeeps, SyncBeginKeeps, StartEndsKeeps DEF Daemon!StartSteps
<1>3. CASE Daemon!OpSteps
  BY <1>3, ApplyChecksKeeps, OpControlStoppedKeeps, StopRelayKeeps, RelayStoppedKeeps,
     LeaveClearsKeeps, ApplyPreparesKeeps, SyncBeginKeeps, OpFinishesKeeps DEF Daemon!OpSteps
<1>4. CASE Daemon!ControlReturns \/ Daemon!CancelControl \/ Daemon!ControlSteps
  BY <1>4, ControlReturnsKeeps, CancelControlKeeps, ConflictStopKeeps, ConflictStoppedKeeps
     DEF Daemon!ControlSteps
<1>5. CASE Daemon!ShutdownBegin \/ Daemon!ShutdownSteps
  <2>1. faults \in 0..MaxFaults
    BY DEF Daemon!DaemonInv, Daemon!NoFalseAlarm, Daemon!TypeOK, Daemon!PlaceTypes
  <2>2. CASE Daemon!ShutdownLocks
    BY <2>1, <2>2, ShutdownPasses DEF Daemon!ShutdownLocks
  <2>3. CASE Daemon!ShutdownControlStopped
    BY <2>1, <2>3, ShutdownPasses DEF Daemon!ShutdownControlStopped
  <2>4. CASE Daemon!ShutdownStopped
    <3>1. faults' \in 0..MaxFaults
      BY <2>1, <2>4 DEF Daemon!BoundsAssumption, Daemon!ShutdownStopped, Daemon!StopOutcome
    <3> QED
      BY <2>4, <3>1, ShutdownPasses DEF Daemon!ShutdownStopped
  <2>5. CASE Daemon!ShutdownEnd
    BY <2>1, <2>5, ShutdownPasses DEF Daemon!ShutdownEnd
  <2> QED
    BY <1>5, <2>2, <2>3, <2>4, <2>5, ShutdownBeginKeeps, ShutdownStopsKeeps
       DEF Daemon!ShutdownSteps
<1>6. CASE UNCHANGED Daemon!vars
  <2>1. DaemonParts
    BY DaemonPartsSplit
  <2>2. Daemon!FlagTypes' /\ Alarms'
    BY <1>6, <2>1 DEF Daemon!vars, DaemonParts, Daemon!FlagTypes, Alarms
  <2>3. Daemon!PlaceTypes'
    BY <1>6, <2>1, SamePlaces DEF Daemon!vars, DaemonParts
  <2>4. Daemon!LockHeld' /\ Daemon!GenerationsCounted'
    BY <1>6, <2>1 DEF Daemon!vars, DaemonParts, Daemon!LockHeld, Daemon!GenerationsCounted
  <2>5. Daemon!StopsExpected' /\ Daemon!HealthyOrPublished' /\ Daemon!ConflictStopping'
    BY <1>6, <2>1 DEF Daemon!vars, DaemonParts, Daemon!StopsExpected, Daemon!HealthyOrPublished,
                      Daemon!ConflictStopping
  <2> QED
    BY <2>2, <2>3, <2>4, <2>5, DaemonPartsSplit DEF DaemonParts
<1> QED
  BY <1>1, <1>2, <1>3, <1>4, <1>5, <1>6, ChildExitsKeeps, HaltKeeps, MonitorKeeps, OpBeginKeeps
     DEF Daemon!Next

\* The daemon's invariant, for any number of operations and faults.
THEOREM DaemonInvariant == Daemon!BoundsAssumption => (Daemon!Spec => []Daemon!DaemonInv)
<1> SUFFICES ASSUME Daemon!BoundsAssumption PROVE Daemon!Spec => []Daemon!DaemonInv
  OBVIOUS
<1>1. Daemon!Init => Daemon!DaemonInv
  BY DaemonInitInv
<1>2. Daemon!DaemonInv /\ [Daemon!Next]_(Daemon!vars) => Daemon!DaemonInv'
  BY DaemonNextInv
<1> QED
  BY <1>1, <1>2, PTL DEF Daemon!Spec

\* monitorDerper reports no child as failed that somebody had asked to stop.
THEOREM AlarmsTrue == Daemon!BoundsAssumption => (Daemon!Spec => []Daemon!NoFalseAlarm)
<1>1. Daemon!DaemonInv => Daemon!NoFalseAlarm
  BY DEF Daemon!DaemonInv
<1> QED
  BY <1>1, DaemonInvariant, PTL

\* A relay shown as healthy has a monitor, and Shutdown has not begun.
THEOREM HealthyWatched == Daemon!BoundsAssumption => (Daemon!Spec => []Daemon!HealthyIsWatched)
<1>1. Daemon!DaemonInv => Daemon!HealthyIsWatched
  BY DEF Daemon!DaemonInv, Daemon!HealthyOrPublished, Daemon!HealthyIsWatched, Daemon!LockHeld
<1> QED
  BY <1>1, DaemonInvariant, PTL

\* After an identity conflict no relay serves until settings are applied anew.
THEOREM ConflictStops == Daemon!BoundsAssumption => (Daemon!Spec => []Daemon!ConflictStopsRelay)
<1>1. Daemon!DaemonInv => Daemon!ConflictStopsRelay
  BY DEF Daemon!DaemonInv, Daemon!ConflictStopping, Daemon!ConflictStopsRelay
<1> QED
  BY <1>1, DaemonInvariant, PTL

=============================================================================
