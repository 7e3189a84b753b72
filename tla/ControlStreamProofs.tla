------------------------ MODULE ControlStreamProofs ------------------------
(***************************************************************************)
(* Proofs about ControlStream, for any number of requests, sessions,       *)
(* revisions and pending calls.  StreamInv is inductive: the lemmas below  *)
(* take its conjuncts one after the other through every step.              *)
(***************************************************************************)
EXTENDS ControlStream, TLAPS

\* The first session of an enrolled node, and no stream.
LEMMA InitInv == Init => StreamInv
BY BoundsAssumption
   DEF Init, StreamInv, TypeOK, Rows, Table, RegisteredUnlessStopped, StoppedWriteFails, Fresh,
       Forward, Ended, Policies, NoPolicy, Ping, Places, Streams, Tokens, Never, Outside, Sending

\* A transaction leaves one more call to make.
LEMMA CallTypes ==
  ASSUME TypeOK, ThenNotify \/ ThenClose
  PROVE  notifies' \in 0..MaxPending /\ closes' \in 0..MaxPending /\ notifies' + closes' > 0
BY BoundsAssumption DEF TypeOK, ThenNotify, ThenClose

\* What buildPolicy may write.
LEMMA PolicyTypes ==
  ASSUME TypeOK, CanRevise, NEW grants \in BOOLEAN
  PROVE  /\ policy \in Policies
         /\ [rev |-> policy.rev + 1, grants |-> grants] \in Policies
         /\ Rebuilt(grants) \in Policies
         /\ NoPolicy \notin Policies
BY BoundsAssumption DEF TypeOK, CanRevise, Rebuilt, Policies, NoPolicy

\* The mark of a session that ends.
LEMMA EndTypes ==
  ASSUME TypeOK, Rows, EndSession
  PROVE  /\ session' = 0
         /\ endRev' \in [Tokens -> 1..Never]
         /\ \A t \in Tokens : t > minted => endRev'[t] = Never
<1>1. session # 0 => policy.rev \in 1..Never
  BY BoundsAssumption DEF TypeOK, Rows, Policies, NoPolicy, Never
<1> QED
  BY <1>1, BoundsAssumption DEF TypeOK, Rows, EndSession, Tokens, Never

\* The types.
LEMMA TypeStep ==
  ASSUME StreamInv, [Next]_vars
  PROVE  TypeOK'
<1>1. ASSUME NEW grants \in BOOLEAN, ChangePolicy(grants) PROVE TypeOK'
  BY <1>1, CallTypes, PolicyTypes, BoundsAssumption
       DEF ChangePolicy, StreamInv, TypeOK, db, calls, table, handler
<1>2. ASSUME KeepPolicy PROVE TypeOK'
  BY <1>2, CallTypes, BoundsAssumption DEF KeepPolicy, StreamInv, TypeOK, db, calls, table,
       handler
<1>3. ASSUME NEW enabled \in BOOLEAN, NEW grants \in BOOLEAN, SetOwnerEnabled(enabled, grants)
      PROVE  TypeOK'
  BY <1>3, CallTypes, PolicyTypes, BoundsAssumption
       DEF SetOwnerEnabled, StreamInv, TypeOK, db, calls, table, handler
<1>4. ASSUME IdentityConflict PROVE TypeOK'
  <2>1. session' \in 0..MaxSessions /\ endRev' \in [Tokens -> 1..Never]
    BY <1>4, EndTypes, BoundsAssumption DEF IdentityConflict, StreamInv
  <2>2. notifies' \in 0..MaxPending /\ closes' \in 0..MaxPending
    BY <1>4, CallTypes DEF IdentityConflict, StreamInv
  <2>3. policy' \in Policies \cup {NoPolicy}
    BY <1>4, PolicyTypes DEF IdentityConflict, StreamInv, TypeOK
  <2> QED
    BY <1>4, <2>1, <2>2, <2>3 DEF IdentityConflict, StreamInv, TypeOK, db, calls, table, handler
<1>5. ASSUME NEW grants \in BOOLEAN, RecoverNodeInstance(grants) PROVE TypeOK'
  <2>1. session' \in 0..MaxSessions /\ endRev' \in [Tokens -> 1..Never]
    BY <1>5, EndTypes, BoundsAssumption DEF RecoverNodeInstance, StreamInv
  <2>2. notifies' \in 0..MaxPending /\ closes' \in 0..MaxPending
    BY <1>5, CallTypes DEF RecoverNodeInstance, StreamInv
  <2>3. policy' \in Policies \cup {NoPolicy}
    BY <1>5, PolicyTypes DEF RecoverNodeInstance, StreamInv, TypeOK
  <2> QED
    BY <1>5, <2>1, <2>2, <2>3 DEF RecoverNodeInstance, StreamInv, TypeOK, db, calls, table,
         handler
<1>6. ASSUME MintSession PROVE TypeOK'
  BY <1>6, BoundsAssumption DEF MintSession, StreamInv, TypeOK, Rows, Policies, NoPolicy,
       Tokens, Never, db, calls, table, handler
<1>7. ASSUME ExpireSession PROVE TypeOK'
  <2>1. session' = 0 /\ endRev' \in [Tokens -> 1..Never]
    BY <1>7, EndTypes DEF ExpireSession, StreamInv
  <2> QED
    BY <1>7, <2>1, BoundsAssumption DEF ExpireSession, StreamInv, TypeOK, db, calls, table,
         handler
<1>8. ASSUME ReleaseNode PROVE TypeOK'
  <2>1. session' \in 0..MaxSessions /\ endRev' \in [Tokens -> 1..Never]
    BY <1>8, EndTypes, BoundsAssumption DEF ReleaseNode, StreamInv
  <2>2. notifies' \in 0..MaxPending /\ closes' \in 0..MaxPending
    BY <1>8, CallTypes DEF ReleaseNode, StreamInv
  <2>3. policy' \in Policies \cup {NoPolicy}
    BY <1>8, PolicyTypes DEF ReleaseNode, StreamInv, TypeOK
  <2> QED
    BY <1>8, <2>1, <2>2, <2>3 DEF ReleaseNode, StreamInv, TypeOK, db, calls, table, handler
<1>9. ASSUME ChangeNodeDomain PROVE TypeOK'
  <2>1. session' \in 0..MaxSessions /\ endRev' \in [Tokens -> 1..Never]
    BY <1>9, EndTypes, BoundsAssumption DEF ChangeNodeDomain, StreamInv
  <2>2. notifies' \in 0..MaxPending /\ closes' \in 0..MaxPending
    BY <1>9, CallTypes DEF ChangeNodeDomain, StreamInv
  <2>3. policy' \in Policies \cup {NoPolicy}
    BY <1>9, PolicyTypes DEF ChangeNodeDomain, StreamInv, TypeOK
  <2> QED
    BY <1>9, <2>1, <2>2, <2>3 DEF ChangeNodeDomain, StreamInv, TypeOK, db, calls, table, handler
<1>10. ASSUME DeleteNode PROVE TypeOK'
  <2>1. session' \in 0..MaxSessions /\ endRev' \in [Tokens -> 1..Never]
    BY <1>10, EndTypes, BoundsAssumption DEF DeleteNode, StreamInv
  <2>2. notifies' \in 0..MaxPending /\ closes' \in 0..MaxPending
    BY <1>10, CallTypes DEF DeleteNode, StreamInv
  <2>3. policy' \in Policies \cup {NoPolicy}
    BY <1>10, PolicyTypes DEF DeleteNode, StreamInv, TypeOK
  <2> QED
    BY <1>10, <2>1, <2>2, <2>3 DEF DeleteNode, StreamInv, TypeOK, db, calls, table, handler
<1>11. ASSUME NotifyPolicy PROVE TypeOK'
  <2>1. changed' \in [Streams -> BOOLEAN] /\ notifies' \in 0..MaxPending
    BY <1>11, BoundsAssumption DEF NotifyPolicy, StreamInv, TypeOK, Streams
  <2> QED
    BY <1>11, <2>1 DEF NotifyPolicy, StreamInv, TypeOK, db, calls, table, handler
<1>12. ASSUME CloseNodeStream PROVE TypeOK'
  <2>1. done' \in [Streams -> BOOLEAN] /\ stopping' \in 0..MaxStreams /\ closes' \in 0..MaxPending
    BY <1>12, BoundsAssumption DEF CloseNodeStream, Stop, StreamInv, TypeOK, Streams
  <2> QED
    BY <1>12, <2>1, BoundsAssumption DEF CloseNodeStream, StreamInv, TypeOK, db, calls, table,
         handler
<1>13. ASSUME ExpireDeadline PROVE TypeOK'
  <2>1. deadline' \in [Streams -> {"none", "future", "past"}] /\ stopping' = 0
    BY <1>13 DEF ExpireDeadline, StreamInv, TypeOK, Streams
  <2> QED
    BY <1>13, <2>1, BoundsAssumption DEF ExpireDeadline, StreamInv, TypeOK, db, calls, table,
         handler
<1>14. ASSUME NEW i \in Streams, NEW t \in Tokens, Open(i, t) PROVE TypeOK'
  <2>1. pc' \in [Streams -> Places] /\ deadline' \in [Streams -> {"none", "future", "past"}]
    BY <1>14 DEF Open, Goto, Places, StreamInv, TypeOK
  <2>2. token' \in [Streams -> 0..MaxSessions]
    BY <1>14, BoundsAssumption DEF Open, StreamInv, TypeOK, Tokens
  <2> QED
    BY <1>14, <2>1, <2>2 DEF Open, StreamInv, TypeOK, db, calls, table
<1>15. ASSUME NEW i \in Streams, Register(i) PROVE TypeOK'
  <2>1. done' \in [Streams -> BOOLEAN] /\ stopping' \in 0..MaxStreams /\ current' \in 0..MaxStreams
    BY <1>15 DEF Register, Stop, StreamInv, TypeOK, Streams
  <2>2. pc' \in [Streams -> Places]
    BY <1>15 DEF Register, Goto, Places, StreamInv, TypeOK
  <2> QED
    BY <1>15, <2>1, <2>2 DEF Register, StreamInv, TypeOK, db, calls, table, handler
<1>16. ASSUME NEW i \in Streams, NEW applied \in 0..MaxRevision, ReadPolicy(i, applied)
      PROVE  TypeOK'
  BY <1>16, BoundsAssumption DEF ReadPolicy, StreamInv, TypeOK, Policies, NoPolicy, Streams,
       Tokens, Places, Goto, db, calls, table, handler
<1>17. ASSUME NEW i \in Streams, AuthAgain(i) PROVE TypeOK'
  BY <1>17, BoundsAssumption DEF AuthAgain, StreamInv, TypeOK, Policies, NoPolicy, Streams,
       Tokens, Places, Goto, db, calls, table, handler
<1>18. ASSUME NEW i \in Streams, BeginWrite(i) PROVE TypeOK'
  BY <1>18, BoundsAssumption DEF BeginWrite, StreamInv, TypeOK, Policies, NoPolicy, Streams,
       Tokens, Places, Goto, db, calls, table, handler
<1>19. ASSUME NEW i \in Streams, SetDeadline(i) PROVE TypeOK'
  BY <1>19, BoundsAssumption DEF SetDeadline, StreamInv, TypeOK, Policies, NoPolicy, Streams,
       Tokens, Places, Goto, db, calls, table, handler
<1>20. ASSUME NEW i \in Streams, CheckDone(i) PROVE TypeOK'
  <2>1. pc' \in [Streams -> Places] /\ deadline' \in [Streams -> {"none", "future", "past"}]
    BY <1>20 DEF CheckDone, Goto, Places, StreamInv, TypeOK
  <2> QED
    BY <1>20, <2>1 DEF CheckDone, StreamInv, TypeOK, db, calls, table
<1>21. ASSUME NEW i \in Streams, WriteOut(i) PROVE TypeOK'
  BY <1>21, BoundsAssumption DEF WriteOut, StreamInv, TypeOK, Policies, NoPolicy, Streams,
       Tokens, Places, Goto, db, calls, table, handler
<1>22. ASSUME NEW i \in Streams, WriteFails(i) PROVE TypeOK'
  BY <1>22, BoundsAssumption DEF WriteFails, StreamInv, TypeOK, Policies, NoPolicy, Streams,
       Tokens, Places, Goto, db, calls, table, handler
<1>23. ASSUME NEW i \in Streams, EndWrite(i) PROVE TypeOK'
  <2>1. pc' \in [Streams -> Places] /\ deadline' \in [Streams -> {"none", "future", "past"}]
    BY <1>23 DEF EndWrite, Goto, Places, StreamInv, TypeOK
  <2>2. last' \in [Streams -> 0..MaxRevision]
    BY <1>23, BoundsAssumption DEF EndWrite, Policies, NoPolicy, StreamInv, TypeOK
  <2>3. msg' \in [Streams -> Policies \cup {NoPolicy}]
    BY <1>23 DEF EndWrite, StreamInv, TypeOK
  <2> QED
    BY <1>23, <2>1, <2>2, <2>3 DEF EndWrite, StreamInv, TypeOK, db, calls, table, handler
<1>24. ASSUME NEW i \in Streams, Wake(i) PROVE TypeOK'
  BY <1>24, BoundsAssumption DEF Wake, StreamInv, TypeOK, Policies, NoPolicy, Streams, Tokens,
       Places, Goto, db, calls, table, handler
<1>25. ASSUME NEW i \in Streams, Tick(i) PROVE TypeOK'
  BY <1>25, BoundsAssumption DEF Tick, StreamInv, TypeOK, Policies, NoPolicy, Streams, Tokens,
       Places, Goto, db, calls, table, handler, Ping
<1>26. ASSUME NEW i \in Streams, Stopped(i) PROVE TypeOK'
  BY <1>26, BoundsAssumption DEF Stopped, StreamInv, TypeOK, Policies, NoPolicy, Streams,
       Tokens, Places, Goto, db, calls, table, handler
<1>27. ASSUME NEW i \in Streams, ClientGone(i) PROVE TypeOK'
  BY <1>27, BoundsAssumption DEF ClientGone, StreamInv, TypeOK, Policies, NoPolicy, Streams,
       Tokens, Places, Goto, db, calls, table, handler
<1>28. ASSUME NEW i \in Streams, ReadChanged(i) PROVE TypeOK'
  BY <1>28, BoundsAssumption DEF ReadChanged, StreamInv, TypeOK, Policies, NoPolicy, Streams,
       Tokens, Places, Goto, db, calls, table, handler
<1>29. ASSUME NEW i \in Streams, CheckSession(i) PROVE TypeOK'
  BY <1>29, BoundsAssumption DEF CheckSession, StreamInv, TypeOK, Policies, NoPolicy, Streams,
       Tokens, Places, Goto, db, calls, table, handler
<1>30. ASSUME NEW i \in Streams, Exit(i) PROVE TypeOK'
  <2>1. /\ pc' \in [Streams -> Places]
        /\ changed' \in [Streams -> BOOLEAN]
        /\ done' \in [Streams -> BOOLEAN]
        /\ leaving' \in [Streams -> BOOLEAN]
        /\ deadline' \in [Streams -> {"none", "future", "past"}]
    BY <1>30 DEF Exit, Goto, Places, StreamInv, TypeOK
  <2>2. /\ msg' \in [Streams -> Policies \cup {NoPolicy}]
        /\ last' \in [Streams -> 0..MaxRevision]
        /\ token' \in [Streams -> 0..MaxSessions]
        /\ current' \in 0..MaxStreams
    BY <1>30, BoundsAssumption DEF Exit, StreamInv, TypeOK
  <2> QED
    BY <1>30, <2>1, <2>2 DEF Exit, StreamInv, TypeOK, db, calls, table, handler
<1>31. CASE UNCHANGED vars
  BY <1>31 DEF vars, StreamInv, TypeOK
<1> QED
  BY <1>1, <1>2, <1>3, <1>4, <1>5, <1>6, <1>7, <1>8, <1>9, <1>10, <1>11, <1>12, <1>13, <1>14,
       <1>15, <1>16, <1>17, <1>18, <1>19, <1>20, <1>21, <1>22, <1>23, <1>24, <1>25, <1>26,
       <1>27, <1>28, <1>29, <1>30, <1>31
     DEF Next, Transaction, Proceed, Write

\* The steps that do not belong to a transaction leave the rows alone.
LEMMA RowsFrame ==
  ASSUME Next
  PROVE  Transaction \/ UNCHANGED db
<1>1. NotifyPolicy \/ CloseNodeStream \/ ExpireDeadline => UNCHANGED db
  BY DEF NotifyPolicy, CloseNodeStream, ExpireDeadline
<1>2. ASSUME NEW i \in Streams
      PROVE  (\E t \in Tokens : Open(i, t)) \/ Wake(i) \/ Tick(i) \/ Stopped(i) \/ ClientGone(i)
               => UNCHANGED db
  BY DEF Open, Wake, Tick, Stopped, ClientGone
<1>3. ASSUME NEW i \in Streams
      PROVE  Register(i) \/ (\E applied \in 0..MaxRevision : ReadPolicy(i, applied)) \/ AuthAgain(i)
               \/ ReadChanged(i) \/ CheckSession(i) \/ Exit(i) => UNCHANGED db
  BY DEF Register, ReadPolicy, AuthAgain, ReadChanged, CheckSession, Exit
<1>4. ASSUME NEW i \in Streams
      PROVE  BeginWrite(i) \/ SetDeadline(i) \/ CheckDone(i) \/ Write(i) \/ EndWrite(i)
               => UNCHANGED db
  BY DEF BeginWrite, SetDeadline, CheckDone, Write, WriteOut, WriteFails, EndWrite
<1> QED
  BY <1>1, <1>2, <1>3, <1>4 DEF Next, Proceed

\* A transaction leaves the streams alone, and a new policy has its call still to come.
LEMMA StreamsFrame ==
  ASSUME TypeOK, Transaction
  PROVE  /\ UNCHANGED <<table, handler>>
         /\ (policy' = policy /\ UNCHANGED calls) \/ notifies' + closes' > 0
<1>1. ASSUME ThenNotify \/ ThenClose PROVE notifies' + closes' > 0
  BY <1>1, CallTypes
<1> QED
  BY <1>1 DEF Transaction, ChangePolicy, KeepPolicy, SetOwnerEnabled, IdentityConflict,
       RecoverNodeInstance,
       MintSession, ExpireSession, ReleaseNode, ChangeNodeDomain, DeleteNode, db, calls, table, handler

\* The policy only goes forward, until the node is deleted.
LEMMA PolicyForward ==
  ASSUME TypeOK, Rows, Next
  PROVE  policy' # NoPolicy => policy # NoPolicy /\ policy'.rev >= policy.rev
<1>1. CASE UNCHANGED db
  BY <1>1 DEF db, TypeOK, Policies, NoPolicy
<1>2. CASE Transaction
  <2> USE DEF CanRevise, Rebuilt, Policies, NoPolicy, TypeOK, db
  <2>1. CASE (\E grants \in BOOLEAN : ChangePolicy(grants)) \/ KeepPolicy
    BY <2>1 DEF ChangePolicy, KeepPolicy
  <2>2. CASE \E enabled, grants \in BOOLEAN : SetOwnerEnabled(enabled, grants)
    BY <2>2 DEF SetOwnerEnabled
  <2>3. CASE IdentityConflict \/ \E grants \in BOOLEAN : RecoverNodeInstance(grants)
    BY <2>3 DEF IdentityConflict, RecoverNodeInstance
  <2>4. CASE MintSession \/ ExpireSession \/ ChangeNodeDomain
    BY <2>4 DEF MintSession, ExpireSession, ChangeNodeDomain
  <2>5. CASE ReleaseNode \/ DeleteNode
    BY <2>5 DEF ReleaseNode, DeleteNode
  <2> QED
    BY <1>2, <2>1, <2>2, <2>3, <2>4, <2>5 DEF Transaction
<1> QED
  BY <1>1, <1>2, RowsFrame

\* The rows of the node, its policy and its sessions go together.
LEMMA RowsStep ==
  ASSUME StreamInv, [Next]_vars
  PROVE  Rows'
<1> USE DEF StreamInv
<1>1. CASE UNCHANGED db \/ UNCHANGED vars
  BY <1>1 DEF db, vars, Rows
<1>2. ASSUME NEW grants \in BOOLEAN, ChangePolicy(grants) PROVE Rows'
  BY <1>2, PolicyTypes DEF ChangePolicy, Rows, CanRevise
<1>3. CASE KeepPolicy
  BY <1>3 DEF KeepPolicy, Rows, db
<1>4. ASSUME NEW enabled \in BOOLEAN, NEW grants \in BOOLEAN, SetOwnerEnabled(enabled, grants)
      PROVE  Rows'
  BY <1>4, PolicyTypes DEF SetOwnerEnabled, Rows, CanRevise
<1>5. CASE IdentityConflict
  <2>1. session' = 0 /\ \A t \in Tokens : t > minted => endRev'[t] = Never
    BY <1>5, EndTypes DEF IdentityConflict
  <2>2. policy' # NoPolicy
    BY <1>5, PolicyTypes DEF IdentityConflict
  <2>3. nodeState' = "identity_conflict" /\ minted' = minted
    BY <1>5 DEF IdentityConflict
  <2> QED
    BY <2>1, <2>2, <2>3 DEF Rows, TypeOK, Tokens
<1>6. ASSUME NEW grants \in BOOLEAN, RecoverNodeInstance(grants) PROVE Rows'
  <2>1. session' = 0 /\ \A t \in Tokens : t > minted => endRev'[t] = Never
    BY <1>6, EndTypes DEF RecoverNodeInstance
  <2>2. policy' # NoPolicy
    BY <1>6, PolicyTypes DEF RecoverNodeInstance
  <2> QED
    BY <1>6, <2>1, <2>2 DEF RecoverNodeInstance, Rows, TypeOK, Tokens
<1>7. CASE MintSession
  BY <1>7, BoundsAssumption DEF MintSession, Rows, TypeOK, Tokens
<1>8. CASE ExpireSession
  BY <1>8, EndTypes DEF ExpireSession, Rows, TypeOK, Tokens
<1>9. CASE ReleaseNode
  <2>1. session' = 0 /\ \A t \in Tokens : t > minted => endRev'[t] = Never
    BY <1>9, EndTypes DEF ReleaseNode
  <2>2. policy' # NoPolicy
    BY <1>9, PolicyTypes DEF ReleaseNode
  <2> QED
    BY <1>9, <2>1, <2>2 DEF ReleaseNode, Rows, TypeOK, Tokens
<1>10. CASE ChangeNodeDomain
  BY <1>10, EndTypes DEF ChangeNodeDomain, Rows, TypeOK, Tokens
<1>11. CASE DeleteNode
  BY <1>11, EndTypes DEF DeleteNode, Rows, TypeOK, Tokens
<1> QED
  BY <1>1, <1>2, <1>3, <1>4, <1>5, <1>6, <1>7, <1>8, <1>9, <1>10, <1>11, RowsFrame DEF Transaction

\* The table holds the stream that nobody has stopped, and a stop reaches the write.
LEMMA TableStep ==
  ASSUME StreamInv, [Next]_vars
  PROVE  Table' /\ StoppedWriteFails'
<1> USE DEF StreamInv, Table, RegisteredUnlessStopped, StoppedWriteFails, Outside
<1>1. CASE Transaction \/ UNCHANGED vars
  BY <1>1, StreamsFrame DEF vars, table, handler
<1>2. CASE NotifyPolicy
  BY <1>2 DEF NotifyPolicy, table
<1>3. CASE CloseNodeStream
  BY <1>3 DEF CloseNodeStream, Stop, TypeOK, Streams
<1>4. CASE ExpireDeadline
  BY <1>4 DEF ExpireDeadline, TypeOK, Streams
<1>5. ASSUME NEW i \in Streams, NEW t \in Tokens, Open(i, t) PROVE Table' /\ StoppedWriteFails'
  BY <1>5 DEF Open, Goto, TypeOK, table
<1>6. ASSUME NEW i \in Streams, Register(i) PROVE Table' /\ StoppedWriteFails'
  BY <1>6 DEF Register, Stop, Goto, TypeOK, Streams
<1>7. ASSUME NEW i \in Streams, CheckDone(i) PROVE Table' /\ StoppedWriteFails'
  BY <1>7 DEF CheckDone, Goto, TypeOK, table
<1>8. ASSUME NEW i \in Streams, EndWrite(i) PROVE Table' /\ StoppedWriteFails'
  BY <1>8 DEF EndWrite, Goto, TypeOK, table
<1>9. ASSUME NEW i \in Streams, Exit(i) PROVE Table' /\ StoppedWriteFails'
  BY <1>9 DEF Exit, Goto, TypeOK, Streams
<1>10. ASSUME NEW i \in Streams,
              \/ \E applied \in 0..MaxRevision : ReadPolicy(i, applied)
              \/ AuthAgain(i) \/ BeginWrite(i) \/ SetDeadline(i)
              \/ Write(i) \/ Wake(i) \/ Tick(i) \/ Stopped(i) \/ ClientGone(i)
              \/ ReadChanged(i) \/ CheckSession(i)
       PROVE  Table' /\ StoppedWriteFails'
  <2>1. /\ UNCHANGED <<current, stopping, done>>
        /\ \E place \in Places \ (Outside \cup {"writing"}) : Goto(i, place)
        /\ pc[i] \notin Outside
        /\ \A j \in Streams \ {i} : deadline'[j] = deadline[j]
    BY <1>10 DEF ReadPolicy, AuthAgain, BeginWrite, SetDeadline, Write, WriteOut, WriteFails,
         Wake, Tick,
         Stopped, ClientGone, ReadChanged, CheckSession, table, Places, Goto, TypeOK
  <2> QED
    BY <2>1 DEF Goto, TypeOK
<1> QED
  BY <1>1, <1>2, <1>3, <1>4, <1>5, <1>6, <1>7, <1>8, <1>9, <1>10 DEF Next, Proceed

\* A handler on its way to its loop has the newest policy in hand, unless a call is still
\* to come or its slot is full.
LEMMA FreshStep ==
  ASSUME StreamInv, [Next]_vars
  PROVE  Fresh'
<1> TypeOK /\ Fresh /\ Forward /\ Table
  BY DEF StreamInv
<1> USE DEF Fresh, Sending
<1>1. CASE UNCHANGED vars
  BY <1>1 DEF vars
<1>2. CASE Transaction
  <2>1. /\ UNCHANGED <<current, changed, pc, msg, last>>
        /\ (policy' = policy /\ UNCHANGED <<notifies, closes>>) \/ notifies' + closes' > 0
    BY <1>2, StreamsFrame DEF calls, table, handler
  <2>2. CASE policy' = policy /\ UNCHANGED <<notifies, closes>>
    BY <2>1, <2>2
  <2>3. CASE notifies' + closes' > 0
    <3>1. notifies' + closes' # 0
      BY <2>3
    <3> QED
      BY <3>1
  <2> QED
    BY <2>1, <2>2, <2>3
<1>3. CASE NotifyPolicy
  BY <1>3 DEF NotifyPolicy, TypeOK, Streams, table
<1>4. CASE CloseNodeStream
  BY <1>4 DEF CloseNodeStream
<1>5. CASE ExpireDeadline
  BY <1>5 DEF ExpireDeadline, db, calls
<1>6. ASSUME NEW i \in Streams, NEW t \in Tokens, Open(i, t) PROVE Fresh'
  <2>1. /\ UNCHANGED <<policy, notifies, closes, current, changed, msg, last>>
        /\ pc'[i] = "register"
        /\ \A j \in Streams \ {i} : pc'[j] = pc[j]
    BY <1>6 DEF Open, Goto, TypeOK, db, calls, table
  <2>2. CASE current = i
    BY <2>1, <2>2
  <2>3. CASE current # i
    <3>1. current # 0 => current \in Streams \ {i}
      BY <2>3 DEF TypeOK, Streams
    <3> QED
      BY <2>1, <3>1
  <2> QED
    BY <2>2, <2>3
<1>7. ASSUME NEW i \in Streams, Register(i) PROVE Fresh'
  BY <1>7 DEF Register, Goto, TypeOK, Streams
<1>8. ASSUME NEW i \in Streams, NEW applied \in 0..MaxRevision, ReadPolicy(i, applied)
      PROVE  Fresh'
  <2>1. /\ UNCHANGED <<policy, notifies, closes, current, changed, last>>
        /\ pc'[i] \in {"exit", "auth"} /\ msg'[i] = policy
        /\ \A j \in Streams \ {i} : pc'[j] = pc[j] /\ msg'[j] = msg[j]
    BY <1>8 DEF ReadPolicy, Goto, TypeOK, db, calls, table
  <2>2. CASE current = i
    BY <2>1, <2>2
  <2>3. CASE current # i
    <3>1. current # 0 => current \in Streams \ {i}
      BY <2>3 DEF TypeOK, Streams
    <3> QED
      BY <2>1, <3>1
  <2> QED
    BY <2>2, <2>3
<1>9. ASSUME NEW i \in Streams, AuthAgain(i) PROVE Fresh'
  <2>1. /\ UNCHANGED <<policy, notifies, closes, current, changed, msg, last>>
        /\ pc[i] = "auth" /\ pc'[i] \in {"exit", "write"}
        /\ \A j \in Streams \ {i} : pc'[j] = pc[j]
    BY <1>9 DEF AuthAgain, Goto, TypeOK, db, calls, table
  <2>2. CASE current = i
    <3>1. ~changed[i] /\ notifies + closes = 0 => msg[i].rev = policy.rev
      BY <2>1, <2>2 DEF Streams
    <3>2. msg[i] # Ping
      BY <2>1 DEF Forward, Ping
    <3> QED
      BY <2>1, <2>2, <3>1, <3>2
  <2>3. CASE current # i
    <3>1. current # 0 => current \in Streams \ {i}
      BY <2>3 DEF TypeOK, Streams
    <3> QED
      BY <2>1, <3>1
  <2> QED
    BY <2>2, <2>3
<1>10. ASSUME NEW i \in Streams, BeginWrite(i) \/ SetDeadline(i) \/ CheckDone(i) \/ Write(i)
      PROVE  Fresh'
  <2>1. /\ UNCHANGED <<policy, notifies, closes, current, changed, msg, last>>
        /\ pc[i] \in Sending /\ pc'[i] \in Sending \cup {"exit"}
        /\ \A j \in Streams \ {i} : pc'[j] = pc[j]
    BY <1>10 DEF BeginWrite, SetDeadline, CheckDone, Write, WriteOut, WriteFails, Goto, TypeOK,
         db, calls,
         table
  <2> QED
    BY <2>1 DEF TypeOK, Streams
<1>11. ASSUME NEW i \in Streams, EndWrite(i) PROVE Fresh'
  <2>1. /\ UNCHANGED <<policy, notifies, closes, current, changed>>
        /\ pc[i] = "flushed"
        /\ \A j \in Streams \ {i} : pc'[j] = pc[j] /\ last'[j] = last[j] /\ msg'[j] = msg[j]
    BY <1>11 DEF EndWrite, Goto, TypeOK, db, calls, table
  <2>2. \/ pc'[i] = "exit"
        \/ pc'[i] = "idle" /\ last'[i] = IF msg[i] = Ping THEN last[i] ELSE msg[i].rev
    BY <1>11 DEF EndWrite, Goto, TypeOK
  <2>3. CASE current = i
    <3>1. ~changed[i] /\ notifies + closes = 0 =>
            (IF msg[i] = Ping THEN last[i] ELSE msg[i].rev) = policy.rev
      BY <2>1, <2>3 DEF Streams
    <3> QED
      BY <2>1, <2>2, <2>3, <3>1
  <2>4. CASE current # i
    <3>1. current # 0 => current \in Streams \ {i}
      BY <2>4 DEF TypeOK, Streams
    <3> QED
      BY <2>1, <3>1
  <2> QED
    BY <2>3, <2>4
<1>12. ASSUME NEW i \in Streams, Tick(i) PROVE Fresh'
  BY <1>12 DEF Tick, Goto, TypeOK, Streams, db, calls, table
<1>13. ASSUME NEW i \in Streams, Wake(i) \/ Stopped(i) \/ ClientGone(i) PROVE Fresh'
  <2>1. /\ UNCHANGED <<policy, notifies, closes, current, msg, last>>
        /\ pc'[i] \in {"changed", "exit"}
        /\ \A j \in Streams \ {i} : pc'[j] = pc[j] /\ changed'[j] = changed[j]
    BY <1>13 DEF Wake, Stopped, ClientGone, Goto, TypeOK, db, calls, table
  <2> QED
    BY <2>1 DEF TypeOK, Streams
<1>14. ASSUME NEW i \in Streams, ReadChanged(i) PROVE Fresh'
  BY <1>14 DEF ReadChanged, Goto, TypeOK, Streams, db, calls, table
<1>15. ASSUME NEW i \in Streams, CheckSession(i) PROVE Fresh'
  <2>1. /\ UNCHANGED <<policy, notifies, closes, current, changed, msg, last>>
        /\ pc[i] = "check"
        /\ \A j \in Streams \ {i} : pc'[j] = pc[j]
    BY <1>15 DEF CheckSession, Goto, TypeOK, db, calls, table
  <2>2. pc'[i] \in {"exit", "write"} \/ (pc'[i] = "idle" /\ msg[i].rev = last[i])
    BY <1>15 DEF CheckSession, Goto, TypeOK
  <2>3. CASE current = i
    <3>1. ~changed[i] /\ notifies + closes = 0 => msg[i].rev = policy.rev
      BY <2>1, <2>3 DEF Streams
    <3>2. msg[i] # Ping
      BY <2>1 DEF Forward, Ping
    <3> QED
      BY <2>1, <2>2, <2>3, <3>1, <3>2
  <2>4. CASE current # i
    <3>1. current # 0 => current \in Streams \ {i}
      BY <2>4 DEF TypeOK, Streams
    <3> QED
      BY <2>1, <3>1
  <2> QED
    BY <2>3, <2>4
<1>16. ASSUME NEW i \in Streams, Exit(i) PROVE Fresh'
  <2>1. /\ UNCHANGED <<policy, notifies, closes>>
        /\ current' # i /\ current' \in {0, current}
        /\ \A j \in Streams \ {i} : /\ pc'[j] = pc[j] /\ msg'[j] = msg[j]
                                    /\ last'[j] = last[j] /\ changed'[j] = changed[j]
    <3>1. 0 # i
      BY BoundsAssumption DEF Streams
    <3> QED
      BY <1>16, <3>1 DEF Exit, Goto, TypeOK, db, calls
  <2>2. current' # 0 => current' = current /\ current \in Streams \ {i}
    BY <2>1 DEF TypeOK, Streams
  <2> QED
    BY <2>1, <2>2
<1> QED
  BY <1>1, <1>2, <1>3, <1>4, <1>5, <1>6, <1>7, <1>8, <1>9, <1>10, <1>11, <1>12, <1>13, <1>14,
       <1>15, <1>16
     DEF Next, Proceed

\* The revisions at hand are numbers.
LEMMA RevTypes ==
  ASSUME TypeOK
  PROVE  /\ policy.rev \in Nat
         /\ \A i \in Streams : msg[i].rev \in Nat /\ last[i] \in Nat
         /\ NoPolicy.rev = 0 /\ ~NoPolicy.grants
BY BoundsAssumption DEF TypeOK, Policies, NoPolicy

\* Forward, of one stream.
Forwards(i) ==
  /\ policy # NoPolicy => last[i] <= policy.rev /\ msg[i].rev <= policy.rev
  /\ pc[i] \in {"auth", "check"} => msg[i] # NoPolicy
  /\ pc[i] \in {"auth", "check"} \cup Sending => msg[i] = Ping \/ msg[i].rev >= last[i]
  /\ pc[i] \notin {"new", "gone"} => token[i] # 0

\* A stream's revisions go forward: what a handler reads is never older than what it wrote.
LEMMA ForwardStep ==
  ASSUME StreamInv, [Next]_vars
  PROVE  Forward'
<1> SUFFICES ASSUME NEW j \in Streams PROVE Forwards(j)'
  BY DEF Forward, Forwards
<1>t. TypeOK /\ TypeOK'
  BY TypeStep DEF StreamInv
<1>a. Forwards(j)
  BY DEF StreamInv, Forward, Forwards
<1>b. /\ policy.rev \in Nat /\ policy'.rev \in Nat
      /\ \A i \in Streams : msg[i].rev \in Nat /\ last[i] \in Nat
      /\ NoPolicy.rev = 0
  <2>1. policy'.rev \in Nat
    BY <1>t, BoundsAssumption DEF TypeOK, Policies, NoPolicy
  <2> QED
    BY <1>t, <2>1, RevTypes
<1>d. DOMAIN pc = Streams /\ DOMAIN token = Streams /\ DOMAIN msg = Streams /\ DOMAIN last = Streams
  BY <1>t DEF TypeOK
<1>1. CASE UNCHANGED vars
  BY <1>a, <1>1 DEF Forwards, vars
<1>2. CASE Transaction
  <2>1. /\ UNCHANGED <<pc, token, msg, last>>
        /\ policy' # NoPolicy => policy # NoPolicy /\ policy'.rev >= policy.rev
    BY <1>t, <1>2, StreamsFrame, PolicyForward DEF StreamInv, handler, Next
  <2>2. policy' # NoPolicy => last'[j] <= policy'.rev /\ msg'[j].rev <= policy'.rev
    <3>1. policy # NoPolicy => last[j] <= policy.rev /\ msg[j].rev <= policy.rev
      BY <1>a DEF Forwards
    <3> QED
      BY <1>b, <2>1, <3>1
  <2> QED
    BY <1>a, <2>1, <2>2 DEF Forwards
<1>3. CASE NotifyPolicy \/ CloseNodeStream \/ ExpireDeadline
  <2>1. UNCHANGED <<policy, pc, token, msg, last>>
    BY <1>3 DEF NotifyPolicy, CloseNodeStream, ExpireDeadline, db
  <2> QED
    BY <1>a, <2>1 DEF Forwards
<1>4. ASSUME NEW i \in Streams, NEW t \in Tokens, Open(i, t) PROVE Forwards(j)'
  <2>1. /\ UNCHANGED <<policy, msg, last>>
        /\ pc'[i] = "register" /\ token'[i] = t /\ t # 0
        /\ \A k \in Streams \ {i} : pc'[k] = pc[k] /\ token'[k] = token[k]
    <3>1. t # 0
      BY BoundsAssumption DEF Tokens
    <3> QED
      BY <1>d, <1>4, <3>1 DEF Open, Goto, db
  <2>2. CASE j = i
    <3>1. /\ policy # NoPolicy => last[i] <= policy.rev /\ msg[i].rev <= policy.rev
          /\ pc[i] \notin {"new", "gone"} => token[i] # 0
      BY <1>a, <2>2 DEF Forwards
    <3>2. policy' # NoPolicy => last'[i] <= policy'.rev /\ msg'[i].rev <= policy'.rev
      <4>1. policy' = policy
        BY <2>1
      <4>2. last'[i] \in {last[i], msg[i].rev, 0} /\ msg'[i].rev \in {policy.rev, msg[i].rev, 0}
        BY <1>b, <2>1
      <4>3. policy.rev \in Nat
        BY <1>b
      <4> QED
        BY <3>1, <4>1, <4>2, <4>3
    <3>3. pc'[i] \notin {"new", "gone"} => token'[i] # 0
      BY <2>1, <3>1
    <3>4. /\ pc'[i] \in {"auth", "check"} => msg'[i] # NoPolicy
          /\ pc'[i] \in {"auth", "check"} \cup Sending => msg'[i] = Ping \/ msg'[i].rev >= last'[i]
      BY <1>b, <2>1, <3>1 DEF Sending
    <3> QED
      BY <2>2, <3>2, <3>3, <3>4 DEF Forwards
  <2>3. CASE j # i
    BY <1>a, <2>1, <2>3 DEF Forwards
  <2> QED
    BY <2>2, <2>3
<1>5. ASSUME NEW i \in Streams, NEW applied \in 0..MaxRevision, ReadPolicy(i, applied)
      PROVE  Forwards(j)'
  <2>1. /\ UNCHANGED <<policy, token, last>>
        /\ pc[i] = "read" /\ msg'[i] = policy
        /\ pc'[i] = "exit" \/ (pc'[i] = "auth" /\ policy # NoPolicy)
        /\ \A k \in Streams \ {i} : pc'[k] = pc[k] /\ msg'[k] = msg[k]
    BY <1>d, <1>5 DEF ReadPolicy, Goto, db
  <2>2. CASE j = i
    <3>1. /\ policy # NoPolicy => last[i] <= policy.rev /\ msg[i].rev <= policy.rev
          /\ pc[i] \notin {"new", "gone"} => token[i] # 0
      BY <1>a, <2>2 DEF Forwards
    <3>2. policy' # NoPolicy => last'[i] <= policy'.rev /\ msg'[i].rev <= policy'.rev
      <4>1. policy' = policy
        BY <2>1
      <4>2. last'[i] \in {last[i], msg[i].rev, 0} /\ msg'[i].rev \in {policy.rev, msg[i].rev, 0}
        BY <1>b, <2>1
      <4>3. policy.rev \in Nat
        BY <1>b
      <4> QED
        BY <3>1, <4>1, <4>2, <4>3
    <3>3. pc'[i] \notin {"new", "gone"} => token'[i] # 0
      BY <2>1, <3>1
    <3>4. /\ pc'[i] \in {"auth", "check"} => msg'[i] # NoPolicy
          /\ pc'[i] \in {"auth", "check"} \cup Sending => msg'[i] = Ping \/ msg'[i].rev >= last'[i]
      BY <1>b, <2>1, <3>1 DEF Sending
    <3> QED
      BY <2>2, <3>2, <3>3, <3>4 DEF Forwards
  <2>3. CASE j # i
    BY <1>a, <2>1, <2>3 DEF Forwards
  <2> QED
    BY <2>2, <2>3
<1>6. ASSUME NEW i \in Streams, ReadChanged(i) PROVE Forwards(j)'
  <2>1. /\ UNCHANGED <<policy, token, last>>
        /\ pc[i] = "changed" /\ msg'[i] = policy
        /\ pc'[i] = "exit" \/ (pc'[i] = "check" /\ policy # NoPolicy)
        /\ \A k \in Streams \ {i} : pc'[k] = pc[k] /\ msg'[k] = msg[k]
    BY <1>d, <1>6 DEF ReadChanged, Goto, db
  <2>2. CASE j = i
    <3>1. /\ policy # NoPolicy => last[i] <= policy.rev /\ msg[i].rev <= policy.rev
          /\ pc[i] \notin {"new", "gone"} => token[i] # 0
      BY <1>a, <2>2 DEF Forwards
    <3>2. policy' # NoPolicy => last'[i] <= policy'.rev /\ msg'[i].rev <= policy'.rev
      <4>1. policy' = policy
        BY <2>1
      <4>2. last'[i] \in {last[i], msg[i].rev, 0} /\ msg'[i].rev \in {policy.rev, msg[i].rev, 0}
        BY <1>b, <2>1
      <4>3. policy.rev \in Nat
        BY <1>b
      <4> QED
        BY <3>1, <4>1, <4>2, <4>3
    <3>3. pc'[i] \notin {"new", "gone"} => token'[i] # 0
      BY <2>1, <3>1
    <3>4. /\ pc'[i] \in {"auth", "check"} => msg'[i] # NoPolicy
          /\ pc'[i] \in {"auth", "check"} \cup Sending => msg'[i] = Ping \/ msg'[i].rev >= last'[i]
      BY <1>b, <2>1, <3>1 DEF Sending
    <3> QED
      BY <2>2, <3>2, <3>3, <3>4 DEF Forwards
  <2>3. CASE j # i
    BY <1>a, <2>1, <2>3 DEF Forwards
  <2> QED
    BY <2>2, <2>3
<1>7. ASSUME NEW i \in Streams, EndWrite(i) PROVE Forwards(j)'
  <2>1. /\ UNCHANGED <<policy, token>>
        /\ pc[i] = "flushed" /\ msg'[i] = NoPolicy
        /\ pc'[i] \in {"idle", "exit"}
        /\ last'[i] = last[i] \/ last'[i] = msg[i].rev
        /\ \A k \in Streams \ {i} : pc'[k] = pc[k] /\ msg'[k] = msg[k] /\ last'[k] = last[k]
    BY <1>d, <1>7 DEF EndWrite, Goto, db
  <2>2. CASE j = i
    <3>1. /\ policy # NoPolicy => last[i] <= policy.rev /\ msg[i].rev <= policy.rev
          /\ pc[i] \notin {"new", "gone"} => token[i] # 0
      BY <1>a, <2>2 DEF Forwards
    <3>2. policy' # NoPolicy => last'[i] <= policy'.rev /\ msg'[i].rev <= policy'.rev
      <4>1. policy' = policy
        BY <2>1
      <4>2. last'[i] \in {last[i], msg[i].rev, 0} /\ msg'[i].rev \in {policy.rev, msg[i].rev, 0}
        BY <1>b, <2>1
      <4>3. policy.rev \in Nat
        BY <1>b
      <4> QED
        BY <3>1, <4>1, <4>2, <4>3
    <3>3. pc'[i] \notin {"new", "gone"} => token'[i] # 0
      BY <2>1, <3>1
    <3>4. /\ pc'[i] \in {"auth", "check"} => msg'[i] # NoPolicy
          /\ pc'[i] \in {"auth", "check"} \cup Sending => msg'[i] = Ping \/ msg'[i].rev >= last'[i]
      BY <1>b, <2>1, <3>1 DEF Sending
    <3> QED
      BY <2>2, <3>2, <3>3, <3>4 DEF Forwards
  <2>3. CASE j # i
    BY <1>a, <2>1, <2>3 DEF Forwards
  <2> QED
    BY <2>2, <2>3
<1>8. ASSUME NEW i \in Streams, Tick(i) PROVE Forwards(j)'
  <2>1. /\ UNCHANGED <<policy, token, last>>
        /\ pc[i] = "idle" /\ msg'[i] = Ping
        /\ pc'[i] \in {"write", "exit"}
        /\ \A k \in Streams \ {i} : pc'[k] = pc[k] /\ msg'[k] = msg[k]
    BY <1>d, <1>8 DEF Tick, Goto, db
  <2>2. CASE j = i
    <3>1. /\ policy # NoPolicy => last[i] <= policy.rev /\ msg[i].rev <= policy.rev
          /\ pc[i] \notin {"new", "gone"} => token[i] # 0
      BY <1>a, <2>2 DEF Forwards
    <3>2. policy' # NoPolicy => last'[i] <= policy'.rev /\ msg'[i].rev <= policy'.rev
      <4>1. policy' = policy
        BY <2>1
      <4>2. last'[i] \in {last[i], msg[i].rev, 0} /\ msg'[i].rev \in {policy.rev, msg[i].rev, 0}
        BY <1>b, <2>1 DEF Ping
      <4>3. policy.rev \in Nat
        BY <1>b
      <4> QED
        BY <3>1, <4>1, <4>2, <4>3
    <3>3. pc'[i] \notin {"new", "gone"} => token'[i] # 0
      BY <2>1, <3>1
    <3>4. /\ pc'[i] \in {"auth", "check"} => msg'[i] # NoPolicy
          /\ pc'[i] \in {"auth", "check"} \cup Sending => msg'[i] = Ping \/ msg'[i].rev >= last'[i]
      BY <1>b, <2>1, <3>1 DEF Sending
    <3> QED
      BY <2>2, <3>2, <3>3, <3>4 DEF Forwards
  <2>3. CASE j # i
    BY <1>a, <2>1, <2>3 DEF Forwards
  <2> QED
    BY <2>2, <2>3
<1>9. ASSUME NEW i \in Streams, Exit(i) PROVE Forwards(j)'
  <2>1. /\ UNCHANGED policy
        /\ pc'[i] = "gone" /\ msg'[i] = NoPolicy /\ last'[i] = 0
        /\ \A k \in Streams \ {i} : /\ pc'[k] = pc[k] /\ msg'[k] = msg[k]
                                    /\ last'[k] = last[k] /\ token'[k] = token[k]
    BY <1>d, <1>9 DEF Exit, Goto, db
  <2>2. CASE j = i
    <3>1. /\ policy # NoPolicy => last[i] <= policy.rev /\ msg[i].rev <= policy.rev
          /\ pc[i] \notin {"new", "gone"} => token[i] # 0
      BY <1>a, <2>2 DEF Forwards
    <3>2. policy' # NoPolicy => last'[i] <= policy'.rev /\ msg'[i].rev <= policy'.rev
      <4>1. policy' = policy
        BY <2>1
      <4>2. last'[i] \in {last[i], msg[i].rev, 0} /\ msg'[i].rev \in {policy.rev, msg[i].rev, 0}
        BY <1>b, <2>1
      <4>3. policy.rev \in Nat
        BY <1>b
      <4> QED
        BY <3>1, <4>1, <4>2, <4>3
    <3>3. pc'[i] \notin {"new", "gone"} => token'[i] # 0
      BY <2>1, <3>1
    <3>4. /\ pc'[i] \in {"auth", "check"} => msg'[i] # NoPolicy
          /\ pc'[i] \in {"auth", "check"} \cup Sending => msg'[i] = Ping \/ msg'[i].rev >= last'[i]
      BY <1>b, <2>1, <3>1 DEF Sending
    <3> QED
      BY <2>2, <3>2, <3>3, <3>4 DEF Forwards
  <2>3. CASE j # i
    BY <1>a, <2>1, <2>3 DEF Forwards
  <2> QED
    BY <2>2, <2>3
<1>10. ASSUME NEW i \in Streams,
              \/ Register(i) \/ AuthAgain(i) \/ BeginWrite(i) \/ SetDeadline(i) \/ CheckDone(i)
              \/ Write(i) \/ Wake(i) \/ Stopped(i) \/ ClientGone(i) \/ CheckSession(i)
       PROVE  Forwards(j)'
  <2>1. /\ UNCHANGED <<policy, token, msg, last>>
        /\ pc[i] \notin {"new", "gone"}
        /\ \/ \E place \in {"read", "idle", "changed", "exit"} : Goto(i, place)
           \/ pc[i] \in {"auth", "check"} \cup Sending /\ \E place \in Sending : Goto(i, place)
    <3>1. CASE Register(i) \/ AuthAgain(i) \/ CheckSession(i)
      BY <3>1 DEF Register, AuthAgain, CheckSession, Goto, Sending, db
    <3>2. CASE BeginWrite(i) \/ SetDeadline(i) \/ CheckDone(i) \/ Write(i)
      BY <3>2 DEF BeginWrite, SetDeadline, CheckDone, Write, WriteOut, WriteFails, Goto, Sending, db
    <3>3. CASE Wake(i) \/ Stopped(i) \/ ClientGone(i)
      BY <3>3 DEF Wake, Stopped, ClientGone, Goto, Sending, db
    <3> QED
      BY <1>10, <3>1, <3>2, <3>3
  <2>2. /\ \/ pc'[i] \in {"read", "idle", "changed", "exit"}
           \/ pc[i] \in {"auth", "check"} \cup Sending /\ pc'[i] \in Sending
        /\ \A k \in Streams \ {i} : pc'[k] = pc[k]
    BY <1>t, <2>1 DEF Goto, TypeOK
  <2>3. CASE j = i
    BY <1>a, <2>1, <2>2, <2>3 DEF Forwards, Sending
  <2>4. CASE j # i
    BY <1>a, <2>1, <2>2, <2>4 DEF Forwards
  <2> QED
    BY <2>3, <2>4
<1> QED
  BY <1>1, <1>2, <1>3, <1>4, <1>5, <1>6, <1>7, <1>8, <1>9, <1>10 DEF Next, Proceed

\* A session's mark is set once, to a revision no older than anything read before it.
LEMMA EndedStep ==
  ASSUME StreamInv, [Next]_vars
  PROVE  Ended'
<1> USE DEF StreamInv, Ended, Sending
<1>1. CASE UNCHANGED vars
  BY <1>1 DEF vars
<1>2. CASE Transaction
  <2>1. UNCHANGED <<pc, token, msg>>
    BY <1>2, StreamsFrame DEF handler
  <2>2. \A t \in Tokens : endRev'[t] = endRev[t] \/ (policy # NoPolicy /\ endRev'[t] = policy.rev)
    BY <1>2 DEF Transaction, ChangePolicy, KeepPolicy, SetOwnerEnabled, IdentityConflict,
         RecoverNodeInstance,
         MintSession, ExpireSession, ReleaseNode, ChangeNodeDomain, DeleteNode, EndSession, Rows, TypeOK, db
  <2>3. ASSUME NEW i \in Streams, pc[i] \in Sending PROVE token[i] \in Tokens
    <3>1. token[i] # 0
      BY <2>3 DEF Forward
    <3>2. token[i] \in 0..MaxSessions
      BY DEF TypeOK
    <3> QED
      BY <3>1, <3>2, BoundsAssumption DEF Tokens
  <2> QED
    BY <2>1, <2>2, <2>3 DEF Forward
<1>3. CASE NotifyPolicy \/ CloseNodeStream \/ ExpireDeadline
  BY <1>3 DEF NotifyPolicy, CloseNodeStream, ExpireDeadline, db
<1>4. ASSUME NEW i \in Streams, AuthAgain(i) \/ CheckSession(i) PROVE Ended'
  <2>1. /\ UNCHANGED <<token, msg, endRev>>
        /\ \A j \in Streams \ {i} : pc'[j] = pc[j]
        /\ pc'[i] \in Sending => Authenticates(token[i]) \/ ~msg[i].grants
    BY <1>4 DEF AuthAgain, CheckSession, Goto, TypeOK, db
  <2>2. Authenticates(token[i]) => endRev[token[i]] = Never
    BY DEF Authenticates, Rows, TypeOK, Tokens
  <2>3. msg[i].rev <= Never
    BY BoundsAssumption DEF TypeOK, Policies, NoPolicy, Never
  <2> QED
    BY <2>1, <2>2, <2>3
<1>5. ASSUME NEW i \in Streams, Tick(i) PROVE Ended'
  <2>1. /\ UNCHANGED <<token, endRev>>
        /\ msg'[i] = Ping
        /\ \A j \in Streams \ {i} : pc'[j] = pc[j] /\ msg'[j] = msg[j]
    BY <1>5 DEF Tick, Goto, TypeOK, db
  <2> QED
    BY <2>1, RevTypes DEF Ping
<1>6. ASSUME NEW i \in Streams, BeginWrite(i) \/ SetDeadline(i) \/ CheckDone(i) \/ Write(i)
      PROVE  Ended'
  <2>1. /\ UNCHANGED <<token, msg, endRev>>
        /\ pc[i] \in Sending
        /\ \A j \in Streams \ {i} : pc'[j] = pc[j]
    BY <1>6 DEF BeginWrite, SetDeadline, CheckDone, Write, WriteOut, WriteFails, Goto, TypeOK, db
  <2> QED
    BY <2>1
<1>7. ASSUME NEW i \in Streams,
             \/ \E t \in Tokens : Open(i, t)
             \/ \E applied \in 0..MaxRevision : ReadPolicy(i, applied)
             \/ Register(i) \/ EndWrite(i) \/ Wake(i) \/ Stopped(i) \/ ClientGone(i) \/ ReadChanged(i)
             \/ Exit(i)
      PROVE  Ended'
  <2>1. /\ UNCHANGED endRev
        /\ pc'[i] \notin Sending
        /\ \A j \in Streams \ {i} : pc'[j] = pc[j] /\ msg'[j] = msg[j] /\ token'[j] = token[j]
    <3>1. CASE \E t \in Tokens : Open(i, t)
      BY <3>1 DEF Open, Goto, TypeOK, db
    <3>2. CASE \E applied \in 0..MaxRevision : ReadPolicy(i, applied)
      BY <3>2 DEF ReadPolicy, Goto, TypeOK, db
    <3>3. CASE Register(i) \/ Wake(i) \/ Stopped(i) \/ ClientGone(i)
      BY <3>3 DEF Register, Wake, Stopped, ClientGone, Goto, TypeOK, db
    <3>4. CASE EndWrite(i)
      BY <3>4 DEF EndWrite, Goto, TypeOK, db
    <3>5. CASE ReadChanged(i)
      BY <3>5 DEF ReadChanged, Goto, TypeOK, db
    <3>6. CASE Exit(i)
      BY <3>6 DEF Exit, Goto, TypeOK, db
    <3> QED
      BY <1>7, <3>1, <3>2, <3>3, <3>4, <3>5, <3>6
  <2> QED
    BY <2>1
<1> QED
  BY <1>1, <1>2, <1>3, <1>4, <1>5, <1>6, <1>7 DEF Next, Proceed

\* StreamInv holds in every reachable state of the controller's side of a control
\* connection, whatever the number of requests, sessions and revisions.
THEOREM StreamInvariant == SafetySpec => []StreamInv
<1>1. StreamInv /\ [Next]_vars => StreamInv'
  BY TypeStep, RowsStep, TableStep, FreshStep, ForwardStep, EndedStep DEF StreamInv
<1> QED
  BY <1>1, InitInv, PTL DEF SafetySpec

\* No wake-up is lost (notifyPolicy against the loop of controlStream).
THEOREM WakeupKept == SafetySpec => []NoLostWakeup
<1>1. StreamInv => NoLostWakeup
  BY DEF StreamInv, Fresh, NoLostWakeup
<1> QED
  BY <1>1, StreamInvariant, PTL

\* A registered handler is the table's entry exactly when nobody has stopped it.
THEOREM TableRight == SafetySpec => []RegisteredUnlessStopped
<1>1. StreamInv => RegisteredUnlessStopped
  BY DEF StreamInv, Table
<1> QED
  BY <1>1, StreamInvariant, PTL

\* Once stop has returned, no write of the stopped stream is left without a passed deadline.
THEOREM StopReachesWrite == SafetySpec => []StoppedWriteFails
<1>1. StreamInv => StoppedWriteFails
  BY DEF StreamInv
<1> QED
  BY <1>1, StreamInvariant, PTL

\* A session that has ended is not sent grants decided after its end.
THEOREM EndedSessionSafe == SafetySpec => []EndedSessionGetsNoGrants
<1>1. StreamInv => EndedSessionGetsNoGrants
  BY DEF StreamInv, Ended, Sending, EndedSessionGetsNoGrants
<1> QED
  BY <1>1, StreamInvariant, PTL

\* One stream never carries an older revision after a newer one.
THEOREM RevisionsForward == SafetySpec => []StreamGoesForward
<1>1. StreamInv => StreamGoesForward
  BY DEF StreamInv, Forward, Sending, StreamGoesForward
<1> QED
  BY <1>1, StreamInvariant, PTL

=============================================================================
