--------------------------- MODULE ControlStream ---------------------------
(***************************************************************************)
(* The controller's side of one node's control connection                  *)
(* (internal/control/control_stream.go): the handlers of the node's GET    *)
(* /cluster/v1/control requests, the table policyStreams that holds the    *)
(* newest of them, and the transactions that change the node's policy or   *)
(* end its session and then, in a step of their own, notify or close the   *)
(* registered stream.                                                      *)
(*                                                                         *)
(* The database has one connection, so a transaction is one step.  The     *)
(* table is guarded by policyMu.  stop() closes the channel done and then  *)
(* moves the write deadline with policyMu still held: stopping names the   *)
(* stream between the two, and nobody else takes the lock meanwhile.       *)
(***************************************************************************)
EXTENDS Naturals, FiniteSets

CONSTANTS
  MaxStreams,   \* bound: control requests
  MaxSessions,  \* bound: session tokens minted
  MaxRevision,  \* bound: policy revisions
  MaxPending,   \* bound: committed transactions that have not notified yet
  MaxHandlers   \* bound: handlers at work when a transaction commits

ASSUME BoundsAssumption ==
  /\ MaxStreams \in Nat \ {0}
  /\ MaxSessions \in Nat \ {0}
  /\ MaxRevision \in Nat \ {0}
  /\ MaxPending \in Nat
  /\ MaxHandlers \in Nat

VARIABLES
  policy,       \* the row of node_policies: its revision and whether it has grants
  nodeState,    \* nodes.state; "registered" stands for ready and offline too
  ownerEnabled, \* users.enabled of the node's owner
  session,      \* the session token that is valid, 0 when there is none
  minted,       \* session tokens minted so far
  notifies,     \* commits whose notifyPolicy is still to come
  closes,       \* commits whose closeNodeStream is still to come
  current,      \* policyStreams[node], 0 when there is none
  stopping,     \* the stream whose write deadline stop() is about to move
  pc,           \* where each handler is
  token,        \* the bearer token of each request
  changed,      \* the one-slot channel of each stream is full
  done,         \* the done channel of each stream is closed
  deadline,     \* the write deadline of each response
  msg,          \* what each handler has in hand to write
  leaving,      \* the handler returns after this write
  last,         \* the revision each handler wrote last
  endRev        \* history: the revision at which each session ended

db == <<policy, nodeState, ownerEnabled, session, minted, endRev>>
calls == <<notifies, closes>>
table == <<current, stopping>>
handler == <<pc, token, changed, done, deadline, msg, leaving, last>>
vars == <<policy, nodeState, ownerEnabled, session, minted, notifies, closes, current,
          stopping, pc, token, changed, done, deadline, msg, leaving, last, endRev>>

Streams == 1..MaxStreams
Tokens == 1..MaxSessions
Never == MaxRevision + 1

Policies == [rev : 1..MaxRevision, grants : BOOLEAN]
NoPolicy == [rev |-> 0, grants |-> FALSE]
\* A ControlMessage of type ping carries no policy.
Ping == NoPolicy

\* Before the select loop: "new", "register", "read", "auth"; in a write: "write",
\* "arm", "armed", "writing", "flushed"; in the loop: "idle", "changed", "check";
\* then "exit" (the deferred function) and "gone".
Places == {"new", "register", "read", "auth", "write", "arm", "armed", "writing", "flushed",
           "idle", "changed", "check", "exit", "gone"}

TypeOK ==
  /\ policy \in Policies \cup {NoPolicy}
  /\ nodeState \in {"registered", "pending", "domain_pending", "identity_conflict", "deleted"}
  /\ ownerEnabled \in BOOLEAN
  /\ session \in 0..MaxSessions
  /\ minted \in 0..MaxSessions
  /\ notifies \in 0..MaxPending
  /\ closes \in 0..MaxPending
  /\ current \in 0..MaxStreams
  /\ stopping \in 0..MaxStreams
  /\ pc \in [Streams -> Places]
  /\ token \in [Streams -> 0..MaxSessions]
  /\ changed \in [Streams -> BOOLEAN]
  /\ done \in [Streams -> BOOLEAN]
  /\ deadline \in [Streams -> {"none", "future", "past"}]
  /\ msg \in [Streams -> Policies \cup {NoPolicy}]
  /\ leaving \in [Streams -> BOOLEAN]
  /\ last \in [Streams -> 0..MaxRevision]
  /\ endRev \in [Tokens -> 1..Never]

\* The node has enrolled and holds its first session.
Init ==
  /\ policy = [rev |-> 1, grants |-> FALSE]
  /\ nodeState = "registered"
  /\ ownerEnabled = TRUE
  /\ session = 1
  /\ minted = 1
  /\ notifies = 0
  /\ closes = 0
  /\ current = 0
  /\ stopping = 0
  /\ pc = [i \in Streams |-> "new"]
  /\ token = [i \in Streams |-> 0]
  /\ changed = [i \in Streams |-> FALSE]
  /\ done = [i \in Streams |-> FALSE]
  /\ deadline = [i \in Streams |-> "none"]
  /\ msg = [i \in Streams |-> NoPolicy]
  /\ leaving = [i \in Streams |-> FALSE]
  /\ last = [i \in Streams |-> 0]
  /\ endRev = [t \in Tokens |-> Never]

-----------------------------------------------------------------------------
(* Transactions *)

\* buildPolicy gives grants only to a registered node of an enabled owner, and a
\* changed policy the next revision.
Admitted == nodeState = "registered" /\ ownerEnabled

Rebuilt(grants) ==
  IF policy.grants \/ grants THEN [rev |-> policy.rev + 1, grants |-> grants] ELSE policy

\* A revision is left for the change.
CanRevise == policy # NoPolicy /\ policy.rev < MaxRevision

\* The revision of the row once the present transaction is through, as the mark of
\* a session that this transaction ends.
EndSession ==
  /\ session' = 0
  /\ endRev' = IF session = 0 THEN endRev ELSE [endRev EXCEPT ![session] = policy.rev]

\* The bound on what goes on at the same time.
FewHandlers == Cardinality({i \in Streams : pc[i] \notin {"new", "gone"}}) <= MaxHandlers

ThenNotify ==
  /\ FewHandlers
  /\ notifies + closes < MaxPending
  /\ notifies' = notifies + 1
  /\ UNCHANGED closes

ThenClose ==
  /\ FewHandlers
  /\ notifies + closes < MaxPending
  /\ closes' = closes + 1
  /\ UNCHANGED notifies

\* A change of grants, identities, QoS, retention or node_enabled, or a heartbeat:
\* buildPolicy finds a new content.
ChangePolicy(grants) ==
  /\ CanRevise
  /\ grants => Admitted
  /\ policy' = [rev |-> policy.rev + 1, grants |-> grants]
  /\ ThenNotify
  /\ UNCHANGED <<nodeState, ownerEnabled, session, minted, endRev, table, handler>>

\* The same transactions when buildPolicy finds the content unchanged.
KeepPolicy ==
  /\ policy # NoPolicy
  /\ ThenNotify
  /\ UNCHANGED <<db, table, handler>>

\* SetUserEnabled for the node's owner: every policy is rebuilt.
SetOwnerEnabled(enabled, grants) ==
  /\ CanRevise
  /\ grants => enabled /\ nodeState = "registered"
  /\ ownerEnabled' = enabled
  /\ policy' = Rebuilt(grants)
  /\ ThenNotify
  /\ UNCHANGED <<nodeState, session, minted, endRev, table, handler>>

\* RenewNodeSession of a second instance while the lease runs: the node is stopped,
\* its session deleted and its policy emptied.
IdentityConflict ==
  /\ nodeState \in {"registered", "domain_pending"} /\ ownerEnabled
  /\ CanRevise
  /\ nodeState' = "identity_conflict"
  /\ EndSession
  /\ policy' = Rebuilt(FALSE)
  /\ ThenNotify
  /\ UNCHANGED <<ownerEnabled, minted, table, handler>>

\* RecoverNodeInstance: registered again, without a session.
RecoverNodeInstance(grants) ==
  /\ nodeState = "identity_conflict"
  /\ CanRevise
  /\ grants => ownerEnabled
  /\ nodeState' = "registered"
  /\ EndSession
  /\ policy' = Rebuilt(grants)
  /\ ThenNotify
  /\ UNCHANGED <<ownerEnabled, minted, table, handler>>

\* RenewNodeSession and EnrollNode: the new session deletes the old one.
MintSession ==
  /\ nodeState \in {"registered", "domain_pending", "pending"} /\ ownerEnabled
  /\ minted < MaxSessions /\ FewHandlers
  /\ nodeState' = "registered"
  /\ minted' = minted + 1
  /\ session' = minted + 1
  /\ endRev' = IF session = 0 THEN endRev ELSE [endRev EXCEPT ![session] = policy.rev]
  /\ UNCHANGED <<policy, ownerEnabled, calls, table, handler>>

\* The session's hour is over.  Nobody is notified.
ExpireSession ==
  /\ session # 0 /\ FewHandlers
  /\ EndSession
  /\ UNCHANGED <<policy, nodeState, ownerEnabled, minted, calls, table, handler>>

\* Fault: a released node starts again at the first revision.
ReleaseNode_FirstRevision ==
  /\ nodeState \notin {"deleted", "pending"}
  /\ nodeState' = "pending"
  /\ EndSession
  /\ policy' = [rev |-> 1, grants |-> FALSE]
  /\ ThenClose
  /\ UNCHANGED <<ownerEnabled, minted, table, handler>>

\* ReleaseNode and IssueEnrollment: the policy is rebuilt from nothing and the
\* stream is closed, not notified.
ReleaseNode ==
  /\ nodeState \notin {"deleted", "pending"}
  /\ CanRevise
  /\ nodeState' = "pending"
  /\ EndSession
  /\ policy' = [rev |-> policy.rev + 1, grants |-> FALSE]
  /\ ThenClose
  /\ UNCHANGED <<ownerEnabled, minted, table, handler>>

\* ChangeNodeDomain of a paused node: no rebuild, the policy is empty already.
ChangeNodeDomain ==
  /\ nodeState \in {"registered", "domain_pending"}
  /\ ~policy.grants
  /\ nodeState' = "domain_pending"
  /\ EndSession
  /\ ThenNotify
  /\ UNCHANGED <<policy, ownerEnabled, minted, table, handler>>

\* DeleteNode of a paused node: the rows go with it.
DeleteNode ==
  /\ nodeState # "deleted"
  /\ ~policy.grants
  /\ nodeState' = "deleted"
  /\ EndSession
  /\ policy' = NoPolicy
  /\ ThenNotify
  /\ UNCHANGED <<ownerEnabled, minted, table, handler>>

-----------------------------------------------------------------------------
(* What follows a commit *)

\* Fault: the channel has no slot, so only a handler that waits gets the notice.
NotifyPolicy_NoSlot ==
  /\ notifies > 0 /\ stopping = 0
  /\ notifies' = notifies - 1
  /\ changed' = IF current = 0 THEN changed
                ELSE [changed EXCEPT ![current] = @ \/ pc[current] = "idle"]
  /\ UNCHANGED <<db, closes, table, pc, token, done, deadline, msg, leaving, last>>

\* notifyPolicy and notifyPolicies: the slot of the registered stream is filled
\* unless it is full.
NotifyPolicy ==
  /\ notifies > 0 /\ stopping = 0
  /\ notifies' = notifies - 1
  /\ changed' = IF current = 0 THEN changed ELSE [changed EXCEPT ![current] = TRUE]
  /\ UNCHANGED <<db, closes, table, pc, token, done, deadline, msg, leaving, last>>

\* The first half of stop(): done is closed, or nothing is if there is no stream.
Stop(i) ==
  /\ stopping' = i
  /\ done' = IF i = 0 THEN done ELSE [done EXCEPT ![i] = TRUE]

\* closeNodeStream, also for every node when the store is closed.
CloseNodeStream ==
  /\ closes > 0 /\ stopping = 0
  /\ closes' = closes - 1
  /\ Stop(current)
  /\ current' = 0
  /\ UNCHANGED <<db, notifies, pc, token, changed, deadline, msg, leaving, last>>

\* The second half of stop(): a write in progress fails at once.
ExpireDeadline ==
  /\ stopping # 0
  /\ deadline' = [deadline EXCEPT ![stopping] = "past"]
  /\ stopping' = 0
  /\ UNCHANGED <<db, calls, current, pc, token, changed, done, msg, leaving, last>>

-----------------------------------------------------------------------------
(* controlStream *)

Authenticates(t) == t # 0 /\ t = session /\ Admitted

Goto(i, place) == pc' = [pc EXCEPT ![i] = place]

\* A request arrives with the token of some session and is authenticated.
Open(i, t) ==
  /\ pc[i] = "new" /\ \A j \in 1..(i - 1) : pc[j] # "new"
  /\ Authenticates(t)
  /\ token' = [token EXCEPT ![i] = t]
  /\ deadline' = [deadline EXCEPT ![i] = "future"]
  /\ Goto(i, "register")
  /\ UNCHANGED <<db, calls, table, changed, done, msg, leaving, last>>

\* The stream takes the place of the previous one, which is stopped.
Register(i) ==
  /\ pc[i] = "register" /\ stopping = 0
  /\ Stop(current)
  /\ current' = i
  /\ Goto(i, "read")
  /\ UNCHANGED <<db, calls, token, changed, deadline, msg, leaving, last>>

\* The policy is read; a node that has applied a later revision is refused.
ReadPolicy(i, applied) ==
  /\ pc[i] = "read"
  /\ msg' = [msg EXCEPT ![i] = policy]
  /\ Goto(i, IF policy = NoPolicy \/ applied > policy.rev THEN "exit" ELSE "auth")
  /\ UNCHANGED <<db, calls, table, token, changed, done, deadline, leaving, last>>

\* Fault: the first check of the session is taken to be enough.
AuthAgain_Skipped(i) ==
  /\ pc[i] = "auth"
  /\ Goto(i, "write")
  /\ UNCHANGED <<db, calls, table, token, changed, done, deadline, msg, leaving, last>>

\* The session is checked again after the read: it may have ended in between.
AuthAgain(i) ==
  /\ pc[i] = "auth"
  /\ Goto(i, IF Authenticates(token[i]) THEN "write" ELSE "exit")
  /\ UNCHANGED <<db, calls, table, token, changed, done, deadline, msg, leaving, last>>

\* write: done is looked at,
BeginWrite(i) ==
  /\ pc[i] = "write"
  /\ Goto(i, IF done[i] THEN "exit" ELSE "arm")
  /\ UNCHANGED <<db, calls, table, token, changed, done, deadline, msg, leaving, last>>

\* the deadline is set to ten seconds from now,
SetDeadline(i) ==
  /\ pc[i] = "arm"
  /\ Goto(i, "armed")
  /\ deadline' = [deadline EXCEPT ![i] = "future"]
  /\ UNCHANGED <<db, calls, table, token, changed, done, msg, leaving, last>>

\* Fault: done is not looked at again.
CheckDone_Skipped(i) ==
  /\ pc[i] = "armed"
  /\ Goto(i, "writing")
  /\ UNCHANGED <<db, calls, table, token, changed, done, deadline, msg, leaving, last>>

\* done is looked at again, since a stop may have set its deadline before ours,
CheckDone(i) ==
  /\ pc[i] = "armed"
  /\ IF done[i] THEN Goto(i, "exit") /\ deadline' = [deadline EXCEPT ![i] = "past"]
                ELSE Goto(i, "writing") /\ UNCHANGED deadline
  /\ UNCHANGED <<db, calls, table, token, changed, done, msg, leaving, last>>

\* the message goes out, unless the deadline has passed,
WriteOut(i) ==
  /\ pc[i] = "writing" /\ deadline[i] # "past"
  /\ Goto(i, "flushed")
  /\ UNCHANGED <<db, calls, table, token, changed, done, deadline, msg, leaving, last>>

\* or does not: the client has gone, or has not read for too long,
WriteFails(i) ==
  /\ pc[i] = "writing"
  /\ Goto(i, "exit")
  /\ UNCHANGED <<db, calls, table, token, changed, done, deadline, msg, leaving, last>>

\* and the handler goes on to its loop, or returns.
EndWrite(i) ==
  /\ pc[i] = "flushed"
  /\ IF done[i] \/ leaving[i]
       THEN Goto(i, "exit") /\ UNCHANGED <<deadline, last>>
       ELSE /\ Goto(i, "idle")
            /\ deadline' = [deadline EXCEPT ![i] = "none"]
            /\ last' = IF msg[i] = Ping THEN last ELSE [last EXCEPT ![i] = msg[i].rev]
  /\ msg' = [msg EXCEPT ![i] = NoPolicy]
  /\ UNCHANGED <<db, calls, table, token, changed, done, leaving>>

\* The loop's select: a change, the ticker, a stop or the end of the request.
Wake(i) ==
  /\ pc[i] = "idle" /\ changed[i]
  /\ changed' = [changed EXCEPT ![i] = FALSE]
  /\ Goto(i, "changed")
  /\ UNCHANGED <<db, calls, table, token, done, deadline, msg, leaving, last>>

\* Fault: the ticker keeps the connection alive without looking at the session.
Tick_NoCheck(i) ==
  /\ pc[i] = "idle"
  /\ msg' = [msg EXCEPT ![i] = Ping]
  /\ Goto(i, "write")
  /\ UNCHANGED <<db, calls, table, token, changed, done, deadline, leaving, last>>

\* The ticker: a ping as long as the session is valid.
Tick(i) ==
  /\ pc[i] = "idle"
  /\ msg' = [msg EXCEPT ![i] = Ping]
  /\ Goto(i, IF Authenticates(token[i]) THEN "write" ELSE "exit")
  /\ UNCHANGED <<db, calls, table, token, changed, done, deadline, leaving, last>>

Stopped(i) ==
  /\ pc[i] = "idle" /\ done[i]
  /\ Goto(i, "exit")
  /\ UNCHANGED <<db, calls, table, token, changed, done, deadline, msg, leaving, last>>

\* The request's context ends: the loop returns, and so does a query under it.
ClientGone(i) ==
  /\ pc[i] \in {"read", "auth", "idle", "changed", "check"}
  /\ Goto(i, "exit")
  /\ UNCHANGED <<db, calls, table, token, changed, done, deadline, msg, leaving, last>>

\* After a change the policy is read first,
ReadChanged(i) ==
  /\ pc[i] = "changed"
  /\ msg' = [msg EXCEPT ![i] = policy]
  /\ Goto(i, IF policy = NoPolicy THEN "exit" ELSE "check")
  /\ UNCHANGED <<db, calls, table, token, changed, done, deadline, leaving, last>>

\* Fault: the slot is emptied again once the policy has been read.
CheckSession_Drains(i) ==
  /\ pc[i] = "check"
  /\ Authenticates(token[i])
  /\ changed' = [changed EXCEPT ![i] = FALSE]
  /\ Goto(i, IF msg[i].rev = last[i] THEN "idle" ELSE "write")
  /\ UNCHANGED <<db, calls, table, token, done, deadline, msg, leaving, last>>

\* and then the session.  A session that has ended still gets an empty policy;
\* otherwise a policy with a new revision is written.
CheckSession(i) ==
  /\ pc[i] = "check"
  /\ LET valid == Authenticates(token[i])
     IN /\ leaving' = [leaving EXCEPT ![i] = ~valid]
        /\ Goto(i, IF ~valid THEN IF msg[i].grants THEN "exit" ELSE "write"
                   ELSE IF msg[i].rev = last[i] THEN "idle" ELSE "write")
  /\ UNCHANGED <<db, calls, table, token, changed, done, deadline, msg, last>>

\* Fault: the deferred function deletes whatever entry there is.
Exit_AnyEntry(i) ==
  /\ pc[i] = "exit" /\ stopping = 0
  /\ current' = 0
  /\ Goto(i, "gone")
  /\ changed' = [changed EXCEPT ![i] = FALSE]
  /\ deadline' = [deadline EXCEPT ![i] = "none"]
  /\ msg' = [msg EXCEPT ![i] = NoPolicy]
  /\ leaving' = [leaving EXCEPT ![i] = FALSE]
  /\ last' = [last EXCEPT ![i] = 0]
  /\ token' = [token EXCEPT ![i] = 0]
  /\ done' = [done EXCEPT ![i] = FALSE]
  /\ UNCHANGED <<db, calls, stopping>>

\* The deferred function: the table's entry goes only if it is this stream.  The
\* handler's local variables go with it.
Exit(i) ==
  /\ pc[i] = "exit" /\ stopping = 0
  /\ current' = IF current = i THEN 0 ELSE current
  /\ Goto(i, "gone")
  /\ changed' = [changed EXCEPT ![i] = FALSE]
  /\ deadline' = [deadline EXCEPT ![i] = "none"]
  /\ msg' = [msg EXCEPT ![i] = NoPolicy]
  /\ leaving' = [leaving EXCEPT ![i] = FALSE]
  /\ last' = [last EXCEPT ![i] = 0]
  /\ token' = [token EXCEPT ![i] = 0]
  /\ done' = [done EXCEPT ![i] = FALSE]
  /\ UNCHANGED <<db, calls, stopping>>

-----------------------------------------------------------------------------

Transaction ==
  \/ \E grants \in BOOLEAN : ChangePolicy(grants)
  \/ KeepPolicy
  \/ \E enabled, grants \in BOOLEAN : SetOwnerEnabled(enabled, grants)
  \/ IdentityConflict
  \/ \E grants \in BOOLEAN : RecoverNodeInstance(grants)
  \/ MintSession
  \/ ExpireSession
  \/ ReleaseNode
  \/ ChangeNodeDomain
  \/ DeleteNode

Write(i) == WriteOut(i) \/ WriteFails(i)

\* The steps a handler takes by itself, outside the select of its loop.
Proceed(i) ==
  \/ Register(i)
  \/ \E applied \in 0..MaxRevision : ReadPolicy(i, applied)
  \/ AuthAgain(i)
  \/ BeginWrite(i)
  \/ SetDeadline(i)
  \/ CheckDone(i)
  \/ Write(i)
  \/ EndWrite(i)
  \/ ReadChanged(i)
  \/ CheckSession(i)
  \/ Exit(i)

Next ==
  \/ Transaction
  \/ NotifyPolicy
  \/ CloseNodeStream
  \/ ExpireDeadline
  \/ \E i \in Streams :
       \/ \E t \in Tokens : Open(i, t)
       \/ Proceed(i)
       \/ Wake(i)
       \/ Tick(i)
       \/ Stopped(i)
       \/ ClientGone(i)

\* A commit is followed by its call; a handler that can go on does; the ticker
\* fires; and the select of the loop, which picks among its ready cases at random,
\* does not pass over a change for ever.  A stopped handler needs no such promise: the
\* ticker takes it to a write, which finds it stopped.
Fairness ==
  /\ WF_vars(NotifyPolicy)
  /\ WF_vars(CloseNodeStream)
  /\ WF_vars(ExpireDeadline)
  /\ \A i \in Streams : /\ WF_vars(Proceed(i))
                        /\ SF_vars(Wake(i))
                        /\ WF_vars(Tick(i))

SafetySpec == Init /\ [][Next]_vars

Spec == SafetySpec /\ Fairness

-----------------------------------------------------------------------------
(* Properties *)

\* No wake-up is lost: once every commit has made its call, the registered handler
\* that waits in its loop with an empty slot has written the newest revision.  It rests
\* on registering before the first read and on emptying the slot before each later
\* one, and on a slot of one being enough.
NoLostWakeup ==
  (current # 0 /\ pc[current] = "idle" /\ ~changed[current] /\ notifies + closes = 0)
     => last[current] = policy.rev

\* A handler that has registered and not returned is the table's entry exactly
\* when nobody has stopped it.  So stop never closes a closed channel, and a
\* handler that returns late does not take its successor out of the table.
RegisteredUnlessStopped ==
  \A i \in Streams :
    pc[i] \notin {"new", "register", "gone"} => (current = i <=> ~done[i])

\* A stopped stream does not hang in a write: once stop has returned, the deadline
\* of a write in progress has passed, whichever of the two set its deadline last.
StoppedWriteFails ==
  \A i \in Streams : (pc[i] = "writing" /\ done[i] /\ stopping # i) => deadline[i] = "past"

\* A session that has ended is not sent grants decided after its end: what a
\* handler writes was read before the session was seen valid, or is empty.
EndedSessionGetsNoGrants ==
  \A i \in Streams :
    (pc[i] = "flushed" /\ msg[i].grants) => msg[i].rev <= endRev[token[i]]

\* One stream never carries an older revision after a newer one.
StreamGoesForward ==
  \A i \in Streams : (pc[i] = "flushed" /\ msg[i] # Ping) => msg[i].rev >= last[i]

\* A deleted node has neither a policy nor a session.
Rows ==
  /\ policy = NoPolicy <=> nodeState = "deleted"
  /\ nodeState = "deleted" => session = 0
  /\ session <= minted
  /\ \A t \in Tokens : t = session \/ t > minted => endRev[t] = Never

Outside == {"new", "register", "gone"}
Sending == {"write", "arm", "armed", "writing", "flushed"}

\* The table and the done channels, with the streams that are not in the table yet or
\* no longer.
Table ==
  /\ RegisteredUnlessStopped
  /\ \A i \in Streams : pc[i] \in Outside => current # i /\ ~done[i]
  /\ stopping # 0 => done[stopping]

\* NoLostWakeup, with what the registered handler has in hand on its way to the loop.
Fresh ==
  (current # 0 /\ ~changed[current] /\ notifies + closes = 0) =>
     /\ pc[current] = "idle" => last[current] = policy.rev
     /\ pc[current] \in {"auth", "check"} => msg[current].rev = policy.rev
     /\ pc[current] \in Sending =>
          (IF msg[current] = Ping THEN last[current] ELSE msg[current].rev) = policy.rev

\* StreamGoesForward, with what is read and not yet written.
Forward ==
  \A i \in Streams :
    /\ policy # NoPolicy => last[i] <= policy.rev /\ msg[i].rev <= policy.rev
    /\ pc[i] \in {"auth", "check"} => msg[i] # NoPolicy
    /\ pc[i] \in {"auth", "check"} \cup Sending => msg[i] = Ping \/ msg[i].rev >= last[i]
    /\ pc[i] \notin {"new", "gone"} => token[i] # 0

\* EndedSessionGetsNoGrants, from the check of the session on.
Ended ==
  \A i \in Streams :
    pc[i] \in Sending /\ msg[i].grants => msg[i].rev <= endRev[token[i]]

\* The inductive invariant behind the five invariants above.
StreamInv ==
  TypeOK /\ Rows /\ Table /\ StoppedWriteFails /\ Fresh /\ Forward /\ Ended

\* Changes come to an end in the model, and then the registered stream, if there
\* is one, has delivered the newest policy and keeps it so.
Converges == <>[](current # 0 => last[current] = policy.rev)

\* A stream that is stopped, or whose session has ended, comes to its end.
StreamsEnd ==
  \A i \in Streams :
    (pc[i] # "new" /\ (done[i] \/ token[i] # session)) ~> pc[i] = "gone"

=============================================================================
