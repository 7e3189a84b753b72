---------------------------- MODULE DerperDaemon ----------------------------
(***************************************************************************)
(* The daemon and its derper child: Start, the operations that restart and *)
(* reconfigure the relay, the node's control loop as far as it can stop    *)
(* the relay, the monitors of the children, and Shutdown                   *)
(* (internal/daemon: daemon.go, local_config.go, local_cluster.go,         *)
(* node.go; internal/derper/process.go).                                   *)
(*                                                                         *)
(* opMu lets one operation run at a time; derperMu is lock.  The relay is  *)
(* configured.  Operations of the console wait until Start has returned;   *)
(* those of the admin socket need not.                                     *)
(***************************************************************************)
EXTENDS Naturals

CONSTANTS
  MaxOps,    \* bound: operations
  MaxFaults  \* bound: children that do not stop in time

ASSUME BoundsAssumption == MaxOps \in Nat /\ MaxFaults \in Nat

VARIABLES
  stopping,         \* Daemon.stopping
  childOK,          \* Daemon.childOK
  childGeneration,  \* Daemon.childGeneration
  expected,         \* Daemon.expectedChildStops
  nodeConflict,     \* Daemon.nodeConflict
  applyError,       \* Daemon.applyError is set
  fatal,            \* the channel fatal is full
  lock,             \* the holder of derperMu
  sync,             \* where its syncDerperConfig is
  halt,             \* where its Process.Stop is
  child,            \* the child of each generation
  watched,          \* generations with a monitor
  start,            \* where Start is
  op,               \* the operation that holds opMu
  ctl,              \* the goroutine of startNodeControl
  shut,             \* where Shutdown is
  reported,         \* history: children reported as failed
  ops,              \* operations so far
  faults            \* faults so far

flags == <<stopping, nodeConflict, fatal>>
children == <<childGeneration, child, watched, reported>>
threads == <<start, op, ctl, shut, ops>>
vars == <<stopping, childOK, childGeneration, expected, nodeConflict, applyError, fatal, lock,
          sync, halt, child, watched, start, op, ctl, shut, reported, ops, faults>>

\* An operation bumps the generation at most once, and so does Start.
Generations == 1..MaxOps + 1

Console == {"apply", "join", "leave", "register"}
Kinds == {"restart", "reload"} \cup Console
NoOp == [kind |-> "none", pc |-> "none"]
Ops == [kind : Kinds, pc : {"check", "ctl", "stop", "stopping", "cleared", "prepare", "sync",
                            "finish"}] \cup {NoOp}

ChildTables == [Generations \cup {0} -> {"none", "alive", "asked", "exited", "stopped"}]

FlagTypes ==
  /\ stopping \in BOOLEAN /\ childOK \in BOOLEAN /\ nodeConflict \in BOOLEAN
  /\ applyError \in BOOLEAN /\ fatal \in BOOLEAN

PlaceTypes ==
  /\ childGeneration \in Generations \cup {0}
  /\ expected \subseteq 1..childGeneration
  /\ lock \in {"free", "start", "op", "ctl"}
  /\ sync \in {"idle", "spawn", "ready", "publish", "commit", "watch", "failed", "unpublished"}
  /\ halt \in {"idle", "signal", "wait"}
  /\ child \in ChildTables
  /\ watched \subseteq 1..childGeneration
  /\ start \in {"begin", "sync", "flags", "done", "aborted"}
  /\ op \in Ops
  /\ ctl \in {"off", "run", "cancel", "conflict", "stopping", "done"}
  /\ shut \in {"no", "flagged", "ctl", "stop", "wait", "lock", "ended"}
  /\ reported \subseteq 1..childGeneration
  /\ ops \in 0..MaxOps
  /\ faults \in 0..MaxFaults

TypeOK == FlagTypes /\ PlaceTypes

Init ==
  /\ stopping = FALSE /\ childOK = FALSE /\ nodeConflict = FALSE
  /\ applyError = FALSE /\ fatal = FALSE
  /\ childGeneration = 0
  /\ expected = {}
  /\ lock = "free" /\ sync = "idle" /\ halt = "idle"
  /\ child = [g \in Generations \cup {0} |-> "none"]
  /\ watched = {} /\ reported = {}
  /\ start = "begin" /\ op = NoOp /\ ctl = "off" /\ shut = "no"
  /\ ops = 0 /\ faults = 0

-----------------------------------------------------------------------------
(* Process: the child of the present generation *)

Running == child[childGeneration] \in {"alive", "asked"}

\* command.Wait returns: the child went by itself, or was asked to.
ChildExits ==
  /\ Running
  /\ child' = [child EXCEPT ![childGeneration] = IF @ = "asked" THEN "stopped" ELSE "exited"]
  /\ UNCHANGED <<flags, childOK, childGeneration, expected, applyError, lock, sync, halt, watched,
                 reported, threads, faults>>

\* Stop finds a command and interrupts it, or finds none.
Signalled == [child EXCEPT ![childGeneration] = IF @ = "alive" THEN "asked" ELSE @]

\* Stop returns nil once the child is gone, or an error when it outlives the kill.
StopOutcome(ok) ==
  \/ ok /\ ~Running /\ UNCHANGED faults
  \/ ~ok /\ Running /\ faults < MaxFaults /\ faults' = faults + 1

\* Stop of a goroutine that holds derperMu.
Halt ==
  /\ halt = "signal"
  /\ halt' = "wait"
  /\ child' = Signalled
  /\ UNCHANGED <<flags, childOK, childGeneration, expected, applyError, lock, sync, watched,
                 reported, threads, faults>>

HaltReturns(ok) == halt = "wait" /\ StopOutcome(ok) /\ halt' = "idle"

\* Fault: the generation that comes next is marked.
Marked_Next == IF Running THEN expected \cup {childGeneration + 1} ELSE expected

\* stopRelay and restartDerper mark the child they are about to stop.
Marked == IF Running THEN expected \cup {childGeneration} ELSE expected

-----------------------------------------------------------------------------
(* syncDerperConfig *)

\* The operation ends with an error, which some callers keep and some take as fatal.
OpFails ==
  /\ op' = NoOp
  /\ fatal' = (fatal \/ op.kind \in {"restart", "reload"})
  /\ applyError' = (applyError \/ op.kind = "apply")

\* What the caller makes of the result.
SyncReturns(who, ok) ==
  \/ /\ who = "start"
     /\ start' = "flags"
     /\ applyError' = (applyError \/ ~ok)
     /\ UNCHANGED <<op, fatal>>
  \/ /\ who = "op" /\ ok
     /\ op' = IF op.kind \in {"restart", "reload"} THEN NoOp ELSE [op EXCEPT !.pc = "finish"]
     /\ UNCHANGED <<start, fatal, applyError>>
  \/ who = "op" /\ ~ok /\ OpFails /\ UNCHANGED start

Calls(who) == (who = "start" /\ start = "sync") \/ (who = "op" /\ op.pc = "sync")

\* Fault: a relay that an identity conflict has stopped is started again.
Unneeded_IgnoresConflict == Running

\* Nothing is to be done: the relay runs, or must not run.
Unneeded == nodeConflict \/ Running

NextGeneration == childGeneration + 1

\* derperMu is taken; without early return the new generation is begun.
SyncBegin(who) ==
  /\ Calls(who)
  /\ lock = "free"
  /\ \/ /\ stopping \/ Unneeded
        /\ SyncReturns(who, ~stopping)
        /\ UNCHANGED <<lock, sync, childOK, childGeneration>>
     \/ /\ ~stopping /\ ~Unneeded
        /\ lock' = who
        /\ sync' = "spawn"
        /\ childOK' = FALSE
        /\ childGeneration' = NextGeneration
        /\ UNCHANGED <<start, op, fatal, applyError>>
  /\ UNCHANGED <<stopping, nodeConflict, expected, halt, child, watched, reported, ctl, shut, ops,
                 faults>>

\* Process.Start gives a child or an error.
Spawn ==
  /\ sync = "spawn"
  /\ \/ /\ sync' = "ready"
        /\ child' = [child EXCEPT ![childGeneration] = "alive"]
        /\ UNCHANGED <<lock, start, op, fatal, applyError>>
     \/ /\ sync' = "idle" /\ lock' = "free"
        /\ SyncReturns(lock, FALSE)
        /\ UNCHANGED child
  /\ UNCHANGED <<stopping, nodeConflict, childOK, childGeneration, expected, halt, watched,
                 reported, ctl, shut, ops, faults>>

\* WaitReady: the child has answered, or has exited, or the time is over; then it is
\* stopped.
WaitReady ==
  /\ sync = "ready"
  /\ \/ Running /\ sync' = "publish" /\ UNCHANGED halt
     \/ sync' = "failed" /\ halt' = "signal"
  /\ UNCHANGED <<flags, childOK, children, expected, applyError, lock, threads, faults>>

\* publishChildIfCurrent looks whether the child still runs ...
PublishRunning ==
  /\ sync = "publish"
  /\ IF Running THEN sync' = "commit" /\ UNCHANGED halt
                ELSE sync' = "unpublished" /\ halt' = "signal"
  /\ UNCHANGED <<flags, childOK, children, expected, applyError, lock, threads, faults>>

\* Fault: a child that became ready during Shutdown is published.
MayPublish_Always == TRUE

\* The generation cannot have changed: derperMu is held.
MayPublish == ~stopping

\* ... and then, under mu, whether it is still wanted.
PublishCommit ==
  /\ sync = "commit"
  /\ IF MayPublish THEN childOK' = TRUE /\ sync' = "watch" /\ UNCHANGED halt
                   ELSE sync' = "unpublished" /\ halt' = "signal" /\ UNCHANGED childOK
  /\ UNCHANGED <<flags, children, expected, applyError, lock, threads, faults>>

\* monitorDerper gets its goroutine, and syncDerperConfig returns.
Watch ==
  /\ sync = "watch"
  /\ watched' = watched \cup {childGeneration}
  /\ sync' = "idle" /\ lock' = "free"
  /\ SyncReturns(lock, TRUE)
  /\ UNCHANGED <<stopping, nodeConflict, childOK, childGeneration, expected, halt, child, reported,
                 ctl, shut, ops, faults>>

\* The stop after a failed or unwanted start returns; its own error is dropped.
CleanedUp ==
  /\ sync \in {"failed", "unpublished"}
  /\ \E ok \in BOOLEAN : HaltReturns(ok)
  /\ childOK' = FALSE
  /\ sync' = "idle" /\ lock' = "free"
  /\ SyncReturns(lock, sync = "unpublished")
  /\ UNCHANGED <<stopping, nodeConflict, children, expected, ctl, shut, ops>>

-----------------------------------------------------------------------------
(* monitorDerper, startNodeControl *)

\* The goroutine of monitorDerper, once its child is gone and derperMu is free.
Monitor(g) ==
  /\ g \in watched
  /\ child[g] \in {"exited", "stopped"}
  /\ lock = "free"
  /\ watched' = watched \ {g}
  /\ expected' = expected \ {g}
  /\ childOK' = (childOK /\ childGeneration # g)
  /\ IF g \in expected \/ stopping
       THEN UNCHANGED <<reported, applyError>>
       ELSE reported' = reported \cup {g} /\ applyError' = TRUE
  /\ UNCHANGED <<flags, childGeneration, lock, sync, halt, child, threads, faults>>

\* RunControl returns: an identity conflict, or its context has ended (by stopNodeControl,
\* or with the daemon's own).
ControlReturns ==
  /\ \/ ctl \in {"run", "cancel"} /\ ctl' = "conflict"
     \/ ctl = "cancel" /\ ctl' = "done"
     \/ ctl = "run" /\ stopping /\ ctl' = "done"
  /\ UNCHANGED <<flags, childOK, children, expected, applyError, lock, sync, halt, start, op, shut,
                 ops, faults>>

\* Shutdown holds opMu.
ShutdownHolds == shut \in {"ctl", "stop", "wait", "lock"}

\* The conflict is recorded and the child, running or not, marked.
Conflict ==
  /\ ctl = "conflict"
  /\ lock = "free"
  /\ lock' = "ctl"
  /\ nodeConflict' = TRUE
  /\ childOK' = FALSE
  /\ expected' = expected \cup {childGeneration}
  /\ halt' = "signal"
  /\ ctl' = "stopping"
  /\ UNCHANGED <<stopping, fatal, children, applyError, sync, start, op, shut, ops, faults>>

\* Fault: the goroutine that is waited for under opMu takes opMu itself.
ConflictStop_TakesOpMu == op = NoOp /\ ~ShutdownHolds /\ Conflict

ConflictStop == Conflict

ConflictStopped ==
  /\ ctl = "stopping"
  /\ \E ok \in BOOLEAN : HaltReturns(ok) /\ applyError' = (applyError \/ ~ok)
  /\ lock' = "free"
  /\ ctl' = "done"
  /\ UNCHANGED <<flags, childOK, children, expected, sync, start, op, shut, ops>>

\* stopNodeControl cancels the loop, and waits for it in OpControlStopped and
\* ShutdownControlStopped.
CancelControl ==
  /\ op.pc = "ctl" \/ shut = "ctl"
  /\ ctl = "run"
  /\ ctl' = "cancel"
  /\ UNCHANGED <<flags, childOK, children, expected, applyError, lock, sync, halt, start, op, shut,
                 ops, faults>>

-----------------------------------------------------------------------------
(* Start and the operations *)

\* Start up to syncDerper: all is well, or prepareRole failed, or a listener did.
StartBegin ==
  /\ start = "begin"
  /\ \/ start' = "sync" /\ UNCHANGED applyError
     \/ start' = "flags" /\ applyError' = TRUE
     \/ start' = "aborted" /\ UNCHANGED applyError
  /\ UNCHANGED <<flags, childOK, children, expected, lock, sync, halt, op, ctl, shut, ops, faults>>

\* The rest of Start; there may be no node client if prepareRole failed.
StartEnds ==
  /\ start = "flags"
  /\ start' = "done"
  /\ ctl' \in IF ~Running THEN {"off"} ELSE IF applyError THEN {"off", "run"} ELSE {"run"}
  /\ UNCHANGED <<flags, childOK, children, expected, applyError, lock, sync, halt, op, shut, ops,
                 faults>>

FirstStep(kind) ==
  CASE kind = "restart" -> "stop"
    [] kind = "reload"  -> "sync"
    [] kind = "apply"   -> "check"
    [] OTHER            -> "ctl"

\* An operation gets opMu.  Shutdown waits for those of the admin socket; a request of
\* the console can outlive its server.  RegisterLocal with a pending code is an apply.
OpBegin(kind) ==
  /\ op = NoOp
  /\ ~ShutdownHolds
  /\ IF kind \in Console THEN start = "done"
                         ELSE start # "begin" /\ shut # "ended"
  /\ ops < MaxOps
  /\ ops' = ops + 1
  /\ op' = [kind |-> kind, pc |-> FirstStep(kind)]
  /\ UNCHANGED <<flags, childOK, children, expected, applyError, lock, sync, halt, start, ctl, shut,
                 faults>>

Goto(pc) == op' = [op EXCEPT !.pc = pc] /\ UNCHANGED <<fatal, applyError>>
GiveUp == op' = NoOp /\ UNCHANGED <<fatal, applyError>>
ThenApply == op' = [kind |-> "apply", pc |-> "check"] /\ UNCHANGED <<fatal, applyError>>

\* applyLocalConfig refuses the configuration, or goes on.
ApplyChecks ==
  /\ op.pc = "check"
  /\ OpFails \/ Goto("ctl")
  /\ UNCHANGED <<stopping, nodeConflict, childOK, children, expected, lock, sync, halt, start, ctl,
                 shut, ops, faults>>

\* stopNodeControl returns.  Join enrols and RegisterLocal prepares the policy, or fails.
OpControlStopped ==
  /\ op.pc = "ctl"
  /\ ctl \in {"off", "done"}
  /\ ctl' = "off"
  /\ \/ op.kind \in {"apply", "leave"} /\ Goto("stop")
     \/ op.kind = "join" /\ (GiveUp \/ ThenApply)
     \/ op.kind = "register" /\ (GiveUp \/ Goto(IF Running THEN "finish" ELSE "sync"))
  /\ UNCHANGED <<stopping, nodeConflict, childOK, children, expected, lock, sync, halt, start, shut,
                 ops, faults>>

\* stopRelay and the first half of restartDerper.
StopRelay ==
  /\ op.pc = "stop"
  /\ lock = "free"
  /\ lock' = "op"
  /\ childOK' = FALSE
  /\ expected' = Marked
  /\ halt' = "signal"
  /\ Goto("stopping")
  /\ UNCHANGED <<stopping, nodeConflict, children, sync, start, ctl, shut, ops, faults>>

RelayStopped ==
  /\ op.pc = "stopping"
  /\ \/ HaltReturns(FALSE) /\ OpFails
     \/ /\ HaltReturns(TRUE)
        /\ Goto(CASE op.kind = "restart" -> "sync"
                  [] op.kind = "leave"   -> "cleared"
                  [] op.kind = "apply"   -> "prepare")
  /\ lock' = "free"
  /\ UNCHANGED <<stopping, nodeConflict, childOK, children, expected, sync, start, ctl, shut, ops>>

\* Leave clears the registration and the cache and saves the configuration, or fails.
LeaveClears ==
  /\ op.pc = "cleared"
  /\ ThenApply \/ (op' = NoOp /\ applyError' = TRUE /\ UNCHANGED fatal)
  /\ UNCHANGED <<stopping, nodeConflict, childOK, children, expected, lock, sync, halt, start, ctl,
                 shut, ops, faults>>

\* applyLocalConfig between stopRelay and syncDerperConfig: prepareRole may fail.
ApplyPrepares ==
  /\ op.pc = "prepare"
  /\ \/ OpFails /\ UNCHANGED nodeConflict
     \/ Goto("sync") /\ nodeConflict' = FALSE
  /\ UNCHANGED <<stopping, childOK, children, expected, lock, sync, halt, start, ctl, shut, ops,
                 faults>>

\* The end of applyLocalConfig, where SetPorts may fail, and of RegisterLocal.
OpFinishes ==
  /\ op.pc = "finish"
  /\ \/ op.kind = "apply" /\ OpFails /\ UNCHANGED ctl
     \/ /\ op.kind = "apply"
        /\ applyError' = FALSE
        /\ ctl' = IF Running THEN "run" ELSE ctl
        /\ op' = NoOp /\ UNCHANGED fatal
     \/ op.kind = "register" /\ GiveUp /\ ctl' = "run"
  /\ UNCHANGED <<stopping, nodeConflict, childOK, children, expected, lock, sync, halt, start, shut,
                 ops, faults>>

-----------------------------------------------------------------------------
(* Shutdown *)

Shutdown(from, to) ==
  /\ shut = from
  /\ shut' = to
  /\ UNCHANGED <<nodeConflict, fatal, childGeneration, expected, applyError, lock, sync, halt,
                 watched, reported, start, op, ops>>

\* Run calls Shutdown when its context ends or an error is fatal, abortStart at once.
ShutdownBegin ==
  /\ start \in {"done", "aborted"}
  /\ Shutdown("no", "flagged")
  /\ stopping' = TRUE
  /\ childOK' = FALSE
  /\ UNCHANGED <<child, ctl, faults>>

\* opMu.
ShutdownLocks ==
  /\ op = NoOp
  /\ Shutdown("flagged", "ctl")
  /\ UNCHANGED <<stopping, childOK, child, ctl, faults>>

ShutdownControlStopped ==
  /\ ctl \in {"off", "done"}
  /\ ctl' = "off"
  /\ Shutdown("ctl", "stop")
  /\ UNCHANGED <<stopping, childOK, child, faults>>

\* Process.Stop, without derperMu.
ShutdownStops ==
  /\ child' = Signalled
  /\ Shutdown("stop", "wait")
  /\ UNCHANGED <<stopping, childOK, ctl, faults>>

ShutdownStopped ==
  /\ \E ok \in BOOLEAN : StopOutcome(ok)
  /\ Shutdown("wait", "lock")
  /\ UNCHANGED <<stopping, childOK, child, ctl>>

\* derperMu is taken and given back, and opMu with the return.
ShutdownEnd ==
  /\ lock = "free"
  /\ Shutdown("lock", "ended")
  /\ UNCHANGED <<stopping, childOK, child, ctl, faults>>

-----------------------------------------------------------------------------

SyncSteps == Spawn \/ WaitReady \/ PublishRunning \/ PublishCommit \/ Watch \/ CleanedUp

StartSteps == StartBegin \/ SyncBegin("start") \/ StartEnds

OpSteps ==
  \/ ApplyChecks \/ OpControlStopped \/ StopRelay \/ RelayStopped \/ LeaveClears
  \/ ApplyPrepares \/ SyncBegin("op") \/ OpFinishes

ControlSteps == ConflictStop \/ ConflictStopped

ShutdownSteps ==
  \/ ShutdownLocks \/ ShutdownControlStopped \/ ShutdownStops \/ ShutdownStopped \/ ShutdownEnd

Next ==
  \/ ChildExits \/ Halt \/ SyncSteps
  \/ \E g \in Generations : Monitor(g)
  \/ ControlReturns \/ CancelControl \/ ControlSteps
  \/ StartSteps \/ OpSteps
  \/ \E kind \in Kinds : OpBegin(kind)
  \/ ShutdownBegin \/ ShutdownSteps

\* Goroutines go on, and one that waits for a mutex which is released again and again
\* gets it (a Go mutex goes to a waiter that starves).  A child that was interrupted,
\* and killed in the end, exits.
Fairness ==
  /\ WF_vars(child[childGeneration] = "asked" /\ ChildExits)
  /\ WF_vars(Halt \/ SyncSteps)
  /\ WF_vars(CancelControl \/ (ctl = "cancel" /\ ControlReturns))
  /\ SF_vars(ControlSteps)
  /\ SF_vars(StartSteps)
  /\ SF_vars(OpSteps)
  /\ WF_vars((fatal \/ start = "aborted") /\ ShutdownBegin)
  /\ SF_vars(ShutdownSteps)

Spec == Init /\ [][Next]_vars /\ Fairness

-----------------------------------------------------------------------------

\* The daemon reports a child as failed only if nobody had asked it to stop, whoever
\* was waiting for derperMu when it went (expectedChildStops in monitorDerper).  And the
\* variables keep their types.
NoFalseAlarm ==
  /\ TypeOK
  /\ \A g \in reported : child[g] = "exited"

\* A relay shown as healthy is looked after: Shutdown has not begun, and a monitor will
\* notice the end of this very child, even one that exits while it is being published
\* (publishChildIfCurrent, monitorDerper).
HealthyIsWatched ==
  childOK => ~stopping /\ (lock = "free" => childGeneration \in watched)

\* After an identity conflict no relay serves until settings are applied anew: whatever
\* restart, reload or registration was waiting, the child is asked to stop and no other
\* is started (startNodeControl, syncDerperConfig).
ConflictStopsRelay ==
  nodeConflict /\ lock = "free" => child[childGeneration] # "alive"

\* The inductive invariant behind the three.  Where the holder of derperMu is, whether its
\* Process.Stop is under way, and when there is a control loop.
LockHeld ==
  /\ lock = "free" => sync = "idle"
  /\ lock = "start" => start = "sync" /\ sync # "idle"
  /\ lock = "op" => op.pc = IF sync = "idle" THEN "stopping" ELSE "sync"
  /\ lock = "ctl" => sync = "idle"
  /\ ctl = "stopping" <=> lock = "ctl"
  /\ op.pc = "stopping" => lock = "op" /\ sync = "idle"
  /\ halt # "idle" <=> \/ sync = "idle" /\ lock \in {"op", "ctl"}
                       \/ sync \in {"failed", "unpublished"}
  /\ op.pc \in {"stop", "stopping"} => op.kind \in {"restart", "apply", "leave"}
  /\ op.pc = "cleared" => op.kind = "leave"
  /\ ctl # "off" => start = "done"
  /\ op.kind \in Console => start = "done" /\ (op.pc \notin {"check", "ctl"} => ctl = "off")

\* Start, and the operation, may each begin one more generation until they have; there is a
\* generation once something could follow from it.
GenerationsCounted ==
  /\ childGeneration + (IF start \in {"begin", "sync"} /\ lock # "start" THEN 1 ELSE 0)
       + (IF op.pc \notin {"none", "finish"} /\ ~(lock = "op" /\ sync # "idle") THEN 1 ELSE 0)
       <= ops + 1
  /\ child[0] = "none"
  /\ nodeConflict \/ ctl # "off" \/ op.pc = "finish" \/ sync # "idle" => childGeneration # 0

\* A child is asked to stop only if it has no monitor yet, or is marked, or the daemon stops.
StopsExpected ==
  /\ \A g \in Generations : g > childGeneration => child[g] = "none"
  /\ sync = "spawn" => child[childGeneration] = "none"
  /\ sync # "idle" => childGeneration \notin watched
  /\ sync \in {"ready", "publish", "commit", "watch"} =>
       child[childGeneration] \in {"alive", "exited"} \/ stopping
  /\ halt = "wait" => child[childGeneration] # "alive"
  /\ halt = "signal" /\ child[childGeneration] = "alive" /\ childGeneration \in watched =>
       childGeneration \in expected
  /\ \A g \in watched : child[g] \in {"asked", "stopped"} => g \in expected \/ stopping
  /\ shut # "no" => stopping

\* A child shown as healthy has its monitor, or is about to get it.
HealthyOrPublished ==
  childOK => ~stopping /\ (childGeneration \in watched \/ sync = "watch")

\* Once there is a conflict no child is started, and one still alive is being stopped.
ConflictStopping ==
  nodeConflict => /\ sync = "idle"
                  /\ child[childGeneration] = "alive" => lock = "ctl" /\ halt = "signal"

DaemonInv ==
  /\ NoFalseAlarm
  /\ LockHeld
  /\ GenerationsCounted
  /\ StopsExpected
  /\ HealthyOrPublished
  /\ ConflictStopping

\* Shutdown comes to its end, no operation is left hanging and no child is left running,
\* with opMu, derperMu, the wait for the control loop and children that do not stop in
\* time in each other's way (shutdownInternal).
ShutdownEnds ==
  <>(stopping \/ fatal \/ start = "aborted") => <>[](shut = "ended" /\ op = NoOp /\ ~Running)

=============================================================================
