# A TLA+ model of UniDERP

UniDERP runs patched Tailscale DERP relays under one controller. This directory models
the parts of it in which several actors, files and transactions have to agree: how a
policy gets from the controller's database into a running relay and is acknowledged, how
a node enrols and keeps its session, how grants are agreed, how device identities are
kept current, how users, roles and console sessions go together, how the relay admits
clients and accounts for their packets, and how the daemon supervises its relay. TLC checks
small instances; TLAPS proves the safety properties, with one exception (`BudgetExact`), and
the safety part of both refinements for every value of the constants. Paths below are
relative to the repository.

## The system

One **controller** keeps all state in SQLite. The store opens one connection
(`SetMaxOpenConns(1)`, `internal/control/store.go`), so transactions are serial and atomic;
everything between two transactions, and everything after a commit, is not. A **node
host** runs the UniDERP daemon, which keeps the node's registration and policy cache on
disk, holds a control connection to the controller, and supervises the **derper**, a
patched relay that reads the cache and takes notices over a unix socket.

| Part | State | Operations | Meets |
| --- | --- | --- | --- |
| Policy cache (`cluster/cache.go`) | snapshot and watermark files | SaveCache, LoadCache, RemoveCache, ApplyPolicy | the derper, which reads both files without the daemon's lock |
| Control stream (`control/control_stream.go`) | `policyStreams`, one-slot channels, write deadlines | register, read, write, notifyPolicy, closeNodeStream, AcknowledgePolicy | every transaction that changes a policy or ends a session |
| Node control loop (`cluster/client.go`) | the connection, the policy in hand, status | receive, save, confirm, apply, acknowledge, renew | stream, cache, derper |
| Session and lease (`control/nodes.go`, `cluster/node_client.go`) | node row, `node_sessions`, `node_challenges`, registration.json | challenge, renew, heartbeat, domain change, recovery | several processes and copied disks |
| Enrolment (same files) | enrolment code and receipt, pending request | issue, challenge, enrol, reset, release | several machines with one code |
| Grants (`control/grants.go`, `policy.go`) | grant row, policy entry | request, approve, confirm, cancel, reject, revoke, leave, expiry | operations on users, tailnets and nodes |
| Identity (`control/identity_store.go`, `identity_sync.go`, `credentials.go`) | credential, snapshot, events, busy marks | poll, refresh, add, replace, delete | the upstream API, buildPolicy |
| Derper (`patches/tailscale/uniderp.patch`) | policy in force, bindings, packet queues | load at start, apply, admit, reap, schedule | cache, socket, clients |
| Daemon (`daemon/daemon.go`, `derper/process.go`) | the derper child and its generation, the control loop | start, sync, reload, restart, apply, join, leave, shut down | the child's own exit, an identity conflict |
| Users and sessions (`control/auth.go`, `http.go`) | users, console sessions, table of login attempts | setup, login, change of role, password and state, recovery | each other between a request's reads and its transaction |
| HTTP handlers, console, CLI, configuration | none that other parts depend on | decoding, rendering, validation | the operations above |

What is hard about it: two files that are replaced one after the other with a reader
between; notifications that follow a commit in a step of their own; requests that
outlive their sender, and answers that are lost after a commit; a network request
between two transactions; leases, restarts and copied disks; clocks that are set back.
`PROJECT.json` lists these hazards at their lines with the properties aimed at them.

## Modules

| Module | Models | Role |
| --- | --- | --- |
| `PolicyValues` | identity, revision and content of a policy; when one may follow another | shared by the next two |
| `PolicyRegister` | what the cache promises: one register that only moves forward | abstract specification |
| `PolicyCache` | the two files, the daemon's calls, the derper's reads, the clock | implements `PolicyRegister` |
| `ControlStream` | handlers, stream table, notification and closing after a commit | the controller's side in detail |
| `PolicyControl` | database row, stream, node loop, cache, derper and acknowledgements together | composition |
| `NodeSession` | challenges, renewal, lease, domain change, copied disk | |
| `Enrollment` | codes, challenges, two-transaction enrolment, receipt, release | |
| `Grants` | one grant's life and its entry in the node's policy | |
| `IdentityRefresh` | workers and owners around the identity snapshots | |
| `DerperDaemon` | the daemon's goroutines around the derper child, two mutexes, shutdown | |
| `Admission` | what the relay promises about its clients | abstract specification |
| `DerperServer` | bindings, handshake, reaping, timer, send queues and byte budgets of the patched relay | implements `Admission` |
| `Accounts` | users, roles, passwords, console sessions, ownership of nodes | |
| `ControlStreamProofs`, `PolicyControlProofs`, `NodeSessionProofs`, `EnrollmentProofs`, `AccountsProofs`, `DerperServerProofs` | theorems about the module of that name | |
| `PolicySourceProofs` | theorems about `IdentityRefresh` and, as the instance `Grant`, `Grants` | |
| `NodeHostProofs` | theorems about `PolicyCache` and, as the instance `Daemon`, `DerperDaemon` | |
| `MCPolicyCache`, `MCNodeSession`, `MCIdentityRefresh`, `MCDerperServer`, `MCAccounts` | constants and symmetry for TLC | |

**PolicyCache.** `mark` and `snapshot` are the files, `pc` and `saving` the one call that
`cacheMu` lets the daemon make. `SaveWatermark` and `SaveSnapshot` are the two halves of
SaveCache; each can fail before or after its rename. `LoadCache` also moves the
watermark's time. `RemoveSnapshot` and `RemoveWatermark` are RemoveCache, which goes on
after an error. `DerperReadMark` and `DerperApply` are the derper's two reads. A digest is
the policy it is the digest of: no two contents share one.

**ControlStream.** One handler per request, with a place in `pc` for every point at
which another goroutine can come between. `Transaction` collects the commits that touch
the policy or the session; each leaves a call of notifyPolicy or closeNodeStream due
(`notifies`, `closes`). `stopping` is the moment between closing `done` and moving the
write deadline. Intermediate reads of one policy row are single steps because they are
single queries.

**PolicyControl** joins the parts. The stream is an ordered inbox, which `ControlStream`
justifies (`StreamGoesForward`, `Converges`); the cache is `held` with a bit for a
readable snapshot, which `PolicyCache` justifies (`ImplementsRegister`). This use of the
other modules' results is an argument, not a refinement that is checked. Requests wait in
`wire` until they are processed or lost, also after the sender has given up.

A handler authenticates the node (`Connect`) and enters the table later (`Register`), without
the database. DeleteNode and ChangeNodeDomain look for the stream (`LookForStream`) and let
`policyMu` go before they write and commit; `removal` is what the look has found. Their
transaction has the one connection of the database from the look to its end, so that every
step that needs the database waits (`DatabaseFree`), while streams register and end, daemons
restart and derpers take late notices. Left out: an error of Leave before it has cleared the
registration (`local_cluster.go:57-64`), which leaves a node with its control loop stopped
until settings are applied (that part is in `DerperDaemon`), and the owner's `enabled` flag,
which `ControlStream`, `NodeSession` and `Enrollment` have.

**NodeSession.** A process (`proc`) has a fresh instance id and works on a disk; two
disks are an original and its copy. Time is kept as what is left of a lease or a wait.
`RenewNodeSession` is one transaction for a plain renewal; for a domain change `CheckDomain`,
`VerifyDomain` and `VerifyFails` are its two transactions with the proof between.
`LateRequests` says whether a request may be processed after its process has died.
`enabled` is the owner's flag, without which challenge, renewal and heartbeat are refused
(`SetUserEnabled`).

**Enrollment.** A machine stands for its key and instance id and has one call at a time
(`EnrollmentClient.mu`). `EnrollNode` is the first transaction, including the receipt
for a repeated request, and `Register` the second. A request ends with its connection,
because the handler works under the request's context; what was committed stays. Whether
a refused request is over is decided by the machine's own clock, which may disagree with
the controller's: `Rejected` allows both outcomes. While the owner is disabled the
receipt is refused too; a machine that posts its request again just then, with its
challenge over, drops the request, and with it the way to the session it was given. So does
an operator who resets the machine. `AnswerInReach` excepts these two (`dropped`).

**Grants.** One node, one tailnet. A request carries the revision its sender saw, any
revision the grant ever had. `Entry` is buildPolicy's decision and `BuildPolicy` its use
at the end of a transaction; operations that do not call it leave `entry` alone.

**IdentityRefresh.** `job[t]` is a refresh on its way: taken by a worker, its first
transaction done, answered, result sent. `calls` are AddTailnet and ReplaceCredential
between their fetch and their transaction. A device list is known by its version.

**DerperDaemon.** `start`, `op`, `ctl` and `shut` say where Start, the operation that
holds `opMu`, the goroutine of startNodeControl and Shutdown are; `lock` is the holder of
`derperMu`, `sync` and `halt` where its syncDerperConfig and Process.Stop are. `child`
keeps every generation apart, so that an exit can be told from a stop ("exited" against
"stopped"), and `watched` are the monitors that still wait. Configuration, enrolment and
certificates are steps that succeed or fail; the relay is configured. An operation of
the console begins only once Start has returned, although the code does not enforce
this (see the hazard at `daemon.go:173`). For the
same reason `StartBegin` decides at once what Start asks again at `daemon.go:163`, after the
admin socket is open: whether prepareRole has left an error.

**DerperServer.** What the code does under `Server.mu` is one step. A connection reads its
binding (`Bind`) and registers later (`Register`), with policies possibly applied between.
From then on packets are queued for it, but its sender starts only when the server info is
written (`StartRun`). If that write fails, accept unregisters the client (`HelloFails`) and
nobody empties the queue: packets that came in between keep their bytes reserved.
`NoPacketStranded` excepts this queue, and `BudgetExact` counts its packets as held.
A clock reading has a wall and a monotonic part; `until` is compared with the first and
`deadline` with the second. The machine may be suspended or its wall clock set back, but not both.
`uniderpClockBad` is left out: with the standard clock the patch compares monotonic
readings, which do not run back (the repository's test of it installs a clock of its own).
The scheduler is a wait that ends, and a client's two queues are one.

**Accounts.** `req` holds what each console request or login has read so far; every read
before the transaction is a step. A refusal ends the request and changes nothing. A
session row carries, as history, the role and password it was opened under. RecoverAdmin
is two transactions with `recover` between.

## Runs

| Run | Configuration | Shows |
| --- | --- | --- |
| `cache` | PolicyCache.cfg | LoadCache never goes behind a successful save (`LoadReturnsNewest`), small clock steps do not add up (`ClockNeverRunsBack`), both readers see one register (`ImplementsRegister`) |
| `stream` | ControlStream.cfg | no wake-up is lost, the table holds the stream nobody has stopped, a stopped stream does not hang in a write, ended sessions get no later grants, revisions go forward, the newest policy is delivered, dead streams end |
| `policy` | PolicyControl.cfg | acknowledgements are true, a node whose stream the removal has found is drained before it is removed, the derper goes forward, the newest policy settles |
| `grants` | Grants.cfg | active means agreed in this round; the stored policy is never out of date |
| `session` | MCNodeSession.cfg | a running lease is not taken over, even with late requests and a copied disk |
| `session_restart` | NodeSessionLive.cfg | a node that restarts does not conflict with itself and gets its session back, if requests die with their process, its owner is enabled and the answer to a domain change is not lost |
| `session_late_heartbeat` | NodeSessionLate.cfg | violated: see Findings |
| `enrolment` | Enrollment.cfg | a code makes one session, its holder is the node, a lost answer can be had again, the key is pinned |
| `identity` | IdentityRefresh.cfg | snapshots belong to the present credential, shared keys are not admitted, refreshes go forward, identities settle |
| `daemon` | DerperDaemon.cfg | no stopped child is reported as failed, a healthy relay is watched, a conflict keeps the relay down, shutdown ends without a child |
| `derper` | DerperServer.cfg | the relay keeps the promise of `Admission`, authorization gets no overtime, byte counters are exact and within budget, no packet waits for a sender that has ended, connections end |
| `accounts` | Accounts.cfg | only admins and providers own nodes, a session's user is as login saw them, there is one admin |

Type correctness is the first conjunct of one invariant in each run, or proved: it is in
`AckSound`, `LeaseKept`, `CodeOnce`, `KeysOfCredential`, `NoFalseAlarm` and `BudgetExact`.

`CHECK_DEADLOCK FALSE` is set where the model may stop: when its bounded changes and
faults are used up, everyone is idle. `cache` and `accounts` check deadlock.

### Bounds

Each bound is a named constant.

- `cache`: two identities, two contents of one revision and a newer revision are the
  cases SaveCache tells apart; clock 0..2 with tolerance 1 allows a step within and one
  beyond it, and two steps that add up.
- `stream`: two streams, so that a handler is replaced and returns late, two sessions and
  two revisions, so that a change can follow the end of a session, one call pending after a
  commit. `MaxHandlers` = 1: no transaction commits while a handler and its successor are
  both at work, though a call that is already due is made and deadlines pass. Without that
  bound the invariants hold for two streams and one session (861,220 states), but the
  liveness properties take too long to check; the proofs need none of these bounds.
- `policy`: three revisions (one applied, one in hand, one newer), two sessions (before
  and after joining again), two faults, so that one can hit the recovery from another. One
  handler at a time is between its authentication and the table; `ControlStream` has more.
  1,076,872 states, among them a stream that ends, one that registers and a daemon that
  restarts between a removal's look and its commit.
- `grants`: five revisions suffice for request, approval, confirmation, end and a second
  request; one user is an administrator and the provider. The proofs cover the rest.
- `session`: three processes, so that two can compete after the first; symmetric in
  those that start later. Two open challenges in place of eight: the limit is reached.
  `session_restart` has one disk and three nonces: two open challenges beside the session's
  token, which reaches the limit; a second restart that gets up, a completed domain change
  and a lost answer all occur.
- `enrolment`: two machines, two codes, three challenges, two faults; two open
  challenges in place of eight.
- `identity`: two tailnets, the second added later and sharing a key with the second
  version of the first's list; one worker, so that the queue is contended; two credential
  revisions, one call and one fault. `refresh_seq` goes on at 1 after `MaxSeq`; a
  tailnet has one refresh at a time, so that no sequence number is met twice by one.
- `daemon`: two operations after Start make three generations, so that the monitor of one
  can be late for the next but one; one child that does not stop in time. Shutdown and
  the identity conflict need no bound.
- `derper`: two clients with keys of their own, two tailnets, queues of one packet, so that
  a packet displaces a head; two bytes per tailnet and three per group, fewer than the four
  packets that queues and senders can hold, so that both limits are met.
- `accounts`: two users, two requests, one node; one login attempt and one entry, so that
  both limits are met. The proofs cover the rest.

### Fairness

- `ControlStream`: a committed call of notifyPolicy or closeNodeStream is made, deadlines
  pass, tickers tick and handlers go on (weak). The `changed` case of the `select` gets strong
  fairness: Go chooses at random among the cases that are ready.
- `PolicyControl`: goroutines go on, among them an open removal and a handler on its way to
  the table, and timeouts expire (weak fairness). Faults are bounded, so the runs speak of
  what happens after the last one. `Settles` excepts every behaviour in which a failure was
  recorded at some time, and says nothing of the event that records it: an "applied" that
  comes late can close the event of a newer failure (`control_stream.go:326`).
- `NodeSession`: every request has its goroutine and challenges run out (weak); a process
  that is to renew keeps trying, and succeeds in asking if there is room again and again
  (strong).
- `IdentityRefresh`: the ticker looks at every tailnet again and again and a worker takes
  the tailnets that are due; workers finish, since requests have timeouts. Strong fairness
  per tailnet reflects that a tailnet stays due until it is taken, while the due times of
  the others lie in the future after each refresh. It is an assumption about load: the
  tailnets that are due are taken in the order of their ids (`ORDER BY t.id`), and if refreshing
  took longer than the pause between refreshes, those with high ids could wait for ever.

- `DerperDaemon`: goroutines go on; those that wait for `derperMu` or `opMu` get it in the
  end (strong), since a Go mutex goes to a waiter that starves. A child that was
  interrupted and then killed exits; RunControl returns when its context ends; Run takes
  a fatal error. Monitors need no fairness for `ShutdownEnds` and get none.

- `DerperServer`: the timer fires; the first write to a connection that reap has closed
  returns; senders go on; a sender that is to end takes that case of
  its `select` in the end (strong), since Go chooses at random among those that are ready.

No fairness is assumed of owners, clients, the upstream API or faults.

## Proofs

A theorem about a module that is instantiated names its properties with the instance:
`Grant!ActiveByConsent` is the `ActiveByConsent` that the run `grants` checks, and
`Daemon!NoFalseAlarm` the `NoFalseAlarm` of the run `daemon`.

`NodeHostProofs`. Of `PolicyCache`, from `IssuedAssumption`, `TimeAssumption`, `NoneAssumption` and the
assumptions of `PolicyValues`: `TypeCorrect`, `LoadSafe`, `ClockSafe` and
`CacheImplementsRegister`, for any identities, contents, revisions and clock. The
inductive invariant `CacheInv` adds to the types that the watermark describes the policy
whose digest it carries (`MarkMatches`), that it stands for the snapshot still due
(`SaveInProgress`), that it never falls behind a successful save (`MarkCoversSaved`), and
that its time is that of the cache's latest use (`MarkTime`). They are needed because a
load trusts nothing but the watermark: the properties follow from what the watermark
says, and each step keeps it saying so. The rest is `Follows` being transitive.

Of `DerperDaemon`, in the same module, from its `BoundsAssumption` as a hypothesis of each
theorem: `DaemonInvariant`, `AlarmsTrue`, `HealthyWatched` and `ConflictStops`, for any number
of operations and faults. `DaemonInv` adds where the holder of `derperMu` is (`LockHeld`),
that no more generations begin than Start and the operations can begin
(`GenerationsCounted`), and that a child is asked to stop only if it has no monitor yet, is
marked, or the daemon stops (`StopsExpected`): monitorDerper looks at the mark long after the
stop, so the mark must have been there first.

`ControlStreamProofs`, from `BoundsAssumption`: `StreamInvariant`, `WakeupKept`,
`TableRight`, `StopReachesWrite`, `EndedSessionSafe` and `RevisionsForward`, for any number
of streams, sessions and revisions. `StreamInv` says of a handler on its way what the
properties say of one that has arrived: `Fresh` (what it has in hand is the newest policy,
unless a call is still to come or its slot is full), `Forward` and `Ended`; `Table` adds the
streams outside the table and `Rows` the node's row and its sessions.

`AccountsProofs`, from `ConstantsAssumption`: `AccountsInvariant`, `OwnersProvide`,
`SessionsEnd` and `AdminUnique`, for any users, requests and nodes. `AccountsInv` adds that
a session carries its user's present version, and that a login which has compared the
password and has not inserted its session holds a version that tells whether the user has
changed since (`LoginsCurrent`).

`NodeSessionProofs`, from `ConstantsAssumption`: `LeaseSafe`, for any processes, disks and
nonces and any length of the lease. `LeaseInv` adds that a promise never outlasts the lease,
and that tokens tell the instances apart: a challenge's nonce is in use nowhere else, a disk
or a heartbeat that carries the present token belongs to the present instance, and running
processes have disks of their own. Without that a heartbeat could extend the lease of one
process in the name of another.

`RestartNoConflict`, in the same module, is `ConflictMeansCopy` under the hypothesis that
requests die with their process (`~LateRequests`); without it the property is false, which is
finding 1. `CopyInv` says that whoever asks for a session has waited, and that a process which
shares its disk with the node's instance waits for as long as that one's lease runs.

`EnrollmentProofs`, from `ConstantsAssumption`: `EnrollInvariant`, `CodeUsedOnce`, `HolderSafe`, `AnswerKept` and
`KeyStays`, for any machines and nonces. `EnrollInv` adds that a nonce belongs to one machine,
whether it is still in a request or already the token of a session, and that the row agrees
with the receipt of the present code: EnrollNode compares with the receipt only.

`PolicyControlProofs`, from `BoundsAssumption`: `ControlInvariant`, `AcknowledgedSound`,
`DerperForward` and `RemovedDrained`. `ControlInv` follows a policy along its way: everything in hand, in the
stream, on disk or in the derper came from the database (`FromDatabase`), and what an
acknowledgement under way claims is already true of the node that holds the session. A
removal that has found the stream has found the newest, empty policy applied, and while its
transaction is open no newer one is decided: cache and derper have that one (`RemovedDrained`).

`PolicySourceProofs`. Of `IdentityRefresh`, from `ConstantsAssumption`: `RefreshInvariant`,
`KeysCredited`, `KeysAdmittedOnce` and `RefreshesForward`, for any tailnets, device lists,
workers and calls. `RefreshInv` adds that no version stored or on its way is newer than the
upstream list, and that a refresh which is out was begun under a revision of the row's
credential: while it is still the same one, the row has no newer list than the answer. Of
`Grants`, from its `UsersAssumption` and `BoundsAssumption`, which are hypotheses of each
theorem (`GrantConstants`): `GrantInvariant`, `GrantTypes`, `ConsentSafe` and `PolicyCurrent`, for any users,
revisions and clock. `GrantInv` adds `Progress`, how far consent has come in each state (an
approval that will count must already lie after the request it answers), and `Paused`: a
node waiting for a domain proof is paused, which is why the two operations on domains may
leave the policy alone.

`DerperServerProofs`, from `ConstantsAssumption`: `RelayInvariant`, `NoKeyOvertime`,
`NothingStranded` and `RelayImplementsAdmission`, the refinement of `Admission` without its
fairness, action by action. `RelayInv` adds that at most one of the two clocks is behind real
time and by one (`OneClockBehind`), that a binding's deadlines are no later than its key's
limit allows (`DeadlineTight`), and where a sender and its packets can be (`SenderPlaced`).
It says nothing of the byte counters.

Only model-checked: the liveness properties `Converges`, `StreamsEnd`, `Settles`,
`RenewalSucceeds`, `IdentitySettles`, `ShutdownEnds` and `ConnectionsEnd`, and the fairness in
`ImplementsAdmission`; and `BudgetExact`, a sum over queues of any length, which needs
induction over data. Liveness under fairness, ENABLED and such induction are outside what the
installed provers can do.

## Findings

1. `session_late_heartbeat`: CHANGELOG.md says a restarted node waits for the complete
   prior lease. A heartbeat of the old process committed after the new one has started
   gives a lease that outlasts the wait, and the node meets an identity conflict.

Limitations without a run of their own, each named by the property that excepts it:

- If the answer to a proven domain change is lost, the node keeps the old domain and refuses
  every later challenge until the owner acts (`Stranded` in `RenewalSucceeds`).
- A stream that registers after DeleteNode or ChangeNodeDomain has looked at the table and
  before it commits is not seen, and the node is removed although its relay may have grants
  in force. The repository's README.md:187 asks a connected relay to acknowledge an empty
  policy first; the code asks it of a relay that is connected at the look
  (`DrainedBeforeRemoval`). The stream ends when the handler next asks for its session.
- A machine that posts its enrolment again while the owner is disabled can lose the way to
  its session (`AnswerInReach`).
- A client whose server info cannot be written leaves the packets queued for it behind
  (`NoPacketStranded`).

## Not modelled

The relay's traffic scheduler, mesh, metrics and several connections of one key; NodeQoS
settings; ports; reports, rates, probes and the DERP map, which are shown to users and decide
nothing; the configuration file and certificates, which are parsed and validated in one
goroutine; HTTP decoding, console pages, CLI and logging; DNS, TLS, HTTP and encryption,
which are steps that succeed or fail. Password hashes, signatures and tokens are modelled
by what they tell apart or bind. In `IdentityRefresh` the delay before the next refresh, the
count of failures and expiry events are left out. In `Enrollment` copies of one request do
not overlap. Policies are opaque except where their grants matter.

## Plan

In this order:

1. `PolicyControl` against `PolicyRegister` with its `held`, so that the composition is
   checked and not argued.
2. The scheduler of the patch, as functions checked against a reference definition over
   bounded inputs.
3. Start against operations of the console in `DerperDaemon`, with the two fields
   `nodeCancel` and `nodeDone` that startNodeControl writes without `opMu`.
