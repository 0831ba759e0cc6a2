# TLA+ models of telemux

telemux keeps the users of an MTProxy cluster in PostgreSQL and brings every
node's telemt to them: read the desired users, list the node's, compute the
difference, apply it. This directory holds TLA+ models of that program, TLC
configurations that check them on small instances, and TLAPS proofs.
`PROJECT.json` lists the runs, the source lines behind every definition, the
hazards each property is for, and the theorems.

    tlc -workers 2 -config SyncNodeSafety.cfg MCSyncNode.tla
    tlapm SyncNodeProofs.tla

## The system

| component | source | state | operations | how it interacts |
|---|---|---|---|---|
| diff engine | `internal/telemtsync` | none | `ComputeDiff`, `ExpirationEquals`, `IsMassDelete` | called by the pass |
| node client | `internal/telemt` | none (10 s timeout) | `ListUsers`, `ApplyOp` with If-Match, `APIError` | HTTP to telemt |
| users table | `internal/store` | table `users` | create, delete, set expiration, enable, `ListDesired`, page | SQL; written on the primary only, replicated |
| pass | `internal/sync` | locals of `SyncNode` | list, diff, guard, apply, retry on conflict | reads the table, changes the node |
| daemon | `internal/server` | `dirty`, `runMu`, `lastSync` | handlers, `markDirty`, `runSync`, `syncLoop`, `Run` | handlers wake the loop; loop and `POST /api/sync` run passes |
| role | `internal/role` | none | `Detect` | asks PostgreSQL before each write and heartbeat |
| cluster | `internal/server/cluster.go`, `internal/store/nodes.go` | tables `nodes`, `join_tokens` of each database | heartbeat, join token, join | replicas post heartbeats to the node of their `MasterURL`; the tables are replicated |
| sessions | `internal/server/auth.go` | map of tokens in the process | login, logout, lookup with expiry | wraps the panel's routes |
| dashboard | `internal/server/web/src` | React state of `App` and `Dashboard`; the browser's cookie | mount, refresh every 15 s and after a command, commands, login, logout | fetches of the HTTP API, answered in any order |
| self-update | `internal/selfupdate` | the binary and `.bak` | `Update`, `swapBinary`, `Rollback` | GitHub Releases, the file system |
| command line | `cmd/telemux` | none | `serve`, `sync`, `update`, `probe`, `role` | a second process beside the daemon |

What makes it hard: the desired users are read once per pass and grow stale;
the daemon, a command line and an operator change the same node; a request that
timed out may be processed afterwards; the retry starts over after some
operations were applied; a process dies between two operations; wake-ups are
debounced; the heartbeat shares a goroutine with the passes; the binary is
replaced by two renames; a promoted database may lag behind the one it follows;
the dashboard's fetches overlap, outlive the component that started them and
meet sessions that ended meanwhile.

What makes each part correct: the diff is exactly what is out of sync, and its
order never empties a node; a pass never works from a stale list and reports
what it did; foreign users are never deleted and a wipe needs `--force`; the
node ends up in sync when it is left alone; no answered write is forgotten; of
the daemon's own passes none undoes a newer one (another process's may, for a
while); an update installs only what it verified and loses no binary; a join
token lets one node in; a session that
ended stays ended and its tab goes to the login; a dashboard shows its own
session's data, the effect of its commands, and in the end the truth.

## The modules

| module | models | kind |
|---|---|---|
| `TelemtSync` | `diff.go`, and what one operation does to a node (`ApplyOp`) | operators over tables |
| `Store` | the statements of `users_crud.go`, `ListDesired` | operators over tables |
| `SyncNode` | `sync.go` with the client's answers, any number of processes over one node | state machine |
| `Reconciler` | what a pass promises | abstract specification |
| `Daemon` | `server.go`, `users.go`, the heartbeat's sender in `cluster.go` | state machine |
| `SelfUpdate` | `selfupdate.go`, `telemux update` | state machine |
| `Installation` | what an update promises whoever starts the program | abstract specification |
| `Sessions` | `auth.go` | operators and actions on the map of tokens |
| `Panel` | `App.tsx`, `api.ts`, `main.tsx`, and the daemon's side of their fetches; extends `Sessions` | state machine |
| `Cluster` | `cluster.go`, `nodes.go`, their tables in several databases | state machine |
| `MCSyncNode`, `MCDaemon`, `MCSelfUpdate`, `MCPanel`, `MCCluster` | small instances | TLC |
| `TelemtSyncProofs`, `SyncNodeProofs`, `ReconcilerProofs`, `DaemonProofs`, `SelfUpdateProofs`, `PanelProofs`, `ClusterProofs` | theorems | TLAPS |

An operator that begins with "Mutant:" in its comment is a wrong variant of the
definition that follows it. No specification uses one: with it in the place of
the right one, TLC must find a property violated (`PROJECT.json`, "mutants").

**TelemtSync, Store.** A list of users is a function from names to a record or
`Absent`. A list of operations is a set with the order creates, patches,
deletes (`Rank`, `First`); within a kind any order is allowed, which covers the
one the code happens to use. Dates are spellings; `Instant` says which moment a
spelling denotes (or that it does not parse) and `Stored` how telemt spells it
back. `patchFieldsFor` is the set of the fields that are sent. The guard
compares integers (percent) where the code compares floats. Secrets are left
out: no list returns them and the diff never reads them.

**SyncNode.** One record of locals per process: `des` (read once, at `Start`),
`rev` (the revision sent as If-Match), `attempt`, `todo`, and the result. The
revision is a hash of telemt's configuration, so it is the table itself: a node
that went away and came back has the same revision, as in the program. The
counters of the result are sets of operations, so that a property can say which.
Actions: `Start`/`StartFails` (`ListDesired`), `List`/`ListFails` (`ListUsers`,
diff, guard, mode), and one per outcome of `ApplyOp`: `Apply`, `Skip` (already
done), `StopReadOnly`, `Conflict` (start over, or give up), `Refuse` and
`NoAnswer` (counted as failures, the loop goes on). telemt is external: it
accepts a request that it has no reason to refuse (`Refusals`) and may give any
reason that applies. A request without an answer was lost, or stays in `late`
and is processed later. `Crash` ends the process anywhere. The world writes to
the database (`Create`, `Delete`, `Renew`, `Enable`), edits the node, switches
it to read-only.

**Reconciler.** The node's users change one at a time, from disagreeing with an
intent to agreeing with it; an intent is what the database wanted of a user when
somebody read it. An old intent may still win (that is what the code does: a
pass keeps `des` over its retries); a change nobody asked for may not happen.
`SyncNode` maps to it with `intents` = what the passes under way have read and
what the late requests carry.

**Daemon.** The database is a version, the number of its changes. A handler
checks the role, commits, then marks dirty and answers; a pass takes `runMu`,
reads a version and succeeds (the node is at that version) or fails (it is not;
what it changed half-way is `SyncNode`'s matter). The read itself may fail
(`ReadFails`): the pass ends without a version, and if the loop took a signal
for it, that is used up. `missed`, for the properties alone, is the highest
version answered for when the loop's read failed with no signal left. The loop
is at `beat` (heartbeat), `sync` (in a pass) or `wait` (its `select`). `Hang` is
a heartbeat that is never answered: `http.DefaultClient` has no timeout.
`Restart` may come anywhere; nothing waits for the loop at shutdown. Failovers
switch `primary`. A version never goes back: a promoted replica is assumed to
have every change.

**SelfUpdate.** Files are what they contain. Each updater goes through fetch,
sums, binary, verify, write, backup, install; the release may change between two
requests, a download may be damaged, a rename may fail (both renames whose
error the code ignores may), a process may be killed between two steps, and
`Rollback` may be called at any time. `unsaved`, for the properties alone, is
who has lost the rename to `.bak`. A loss of power is not modelled: the
temporary file is renamed without having been synced, so that after one the
file in place may be empty, which the model's kill cannot show.

**Installation.** The same without updaters, files and renames: a current build
and perhaps a backup, replaced in one step, by a build an update under way has
read the sums of, or by the predecessor once something has gone wrong.
`SelfUpdate` maps to it with `current` = the file in place, or `.bak` when there
is none (`Current`), `backup` = what is found besides (`Spare`), `asked` = the
sums of the updates between their download and the installation, `mishaps` =
faults and rollbacks. The two renames become one step: the first changes nothing
of what such a start finds but drops the older backup (`Discard`), the second is
`Install`. So this is the part of "atomic" that the program does keep (`SwapGap`
is the part it does not).

**Sessions.** What became of each token: not yet issued, live, expired (24 hours
are over, but the map still has it: the program removes an expired entry only
when its own cookie comes back, in `valid`), or gone. `Check` is the middleware's
lookup, `Forget` a restart of the process.

**Panel.** A tab shows nothing, the login or a dashboard. A call is one
`async` function under way: its kind, the tab it belongs to, whether its
component is still mounted, the cookie it was sent with and what it has got of
each request it waits for. A request is *served* by the daemon (`Serve...`: the
cookie is checked, the version read or the command done) and its function runs
on when it has what it awaits (`Apply`, `Reject`, `...Answered`): between the
two anything may happen, and calls settle in any order. `refresh` is two halves,
`Promise.all` of four requests and then the nodes, asked whatever came of the
first unless it was a 401. An error rejects `Promise.all` at once, so it is the
answer to everything the call still waits for. Instead of data there are
versions, counters of the changes of each thing: the property of a dashboard is
how old what it shows is. The role is a version too, even for a master. The
total and the page of the users are read by two statements, in this order.
Showing another screen replaces the tab's components: what is under way keeps
running (`Unmounted`), its own state setters do nothing, but the setter of `App`
it may call, `setNeedLogin`, is still there. `Change` stands for everything
the panel does not do. React's strict mode, which doubles effects, exists in development builds
only; reloading the page is a new tab with the same cookie.

**Cluster.** Every node has its own two tables; the primary's accept writes,
`Replicate` brings a standby to what the primary has, `Failover` promotes a
standby with what it has. `MasterURL` is chosen once per node, in the initial
state, and may lead to any node, itself included, or nowhere. A heartbeat asks
for the role (`Detect`), then writes its own row (`ReportSelf`) or is posted and
received later (`Receive`), on a node that may no longer be the primary: then the
upsert fails and nothing changes. A restart leaves a posted heartbeat on the wire
(`late`). Joining is two steps: the statement of `ConsumeJoinToken` commits
(`Admit`), and the handler writes the bundle (`SendBundle`). Between them the
daemon may die (`Restart`), and the statement may commit while its answer is lost
(`AdmitUnnoticed`, a 503): a used token need not have given a bundle. Whether a
bundle that was sent arrives is left open, so `bundles` counts those sent. Nodes
without a `SelfCode` are left out: they send no heartbeats. `forgotten` is for the
properties alone: the tokens whose use a failover lost, that is PostgreSQL's
asynchronous replication and not the program.

## The runs

| run | instance | shows |
|---|---|---|
| `SyncNodeSafety` | daemon and forced command line, 3 users (2 managed), 3 starts (in sync; full replacement; empty database), 1 retry, 2 events | `TypeOK`, `TodoIsTheDiff`, `ReplacementNeverEmpties`, `MassDeleteNeedsForce`, `ReportIsExact`, `ForeignNeverDeleted`, `PassesEnd`, `ImplementsReconciler` |
| `SyncNodeInputs` | one pass from every pair of tables over 2 users, 3 spellings, a limit, disabled users | `DiffIsExact`, `UndisturbedPassSucceeds` |
| `SyncNodeConverges` | daemon and command line, full replacement, 2 events | `Converges` |
| `Daemon` | 2 handlers, the loop, one caller, 2 changes, 2 failures | `TypeOK`, `NoLostWakeup`, `NeverGoesBack`, `WritesAreRead`, `ChangesReachTheNode` |
| `SelfUpdate` | 2 updaters, 2 new builds, 2 publications, 2 faults, 1 rollback | `TypeOK`, `OnlyVerified`, `ACopySurvives`, `AllOrNothing`, `ImplementsInstallation` |
| `Panel` | one tab, with and without a password, 2 calls under way, 2 tokens, 1 change, 1 click, 1 fault | `TypeOK`, `LogoutRevokes`, `PageFollowsTotal`, `NoCarryOver`, `BusyHasCommand`, `DeadStaysDead`, `ReadYourWrites`, `DeadSessionLeaves`, `ShowsTheTruth` |
| `Cluster` | 2 nodes, every configuration of their URLs, 1 token, 2 failovers, 1 fault | `TypeOK`, `OneBundle`, `SettledUntilFailover`, `RegistryTruthful` |
| `ForeignTouched`, `ErrorsDropped`, `HeartbeatHangs`, `SwapGap`, `OpenMode` | as above, smaller | a statement of the documents that the code does not keep (below) |

Bounds. `MaxEvents` counts what the world does (writes, edits, failures); the
passes themselves are not bounded. Two events are enough for a change after the
listing together with a lost request or a crash, and two processes for every
overlap of a pass with another one's: the invariants relate one pass, the node
and one other actor. More users than three add no new case, since operations are
per user and only the guard and the last-user rule look at all of them; the
guard's `MinDeletes` is 2 so that both sides of it are reached; the boundary of
its fraction takes four managed users, which the theorem `GuardHolds` has and the
run has not, and that the guard is not too strict is not checked. In `Daemon` two
changes tell "older" from "newer". `SyncNodeInputs` and `SelfUpdate` do not check
deadlock: a one-shot pass ends, and a killed update may leave no binary to run;
nor does `Panel`, where a login nobody types into, and no event left, is the end.
In `Panel` two calls are what overlap needs (two refreshes, or a refresh beside
a command, a logout or what an unmounted dashboard left), and one change is what
tells two answers apart; the last pass (`sync`) is left out of its instance
because it is read like the role, by one request. More tabs and calls, and the
last pass, are covered by the theorems. In `Cluster` two failovers bring the
first primary back with what it missed, and `MaxJoins` 2 is the first bundle too
many.

Fairness. `SyncNode`: only the daemon's passes are fair, because its loop runs
them again and again and each call of theirs ends by its timeout; a late request,
a command line or a crash is never obliged to happen. `Converges` has the proviso
`Blocked`: read-only, the guard, or telemt's refusal to delete its last user.
`Daemon`: a handler that committed goes on, a runner that has the mutex ends its
pass, the loop gets the mutex it waits for again and again (`sync.Mutex` hands
itself to a starving waiter) and the `select` takes a ready signal. The ticker is
not fair by itself: `WritesAreRead` holds without it, so an answered write does
not wait for the interval, unless the loop's own read for it fails (`missed`): the
program keeps no signal then. `ChangesReachTheNode` assumes the ticker, and has no
such exception. Both are under
`Unhung` (a hung daemon is restarted), and `Beat` is fair only while the
heartbeat's call is not hung. `Panel`: a call that waits is served or settles
(the daemon answers, the browser runs what was answered), and a dashboard's
timer goes on; nobody is obliged to click and nothing to change or fail.
`Cluster`: every node's loop sends heartbeats again and again and a heartbeat
that is not lost is received; replication, late heartbeats and joins need not
happen. That a heartbeat always ends is the assumption `HeartbeatHangs` is about.

## Where the documents and the code part

- `ForeignTouched`: `diff.go:13` says that users without the managed prefix are
  not touched. They are never deleted (`ForeignNeverDeleted`), but a name
  without the prefix in the users table is created and patched. The other side
  of it: once disabled or removed, such a user stays on the node, although
  `diff.go:132` says that taking a user away is a delete (`Deletes` keeps to the
  prefix, `diff.go:176`).
- `ErrorsDropped`: `sync.go:106` says that other errors are kept. A conflict
  starts a new `Result` and drops those of the attempt before.
- `HeartbeatHangs`: the loop is called periodic and autonomous; a master that
  takes a heartbeat and never answers stops it, and with it every wake-up.
- `SwapGap`: the binary is said to be replaced atomically; between the renames
  there is none at its path. A copy survives (`ACopySurvives`), in `.bak`, and
  to whoever falls back on it the replacement is atomic (`ImplementsInstallation`).
- `OpenMode`: `auth.go:15` says that without a password the panel is open. The
  dashboard has its logout button then too; `App.tsx:90` shows the login
  whatever the answer, and `auth.go:99` refuses every login without a password.
  Until the page is reloaded the tab is shut out.

What the models show besides, where no text promises otherwise: the loop takes
its signal before it reads the database (`server.go:196`), so when that read
fails (`sync.go:62`) the immediate synchronisation `markDirty` asks for becomes
one at the next tick; when the rename to `.bak` fails, whose error is ignored
(`selfupdate.go:194`), an update still succeeds, the old binary is gone and
`main.go:137` says that it was saved; a join token whose `UPDATE` committed
unnoticed is used up without a bundle (`cluster.go:142`); a 401 that
arrives late for a dashboard that is gone sends a tab that has just logged in
back to the login (`ShowLogin` through `App`'s setter); a node whose `MasterURL`
does not lead to the present primary keeps its old row in the registry, an old
primary `master` among them, which is why `RegistryTruthful` is about the nodes
that the primary can hear. `users_crud.go:94` says that `limit` is
clamped to [1, 100], while a larger one becomes 20; the panel never sends one.

## What is proved

The theorems hold for every value of the constants under the named assumptions
of `TelemtSync`, `Store`, `SyncNode`, `Daemon`, `SelfUpdate`, `Sessions`, `Panel`
and `Cluster`: sentinels differ from values, a node
may respell a date but not change it, there are finitely many user names, bounds
are naturals.

**The engine** (`TelemtSyncProofs`). `DiffIsOutOfSync`: the diff has an operation
for exactly the users out of sync, one each. `EffectResolves`: applying one
takes it out of the diff and leaves the rest as it was.

**The passes** (`SyncNodeProofs`). `TodoIsTheDiff` says that what a pass has yet
to do, failed at or skipped is the diff against the revision it holds; it is the
heart of the argument, but a step needs more. `IInv` adds `TodoFresh` (a pass
that applies has something left to do, and it is apart from what failed) and
`LateFits` (a request on the wire belongs to the diff against its own If-Match).
A mutation is accepted only when `rev` is the node's table, so `EffectResolves`
takes just that operation out of the diff on both sides. From `Invariance`
follow `TypeCorrect`, `ListNeverStale`, `DiffsAreExact` (`DiffIsExact`, with
`DiffIsOutOfSync`), `ReportsAreExact`, `OrderIsSafe`,
`ForeignUsersStay` and `GuardHolds`. `ReportsAreExact` needs one more invariant
for the pass that a read-only node stops: `Accounted`, each operation of the list
has been applied, or has failed, been skipped or is still to come.

Two more theorems are about one pass from its start to its end.
`UndisturbedPasses` (`UndisturbedPassSucceeds`): a pass with nobody else about
meets no conflict and succeeds, from any tables. Nothing of the sort is
inductive while others are about, so `CalmInv` says of each pass that *if*
nobody disturbed it, it is `Calm`: its revision is the node's, nothing was
skipped, its operations are those applied and those to come, and, once it is
done, what failed is what is out of sync. `UndisturbedStep` gives the induction
its footing: who is undisturbed after a step was so before, and took the step
alone, since every other step starts a pass or spends something (`SpendShows`).
In the apply loop the only refusal left is the one of the last user, and
`CalmRefusals` shows that it ends the list: when a delete is tried only deletes
are left, each of a user who is on the node, and this one is alone there.
`PassesRunOut` (`PassesEnd`): the requests a pass may still make (`Left`) go
down with each one, because a mutation takes its operation off a list with at
most one operation per user and a new listing uses up an attempt. This is where
the user names have to be finitely many (`UsersAssumption`). It is the safe half
of termination; that the next request is ever made is fairness, and TLC's.

**The refinement** (`ReconcilerProofs`). `Refinement`: every step of `SyncNode`
is a step of `Reconciler` or a stutter; the case that matters is a mutation that
lands, which `LateFits` and `TodoIsTheDiff` tie to an intent.

**The daemon** (`DaemonProofs`). `DaemonTypeCorrect`, and from it
`WakeupsAreKept` (`NoLostWakeup`) and `PassesGoForward` (`NeverGoesBack`). A read
of the loop that fails puts into `missed` all that was answered for, unless a
signal is there again, and that is all the first of them excepts. The invariant
adds to the type invariant that nothing but the pass that has the
mutex is older than what was read last: a pass that applies has read the highest
version read so far.

**The update** (`SelfUpdateProofs`). `UpdateTypeCorrect`, `VerifiedBuilds`
(`OnlyVerified`) and `BinarySurvives` (`ACopySurvives`), from an invariant that
says what an updater holds once it has verified: a build, equal to its sum. So
what an installation puts in place is the build whose sum was read, not one that
was released between the two downloads.
`UpdateAllOrNothing` (`AllOrNothing`) needs more: `Swapping` says where the old
and the new binary are at every place of one update. It holds while that update
is `Quiet` (nobody else ever downloaded a binary, nobody rolled back) and at most
one fault has happened; `Alone` could not be used, since it becomes true again
when another update ends, and `Quiet` cannot. The one fault may be the rename to
`.bak`: then the old binary is gone, and the theorem promises no backup.
`UpdateRefinement` (`ImplementsInstallation`): every step is one of
`Installation` or a stutter, for any number of updates side by side. An updater
that leaves the files alone asks, forgets or does nothing; a rename to `.bak`
does not change what a start finds, a rename back puts the backup there or
changes nothing (`RenamesFound`); an installation puts in place what `UInv` says
it holds, a build whose sums it has. That an old binary comes back only after a mishap
needs `Blamed`: who is about to restore has met a fault.

**The panel** (`PanelProofs`), for any number of tabs and calls under way. `PInv`
says of every call what it knows: each version it got lies between what its tab
had seen when the dashboard was mounted (`since`) and what the daemon has, is not
older than the effect of the command it follows (`wrote`), and its list is not
older than its count; a mounted call of a dashboard belongs to a tab that shows
one; an issued token is never issued again. Versions only grow and sessions only
age (`AtMost`, `Ages`), so a call stays sound whatever the others do, and each
action has to be looked at for its own call and its own tab. From
`PanelInvariance` follow `PanelTypeCorrect`, `LogoutIsFinal` (`LogoutRevokes`),
`ListNotOlderThanCount` (`PageFollowsTotal`), `NothingCarriedOver`
(`NoCarryOver`), `WritesAreShown` (`ReadYourWrites`) and `DeadSessionsStayDead`
(`DeadStaysDead`). `DotsEnd` (`BusyHasCommand`) is inductive over `PInv`: a step
either is a click that puts up the dots together with its command, or puts up none
and takes no command away from a tab that keeps them (`StillWorking`).

**The cluster** (`ClusterProofs`). `TokensAreSingleUse` (`OneBundle`) does not
follow from itself: a join is judged by the primary's row alone, and its bundle
is sent later. `UseKnown` is what is missing: the primary has marked as used every
token that gave a bundle or that a handler has still to answer, unless a failover
lost that; and `OneHolder`: until then one handler at most has a bundle to send,
and only while none was sent. Replication copies the mark and a failover either
takes it along or puts the token among `forgotten`. `ClusterTypeCorrect` comes
with it. `RolesStay` (`SettledUntilFailover`) is what `RegistryTruthful` rests on
without fairness: a node is `Settled` when the primary has its role and no
heartbeat of its own under way would write another one. A node's heartbeats only
write its own row (`Upserted`), and those of a settled node only what is there.

Only model-checked: what is temporal under fairness (`Converges`,
`WritesAreRead`, `ChangesReachTheNode`, `DeadSessionLeaves`, `ShowsTheTruth`,
`RegistryTruthful`), which is out of the prover's reach. Every invariant, action
property and refinement of a passing run is a theorem; for each of the six a
theorem is the safe half: `UndisturbedPasses` and `PassesRunOut`, `WakeupsAreKept`
and `PassesGoForward`, `DeadSessionsStayDead`, `DotsEnd` and `WritesAreShown`,
`RolesStay`.

## What is not modelled

Secrets (never compared by the program), JSON, SQL text, logging. Of the panel:
styles and texts, the fields of the forms (what is typed is a right or a refused
login, an accepted or a refused command), the pages of users after the first and
`api.renewUser`, which no screen uses, and the build (`vite.config.ts`,
`web.go`), which has no state. The cluster secret, which every request between
nodes carries or is refused without effect, and the content of the join bundle.
`probe` and `role` only print. `install.sh` and the unit file are run by an
operator. An empty revision in telemt's answer (then no If-Match is sent) is left
out: telemt's contract, as `client.go` states it, always has one.

## Plan

1. done: `TelemtSync`, `Store`, `SyncNode`, `Reconciler`, `Daemon`, `SelfUpdate`,
   `Sessions`, `Panel`, `Cluster`, their runs, and the proofs above.
2. `Daemon` composed with `SyncNode`: the version replaced by the tables.
3. done: `UndisturbedPassSucceeds` for any tables and processes, the end of a
   pass, the refinement of `Installation`, the settled registry.
4. Proof: with 2., the refinement of `Daemon`'s pass by `SyncNode`'s.
