-------------------------------- MODULE Daemon --------------------------------
(***************************************************************************)
(* The daemon around the passes (internal/server): HTTP handlers change    *)
(* the database and mark it dirty, the sync loop and POST /api/sync run    *)
(* passes one at a time, a heartbeat comes before the periodic ones, and   *)
(* the process may stop and start again at any moment.                     *)
(*                                                                         *)
(* The database is a version, the number of changes committed.  A pass     *)
(* reads a version, or fails to, and, if it succeeds, gives it to the      *)
(* node: what happens within it is module SyncNode's business.             *)
(***************************************************************************)
EXTENDS Naturals, FiniteSets

CONSTANTS
    Loop,          \* the goroutine of syncLoop
    Callers,       \* requests POST /api/sync
    Handlers,      \* requests that change the users
    Free,          \* nobody holds runMu
    MaxVersion,    \* bound: changes committed
    MaxFailures,   \* bound: failed passes, lost commits, failovers, restarts
    NoStatus       \* lastSync shows no version: no pass yet, or none was read

ASSUME RunnersAssumption == Loop \notin Callers /\ Free \notin Callers \cup {Loop}

ASSUME BoundsAssumption ==
    /\ MaxVersion \in Nat /\ MaxFailures \in Nat
    /\ NoStatus \notin Nat

VARIABLES
    pg,        \* the version of the local database
    primary,   \* it accepts writes (pg_is_in_recovery is false)
    node,      \* the version the node was last brought to
    handler,   \* where each handler is
    wrote,     \* the version each handler committed
    marked,    \* the highest version a handler has answered for
    dirty,     \* the channel of capacity 1
    loop,      \* where the sync loop is
    hung,      \* the heartbeat's request will not return
    runMu,     \* who holds the mutex of runSync
    run,       \* where each runner of runSync is
    seen,      \* the version its pass read
    asked,     \* the highest version any pass has read
    missed,    \* the highest version answered for that the loop failed to read
    lastSync,  \* the version of the pass that status shows
    failures   \* used of MaxFailures

vars == <<pg, primary, node, handler, wrote, marked, dirty, loop, hung, runMu,
          run, seen, asked, missed, lastSync, failures>>

database == <<pg, primary>>
handlers == <<handler, wrote, marked>>
passes == <<runMu, run, seen, asked, missed, lastSync, node>>

Runners == Callers \cup {Loop}

Versions == 0 .. MaxVersion

Fail == failures < MaxFailures /\ failures' = failures + 1

Highest(v, w) == IF v < w THEN w ELSE v

AtRest == [h \in Handlers |-> "idle"]

NoWrites == [h \in Handlers |-> 0]

Outside == [r \in Runners |-> "out"]

NothingSeen == [r \in Runners |-> 0]

(* The loop of a fresh process begins with a heartbeat and a pass. *)
Init ==
    /\ pg = 0 /\ node = 0 /\ marked = 0 /\ asked = 0 /\ missed = 0 /\ failures = 0
    /\ primary \in BOOLEAN
    /\ handler = AtRest /\ wrote = NoWrites
    /\ dirty = FALSE /\ loop = "beat" /\ hung = FALSE
    /\ runMu = Free /\ run = Outside /\ seen = NothingSeen
    /\ lastSync = NoStatus

-----------------------------------------------------------------------------
(* Handlers: role check, statement, markDirty, answer. *)

RequireMaster(h) ==
    /\ handler[h] = "idle"
    /\ primary
    /\ handler' = [handler EXCEPT ![h] = "checked"]
    /\ UNCHANGED <<database, wrote, marked, dirty, loop, hung, passes, failures>>

(* The statement commits: a row was changed. *)
Commit(h) ==
    /\ handler[h] = "checked"
    /\ primary
    /\ pg < MaxVersion
    /\ pg' = pg + 1
    /\ wrote' = [wrote EXCEPT ![h] = pg']
    /\ handler' = [handler EXCEPT ![h] = "wrote"]
    /\ UNCHANGED <<primary, marked, dirty, loop, hung, passes, failures>>

(* 404, 409 or 503: nothing was written and nothing is marked. *)
Reject(h) ==
    /\ handler[h] = "checked"
    /\ handler' = [handler EXCEPT ![h] = "idle"]
    /\ UNCHANGED <<database, wrote, marked, dirty, loop, hung, passes, failures>>

(* It commits, but the answer is lost (connection, cancelled request): 503. *)
CommitUnnoticed(h) ==
    /\ handler[h] = "checked"
    /\ primary
    /\ pg < MaxVersion
    /\ Fail
    /\ pg' = pg + 1
    /\ handler' = [handler EXCEPT ![h] = "idle"]
    /\ UNCHANGED <<primary, wrote, marked, dirty, loop, hung, passes>>

(* Mutant: a channel without a buffer, which drops what nobody receives. *)
MarkDirtyUnbuffered(h) ==
    /\ handler[h] = "wrote"
    /\ dirty' = (dirty \/ loop = "wait")
    /\ marked' = Highest(marked, wrote[h])
    /\ handler' = [handler EXCEPT ![h] = "idle"]
    /\ UNCHANGED <<database, wrote, loop, hung, passes, failures>>

(* The non-blocking send on dirty, then the answer. *)
MarkDirty(h) ==
    /\ handler[h] = "wrote"
    /\ dirty' = TRUE
    /\ marked' = Highest(marked, wrote[h])
    /\ handler' = [handler EXCEPT ![h] = "idle"]
    /\ UNCHANGED <<database, wrote, loop, hung, passes, failures>>

-----------------------------------------------------------------------------
(* runSync: one pass under the mutex, then its status. *)

(* Mutant: runSync without its mutex. *)
LockNothing(r) ==
    /\ run[r] = "lock"
    /\ runMu' = r
    /\ run' = [run EXCEPT ![r] = "read"]
    /\ UNCHANGED <<database, handlers, dirty, loop, hung, seen, asked, missed, lastSync,
                   node, failures>>

Lock(r) ==
    /\ run[r] = "lock"
    /\ runMu = Free
    /\ runMu' = r
    /\ run' = [run EXCEPT ![r] = "read"]
    /\ UNCHANGED <<database, handlers, dirty, loop, hung, seen, asked, missed, lastSync,
                   node, failures>>

Read(r) ==
    /\ run[r] = "read"
    /\ seen' = [seen EXCEPT ![r] = pg]
    /\ asked' = Highest(asked, pg)
    /\ run' = [run EXCEPT ![r] = "apply"]
    /\ UNCHANGED <<database, handlers, dirty, loop, hung, runMu, missed, lastSync, node,
                   failures>>

(* The pass leaves the node at a version, shows one and gives up the mutex. *)
Finish(r, version, shown) ==
    /\ node' = version
    /\ lastSync' = shown
    /\ runMu' = Free
    /\ run' = [run EXCEPT ![r] = "out"]
    /\ loop' = IF r = Loop THEN "wait" ELSE loop
    /\ UNCHANGED <<database, handlers, dirty, hung, seen, asked>>

(* ListDesired fails: the pass has read nothing, and a wake-up that the     *)
(* loop took for it is gone.                                                *)
ReadFails(r) ==
    /\ run[r] = "read"
    /\ Fail
    /\ Finish(r, node, NoStatus)
    /\ missed' = IF r = Loop /\ ~dirty THEN marked ELSE missed

Succeed(r) ==
    /\ run[r] = "apply"
    /\ Finish(r, seen[r], seen[r])
    /\ UNCHANGED <<missed, failures>>

(* An error, a refusal of the guard, the wrong mode: the node stays. *)
FailPass(r) ==
    /\ run[r] = "apply"
    /\ Fail
    /\ Finish(r, node, seen[r])
    /\ UNCHANGED missed

-----------------------------------------------------------------------------
(* syncLoop, and POST /api/sync. *)

(* Mutant: a heartbeat that fails takes the periodic pass with it. *)
BeatInsteadOfPass ==
    /\ loop = "beat"
    /\ ~hung
    /\ IF primary THEN loop' = "sync" /\ run' = [run EXCEPT ![Loop] = "lock"]
                  ELSE loop' = "wait" /\ run' = run
    /\ UNCHANGED <<database, handlers, dirty, hung, runMu, seen, asked, missed, lastSync,
                   node, failures>>

(* reportHeartbeat returns, whatever came of it; the pass follows. *)
Beat ==
    /\ loop = "beat"
    /\ ~hung
    /\ loop' = "sync"
    /\ run' = [run EXCEPT ![Loop] = "lock"]
    /\ UNCHANGED <<database, handlers, dirty, hung, runMu, seen, asked, missed, lastSync,
                   node, failures>>

(* A replica's request to the master has no timeout: a master that takes it *)
(* and never answers keeps the loop here until the process is restarted.    *)
Hang ==
    /\ loop = "beat"
    /\ ~primary
    /\ ~hung
    /\ hung' = TRUE
    /\ UNCHANGED <<database, handlers, dirty, loop, passes, failures>>

Tick ==
    /\ loop = "wait"
    /\ loop' = "beat"
    /\ UNCHANGED <<database, handlers, dirty, hung, passes, failures>>

Wake ==
    /\ loop = "wait"
    /\ dirty
    /\ dirty' = FALSE
    /\ loop' = "sync"
    /\ run' = [run EXCEPT ![Loop] = "lock"]
    /\ UNCHANGED <<database, handlers, hung, runMu, seen, asked, missed, lastSync, node,
                   failures>>

PostSync(r) ==
    /\ r \in Callers
    /\ run[r] = "out"
    /\ run' = [run EXCEPT ![r] = "lock"]
    /\ UNCHANGED <<database, handlers, dirty, loop, hung, runMu, seen, asked, missed,
                   lastSync, node, failures>>

-----------------------------------------------------------------------------
(* The rest of the world. *)

(* The process ends (SIGTERM, crash) wherever it is, and starts again. *)
Restart ==
    /\ Fail
    /\ handler' = AtRest /\ wrote' = NoWrites
    /\ dirty' = FALSE /\ loop' = "beat" /\ hung' = FALSE
    /\ runMu' = Free /\ run' = Outside /\ seen' = NothingSeen
    /\ lastSync' = NoStatus
    /\ UNCHANGED <<database, node, marked, asked, missed>>

Failover ==
    /\ Fail
    /\ primary' = ~primary
    /\ UNCHANGED <<pg, handlers, dirty, loop, hung, passes>>

(* A replica receives the primary's changes. *)
Replicate ==
    /\ ~primary
    /\ pg < MaxVersion
    /\ pg' = pg + 1
    /\ UNCHANGED <<primary, handlers, dirty, loop, hung, passes, failures>>

Handle(h) ==
    RequireMaster(h) \/ Commit(h) \/ Reject(h) \/ CommitUnnoticed(h) \/ MarkDirty(h)

RunSync(r) == Lock(r) \/ Read(r) \/ ReadFails(r) \/ Succeed(r) \/ FailPass(r)

Next ==
    \/ \E h \in Handlers : Handle(h)
    \/ \E r \in Runners : RunSync(r) \/ PostSync(r)
    \/ Beat \/ Hang \/ Tick \/ Wake
    \/ Restart \/ Failover \/ Replicate

Spec == Init /\ [][Next]_vars

(* Goroutines run and calls end; the loop gets the mutex it waits for      *)
(* (a sync.Mutex hands itself to a waiter that starves).  The ticker is    *)
(* left out on purpose, so that what follows a write does not lean on it.  *)
Fairness ==
    /\ \A h \in Handlers : WF_vars(MarkDirty(h))
    /\ \A r \in Runners : WF_vars(Read(r)) /\ WF_vars(Succeed(r)) /\ SF_vars(Lock(r))
    /\ WF_vars(Beat)
    /\ WF_vars(Wake)

FairSpec == Spec /\ Fairness

-----------------------------------------------------------------------------
(* Properties. *)

Stages == {"out", "lock", "read", "apply"}

(* Types; the mutex is held by the one runner between Lock and Finish, and  *)
(* the loop is in a pass exactly when its runner is.                        *)
TypeOK ==
    /\ pg \in Versions /\ marked \in 0 .. pg /\ asked \in 0 .. pg /\ node \in 0 .. asked
    /\ missed \in 0 .. marked
    /\ primary \in BOOLEAN /\ dirty \in BOOLEAN /\ hung \in BOOLEAN
    /\ handler \in [Handlers -> {"idle", "checked", "wrote"}]
    /\ wrote \in [Handlers -> 0 .. pg]
    /\ loop \in {"beat", "sync", "wait"}
    /\ run \in [Runners -> Stages]
    /\ seen \in [Runners -> 0 .. asked]
    /\ lastSync \in 0 .. asked \cup {NoStatus}
    /\ failures \in 0 .. MaxFailures
    /\ runMu \in Runners \cup {Free}
    /\ \A r \in Runners : runMu = r <=> run[r] \in {"read", "apply"}
    /\ loop = "sync" <=> run[Loop] # "out"

(* The loop has yet to read the database. *)
AboutToRead == loop = "beat" \/ (loop = "sync" /\ run[Loop] \in {"lock", "read"})

(* A change that was answered for and that no pass has read is forgotten    *)
(* in one case alone, that the loop's pass for it could not read the        *)
(* database: otherwise the signal is still in the channel or the loop is on *)
(* its way to a read.  What the debounce of markDirty drops is always       *)
(* covered by the signal already there, that of a change answered for while *)
(* a read fails included.                                                   *)
NoLostWakeup == marked > Highest(asked, missed) => dirty \/ AboutToRead

(* Ticks, API calls and wake-ups of the loop run passes that cross in time: *)
(* no pass takes the node back to an older state of the database than       *)
(* another gave it, and a status that begins to show a version shows the    *)
(* newest that was read.                                                    *)
Forward ==
    /\ node' >= node
    /\ lastSync' \notin {lastSync, NoStatus} => lastSync' = asked

NeverGoesBack == [][Forward]_vars

(* The operator restarts a daemon whose heartbeat hangs. *)
Unhung == []<>(~hung)

(* Without the ticker: a change that was answered for is followed by a pass *)
(* that reads it, whatever restarts, failovers and passes that fail after   *)
(* the read come between, unless a pass of the loop could not read the      *)
(* database after the answer.                                               *)
WritesAreRead ==
    Unhung => \A v \in Versions : marked >= v ~> asked >= v \/ missed >= v

(* With the ticker: every change in the local database, one replicated from *)
(* the primary, one whose commit the handler never learnt of and one whose  *)
(* wake-up a failed read used up included, reaches the node once passes     *)
(* stop failing.                                                            *)
ChangesReachTheNode ==
    Unhung /\ WF_vars(Tick) => \A v \in Versions : pg >= v ~> node >= v

(* The documents' claim: the loop is periodic and autonomous, it brings the *)
(* node to the local database by itself.  No proviso about the master.      *)
AutonomousLoop == WF_vars(Tick) => \A v \in Versions : pg >= v ~> node >= v

=============================================================================
