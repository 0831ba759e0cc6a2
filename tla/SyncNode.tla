------------------------------- MODULE SyncNode -------------------------------
(***************************************************************************)
(* Synchronisation passes over one telemt node (internal/sync/sync.go):    *)
(* read the desired users once, then list, diff, guard and apply, starting *)
(* over on a revision conflict.  Several processes (the daemon, a command  *)
(* line) may run passes over the same node while the database changes, an  *)
(* operator edits the node, requests time out and processes die.           *)
(*                                                                         *)
(* A node's revision is a hash of its configuration, so it is modelled by  *)
(* the configuration: rev[s] is the table pass s believes the node has,    *)
(* and If-Match compares it with the node's own.                           *)
(***************************************************************************)
EXTENDS Store

CONSTANTS
    Syncers,       \* processes that run passes over the node
    Periodic,      \* those the daemon's loop runs again and again
    Forced,        \* those run with --force
    Shadow,        \* those in shadow mode (no mutations)
    MaxRetry,      \* MaxConflictRetries
    StartTables,   \* the <<database, node>> tables a behaviour may begin with
    MaxEvents      \* bound on what spent counts, all together

ASSUME SyncersAssumption ==
    Periodic \subseteq Syncers /\ Forced \subseteq Syncers /\ Shadow \subseteq Syncers

ASSUME StartAssumption == StartTables \subseteq UsersTable \X RemoteTable

ASSUME BoundsAssumption == MaxRetry \in Nat /\ MaxEvents \in Nat

VARIABLES
    pg,        \* the users table
    node,      \* telemt's users (external)
    readOnly,  \* telemt refuses mutations (external)
    late,      \* requests the client gave up on that telemt may yet process
    pc,        \* where each pass is
    des,       \* desired users, read once per pass
    rev,       \* the revision the pass will send as If-Match
    attempt,   \* conflict retries so far
    ops,       \* res.Ops: the operations of this attempt
    todo,      \* those not tried yet
    applied, skipped, failed,   \* res: the operations behind each counter
    aborted,   \* res.Aborted
    err,       \* the error SyncNode returned
    spent      \* statements on the users table (writes), operator actions on
               \* the node (edits), lost calls and process deaths (failures)

tables == <<pg, node, readOnly>>
result == <<ops, applied, skipped, failed, aborted, err>>
vars == <<pg, node, readOnly, late, pc, des, rev, attempt, ops, todo,
          applied, skipped, failed, aborted, err, spent>>

Steps == {"idle", "list", "apply", "done"}

Errors == {"none", "desired", "list", "read_only", "conflict"}

NoUsers == [u \in Users |-> Absent]

Request == [op : SyncOp, ifMatch : RemoteTable]

Costs == {"writes", "edits", "failures"}

Spend(what) ==
    /\ spent["writes"] + spent["edits"] + spent["failures"] < MaxEvents
    /\ spent' = [spent EXCEPT ![what] = @ + 1]

Init ==
    /\ \E start \in StartTables : pg = start[1] /\ node = start[2]
    /\ readOnly = FALSE
    /\ late = {}
    /\ pc = [s \in Syncers |-> "idle"]
    /\ des = [s \in Syncers |-> NoUsers]
    /\ rev = [s \in Syncers |-> NoUsers]
    /\ attempt = [s \in Syncers |-> 0]
    /\ ops = [s \in Syncers |-> {}]
    /\ todo = [s \in Syncers |-> {}]
    /\ applied = [s \in Syncers |-> {}]
    /\ skipped = [s \in Syncers |-> {}]
    /\ failed = [s \in Syncers |-> {}]
    /\ aborted = [s \in Syncers |-> FALSE]
    /\ err = [s \in Syncers |-> "none"]
    /\ spent = [c \in Costs |-> 0]

-----------------------------------------------------------------------------
(* What a pass reads and how it ends. *)

(* The pass returns: its locals are gone, its result stays for the caller. *)
Return(s, e) ==
    /\ pc' = [pc EXCEPT ![s] = "done"]
    /\ err' = [err EXCEPT ![s] = e]
    /\ des' = [des EXCEPT ![s] = NoUsers]
    /\ rev' = [rev EXCEPT ![s] = NoUsers]
    /\ todo' = [todo EXCEPT ![s] = {}]
    /\ attempt' = [attempt EXCEPT ![s] = 0]

(* res = Result{Ops: o}: every counter starts again. *)
FreshResult(s, o) ==
    /\ ops' = [ops EXCEPT ![s] = o]
    /\ applied' = [applied EXCEPT ![s] = {}]
    /\ skipped' = [skipped EXCEPT ![s] = {}]
    /\ failed' = [failed EXCEPT ![s] = {}]

(* The daemon's loop runs one pass after another, a command line runs one. *)
Idle(s) == pc[s] = "idle" \/ (pc[s] = "done" /\ s \in Periodic)

Start(s) ==
    /\ Idle(s)
    /\ des' = [des EXCEPT ![s] = ListDesired(pg)]
    /\ pc' = [pc EXCEPT ![s] = "list"]
    /\ attempt' = [attempt EXCEPT ![s] = 0]
    /\ FreshResult(s, {})
    /\ aborted' = [aborted EXCEPT ![s] = FALSE]
    /\ err' = [err EXCEPT ![s] = "none"]
    /\ UNCHANGED <<tables, late, rev, todo, spent>>

(* ListDesired fails: Result{} and the error. *)
StartFails(s) ==
    /\ Idle(s)
    /\ Spend("failures")
    /\ Return(s, "desired")
    /\ FreshResult(s, {})
    /\ aborted' = [aborted EXCEPT ![s] = FALSE]
    /\ UNCHANGED <<tables, late>>

(* ListUsers answers: diff, guard, mode, and the operations to apply. *)
List(s) ==
    /\ pc[s] = "list"
    /\ LET new == ComputeDiff(des[s], node)
           refuse == IsMassDelete(new, node) /\ s \notin Forced
       IN  /\ FreshResult(s, new)
           /\ aborted' = [aborted EXCEPT ![s] = refuse]
           /\ IF refuse \/ s \in Shadow \/ new = {}
              THEN Return(s, "none")
              ELSE /\ pc' = [pc EXCEPT ![s] = "apply"]
                   /\ todo' = [todo EXCEPT ![s] = new]
                   /\ rev' = [rev EXCEPT ![s] = node]
                   /\ UNCHANGED <<des, attempt, err>>
    /\ UNCHANGED <<tables, late, spent>>

(* ListUsers fails: the previous attempt's result is returned as it is. *)
ListFails(s) ==
    /\ pc[s] = "list"
    /\ Spend("failures")
    /\ Return(s, "list")
    /\ UNCHANGED <<tables, late, ops, applied, skipped, failed, aborted>>

-----------------------------------------------------------------------------
(* One mutation: what telemt may answer, and what the pass does with it.   *)

LastUser(u, n) == {v \in Users : n[v] # Absent} = {u}

(* Mutant: the request carries no If-Match. *)
RefusalsWithoutIfMatch(op, ifMatch) ==
    {a \in {"read_only", "user_exists", "not_found", "last_user"} :
        \/ a = "read_only" /\ readOnly
        \/ a = "user_exists" /\ op.kind = "create" /\ node[op.user] # Absent
        \/ a = "not_found" /\ op.kind # "create" /\ node[op.user] = Absent
        \/ a = "last_user" /\ op.kind = "delete" /\ LastUser(op.user, node)}

(* Every refusal that applies; telemt may answer any one of them (which    *)
(* check it makes first is its own business), and accepts if there is none. *)
Refusals(op, ifMatch) ==
    {a \in {"read_only", "revision", "user_exists", "not_found", "last_user"} :
        \/ a = "read_only" /\ readOnly
        \/ a = "revision" /\ ifMatch # node
        \/ a = "user_exists" /\ op.kind = "create" /\ node[op.user] # Absent
        \/ a = "not_found" /\ op.kind # "create" /\ node[op.user] = Absent
        \/ a = "last_user" /\ op.kind = "delete" /\ LastUser(op.user, node)}

(* APIError's classification of an answer; the rest are plain errors. *)
AlreadyDone(answer) == answer \in {"user_exists", "not_found"}

ReadOnly(answer) == answer = "read_only"

RevisionConflict(answer) == answer = "revision"

Trying(s, op) == pc[s] = "apply" /\ op \in First(todo[s])

(* The next operation of the loop, or the end of the pass. *)
MoveOn(s, op, r) ==
    IF todo[s] = {op}
    THEN Return(s, "none")
    ELSE /\ todo' = [todo EXCEPT ![s] = @ \ {op}]
         /\ rev' = [rev EXCEPT ![s] = r]
         /\ UNCHANGED <<pc, des, attempt, err>>

Apply(s, op) ==
    /\ Trying(s, op)
    /\ Refusals(op, rev[s]) = {}
    /\ node' = Effect(op, node)
    /\ applied' = [applied EXCEPT ![s] = @ \cup {op}]
    /\ MoveOn(s, op, node')
    /\ UNCHANGED <<pg, readOnly, late, ops, skipped, failed, aborted, spent>>

Skip(s, op) ==
    /\ Trying(s, op)
    /\ \E a \in Refusals(op, rev[s]) : AlreadyDone(a)
    /\ skipped' = [skipped EXCEPT ![s] = @ \cup {op}]
    /\ MoveOn(s, op, rev[s])
    /\ UNCHANGED <<tables, late, ops, applied, failed, aborted, spent>>

StopReadOnly(s, op) ==
    /\ Trying(s, op)
    /\ \E a \in Refusals(op, rev[s]) : ReadOnly(a)
    /\ Return(s, "read_only")
    /\ UNCHANGED <<tables, late, ops, applied, skipped, failed, aborted, spent>>

(* Mutant: one attempt too many. *)
ExhaustedLate(s) == attempt[s] > MaxRetry

(* for attempt := 0; attempt <= maxRetry. *)
Exhausted(s) == attempt[s] = MaxRetry

(* Mutant: starting over is not counted. *)
ConflictUncounted(s, op) ==
    /\ Trying(s, op)
    /\ \E a \in Refusals(op, rev[s]) : RevisionConflict(a)
    /\ pc' = [pc EXCEPT ![s] = "list"]
    /\ todo' = [todo EXCEPT ![s] = {}]
    /\ rev' = [rev EXCEPT ![s] = NoUsers]
    /\ UNCHANGED <<tables, late, ops, applied, skipped, failed, aborted, spent,
                   des, err, attempt>>

(* Start over with a fresh listing, or give up. *)
Conflict(s, op) ==
    /\ Trying(s, op)
    /\ \E a \in Refusals(op, rev[s]) : RevisionConflict(a)
    /\ IF Exhausted(s)
       THEN Return(s, "conflict")
       ELSE /\ pc' = [pc EXCEPT ![s] = "list"]
            /\ attempt' = [attempt EXCEPT ![s] = @ + 1]
            /\ todo' = [todo EXCEPT ![s] = {}]
            /\ rev' = [rev EXCEPT ![s] = NoUsers]
            /\ UNCHANGED <<des, err>>
    /\ UNCHANGED <<tables, late, ops, applied, skipped, failed, aborted, spent>>

(* Any other error is counted and the loop goes on. *)
CountFailure(s, op) ==
    /\ Trying(s, op)
    /\ failed' = [failed EXCEPT ![s] = @ \cup {op}]
    /\ MoveOn(s, op, rev[s])
    /\ UNCHANGED <<tables, ops, applied, skipped, aborted>>

Refuse(s, op) ==
    /\ CountFailure(s, op)
    /\ \E a \in Refusals(op, rev[s]) :
          ~AlreadyDone(a) /\ ~ReadOnly(a) /\ ~RevisionConflict(a)
    /\ UNCHANGED <<late, spent>>

InFlight(s, op) == [op |-> op, ifMatch |-> rev[s]]

(* No answer (timeout, broken connection, 5xx, unreadable envelope): the   *)
(* request may have been lost, or telemt may process it, now or later.     *)
NoAnswer(s, op) ==
    /\ CountFailure(s, op)
    /\ Spend("failures")
    /\ late' \in {late, late \cup {InFlight(s, op)}}

Late(r) ==
    /\ r \in late
    /\ late' = late \ {r}
    /\ node' = IF Refusals(r.op, r.ifMatch) = {} THEN Effect(r.op, node) ELSE node
    /\ UNCHANGED <<pg, readOnly, pc, des, rev, attempt, todo, result, spent>>

-----------------------------------------------------------------------------
(* The rest of the world. *)

(* The process dies, perhaps with a request on the wire, and starts anew. *)
Crash(s) ==
    /\ pc[s] # "idle"
    /\ Spend("failures")
    /\ \/ late' = late
       \/ \E op \in First(todo[s]) : late' = late \cup {InFlight(s, op)}
    /\ pc' = [pc EXCEPT ![s] = "idle"]
    /\ des' = [des EXCEPT ![s] = NoUsers]
    /\ rev' = [rev EXCEPT ![s] = NoUsers]
    /\ attempt' = [attempt EXCEPT ![s] = 0]
    /\ todo' = [todo EXCEPT ![s] = {}]
    /\ FreshResult(s, {})
    /\ aborted' = [aborted EXCEPT ![s] = FALSE]
    /\ err' = [err EXCEPT ![s] = "none"]
    /\ UNCHANGED tables

Write(table) ==
    /\ Spend("writes")
    /\ pg' = table
    /\ UNCHANGED <<node, readOnly, late, pc, des, rev, attempt, todo, result>>

Create == \E u \in Users, exp \in Stamps \cup {None}, conns \in Limits \cup {None} :
              Write(CreateUser(pg, u, exp, conns))

Delete == \E u \in Users : Write(DeleteUser(pg, u))

Renew == \E u \in Users, exp \in Stamps \cup {None} : Write(SetExpiration(pg, u, exp))

Enable == \E u \in Users, b \in BOOLEAN : Write(SetEnabled(pg, u, b))

(* An operator edits the node by hand: one user, or its read_only mode. *)
EditNode ==
    /\ Spend("edits")
    /\ \E u \in Users, r \in RemoteUser \cup {Absent} : node' = [node EXCEPT ![u] = r]
    /\ UNCHANGED <<pg, readOnly, late, pc, des, rev, attempt, todo, result>>

SwitchReadOnly ==
    /\ Spend("edits")
    /\ readOnly' = ~readOnly
    /\ UNCHANGED <<pg, node, late, pc, des, rev, attempt, todo, result>>

-----------------------------------------------------------------------------

(* A step of the pass that telemt and the database answer. *)
Answered(s) ==
    \/ Start(s)
    \/ List(s)
    \/ \E op \in todo[s] :
          Apply(s, op) \/ Skip(s, op) \/ StopReadOnly(s, op)
            \/ Conflict(s, op) \/ Refuse(s, op)

Pass(s) ==
    \/ Answered(s)
    \/ StartFails(s)
    \/ ListFails(s)
    \/ \E op \in todo[s] : NoAnswer(s, op)
    \/ Crash(s)

Environment == Create \/ Delete \/ Renew \/ Enable \/ EditNode \/ SwitchReadOnly

Next == (\E s \in Syncers : Pass(s)) \/ (\E r \in late : Late(r)) \/ Environment

Spec == Init /\ [][Next]_vars

(* The daemon's ticker starts passes for ever, and a pass under way goes on: *)
(* every call ends by its timeout, so only the failures, which are bounded,  *)
(* keep a call from being answered.                                          *)
FairSpec == Spec /\ \A s \in Periodic : WF_vars(Answered(s))

-----------------------------------------------------------------------------
(* Properties. *)

(* The type invariant. *)
TypeOK ==
    /\ pg \in UsersTable
    /\ node \in RemoteTable
    /\ readOnly \in BOOLEAN
    /\ late \subseteq Request
    /\ pc \in [Syncers -> Steps]
    /\ des \in [Syncers -> DesiredTable]
    /\ rev \in [Syncers -> RemoteTable]
    /\ attempt \in [Syncers -> 0 .. MaxRetry]
    /\ ops \in [Syncers -> SUBSET SyncOp]
    /\ todo \in [Syncers -> SUBSET SyncOp]
    /\ applied \in [Syncers -> SUBSET SyncOp]
    /\ skipped \in [Syncers -> SUBSET SyncOp]
    /\ failed \in [Syncers -> SUBSET SyncOp]
    /\ aborted \in [Syncers -> BOOLEAN]
    /\ err \in [Syncers -> Errors]
    /\ spent \in [Costs -> Nat]

(* The diff asks for exactly one operation per user that is out of sync    *)
(* when the node is listed (dates compared as moments), and for nothing    *)
(* else: a node in sync is left alone.                                     *)
DiffExact ==
    \A s \in Syncers : List(s) =>
        /\ {op.user : op \in ops'[s]} = OutOfSync(des[s], node)
        /\ \A o, p \in ops'[s] : o.user = p.user => o = p

DiffIsExact == [][DiffExact]_vars

(* Nobody but s has run a pass, and nothing has been spent on the world. *)
Undisturbed(s) ==
    /\ \A c \in Costs : spent[c] = 0
    /\ \A q \in Syncers \ {s} : pc[q] = "idle"

(* A pass with nobody else about, from any database and any node, meets no  *)
(* conflict (its own mutations are carried in its revision) and ends        *)
(* without an error and without a skip.  Unless the guard refused, only     *)
(* what telemt refuses for good is left to do: the delete of its last user. *)
UndisturbedPassSucceeds ==
    \A s \in Syncers \ Shadow : Undisturbed(s) =>
        /\ pc[s] \in {"list", "apply"} => attempt[s] = 0
        /\ pc[s] = "done" =>
              /\ err[s] = "none" /\ skipped[s] = {}
              /\ ~aborted[s] =>
                    /\ ops[s] = applied[s] \cup failed[s]
                    /\ OutOfSync(ListDesired(pg), node) = {op.user : op \in failed[s]}
              /\ \A op \in failed[s] : op.kind = "delete" /\ LastUser(op.user, node)

(* While a pass applies its list, what is not yet done (to try, failed or  *)
(* skipped) is exactly what a fresh diff against the revision it holds     *)
(* would ask for: the loop of SyncNode never works from a list that its    *)
(* own mutations have made stale.                                          *)
TodoIsTheDiff ==
    \A s \in Syncers : pc[s] = "apply" =>
        ComputeDiff(des[s], rev[s]) = todo[s] \cup failed[s] \cup skipped[s]

(* A pass that runs to its end in apply mode, its last call answered with  *)
(* success, leaves exactly the users of its failed and skipped operations  *)
(* out of sync with the desired users it read: when both counters are zero *)
(* the node is in sync, whoever else was changing it meanwhile.            *)
EndExact(s) ==
    (/\ pc[s] \in {"list", "apply"}
     /\ pc'[s] = "done" /\ err'[s] = "none"
     /\ ~aborted'[s] /\ s \notin Shadow
     /\ pc[s] = "apply" => applied'[s] # applied[s])
    => OutOfSync(des[s], node') = {op.user : op \in failed'[s] \cup skipped'[s]}

(* A pass that telemt's read-only mode stops half way leaves exactly the   *)
(* users of the operations it does not report as applied, at a node nobody *)
(* else has changed since its last answer.                                 *)
StopExact(s) ==
    (/\ pc[s] = "apply" /\ rev[s] = node
     /\ pc'[s] = "done" /\ err'[s] = "read_only")
    => OutOfSync(des[s], node') = {op.user : op \in ops'[s] \ applied'[s]}

ReportExact == \A s \in Syncers : EndExact(s) /\ StopExact(s)

ReportIsExact == [][ReportExact]_vars

(* create -> patch -> delete: replacing every user of a node never runs    *)
(* into telemt's last_user_forbidden, unless nothing at all is desired or  *)
(* one of the pass's own creates did not go through.                       *)
ReplacementNeverEmpties ==
    \A s \in Syncers : \A op \in First(todo[s]) :
        (/\ pc[s] = "apply" /\ op.kind = "delete"
         /\ rev[s] = node /\ LastUser(op.user, node))
        => \/ des[s] = NoUsers
           \/ \E c \in failed[s] \cup skipped[s] : c.kind = "create"

(* The managed users of the listing this attempt worked from.              *)
ListedManaged(s) ==
    (ManagedOn(rev[s]) \ {op.user : op \in {o \in applied[s] : o.kind = "create"}})
        \cup {op.user : op \in DeletesOf(applied[s])}

(* The requests a pass may still make: in each attempt a listing and one    *)
(* operation per user.                                                     *)
Left(s) ==
    (MaxRetry - attempt[s]) * (Cardinality(Users) + 1)
        + (IF pc[s] = "apply" THEN Cardinality(todo[s]) ELSE Cardinality(Users) + 1)

(* However often others change the node under a pass, it makes no more      *)
(* requests than that: each one it makes, a retry's included, leaves it     *)
(* fewer.                                                                  *)
RequestsRunOut ==
    \A s \in Syncers :
        (/\ pc[s] \in {"list", "apply"} /\ pc'[s] \in {"list", "apply"}
         /\ <<pc[s], todo[s]>> # <<pc'[s], todo'[s]>>)
        => 0 <= Left(s)' /\ Left(s)' < Left(s)

PassesEnd == [][RequestsRunOut]_vars

(* Without --force no attempt sets out to delete MinDeletes users or more  *)
(* that are over the threshold's share of the managed users it listed.     *)
MassDeleteNeedsForce ==
    \A s \in Syncers \ Forced : pc[s] = "apply" =>
        ~(/\ Cardinality(DeletesOf(ops[s])) >= MinDeletes
          /\ 100 * Cardinality(DeletesOf(ops[s]))
                > ThresholdPercent * Cardinality(ListedManaged(s)))

(* Only an operator takes a foreign user (no managed prefix) off the node: *)
(* neither a pass nor a request that lands late deletes one.               *)
ForeignKept ==
    \A u \in Users \ Managed :
        (node[u] # Absent /\ node'[u] = Absent) => spent'["edits"] > spent["edits"]

ForeignNeverDeleted == [][ForeignKept]_vars

(* The daemon cannot go on: telemt is read-only, the guard refuses, or the *)
(* only difference left is the last user, whom telemt will not delete.     *)
Blocked ==
    LET desired == ListDesired(pg)
    IN  \/ readOnly
        \/ IsMassDelete(ComputeDiff(desired, node), node)
        \/ \E u \in Users : LastUser(u, node) /\ OutOfSync(desired, node) = {u}

(* Once the writes, the edits and the failures are over, the daemon's      *)
(* passes bring the node to the database's users, whatever was in flight   *)
(* (late requests, another process's pass) when they stopped.              *)
Converges == <>[](InSync(ListDesired(pg), node) \/ Blocked)

(* diff.go says that foreign users are not touched: a foreign user changes *)
(* only by an operator's hand.                                             *)
OnlyManagedTouched ==
    [][\A u \in Users \ Managed :
         node'[u] # node[u] => spent'["edits"] > spent["edits"]]_vars

(* sync.go says that other errors are kept and not swallowed: an operation *)
(* counted as failed stays in the pass's result.                           *)
ErrorsKept ==
    [][\A s \in Syncers :
         (pc[s] \in {"list", "apply"} /\ pc'[s] # "idle") => failed[s] \subseteq failed'[s]]_vars

(* Every want a pass under way has read, or a request on the wire carries. *)
Intents ==
    {<<u, des[s][u]>> : u \in Users, s \in {p \in Syncers : pc[p] \in {"list", "apply"}}}
        \cup {<<r.op.user, r.op.want>> : r \in late}

Abstract == INSTANCE Reconciler WITH intents <- Intents, edits <- spent["edits"]

(* The passes, the late requests and the crashes implement Reconciler: a   *)
(* mutation that lands, whenever it does, moves one user that disagreed    *)
(* into agreement with something the database held; nothing is overwritten *)
(* blindly and nothing is rewritten for no reason.                         *)
ImplementsReconciler == Abstract!Spec

=============================================================================
