------------------------------ MODULE TelemtSync ------------------------------
(***************************************************************************)
(* The pure diff engine (internal/telemtsync/diff.go) and what one of its  *)
(* operations does to a telemt node (internal/telemt/mutate.go, ApplyOp,   *)
(* and telemt itself, external).                                           *)
(*                                                                         *)
(* A list of users is a table: a function from user names to a record, or  *)
(* Absent.  The list of operations is a set; its order (creates, then      *)
(* patches, then deletes) is the relation First.  The secret is left out:  *)
(* GET /v1/users does not return it and the diff never reads it.           *)
(***************************************************************************)
EXTENDS Integers, FiniteSets

CONSTANTS
    Users,             \* every user name, in the database or on a node
    Managed,           \* the names with the managed prefix ("sub_")
    Absent,            \* no such user in the table
    None,              \* a nil pointer / JSON null
    Exps,              \* expirations as RFC3339 spellings
    Instant,           \* spelling |-> the moment it denotes, or Unparsable
    Unparsable,        \* time.Parse(RFC3339) fails
    Stored,            \* spelling telemt is given |-> spelling it lists back
    Limits,            \* max_tcp_conns values
    MinDeletes,        \* the guard's MinDeletes
    ThresholdPercent   \* the guard's FractionThreshold, in percent

ASSUME UsersAssumption == IsFiniteSet(Users)

ASSUME ManagedAssumption == Managed \subseteq Users

ASSUME NoneAssumption == None \notin Exps /\ None \notin Limits

(* A node may normalise the spelling of a date, never the date. *)
ASSUME SpellingAssumption ==
    /\ Stored \in [Exps -> Exps]
    /\ DOMAIN Instant = Exps
    /\ \A e \in Exps : \/ Stored[e] = e
                       \/ /\ Instant[e] # Unparsable
                          /\ Instant[Stored[e]] = Instant[e]

ASSUME GuardAssumption == MinDeletes \in Nat /\ ThresholdPercent \in Nat

Kinds == {"create", "patch", "delete"}

PatchFields == {"expiration", "max_tcp_conns", "enabled"}

DesiredUser == [exp : Exps \cup {None}, conns : Limits \cup {None}]

RemoteUser == [exp : Exps \cup {None}, conns : Limits \cup {None},
               enabled : BOOLEAN]

ASSUME AbsentAssumption == Absent \notin DesiredUser /\ Absent \notin RemoteUser

DesiredTable == [Users -> DesiredUser \cup {Absent}]

RemoteTable == [Users -> RemoteUser \cup {Absent}]

(* want: the values a create or a patch carries; fields: those it sends. *)
SyncOp == [kind : Kinds, user : Users, want : DesiredUser \cup {Absent},
           fields : SUBSET PatchFields]

-----------------------------------------------------------------------------
(* Comparing a desired user with a listed one. *)

(* Mutant: the dates are compared as strings. *)
ExpirationEqualsAsStrings(a, b) == a = b

ExpirationEquals(a, b) ==
    \/ a = b
    \/ /\ a # None
       /\ b # None
       /\ Instant[a] # Unparsable
       /\ Instant[b] # Unparsable
       /\ Instant[a] = Instant[b]

intEqual(a, b) == a = b

(* Mutant: a disabled user is not noticed. *)
patchFieldsForIgnoringEnabled(d, r) ==
    {f \in PatchFields :
        \/ f = "expiration" /\ ~ExpirationEquals(d.exp, r.exp)
        \/ f = "max_tcp_conns" /\ ~intEqual(d.conns, r.conns)}

(* Mutant: a renewal is not noticed. *)
patchFieldsForIgnoringExpiration(d, r) ==
    {f \in PatchFields :
        \/ f = "max_tcp_conns" /\ ~intEqual(d.conns, r.conns)
        \/ f = "enabled" /\ ~r.enabled}

patchFieldsFor(d, r) ==
    {f \in PatchFields :
        \/ f = "expiration" /\ ~ExpirationEquals(d.exp, r.exp)
        \/ f = "max_tcp_conns" /\ ~intEqual(d.conns, r.conns)
        \/ f = "enabled" /\ ~r.enabled}

-----------------------------------------------------------------------------
(* ComputeDiff. *)

Creates(desired, remote) ==
    {[kind |-> "create", user |-> u, want |-> desired[u], fields |-> {}] :
        u \in {v \in Users : desired[v] # Absent /\ remote[v] = Absent}}

Patches(desired, remote) ==
    {[kind |-> "patch", user |-> u, want |-> desired[u],
      fields |-> patchFieldsFor(desired[u], remote[u])] :
        u \in {v \in Users : /\ desired[v] # Absent
                             /\ remote[v] # Absent
                             /\ patchFieldsFor(desired[v], remote[v]) # {}}}

(* Mutant: the prefix is not looked at. *)
DeletesAnyUser(desired, remote) ==
    {[kind |-> "delete", user |-> u, want |-> Absent, fields |-> {}] :
        u \in {v \in Users : desired[v] = Absent /\ remote[v] # Absent}}

Deletes(desired, remote) ==
    {[kind |-> "delete", user |-> u, want |-> Absent, fields |-> {}] :
        u \in {v \in Managed : desired[v] = Absent /\ remote[v] # Absent}}

ComputeDiff(desired, remote) ==
    Creates(desired, remote) \cup Patches(desired, remote)
                             \cup Deletes(desired, remote)

(* Mutant: users are deleted before the new ones are created. *)
RankDeletesFirst == [delete |-> 1, create |-> 2, patch |-> 3]

(* out = creates, then patches, then deletes. *)
Rank == [create |-> 1, patch |-> 2, delete |-> 3]

(* The operations of ops that may stand first in the ordered list. *)
First(ops) == {o \in ops : \A p \in ops : Rank[o.kind] <= Rank[p.kind]}

-----------------------------------------------------------------------------
(* The guard against a catastrophic delete. *)

ManagedOn(remote) == {u \in Managed : remote[u] # Absent}

DeletesOf(ops) == {o \in ops : o.kind = "delete"}

(* Mutant: off by one at MinDeletes. *)
IsMassDeleteOffByOne(ops, remote) ==
    LET del == Cardinality(DeletesOf(ops))
        total == Cardinality(ManagedOn(remote))
    IN  /\ del > MinDeletes
        /\ 100 * del > ThresholdPercent * total

IsMassDelete(ops, remote) ==
    LET del == Cardinality(DeletesOf(ops))
        total == Cardinality(ManagedOn(remote))
    IN  /\ del >= MinDeletes
        /\ 100 * del > ThresholdPercent * total

-----------------------------------------------------------------------------
(* What a request does to the node's table once telemt accepts it. *)

StoredExp(e) == IF e = None THEN None ELSE Stored[e]

(* Mutant: the create request leaves the expiration out. *)
CreatedWithoutExpiration(want) ==
    [exp |-> None, conns |-> want.conns, enabled |-> TRUE]

Created(want) ==
    [exp |-> StoredExp(want.exp), conns |-> want.conns, enabled |-> TRUE]

(* Mutant: a nil expiration is left out of the patch instead of sent as null. *)
PatchedOmittingNull(r, op) ==
    [exp |-> IF "expiration" \in op.fields /\ op.want.exp # None
             THEN StoredExp(op.want.exp) ELSE r.exp,
     conns |-> IF "max_tcp_conns" \in op.fields THEN op.want.conns ELSE r.conns,
     enabled |-> IF "enabled" \in op.fields THEN TRUE ELSE r.enabled]

Patched(r, op) ==
    [exp |-> IF "expiration" \in op.fields THEN StoredExp(op.want.exp) ELSE r.exp,
     conns |-> IF "max_tcp_conns" \in op.fields THEN op.want.conns ELSE r.conns,
     enabled |-> IF "enabled" \in op.fields THEN TRUE ELSE r.enabled]

Outcome(op, r) ==
    IF op.kind = "create" THEN Created(op.want)
    ELSE IF op.kind = "patch" THEN Patched(r, op)
    ELSE Absent

Effect(op, n) == [n EXCEPT ![op.user] = Outcome(op, @)]

-----------------------------------------------------------------------------
(* What the diff is for, stated without it: the entry a node should have.  *)

SameMoment(a, b) == \/ a = b
                    \/ /\ a # None /\ b # None
                       /\ Instant[a] # Unparsable
                       /\ Instant[a] = Instant[b]

Agrees(want, r) ==
    /\ want # Absent /\ r # Absent
    /\ SameMoment(want.exp, r.exp)
    /\ want.conns = r.conns
    /\ r.enabled

UserInSync(u, desired, n) ==
    IF desired[u] = Absent THEN u \in Managed => n[u] = Absent
                           ELSE Agrees(desired[u], n[u])

OutOfSync(desired, n) == {u \in Users : ~UserInSync(u, desired, n)}

InSync(desired, n) == OutOfSync(desired, n) = {}

=============================================================================
