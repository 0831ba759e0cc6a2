--------------------------- MODULE TelemtSyncProofs ---------------------------
(***************************************************************************)
(* Facts about the diff engine that hold for any users, any prefix and any *)
(* dates.  A membership in ComputeDiff concerns one user only (OpOf); the  *)
(* lemmas follow from that.                                                *)
(***************************************************************************)
EXTENDS TelemtSync, FiniteSetTheorems, TLAPS

(* o is the operation the diff asks for user u, wanted as w and listed as r. *)
OpOf(o, u, w, r) ==
    \/ /\ w # Absent /\ r = Absent
       /\ o = [kind |-> "create", user |-> u, want |-> w, fields |-> {}]
    \/ /\ w # Absent /\ r # Absent /\ patchFieldsFor(w, r) # {}
       /\ o = [kind |-> "patch", user |-> u, want |-> w,
               fields |-> patchFieldsFor(w, r)]
    \/ /\ u \in Managed /\ w = Absent /\ r # Absent
       /\ o = [kind |-> "delete", user |-> u, want |-> Absent, fields |-> {}]

(* An operation of the diff is the operation of one user.                  *)
LEMMA DiffMember ==
    ASSUME NEW d, NEW n, NEW o
    PROVE  o \in ComputeDiff(d, n) <=> \E u \in Users : OpOf(o, u, d[u], n[u])
  <1>1. o \in Creates(d, n) <=>
          \E u \in Users : /\ d[u] # Absent /\ n[u] = Absent
                           /\ o = [kind |-> "create", user |-> u, want |-> d[u],
                                   fields |-> {}]
    BY DEF Creates
  <1>2. o \in Patches(d, n) <=>
          \E u \in Users : /\ d[u] # Absent /\ n[u] # Absent
                           /\ patchFieldsFor(d[u], n[u]) # {}
                           /\ o = [kind |-> "patch", user |-> u, want |-> d[u],
                                   fields |-> patchFieldsFor(d[u], n[u])]
    BY DEF Patches
  <1>3. o \in Deletes(d, n) <=>
          \E u \in Users : /\ u \in Managed /\ d[u] = Absent /\ n[u] # Absent
                           /\ o = [kind |-> "delete", user |-> u, want |-> Absent,
                                   fields |-> {}]
    BY ManagedAssumption DEF Deletes
  <1> HIDE DEF Creates, Patches, Deletes
  <1>4. QED BY <1>1, <1>2, <1>3 DEF ComputeDiff, OpOf

(* The same, from the operation's own user.                                *)
LEMMA DiffMemberUser ==
    ASSUME NEW d, NEW n, NEW o, o \in ComputeDiff(d, n)
    PROVE  o.user \in Users /\ OpOf(o, o.user, d[o.user], n[o.user])
  <1>1. PICK u \in Users : OpOf(o, u, d[u], n[u]) BY DiffMember
  <1>2. o.user = u BY <1>1 DEF OpOf
  <1>3. QED BY <1>1, <1>2

(* What the diff asks for is an operation.                                 *)
LEMMA DiffType ==
    ASSUME NEW d \in DesiredTable, NEW n \in RemoteTable
    PROVE  ComputeDiff(d, n) \subseteq SyncOp
  <1> SUFFICES ASSUME NEW o \in ComputeDiff(d, n) PROVE o \in SyncOp
    OBVIOUS
  <1>1. o.user \in Users /\ OpOf(o, o.user, d[o.user], n[o.user])
    BY DiffMemberUser
  <1>2. d[o.user] \in DesiredUser \cup {Absent} BY <1>1 DEF DesiredTable
  <1>3. patchFieldsFor(d[o.user], n[o.user]) \subseteq PatchFields
    BY DEF patchFieldsFor
  <1>4. QED BY <1>1, <1>2, <1>3 DEF OpOf, SyncOp, Kinds

(* The diff asks for at most one operation per user.                       *)
LEMMA DiffOnePerUser ==
    ASSUME NEW d, NEW n, NEW o \in ComputeDiff(d, n), NEW p \in ComputeDiff(d, n),
           o.user = p.user
    PROVE  o = p
  <1>1. OpOf(o, o.user, d[o.user], n[o.user]) BY DiffMemberUser
  <1>2. OpOf(p, o.user, d[o.user], n[o.user]) BY DiffMemberUser
  <1>3. QED BY <1>1, <1>2 DEF OpOf

(* So it has no more operations than there are users.                      *)
LEMMA DiffCardinality ==
    ASSUME NEW d, NEW n
    PROVE  /\ IsFiniteSet(ComputeDiff(d, n))
           /\ Cardinality(ComputeDiff(d, n)) <= Cardinality(Users)
  <1> DEFINE f == [o \in ComputeDiff(d, n) |-> o.user]
  <1>1. f \in [ComputeDiff(d, n) -> Users] BY DiffMemberUser
  <1>2. ASSUME NEW o \in ComputeDiff(d, n), NEW p \in ComputeDiff(d, n), f[o] = f[p]
        PROVE  o = p
    BY <1>2, DiffOnePerUser
  <1>3. f \in Injection(ComputeDiff(d, n), Users)
    BY <1>1, <1>2 DEF Injection, IsInjective
  <1>4. QED BY <1>3, UsersAssumption, FS_Injection

-----------------------------------------------------------------------------
(* The diff against what it is for. *)

(* Patching has nothing to send exactly when the entry already agrees.     *)
LEMMA PatchNeeded ==
    ASSUME NEW w \in DesiredUser, NEW r \in RemoteUser
    PROVE  patchFieldsFor(w, r) = {} <=> Agrees(w, r)
  <1>1. ExpirationEquals(w.exp, r.exp) <=> SameMoment(w.exp, r.exp)
    BY DEF ExpirationEquals, SameMoment
  <1>2. patchFieldsFor(w, r) = {} <=>
          ExpirationEquals(w.exp, r.exp) /\ w.conns = r.conns /\ r.enabled
    BY DEF patchFieldsFor, PatchFields, intEqual
  <1>3. w # Absent /\ r # Absent BY AbsentAssumption
  <1>4. QED BY <1>1, <1>2, <1>3 DEF Agrees

(* The diff asks for an operation for exactly the users out of sync.       *)
THEOREM DiffIsOutOfSync ==
    ASSUME NEW d \in DesiredTable, NEW n \in RemoteTable
    PROVE  {op.user : op \in ComputeDiff(d, n)} = OutOfSync(d, n)
  <1>1. ASSUME NEW u \in Users
        PROVE  ~UserInSync(u, d, n) <=> \E o : OpOf(o, u, d[u], n[u])
    <2>1. CASE d[u] = Absent
      BY <2>1, ManagedAssumption DEF UserInSync, OpOf
    <2>2. CASE d[u] # Absent /\ n[u] = Absent
      BY <2>2 DEF UserInSync, OpOf, Agrees
    <2>3. CASE d[u] # Absent /\ n[u] # Absent
      <3>1. d[u] \in DesiredUser /\ n[u] \in RemoteUser
        BY <2>3 DEF DesiredTable, RemoteTable
      <3>2. QED BY <2>3, <3>1, PatchNeeded DEF UserInSync, OpOf
    <2>4. QED BY <2>1, <2>2, <2>3
  <1>2. ASSUME NEW o \in ComputeDiff(d, n) PROVE o.user \in OutOfSync(d, n)
    BY <1>1, DiffMemberUser DEF OutOfSync
  <1>3. ASSUME NEW u \in OutOfSync(d, n)
        PROVE  \E o \in ComputeDiff(d, n) : o.user = u
    <2>1. u \in Users /\ ~UserInSync(u, d, n) BY DEF OutOfSync
    <2>2. PICK o : OpOf(o, u, d[u], n[u]) BY <1>1, <2>1
    <2>3. o \in ComputeDiff(d, n) BY <2>1, <2>2, DiffMember
    <2>4. o.user = u BY <2>2 DEF OpOf
    <2>5. QED BY <2>3, <2>4
  <1>4. QED BY <1>2, <1>3

-----------------------------------------------------------------------------
(* What an accepted operation does. *)

(* The entry telemt keeps after an operation of the diff.                  *)
LEMMA EffectEntry ==
    ASSUME NEW n \in RemoteTable, NEW op, op.user \in Users,
           NEW w \in DesiredUser \cup {Absent}, OpOf(op, op.user, w, n[op.user])
    PROVE  /\ Effect(op, n) \in RemoteTable
           /\ \A u \in Users \ {op.user} : Effect(op, n)[u] = n[u]
           /\ op.kind = "delete" => w = Absent /\ Effect(op, n)[op.user] = Absent
           /\ op.kind # "delete" => /\ w # Absent
                                    /\ Effect(op, n)[op.user] \in RemoteUser
                                    /\ Agrees(w, Effect(op, n)[op.user])
  <1> DEFINE r == n[op.user]
             e == Outcome(op, r)
  <1>1. Effect(op, n) = [n EXCEPT ![op.user] = e] BY DEF Effect
  <1>2. n \in [Users -> RemoteUser \cup {Absent}] BY DEF RemoteTable
  <1>3. \A x \in Exps : Stored[x] \in Exps /\ SameMoment(x, Stored[x])
    BY SpellingAssumption, NoneAssumption DEF SameMoment
  <1>4. \A x \in Exps \cup {None} :
           StoredExp(x) \in Exps \cup {None} /\ SameMoment(x, StoredExp(x))
    BY <1>3, NoneAssumption DEF StoredExp, SameMoment
  <1>5. CASE op.kind = "create"
    <2>1. w \in DesiredUser /\ op.want = w BY <1>5 DEF OpOf
    <2>2. w.exp \in Exps \cup {None} /\ w.conns \in Limits \cup {None}
      BY <2>1 DEF DesiredUser
    <2>3. e = Created(w) BY <1>5, <2>1 DEF Outcome
    <2>4. e \in RemoteUser BY <1>4, <2>2, <2>3 DEF Created, RemoteUser
    <2>5. e.exp = StoredExp(w.exp) /\ e.conns = w.conns /\ e.enabled
      BY <2>3 DEF Created
    <2>7. Agrees(w, e)
      BY <1>4, <2>1, <2>2, <2>4, <2>5, AbsentAssumption DEF Agrees
    <2>8. QED BY <1>1, <1>2, <1>5, <2>1, <2>4, <2>7, AbsentAssumption DEF RemoteTable
  <1>6. CASE op.kind = "patch"
    <2>1. /\ w \in DesiredUser /\ op.want = w /\ r \in RemoteUser
          /\ op.fields = patchFieldsFor(w, r)
      BY <1>2, <1>6 DEF OpOf
    <2>2. /\ w.exp \in Exps \cup {None} /\ w.conns \in Limits \cup {None}
          /\ r.exp \in Exps \cup {None} /\ r.conns \in Limits \cup {None}
          /\ r.enabled \in BOOLEAN
      BY <2>1 DEF DesiredUser, RemoteUser
    <2>3. e = Patched(r, op) BY <1>6 DEF Outcome
    <2> DEFINE exp == IF "expiration" \in op.fields THEN StoredExp(w.exp) ELSE r.exp
               conns == IF "max_tcp_conns" \in op.fields THEN w.conns ELSE r.conns
               enabled == IF "enabled" \in op.fields THEN TRUE ELSE r.enabled
    <2>a. exp \in Exps \cup {None} BY <1>4, <2>2
    <2>b. conns \in Limits \cup {None} BY <2>2
    <2>c. enabled \in BOOLEAN BY <2>2
    <2>d. e = [exp |-> exp, conns |-> conns, enabled |-> enabled]
      BY <2>1, <2>3 DEF Patched
    <2> HIDE DEF exp, conns, enabled
    <2>4. e \in RemoteUser BY <2>a, <2>b, <2>c, <2>d DEF RemoteUser
    <2>5. /\ "expiration" \in op.fields <=> ~ExpirationEquals(w.exp, r.exp)
          /\ "max_tcp_conns" \in op.fields <=> w.conns # r.conns
          /\ "enabled" \in op.fields <=> ~r.enabled
      BY <2>1 DEF patchFieldsFor, PatchFields, intEqual
    <2>6. SameMoment(w.exp, e.exp)
      <3>1. e.exp = exp BY <2>d
      <3>2. QED BY <1>4, <2>2, <2>5, <3>1 DEF exp, ExpirationEquals, SameMoment
    <2>7. w.conns = e.conns /\ e.enabled
      BY <2>2, <2>5, <2>d DEF conns, enabled
    <2>8. Agrees(w, e) BY <2>1, <2>4, <2>6, <2>7, AbsentAssumption DEF Agrees
    <2>9. QED BY <1>1, <1>2, <1>6, <2>1, <2>4, <2>8, AbsentAssumption DEF RemoteTable
  <1>7. CASE op.kind = "delete"
    <2>1. w = Absent /\ e = Absent BY <1>7 DEF OpOf, Outcome
    <2>2. QED BY <1>1, <1>2, <1>7, <2>1 DEF RemoteTable
  <1>8. op.kind \in {"create", "patch", "delete"} BY DEF OpOf
  <1>9. QED BY <1>5, <1>6, <1>7, <1>8

(* An accepted operation takes itself, and nothing else, off the diff: the *)
(* list computed once stays right as its operations are carried out.       *)
THEOREM EffectResolves ==
    ASSUME NEW d \in DesiredTable, NEW n \in RemoteTable,
           NEW op \in ComputeDiff(d, n)
    PROVE  /\ Effect(op, n) \in RemoteTable
           /\ ComputeDiff(d, Effect(op, n)) = ComputeDiff(d, n) \ {op}
  <1> DEFINE m == Effect(op, n)
  <1>1. op.user \in Users /\ OpOf(op, op.user, d[op.user], n[op.user])
    BY DiffMemberUser
  <1>2. d[op.user] \in DesiredUser \cup {Absent} BY <1>1 DEF DesiredTable
  <1>3. /\ m \in RemoteTable
        /\ \A u \in Users \ {op.user} : m[u] = n[u]
        /\ op.kind = "delete" => d[op.user] = Absent /\ m[op.user] = Absent
        /\ op.kind # "delete" => /\ d[op.user] # Absent
                                 /\ m[op.user] \in RemoteUser
                                 /\ Agrees(d[op.user], m[op.user])
    BY <1>1, <1>2, EffectEntry
  <1> HIDE DEF m
  <1>4. ASSUME NEW o PROVE ~OpOf(o, op.user, d[op.user], m[op.user])
    <2>1. CASE op.kind = "delete" BY <1>3, <2>1 DEF OpOf
    <2>2. CASE op.kind # "delete"
      <3>1. patchFieldsFor(d[op.user], m[op.user]) = {}
        BY <1>2, <1>3, <2>2, PatchNeeded
      <3>2. QED BY <1>3, <2>2, <3>1, AbsentAssumption DEF OpOf
    <2>3. QED BY <2>1, <2>2
  <1>5. ASSUME NEW o
        PROVE  o \in ComputeDiff(d, m) <=> o \in ComputeDiff(d, n) /\ o # op
    <2>1. ASSUME o \in ComputeDiff(d, m) PROVE o \in ComputeDiff(d, n) /\ o # op
      <3>1. o.user \in Users /\ OpOf(o, o.user, d[o.user], m[o.user])
        BY <2>1, DiffMemberUser
      <3>2. o.user # op.user BY <1>4, <3>1
      <3>3. OpOf(o, o.user, d[o.user], n[o.user]) BY <1>3, <3>1, <3>2
      <3>4. QED BY <3>1, <3>2, <3>3, DiffMember
    <2>2. ASSUME o \in ComputeDiff(d, n), o # op PROVE o \in ComputeDiff(d, m)
      <3>1. o.user \in Users /\ OpOf(o, o.user, d[o.user], n[o.user])
        BY <2>2, DiffMemberUser
      <3>2. o.user # op.user BY <2>2, DiffOnePerUser
      <3>3. OpOf(o, o.user, d[o.user], m[o.user]) BY <1>3, <3>1, <3>2
      <3>4. QED BY <3>1, <3>3, DiffMember
    <2>3. QED BY <2>1, <2>2
  <1>6. QED BY <1>3, <1>5 DEF m

=============================================================================
