--------------------------- MODULE ReconcilerProofs ---------------------------
(***************************************************************************)
(* SyncNode implements Reconciler: the state maps through Intents and the  *)
(* count of operator edits, and every step is a step of Reconciler or      *)
(* leaves its variables alone.                                             *)
(***************************************************************************)
EXTENDS SyncNodeProofs

(* An intent is what a pass under way wants of a user, or what a request   *)
(* on the wire carries.                                                    *)
LEMMA IntentMember ==
    ASSUME NEW i
    PROVE  i \in Intents <=>
             \/ \E s \in Syncers, u \in Users :
                   pc[s] \in {"list", "apply"} /\ i = <<u, des[s][u]>>
             \/ \E r \in late : i = <<r.op.user, r.op.want>>
  BY DEF Intents

(* The same in the next state.                                             *)
LEMMA IntentMemberNext ==
    ASSUME NEW i
    PROVE  i \in Intents' <=>
             \/ \E s \in Syncers, u \in Users :
                   pc'[s] \in {"list", "apply"} /\ i = <<u, des'[s][u]>>
             \/ \E r \in late' : i = <<r.op.user, r.op.want>>
  BY DEF Intents

(* An operation a pass tries carries an intent of that pass.               *)
LEMMA TryingIntent ==
    ASSUME IInv, NEW s \in Syncers, NEW op, Trying(s, op)
    PROVE  /\ op.user \in Users /\ op.want = des[s][op.user]
           /\ <<op.user, op.want>> \in Intents
  <1>1. op \in ComputeDiff(des[s], rev[s]) /\ pc[s] = "apply" BY TryingFits
  <1>2. op.user \in Users /\ op.want = des[s][op.user]
    BY <1>1, DiffMemberUser DEF OpOf
  <1>3. QED BY <1>1, <1>2, IntentMember

(* No new intent appears when no pass begins and what is put on the wire   *)
(* is an operation being tried.                                            *)
LEMMA IntentsShrink ==
    ASSUME IInv,
           \A q \in Syncers : pc'[q] \in {"list", "apply"} =>
               pc[q] \in {"list", "apply"} /\ des'[q] = des[q],
           \A r \in late' : r \in late \/ \E s \in Syncers : \E op :
               Trying(s, op) /\ r = InFlight(s, op)
    PROVE  Intents' \subseteq Intents
  <1> SUFFICES ASSUME NEW i \in Intents' PROVE i \in Intents OBVIOUS
  <1>1. CASE \E s \in Syncers, u \in Users :
                pc'[s] \in {"list", "apply"} /\ i = <<u, des'[s][u]>>
    BY <1>1, IntentMember
  <1>2. ASSUME NEW r \in late', i = <<r.op.user, r.op.want>> PROVE i \in Intents
    <2>1. CASE r \in late BY <1>2, <2>1, IntentMember
    <2>2. ASSUME NEW s \in Syncers, NEW op, Trying(s, op), r = InFlight(s, op)
          PROVE  i \in Intents
      <3>1. r.op = op BY <2>2 DEF InFlight
      <3>2. QED BY <1>2, <2>2, <3>1, TryingIntent
    <2>3. QED BY <2>1, <2>2
  <1>3. QED BY <1>1, <1>2, IntentMemberNext

(* Landing an operation of a diff settles an intent that was not settled,  *)
(* and touches no other user.                                              *)
LEMMA EffectSettles ==
    ASSUME NEW d \in DesiredTable, NEW n \in RemoteTable, NEW op \in ComputeDiff(d, n)
    PROVE  /\ ~Abstract!Settled(op.user, op.want, n[op.user])
           /\ Abstract!Settled(op.user, op.want, Effect(op, n)[op.user])
           /\ \A u \in Users \ {op.user} : Effect(op, n)[u] = n[u]
           /\ Effect(op, n) \in RemoteTable
  <1> DEFINE u == op.user
  <1>1. u \in Users /\ OpOf(op, u, d[u], n[u]) BY DiffMemberUser
  <1>2. d[u] \in DesiredUser \cup {Absent} /\ n[u] \in RemoteUser \cup {Absent}
    BY <1>1 DEF DesiredTable, RemoteTable
  <1>3. op.want = d[u] /\ (op.kind = "delete" <=> d[u] = Absent)
        /\ (op.kind = "delete" => u \in Managed)
    BY <1>1 DEF OpOf
  <1>4. /\ Effect(op, n) \in RemoteTable
        /\ \A v \in Users \ {u} : Effect(op, n)[v] = n[v]
        /\ op.kind = "delete" => Effect(op, n)[u] = Absent
        /\ op.kind # "delete" => Agrees(d[u], Effect(op, n)[u])
    BY <1>1, <1>2, EffectEntry
  <1>5. ~Abstract!Settled(u, op.want, n[u])
    <2>1. CASE d[u] = Absent BY <1>1, <1>3, <2>1 DEF OpOf, Abstract!Settled
    <2>2. CASE d[u] # Absent /\ n[u] = Absent
      BY <1>3, <2>2 DEF Abstract!Settled, Abstract!Agrees
    <2>3. CASE d[u] # Absent /\ n[u] # Absent
      <3>1. ~Agrees(d[u], n[u]) BY <1>1, <1>2, <2>3, PatchNeeded DEF OpOf
      <3>2. QED
        BY <1>3, <2>3, <3>1
        DEF Abstract!Settled, Abstract!Agrees, Agrees, Abstract!SameMoment, SameMoment
    <2>4. QED BY <2>1, <2>2, <2>3
  <1>6. Abstract!Settled(u, op.want, Effect(op, n)[u])
    BY <1>3, <1>4
    DEF Abstract!Settled, Abstract!Agrees, Agrees, Abstract!SameMoment, SameMoment
  <1>7. QED BY <1>4, <1>5, <1>6

-----------------------------------------------------------------------------
(* The simulation, one lemma per kind of step. *)

(* Initial states map to initial states.                                   *)
LEMMA InitAbstract == Init => Abstract!Init
  <1> SUFFICES ASSUME Init PROVE Abstract!Init OBVIOUS
  <1>1. Intents = {}
    <2> SUFFICES ASSUME NEW i \in Intents PROVE FALSE OBVIOUS
    <2> QED BY IntentMember DEF Init
  <1>2. spent["edits"] = 0 BY DEF Init, Costs
  <1>3. QED BY <1>1, <1>2 DEF Init, Abstract!Init

(* A step that touches neither table and begins no pass forgets intents.   *)
LEMMA ForgetStep ==
    ASSUME UNCHANGED <<pg, node>>, spent'["edits"] = spent["edits"],
           Intents' \subseteq Intents
    PROVE  Abstract!Next
  BY DEF Abstract!Next, Abstract!Forget

(* A mutation that lands reconciles.                                       *)
LEMMA LandStep ==
    ASSUME NEW d \in DesiredTable, node \in RemoteTable,
           NEW op \in ComputeDiff(d, node), node' = Effect(op, node),
           <<op.user, op.want>> \in Intents, Intents' \subseteq Intents,
           UNCHANGED pg, spent'["edits"] = spent["edits"]
    PROVE  Abstract!Next
  <1>1. /\ ~Abstract!Settled(op.user, op.want, node[op.user])
        /\ Abstract!Settled(op.user, op.want, node'[op.user])
        /\ \A u \in Users \ {op.user} : node'[u] = node[u]
        /\ node' \in RemoteTable
    BY EffectSettles
  <1> DEFINE i == <<op.user, op.want>>
  <1>2. /\ i \in Intents
        /\ ~Abstract!Settled(i[1], i[2], node[i[1]])
        /\ Abstract!Settled(i[1], i[2], node'[i[1]])
        /\ \A u \in Users \ {i[1]} : node'[u] = node[u]
    BY <1>1
  <1> HIDE DEF i
  <1>3. Abstract!RemoteTable = RemoteTable
    BY DEF Abstract!RemoteTable, RemoteTable, Abstract!RemoteUser, RemoteUser
  <1>4. Abstract!Reconcile BY <1>1, <1>2, <1>3 DEF Abstract!Reconcile
  <1>5. QED BY <1>4 DEF Abstract!Next

(* Beginning a pass reads the database.                                    *)
LEMMA StartStep ==
    ASSUME IInv, NEW s \in Syncers, Start(s)
    PROVE  Abstract!Next
  <1>1. /\ pc[s] \notin {"list", "apply"} /\ UNCHANGED <<pg, node, late, spent>>
        /\ pc' = [pc EXCEPT ![s] = "list"]
        /\ des' = [des EXCEPT ![s] = ListDesired(pg)]
        /\ pc \in [Syncers -> Steps] /\ des \in [Syncers -> DesiredTable]
    BY DEF Start, Idle, tables, IInv, TypeOK
  <1>2. Intents' = Intents \cup {<<u, ListDesired(pg)[u]>> : u \in Users}
    <2>1. ASSUME NEW i
          PROVE  i \in Intents' <=>
                   i \in Intents \/ \E u \in Users : i = <<u, ListDesired(pg)[u]>>
      BY <1>1, IntentMember, IntentMemberNext
    <2>2. QED BY <2>1
  <1>3. Abstract!ListDesired(pg) = ListDesired(pg)
    BY DEF Abstract!ListDesired, ListDesired
  <1>4. Abstract!Read BY <1>1, <1>2, <1>3 DEF Abstract!Read
  <1>5. QED BY <1>4 DEF Abstract!Next

(* The rest of a pass.                                                     *)
LEMMA PassStep ==
    ASSUME IInv, NEW s \in Syncers, Pass(s)
    PROVE  Abstract!Next
  <1>1. CASE Start(s) BY <1>1, StartStep
  <1>2. ASSUME NEW op \in todo[s], Apply(s, op) PROVE Abstract!Next
    <2>1. /\ Trying(s, op) /\ rev[s] = node /\ node' = Effect(op, node)
          /\ UNCHANGED <<pg, late, spent>> /\ MoveOn(s, op, node')
      BY <1>2 DEF Apply, Refusals
    <2>2. /\ des[s] \in DesiredTable /\ node \in RemoteTable /\ pc[s] = "apply"
          /\ op \in ComputeDiff(des[s], node)
      BY <2>1, TryingFits
    <2>3. <<op.user, op.want>> \in Intents BY <2>1, TryingIntent
    <2>4. Intents' \subseteq Intents
      BY <2>1, <2>2, IntentsShrink DEF MoveOn, Return, IInv, TypeOK
    <2>5. QED BY <2>1, <2>2, <2>3, <2>4, LandStep
  <1>3. ASSUME NEW op \in todo[s], Skip(s, op) \/ Refuse(s, op) \/ NoAnswer(s, op)
        PROVE  Abstract!Next
    <2>1. /\ Trying(s, op) /\ MoveOn(s, op, rev[s]) /\ UNCHANGED <<pg, node>>
          /\ late' \in {late, late \cup {InFlight(s, op)}}
          /\ spent'["edits"] = spent["edits"]
      BY <1>3 DEF Skip, Refuse, NoAnswer, CountFailure, tables, Spend, IInv, TypeOK, Costs
    <2>2. pc[s] = "apply" BY <2>1 DEF Trying
    <2>3. \A q \in Syncers : pc'[q] \in {"list", "apply"} =>
             pc[q] \in {"list", "apply"} /\ des'[q] = des[q]
      BY <2>1, <2>2 DEF MoveOn, Return, IInv, TypeOK
    <2>4. Intents' \subseteq Intents BY <2>1, <2>3, IntentsShrink
    <2>5. QED BY <2>1, <2>4, ForgetStep
  <1>4. CASE \/ List(s) \/ StartFails(s) \/ ListFails(s)
             \/ \E op \in todo[s] : StopReadOnly(s, op) \/ Conflict(s, op)
    <2>1. UNCHANGED <<pg, node, late>> /\ spent'["edits"] = spent["edits"]
      BY <1>4 DEF List, StartFails, ListFails, StopReadOnly, Conflict, tables, Spend,
                  IInv, TypeOK, Costs
    <2>2. \A q \in Syncers : pc'[q] \in {"list", "apply"} =>
             pc[q] \in {"list", "apply"} /\ des'[q] = des[q]
      BY <1>4 DEF List, StartFails, ListFails, StopReadOnly, Conflict, Trying, Return,
                  IInv, TypeOK
    <2>3. Intents' \subseteq Intents BY <2>1, <2>2, IntentsShrink
    <2>4. QED BY <2>1, <2>3, ForgetStep
  <1>5. CASE Crash(s)
    <2>1. /\ UNCHANGED <<pg, node>> /\ spent'["edits"] = spent["edits"]
          /\ pc' = [pc EXCEPT ![s] = "idle"] /\ des' = [des EXCEPT ![s] = NoUsers]
      BY <1>5 DEF Crash, tables, Spend, IInv, TypeOK, Costs
    <2>2. \A q \in Syncers : pc'[q] \in {"list", "apply"} =>
             pc[q] \in {"list", "apply"} /\ des'[q] = des[q]
      BY <2>1 DEF IInv, TypeOK
    <2>3. \A r \in late' : r \in late \/ \E op : Trying(s, op) /\ r = InFlight(s, op)
      BY <1>5 DEF Crash, Trying, First, IInv, TodoFresh
    <2>4. Intents' \subseteq Intents BY <2>2, <2>3, IntentsShrink
    <2>5. QED BY <2>1, <2>4, ForgetStep
  <1>6. QED BY <1>1, <1>2, <1>3, <1>4, <1>5 DEF Pass, Answered

(* A request that lands late reconciles; one refused is forgotten.         *)
LEMMA LateStep ==
    ASSUME IInv, NEW r \in late, Late(r)
    PROVE  Abstract!Next
  <1>1. /\ late' = late \ {r} /\ UNCHANGED <<pg, pc, des, spent>>
        /\ node' = IF Refusals(r.op, r.ifMatch) = {} THEN Effect(r.op, node) ELSE node
    BY DEF Late
  <1>2. Intents' \subseteq Intents BY <1>1, IntentsShrink
  <1>3. CASE Refusals(r.op, r.ifMatch) = {}
    <2>1. PICK d \in DesiredTable : r.op \in ComputeDiff(d, node) BY <1>3, LateEffect
    <2>2. <<r.op.user, r.op.want>> \in Intents BY IntentMember
    <2>3. node \in RemoteTable BY DEF IInv, TypeOK
    <2>4. QED BY <1>1, <1>2, <1>3, <2>1, <2>2, <2>3, LandStep
  <1>4. CASE Refusals(r.op, r.ifMatch) # {}
    BY <1>1, <1>2, <1>4, ForgetStep
  <1>5. QED BY <1>3, <1>4

(* Statements on the users table write one row, operators edit the node.   *)
LEMMA EnvironmentStep ==
    ASSUME IInv, Environment
    PROVE  [Abstract!Next]_Abstract!vars
  <1>1. pg \in UsersTable /\ node \in RemoteTable /\ spent \in [Costs -> Nat]
    BY DEF IInv, TypeOK
  <1>2. ASSUME UNCHANGED <<late, pc, des>> PROVE Intents' = Intents
    BY <1>2 DEF Intents
  <1>3. Abstract!RemoteTable = RemoteTable /\ Abstract!Row = Row
    BY DEF Abstract!RemoteTable, RemoteTable, Abstract!RemoteUser, RemoteUser,
           Abstract!Row, Row
  <1>4. CASE Create \/ Delete \/ Renew \/ Enable
    <2>1. PICK t \in UsersTable :
             /\ Write(t)
             /\ \E u \in Users : \A v \in Users \ {u} : t[v] = pg[v]
      <3>1. CASE Create
        <4>1. PICK u \in Users, exp \in Stamps \cup {None}, conns \in Limits \cup {None} :
                 Write(CreateUser(pg, u, exp, conns))
          BY <3>1 DEF Create
        <4> DEFINE new == CreateUser(pg, u, exp, conns)
        <4>2. Write(new) BY <4>1
        <4>3. new \in UsersTable BY <1>1, StatementsType
        <4>4. \A v \in Users \ {u} : new[v] = pg[v] BY <1>1 DEF CreateUser, UsersTable
        <4> HIDE DEF new
        <4>5. QED BY <4>2, <4>3, <4>4
      <3>2. CASE Delete
        <4>1. PICK u \in Users : Write(DeleteUser(pg, u))
          BY <3>2 DEF Delete
        <4> DEFINE new == DeleteUser(pg, u)
        <4>2. Write(new) BY <4>1
        <4>3. new \in UsersTable BY <1>1 DEF DeleteUser, UsersTable
        <4>4. \A v \in Users \ {u} : new[v] = pg[v] BY <1>1 DEF DeleteUser, UsersTable
        <4> HIDE DEF new
        <4>5. QED BY <4>2, <4>3, <4>4
      <3>3. CASE Renew
        <4>1. PICK u \in Users, exp \in Stamps \cup {None} : Write(SetExpiration(pg, u, exp))
          BY <3>3 DEF Renew
        <4> DEFINE new == SetExpiration(pg, u, exp)
        <4>2. Write(new) BY <4>1
        <4>3. new \in UsersTable BY <1>1, StatementsType
        <4>4. \A v \in Users \ {u} : new[v] = pg[v] BY <1>1 DEF SetExpiration, UsersTable
        <4> HIDE DEF new
        <4>5. QED BY <4>2, <4>3, <4>4
      <3>4. CASE Enable
        <4>1. PICK u \in Users, b \in BOOLEAN : Write(SetEnabled(pg, u, b))
          BY <3>4 DEF Enable
        <4> DEFINE new == SetEnabled(pg, u, b)
        <4>2. Write(new) BY <4>1
        <4>3. new \in UsersTable BY <1>1, StatementsType
        <4>4. \A v \in Users \ {u} : new[v] = pg[v] BY <1>1 DEF SetEnabled, UsersTable
        <4> HIDE DEF new
        <4>5. QED BY <4>2, <4>3, <4>4
      <3>5. QED BY <1>4, <3>1, <3>2, <3>3, <3>4
    <2>2. /\ pg' = t /\ UNCHANGED <<node, late, pc, des>>
          /\ spent'["edits"] = spent["edits"]
      BY <1>1, <2>1 DEF Write, Spend, Costs
    <2>3. PICK u \in Users : \A v \in Users \ {u} : t[v] = pg[v] BY <2>1
    <2>4. t = [pg EXCEPT ![u] = t[u]] /\ t[u] \in Row \cup {Absent}
      BY <1>1, <2>1, <2>3 DEF UsersTable
    <2>5. Abstract!Write BY <1>2, <1>3, <2>2, <2>4 DEF Abstract!Write
    <2>6. QED BY <2>5 DEF Abstract!Next
  <1>5. CASE EditNode
    <2>1. node' \in RemoteTable BY <1>1, <1>5 DEF EditNode, RemoteTable
    <2>2. spent'["edits"] = spent["edits"] + 1 /\ UNCHANGED <<pg, late, pc, des>>
      BY <1>1, <1>5 DEF EditNode, Spend, Costs
    <2>3. Abstract!Edit BY <1>2, <1>3, <2>1, <2>2 DEF Abstract!Edit
    <2>4. QED BY <2>3 DEF Abstract!Next
  <1>6. CASE SwitchReadOnly
    <2>1. /\ node' \in RemoteTable
          /\ spent'["edits"] = spent["edits"] + 1 /\ UNCHANGED <<pg, late, pc, des>>
      BY <1>1, <1>6 DEF SwitchReadOnly, Spend, Costs
    <2>2. Abstract!Edit BY <1>2, <1>3, <2>1 DEF Abstract!Edit
    <2>3. QED BY <2>2 DEF Abstract!Next
  <1>7. QED BY <1>4, <1>5, <1>6 DEF Environment

(* Every step maps to a step of Reconciler or to a stutter.                *)
LEMMA NextAbstract == IInv /\ [Next]_vars => [Abstract!Next]_Abstract!vars
  <1> SUFFICES ASSUME IInv, [Next]_vars PROVE [Abstract!Next]_Abstract!vars
    OBVIOUS
  <1>1. CASE Next
    BY <1>1, PassStep, LateStep, EnvironmentStep DEF Next
  <1>2. CASE UNCHANGED vars
    BY <1>2 DEF vars, Abstract!vars, Intents
  <1>3. QED BY <1>1, <1>2

(* Whatever the interleaving, the loss and the crashes, passes change a    *)
(* node only by settling, one user at a time, what the database wanted.    *)
THEOREM Refinement == Spec => ImplementsReconciler
  <1>1. QED
    BY InitAbstract, NextAbstract, Invariance, PTL
    DEF Spec, ImplementsReconciler, Abstract!Spec

=============================================================================
