---------------------------- MODULE SyncNodeProofs ----------------------------
(***************************************************************************)
(* What holds of the passes over a node for any users, any number of       *)
(* processes and any bounds.  The inductive invariant IInv says that a     *)
(* pass holds a list that is still the diff of its revision, and that a    *)
(* request on the wire was an operation of such a diff.                    *)
(***************************************************************************)
EXTENDS SyncNode, TelemtSyncProofs

(* A pass has something to try while it applies, and nothing otherwise.    *)
TodoFresh ==
    \A s \in Syncers :
        /\ pc[s] # "apply" => todo[s] = {}
        /\ pc[s] = "apply" => /\ todo[s] # {}
                              /\ todo[s] \cap (failed[s] \cup skipped[s]) = {}

(* A request given up on was computed from the revision it carries.        *)
LateFits ==
    \A r \in late : \E d \in DesiredTable : r.op \in ComputeDiff(d, r.ifMatch)

IInv == TypeOK /\ TodoIsTheDiff /\ TodoFresh /\ LateFits

-----------------------------------------------------------------------------
(* The tables. *)

(* The table without users is a table of each kind.                        *)
LEMMA NoUsersType == NoUsers \in DesiredTable /\ NoUsers \in RemoteTable
  BY DEF NoUsers, DesiredTable, RemoteTable

(* ListDesired returns desired users.                                      *)
LEMMA ListDesiredType ==
    ASSUME NEW t \in UsersTable
    PROVE  ListDesired(t) \in DesiredTable
  <1> DEFINE exp(u) == IF t[u].exp = None THEN None ELSE Rfc3339[t[u].exp]
             want(u) == [exp |-> exp(u), conns |-> t[u].conns]
  <1>1. ASSUME NEW u \in Users, t[u] # Absent PROVE want(u) \in DesiredUser
    <2>1. t[u] \in Row BY <1>1 DEF UsersTable
    <2>2. t[u].exp \in Stamps \cup {None} /\ t[u].conns \in Limits \cup {None}
      BY <2>1 DEF Row
    <2>3. exp(u) \in Exps \cup {None} BY <2>2, FormatAssumption
    <2> HIDE DEF exp
    <2>4. QED BY <2>2, <2>3 DEF DesiredUser
  <1>2. ListDesired(t) = [u \in Users |->
            IF t[u] = Absent \/ ~t[u].enabled THEN Absent ELSE want(u)]
    BY DEF ListDesired
  <1> HIDE DEF want
  <1>3. QED BY <1>1, <1>2 DEF DesiredTable

(* Each statement on the users table leaves a users table.                 *)
LEMMA StatementsType ==
    ASSUME NEW t \in UsersTable, NEW u \in Users, NEW exp \in Stamps \cup {None},
           NEW conns \in Limits \cup {None}, NEW b \in BOOLEAN
    PROVE  /\ CreateUser(t, u, exp, conns) \in UsersTable
           /\ DeleteUser(t, u) \in UsersTable
           /\ SetExpiration(t, u, exp) \in UsersTable
           /\ SetEnabled(t, u, b) \in UsersTable
  <1>1. [exp |-> exp, conns |-> conns, enabled |-> TRUE] \in Row BY DEF Row
  <1>2. CreateUser(t, u, exp, conns) \in UsersTable
    BY <1>1 DEF CreateUser, UsersTable
  <1>3. DeleteUser(t, u) \in UsersTable BY DEF DeleteUser, UsersTable
  <1>4. t[u] # Absent => [t[u] EXCEPT !.exp = exp] \in Row
    BY DEF UsersTable, Row
  <1>5. t[u] # Absent => [t[u] EXCEPT !.enabled = b] \in Row
    BY DEF UsersTable, Row
  <1>6. SetExpiration(t, u, exp) \in UsersTable
    <2>1. SetExpiration(t, u, exp) =
            IF t[u] = Absent THEN t ELSE [t EXCEPT ![u] = [t[u] EXCEPT !.exp = exp]]
      BY DEF SetExpiration
    <2>2. QED BY <1>4, <2>1 DEF UsersTable
  <1>7. SetEnabled(t, u, b) \in UsersTable
    <2>1. SetEnabled(t, u, b) =
            IF t[u] = Absent THEN t ELSE [t EXCEPT ![u] = [t[u] EXCEPT !.enabled = b]]
      BY DEF SetEnabled
    <2>2. QED BY <1>5, <2>1 DEF UsersTable
  <1>8. QED BY <1>2, <1>3, <1>6, <1>7

-----------------------------------------------------------------------------
(* The invariant. *)

(* It holds at the start.                                                  *)
LEMMA InitIInv == Init => IInv
  <1> SUFFICES ASSUME Init PROVE IInv OBVIOUS
  <1>1. pg \in UsersTable /\ node \in RemoteTable
    BY StartAssumption DEF Init
  <1>2. TypeOK
    <2>1. attempt \in [Syncers -> 0 .. MaxRetry] BY BoundsAssumption DEF Init
    <2>2. /\ des \in [Syncers -> DesiredTable] /\ rev \in [Syncers -> RemoteTable]
      BY NoUsersType DEF Init
    <2>3. /\ ops \in [Syncers -> SUBSET SyncOp] /\ todo \in [Syncers -> SUBSET SyncOp]
          /\ applied \in [Syncers -> SUBSET SyncOp]
          /\ skipped \in [Syncers -> SUBSET SyncOp]
          /\ failed \in [Syncers -> SUBSET SyncOp]
      BY DEF Init
    <2>4. /\ pc \in [Syncers -> Steps] /\ err \in [Syncers -> Errors]
          /\ aborted \in [Syncers -> BOOLEAN] /\ spent \in [Costs -> Nat]
          /\ readOnly \in BOOLEAN /\ late \subseteq Request
      BY DEF Init, Steps, Errors, Costs
    <2>5. QED BY <1>1, <2>1, <2>2, <2>3, <2>4 DEF TypeOK
  <1>3. TodoIsTheDiff /\ TodoFresh /\ LateFits
    BY DEF Init, TodoIsTheDiff, TodoFresh, LateFits
  <1>4. QED BY <1>2, <1>3 DEF IInv

(* The beginning of a pass keeps it.                                       *)
LEMMA StartIInv ==
    ASSUME IInv, NEW s \in Syncers, Start(s) \/ StartFails(s)
    PROVE  IInv'
  <1> USE DEF IInv
  <1>1. ListDesired(pg) \in DesiredTable BY ListDesiredType DEF TypeOK
  <1>2. pc[s] # "apply" /\ todo[s] = {}
    BY DEF Start, StartFails, Idle, TodoFresh
  <1>3. CASE Start(s)
    <2>1. TypeOK'
      BY <1>1, <1>3, BoundsAssumption
      DEF Start, TypeOK, FreshResult, Steps, Errors, tables
    <2>2. TodoIsTheDiff'
      BY <1>3 DEF Start, TypeOK, TodoIsTheDiff, FreshResult
    <2>3. TodoFresh'
      BY <1>2, <1>3 DEF Start, TypeOK, TodoFresh, FreshResult
    <2>4. LateFits' BY <1>3 DEF Start, LateFits
    <2>5. QED BY <2>1, <2>2, <2>3, <2>4
  <1>4. CASE StartFails(s)
    <2>1. TypeOK'
      BY <1>4, NoUsersType, BoundsAssumption
      DEF StartFails, TypeOK, FreshResult, Return, Spend, Steps, Errors, Costs, tables
    <2>2. TodoIsTheDiff'
      BY <1>4 DEF StartFails, TypeOK, TodoIsTheDiff, FreshResult, Return
    <2>3. TodoFresh'
      BY <1>2, <1>4 DEF StartFails, TypeOK, TodoFresh, FreshResult, Return
    <2>4. LateFits' BY <1>4 DEF StartFails, LateFits
    <2>5. QED BY <2>1, <2>2, <2>3, <2>4
  <1>5. QED BY <1>3, <1>4

(* So do the listing and its failure.                                      *)
LEMMA ListIInv ==
    ASSUME IInv, NEW s \in Syncers, List(s) \/ ListFails(s)
    PROVE  IInv'
  <1> USE DEF IInv
  <1> DEFINE new == ComputeDiff(des[s], node)
  <1>1. new \subseteq SyncOp BY DiffType DEF TypeOK
  <1>2. todo[s] = {} BY DEF List, ListFails, TodoFresh
  <1>3. CASE List(s)
    <2>1. /\ FreshResult(s, new) /\ aborted' \in [Syncers -> BOOLEAN]
          /\ UNCHANGED <<tables, late, spent>>
          /\ \/ Return(s, "none")
             \/ /\ pc' = [pc EXCEPT ![s] = "apply"]
                /\ todo' = [todo EXCEPT ![s] = new]
                /\ rev' = [rev EXCEPT ![s] = node]
                /\ new # {}
                /\ UNCHANGED <<des, attempt, err>>
      BY <1>3 DEF List, TypeOK, IsMassDelete
    <2> HIDE DEF new
    <2>2. CASE Return(s, "none")
      <3>1. TypeOK'
        BY <1>1, <2>1, <2>2, NoUsersType, BoundsAssumption
        DEF TypeOK, FreshResult, Return, Steps, Errors, tables
      <3>2. TodoIsTheDiff'
        BY <2>1, <2>2 DEF TypeOK, TodoIsTheDiff, FreshResult, Return
      <3>3. TodoFresh' BY <2>1, <2>2 DEF TypeOK, TodoFresh, FreshResult, Return
      <3>4. LateFits' BY <2>1 DEF LateFits
      <3>5. QED BY <3>1, <3>2, <3>3, <3>4
    <2>3. CASE ~Return(s, "none")
      <3>1. TypeOK'
        BY <1>1, <2>1, <2>3 DEF TypeOK, FreshResult, Steps, tables
      <3>2. TodoIsTheDiff'
        <4> SUFFICES ASSUME NEW q \in Syncers, pc'[q] = "apply"
                     PROVE  ComputeDiff(des[q], rev'[q])
                              = todo'[q] \cup failed'[q] \cup skipped'[q]
          BY <2>1, <2>3 DEF TodoIsTheDiff
        <4>1. CASE q = s
          BY <2>1, <2>3, <4>1 DEF TypeOK, FreshResult, new
        <4>2. CASE q # s
          BY <2>1, <2>3, <4>2 DEF TypeOK, FreshResult, TodoIsTheDiff
        <4>3. QED BY <4>1, <4>2
      <3>3. TodoFresh' BY <2>1, <2>3 DEF TypeOK, TodoFresh, FreshResult
      <3>4. LateFits' BY <2>1 DEF LateFits
      <3>5. QED BY <3>1, <3>2, <3>3, <3>4
    <2>4. QED BY <2>2, <2>3
  <1>4. CASE ListFails(s)
    <2>1. TypeOK'
      BY <1>4, NoUsersType, BoundsAssumption
      DEF ListFails, TypeOK, Return, Spend, Steps, Errors, Costs, tables
    <2>2. TodoIsTheDiff' BY <1>4 DEF ListFails, TypeOK, TodoIsTheDiff, Return
    <2>3. TodoFresh' BY <1>2, <1>4 DEF ListFails, TypeOK, TodoFresh, Return
    <2>4. LateFits' BY <1>4 DEF ListFails, LateFits
    <2>5. QED BY <2>1, <2>2, <2>3, <2>4
  <1>5. QED BY <1>3, <1>4

-----------------------------------------------------------------------------
(* The mutations. *)

(* The operation a pass tries is one the diff of its revision asks for.    *)
LEMMA TryingFits ==
    ASSUME IInv, NEW s \in Syncers, NEW op, Trying(s, op)
    PROVE  /\ pc[s] = "apply" /\ op \in todo[s] /\ op \in SyncOp
           /\ des[s] \in DesiredTable /\ rev[s] \in RemoteTable
           /\ op \in ComputeDiff(des[s], rev[s])
           /\ op \notin failed[s] /\ op \notin skipped[s]
  BY DEF IInv, Trying, First, TypeOK, TodoIsTheDiff, TodoFresh

(* What a pass keeps when it moves on is of the right type.                *)
LEMMA MoveOnType ==
    ASSUME TypeOK, NEW s \in Syncers, NEW op, NEW r \in RemoteTable,
           MoveOn(s, op, r)
    PROVE  /\ pc' \in [Syncers -> Steps] /\ err' \in [Syncers -> Errors]
           /\ des' \in [Syncers -> DesiredTable]
           /\ rev' \in [Syncers -> RemoteTable]
           /\ todo' \in [Syncers -> SUBSET SyncOp]
           /\ attempt' \in [Syncers -> 0 .. MaxRetry]
  BY NoUsersType, BoundsAssumption DEF TypeOK, MoveOn, Return, Steps, Errors

(* Moving on past op, with the list still to come accounted for.           *)
LEMMA MoveOnPass ==
    ASSUME IInv, NEW s \in Syncers, NEW op, Trying(s, op), NEW r, MoveOn(s, op, r),
           \A q \in Syncers \ {s} : failed'[q] = failed[q] /\ skipped'[q] = skipped[q],
           ComputeDiff(des[s], r) = (todo[s] \ {op}) \cup failed'[s] \cup skipped'[s],
           (todo[s] \ {op}) \cap (failed'[s] \cup skipped'[s]) = {}
    PROVE  TodoIsTheDiff' /\ TodoFresh'
  <1> USE DEF IInv
  <1>1. op \in todo[s] /\ pc[s] = "apply" BY TryingFits
  <1>2. CASE todo[s] = {op}
    <2>1. Return(s, "none") BY <1>2 DEF MoveOn
    <2>2. TodoIsTheDiff' BY <2>1 DEF Return, TypeOK, TodoIsTheDiff
    <2>3. TodoFresh' BY <2>1 DEF Return, TypeOK, TodoFresh
    <2>4. QED BY <2>2, <2>3
  <1>3. CASE todo[s] # {op}
    <2>1. /\ todo' = [todo EXCEPT ![s] = @ \ {op}]
          /\ rev' = [rev EXCEPT ![s] = r]
          /\ UNCHANGED <<pc, des, attempt, err>>
      BY <1>3 DEF MoveOn
    <2>2. TodoIsTheDiff' BY <2>1 DEF TypeOK, TodoIsTheDiff
    <2>3. todo[s] \ {op} # {} BY <1>1, <1>3
    <2>4. TodoFresh' BY <2>1, <2>3 DEF TypeOK, TodoFresh
    <2>5. QED BY <2>2, <2>4
  <1>4. QED BY <1>2, <1>3

(* An accepted mutation keeps the invariant: telemt's revision was the     *)
(* pass's, so what the diff asked for is what happened.                    *)
LEMMA ApplyIInv ==
    ASSUME IInv, NEW s \in Syncers, NEW op, Apply(s, op)
    PROVE  IInv'
  <1> USE DEF IInv
  <1>1. Trying(s, op) BY DEF Apply
  <1>2. /\ op \in todo[s] /\ op \in SyncOp /\ op \in ComputeDiff(des[s], rev[s])
        /\ op \notin failed[s] /\ op \notin skipped[s]
        /\ des[s] \in DesiredTable /\ rev[s] \in RemoteTable /\ pc[s] = "apply"
    BY <1>1, TryingFits
  <1>3. rev[s] = node BY DEF Apply, Refusals
  <1>4. /\ node' = Effect(op, node) /\ MoveOn(s, op, node')
        /\ applied' = [applied EXCEPT ![s] = @ \cup {op}]
        /\ UNCHANGED <<pg, readOnly, late, ops, skipped, failed, aborted, spent>>
    BY DEF Apply
  <1>5. /\ node' \in RemoteTable
        /\ ComputeDiff(des[s], node') = ComputeDiff(des[s], node) \ {op}
    BY <1>2, <1>3, <1>4, EffectResolves
  <1>6. TypeOK' BY <1>2, <1>4, <1>5, MoveOnType DEF TypeOK
  <1>7. ComputeDiff(des[s], node) = todo[s] \cup failed[s] \cup skipped[s]
    BY <1>2, <1>3 DEF TodoIsTheDiff
  <1>8. TodoIsTheDiff' /\ TodoFresh'
    <2>1. todo[s] \cap (failed[s] \cup skipped[s]) = {} BY <1>2 DEF TodoFresh
    <2>2. failed' = failed /\ skipped' = skipped BY <1>4
    <2>3. ComputeDiff(des[s], node') = (todo[s] \ {op}) \cup failed'[s] \cup skipped'[s]
      BY <1>2, <1>5, <1>7, <2>2
    <2>4. (todo[s] \ {op}) \cap (failed'[s] \cup skipped'[s]) = {} BY <2>1, <2>2
    <2> HIDE DEF IInv
    <2>5. QED BY <1>1, <1>4, <2>2, <2>3, <2>4, MoveOnPass
  <1>9. LateFits' BY <1>4 DEF LateFits
  <1>10. QED BY <1>6, <1>8, <1>9

(* A request on the wire is one the diff of its revision asked for.        *)
LEMMA InFlightFits ==
    ASSUME IInv, NEW s \in Syncers, NEW op, Trying(s, op),
           late' \in {late, late \cup {InFlight(s, op)}}
    PROVE  late' \subseteq Request /\ LateFits'
  <1>1. /\ op \in SyncOp /\ rev[s] \in RemoteTable /\ des[s] \in DesiredTable
        /\ op \in ComputeDiff(des[s], rev[s])
    BY TryingFits
  <1>2. InFlight(s, op) \in Request BY <1>1 DEF InFlight, Request
  <1>3. /\ InFlight(s, op).op = op
        /\ InFlight(s, op).ifMatch = rev[s]
    BY DEF InFlight
  <1>4. late' \subseteq Request BY <1>2 DEF IInv, TypeOK
  <1>5. \E d \in DesiredTable : InFlight(s, op).op \in ComputeDiff(d, InFlight(s, op).ifMatch)
    BY <1>1, <1>3
  <1>6. LateFits' BY <1>5 DEF IInv, LateFits
  <1>7. QED BY <1>4, <1>6

(* An operation that is skipped, refused or unanswered joins the failed or *)
(* the skipped ones, and the revision stays.                               *)
LEMMA NotAppliedIInv ==
    ASSUME IInv, NEW s \in Syncers, NEW op,
           Skip(s, op) \/ Refuse(s, op) \/ NoAnswer(s, op)
    PROVE  IInv'
  <1> USE DEF IInv
  <1>1. Trying(s, op) /\ MoveOn(s, op, rev[s])
    BY DEF Skip, Refuse, NoAnswer, CountFailure
  <1>2. /\ op \in todo[s] /\ op \in SyncOp /\ op \notin failed[s] /\ op \notin skipped[s]
        /\ rev[s] \in RemoteTable /\ pc[s] = "apply"
    BY <1>1, TryingFits
  <1>3. /\ UNCHANGED <<tables, ops, applied, aborted>>
        /\ spent' \in [Costs -> Nat]
        /\ late' \in {late, late \cup {InFlight(s, op)}}
        /\ \/ /\ skipped' = [skipped EXCEPT ![s] = @ \cup {op}]
              /\ failed' = failed
           \/ /\ failed' = [failed EXCEPT ![s] = @ \cup {op}]
              /\ skipped' = skipped
    <2>1. CASE Skip(s, op) BY <2>1 DEF Skip, TypeOK
    <2>2. CASE Refuse(s, op) BY <2>2 DEF Refuse, CountFailure, TypeOK
    <2>3. CASE NoAnswer(s, op)
      BY <2>3 DEF NoAnswer, CountFailure, Spend, TypeOK, Costs
    <2>4. QED BY <2>1, <2>2, <2>3
  <1>4. /\ skipped' \in [Syncers -> SUBSET SyncOp]
        /\ failed' \in [Syncers -> SUBSET SyncOp]
        /\ failed'[s] \cup skipped'[s] = failed[s] \cup skipped[s] \cup {op}
        /\ \A q \in Syncers \ {s} : failed'[q] = failed[q] /\ skipped'[q] = skipped[q]
    BY <1>2, <1>3 DEF TypeOK
  <1>5. late' \subseteq Request /\ LateFits'
    <2> HIDE DEF IInv
    <2>1. QED BY <1>1, <1>3, InFlightFits
  <1>6. TypeOK'
    BY <1>1, <1>2, <1>3, <1>4, <1>5, MoveOnType DEF TypeOK, tables
  <1>7. TodoIsTheDiff' /\ TodoFresh'
    <2>1. ComputeDiff(des[s], rev[s]) = (todo[s] \ {op}) \cup failed'[s] \cup skipped'[s]
      BY <1>2, <1>4 DEF TodoIsTheDiff
    <2>2. (todo[s] \ {op}) \cap (failed'[s] \cup skipped'[s]) = {}
      BY <1>2, <1>4 DEF TodoFresh
    <2> HIDE DEF IInv
    <2>3. QED BY <1>1, <1>4, <2>1, <2>2, MoveOnPass
  <1>8. QED BY <1>5, <1>6, <1>7

(* Stopping at a read-only node, or starting over after a conflict.        *)
LEMMA LeaveIInv ==
    ASSUME IInv, NEW s \in Syncers, NEW op,
           StopReadOnly(s, op) \/ Conflict(s, op)
    PROVE  IInv'
  <1> USE DEF IInv
  <1>1. UNCHANGED <<tables, late, ops, applied, skipped, failed, aborted, spent>>
    BY DEF StopReadOnly, Conflict
  <1>2. LateFits' BY <1>1 DEF LateFits
  <1>3. CASE Return(s, "read_only") \/ Return(s, "conflict")
    <2>1. TypeOK'
      BY <1>1, <1>3, NoUsersType, BoundsAssumption
      DEF TypeOK, Return, Steps, Errors, tables
    <2>2. TodoIsTheDiff' BY <1>1, <1>3 DEF TypeOK, TodoIsTheDiff, Return
    <2>3. TodoFresh' BY <1>1, <1>3 DEF TypeOK, TodoFresh, Return
    <2>4. QED BY <1>2, <2>1, <2>2, <2>3
  <1>4. CASE /\ ~Exhausted(s)
             /\ pc' = [pc EXCEPT ![s] = "list"]
             /\ attempt' = [attempt EXCEPT ![s] = @ + 1]
             /\ todo' = [todo EXCEPT ![s] = {}]
             /\ rev' = [rev EXCEPT ![s] = NoUsers]
             /\ UNCHANGED <<des, err>>
    <2>1. attempt[s] + 1 \in 0 .. MaxRetry
      BY <1>4, BoundsAssumption DEF TypeOK, Exhausted
    <2>2. attempt' \in [Syncers -> 0 .. MaxRetry] BY <1>4, <2>1 DEF TypeOK
    <2>3. TypeOK' BY <1>1, <1>4, <2>2, NoUsersType DEF TypeOK, Steps, tables
    <2>4. TodoIsTheDiff' BY <1>1, <1>4 DEF TypeOK, TodoIsTheDiff
    <2>5. TodoFresh' BY <1>1, <1>4 DEF TypeOK, TodoFresh
    <2>6. QED BY <1>2, <2>3, <2>4, <2>5
  <1>5. QED BY <1>3, <1>4 DEF StopReadOnly, Conflict

(* A late request that is accepted finds the revision it was computed from. *)
LEMMA LateEffect ==
    ASSUME IInv, NEW r \in late, Refusals(r.op, r.ifMatch) = {}
    PROVE  /\ r.op \in SyncOp /\ r.ifMatch = node
           /\ \E d \in DesiredTable : r.op \in ComputeDiff(d, node)
           /\ Effect(r.op, node) \in RemoteTable
  <1>1. r.ifMatch = node BY DEF Refusals
  <1>2. PICK d \in DesiredTable : r.op \in ComputeDiff(d, node)
    BY <1>1 DEF IInv, LateFits
  <1>3. node \in RemoteTable /\ r.op \in SyncOp BY DEF IInv, TypeOK, Request
  <1>4. Effect(r.op, node) \in RemoteTable BY <1>2, <1>3, EffectResolves
  <1>5. QED BY <1>1, <1>2, <1>3, <1>4

(* Late requests, crashes and the rest of the world keep the invariant.    *)
LEMMA OutsideIInv ==
    ASSUME IInv,
           \/ \E r \in late : Late(r)
           \/ Environment
           \/ UNCHANGED vars
    PROVE  IInv'
  <1> USE DEF IInv
  <1> DEFINE passes == <<late, pc, des, rev, attempt, todo, result>>
  <1>1. ASSUME NEW r \in late, Late(r) PROVE IInv'
    <2>1. node' \in RemoteTable BY <1>1, LateEffect DEF Late, TypeOK
    <2>2. TypeOK' BY <1>1, <2>1 DEF Late, TypeOK, result
    <2>3. TodoIsTheDiff' /\ TodoFresh'
      BY <1>1 DEF Late, TodoIsTheDiff, TodoFresh, result
    <2>4. LateFits' BY <1>1 DEF Late, LateFits
    <2>5. QED BY <2>2, <2>3, <2>4
  <1>2. ASSUME NEW t \in UsersTable, Write(t) PROVE IInv'
    <2>1. TypeOK' BY <1>2 DEF Write, Spend, Costs, TypeOK, result
    <2>2. TodoIsTheDiff' /\ TodoFresh' /\ LateFits'
      BY <1>2 DEF Write, TodoIsTheDiff, TodoFresh, LateFits, result
    <2>3. QED BY <2>1, <2>2
  <1>3. CASE Create \/ Delete \/ Renew \/ Enable
    <2>1. \E t \in UsersTable : Write(t)
      BY <1>3, StatementsType DEF Create, Delete, Renew, Enable, TypeOK
    <2>2. QED BY <1>2, <2>1
  <1>4. CASE EditNode \/ SwitchReadOnly
    <2>1. node' \in RemoteTable /\ readOnly' \in BOOLEAN
      BY <1>4 DEF EditNode, SwitchReadOnly, TypeOK, RemoteTable
    <2>2. spent' \in [Costs -> Nat] /\ UNCHANGED <<pg, passes>>
      BY <1>4 DEF EditNode, SwitchReadOnly, Spend, TypeOK, Costs
    <2>3. TypeOK' BY <2>1, <2>2 DEF TypeOK, result
    <2>4. TodoIsTheDiff' /\ TodoFresh' /\ LateFits'
      BY <2>2 DEF TodoIsTheDiff, TodoFresh, LateFits, result
    <2>5. QED BY <2>3, <2>4
  <1>5. CASE UNCHANGED vars
    BY <1>5 DEF vars, TypeOK, TodoIsTheDiff, TodoFresh, LateFits
  <1>6. QED BY <1>1, <1>3, <1>4, <1>5 DEF Environment

(* A crash keeps it.                                                       *)
LEMMA CrashIInv ==
    ASSUME IInv, NEW s \in Syncers, Crash(s)
    PROVE  IInv'
  <1> USE DEF IInv
  <1>1. late' \subseteq Request /\ LateFits'
    <2>1. CASE late' = late BY <2>1 DEF TypeOK, LateFits
    <2>2. CASE \E op \in First(todo[s]) : late' = late \cup {InFlight(s, op)}
      <3>1. PICK op \in First(todo[s]) : late' = late \cup {InFlight(s, op)}
        BY <2>2
      <3>2. Trying(s, op) BY <3>1 DEF Trying, TodoFresh, First
      <3> HIDE DEF IInv
      <3>3. QED BY <3>1, <3>2, InFlightFits
    <2>3. QED BY <2>1, <2>2 DEF Crash
  <1>2. TypeOK'
    BY <1>1, NoUsersType, BoundsAssumption
    DEF Crash, TypeOK, FreshResult, Spend, Steps, Errors, Costs, tables
  <1>3. TodoIsTheDiff' BY DEF Crash, TypeOK, TodoIsTheDiff, FreshResult
  <1>4. TodoFresh' BY DEF Crash, TypeOK, TodoFresh, FreshResult
  <1>5. QED BY <1>1, <1>2, <1>3, <1>4

(* Every step keeps the invariant.                                         *)
LEMMA NextIInv == IInv /\ [Next]_vars => IInv'
  <1> SUFFICES ASSUME IInv, [Next]_vars PROVE IInv' OBVIOUS
  <1>1. ASSUME NEW s \in Syncers, Pass(s) PROVE IInv'
    BY <1>1, StartIInv, ListIInv, ApplyIInv, NotAppliedIInv, LeaveIInv, CrashIInv
    DEF Pass, Answered
  <1>2. QED BY <1>1, OutsideIInv DEF Next

(* The invariant holds of every reachable state.                           *)
THEOREM Invariance == Spec => []IInv
  <1>1. QED BY InitIInv, NextIInv, PTL DEF Spec

(* Every variable keeps its type, for any users and any processes.         *)
THEOREM TypeCorrect == Spec => []TypeOK
  <1>1. IInv => TypeOK BY DEF IInv
  <1>2. QED BY <1>1, Invariance, PTL

(* No pass ever applies a list its own mutations have made stale.          *)
THEOREM ListNeverStale == Spec => []TodoIsTheDiff
  <1>1. IInv => TodoIsTheDiff BY DEF IInv
  <1>2. QED BY <1>1, Invariance, PTL

-----------------------------------------------------------------------------
(* What the reports and the order of the operations are worth.             *)

(* What a listing makes a pass set out to do is one operation for each     *)
(* user that is out of sync at that moment, and nothing else.              *)
THEOREM DiffsAreExact == Spec => DiffIsExact
  <1>1. IInv /\ [Next]_vars => [DiffExact]_vars
    <2> SUFFICES ASSUME IInv, NEW s \in Syncers, List(s)
                 PROVE  /\ {op.user : op \in ops'[s]} = OutOfSync(des[s], node)
                        /\ \A o, p \in ops'[s] : o.user = p.user => o = p
      BY DEF DiffExact
    <2>1. des[s] \in DesiredTable /\ node \in RemoteTable BY DEF IInv, TypeOK
    <2>2. ops'[s] = ComputeDiff(des[s], node)
      BY DEF List, FreshResult, IInv, TypeOK
    <2>3. QED BY <2>1, <2>2, DiffIsOutOfSync, DiffOnePerUser
  <1>2. QED BY <1>1, Invariance, PTL DEF Spec, DiffIsExact

(* The step that ends a pass leaves what its report says.                  *)
LEMMA EndStep ==
    ASSUME IInv, [Next]_vars, NEW s \in Syncers
    PROVE  EndExact(s)
  <1> SUFFICES ASSUME pc[s] \in {"list", "apply"},
                      pc'[s] = "done", err'[s] = "none",
                      ~aborted'[s], s \notin Shadow,
                      pc[s] = "apply" => applied'[s] # applied[s]
               PROVE  OutOfSync(des[s], node')
                        = {op.user : op \in failed'[s] \cup skipped'[s]}
    BY DEF EndExact
  <1> USE DEF IInv
  <1>1. /\ des[s] \in DesiredTable /\ node \in RemoteTable
        /\ pc \in [Syncers -> Steps] /\ err \in [Syncers -> Errors]
        /\ failed \in [Syncers -> SUBSET SyncOp]
        /\ skipped \in [Syncers -> SUBSET SyncOp]
        /\ applied \in [Syncers -> SUBSET SyncOp]
        /\ aborted \in [Syncers -> BOOLEAN]
    BY DEF TypeOK
  <1>2. PICK q \in Syncers : Pass(q)
    BY <1>1 DEF Next, Late, Environment, Create, Delete, Renew, Enable, Write,
                EditNode, SwitchReadOnly, vars, result
  <1>3. q = s
    <2> SUFFICES ASSUME q # s PROVE pc'[s] = pc[s] BY <1>1
    <2> QED BY <1>1, <1>2
      DEF Pass, Answered, Start, StartFails, List, ListFails, Apply, Skip, StopReadOnly,
          Conflict, Refuse, NoAnswer, CountFailure, MoveOn, Crash, Return
  <1>4. CASE List(s)
    <2>1. ComputeDiff(des[s], node) = {} /\ failed'[s] = {} /\ skipped'[s] = {}
      BY <1>1, <1>4 DEF List, FreshResult
    <2>2. node' = node BY <1>4 DEF List, tables
    <2>3. QED BY <1>1, <2>1, <2>2, DiffIsOutOfSync
  <1>5. ASSUME NEW op \in todo[s], Apply(s, op)
        PROVE  OutOfSync(des[s], node') = {o.user : o \in failed'[s] \cup skipped'[s]}
    <2>1. Trying(s, op) /\ rev[s] = node BY <1>5 DEF Apply, Refusals
    <2>2. op \in ComputeDiff(des[s], node) /\ op \notin failed[s] /\ op \notin skipped[s]
      BY <2>1, TryingFits
    <2>3. todo[s] = {op} BY <1>1, <1>5, <2>1 DEF Apply, MoveOn, Trying
    <2>4. ComputeDiff(des[s], node) = {op} \cup failed[s] \cup skipped[s]
      BY <2>1, <2>3 DEF TodoIsTheDiff, Trying
    <2>5. node' = Effect(op, node) /\ failed' = failed /\ skipped' = skipped
      BY <1>5 DEF Apply
    <2>6. /\ node' \in RemoteTable
          /\ ComputeDiff(des[s], node') = failed'[s] \cup skipped'[s]
      BY <1>1, <2>2, <2>4, <2>5, EffectResolves
    <2>7. QED BY <1>1, <2>6, DiffIsOutOfSync
  <1>6. ~(Start(s) \/ StartFails(s) \/ ListFails(s) \/ Crash(s))
    BY <1>1 DEF Start, StartFails, Idle, ListFails, Crash, Return
  <1>7. ASSUME NEW op \in todo[s]
        PROVE  ~(Skip(s, op) \/ StopReadOnly(s, op) \/ Conflict(s, op)
                   \/ Refuse(s, op) \/ NoAnswer(s, op))
    BY <1>1 DEF Skip, StopReadOnly, Conflict, Refuse, NoAnswer, CountFailure,
                Trying, Return
  <1>8. QED BY <1>2, <1>3, <1>4, <1>5, <1>6, <1>7 DEF Pass, Answered

(* While a pass applies its list, each operation of it has been applied,   *)
(* or has failed, been skipped or is still to come.                        *)
Accounted ==
    \A s \in Syncers : pc[s] = "apply" =>
        /\ ops[s] = applied[s] \cup todo[s] \cup failed[s] \cup skipped[s]
        /\ applied[s] \cap (todo[s] \cup failed[s] \cup skipped[s]) = {}

(* Every step keeps the account.                                           *)
LEMMA AccountedStep == IInv /\ Accounted /\ [Next]_vars => Accounted'
  <1> SUFFICES ASSUME IInv, Accounted, [Next]_vars, NEW s \in Syncers, pc'[s] = "apply"
               PROVE  /\ ops'[s] = applied'[s] \cup todo'[s] \cup failed'[s] \cup skipped'[s]
                      /\ applied'[s] \cap (todo'[s] \cup failed'[s] \cup skipped'[s]) = {}
    BY DEF Accounted
  <1> DEFINE Same ==
               /\ pc[s] = "apply" /\ ops'[s] = ops[s] /\ applied'[s] = applied[s]
               /\ todo'[s] = todo[s] /\ failed'[s] = failed[s] /\ skipped'[s] = skipped[s]
  <1>1. TypeOK BY DEF IInv
  <1>2. CASE List(s) BY <1>1, <1>2 DEF List, FreshResult, Return, TypeOK
  <1>3. ASSUME NEW op \in todo[s],
               Apply(s, op) \/ Skip(s, op) \/ Refuse(s, op) \/ NoAnswer(s, op)
        PROVE  /\ pc[s] = "apply" /\ ops'[s] = ops[s] /\ todo'[s] = todo[s] \ {op}
               /\ \/ /\ applied'[s] = applied[s] \cup {op}
                     /\ failed'[s] = failed[s] /\ skipped'[s] = skipped[s]
                  \/ /\ applied'[s] = applied[s]
                     /\ failed'[s] \cup skipped'[s] = failed[s] \cup skipped[s] \cup {op}
    <2>1. /\ Trying(s, op) /\ ops' = ops
          /\ \E r : MoveOn(s, op, r)
      BY <1>3 DEF Apply, Skip, Refuse, NoAnswer, CountFailure
    <2>2. pc[s] = "apply" /\ todo'[s] = todo[s] \ {op}
      BY <1>1, <2>1 DEF Trying, MoveOn, Return, TypeOK
    <2>3. CASE Apply(s, op) BY <1>1, <2>1, <2>2, <2>3 DEF Apply, TypeOK
    <2>4. CASE Skip(s, op) BY <1>1, <2>1, <2>2, <2>4 DEF Skip, TypeOK
    <2>5. CASE Refuse(s, op) \/ NoAnswer(s, op)
      <3>1. /\ failed' = [failed EXCEPT ![s] = @ \cup {op}]
            /\ applied' = applied /\ skipped' = skipped
        BY <2>5 DEF Refuse, NoAnswer, CountFailure
      <3>2. QED BY <1>1, <2>1, <2>2, <3>1 DEF TypeOK
    <2>6. QED BY <1>3, <2>3, <2>4, <2>5
  <1>4. ASSUME NEW op \in todo[s],
               Apply(s, op) \/ Skip(s, op) \/ Refuse(s, op) \/ NoAnswer(s, op)
        PROVE  /\ ops'[s] = applied'[s] \cup todo'[s] \cup failed'[s] \cup skipped'[s]
               /\ applied'[s] \cap (todo'[s] \cup failed'[s] \cup skipped'[s]) = {}
    <2>1. op \notin failed[s] /\ op \notin skipped[s]
      BY <1>4, TryingFits DEF Apply, Skip, Refuse, NoAnswer, CountFailure
    <2>2. QED BY <1>3, <1>4, <2>1 DEF Accounted
  <1>5. ASSUME NEW q \in Syncers, Pass(q), q # s PROVE Same
    BY <1>1, <1>5
    DEF Pass, Answered, Start, StartFails, List, ListFails, Apply, Skip, StopReadOnly,
        Conflict, Refuse, NoAnswer, CountFailure, MoveOn, Crash, Return, FreshResult, TypeOK
  <1>6. ~(Start(s) \/ StartFails(s) \/ ListFails(s) \/ Crash(s))
    BY <1>1 DEF Start, StartFails, ListFails, Crash, Return, TypeOK
  <1>7. ASSUME NEW op \in todo[s] PROVE ~(StopReadOnly(s, op) \/ Conflict(s, op))
    BY <1>1 DEF StopReadOnly, Conflict, Return, TypeOK
  <1>8. ASSUME (\E r \in late : Late(r)) \/ Environment \/ UNCHANGED vars PROVE Same
    BY <1>8 DEF Late, Environment, Create, Delete, Renew, Enable, Write, EditNode,
                SwitchReadOnly, vars, result
  <1>9. CASE Same BY <1>9 DEF Accounted
  <1> HIDE DEF Same
  <1>10. QED BY <1>2, <1>4, <1>5, <1>6, <1>7, <1>8, <1>9 DEF Next, Pass, Answered

(* The step that stops a pass at a read-only node leaves what it did not   *)
(* report as applied.                                                      *)
LEMMA StopStep ==
    ASSUME IInv, Accounted, [Next]_vars, NEW s \in Syncers
    PROVE  StopExact(s)
  <1> SUFFICES ASSUME pc[s] = "apply", rev[s] = node,
                      pc'[s] = "done", err'[s] = "read_only"
               PROVE  OutOfSync(des[s], node') = {op.user : op \in ops'[s] \ applied'[s]}
    BY DEF StopExact
  <1>1. TypeOK BY DEF IInv
  <1>2. PICK q \in Syncers : Pass(q)
    BY <1>1 DEF Next, Late, Environment, Create, Delete, Renew, Enable, Write,
                EditNode, SwitchReadOnly, vars, result, TypeOK
  <1>3. q = s
    <2> SUFFICES ASSUME q # s PROVE pc'[s] = pc[s] OBVIOUS
    <2> QED BY <1>1, <1>2
      DEF Pass, Answered, Start, StartFails, List, ListFails, Apply, Skip, StopReadOnly,
          Conflict, Refuse, NoAnswer, CountFailure, MoveOn, Crash, Return, TypeOK
  <1>4. ~(Start(s) \/ StartFails(s) \/ List(s) \/ ListFails(s) \/ Crash(s))
    BY <1>1 DEF Start, StartFails, Idle, List, ListFails, Crash, TypeOK
  <1>5. ASSUME NEW op \in todo[s]
        PROVE  ~(Apply(s, op) \/ Skip(s, op) \/ Conflict(s, op) \/ Refuse(s, op)
                   \/ NoAnswer(s, op))
    BY <1>1 DEF Apply, Skip, Conflict, Refuse, NoAnswer, CountFailure, MoveOn, Return, TypeOK
  <1>6. node' = node /\ ops' = ops /\ applied' = applied
    BY <1>2, <1>3, <1>4, <1>5 DEF Pass, Answered, StopReadOnly, tables
  <1>7. ops[s] \ applied[s] = ComputeDiff(des[s], node)
    BY DEF Accounted, IInv, TodoIsTheDiff
  <1>8. QED BY <1>1, <1>6, <1>7, DiffIsOutOfSync DEF TypeOK

(* A report without failures or skips means a node in sync, and otherwise  *)
(* names the users left, whatever else was happening to the node; and a    *)
(* read-only node that nobody else changed differs in what was not applied. *)
THEOREM ReportsAreExact == Spec => ReportIsExact
  <1>1. Init => Accounted BY DEF Init, Accounted
  <1>2. IInv /\ Accounted /\ [Next]_vars => [ReportExact]_vars
    BY EndStep, StopStep DEF ReportExact
  <1>3. QED BY <1>1, <1>2, AccountedStep, Invariance, PTL DEF Spec, ReportIsExact

(* Replacing every user never runs into last_user_forbidden.               *)
THEOREM OrderIsSafe == Spec => []ReplacementNeverEmpties
  <1>1. IInv => ReplacementNeverEmpties
    <2> SUFFICES ASSUME IInv, NEW s \in Syncers, NEW op \in First(todo[s]),
                        pc[s] = "apply", op.kind = "delete", rev[s] = node,
                        LastUser(op.user, node), des[s] # NoUsers
                 PROVE  \E c \in failed[s] \cup skipped[s] : c.kind = "create"
      BY DEF ReplacementNeverEmpties
    <2>1. Trying(s, op) BY DEF Trying
    <2>2. des[s] \in DesiredTable /\ op \in ComputeDiff(des[s], node)
      BY <2>1, TryingFits
    <2>3. des[s][op.user] = Absent BY <2>2, DiffMemberUser DEF OpOf
    <2>4. PICK v \in Users : des[s][v] # Absent
      BY <2>2 DEF DesiredTable, NoUsers
    <2>5. node[v] = Absent BY <2>3, <2>4 DEF LastUser
    <2> DEFINE c == [kind |-> "create", user |-> v, want |-> des[s][v], fields |-> {}]
    <2>6. c \in ComputeDiff(des[s], node) BY <2>4, <2>5, DiffMember DEF OpOf
    <2>7. c.kind = "create" OBVIOUS
    <2> HIDE DEF c
    <2>8. c \notin todo[s] BY <2>7 DEF First, Rank
    <2>9. c \in failed[s] \cup skipped[s]
      BY <2>6, <2>8 DEF IInv, TodoIsTheDiff
    <2>10. QED BY <2>7, <2>9
  <1>2. QED BY <1>1, Invariance, PTL

(* An operation of a diff takes only managed users away.                   *)
LEMMA EffectKeepsForeign ==
    ASSUME NEW d \in DesiredTable, NEW n \in RemoteTable, NEW op \in ComputeDiff(d, n),
           NEW u \in Users \ Managed, n[u] # Absent
    PROVE  Effect(op, n)[u] # Absent
  <1>1. op.user \in Users /\ OpOf(op, op.user, d[op.user], n[op.user])
    BY DiffMemberUser
  <1>2. d[op.user] \in DesiredUser \cup {Absent} BY <1>1 DEF DesiredTable
  <1>3. CASE u # op.user BY <1>1, <1>2, <1>3, EffectEntry
  <1>4. CASE u = op.user
    <2>1. op.kind # "delete" BY <1>1, <1>4 DEF OpOf
    <2>2. QED BY <1>1, <1>2, <1>4, <2>1, EffectEntry, AbsentAssumption
  <1>5. QED BY <1>3, <1>4

(* Foreign users leave the node only by an operator's hand.                *)
THEOREM ForeignUsersStay == Spec => ForeignNeverDeleted
  <1>1. IInv /\ [Next]_vars => [ForeignKept]_vars
    <2> SUFFICES ASSUME IInv, [Next]_vars, NEW u \in Users \ Managed,
                        node[u] # Absent, node'[u] = Absent
                 PROVE  spent'["edits"] > spent["edits"]
      BY DEF ForeignKept
    <2>1. ASSUME NEW s \in Syncers, NEW op, Apply(s, op) PROVE FALSE
      <3>1. Trying(s, op) /\ rev[s] = node /\ node' = Effect(op, node)
        BY <2>1 DEF Apply, Refusals
      <3>2. QED BY <3>1, TryingFits, EffectKeepsForeign
    <2>2. ASSUME NEW r \in late, Late(r) PROVE FALSE
      <3>1. Refusals(r.op, r.ifMatch) = {} /\ node' = Effect(r.op, node)
        BY <2>2 DEF Late
      <3>2. node \in RemoteTable BY DEF IInv, TypeOK
      <3>3. QED BY <3>1, <3>2, LateEffect, EffectKeepsForeign
    <2>3. CASE EditNode
      <3>1. spent["edits"] \in Nat /\ spent'["edits"] = spent["edits"] + 1
        BY <2>3 DEF EditNode, Spend, IInv, TypeOK, Costs
      <3>2. QED BY <3>1
    <2>4. CASE ~EditNode
      <3>1. ASSUME NEW s \in Syncers, Pass(s) PROVE FALSE
        BY <2>1, <3>1
        DEF Pass, Answered, Start, StartFails, List, ListFails, Skip, StopReadOnly,
            Conflict, Refuse, NoAnswer, CountFailure, Crash, tables
      <3>2. QED
        BY <2>2, <2>4, <3>1
        DEF Next, Environment, Create, Delete, Renew, Enable, Write, SwitchReadOnly, vars
    <2>5. QED BY <2>3, <2>4
  <1>2. QED BY <1>1, Invariance, PTL DEF Spec, ForeignNeverDeleted

-----------------------------------------------------------------------------
(* The guard. *)

(* What a pass has created, it wanted.                                     *)
CreatedWanted ==
    \A s \in Syncers : pc[s] = "apply" =>
        \A op \in applied[s] : op.kind = "create" => des[s][op.user] # Absent

GInv == CreatedWanted /\ MassDeleteNeedsForce

(* A mutation does not change which managed users the attempt had listed.  *)
LEMMA ListedManagedStays ==
    ASSUME IInv, CreatedWanted, NEW s \in Syncers, NEW op, Apply(s, op), todo[s] # {op}
    PROVE  ListedManaged(s)' = ListedManaged(s)
  <1>1. Trying(s, op) /\ rev[s] = node BY DEF Apply, Refusals
  <1>2. /\ op \in ComputeDiff(des[s], node) /\ des[s] \in DesiredTable
        /\ pc[s] = "apply" /\ node \in RemoteTable
    BY <1>1, TryingFits
  <1>3. /\ rev' = [rev EXCEPT ![s] = Effect(op, node)]
        /\ applied' = [applied EXCEPT ![s] = @ \cup {op}]
    BY DEF Apply, MoveOn
  <1>4. rev'[s] = Effect(op, node) /\ applied'[s] = applied[s] \cup {op}
    BY <1>3 DEF IInv, TypeOK
  <1>5. op.user \in Users /\ OpOf(op, op.user, des[s][op.user], node[op.user])
    BY <1>2, DiffMemberUser
  <1>6. des[s][op.user] \in DesiredUser \cup {Absent} BY <1>2, <1>5 DEF DesiredTable
  <1>7. /\ \A u \in Users \ {op.user} : rev'[s][u] = node[u]
        /\ op.kind = "delete" => rev'[s][op.user] = Absent
        /\ op.kind # "delete" => rev'[s][op.user] # Absent
    BY <1>2, <1>4, <1>5, <1>6, EffectEntry, AbsentAssumption
  <1> DEFINE made == {o.user : o \in {p \in applied[s] : p.kind = "create"}}
             gone == {o.user : o \in DeletesOf(applied[s])}
             made2 == {o.user : o \in {p \in applied'[s] : p.kind = "create"}}
             gone2 == {o.user : o \in DeletesOf(applied'[s])}
  <1>8. /\ ListedManaged(s) = (ManagedOn(node) \ made) \cup gone
        /\ ListedManaged(s)' = (ManagedOn(rev'[s]) \ made2) \cup gone2
    BY <1>1 DEF ListedManaged
  <1>9. CASE op.kind = "create"
    <2>1. made2 = made \cup {op.user} /\ gone2 = gone BY <1>4, <1>9 DEF DeletesOf
    <2>2. node[op.user] = Absent BY <1>5, <1>9 DEF OpOf
    <2>3. ManagedOn(rev'[s]) \ {op.user} = ManagedOn(node)
      BY <1>7, <2>2, ManagedAssumption DEF ManagedOn
    <2> HIDE DEF made, gone, made2, gone2
    <2>4. QED BY <1>8, <2>1, <2>3
  <1>10. CASE op.kind = "patch"
    <2>1. made2 = made /\ gone2 = gone BY <1>4, <1>10 DEF DeletesOf
    <2>2. node[op.user] # Absent BY <1>5, <1>10 DEF OpOf
    <2>3. ManagedOn(rev'[s]) = ManagedOn(node)
      BY <1>7, <1>10, <2>2, ManagedAssumption DEF ManagedOn
    <2> HIDE DEF made, gone, made2, gone2
    <2>4. QED BY <1>8, <2>1, <2>3
  <1>11. CASE op.kind = "delete"
    <2>1. made2 = made /\ gone2 = gone \cup {op.user} BY <1>4, <1>11 DEF DeletesOf
    <2>2. op.user \in Managed /\ node[op.user] # Absent /\ des[s][op.user] = Absent
      BY <1>5, <1>11 DEF OpOf
    <2>3. op.user \notin made BY <1>2, <2>2 DEF CreatedWanted
    <2>4. ManagedOn(node) = ManagedOn(rev'[s]) \cup {op.user}
      BY <1>7, <1>11, <2>2, ManagedAssumption DEF ManagedOn
    <2> HIDE DEF made, gone, made2, gone2
    <2>5. QED BY <1>8, <2>1, <2>3, <2>4
  <1>12. QED BY <1>5, <1>9, <1>10, <1>11 DEF OpOf

(* Every step keeps the guard's verdict true of the attempt under way.     *)
LEMMA GuardStep == IInv /\ GInv /\ [Next]_vars => GInv'
  <1> SUFFICES ASSUME IInv, GInv, [Next]_vars, NEW s \in Syncers, pc'[s] = "apply"
               PROVE  /\ \A op \in applied'[s] :
                            op.kind = "create" => des'[s][op.user] # Absent
                      /\ s \notin Forced =>
                           ~(/\ Cardinality(DeletesOf(ops'[s])) >= MinDeletes
                             /\ 100 * Cardinality(DeletesOf(ops'[s]))
                                  > ThresholdPercent * Cardinality(ListedManaged(s)'))
    BY DEF GInv, CreatedWanted, MassDeleteNeedsForce
  <1> DEFINE Same == /\ pc[s] = "apply" /\ des'[s] = des[s] /\ ops'[s] = ops[s]
                     /\ applied'[s] = applied[s] /\ rev'[s] = rev[s]
  <1>1. CASE Same
    <2>1. ListedManaged(s)' = ListedManaged(s) BY <1>1 DEF ListedManaged
    <2>2. QED BY <1>1, <2>1 DEF GInv, CreatedWanted, MassDeleteNeedsForce
  <1>2. CASE List(s)
    <2> DEFINE new == ComputeDiff(des[s], node)
    <2>1. /\ ops'[s] = new /\ applied'[s] = {} /\ rev'[s] = node
          /\ ~(IsMassDelete(new, node) /\ s \notin Forced)
      BY <1>2 DEF List, FreshResult, Return, IInv, TypeOK
    <2>2. ListedManaged(s)' = ManagedOn(node)
      BY <2>1 DEF ListedManaged, DeletesOf
    <2> HIDE DEF new
    <2>3. QED BY <2>1, <2>2 DEF IsMassDelete
  <1>3. ASSUME NEW op \in todo[s], Apply(s, op)
        PROVE  /\ \A o \in applied'[s] : o.kind = "create" => des'[s][o.user] # Absent
               /\ ListedManaged(s)' = ListedManaged(s) /\ ops'[s] = ops[s]
               /\ pc[s] = "apply"
    <2>1. Trying(s, op) BY <1>3 DEF Apply
    <2>2. pc[s] = "apply" /\ op \in ComputeDiff(des[s], rev[s]) BY <2>1, TryingFits
    <2>3. todo[s] # {op} BY <1>3 DEF Apply, MoveOn, Return, IInv, TypeOK
    <2>4. /\ des' = des /\ ops' = ops /\ applied'[s] = applied[s] \cup {op}
      BY <1>3, <2>3 DEF Apply, MoveOn, IInv, TypeOK
    <2>5. op.kind = "create" => des[s][op.user] # Absent
      BY <2>2, DiffMemberUser DEF OpOf
    <2>6. ListedManaged(s)' = ListedManaged(s)
      BY <1>3, <2>3, ListedManagedStays DEF GInv
    <2>7. QED BY <2>2, <2>4, <2>5, <2>6 DEF GInv, CreatedWanted
  <1>4. ASSUME NEW q \in Syncers, Pass(q), q # s PROVE Same
    BY <1>4
    DEF Pass, Answered, Start, StartFails, List, ListFails, Apply, Skip, StopReadOnly,
        Conflict, Refuse, NoAnswer, CountFailure, MoveOn, Crash, Return, FreshResult,
        IInv, TypeOK
  <1>5. ASSUME Pass(s), ~List(s), \A op \in todo[s] : ~Apply(s, op) PROVE Same
    <2>1. ~(Start(s) \/ StartFails(s) \/ ListFails(s) \/ Crash(s))
      BY DEF Start, StartFails, ListFails, Crash, Return, IInv, TypeOK
    <2>2. ASSUME NEW op \in todo[s], StopReadOnly(s, op) \/ Conflict(s, op) PROVE FALSE
      BY <2>2 DEF StopReadOnly, Conflict, Return, IInv, TypeOK
    <2>3. ASSUME NEW op \in todo[s], Skip(s, op) \/ Refuse(s, op) \/ NoAnswer(s, op)
          PROVE  Same
      BY <2>3 DEF Skip, Refuse, NoAnswer, CountFailure, Trying, MoveOn, Return, IInv, TypeOK
    <2>4. QED BY <1>5, <2>1, <2>2, <2>3 DEF Pass, Answered
  <1>6. ASSUME \/ \E r \in late : Late(r)
               \/ Environment
               \/ UNCHANGED vars
        PROVE  Same
    BY <1>6 DEF Late, Environment, Create, Delete, Renew, Enable, Write, EditNode,
                SwitchReadOnly, vars, result
  <1>7. CASE \E op \in todo[s] : Apply(s, op)
    BY <1>3, <1>7 DEF GInv, MassDeleteNeedsForce
  <1> HIDE DEF Same
  <1>8. QED BY <1>1, <1>2, <1>4, <1>5, <1>6, <1>7 DEF Next

(* Without --force no attempt deletes past the guard's limits.             *)
THEOREM GuardHolds == Spec => []MassDeleteNeedsForce
  <1>1. Init => GInv BY DEF Init, GInv, CreatedWanted, MassDeleteNeedsForce
  <1>2. GInv => MassDeleteNeedsForce BY DEF GInv
  <1>3. QED BY <1>1, <1>2, GuardStep, Invariance, PTL DEF Spec

-----------------------------------------------------------------------------
(* A pass with nobody else about. *)

(* What is left to do, or the result, of a pass that nobody disturbed: its  *)
(* revision is the node's and nothing was skipped; what failed failed last. *)
Calm(s) ==
    /\ late = {} /\ ~readOnly
    /\ pc[s] \in {"list", "apply"} =>
          des[s] = ListDesired(pg) /\ err[s] = "none" /\ attempt[s] = 0
    /\ pc[s] = "apply" =>
          /\ rev[s] = node /\ failed[s] = {} /\ skipped[s] = {}
          /\ ops[s] = applied[s] \cup todo[s]
    /\ pc[s] = "done" /\ s \notin Shadow =>
          /\ err[s] = "none" /\ skipped[s] = {}
          /\ ~aborted[s] =>
                /\ ops[s] = applied[s] \cup failed[s]
                /\ OutOfSync(ListDesired(pg), node) = {op.user : op \in failed[s]}
          /\ \A op \in failed[s] : op.kind = "delete" /\ LastUser(op.user, node)

CalmInv == \A s \in Syncers : Undisturbed(s) => Calm(s)

(* What was spent shows.                                                   *)
LEMMA SpendShows ==
    ASSUME TypeOK, NEW what \in Costs, Spend(what)
    PROVE  \E c \in Costs : spent'[c] # 0
  <1>1. spent[what] \in Nat /\ spent'[what] = spent[what] + 1 BY DEF TypeOK, Spend
  <1>2. spent'[what] # 0 BY <1>1
  <1>3. QED BY <1>2

(* Who is undisturbed was so before, and alone has taken a step: whatever  *)
(* else there is makes another pass begin, or spends something.            *)
LEMMA UndisturbedStep ==
    ASSUME IInv, [Next]_vars, NEW s \in Syncers, Undisturbed(s)'
    PROVE  /\ Undisturbed(s)
           /\ \/ Answered(s)
              \/ \E r \in late : Late(r)
              \/ UNCHANGED vars
  <1> USE DEF Costs
  <1>1. TypeOK BY DEF IInv
  <1>2. \A c \in Costs : spent'[c] = 0 BY DEF Undisturbed
  <1>3. \A what \in Costs : ~Spend(what) BY <1>1, <1>2, SpendShows
  <1>4. ~Environment
    BY <1>3 DEF Environment, Create, Delete, Renew, Enable, Write, EditNode, SwitchReadOnly
  <1>5. ASSUME NEW q \in Syncers
        PROVE  ~(StartFails(q) \/ ListFails(q) \/ Crash(q) \/ \E op \in todo[q] : NoAnswer(q, op))
    BY <1>3 DEF StartFails, ListFails, Crash, NoAnswer
  <1>6. ASSUME NEW q \in Syncers \ {s}, Answered(q) PROVE FALSE
    <2>1. pc'[q] = "idle" BY DEF Undisturbed
    <2>2. QED
      BY <1>1, <1>6, <2>1
      DEF Answered, Start, List, Apply, Skip, StopReadOnly, Conflict, Refuse, CountFailure,
          Trying, MoveOn, Return, TypeOK
  <1>7. Answered(s) \/ (\E r \in late : Late(r)) \/ UNCHANGED vars
    BY <1>4, <1>5, <1>6 DEF Next, Pass
  <1>8. ASSUME NEW q \in Syncers \ {s} PROVE pc[q] = "idle"
    <2>1. pc'[q] = "idle" BY DEF Undisturbed
    <2>2. CASE Answered(s)
      BY <1>1, <2>1, <2>2
      DEF Answered, Start, List, Apply, Skip, StopReadOnly, Conflict, Refuse, CountFailure,
          MoveOn, Return, TypeOK
    <2>3. CASE ~Answered(s) BY <1>7, <2>1, <2>3 DEF Late, vars
    <2>4. QED BY <2>2, <2>3
  <1>9. spent' = spent
    BY <1>7 DEF Answered, Start, List, Apply, Skip, StopReadOnly, Conflict, Refuse,
                Late, vars
  <1>10. Undisturbed(s) BY <1>2, <1>8, <1>9 DEF Undisturbed
  <1>11. QED BY <1>7, <1>10

(* The listing of an undisturbed pass.                                     *)
LEMMA CalmList ==
    ASSUME IInv, NEW s \in Syncers, Calm(s), List(s)
    PROVE  Calm(s)'
  <1> DEFINE new == ComputeDiff(des[s], node)
  <1>1. TypeOK BY DEF IInv
  <1>2. des[s] = ListDesired(pg) /\ late = {} /\ ~readOnly BY DEF Calm, List
  <1>3. /\ pg' = pg /\ node' = node /\ late' = {} /\ ~readOnly'
        /\ ops'[s] = new /\ applied'[s] = {} /\ skipped'[s] = {} /\ failed'[s] = {}
    BY <1>1, <1>2 DEF List, FreshResult, TypeOK, tables
  <1>4. new = {} => OutOfSync(ListDesired(pg), node) = {}
    <2>1. des[s] \in DesiredTable /\ node \in RemoteTable BY <1>1 DEF TypeOK
    <2>2. {op.user : op \in new} = OutOfSync(ListDesired(pg), node)
      BY <1>2, <2>1, DiffIsOutOfSync
    <2>3. QED BY <2>2
  <1>5. CASE Return(s, "none")
    <2>1. pc'[s] = "done" /\ err'[s] = "none" BY <1>1, <1>5 DEF Return, TypeOK
    <2>2. ~aborted'[s] /\ s \notin Shadow => new = {}
      BY <1>1, <2>1 DEF List, TypeOK
    <2> HIDE DEF new
    <2>3. QED BY <1>3, <1>4, <2>1, <2>2 DEF Calm
  <1>6. CASE ~Return(s, "none")
    <2>1. /\ pc' = [pc EXCEPT ![s] = "apply"] /\ todo' = [todo EXCEPT ![s] = new]
          /\ rev' = [rev EXCEPT ![s] = node] /\ UNCHANGED <<des, attempt, err>>
      BY <1>6 DEF List
    <2>2. /\ pc'[s] = "apply" /\ todo'[s] = new /\ rev'[s] = node
          /\ des'[s] = ListDesired(pg) /\ err'[s] = err[s] /\ attempt'[s] = attempt[s]
      BY <1>1, <1>2, <2>1 DEF TypeOK
    <2>3. err[s] = "none" /\ attempt[s] = 0 BY DEF Calm, List
    <2> HIDE DEF new
    <2>4. QED BY <1>3, <2>2, <2>3 DEF Calm
  <1>7. QED BY <1>5, <1>6


(* telemt refuses nothing of an undisturbed pass but to delete its last    *)
(* user: the diff knows who is there.                                      *)
LEMMA CalmRefusals ==
    ASSUME IInv, NEW s \in Syncers, Calm(s), NEW op, Trying(s, op)
    PROVE  /\ \A a \in Refusals(op, rev[s]) : a = "last_user"
           /\ Refusals(op, rev[s]) # {} =>
                 op.kind = "delete" /\ LastUser(op.user, node) /\ todo[s] = {op}
  <1>1. /\ pc[s] = "apply" /\ op \in todo[s] /\ op \in ComputeDiff(des[s], rev[s])
    BY TryingFits
  <1>2. rev[s] = node /\ ~readOnly /\ failed[s] = {} /\ skipped[s] = {}
    BY <1>1 DEF Calm
  <1>3. ComputeDiff(des[s], node) = todo[s] BY <1>1, <1>2 DEF IInv, TodoIsTheDiff
  <1>4. op.user \in Users /\ OpOf(op, op.user, des[s][op.user], node[op.user])
    BY <1>1, <1>2, DiffMemberUser
  <1>5. \A a \in Refusals(op, rev[s]) : a = "last_user"
    BY <1>2, <1>4 DEF Refusals, OpOf
  <1>6. ASSUME Refusals(op, rev[s]) # {}
        PROVE  op.kind = "delete" /\ LastUser(op.user, node) /\ todo[s] = {op}
    <2>1. op.kind = "delete" /\ LastUser(op.user, node)
      BY <1>5, <1>6 DEF Refusals
    <2>2. ASSUME NEW o \in todo[s] PROVE o = op
      <3>1. o.user \in Users /\ OpOf(o, o.user, des[s][o.user], node[o.user])
        BY <1>3, DiffMemberUser
      <3>2. Rank[op.kind] <= Rank[o.kind] BY DEF Trying, First
      <3>3. o.kind = "delete" BY <2>1, <3>1, <3>2 DEF Rank, OpOf
      <3>4. node[o.user] # Absent BY <3>1, <3>3 DEF OpOf
      <3>5. o.user = op.user BY <2>1, <3>1, <3>4 DEF LastUser
      <3>6. QED BY <1>1, <1>2, <1>3, <3>5, DiffOnePerUser
    <2>3. QED BY <1>1, <2>1, <2>2
  <1>7. QED BY <1>5, <1>6

(* The mutations of an undisturbed pass.                                   *)
LEMMA CalmMutation ==
    ASSUME IInv, NEW s \in Syncers, Calm(s), NEW op,
           Apply(s, op) \/ Skip(s, op) \/ StopReadOnly(s, op) \/ Conflict(s, op)
             \/ Refuse(s, op)
    PROVE  Calm(s)'
  <1>1. TypeOK BY DEF IInv
  <1>2. Trying(s, op)
    BY DEF Apply, Skip, StopReadOnly, Conflict, Refuse, CountFailure
  <1>3. /\ pc[s] = "apply" /\ op \in todo[s] /\ op \in ComputeDiff(des[s], node)
        /\ rev[s] = node /\ ~readOnly /\ failed[s] = {} /\ skipped[s] = {} /\ late = {}
        /\ des[s] = ListDesired(pg) /\ err[s] = "none" /\ attempt[s] = 0
        /\ ops[s] = applied[s] \cup todo[s]
    BY <1>2, TryingFits DEF Calm
  <1>4. ComputeDiff(ListDesired(pg), node) = todo[s]
    BY <1>3 DEF IInv, TodoIsTheDiff
  <1>5. ListDesired(pg) \in DesiredTable /\ node \in RemoteTable
    BY <1>1, <1>3 DEF TypeOK
  <1>6. ~(Skip(s, op) \/ StopReadOnly(s, op) \/ Conflict(s, op))
    BY <1>2, CalmRefusals
    DEF Skip, StopReadOnly, Conflict, AlreadyDone, ReadOnly, RevisionConflict
  <1>7. CASE Apply(s, op)
    <2>1. /\ pg' = pg /\ late' = {} /\ ~readOnly' /\ node' = Effect(op, node)
          /\ failed'[s] = {} /\ skipped'[s] = {} /\ ops'[s] = ops[s]
          /\ applied'[s] = applied[s] \cup {op} /\ MoveOn(s, op, node')
      BY <1>1, <1>3, <1>7 DEF Apply, TypeOK
    <2>2. ComputeDiff(ListDesired(pg), node') = todo[s] \ {op} /\ node' \in RemoteTable
      BY <1>3, <1>4, <1>5, <2>1, EffectResolves
    <2>3. CASE todo[s] = {op}
      <3>1. pc'[s] = "done" /\ err'[s] = "none"
        BY <1>1, <2>1, <2>3 DEF MoveOn, Return, TypeOK
      <3>2. OutOfSync(ListDesired(pg), node') = {}
        <4>1. {o.user : o \in ComputeDiff(ListDesired(pg), node')}
                = OutOfSync(ListDesired(pg), node')
          BY <1>5, <2>2, DiffIsOutOfSync
        <4>2. QED BY <2>2, <2>3, <4>1
      <3>3. ops'[s] = applied'[s] BY <1>3, <2>1, <2>3
      <3>4. QED BY <2>1, <3>1, <3>2, <3>3 DEF Calm
    <2>4. CASE todo[s] # {op}
      <3>1. /\ pc'[s] = "apply" /\ rev'[s] = node' /\ todo'[s] = todo[s] \ {op}
            /\ des'[s] = ListDesired(pg) /\ err'[s] = "none" /\ attempt'[s] = 0
        BY <1>1, <1>3, <2>1, <2>4 DEF MoveOn, TypeOK
      <3>2. ops'[s] = applied'[s] \cup todo'[s] BY <1>3, <2>1, <3>1
      <3>3. QED BY <2>1, <3>1, <3>2 DEF Calm
    <2>5. QED BY <2>3, <2>4
  <1>8. CASE Refuse(s, op)
    <2>1. Refusals(op, rev[s]) # {} BY <1>8 DEF Refuse
    <2>2. op.kind = "delete" /\ LastUser(op.user, node) /\ todo[s] = {op}
      BY <1>2, <2>1, CalmRefusals
    <2>3. /\ pg' = pg /\ node' = node /\ late' = {} /\ ~readOnly'
          /\ failed'[s] = {op} /\ skipped'[s] = {} /\ ops'[s] = ops[s]
          /\ applied'[s] = applied[s] /\ MoveOn(s, op, rev[s])
      BY <1>1, <1>3, <1>8 DEF Refuse, CountFailure, TypeOK, tables
    <2>4. pc'[s] = "done" /\ err'[s] = "none"
      BY <1>1, <2>2, <2>3 DEF MoveOn, Return, TypeOK
    <2>5. OutOfSync(ListDesired(pg), node) = {o.user : o \in {op}}
      BY <1>4, <1>5, <2>2, DiffIsOutOfSync
    <2>6. ops'[s] = applied'[s] \cup failed'[s] BY <1>3, <2>2, <2>3
    <2>7. \A o \in failed'[s] : o.kind = "delete" /\ LastUser(o.user, node')
      BY <2>2, <2>3 DEF LastUser
    <2>8. QED BY <2>3, <2>4, <2>5, <2>6, <2>7 DEF Calm
  <1>9. QED BY <1>6, <1>7, <1>8

(* With nobody else about, a pass meets no conflict and ends with the node *)
(* in sync or with the guard's refusal, but for a last user telemt does    *)
(* not delete.                                                             *)
THEOREM UndisturbedPasses == Spec => []UndisturbedPassSucceeds
  <1>1. Init => CalmInv
    BY DEF Init, CalmInv, Calm
  <1>2. IInv /\ CalmInv /\ [Next]_vars => CalmInv'
    <2> SUFFICES ASSUME IInv, CalmInv, [Next]_vars, NEW s \in Syncers, Undisturbed(s)'
                 PROVE  Calm(s)'
      BY DEF CalmInv
    <2>1. Undisturbed(s) /\ (Answered(s) \/ (\E r \in late : Late(r)) \/ UNCHANGED vars)
      BY UndisturbedStep
    <2>2. Calm(s) BY <2>1 DEF CalmInv
    <2>3. CASE Start(s)
      <3>1. /\ pc'[s] = "list" /\ des'[s] = ListDesired(pg) /\ err'[s] = "none"
            /\ attempt'[s] = 0 /\ pg' = pg /\ late' = late /\ readOnly' = readOnly
        BY <2>3 DEF Start, IInv, TypeOK, tables
      <3>2. QED BY <2>2, <3>1 DEF Calm
    <2>4. CASE UNCHANGED vars
      BY <2>2, <2>4 DEF Calm, vars, LastUser
    <2>5. ~\E r \in late : Late(r) BY <2>2 DEF Calm
    <2>6. QED BY <2>1, <2>2, <2>3, <2>4, <2>5, CalmList, CalmMutation DEF Answered
  <1>3. CalmInv => UndisturbedPassSucceeds
    BY DEF CalmInv, Calm, UndisturbedPassSucceeds
  <1>4. QED BY <1>1, <1>2, <1>3, Invariance, PTL DEF Spec


-----------------------------------------------------------------------------
(* The end of a pass. *)

(* An attempt more is a listing and an operation per user less.            *)
LEMMA AttemptsLeft ==
    ASSUME NEW m \in Nat, NEW i \in 0 .. m, NEW k \in Nat
    PROVE  /\ (m - i) * k \in Nat
           /\ i + 1 <= m => (m - (i + 1)) * k + k = (m - i) * k
  <1>1. PICK j \in Nat : j = m - i OBVIOUS
  <1>2. j * k \in Nat OBVIOUS
  <1>3. i + 1 <= m => (j - 1) * k + k = j * k OBVIOUS
  <1>4. m - (i + 1) = j - 1 BY <1>1
  <1>5. QED BY <1>1, <1>2, <1>3, <1>4

(* The operations a pass has to try are no more than there are users.      *)
LEMMA TodoCardinality ==
    ASSUME IInv, NEW s \in Syncers, pc[s] = "apply"
    PROVE  /\ IsFiniteSet(todo[s]) /\ Cardinality(todo[s]) \in Nat \ {0}
           /\ Cardinality(todo[s]) <= Cardinality(Users)
  <1>1. todo[s] \in SUBSET ComputeDiff(des[s], rev[s]) /\ todo[s] # {}
    BY DEF IInv, TodoIsTheDiff, TodoFresh
  <1>2. /\ IsFiniteSet(ComputeDiff(des[s], rev[s]))
        /\ Cardinality(ComputeDiff(des[s], rev[s])) <= Cardinality(Users)
        /\ Cardinality(Users) \in Nat
    BY DiffCardinality, UsersAssumption, FS_CardinalityType
  <1>3. /\ IsFiniteSet(todo[s])
        /\ Cardinality(todo[s]) <= Cardinality(ComputeDiff(des[s], rev[s]))
    BY <1>1, <1>2, FS_Subset
  <1>4. Cardinality(ComputeDiff(des[s], rev[s])) \in Nat
    BY <1>2, FS_CardinalityType
  <1>5. Cardinality(todo[s]) \in Nat \ {0}
    BY <1>1, <1>3, FS_CardinalityType, FS_EmptySet
  <1>6. QED BY <1>2, <1>3, <1>4, <1>5

(* A step that keeps a pass under way, and is one of its own, is a listing  *)
(* that found something to do, an operation done with, or a new attempt.   *)
LEMMA RequestKinds ==
    ASSUME IInv, [Next]_vars, NEW s \in Syncers,
           pc[s] \in {"list", "apply"}, pc'[s] \in {"list", "apply"},
           <<pc[s], todo[s]>> # <<pc'[s], todo'[s]>>
    PROVE  \/ /\ pc[s] = "list" /\ pc'[s] = "apply" /\ attempt'[s] = attempt[s]
              /\ todo'[s] = ComputeDiff(des[s], node)
           \/ /\ pc[s] = "apply" /\ pc'[s] = "apply" /\ attempt'[s] = attempt[s]
              /\ \E op \in todo[s] : todo'[s] = todo[s] \ {op}
           \/ /\ pc[s] = "apply" /\ pc'[s] = "list"
              /\ attempt[s] # MaxRetry /\ attempt'[s] = attempt[s] + 1
  <1>1. TypeOK BY DEF IInv
  <1>2. PICK q \in Syncers : Pass(q)
    BY DEF Next, Late, Environment, Create, Delete, Renew, Enable, Write,
           EditNode, SwitchReadOnly, vars, result
  <1>3. q = s
    BY <1>1, <1>2
    DEF Pass, Answered, Start, StartFails, List, ListFails, Apply, Skip, StopReadOnly,
        Conflict, Refuse, NoAnswer, CountFailure, MoveOn, Crash, Return, TypeOK
  <1>4. ~(Start(s) \/ StartFails(s) \/ ListFails(s) \/ Crash(s))
    BY <1>1 DEF Start, StartFails, Idle, ListFails, Crash, Return, TypeOK
  <1>5. ASSUME List(s)
        PROVE  /\ pc[s] = "list" /\ pc'[s] = "apply" /\ attempt'[s] = attempt[s]
               /\ todo'[s] = ComputeDiff(des[s], node)
    BY <1>1, <1>5 DEF List, Return, TypeOK
  <1>6. ASSUME NEW op \in todo[s], MoveOn(s, op, rev'[s]), Trying(s, op)
        PROVE  /\ pc[s] = "apply" /\ pc'[s] = "apply" /\ attempt'[s] = attempt[s]
               /\ todo'[s] = todo[s] \ {op}
    BY <1>1, <1>6 DEF MoveOn, Return, Trying, TypeOK
  <1>7. ASSUME NEW op \in todo[s],
               Apply(s, op) \/ Skip(s, op) \/ Refuse(s, op) \/ NoAnswer(s, op)
        PROVE  Trying(s, op) /\ MoveOn(s, op, rev'[s])
    BY <1>1, <1>7
    DEF Apply, Skip, Refuse, NoAnswer, CountFailure, MoveOn, Return, TypeOK
  <1>8. ASSUME NEW op \in todo[s], StopReadOnly(s, op) \/ Conflict(s, op)
        PROVE  /\ pc[s] = "apply" /\ pc'[s] = "list"
               /\ attempt[s] # MaxRetry /\ attempt'[s] = attempt[s] + 1
    BY <1>1, <1>8 DEF StopReadOnly, Conflict, Exhausted, Return, Trying, TypeOK
  <1>9. QED BY <1>2, <1>3, <1>4, <1>5, <1>6, <1>7, <1>8 DEF Pass, Answered

(* No pass runs for ever, whatever else happens to the node.               *)
THEOREM PassesRunOut == Spec => PassesEnd
  <1>1. IInv /\ [Next]_vars => RequestsRunOut
    <2> SUFFICES ASSUME IInv, [Next]_vars, NEW s \in Syncers,
                        pc[s] \in {"list", "apply"}, pc'[s] \in {"list", "apply"},
                        <<pc[s], todo[s]>> # <<pc'[s], todo'[s]>>
                 PROVE  0 <= Left(s)' /\ Left(s)' < Left(s)
      BY DEF RequestsRunOut
    <2> DEFINE n == Cardinality(Users)
               more == (MaxRetry - attempt[s]) * (n + 1)
    <2>1. n \in Nat BY UsersAssumption, FS_CardinalityType
    <2>2. attempt[s] \in 0 .. MaxRetry /\ MaxRetry \in Nat
      BY BoundsAssumption DEF IInv, TypeOK
    <2>3. /\ more \in Nat
          /\ attempt[s] + 1 <= MaxRetry =>
                (MaxRetry - (attempt[s] + 1)) * (n + 1) + (n + 1) = more
      BY <2>1, <2>2, AttemptsLeft
    <2>4. /\ Left(s) = more + (IF pc[s] = "apply" THEN Cardinality(todo[s]) ELSE n + 1)
          /\ Left(s)' = (MaxRetry - attempt'[s]) * (n + 1)
                          + (IF pc'[s] = "apply" THEN Cardinality(todo'[s]) ELSE n + 1)
      BY DEF Left
    <2> HIDE DEF n
    <2>5. CASE pc[s] = "list" /\ pc'[s] = "apply"
      <3>1. attempt'[s] = attempt[s] /\ todo'[s] = ComputeDiff(des[s], node)
        BY <2>5, RequestKinds
      <3>2. Cardinality(todo'[s]) \in Nat /\ Cardinality(todo'[s]) <= n
        BY <3>1, DiffCardinality, FS_CardinalityType DEF n
      <3>3. Left(s) = more + (n + 1) /\ Left(s)' = more + Cardinality(todo'[s])
        BY <2>4, <2>5, <3>1
      <3> HIDE DEF more
      <3>4. QED BY <2>1, <2>3, <3>2, <3>3
    <2>6. CASE pc[s] = "apply" /\ pc'[s] = "apply"
      <3>1. attempt'[s] = attempt[s] /\ \E op \in todo[s] : todo'[s] = todo[s] \ {op}
        BY <2>6, RequestKinds
      <3>2. IsFiniteSet(todo[s]) /\ Cardinality(todo[s]) \in Nat \ {0}
        BY <2>6, TodoCardinality
      <3>3. Cardinality(todo'[s]) = Cardinality(todo[s]) - 1
        BY <3>1, <3>2, FS_RemoveElement
      <3>4. /\ Left(s) = more + Cardinality(todo[s])
            /\ Left(s)' = more + Cardinality(todo'[s])
        BY <2>4, <2>6, <3>1
      <3> HIDE DEF more
      <3>5. QED BY <2>3, <3>2, <3>3, <3>4
    <2>7. CASE pc[s] = "apply" /\ pc'[s] = "list"
      <3>1. attempt[s] # MaxRetry /\ attempt'[s] = attempt[s] + 1
        BY <2>7, RequestKinds
      <3>2. Cardinality(todo[s]) \in Nat \ {0} BY <2>7, TodoCardinality
      <3>3. Left(s) = more + Cardinality(todo[s]) /\ Left(s)' = more
        BY <2>2, <2>3, <2>4, <2>7, <3>1
      <3> HIDE DEF more
      <3>4. QED BY <2>3, <3>2, <3>3
    <2>8. QED BY <2>5, <2>6, <2>7, RequestKinds
  <1>2. QED BY <1>1, Invariance, PTL DEF Spec, PassesEnd


=============================================================================
