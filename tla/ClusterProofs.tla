---------------------------- MODULE ClusterProofs -----------------------------
(* Theorems about Cluster, for any nodes, tokens and bounds.                 *)
EXTENDS Cluster, TLAPS

(* A bundle for the token was sent, or is about to be. *)
LetIn(t) == bundles[t] > 0 \/ \E n \in Nodes : t \in admitted[n]

(* The primary knows of every use that no failover has lost; this is what    *)
(* makes the one statement of ConsumeJoinToken enough for a whole cluster.   *)
UseKnown ==
    \A t \in JoinTokens : LetIn(t) /\ t \notin forgotten => tokens[primary][t] = "used"

(* At most one handler holds such a token, and none once a bundle is sent.   *)
OneHolder ==
    \A t \in JoinTokens \ forgotten : \A n, m \in Nodes :
        t \in admitted[n] => bundles[t] = 0 /\ (t \in admitted[m] => n = m)

CInv == TypeOK /\ UseKnown /\ OneHolder /\ OneBundle

LEMMA InitCInv == Init => CInv
  BY URLAssumption, BoundsAssumption
  DEF Init, CInv, TypeOK, UseKnown, LetIn, OneHolder, OneBundle, Absent

LEMMA SpentMoves ==
  ASSUME TypeOK, Spend("failovers", MaxFailovers) \/ Spend("faults", MaxFaults)
  PROVE  spent' \in [failovers : 0 .. MaxFailovers, faults : 0 .. MaxFaults]
  BY BoundsAssumption DEF Spend, TypeOK

(* Heartbeats keep the types and leave the tokens alone; a restart may leave *)
(* a handler without its answer.                                             *)
LEMMA RegistryStep ==
  ASSUME TypeOK, NEW n \in Nodes,
         Report(n) \/ LosePost(n) \/ Restart(n) \/ ReceiveLate(n)
  PROVE  /\ TypeOK' /\ UNCHANGED <<primary, tokens, bundles, forgotten>>
         /\ \A m \in Nodes : admitted'[m] \subseteq admitted[m]
<1> USE BoundsAssumption, URLAssumption DEF TypeOK, registry, joins, joining
<1>0. ASSUME NEW m \in Nodes, NEW role \in {"master", "replica"}, UpsertNode(m, n, role)
      PROVE  nodes' \in [Nodes -> [Nodes -> {Absent, "master", "replica"}]]
  <2> DEFINE T == {Absent, "master", "replica"}
  <2>1. [nodes[m] EXCEPT ![n] = role] \in [Nodes -> T]
    OBVIOUS
  <2>2. [nodes EXCEPT ![m] = [nodes[m] EXCEPT ![n] = role]] \in [Nodes -> [Nodes -> T]]
    BY <2>1
  <2>3. nodes' = nodes \/ nodes' = [nodes EXCEPT ![m] = [nodes[m] EXCEPT ![n] = role]]
    BY <1>0 DEF UpsertNode, Row
  <2> QED BY <2>2, <2>3
<1>1. CASE Detect(n)
  BY <1>1 DEF Detect, Goes
<1>2. CASE ReportSelf(n)
  <2>1. UpsertNode(n, n, "master")
    BY <1>2 DEF ReportSelf
  <2> QED BY <1>0, <1>2, <2>1 DEF ReportSelf, Goes
<1>3. CASE Receive(n)
  <2>1. MasterURL[n] \in Nodes /\ UpsertNode(MasterURL[n], n, "replica")
    BY <1>3 DEF Receive
  <2> QED BY <1>0, <1>3, <2>1 DEF Receive, Goes
<1>4. CASE LosePost(n)
  <2>1. spent' \in [failovers : 0 .. MaxFailovers, faults : 0 .. MaxFaults]
    BY <1>4, SpentMoves DEF LosePost
  <2> QED BY <1>4, <2>1 DEF LosePost, Goes
<1>5. CASE Restart(n)
  <2>1. spent' \in [failovers : 0 .. MaxFailovers, faults : 0 .. MaxFaults]
    BY <1>5, SpentMoves DEF Restart
  <2>2. late' \subseteq Nodes /\ beat' \in [Nodes -> {"idle", "self", "posted"}]
    BY <1>5 DEF Restart, Goes
  <2>3. \A m \in Nodes : beat'[m] = "posted" \/ m \in late' => MasterURL[m] # NoURL
    BY <1>5 DEF Restart, Goes
  <2>4. admitted' \in [Nodes -> SUBSET JoinTokens] /\ \A m \in Nodes : admitted'[m] \subseteq admitted[m]
    BY <1>5 DEF Restart
  <2> QED BY <1>5, <2>1, <2>2, <2>3, <2>4 DEF Restart
<1>6. CASE ReceiveLate(n)
  <2>1. MasterURL[n] \in Nodes /\ UpsertNode(MasterURL[n], n, "replica")
    BY <1>6 DEF ReceiveLate
  <2> QED BY <1>0, <1>6, <2>1 DEF ReceiveLate
<1> QED BY <1>1, <1>2, <1>3, <1>4, <1>5, <1>6 DEF Report

(* Marking a token in one database. *)
LEMMA Marked ==
  ASSUME TypeOK, NEW t \in JoinTokens, NEW state \in {"fresh", "used"},
         tokens' = [tokens EXCEPT ![primary][t] = state]
  PROVE  /\ tokens' \in [Nodes -> [JoinTokens -> {Absent, "fresh", "used"}]]
         /\ \A m \in Nodes, s \in JoinTokens :
              tokens'[m][s] = IF m = primary /\ s = t THEN state ELSE tokens[m][s]
<1> DEFINE T == {Absent, "fresh", "used"}
           row == [tokens[primary] EXCEPT ![t] = state]
<1>1. primary \in Nodes /\ tokens \in [Nodes -> [JoinTokens -> T]]
  BY DEF TypeOK
<1>2. row \in [JoinTokens -> T] /\ \A s \in JoinTokens : row[s] = IF s = t THEN state ELSE tokens[primary][s]
  BY <1>1
<1>3. tokens' = [tokens EXCEPT ![primary] = row]
  OBVIOUS
<1> HIDE DEF row
<1> QED BY <1>1, <1>2, <1>3

LEMMA CreateStep ==
  ASSUME CInv, NEW t \in JoinTokens, CreateJoinToken(t)
  PROVE  CInv'
<1> USE DEF CInv, TypeOK, registry, joins
<1>1. /\ UNCHANGED <<MasterURL, primary, nodes, beat, late, admitted, joins, spent>>
      /\ ~LetIn(t)
  BY DEF CreateJoinToken, LetIn
<1>2. /\ tokens' \in [Nodes -> [JoinTokens -> {Absent, "fresh", "used"}]]
      /\ \A m \in Nodes, s \in JoinTokens :
           tokens'[m][s] = IF m = primary /\ s = t THEN "fresh" ELSE tokens[m][s]
  BY Marked DEF CreateJoinToken
<1>3. TypeOK'
  BY <1>1, <1>2
<1>4. UseKnown'
  <2>1. ASSUME NEW s \in JoinTokens, LetIn(s)', s \notin forgotten
        PROVE  tokens'[primary][s] = "used"
    <3>1. LetIn(s) /\ s # t
      BY <1>1, <2>1 DEF LetIn
    <3> QED BY <1>2, <2>1, <3>1 DEF UseKnown
  <2> QED BY <1>1, <2>1 DEF UseKnown
<1>5. OneHolder' /\ OneBundle'
  BY <1>1 DEF OneHolder, OneBundle
<1> QED BY <1>3, <1>4, <1>5

(* The statement finds only a token that lets nobody in, or one that a       *)
(* failover has made new.                                                    *)
LEMMA ConsumeStep ==
  ASSUME CInv, NEW t \in JoinTokens, Admit(t) \/ AdmitUnnoticed(t)
  PROVE  CInv'
<1> USE BoundsAssumption DEF CInv, TypeOK, registry, joins
<1>1. /\ UNCHANGED <<MasterURL, primary, nodes, beat, late, joins>>
      /\ tokens[primary][t] = "fresh"
      /\ tokens' = [tokens EXCEPT ![primary][t] = "used"]
  BY DEF Admit, AdmitUnnoticed, Consume, Consumable
<1>2. /\ tokens' \in [Nodes -> [JoinTokens -> {Absent, "fresh", "used"}]]
      /\ \A m \in Nodes, s \in JoinTokens :
           tokens'[m][s] = IF m = primary /\ s = t THEN "used" ELSE tokens[m][s]
  BY <1>1, Marked
<1>3. ~LetIn(t) \/ t \in forgotten
  BY <1>1 DEF UseKnown
<1>4. /\ admitted' \in [Nodes -> SUBSET JoinTokens]
      /\ \A n \in Nodes, s \in JoinTokens :
           s \in admitted'[n] => s \in admitted[n] \/ (s = t /\ n = primary)
  <2>1. CASE Admit(t)
    <3>1. admitted' = [admitted EXCEPT ![primary] = admitted[primary] \cup {t}]
      BY <2>1 DEF Admit
    <3>2. admitted[primary] \cup {t} \in SUBSET JoinTokens
      OBVIOUS
    <3>3. admitted' \in [Nodes -> SUBSET JoinTokens]
      BY <3>1, <3>2
    <3> QED BY <3>1, <3>3
  <2>2. CASE AdmitUnnoticed(t)
    BY <2>2 DEF AdmitUnnoticed
  <2> QED BY <2>1, <2>2
<1>5. spent' \in [failovers : 0 .. MaxFailovers, faults : 0 .. MaxFaults]
  BY SpentMoves DEF Admit, AdmitUnnoticed
<1>6. TypeOK'
  BY <1>1, <1>2, <1>4, <1>5
<1>7. UseKnown'
  <2>1. ASSUME NEW s \in JoinTokens, LetIn(s)', s \notin forgotten
        PROVE  tokens'[primary][s] = "used"
    BY <1>1, <1>2, <1>4, <2>1 DEF UseKnown, LetIn
  <2> QED BY <1>1, <2>1 DEF UseKnown
<1>8. OneHolder'
  <2>1. ASSUME NEW s \in JoinTokens \ forgotten, NEW n \in Nodes, NEW m \in Nodes,
               s \in admitted'[n]
        PROVE  bundles[s] = 0 /\ (s \in admitted'[m] => n = m)
    <3>1. CASE s = t
      BY <1>3, <1>4, <2>1, <3>1 DEF LetIn
    <3>2. CASE s # t
      BY <1>4, <2>1, <3>2 DEF OneHolder
    <3> QED BY <3>1, <3>2
  <2> QED BY <1>1, <2>1 DEF OneHolder
<1>9. OneBundle'
  BY <1>1 DEF OneBundle
<1> QED BY <1>6, <1>7, <1>8, <1>9

LEMMA SendStep ==
  ASSUME CInv, NEW n \in Nodes, NEW t \in JoinTokens, SendBundle(n, t)
  PROVE  CInv'
<1> USE BoundsAssumption DEF CInv, TypeOK, registry
<1>1. /\ UNCHANGED <<MasterURL, primary, nodes, tokens, beat, late, expired, forgotten, spent>>
      /\ t \in admitted[n] /\ bundles[t] < MaxJoins
      /\ bundles' = [bundles EXCEPT ![t] = bundles[t] + 1]
      /\ admitted' = [admitted EXCEPT ![n] = admitted[n] \ {t}]
  BY DEF SendBundle
<1>2. /\ bundles' \in [JoinTokens -> 0 .. MaxJoins]
      /\ \A s \in JoinTokens : bundles'[s] = IF s = t THEN bundles[t] + 1 ELSE bundles[s]
  BY <1>1
<1>3. /\ admitted' \in [Nodes -> SUBSET JoinTokens]
      /\ \A m \in Nodes, s \in JoinTokens :
           s \in admitted'[m] <=> s \in admitted[m] /\ ~(m = n /\ s = t)
  BY <1>1
<1>4. t \in forgotten \/ (bundles[t] = 0 /\ \A m \in Nodes : t \in admitted[m] => m = n)
  BY <1>1 DEF OneHolder
<1>5. TypeOK'
  BY <1>1, <1>2, <1>3
<1>6. UseKnown'
  <2>1. ASSUME NEW s \in JoinTokens, LetIn(s)'
        PROVE  LetIn(s)
    BY <1>1, <1>2, <1>3, <2>1 DEF LetIn
  <2> QED BY <1>1, <2>1 DEF UseKnown
<1>7. OneHolder'
  BY <1>1, <1>2, <1>3, <1>4 DEF OneHolder
<1>8. OneBundle'
  BY <1>1, <1>2, <1>4 DEF OneBundle
<1> QED BY <1>5, <1>6, <1>7, <1>8

LEMMA PostgresStep ==
  ASSUME CInv, NEW n \in Nodes, Replicate(n) \/ Failover(n)
  PROVE  CInv'
<1> USE BoundsAssumption DEF CInv, TypeOK, registry, joins
<1>1. CASE Replicate(n)
  BY <1>1 DEF Replicate, UseKnown, LetIn, OneHolder, OneBundle
<1>2. CASE Failover(n)
  <2>1. TypeOK'
    <3>1. spent' \in [failovers : 0 .. MaxFailovers, faults : 0 .. MaxFaults]
      BY <1>2, SpentMoves DEF Failover
    <3>2. primary' \in Nodes /\ forgotten' \subseteq JoinTokens
      BY <1>2 DEF Failover
    <3> QED BY <1>2, <3>1, <3>2 DEF Failover
  <2>2. UseKnown' /\ OneHolder' /\ OneBundle'
    BY <1>2 DEF Failover, UseKnown, LetIn, OneHolder, OneBundle
  <2> QED BY <2>1, <2>2
<1> QED BY <1>1, <1>2

LEMMA NextCInv == CInv /\ [Next]_vars => CInv'
<1> SUFFICES ASSUME CInv, [Next]_vars
             PROVE  CInv'
  OBVIOUS
<1>1. CASE UNCHANGED vars
  BY <1>1 DEF vars, CInv, TypeOK, UseKnown, LetIn, OneHolder, OneBundle
<1>2. ASSUME NEW n \in Nodes, Report(n) \/ LosePost(n) \/ Restart(n) \/ ReceiveLate(n)
      PROVE  CInv'
  BY <1>2, RegistryStep DEF CInv, UseKnown, LetIn, OneHolder, OneBundle
<1>3. ASSUME NEW n \in Nodes, Replicate(n) \/ Failover(n)
      PROVE  CInv'
  BY <1>3, PostgresStep
<1>4. ASSUME NEW t \in JoinTokens, CreateJoinToken(t) \/ Admit(t) \/ AdmitUnnoticed(t)
      PROVE  CInv'
  BY <1>4, CreateStep, ConsumeStep
<1>5. ASSUME NEW t \in JoinTokens, Expire(t)
      PROVE  CInv'
  BY <1>5 DEF Expire, registry, CInv, TypeOK, UseKnown, LetIn, OneHolder, OneBundle
<1>6. ASSUME NEW n \in Nodes, NEW t \in JoinTokens, SendBundle(n, t)
      PROVE  CInv'
  BY <1>6, SendStep
<1> QED BY <1>1, <1>2, <1>3, <1>4, <1>5, <1>6 DEF Next

-----------------------------------------------------------------------------
(* What a heartbeat of n writes: its own row of one database at most.        *)
LEMMA Upserted ==
  ASSUME TypeOK, NEW n \in Nodes, NEW m \in Nodes, NEW role, UpsertNode(m, n, role)
  PROVE  /\ \A k \in Nodes \ {n} : nodes'[primary][k] = nodes[primary][k]
         /\ nodes'[primary][n] \in {nodes[primary][n], role}
  BY DEF UpsertNode, Row, TypeOK

(* A heartbeat of n leaves the others settled.                               *)
LEMMA OthersSettled ==
  ASSUME TypeOK, NEW n \in Nodes, NEW k \in Nodes \ {n}, Settled(k),
         Report(n) \/ LosePost(n) \/ Restart(n) \/ ReceiveLate(n)
  PROVE  Settled(k)'
<1>1. primary' = primary /\ beat'[k] = beat[k] /\ (k \in late' => k \in late)
  BY DEF Report, Detect, ReportSelf, Receive, LosePost, Restart, ReceiveLate, Goes, TypeOK
<1>2. nodes'[primary][k] = nodes[primary][k]
  <2>1. CASE UNCHANGED nodes
    BY <2>1
  <2>2. CASE ~ UNCHANGED nodes
    <3>1. \/ UpsertNode(n, n, "master")
          \/ MasterURL[n] \in Nodes /\ UpsertNode(MasterURL[n], n, "replica")
      BY <2>2 DEF Report, Detect, ReportSelf, Receive, LosePost, Restart, ReceiveLate, TypeOK
    <3> QED BY <3>1, Upserted
  <2> QED BY <2>1, <2>2
<1> QED BY <1>1, <1>2 DEF Settled, RoleOf

(* A heartbeat of a settled node says what the registry says already.        *)
LEMMA OwnSettled ==
  ASSUME TypeOK, NEW n \in Nodes, Settled(n),
         Report(n) \/ LosePost(n) \/ Restart(n) \/ ReceiveLate(n)
  PROVE  Settled(n)'
<1> USE DEF TypeOK, joining, joins
<1>1. CASE Detect(n)
  BY <1>1 DEF Detect, Goes, Settled, RoleOf
<1>2. CASE ReportSelf(n)
  <2>1. n = primary /\ UpsertNode(n, n, "master") /\ beat'[n] = "idle"
        /\ UNCHANGED <<primary, late>>
    BY <1>2 DEF ReportSelf, Goes, Settled
  <2>2. nodes'[primary][n] = "master"
    BY <2>1, Upserted DEF Settled, RoleOf
  <2> QED BY <2>1, <2>2 DEF Settled, RoleOf
<1>3. CASE Receive(n) \/ ReceiveLate(n)
  <2>1. /\ n # primary /\ MasterURL[n] \in Nodes /\ UpsertNode(MasterURL[n], n, "replica")
        /\ primary' = primary /\ beat'[n] \in {beat[n], "idle"}
    BY <1>3 DEF Receive, ReceiveLate, Goes, Settled
  <2>2. nodes'[primary][n] = "replica"
    BY <2>1, Upserted DEF Settled, RoleOf
  <2> QED BY <2>1, <2>2 DEF Settled, RoleOf
<1>4. CASE LosePost(n) \/ Restart(n)
  BY <1>4 DEF LosePost, Restart, Goes, Settled, RoleOf
<1> QED BY <1>1, <1>2, <1>3, <1>4 DEF Report

(* UseKnown and what follows from it hold in every reachable state. *)
THEOREM ClusterInvariance == Spec => []CInv
<1>1. Init => CInv
  BY InitCInv
<1>2. CInv /\ [Next]_vars => CInv'
  BY NextCInv
<1> QED BY <1>1, <1>2, PTL DEF Spec

(* The types of the cluster's databases, heartbeats and tokens; a node       *)
(* without a MasterURL never has a heartbeat on the wire.                    *)
THEOREM ClusterTypeCorrect == Spec => []TypeOK
<1>1. CInv => TypeOK
  BY DEF CInv
<1> QED BY <1>1, ClusterInvariance, PTL

(* However joins, failovers and replication interleave, ConsumeJoinToken     *)
(* lets a second bundle go out for a token only if a failover has lost the   *)
(* row that marked it as used.                                               *)
THEOREM TokensAreSingleUse == Spec => []OneBundle
<1>1. CInv => OneBundle
  BY DEF CInv
<1> QED BY <1>1, ClusterInvariance, PTL

(* Once the registry of the primary has a node's role and none of its        *)
(* heartbeats under way says otherwise, only a failover makes it wrong: not  *)
(* a heartbeat of whatever age or a restart, of any node, nor replication.   *)
THEOREM RolesStay == Spec => SettledUntilFailover
<1>1. ASSUME CInv, [Next]_vars, NEW n \in Nodes, Settled(n)
      PROVE  Settled(n)' \/ \E m \in Nodes : Failover(m)
  <2>1. TypeOK
    BY <1>1 DEF CInv
  <2>2. ASSUME NEW m \in Nodes, Report(m) \/ LosePost(m) \/ Restart(m) \/ ReceiveLate(m)
        PROVE  Settled(n)'
    <3>1. CASE m = n
      BY <1>1, <2>1, <2>2, <3>1, OwnSettled
    <3>2. CASE m # n
      BY <1>1, <2>1, <2>2, <3>2, OthersSettled
    <3> QED BY <3>1, <3>2
  <2>3. ASSUME NEW m \in Nodes, Replicate(m)
        PROVE  Settled(n)'
    BY <1>1, <2>1, <2>3 DEF Replicate, Settled, RoleOf, TypeOK
  <2>4. ASSUME NEW t \in JoinTokens, \/ CreateJoinToken(t) \/ Admit(t) \/ AdmitUnnoticed(t)
                                     \/ Expire(t) \/ \E m \in Nodes : SendBundle(m, t)
        PROVE  Settled(n)'
    BY <1>1, <2>4
    DEF CreateJoinToken, Admit, AdmitUnnoticed, Consume, SendBundle, Expire, registry, Settled, RoleOf
  <2>5. CASE UNCHANGED vars
    BY <1>1, <2>5 DEF vars, Settled, RoleOf
  <2> QED BY <1>1, <2>2, <2>3, <2>4, <2>5 DEF Next
<1>2. CInv /\ [Next]_vars =>
        [\A n \in Nodes : Settled(n) /\ ~Settled(n)' => \E m \in Nodes : Failover(m)]_vars
  BY <1>1
<1> QED BY <1>2, ClusterInvariance, PTL DEF Spec, SettledUntilFailover

=============================================================================
