------------------------------- MODULE Cluster --------------------------------
(***************************************************************************)
(* The registry of nodes and the join tokens of a cluster                  *)
(* (internal/server/cluster.go, internal/store/nodes.go).  Every node has  *)
(* a database of its own; one is the primary and the others follow it,     *)
(* later, and a failover makes one of them the primary with what it has.   *)
(* A node learns its role from its database before each heartbeat, but     *)
(* where a replica sends it is configured once.                            *)
(***************************************************************************)
EXTENDS Naturals

CONSTANTS
    Nodes,         \* those with a SelfCode: the others send no heartbeats
    NoURL,         \* MasterURL is empty
    JoinTokens,    \* what newToken may return: 32 random bytes, never twice
    MaxFailovers,  \* bound: failovers
    MaxFaults,     \* bound: lost heartbeats, lost answers and restarts
    MaxJoins       \* bound: bundles counted per token

ASSUME URLAssumption == NoURL \notin Nodes

ASSUME BoundsAssumption == MaxFailovers \in Nat /\ MaxFaults \in Nat /\ MaxJoins \in Nat

VARIABLES
    MasterURL,  \* the node that each node's configured URL leads to, or NoURL
    primary,    \* the node whose database accepts writes
    nodes,      \* each database's table nodes: the role of each row
    tokens,     \* each database's table join_tokens
    expired,    \* the tokens whose hour is over
    beat,       \* where each node's reportHeartbeat is
    late,       \* the nodes with a heartbeat on the wire nobody waits for
    admitted,   \* the tokens each node's handlers have consumed and not answered
    bundles,    \* how many bundles were sent for each token
    forgotten,  \* the tokens whose use a failover lost
    spent       \* used of the bounds

vars == <<MasterURL, primary, nodes, tokens, expired, beat, late, admitted,
          bundles, forgotten, spent>>

registry == <<MasterURL, nodes, beat, late>>
joins == <<expired, bundles, forgotten>>
joining == <<tokens, admitted, joins>>

Absent == "absent"

RoleOf(n) == IF n = primary THEN "master" ELSE "replica"

Spend(what, max) == spent[what] < max /\ spent' = [spent EXCEPT ![what] = @ + 1]

Init ==
    /\ MasterURL \in [Nodes -> Nodes \cup {NoURL}]
    /\ primary \in Nodes
    /\ nodes = [m \in Nodes |-> [n \in Nodes |-> Absent]]
    /\ tokens = [m \in Nodes |-> [t \in JoinTokens |-> Absent]]
    /\ expired = {} /\ forgotten = {} /\ late = {}
    /\ beat = [n \in Nodes |-> "idle"]
    /\ admitted = [n \in Nodes |-> {}]
    /\ bundles = [t \in JoinTokens |-> 0]
    /\ spent = [failovers |-> 0, faults |-> 0]

-----------------------------------------------------------------------------
(* The heartbeat *)

(* Mutant: ON CONFLICT DO NOTHING. *)
RowOnce(old, role) == IF old = Absent THEN role ELSE old

(* ON CONFLICT DO UPDATE. *)
Row(old, role) == role

(* UpsertNode on m's database: an error unless it is the primary. *)
UpsertNode(m, n, role) ==
    nodes' = IF m = primary THEN [nodes EXCEPT ![m][n] = Row(@, role)] ELSE nodes

Goes(n, stage) == beat' = [beat EXCEPT ![n] = stage]

(* Mutant: a replica without a MasterURL sends its heartbeat all the same. *)
DetectAnyURL(n) ==
    /\ beat[n] = "idle"
    /\ Goes(n, IF n = primary THEN "self" ELSE "posted")
    /\ UNCHANGED <<MasterURL, primary, nodes, joining, late, spent>>

(* Who a node is, and what it sends: a master writes its own row, a replica *)
(* with a MasterURL posts it there.                                        *)
Detect(n) ==
    /\ beat[n] = "idle"
    /\ Goes(n, IF n = primary THEN "self" ELSE IF MasterURL[n] = NoURL THEN "idle" ELSE "posted")
    /\ UNCHANGED <<MasterURL, primary, nodes, joining, late, spent>>

ReportSelf(n) ==
    /\ beat[n] = "self"
    /\ UpsertNode(n, n, "master")
    /\ Goes(n, "idle")
    /\ UNCHANGED <<MasterURL, primary, joining, late, spent>>

(* Mutant: the row gets the role of who writes it. *)
ReceiveWithOwnRole(n) ==
    /\ beat[n] = "posted"
    /\ UpsertNode(MasterURL[n], n, RoleOf(MasterURL[n]))
    /\ Goes(n, "idle")
    /\ UNCHANGED <<MasterURL, primary, joining, late, spent>>

(* POST /api/cluster/heartbeat, 200 or 503. *)
Receive(n) ==
    /\ beat[n] = "posted"
    /\ UpsertNode(MasterURL[n], n, "replica")
    /\ Goes(n, "idle")
    /\ UNCHANGED <<MasterURL, primary, joining, late, spent>>

(* The connection fails before the master has it. *)
LosePost(n) ==
    /\ beat[n] = "posted"
    /\ Spend("faults", MaxFaults)
    /\ Goes(n, "idle")
    /\ UNCHANGED <<MasterURL, primary, nodes, joining, late>>

(* The daemon of n starts again; what it has sent may still arrive, but who *)
(* was about to be answered is not.                                        *)
Restart(n) ==
    /\ Spend("faults", MaxFaults)
    /\ Goes(n, "idle")
    /\ late' = IF beat[n] = "posted" THEN late \cup {n} ELSE late
    /\ admitted' = [admitted EXCEPT ![n] = {}]
    /\ UNCHANGED <<MasterURL, primary, nodes, tokens, joins>>

ReceiveLate(n) ==
    /\ n \in late
    /\ late' = late \ {n}
    /\ UpsertNode(MasterURL[n], n, "replica")
    /\ UNCHANGED <<MasterURL, primary, beat, joining, spent>>

-----------------------------------------------------------------------------
(* Join tokens *)

(* POST /api/cluster/join-token at the primary; elsewhere it is a 503. *)
CreateJoinToken(t) ==
    /\ \A m \in Nodes : tokens[m][t] = Absent
    /\ t \notin expired \cup forgotten /\ bundles[t] = 0
    /\ \A n \in Nodes : t \notin admitted[n]
    /\ tokens' = [tokens EXCEPT ![primary][t] = "fresh"]
    /\ UNCHANGED <<primary, registry, admitted, joins, spent>>

(* Mutant: the statement does not ask whether it is used. *)
ConsumableAgain(t) == tokens[primary][t] # Absent /\ t \notin expired

(* used_at IS NULL AND expires_at > now() *)
Consumable(t) == tokens[primary][t] = "fresh" /\ t \notin expired

(* The statement of ConsumeJoinToken commits. *)
Consume(t) ==
    /\ Consumable(t)
    /\ tokens' = [tokens EXCEPT ![primary][t] = "used"]
    /\ UNCHANGED <<primary, registry, joins>>

(* GET /join/{token}: the token is used, and the handler goes on.  An       *)
(* unknown, used or expired one is a 410 and changes nothing.  (Of two      *)
(* handlers of one node with one token only one goes on here: that takes a *)
(* use that failovers lost.)                                               *)
Admit(t) ==
    /\ Consume(t)
    /\ admitted' = [admitted EXCEPT ![primary] = @ \cup {t}]
    /\ UNCHANGED spent

(* It is used, but the handler does not learn it: 503, and no bundle. *)
AdmitUnnoticed(t) ==
    /\ Consume(t)
    /\ Spend("faults", MaxFaults)
    /\ UNCHANGED admitted

(* n's handler writes the bundle, which may be lost on its way. *)
SendBundle(n, t) ==
    /\ t \in admitted[n]
    /\ bundles[t] < MaxJoins
    /\ admitted' = [admitted EXCEPT ![n] = @ \ {t}]
    /\ bundles' = [bundles EXCEPT ![t] = @ + 1]
    /\ UNCHANGED <<primary, registry, tokens, expired, forgotten, spent>>

(* An hour has passed since it was made. *)
Expire(t) ==
    /\ \E m \in Nodes : tokens[m][t] # Absent
    /\ t \notin expired
    /\ expired' = expired \cup {t}
    /\ UNCHANGED <<primary, registry, tokens, admitted, bundles, forgotten, spent>>

-----------------------------------------------------------------------------
(* PostgreSQL and Patroni *)

(* A standby has everything the primary has at this moment. *)
Replicate(n) ==
    /\ n # primary
    /\ nodes' = [nodes EXCEPT ![n] = nodes[primary]]
    /\ tokens' = [tokens EXCEPT ![n] = tokens[primary]]
    /\ UNCHANGED <<MasterURL, primary, beat, late, admitted, joins, spent>>

(* n is promoted with what it has. *)
Failover(n) ==
    /\ n # primary
    /\ Spend("failovers", MaxFailovers)
    /\ primary' = n
    /\ forgotten' = forgotten \cup {t \in JoinTokens : tokens[primary][t] = "used" /\ tokens[n][t] # "used"}
    /\ UNCHANGED <<registry, tokens, admitted, expired, bundles>>

-----------------------------------------------------------------------------
Report(n) == Detect(n) \/ ReportSelf(n) \/ Receive(n)

Next ==
    \/ \E n \in Nodes : \/ Report(n) \/ LosePost(n) \/ Restart(n) \/ ReceiveLate(n)
                        \/ Replicate(n) \/ Failover(n)
    \/ \E t \in JoinTokens : \/ CreateJoinToken(t) \/ Admit(t) \/ AdmitUnnoticed(t) \/ Expire(t)
                             \/ \E n \in Nodes : SendBundle(n, t)

Spec == Init /\ [][Next]_vars

(* The loop of every node sends heartbeats again and again; nothing makes a *)
(* standby catch up or a late heartbeat arrive.                            *)
Fairness == \A n \in Nodes : WF_vars(Report(n))

FairSpec == Spec /\ Fairness

-----------------------------------------------------------------------------
(* Properties. *)

(* Types; only a node that has somewhere to send a heartbeat has one under  *)
(* way.                                                                    *)
TypeOK ==
    /\ MasterURL \in [Nodes -> Nodes \cup {NoURL}] /\ primary \in Nodes
    /\ nodes \in [Nodes -> [Nodes -> {Absent, "master", "replica"}]]
    /\ tokens \in [Nodes -> [JoinTokens -> {Absent, "fresh", "used"}]]
    /\ beat \in [Nodes -> {"idle", "self", "posted"}]
    /\ late \subseteq Nodes /\ expired \subseteq JoinTokens /\ forgotten \subseteq JoinTokens
    /\ admitted \in [Nodes -> SUBSET JoinTokens]
    /\ bundles \in [JoinTokens -> 0 .. MaxJoins]
    /\ spent \in [failovers : 0 .. MaxFailovers, faults : 0 .. MaxFaults]
    /\ \A n \in Nodes : beat[n] = "posted" \/ n \in late => MasterURL[n] # NoURL

(* A join token lets one node in, whatever asks with it and wherever: only *)
(* a failover that loses the row that says so gives a second bundle.       *)
OneBundle == \A t \in JoinTokens : bundles[t] > 1 => t \in forgotten

(* The registry of the primary has n's role, and no heartbeat of n that is  *)
(* under way, one that nobody waits for included, says otherwise.          *)
Settled(n) ==
    /\ nodes[primary][n] = RoleOf(n)
    /\ beat[n] = "self" => n = primary
    /\ beat[n] = "posted" \/ n \in late => n # primary

(* Once that is so, only a failover can make the registry wrong about n:   *)
(* not a heartbeat of whatever age, nor a restart.                         *)
SettledUntilFailover ==
    [][\A n \in Nodes : Settled(n) /\ ~Settled(n)' => \E m \in Nodes : Failover(m)]_vars

(* What a node's heartbeat can reach comes to hold its role: failovers     *)
(* between the role and the row, lost, late and refused heartbeats do not  *)
(* leave an old role in the registry of the primary for ever.              *)
RegistryTruthful ==
    \A n \in Nodes : <>[](n = primary \/ MasterURL[n] = primary => nodes[primary][n] = RoleOf(n))

=============================================================================
