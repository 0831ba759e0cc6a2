------------------------------ MODULE Reconciler ------------------------------
(***************************************************************************)
(* What synchronisation promises, without passes, lists or revisions: the  *)
(* users of a node change only one at a time, from not agreeing to         *)
(* agreeing with an intent, and an intent is something the database held   *)
(* when it was read.  Only the operator's edits, which are counted, are    *)
(* free.                                                                   *)
(***************************************************************************)
EXTENDS Store

CONSTANT StartTables

VARIABLES
    pg,        \* the users table
    node,      \* the node's users
    intents,   \* <<user, what the database wanted of it>> still in play
    edits      \* how many times an operator has changed the node

vars == <<pg, node, intents, edits>>

Init ==
    /\ \E start \in StartTables : pg = start[1] /\ node = start[2]
    /\ intents = {}
    /\ edits = 0

Settled(u, want, r) ==
    IF want = Absent THEN u \in Managed /\ r = Absent ELSE Agrees(want, r)

Write ==
    /\ \E u \in Users, r \in Row \cup {Absent} : pg' = [pg EXCEPT ![u] = r]
    /\ UNCHANGED <<node, intents, edits>>

Read ==
    /\ intents' = intents \cup {<<u, ListDesired(pg)[u]>> : u \in Users}
    /\ UNCHANGED <<pg, node, edits>>

Forget ==
    /\ intents' \subseteq intents
    /\ UNCHANGED <<pg, node, edits>>

Reconcile ==
    /\ \E i \in intents :
          /\ ~Settled(i[1], i[2], node[i[1]])
          /\ Settled(i[1], i[2], node'[i[1]])
          /\ \A u \in Users \ {i[1]} : node'[u] = node[u]
    /\ node' \in RemoteTable
    /\ intents' \subseteq intents
    /\ UNCHANGED <<pg, edits>>

Edit ==
    /\ edits' = edits + 1
    /\ node' \in RemoteTable
    /\ UNCHANGED <<pg, intents>>

Next == Write \/ Read \/ Forget \/ Reconcile \/ Edit

Spec == Init /\ [][Next]_vars

=============================================================================
