----------------------------- MODULE Installation -----------------------------
(***************************************************************************)
(* What `telemux update` promises whoever starts the program and falls     *)
(* back on the backup when nothing is in place, without updaters, files or *)
(* renames: at every moment there is a current build.  It is replaced in   *)
(* one step, by a build whose sums an update has read, or by its           *)
(* predecessor; and by that only after something went wrong.               *)
(***************************************************************************)
EXTENDS Naturals

CONSTANTS Old, Builds, Missing

VARIABLES
    current,   \* what a start finds, in place or in the backup
    backup,    \* what it would find besides, or Missing
    latest,    \* the build the release server serves
    asked,     \* the builds of updates under way
    mishaps    \* faults and rollbacks so far

vars == <<current, backup, latest, asked, mishaps>>

Init ==
    /\ current = Old /\ backup = Missing
    /\ latest = Old /\ asked = {} /\ mishaps = 0

Publish ==
    /\ latest' \in Builds
    /\ UNCHANGED <<current, backup, asked, mishaps>>

Ask ==
    /\ asked' = asked \cup {latest}
    /\ UNCHANGED <<current, backup, latest, mishaps>>

(* An update ends, or somebody's fault shows. *)
Forget ==
    /\ asked' \subseteq asked
    /\ mishaps' \in {mishaps, mishaps + 1}
    /\ UNCHANGED <<current, backup, latest>>

(* The predecessor's predecessor is dropped. *)
Discard ==
    /\ backup' = Missing
    /\ UNCHANGED <<current, latest, asked, mishaps>>

Install ==
    /\ current' \in asked
    /\ backup' \in {backup, current}
    /\ asked' \subseteq asked
    /\ UNCHANGED <<latest, mishaps>>

Return ==
    /\ backup # Missing
    /\ current' = backup /\ backup' = Missing
    /\ mishaps' \in {mishaps, mishaps + 1} /\ mishaps' > 0
    /\ UNCHANGED <<latest, asked>>

Next == Publish \/ Ask \/ Forget \/ Discard \/ Install \/ Return

Spec == Init /\ [][Next]_vars

=============================================================================
