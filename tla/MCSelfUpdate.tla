----------------------------- MODULE MCSelfUpdate -----------------------------
(* SelfUpdate on small instances. *)
EXTENDS SelfUpdate

CONSTANTS u1, u2, v2, v3

TwoUpdaters == {u1, u2}

TwoBuilds == {v2, v3}

=============================================================================
