-------------------------------- MODULE Store ---------------------------------
(***************************************************************************)
(* The users table of the local PostgreSQL (internal/store): the rows, the *)
(* statements that change them, and ListDesired, which turns the enabled   *)
(* rows into desired users.                                                *)
(***************************************************************************)
EXTENDS TelemtSync

CONSTANTS
    Stamps,    \* TIMESTAMPTZ values, finer than a second
    Rfc3339    \* stamp |-> its UTC RFC3339 spelling, sub-seconds dropped

ASSUME FormatAssumption == None \notin Stamps /\ Rfc3339 \in [Stamps -> Exps]

Row == [exp : Stamps \cup {None}, conns : Limits \cup {None}, enabled : BOOLEAN]

ASSUME NoRowAssumption == Absent \notin Row

UsersTable == [Users -> Row \cup {Absent}]

(* INSERT; a unique violation becomes ErrUserExists and changes nothing. *)
CreateUser(t, u, exp, conns) ==
    IF t[u] # Absent THEN t
    ELSE [t EXCEPT ![u] = [exp |-> exp, conns |-> conns, enabled |-> TRUE]]

DeleteUser(t, u) == [t EXCEPT ![u] = Absent]

(* Both UPDATEs touch no row when the user does not exist. *)
SetExpiration(t, u, exp) ==
    IF t[u] = Absent THEN t ELSE [t EXCEPT ![u].exp = exp]

SetEnabled(t, u, enabled) ==
    IF t[u] = Absent THEN t ELSE [t EXCEPT ![u].enabled = enabled]

(* SELECT ... WHERE enabled, with the expiration formatted. *)
ListDesired(t) ==
    [u \in Users |->
        IF t[u] = Absent \/ ~t[u].enabled THEN Absent
        ELSE [exp |-> IF t[u].exp = None THEN None ELSE Rfc3339[t[u].exp],
              conns |-> t[u].conns]]

=============================================================================
