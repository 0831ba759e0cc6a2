----------------------------- MODULE MCSyncNode -------------------------------
(* Small instances of SyncNode for TLC. *)
EXTENDS SyncNode

CONSTANTS a, b, x,            \* two managed users and a foreign one
          stamp,              \* an expiration in the database
          z, off,             \* its spellings in UTC and with an offset
          bad,                \* a spelling that does not parse
          moment,             \* the moment both denote
          limit,              \* a connection limit
          daemon, cli

MCUsers == {a, b, x}
MCManaged == {a, b}
MCExps == {z}
MCInstant == [e \in {z} |-> moment]
MCStored == [e \in {z} |-> z]
MCRfc3339 == [s \in {stamp} |-> z]

row == [exp |-> stamp, conns |-> None, enabled |-> TRUE]
entry == [exp |-> z, conns |-> None, enabled |-> TRUE]

OnlyRow(us) == [u \in MCUsers |-> IF u \in us THEN row ELSE Absent]
OnlyEntry(us) == [u \in MCUsers |-> IF u \in us THEN entry ELSE Absent]

(* In sync with a foreign user beside; a full replacement; a wipe.         *)
MCStart == {<<OnlyRow({a, x}), OnlyEntry({a, x})>>,
            <<OnlyRow({a}), OnlyEntry({b})>>,
            <<OnlyRow({}), OnlyEntry({a, b, x})>>}

MCReplace == {<<OnlyRow({a}), OnlyEntry({b})>>}

MCSynced == {<<OnlyRow({a, x}), OnlyEntry({a, x})>>}

-----------------------------------------------------------------------------
(* Every database and every node over one managed and one foreign user, a  *)
(* date that telemt respells and one it cannot parse.                      *)
MCTwoUsers == {a, x}
MCOneManaged == {a}
MCSpellings == {z, off, bad}
MCMoments == [e \in MCSpellings |-> IF e = bad THEN Unparsable ELSE moment]
MCRespelled == [e \in MCSpellings |-> IF e = z THEN off ELSE e]

MCRows == [exp : {stamp, None}, conns : {limit, None}, enabled : BOOLEAN]
MCEntries == [exp : {z, off, bad, None}, conns : {limit, None}, enabled : BOOLEAN]

MCEveryStart == [{a, x} -> MCRows \cup {Absent}] \X [{a, x} -> MCEntries \cup {Absent}]

=============================================================================
