------------------------------- MODULE MCPanel --------------------------------
(* Panel on small instances: one tab, the token of an earlier login and one  *)
(* for the next login.                                                       *)
EXTENDS Panel

CONSTANTS tab1, tok1, tok2, noCookie, noData, pending, unauthorized, failed, ok

OneTab == {tab1}

TwoTokens == {tok1, tok2}

BothModes == BOOLEAN

AllThings == {"role", "users", "sync", "nodes"}

NoSync == {"role", "users", "nodes"}

OpenMode == {FALSE}

=============================================================================
