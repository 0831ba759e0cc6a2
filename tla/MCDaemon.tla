------------------------------- MODULE MCDaemon -------------------------------
(* Daemon on small instances: one or two handlers, one caller of POST         *)
(* /api/sync beside the loop.                                                 *)
EXTENDS Daemon

CONSTANTS loop1, post1, h1, h2, free, none

OneHandler == {h1}

TwoHandlers == {h1, h2}

OneCaller == {post1}

=============================================================================
