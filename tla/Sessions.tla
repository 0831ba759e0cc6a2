------------------------------- MODULE Sessions -------------------------------
(***************************************************************************)
(* The panel's sessions (internal/server/auth.go): a map of tokens that    *)
(* expire, kept by the daemon's process and lost with it.  A request names *)
(* the token of the cookie it was sent with.                               *)
(***************************************************************************)
EXTENDS Naturals

CONSTANTS
    Tokens,      \* what newToken may return: 32 random bytes, never twice
    OldCookie,   \* the token of an earlier login
    NoCookie,    \* the browser has no cookie of the panel
    Modes        \* which values of enabled are considered

ASSUME CookiesAssumption == NoCookie \notin Tokens /\ OldCookie \in Tokens /\ Modes \subseteq BOOLEAN

VARIABLES
    enabled,     \* a password is configured
    sessions     \* what became of each token

auth == <<enabled, sessions>>

Cookies == Tokens \cup {NoCookie}

(* An expired token is in the map until it comes back; a gone one is not.  *)
Lives == {"unused", "live", "expired", "gone"}

Valid(c) == c \in Tokens /\ sessions[c] = "live"

(* Mutant: a session is extended whenever it is used. *)
LookedUpSliding(c) ==
    [t \in Tokens |-> IF t = c /\ sessions[t] = "expired" THEN "live" ELSE sessions[t]]

(* The map after valid(r) looked the cookie up. *)
LookedUp(c) ==
    [t \in Tokens |-> IF t = c /\ sessions[t] = "expired" THEN "gone" ELSE sessions[t]]

(* wrap lets a request for a protected path through. *)
Passes(c) == ~enabled \/ Valid(c)

(* valid is not called when there is no password. *)
Check(c) == sessions' = IF enabled THEN LookedUp(c) ELSE sessions

LogIn(t) ==
    /\ enabled
    /\ sessions[t] = "unused"
    /\ sessions' = [sessions EXCEPT ![t] = "live"]

(* Mutant: logging out only takes the cookie away. *)
LogOutCookieOnly(c) == sessions' = sessions

LogOut(c) ==
    sessions' = [t \in Tokens |-> IF t = c /\ sessions[t] # "unused" THEN "gone" ELSE sessions[t]]

(* 24 hours after the login. *)
Expire(t) ==
    /\ sessions[t] = "live"
    /\ sessions' = [sessions EXCEPT ![t] = "expired"]

(* The process starts again with an empty map. *)
Forget == sessions' = [t \in Tokens |-> IF sessions[t] = "unused" THEN "unused" ELSE "gone"]

(* A browser comes with the cookie of an earlier login, or with none.  (A   *)
(* cookie the map does not know is met after a restart.)                   *)
SessionsInit(c) ==
    /\ enabled \in Modes
    /\ c \in IF enabled THEN {OldCookie, NoCookie} ELSE {NoCookie}
    /\ \E l \in IF c = NoCookie THEN {"gone"} ELSE {"live", "expired"} :
          sessions = [t \in Tokens |-> IF t = OldCookie THEN l ELSE "unused"]

=============================================================================
