-------------------------------- MODULE Panel ---------------------------------
(***************************************************************************)
(* The panel in the browser (internal/server/web/src): App shows Login or  *)
(* Dashboard; a dashboard reads the daemon when it is mounted, every 15 s, *)
(* on demand and after each command; fetches overlap and are answered in   *)
(* any order, and nothing cancels one whose component is gone.             *)
(*                                                                         *)
(* What the daemon has to show is a few numbers: how often its role, its   *)
(* users, its last pass and its registry of nodes changed.  A fetch is     *)
(* served (the daemon checks its cookie and reads or commits) some time    *)
(* after it was sent and answered some time after that.                    *)
(***************************************************************************)
EXTENDS Sessions

CONSTANTS
    Things,        \* what is looked at of role, users, sync and nodes
    Tabs,          \* tabs of one browser: they share its cookies
    MaxCalls,      \* bound: async functions under way
    MaxChanges,    \* bound: changes the panel does not make
    MaxClicks,     \* bound: logins, logouts and commands
    MaxFaults,     \* bound: failed fetches and restarts of the daemon
    NoData,        \* null, or not asked for
    Pending, Unauthorized, Failed, Ok

ASSUME ThingsAssumption ==
    {"role", "users", "nodes"} \subseteq Things /\ Things \subseteq {"role", "users", "sync", "nodes"}

ASSUME AnswersAssumption ==
    /\ \A v \in {NoData, Pending, Unauthorized, Failed, Ok} : v \notin Nat /\ v \notin Tokens
    /\ \A t \in Tokens : t \notin Nat
    /\ NoData \notin {Pending, Unauthorized, Failed, Ok}
    /\ Pending \notin {Unauthorized, Failed, Ok}
    /\ Unauthorized \notin {Failed, Ok}
    /\ Failed # Ok

ASSUME BoundsAssumption == {MaxCalls, MaxChanges, MaxClicks, MaxFaults} \subseteq Nat

VARIABLES
    truth,         \* the versions in the daemon
    jar,           \* the browser's cookie
    page,          \* each tab's screen and what it shows
    calls,         \* async functions under way
    spent          \* used of the bounds

vars == <<auth, truth, jar, page, calls, spent>>

(* The total and the page of users are two statements over one table. *)
Cells == Things \cup {"total"}

Source(c) == IF c = "total" THEN "users" ELSE c

IsMaster(v) == v # NoData /\ v % 2 = 0

Slots == 1 .. MaxCalls

Parts == Cells \cup {"reply"}

(* api: the requests an async function waits for.  /api/version has nothing *)
(* to change: it fails as the others do.                                    *)
Asked(kind) ==
    CASE kind = "refresh" -> Cells \ {"nodes"}
      [] kind = "nodes" -> {"nodes"}
      [] kind = "idle" -> {}
      [] OTHER -> {"reply"}

Zero == [th \in Things |-> 0]

CallOf(kind, tab, mounted, cookie, wrote) ==
    [kind |-> kind, tab |-> tab, mounted |-> mounted, cookie |-> cookie, wrote |-> wrote,
     got |-> [p \in Parts |-> IF p \in Asked(kind) THEN Pending ELSE NoData]]

Call(kind, tab) == CallOf(kind, tab, TRUE, jar, Zero)

Idle == CallOf("idle", NoData, FALSE, NoCookie, Zero)

Nothing == [c \in Cells |-> NoData]

(* since: the versions when the dashboard was mounted, for NoCarryOver. *)
PageOf(screen, since) ==
    [screen |-> screen, shown |-> Nothing, note |-> "", since |-> since]

Dashboard == PageOf("dash", truth)

Login == PageOf("login", Zero)

Spend(what, max) == spent[what] < max /\ spent' = [spent EXCEPT ![what] = @ + 1]

(* Calls take the first free slot. *)
Free(s) == calls[s].kind = "idle" /\ \A r \in 1 .. s - 1 : calls[r].kind # "idle"

(* Mutant: what an unmounted dashboard has under way still sets state. *)
UnmountedNothing(t) == calls

(* The components of a tab are replaced: their setters do nothing any more. *)
Unmounted(t) ==
    [s \in Slots |-> IF calls[s].tab = t THEN [calls[s] EXCEPT !.mounted = FALSE] ELSE calls[s]]

Init ==
    /\ jar \in {OldCookie, NoCookie}
    /\ SessionsInit(jar)
    /\ truth = Zero
    /\ page = [t \in Tabs |-> PageOf("closed", Zero)]
    /\ calls = [s \in Slots |-> Idle]
    /\ spent = [changes |-> 0, clicks |-> 0, faults |-> 0]

-----------------------------------------------------------------------------
(* App *)

(* The page is loaded: main.tsx mounts App, whose effect asks /api/me. *)
Open(t, s) ==
    /\ page[t].screen = "closed" /\ Free(s)
    /\ page' = [page EXCEPT ![t] = PageOf("blank", Zero)]
    /\ calls' = [calls EXCEPT ![s] = Call("me", t)]
    /\ UNCHANGED <<auth, truth, jar, spent>>

(* setNeedLogin(false): a dashboard is mounted, and its effect refreshes. *)
ShowDashboard(s) ==
    LET t == calls[s].tab IN
    IF page[t].screen = "dash"
    THEN /\ page' = page
         /\ calls' = [calls EXCEPT ![s] = Idle]
    ELSE /\ page' = [page EXCEPT ![t] = Dashboard]
         /\ calls' = [Unmounted(t) EXCEPT ![s] = CallOf("refresh", t, TRUE, jar', Zero)]

(* Mutant: the dashboard's state outlives it. *)
ShowLoginOver(s) ==
    /\ page' = [page EXCEPT ![calls[s].tab].screen = "login"]
    /\ calls' = [Unmounted(calls[s].tab) EXCEPT ![s] = Idle]

(* setNeedLogin(true): App's own setter, whichever dashboard calls it. *)
ShowLogin(s) ==
    LET t == calls[s].tab IN
    IF page[t].screen = "login"
    THEN /\ page' = page
         /\ calls' = [calls EXCEPT ![s] = Idle]
    ELSE /\ page' = [page EXCEPT ![t] = Login]
         /\ calls' = [Unmounted(t) EXCEPT ![s] = Idle]

(* checkAuth: without an answer the dashboard is tried. *)
MeAnswered(s) ==
    /\ calls[s].kind = "me" /\ calls[s].got["reply"] # Pending
    /\ jar' = jar
    /\ IF calls[s].got["reply"] = Unauthorized THEN ShowLogin(s) ELSE ShowDashboard(s)
    /\ UNCHANGED <<auth, truth, spent>>

-----------------------------------------------------------------------------
(* Login, and the button of the dashboard that ends the session *)

(* setStatus and setErr, unless the component is gone. *)
Note(s, text) ==
    IF calls[s].mounted THEN [page EXCEPT ![calls[s].tab].note = text] ELSE page

(* submit, with whatever is typed. *)
SubmitLogin(t, s) ==
    /\ page[t].screen = "login" /\ Free(s)
    /\ Spend("clicks", MaxClicks)
    /\ calls' = [calls EXCEPT ![s] = Call("login", t)]
    /\ UNCHANGED <<auth, truth, jar, page>>

(* The answer's Set-Cookie comes before onOk. *)
LoginAnswered(s) ==
    /\ calls[s].kind = "login" /\ calls[s].got["reply"] # Pending
    /\ IF calls[s].got["reply"] \in Tokens
       THEN jar' = calls[s].got["reply"] /\ ShowDashboard(s)
       ELSE /\ jar' = jar
            /\ page' = Note(s, "error")
            /\ calls' = [calls EXCEPT ![s] = Idle]
    /\ UNCHANGED <<auth, truth, spent>>

ClickLogout(t, s) ==
    /\ page[t].screen = "dash" /\ Free(s)
    /\ Spend("clicks", MaxClicks)
    /\ calls' = [calls EXCEPT ![s] = Call("logout", t)]
    /\ UNCHANGED <<auth, truth, jar, page>>

(* finally: the login is shown whatever the answer; only a 200 clears the  *)
(* cookie, and it clears whichever the browser then has.                   *)
LogoutAnswered(s) ==
    /\ calls[s].kind = "logout" /\ calls[s].got["reply"] # Pending
    /\ jar' = IF calls[s].got["reply"] = Ok THEN NoCookie ELSE jar
    /\ ShowLogin(s)
    /\ UNCHANGED <<auth, truth, spent>>

-----------------------------------------------------------------------------
(* Dashboard *)

(* Mutant: the timer stops at the first error. *)
RefreshWhileFine(t, s) ==
    /\ page[t].screen = "dash" /\ page[t].note # "error" /\ Free(s)
    /\ calls' = [calls EXCEPT ![s] = Call("refresh", t)]
    /\ UNCHANGED <<auth, truth, jar, page, spent>>

(* The timer, or the button that refreshes. *)
Refresh(t, s) ==
    /\ page[t].screen = "dash" /\ Free(s)
    /\ calls' = [calls EXCEPT ![s] = Call("refresh", t)]
    /\ UNCHANGED <<auth, truth, jar, page, spent>>

(* The second half of refresh, whatever component it belongs to. *)
AskNodes(s) ==
    calls' = [calls EXCEPT ![s] = CallOf("nodes", @.tab, @.mounted, jar, Zero)]

(* Promise.all resolved. *)
Apply(s) ==
    LET call == calls[s] IN
    /\ call.kind = "refresh" /\ \A p \in Asked("refresh") : call.got[p] \in Nat
    /\ page' = IF call.mounted
               THEN [page EXCEPT ![call.tab].note = "",
                                 ![call.tab].shown = [c \in Cells |-> IF c = "nodes" THEN @[c]
                                                                      ELSE call.got[c]]]
               ELSE page
    /\ AskNodes(s)
    /\ UNCHANGED <<auth, truth, jar, spent>>

Errors == {Failed, Unauthorized}

(* Mutant: an answer 401 is shown as any other error. *)
RejectUnnoticed(s) ==
    /\ calls[s].kind = "refresh" /\ calls[s].got["role"] \in Errors
    /\ page' = Note(s, "error")
    /\ AskNodes(s)
    /\ UNCHANGED <<auth, truth, jar, spent>>

(* Promise.all rejected with the first error to arrive. *)
Reject(s) ==
    /\ calls[s].kind = "refresh"
    /\ \/ calls[s].got["role"] = Unauthorized /\ ShowLogin(s)
       \/ calls[s].got["role"] = Failed /\ page' = Note(s, "error") /\ AskNodes(s)
    /\ UNCHANGED <<auth, truth, jar, spent>>

(* An error of any kind only takes the card of nodes away. *)
NodesAnswered(s) ==
    LET v == calls[s].got["nodes"] IN
    /\ calls[s].kind = "nodes" /\ v # Pending
    /\ page' = IF calls[s].mounted
               THEN [page EXCEPT ![calls[s].tab].shown["nodes"] = IF v \in Nat THEN v ELSE NoData]
               ELSE page
    /\ calls' = [calls EXCEPT ![s] = Idle]
    /\ UNCHANGED <<auth, truth, jar, spent>>

Commands == {"write"} \cup (IF "sync" \in Things THEN {"syncNow"} ELSE {})

(* The buttons of the page: those that change users (create, enable or      *)
(* disable, delete) are there for a master, as far as the tab knows.        *)
Offered(t) == {kind \in Commands : kind = "write" => IsMaster(page[t].shown["role"])}

(* act, up to its await. *)
ClickAct(t, s, kind) ==
    /\ page[t].screen = "dash" /\ Free(s)
    /\ kind \in Offered(t)
    /\ Spend("clicks", MaxClicks)
    /\ page' = [page EXCEPT ![t].note = "busy"]
    /\ calls' = [calls EXCEPT ![s] = Call(kind, t)]
    /\ UNCHANGED <<auth, truth, jar>>

(* Mutant: it shares a refresh that is under way already. *)
ActRefreshedShared(s, wrote) ==
    LET tab == calls[s].tab
        shared == {r \in Slots \ {s} : calls[r].kind = "refresh" /\ calls[r].tab = tab}
        own == CallOf("refresh", tab, calls[s].mounted, jar, wrote) IN
    IF shared = {} THEN own ELSE [own EXCEPT !.got = calls[CHOOSE r \in shared : TRUE].got]

ActRefreshed(s, wrote) ==
    CallOf("refresh", calls[s].tab, calls[s].mounted, jar, wrote)

(* POST /api/sync leaves a new status, whatever its pass did. *)
Written(kind) == IF kind = "write" THEN "users" ELSE "sync"

(* Mutant: what fn() throws is not caught. *)
ActUncaught(s) ==
    LET call == calls[s]
        v == call.got["reply"] IN
    /\ call.kind \in Commands /\ v # Pending
    /\ IF v \in Nat
       THEN /\ page' = Note(s, "done")
            /\ calls' = [calls EXCEPT ![s] = ActRefreshed(s, [Zero EXCEPT ![Written(call.kind)] = v])]
       ELSE /\ page' = page
            /\ calls' = [calls EXCEPT ![s] = Idle]
    /\ UNCHANGED <<auth, truth, jar, spent>>

(* fn() returned: then, and only then, refresh; or it threw. *)
ActAnswered(s) ==
    LET call == calls[s]
        v == call.got["reply"] IN
    /\ call.kind \in Commands /\ v # Pending
    /\ IF v \in Nat
       THEN /\ page' = Note(s, "done")
            /\ calls' = [calls EXCEPT ![s] = ActRefreshed(s, [Zero EXCEPT ![Written(call.kind)] = v])]
       ELSE /\ page' = Note(s, "error")
            /\ calls' = [calls EXCEPT ![s] = Idle]
    /\ UNCHANGED <<auth, truth, jar, spent>>

-----------------------------------------------------------------------------
(* The daemon *)

(* An error is the answer to everything a refresh asked: what else it gets *)
(* changes nothing any more.                                               *)
Answer(s, p, v) ==
    /\ calls[s].got[p] = Pending
    /\ calls' = [calls EXCEPT ![s].got =
                     [q \in Parts |-> IF q = p \/ (@[q] # NoData /\ v \in Errors) THEN v ELSE @[q]]]

(* Mutant: the page is selected before the rows are counted. *)
ServeReadPageFirst(s, p) ==
    /\ p \in Cells
    /\ IF p = "total"
       THEN calls[s].got["users"] \in Nat /\ sessions' = sessions /\ Answer(s, p, truth["users"])
       ELSE /\ Check(calls[s].cookie)
            /\ Answer(s, p, IF Passes(calls[s].cookie) THEN truth[p] ELSE Unauthorized)
    /\ UNCHANGED <<enabled, truth, jar, page, spent>>

(* GET: the middleware, then the handler's statement or status. *)
ServeRead(s, p) ==
    /\ p \in Cells
    /\ IF p = "users"
       THEN calls[s].got["total"] \in Nat /\ sessions' = sessions /\ Answer(s, p, truth["users"])
       ELSE /\ Check(calls[s].cookie)
            /\ Answer(s, p, IF Passes(calls[s].cookie) THEN truth[Source(p)] ELSE Unauthorized)
    /\ UNCHANGED <<enabled, truth, jar, page, spent>>

(* GET /api/me *)
ServeMe(s) ==
    /\ calls[s].kind = "me"
    /\ Check(calls[s].cookie)
    /\ Answer(s, "reply", IF Passes(calls[s].cookie) THEN Ok ELSE Unauthorized)
    /\ UNCHANGED <<enabled, truth, jar, page, spent>>

(* POST /api/login, with the right name and password. *)
ServeLogin(s) ==
    /\ calls[s].kind = "login"
    /\ \E t \in Tokens : LogIn(t) /\ Answer(s, "reply", t)
    /\ UNCHANGED <<enabled, truth, jar, page, spent>>

(* With wrong ones, or with any when there is no password. *)
RefuseLogin(s) ==
    /\ calls[s].kind = "login"
    /\ Answer(s, "reply", Unauthorized)
    /\ UNCHANGED <<auth, truth, jar, page, spent>>

(* POST /api/logout is behind the middleware too. *)
ServeLogout(s) ==
    /\ calls[s].kind = "logout"
    /\ IF Passes(calls[s].cookie)
       THEN LogOut(calls[s].cookie) /\ Answer(s, "reply", Ok)
       ELSE Check(calls[s].cookie) /\ Answer(s, "reply", Unauthorized)
    /\ UNCHANGED <<enabled, truth, jar, page, spent>>

(* A command that goes through: POST /api/sync answers 200 whatever the    *)
(* pass did, a write needs the local database to be the primary.           *)
ServeCommand(s) ==
    LET kind == calls[s].kind IN
    /\ kind \in Commands
    /\ Passes(calls[s].cookie)
    /\ kind = "write" => IsMaster(truth["role"])
    /\ truth' = [truth EXCEPT ![Written(kind)] = @ + 1]
    /\ Answer(s, "reply", truth'[Written(kind)])
    /\ UNCHANGED <<auth, jar, page, spent>>

(* 401, or an error: a replica, a name that is taken or missing. *)
RefuseCommand(s) ==
    /\ calls[s].kind \in Commands
    /\ calls[s].kind = "syncNow" => ~Passes(calls[s].cookie)
    /\ Check(calls[s].cookie)
    /\ Answer(s, "reply", IF Passes(calls[s].cookie) THEN Failed ELSE Unauthorized)
    /\ UNCHANGED <<enabled, truth, jar, page, spent>>

(* A fetch fails before the daemon has done anything, or it is a 503. *)
Lose(s, p) ==
    /\ Spend("faults", MaxFaults)
    /\ Answer(s, p, Failed)
    /\ UNCHANGED <<auth, truth, jar, page>>

(* What the daemon did is done and only the answer is lost. *)
LoseAnswer(s) ==
    /\ Spend("faults", MaxFaults)
    /\ calls[s].got["reply"] \notin {NoData, Pending, Failed}
    /\ calls' = [calls EXCEPT ![s].got["reply"] = Failed]
    /\ UNCHANGED <<auth, truth, jar, page>>

(* The daemon starts again: no sessions, no last pass, no connection. *)
Restart ==
    /\ Spend("faults", MaxFaults)
    /\ Forget
    /\ truth' = [th \in Things |-> IF th = "sync" THEN truth[th] + 1 ELSE truth[th]]
    /\ calls' = [s \in Slots |->
                   IF \E p \in Parts : calls[s].got[p] = Pending
                   THEN [calls[s] EXCEPT !.got =
                            [p \in Parts |-> IF @[p] = NoData THEN NoData ELSE Failed]]
                   ELSE calls[s]]
    /\ UNCHANGED <<enabled, jar, page>>

(* Others' writes, failovers, passes of the loop, heartbeats; counted from  *)
(* the first screen shown on.                                              *)
Change(th) ==
    /\ \E t \in Tabs : page[t].screen \in {"login", "dash"}
    /\ Spend("changes", MaxChanges)
    /\ truth' = [truth EXCEPT ![th] = @ + 1]
    /\ UNCHANGED <<auth, jar, page, calls>>

SessionEnds ==
    /\ \E t \in Tokens : Expire(t)
    /\ UNCHANGED <<enabled, truth, jar, page, calls, spent>>

-----------------------------------------------------------------------------
Click(t) ==
    \E s \in Slots :
        \/ Open(t, s) \/ SubmitLogin(t, s) \/ ClickLogout(t, s) \/ Refresh(t, s)
        \/ \E kind \in Commands : ClickAct(t, s, kind)

Serve(s) ==
    \/ \E p \in Cells : ServeRead(s, p)
    \/ ServeMe(s) \/ ServeLogin(s) \/ RefuseLogin(s) \/ ServeLogout(s)
    \/ ServeCommand(s) \/ RefuseCommand(s)

Settle(s) ==
    \/ MeAnswered(s) \/ LoginAnswered(s) \/ LogoutAnswered(s)
    \/ Apply(s) \/ Reject(s) \/ NodesAnswered(s) \/ ActAnswered(s)

World ==
    \/ \E s \in Slots : LoseAnswer(s) \/ \E p \in Parts : Lose(s, p)
    \/ Restart \/ SessionEnds
    \/ \E th \in Things : Change(th)

Next ==
    \/ \E t \in Tabs : Click(t)
    \/ \E s \in Slots : Serve(s) \/ Settle(s)
    \/ World

Spec == Init /\ [][Next]_vars

(* The daemon serves what reaches it and the browser runs what was answered *)
(* (a call waits for one or the other); the timer of a dashboard goes on,   *)
(* whatever else takes the slots of the model.                              *)
Fairness ==
    /\ \A s \in Slots : WF_vars(Serve(s) \/ Settle(s))
    /\ \A t \in Tabs : WF_vars(\E s \in Slots : Refresh(t, s))

FairSpec == Spec /\ Fairness

-----------------------------------------------------------------------------
(* Properties. *)

Answers == Nat \cup Tokens \cup {NoData, Pending, Unauthorized, Failed, Ok}

Kinds == {"idle", "me", "login", "logout", "refresh", "nodes"} \cup Commands

Calls ==
    [kind : Kinds, tab : Tabs \cup {NoData}, mounted : BOOLEAN, cookie : Cookies,
     wrote : [Things -> Nat], got : [Parts -> Answers]]

Pages ==
    [screen : {"closed", "blank", "login", "dash"}, shown : [Cells -> Nat \cup {NoData}],
     note : {"", "busy", "done", "error"}, since : [Things -> Nat]]

(* Types; every call under way belongs to a tab, and only a dashboard shows *)
(* anything.                                                                *)
TypeOK ==
    /\ enabled \in Modes /\ sessions \in [Tokens -> Lives]
    /\ truth \in [Things -> Nat] /\ jar \in Cookies
    /\ page \in [Tabs -> Pages] /\ calls \in [Slots -> Calls]
    /\ spent \in [changes : 0 .. MaxChanges, clicks : 0 .. MaxClicks, faults : 0 .. MaxFaults]
    /\ \A s \in Slots : calls[s].kind # "idle" => calls[s].tab \in Tabs
    /\ \A t \in Tabs : page[t].screen # "dash" => page[t].shown = Nothing

(* A session that was logged out, forgotten or has expired never opens the *)
(* panel again.                                                            *)
DeadStaysDead ==
    [][\A t \in Tokens : sessions[t] \in {"expired", "gone"} => sessions'[t] # "live"]_vars

(* A logout that was answered did end its session: a request with the same *)
(* cookie, from another tab or sent before, does not get through.          *)
LogoutRevokes ==
    \A s \in Slots :
        calls[s].kind = "logout" /\ calls[s].got["reply"] = Ok => ~Valid(calls[s].cookie)

(* However refreshes overlap, the list shown is not older than the count   *)
(* above it.                                                               *)
PageFollowsTotal ==
    \A t \in Tabs :
        LET shown == page[t].shown IN
        shown["total"] # NoData => shown["users"] # NoData /\ shown["users"] >= shown["total"]

(* A dashboard shows nothing that was read before it was mounted: what an  *)
(* earlier one of the tab still had under way is not shown to whoever      *)
(* logged in next.                                                         *)
NoCarryOver ==
    \A t \in Tabs, c \in Cells :
        page[t].shown[c] # NoData => page[t].shown[c] >= page[t].since[Source(c)]

(* A command that is shown as under way is: however commands, refreshes and *)
(* logins overlap and whatever fails or is lost, the dots never stay behind *)
(* it, and none of an earlier dashboard stands for one of this.             *)
BusyHasCommand ==
    \A t \in Tabs : page[t].note = "busy" =>
        \E s \in Slots : calls[s].kind \in Commands /\ calls[s].tab = t /\ calls[s].mounted

(* What a command's own refresh shows has the command's effect in it,      *)
(* whatever other refreshes are under way.                                 *)
ReadYourWrites ==
    [][\A s \in Slots :
          Apply(s) /\ calls[s].mounted =>
              \A c \in Cells \ {"nodes"} :
                  page'[calls[s].tab].shown[c] >= calls[s].wrote[Source(c)]]_vars

(* A tab whose session is over goes to the login, unless the browser gets  *)
(* another session.                                                        *)
DeadSessionLeaves ==
    \A t \in Tabs :
        enabled /\ page[t].screen = "dash" /\ ~Valid(jar)
            ~> page[t].screen = "login" \/ Valid(jar)

Current(t) ==
    /\ \A c \in Cells : page[t].shown[c] = truth[Source(c)]
    /\ page[t].note = ""

(* Answers that come in the wrong order, errors and messages of commands   *)
(* do not stay: once nothing changes any more, what a dashboard shows is   *)
(* and remains the truth.                                                  *)
ShowsTheTruth == \A t \in Tabs : <>[](page[t].screen = "dash" => Current(t))

(* The comment's claim: without a password the panel is open.              *)
OpenModeStaysOpen == ~enabled => \A t \in Tabs : page[t].screen # "login"

=============================================================================
