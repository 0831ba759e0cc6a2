----------------------------- MODULE PanelProofs ------------------------------
(***************************************************************************)
(* Proofs about the panel, for any tabs, tokens, slots and bounds, with or *)
(* without a last pass among what is looked at.                            *)
(***************************************************************************)
EXTENDS Panel, TLAPS

(* The map has known the token of a cookie some browser has.               *)
Issued(c, se) == c \in Tokens => se[c] # "unused"

AtMost(low, high) == \A th \in Things : low[th] <= high[th]

(* What is read is at most what there is, at least what the call's own     *)
(* command wrote and, as long as its dashboard is there, at least what     *)
(* there was when that was mounted.                                        *)
GotBetween(call, pages, tr) ==
    \A p \in Cells : call.got[p] \in Nat =>
        /\ call.wrote[Source(p)] <= call.got[p] /\ call.got[p] <= tr[Source(p)]
        /\ call.mounted /\ call.tab \in Tabs => pages[call.tab].since[Source(p)] <= call.got[p]

CountedFirst(got) ==
    got["users"] \in Nat => got["total"] \in Nat /\ got["total"] <= got["users"]

OfDashboard == {"refresh", "nodes"} \cup Commands

(* The invariant of one call.                                              *)
Sound(call, pages, tr, se) ==
    /\ call \in Calls /\ (call.kind # "idle" => call.tab \in Tabs)
    /\ Issued(call.cookie, se) /\ Issued(call.got["reply"], se)
    /\ call.kind = "logout" /\ call.got["reply"] = Ok /\ call.cookie \in Tokens =>
           se[call.cookie] # "live"
    /\ AtMost(call.wrote, tr)
    /\ GotBetween(call, pages, tr)
    /\ call.kind \in Commands /\ call.got["reply"] \in Nat =>
           call.got["reply"] <= tr[Written(call.kind)]
    /\ CountedFirst(call.got)
    /\ call.mounted /\ call.kind \in OfDashboard => pages[call.tab].screen = "dash"

(* The invariant of one tab.                                               *)
Shows(pg, tr) ==
    /\ pg \in Pages /\ (pg.screen # "dash" => pg.shown = Nothing)
    /\ AtMost(pg.since, tr)
    /\ pg.shown["total"] # NoData =>
           pg.shown["users"] # NoData /\ pg.shown["total"] <= pg.shown["users"]
    /\ \A c \in Cells : pg.shown[c] # NoData => pg.since[Source(c)] <= pg.shown[c]

WorldOK ==
    /\ enabled \in Modes /\ sessions \in [Tokens -> Lives] /\ truth \in [Things -> Nat]
    /\ jar \in Cookies /\ Issued(jar, sessions)
    /\ spent \in [changes : 0 .. MaxChanges, clicks : 0 .. MaxClicks, faults : 0 .. MaxFaults]

PagesOK == page \in [Tabs -> Pages] /\ \A t \in Tabs : Shows(page[t], truth)

CallsOK ==
    calls \in [Slots -> Calls] /\ \A s \in Slots : Sound(calls[s], page, truth, sessions)

PInv == WorldOK /\ PagesOK /\ CallsOK

-----------------------------------------------------------------------------
(* What a session may become in a step.                                    *)
Ages(se, se2) ==
    \A t \in Tokens : se[t] # "unused" => se2[t] # "unused" /\ (se2[t] = "live" => se[t] = "live")

(* How the tab of a call may change around it.                             *)
Around(call, pages, pages2) ==
    call.mounted /\ call.tab \in Tabs =>
        /\ AtMost(pages2[call.tab].since, pages[call.tab].since)
        /\ pages[call.tab].screen = "dash" => pages2[call.tab].screen = "dash"

(* Where the parts of an answer come from.                                 *)
LEMMA Sources ==
    /\ \A c \in Cells : Source(c) \in Things /\ c \in Parts
    /\ "reply" \in Parts /\ "reply" \notin Cells
    /\ {"role", "users", "nodes"} \subseteq Things /\ {"total", "users", "role", "nodes"} \subseteq Cells
    /\ \A kind \in Commands : Written(kind) \in Things
  BY ThingsAssumption DEF Cells, Source, Parts, Commands, Written

(* Versions are ordered.                                                   *)
LEMMA SameAtMost ==
    ASSUME NEW f \in [Things -> Nat]
    PROVE  AtMost(f, f)
  <1>1. \A th \in Things : f[th] \in Nat OBVIOUS
  <1>2. \A n \in Nat : n <= n OBVIOUS
  <1>3. QED BY <1>1, <1>2 DEF AtMost

LEMMA AtMostOfAtMost ==
    ASSUME NEW f \in [Things -> Nat], NEW g \in [Things -> Nat], NEW h \in [Things -> Nat],
           AtMost(f, g), AtMost(g, h)
    PROVE  AtMost(f, h)
  <1> SUFFICES ASSUME NEW th \in Things PROVE f[th] <= h[th]
    BY DEF AtMost
  <1>1. f[th] <= g[th] /\ g[th] <= h[th] BY DEF AtMost
  <1>2. f[th] \in Nat /\ g[th] \in Nat /\ h[th] \in Nat OBVIOUS
  <1>3. QED BY <1>1, <1>2

(* A call that nothing happens to stays sound while the world moves on.    *)
LEMMA Stays ==
    ASSUME NEW call, NEW pages \in [Tabs -> Pages], NEW pages2 \in [Tabs -> Pages],
           NEW tr \in [Things -> Nat], NEW tr2 \in [Things -> Nat],
           NEW se \in [Tokens -> Lives], NEW se2 \in [Tokens -> Lives],
           Sound(call, pages, tr, se), AtMost(tr, tr2), Ages(se, se2), Around(call, pages, pages2)
    PROVE  Sound(call, pages2, tr2, se2)
  <1>1. /\ call \in Calls /\ (call.kind # "idle" => call.tab \in Tabs)
        /\ call.got \in [Parts -> Answers] /\ call.wrote \in [Things -> Nat]
    BY DEF Sound, Calls
  <1>2. Issued(call.cookie, se2) /\ Issued(call.got["reply"], se2)
    BY DEF Sound, Issued, Ages
  <1>3. call.kind = "logout" /\ call.got["reply"] = Ok /\ call.cookie \in Tokens =>
           se2[call.cookie] # "live"
    BY DEF Sound, Issued, Ages
  <1>4. AtMost(call.wrote, tr2)
    BY <1>1, AtMostOfAtMost DEF Sound
  <1>5. GotBetween(call, pages2, tr2)
    <2> SUFFICES ASSUME NEW p \in Cells, call.got[p] \in Nat
                 PROVE  /\ call.wrote[Source(p)] <= call.got[p] /\ call.got[p] <= tr2[Source(p)]
                        /\ call.mounted /\ call.tab \in Tabs =>
                               pages2[call.tab].since[Source(p)] <= call.got[p]
      BY DEF GotBetween
    <2>1. /\ call.wrote[Source(p)] <= call.got[p] /\ call.got[p] <= tr[Source(p)]
          /\ call.mounted /\ call.tab \in Tabs => pages[call.tab].since[Source(p)] <= call.got[p]
      BY DEF Sound, GotBetween
    <2>2. tr[Source(p)] <= tr2[Source(p)] /\ Source(p) \in Things
      BY Sources DEF AtMost
    <2>3. call.mounted /\ call.tab \in Tabs =>
              /\ pages2[call.tab].since[Source(p)] <= pages[call.tab].since[Source(p)]
              /\ pages2[call.tab].since[Source(p)] \in Nat /\ pages[call.tab].since[Source(p)] \in Nat
      <3> SUFFICES ASSUME call.mounted, call.tab \in Tabs
                   PROVE  /\ pages2[call.tab].since[Source(p)] <= pages[call.tab].since[Source(p)]
                          /\ pages2[call.tab].since[Source(p)] \in Nat
                          /\ pages[call.tab].since[Source(p)] \in Nat
        OBVIOUS
      <3>1. pages2[call.tab].since \in [Things -> Nat] /\ pages[call.tab].since \in [Things -> Nat]
        BY DEF Pages
      <3>2. AtMost(pages2[call.tab].since, pages[call.tab].since)
        BY DEF Around
      <3>3. QED BY <2>2, <3>1, <3>2 DEF AtMost
    <2>4. call.got[p] \in Nat /\ call.wrote[Source(p)] \in Nat
          /\ tr[Source(p)] \in Nat /\ tr2[Source(p)] \in Nat
      BY <1>1, <2>2
    <2>5. QED BY <2>1, <2>2, <2>3, <2>4
  <1>6. call.kind \in Commands /\ call.got["reply"] \in Nat =>
           call.got["reply"] <= tr2[Written(call.kind)]
    BY <1>1, Sources DEF Sound, AtMost
  <1>7. call.mounted /\ call.kind \in OfDashboard => pages2[call.tab].screen = "dash"
    <2>1. "idle" \notin OfDashboard BY DEF OfDashboard, Commands
    <2>2. QED BY <1>1, <2>1 DEF Sound, Around
  <1>8. QED BY <1>1, <1>2, <1>3, <1>4, <1>5, <1>6, <1>7 DEF Sound

(* One whose component is gone is sound whatever its tab shows next.       *)
LEMMA Unmounts ==
    ASSUME NEW call, NEW pages, NEW pages2, NEW tr \in [Things -> Nat], NEW se \in [Tokens -> Lives],
           Sound(call, pages, tr, se)
    PROVE  Sound([call EXCEPT !.mounted = FALSE], pages2, tr, se)
  <1> DEFINE gone == [call EXCEPT !.mounted = FALSE]
  <1>1. gone \in Calls /\ gone.kind = call.kind /\ gone.tab = call.tab /\ gone.cookie = call.cookie
        /\ gone.wrote = call.wrote /\ gone.got = call.got /\ gone.mounted = FALSE
    BY DEF Sound, Calls
  <1>2. GotBetween(gone, pages2, tr)
    BY <1>1 DEF Sound, GotBetween
  <1> HIDE DEF gone
  <1>3. Sound(gone, pages2, tr, se) BY <1>1, <1>2 DEF Sound
  <1>4. QED BY <1>3 DEF gone

(* A call that has just been made.                                         *)
LEMMA MadeSound ==
    ASSUME NEW kind \in Kinds, NEW tab \in Tabs \cup {NoData}, NEW mounted \in BOOLEAN,
           NEW cookie \in Cookies, NEW wrote \in [Things -> Nat], NEW pages,
           NEW tr \in [Things -> Nat], NEW se \in [Tokens -> Lives],
           kind # "idle" => tab \in Tabs, Issued(cookie, se), AtMost(wrote, tr),
           mounted /\ kind \in OfDashboard => pages[tab].screen = "dash"
    PROVE  Sound(CallOf(kind, tab, mounted, cookie, wrote), pages, tr, se)
  <1> DEFINE call == CallOf(kind, tab, mounted, cookie, wrote)
  <1>1. /\ call.kind = kind /\ call.tab = tab /\ call.mounted = mounted /\ call.cookie = cookie
        /\ call.wrote = wrote /\ call.got \in [Parts -> {Pending, NoData}]
        /\ call = [kind |-> kind, tab |-> tab, mounted |-> mounted, cookie |-> cookie, wrote |-> wrote,
                   got |-> call.got]
    BY DEF CallOf
  <1> HIDE DEF call
  <1>2. \A p \in Parts : call.got[p] \notin Nat /\ call.got[p] \notin Tokens /\ call.got[p] # Ok
    BY <1>1, AnswersAssumption
  <1>3. call.got \in [Parts -> Answers]
    BY <1>1 DEF Answers
  <1>4. call \in Calls
    BY <1>1, <1>3 DEF Calls
  <1>5. GotBetween(call, pages, tr) /\ CountedFirst(call.got) /\ Issued(call.got["reply"], se)
    BY <1>2, Sources DEF GotBetween, CountedFirst, Issued
  <1>6. QED BY <1>1, <1>2, <1>4, <1>5, Sources DEF Sound, call

(* The call whose request p is answered with v.                            *)
Answered(call, p, v) ==
    [call EXCEPT !.got = [q \in Parts |-> IF q = p \/ (@[q] # NoData /\ v \in Errors) THEN v ELSE @[q]]]

(* An answer that tells what there is keeps a call sound.                  *)
LEMMA AnsweredSound ==
    ASSUME NEW call, NEW pages \in [Tabs -> Pages], NEW tr \in [Things -> Nat],
           NEW se \in [Tokens -> Lives], NEW p \in Parts, NEW v \in Answers \ {NoData, Pending},
           Sound(call, pages, tr, se), call.got[p] = Pending, Issued(v, se),
           \A t \in Tabs : AtMost(pages[t].since, tr),
           p \in Cells /\ v \in Nat => v = tr[Source(p)],
           p = "users" /\ v \in Nat => call.got["total"] \in Nat /\ call.got["total"] <= v,
           p = "reply" /\ v \in Nat /\ call.kind \in Commands => v <= tr[Written(call.kind)],
           v = Ok /\ call.kind = "logout" /\ call.cookie \in Tokens => se[call.cookie] # "live"
    PROVE  Sound(Answered(call, p, v), pages, tr, se)
  <1> DEFINE new == Answered(call, p, v)
  <1>1. /\ call \in Calls /\ call.got \in [Parts -> Answers] /\ call.wrote \in [Things -> Nat]
    BY DEF Sound, Calls
  <1>2. /\ new.kind = call.kind /\ new.tab = call.tab /\ new.mounted = call.mounted
        /\ new.cookie = call.cookie /\ new.wrote = call.wrote
        /\ new.got \in [Parts -> Answers] /\ new \in Calls
        /\ new.got[p] = v
        /\ \A q \in Parts : new.got[q] # call.got[q] => new.got[q] = v /\ (q = p \/ v \in Errors)
        /\ \A q \in Parts : v \in Errors /\ call.got[q] # NoData => new.got[q] = v
    BY <1>1 DEF Answered, Calls
  <1> HIDE DEF new
  <1>3. v \in Errors => v \notin Nat /\ v \notin Tokens /\ v # Ok
    BY AnswersAssumption DEF Errors
  <1>4. Issued(new.cookie, se) /\ Issued(new.got["reply"], se)
    BY <1>2, <1>3, Sources DEF Sound, Issued
  <1>5. new.kind = "logout" /\ new.got["reply"] = Ok /\ new.cookie \in Tokens =>
           se[new.cookie] # "live"
    BY <1>2, <1>3, Sources DEF Sound
  <1>6. GotBetween(new, pages, tr)
    <2> SUFFICES ASSUME NEW q \in Cells, new.got[q] \in Nat
                 PROVE  /\ new.wrote[Source(q)] <= new.got[q] /\ new.got[q] <= tr[Source(q)]
                        /\ new.mounted /\ new.tab \in Tabs =>
                               pages[new.tab].since[Source(q)] <= new.got[q]
      BY DEF GotBetween
    <2>1. CASE new.got[q] = call.got[q]
      BY <1>2, <2>1 DEF Sound, GotBetween
    <2>2. CASE new.got[q] # call.got[q]
      <3>1. q = p /\ new.got[q] = tr[Source(q)] /\ Source(q) \in Things
        BY <1>2, <1>3, <2>2, Sources
      <3>2. call.wrote[Source(q)] <= tr[Source(q)]
        BY <3>1 DEF Sound, AtMost
      <3>3. \A t \in Tabs : pages[t].since[Source(q)] <= tr[Source(q)]
        BY <3>1 DEF AtMost
      <3>4. tr[Source(q)] <= tr[Source(q)]
        BY <3>1
      <3>5. QED BY <1>2, <3>1, <3>2, <3>3, <3>4
    <2>3. QED BY <2>1, <2>2
  <1>7. CountedFirst(new.got)
    <2> SUFFICES ASSUME new.got["users"] \in Nat
                 PROVE  new.got["total"] \in Nat /\ new.got["total"] <= new.got["users"]
      BY DEF CountedFirst
    <2>1. v \notin Errors \/ (new.got["users"] = call.got["users"] /\ call.got["users"] = NoData)
      BY <1>2, <1>3, Sources
    <2>2. v \notin Errors
      BY <2>1, AnswersAssumption
    <2>3. CASE p = "users"
      BY <1>2, <2>2, <2>3, Sources
    <2>4. CASE p # "users"
      <3>1. call.got["users"] \in Nat /\ new.got["users"] = call.got["users"]
        BY <1>2, <2>2, <2>4, Sources
      <3>2. call.got["total"] \in Nat /\ call.got["total"] <= call.got["users"]
        BY <3>1 DEF Sound, CountedFirst
      <3>3. new.got["total"] = call.got["total"]
        BY <1>2, <2>2, <3>2, Sources, AnswersAssumption
      <3>4. QED BY <3>1, <3>2, <3>3
    <2>5. QED BY <2>3, <2>4
  <1>8. new.kind \in Commands /\ new.got["reply"] \in Nat =>
           new.got["reply"] <= tr[Written(new.kind)]
    BY <1>2, <1>3, Sources DEF Sound
  <1>9. Sound(new, pages, tr, se)
    BY <1>2, <1>4, <1>5, <1>6, <1>7, <1>8 DEF Sound
  <1>10. QED BY <1>9 DEF new

-----------------------------------------------------------------------------
(* The world of a step: sessions, versions, cookie and bounds.             *)
Moves == AtMost(truth, truth') /\ Ages(sessions, sessions')

LEMMA SessionsMove ==
    ASSUME sessions \in [Tokens -> Lives],
           \/ sessions' = sessions
           \/ \E c \in Cookies : Check(c) \/ LogOut(c)
           \/ \E t \in Tokens : LogIn(t) \/ Expire(t)
           \/ Forget
    PROVE  sessions' \in [Tokens -> Lives] /\ Ages(sessions, sessions')
  <1>1. CASE sessions' = sessions
    BY <1>1 DEF Ages
  <1>2. CASE \E c \in Cookies : Check(c) \/ LogOut(c)
    BY <1>2 DEF Ages, Check, LookedUp, LogOut, Lives
  <1>3. CASE \E t \in Tokens : LogIn(t) \/ Expire(t)
    BY <1>3 DEF Ages, LogIn, Expire, Lives
  <1>4. CASE Forget
    BY <1>4 DEF Ages, Forget, Lives
  <1>5. QED BY <1>1, <1>2, <1>3, <1>4

LEMMA TruthMoves ==
    ASSUME truth \in [Things -> Nat],
           \/ truth' = truth
           \/ \E th \in Things : truth' = [truth EXCEPT ![th] = @ + 1]
           \/ truth' = [th \in Things |-> IF th = "sync" THEN truth[th] + 1 ELSE truth[th]]
    PROVE  truth' \in [Things -> Nat] /\ AtMost(truth, truth')
  BY DEF AtMost

LEMMA SpentMoves ==
    ASSUME spent \in [changes : 0 .. MaxChanges, clicks : 0 .. MaxClicks, faults : 0 .. MaxFaults],
           \/ spent' = spent
           \/ Spend("changes", MaxChanges) \/ Spend("clicks", MaxClicks) \/ Spend("faults", MaxFaults)
    PROVE  spent' \in [changes : 0 .. MaxChanges, clicks : 0 .. MaxClicks, faults : 0 .. MaxFaults]
  BY BoundsAssumption DEF Spend

(* An issued cookie stays issued.                                          *)
LEMMA StaysIssued ==
    ASSUME NEW c, NEW se, NEW se2, Issued(c, se), Ages(se, se2)
    PROVE  Issued(c, se2)
  BY DEF Issued, Ages

(* The world stays as it should be when the cookie does not change.        *)
LEMMA WorldStays ==
    ASSUME WorldOK, enabled' = enabled, jar' = jar \/ jar' = NoCookie,
           sessions' \in [Tokens -> Lives], truth' \in [Things -> Nat], Moves,
           spent' \in [changes : 0 .. MaxChanges, clicks : 0 .. MaxClicks, faults : 0 .. MaxFaults]
    PROVE  WorldOK'
  <1>1. Issued(jar', sessions')
    BY StaysIssued, CookiesAssumption DEF WorldOK, Moves, Issued
  <1>2. jar' \in Cookies BY DEF WorldOK, Cookies
  <1>3. QED BY <1>1, <1>2 DEF WorldOK

-----------------------------------------------------------------------------
(* One call changes, and the tabs only in what the calls do not rely on.   *)
LEMMA OneCall ==
    ASSUME PInv, WorldOK', Moves, NEW s \in Slots, NEW new,
           calls' = [calls EXCEPT ![s] = new], page' \in [Tabs -> Pages],
           \A r \in Slots : Around(calls[r], page, page'),
           Sound(new, page', truth', sessions')
    PROVE  CallsOK'
  <1>1. \A r \in Slots : Sound(calls[r], page', truth', sessions')
    BY Stays DEF PInv, WorldOK, PagesOK, CallsOK, Moves
  <1>2. new \in Calls BY DEF Sound
  <1>3. calls' \in [Slots -> Calls] BY <1>2 DEF PInv, CallsOK
  <1>4. \A r \in Slots : Sound(calls'[r], page', truth', sessions')
    BY <1>1 DEF PInv, CallsOK
  <1>5. QED BY <1>3, <1>4 DEF CallsOK

(* A tab that shows the same in a world that moved on.                     *)
LEMMA StillShows ==
    ASSUME NEW pg, NEW tr \in [Things -> Nat], NEW tr2 \in [Things -> Nat], Shows(pg, tr), AtMost(tr, tr2)
    PROVE  Shows(pg, tr2)
  <1>1. pg.since \in [Things -> Nat] BY DEF Shows, Pages
  <1>2. AtMost(pg.since, tr2) BY <1>1, AtMostOfAtMost DEF Shows
  <1>3. QED BY <1>2 DEF Shows

(* One tab changes, or none.                                               *)
LEMMA OnePage ==
    ASSUME PInv, WorldOK', Moves, NEW t \in Tabs, NEW pg,
           page' = [page EXCEPT ![t] = pg], Shows(pg, truth')
    PROVE  PagesOK'
  <1>1. \A u \in Tabs : Shows(page[u], truth')
    BY StillShows DEF PInv, WorldOK, PagesOK, Moves
  <1>2. pg \in Pages BY DEF Shows
  <1>3. page' \in [Tabs -> Pages] BY <1>2 DEF PInv, PagesOK
  <1>4. \A u \in Tabs : Shows(page'[u], truth') BY <1>1 DEF PInv, PagesOK
  <1>5. QED BY <1>3, <1>4 DEF PagesOK

LEMMA NoPage ==
    ASSUME PInv, WorldOK', Moves, page' = page
    PROVE  PagesOK' /\ \A r \in Slots : Around(calls[r], page, page')
  <1>1. \A u \in Tabs : Shows(page[u], truth')
    BY StillShows DEF PInv, WorldOK, PagesOK, Moves
  <1>2. \A t \in Tabs : AtMost(page[t].since, page[t].since)
    BY SameAtMost DEF PInv, PagesOK, Pages
  <1>3. \A r \in Slots : Around(calls[r], page, page')
    BY <1>2 DEF Around
  <1>4. QED BY <1>1, <1>3 DEF PInv, PagesOK

(* The components of a tab are replaced, and one call is.                  *)
LEMMA TabReplaced ==
    ASSUME PInv, WorldOK', Moves, NEW s \in Slots, NEW t \in Tabs, NEW new, NEW pg,
           page' = [page EXCEPT ![t] = pg], Shows(pg, truth'),
           calls' = [Unmounted(t) EXCEPT ![s] = new], Sound(new, page', truth', sessions')
    PROVE  PagesOK' /\ CallsOK'
  <1>1. PagesOK' BY OnePage
  <1>2. page' \in [Tabs -> Pages] BY <1>1 DEF PagesOK
  <1>3. ASSUME NEW r \in Slots
        PROVE  Sound(Unmounted(t)[r], page', truth', sessions')
    <2>1. CASE calls[r].tab = t
      <3>1. Unmounted(t)[r] = [calls[r] EXCEPT !.mounted = FALSE]
        BY <2>1 DEF Unmounted
      <3>2. Sound(Unmounted(t)[r], page, truth, sessions)
        BY <3>1, Unmounts DEF PInv, WorldOK, CallsOK
      <3>3. Around(Unmounted(t)[r], page, page')
        BY <3>1 DEF Around, PInv, CallsOK, Calls
      <3>4. QED BY <1>2, <3>2, <3>3, Stays DEF PInv, WorldOK, PagesOK, Moves
    <2>2. CASE calls[r].tab # t
      <3>1. Unmounted(t)[r] = calls[r]
        BY <2>2 DEF Unmounted
      <3>2. Around(calls[r], page, page')
        BY <2>2, SameAtMost DEF Around, PInv, PagesOK, Pages
      <3>3. QED BY <1>2, <3>1, <3>2, Stays DEF PInv, WorldOK, PagesOK, CallsOK, Moves
    <2>3. QED BY <2>1, <2>2
  <1>4. /\ \A r \in Slots : calls'[r] = IF r = s THEN new ELSE Unmounted(t)[r]
        /\ DOMAIN calls' = Slots /\ calls' = [r \in Slots |-> calls'[r]]
    BY DEF Unmounted
  <1>5. \A r \in Slots : Sound(calls'[r], page', truth', sessions')
    BY <1>3, <1>4
  <1>6. calls' \in [Slots -> Calls]
    BY <1>4, <1>5 DEF Sound
  <1>7. QED BY <1>1, <1>5, <1>6 DEF CallsOK

-----------------------------------------------------------------------------
(* The pages and the calls the actions put in place.                       *)
LEMMA ZeroLeast ==
    Zero \in [Things -> Nat] /\ \A tr \in [Things -> Nat] : AtMost(Zero, tr)
  BY DEF Zero, AtMost

LEMMA IdleSound ==
    ASSUME NEW pages, NEW tr \in [Things -> Nat], NEW se \in [Tokens -> Lives]
    PROVE  Sound(Idle, pages, tr, se)
  <1>1. "idle" \in Kinds /\ "idle" \notin OfDashboard
    BY DEF Kinds, OfDashboard, Commands
  <1>2. Issued(NoCookie, se) /\ NoCookie \in Cookies
    BY CookiesAssumption DEF Issued, Cookies
  <1>3. QED BY <1>1, <1>2, ZeroLeast, MadeSound DEF Idle

(* A page that has just been shown.                                        *)
LEMMA PageShows ==
    ASSUME NEW screen \in {"closed", "blank", "login", "dash"}, NEW since \in [Things -> Nat],
           NEW tr \in [Things -> Nat], AtMost(since, tr)
    PROVE  Shows(PageOf(screen, since), tr)
  <1>1. \A c \in Cells : Nothing[c] = NoData BY DEF Nothing
  <1>2. PageOf(screen, since) \in Pages BY DEF PageOf, Pages, Nothing
  <1>3. QED BY <1>1, <1>2, Sources DEF Shows, PageOf

(* A call made for a tab with the cookie of the browser.                   *)
LEMMA NewCall ==
    ASSUME PInv, WorldOK', Moves, NEW s \in Slots, NEW t \in Tabs, NEW kind \in Kinds \ {"idle"},
           calls' = [calls EXCEPT ![s] = Call(kind, t)], jar' = jar, page' \in [Tabs -> Pages],
           \A r \in Slots : Around(calls[r], page, page'),
           kind \in OfDashboard => page'[t].screen = "dash"
    PROVE  CallsOK'
  <1>1. Sound(CallOf(kind, t, TRUE, jar, Zero), page', truth', sessions')
    BY MadeSound, ZeroLeast DEF WorldOK
  <1>2. QED BY <1>1, OneCall DEF Call

(* A message changes nothing the calls or the pages rely on.               *)
LEMMA NoteKeeps ==
    ASSUME PInv, WorldOK', Moves, NEW s \in Slots, calls[s].kind # "idle",
           NEW text \in {"", "busy", "done", "error"}, page' = Note(s, text)
    PROVE  PagesOK' /\ \A r \in Slots : Around(calls[r], page, page')
  <1>1. CASE ~calls[s].mounted
    BY <1>1, NoPage DEF Note
  <1>2. CASE calls[s].mounted
    <2> DEFINE t == calls[s].tab
               pg == [page[t] EXCEPT !.note = text]
    <2>1. t \in Tabs /\ page[t] \in Pages BY DEF PInv, CallsOK, PagesOK, Sound
    <2>2. pg \in Pages /\ pg.screen = page[t].screen /\ pg.since = page[t].since /\ pg.shown = page[t].shown
      BY <2>1 DEF Pages
    <2>3. page' = [page EXCEPT ![t] = pg]
      BY <1>2 DEF Note
    <2> HIDE DEF pg, t
    <2>4. Shows(page[t], truth')
      BY <2>1, StillShows DEF PInv, WorldOK, PagesOK, Moves
    <2>5. Shows(pg, truth')
      BY <2>2, <2>4 DEF Shows
    <2>6. PagesOK' BY <2>1, <2>3, <2>5, OnePage
    <2>7. \A u \in Tabs : page'[u].since = page[u].since /\ page'[u].screen = page[u].screen
      BY <2>1, <2>2, <2>3 DEF PInv, PagesOK
    <2>8. \A r \in Slots : Around(calls[r], page, page')
      BY <2>7, SameAtMost DEF Around, PInv, PagesOK, Pages
    <2>9. QED BY <2>6, <2>8
  <1>3. QED BY <1>1, <1>2 DEF PInv, CallsOK, Calls

(* The two screens App chooses between.                                    *)
LEMMA DashboardKeeps ==
    ASSUME PInv, WorldOK', Moves, truth' = truth, NEW s \in Slots, calls[s].kind # "idle",
           ShowDashboard(s)
    PROVE  PagesOK' /\ CallsOK'
  <1> DEFINE t == calls[s].tab
  <1>1. t \in Tabs BY DEF PInv, CallsOK, Sound
  <1>2. CASE page[t].screen = "dash"
    <2>1. page' = page /\ calls' = [calls EXCEPT ![s] = Idle]
      BY <1>2 DEF ShowDashboard
    <2>2. Sound(Idle, page', truth', sessions')
      BY IdleSound DEF WorldOK
    <2>3. QED BY <2>1, <2>2, NoPage, OneCall DEF PagesOK
  <1>3. CASE page[t].screen # "dash"
    <2>1. /\ page' = [page EXCEPT ![t] = Dashboard]
          /\ calls' = [Unmounted(t) EXCEPT ![s] = CallOf("refresh", t, TRUE, jar', Zero)]
      BY <1>3 DEF ShowDashboard
    <2>2. Shows(Dashboard, truth')
      BY PageShows, SameAtMost DEF Dashboard, WorldOK
    <2>3. "refresh" \in Kinds \ {"idle"} BY DEF Kinds
    <2>4. page'[t].screen = "dash"
      BY <1>1, <2>1 DEF PInv, PagesOK, Dashboard, PageOf
    <2>5. Sound(CallOf("refresh", t, TRUE, jar', Zero), page', truth', sessions')
      BY <1>1, <2>3, <2>4, MadeSound, ZeroLeast DEF WorldOK
    <2>6. QED BY <1>1, <2>1, <2>2, <2>5, TabReplaced
  <1>4. QED BY <1>2, <1>3

LEMMA LoginKeeps ==
    ASSUME PInv, WorldOK', Moves, NEW s \in Slots, calls[s].kind # "idle", ShowLogin(s)
    PROVE  PagesOK' /\ CallsOK'
  <1> DEFINE t == calls[s].tab
  <1>1. t \in Tabs BY DEF PInv, CallsOK, Sound
  <1>2. Sound(Idle, page', truth', sessions')
    BY IdleSound DEF WorldOK
  <1>3. CASE page[t].screen = "login"
    <2>1. page' = page /\ calls' = [calls EXCEPT ![s] = Idle]
      BY <1>3 DEF ShowLogin
    <2>2. QED BY <1>2, <2>1, NoPage, OneCall DEF PagesOK
  <1>4. CASE page[t].screen # "login"
    <2>1. page' = [page EXCEPT ![t] = Login] /\ calls' = [Unmounted(t) EXCEPT ![s] = Idle]
      BY <1>4 DEF ShowLogin
    <2>2. Shows(Login, truth')
      BY PageShows, ZeroLeast DEF Login, WorldOK
    <2>3. QED BY <1>1, <1>2, <2>1, <2>2, TabReplaced
  <1>5. QED BY <1>3, <1>4

-----------------------------------------------------------------------------
(* The invariant holds at the start.                                       *)
LEMMA InitPInv == Init => PInv
  <1> SUFFICES ASSUME Init PROVE PInv OBVIOUS
  <1>1. WorldOK
    <2>1. /\ jar \in Cookies /\ enabled \in Modes /\ sessions \in [Tokens -> Lives]
          /\ Issued(jar, sessions)
      BY CookiesAssumption DEF Init, SessionsInit, Cookies, Lives, Issued
    <2>2. truth \in [Things -> Nat] BY ZeroLeast DEF Init
    <2>3. spent \in [changes : 0 .. MaxChanges, clicks : 0 .. MaxClicks, faults : 0 .. MaxFaults]
      BY BoundsAssumption DEF Init
    <2>4. QED BY <2>1, <2>2, <2>3 DEF WorldOK
  <1>2. PagesOK
    <2>1. Shows(PageOf("closed", Zero), truth) BY <1>1, ZeroLeast, PageShows DEF WorldOK
    <2>2. PageOf("closed", Zero) \in Pages BY <2>1 DEF Shows
    <2>3. QED BY <2>1, <2>2 DEF PagesOK, Init
  <1>3. CallsOK
    <2>1. Sound(Idle, page, truth, sessions) BY <1>1, IdleSound DEF WorldOK
    <2>2. Idle \in Calls BY <2>1 DEF Sound
    <2>3. QED BY <2>1, <2>2 DEF CallsOK, Init
  <1>4. QED BY <1>1, <1>2, <1>3 DEF PInv

(* Nothing moves but the call and the tab of an action of the browser.     *)
LEMMA WorldRests ==
    ASSUME WorldOK, UNCHANGED <<auth, truth>>, jar' = jar \/ jar' = NoCookie,
           spent' = spent \/ Spend("clicks", MaxClicks)
    PROVE  WorldOK' /\ Moves
  <1>1. sessions' \in [Tokens -> Lives] /\ Ages(sessions, sessions')
    BY SessionsMove DEF WorldOK, auth
  <1>2. truth' \in [Things -> Nat] /\ AtMost(truth, truth')
    BY TruthMoves DEF WorldOK
  <1>3. spent' \in [changes : 0 .. MaxChanges, clicks : 0 .. MaxClicks, faults : 0 .. MaxFaults]
    BY SpentMoves DEF WorldOK
  <1>4. QED BY <1>1, <1>2, <1>3, WorldStays DEF Moves, auth

(* The page is loaded.                                                     *)
LEMMA OpenPInv ==
    ASSUME PInv, NEW t \in Tabs, NEW s \in Slots, Open(t, s)
    PROVE  PInv'
  <1>1. WorldOK' /\ Moves BY WorldRests DEF Open, PInv
  <1>2. /\ page[t].screen = "closed" /\ page' = [page EXCEPT ![t] = PageOf("blank", Zero)]
        /\ calls' = [calls EXCEPT ![s] = Call("me", t)] /\ jar' = jar
    BY DEF Open
  <1>3. Shows(PageOf("blank", Zero), truth')
    BY <1>1, ZeroLeast, PageShows DEF WorldOK
  <1>4. PagesOK' BY <1>1, <1>2, <1>3, OnePage
  <1>5. ASSUME NEW r \in Slots
        PROVE  Around(calls[r], page, page')
    <2> SUFFICES ASSUME calls[r].tab \in Tabs
                 PROVE  /\ AtMost(page'[calls[r].tab].since, page[calls[r].tab].since)
                        /\ page[calls[r].tab].screen = "dash" => page'[calls[r].tab].screen = "dash"
      BY DEF Around
    <2>1. page[calls[r].tab].since \in [Things -> Nat]
      BY DEF PInv, PagesOK, Pages
    <2>2. CASE calls[r].tab = t
      <3>1. page'[calls[r].tab].since = Zero BY <1>2, <2>2 DEF PInv, PagesOK, PageOf
      <3>2. QED BY <1>2, <2>1, <2>2, <3>1, ZeroLeast
    <2>3. CASE calls[r].tab # t
      BY <1>2, <2>1, <2>3, SameAtMost DEF PInv, PagesOK
    <2>4. QED BY <2>2, <2>3
  <1>6. "me" \in Kinds \ {"idle"} /\ "me" \notin OfDashboard
    BY DEF Kinds, OfDashboard, Commands
  <1>7. CallsOK' BY <1>1, <1>2, <1>4, <1>5, <1>6, NewCall DEF PagesOK
  <1>8. QED BY <1>1, <1>4, <1>7 DEF PInv

(* The buttons that only start a call, and the timer.                      *)
LEMMA AsksPInv ==
    ASSUME PInv, NEW t \in Tabs, NEW s \in Slots,
           SubmitLogin(t, s) \/ ClickLogout(t, s) \/ Refresh(t, s)
    PROVE  PInv'
  <1>1. WorldOK' /\ Moves BY WorldRests DEF SubmitLogin, ClickLogout, Refresh, PInv
  <1>2. PICK kind \in {"login", "logout", "refresh"} :
          /\ calls' = [calls EXCEPT ![s] = Call(kind, t)] /\ page' = page /\ jar' = jar
          /\ kind = "refresh" => page[t].screen = "dash"
    BY DEF SubmitLogin, ClickLogout, Refresh
  <1>3. kind \in Kinds \ {"idle"} /\ (kind \in OfDashboard => kind = "refresh")
    BY DEF Kinds, OfDashboard, Commands
  <1>4. PagesOK' /\ \A r \in Slots : Around(calls[r], page, page') BY <1>1, <1>2, NoPage
  <1>5. CallsOK' BY <1>1, <1>2, <1>3, <1>4, NewCall DEF PagesOK
  <1>6. QED BY <1>1, <1>4, <1>5 DEF PInv

(* A command: its message, and its call.                                   *)
LEMMA ClickActPInv ==
    ASSUME PInv, NEW t \in Tabs, NEW s \in Slots, NEW kind \in Commands, ClickAct(t, s, kind)
    PROVE  PInv'
  <1>1. WorldOK' /\ Moves BY WorldRests DEF ClickAct, PInv
  <1>2. /\ page[t].screen = "dash" /\ page' = [page EXCEPT ![t].note = "busy"]
        /\ calls' = [calls EXCEPT ![s] = Call(kind, t)] /\ jar' = jar
    BY DEF ClickAct
  <1> DEFINE pg == [page[t] EXCEPT !.note = "busy"]
  <1>3. /\ pg \in Pages /\ pg.screen = page[t].screen /\ pg.since = page[t].since
        /\ pg.shown = page[t].shown /\ page' = [page EXCEPT ![t] = pg]
    BY <1>2 DEF PInv, PagesOK, Pages
  <1> HIDE DEF pg
  <1>4. Shows(page[t], truth') BY <1>1, StillShows DEF PInv, WorldOK, PagesOK, Moves
  <1>5. Shows(pg, truth') BY <1>3, <1>4 DEF Shows
  <1>6. PagesOK' BY <1>1, <1>3, <1>5, OnePage
  <1>7. \A u \in Tabs : page'[u].since = page[u].since /\ page'[u].screen = page[u].screen
    BY <1>3 DEF PInv, PagesOK
  <1>8. \A r \in Slots : Around(calls[r], page, page')
    BY <1>7, SameAtMost DEF Around, PInv, PagesOK, Pages
  <1>9. kind \in Kinds \ {"idle"} BY DEF Kinds, Commands
  <1>10. CallsOK' BY <1>1, <1>2, <1>6, <1>7, <1>8, <1>9, NewCall DEF PagesOK
  <1>11. QED BY <1>1, <1>6, <1>10 DEF PInv

(* The answers that choose a screen.                                       *)
LEMMA ScreensPInv ==
    ASSUME PInv, NEW s \in Slots, MeAnswered(s) \/ LogoutAnswered(s)
    PROVE  PInv'
  <1>1. WorldOK' /\ Moves BY WorldRests DEF MeAnswered, LogoutAnswered, PInv
  <1>2. truth' = truth /\ calls[s].kind # "idle" /\ (ShowDashboard(s) \/ ShowLogin(s))
    BY DEF MeAnswered, LogoutAnswered
  <1>3. QED BY <1>1, <1>2, DashboardKeeps, LoginKeeps DEF PInv

(* A message takes the place of a call.                                    *)
LEMMA MessagePInv ==
    ASSUME PInv, WorldOK', Moves, NEW s \in Slots, calls[s].kind # "idle",
           page' = Note(s, "error"), calls' = [calls EXCEPT ![s] = Idle]
    PROVE  PInv'
  <1>1. PagesOK' /\ \A r \in Slots : Around(calls[r], page, page')
    BY NoteKeeps
  <1>2. Sound(Idle, page', truth', sessions') BY IdleSound DEF WorldOK
  <1>3. CallsOK' BY <1>1, <1>2, OneCall DEF PagesOK
  <1>4. QED BY <1>1, <1>3 DEF PInv

LEMMA LoginAnsweredPInv ==
    ASSUME PInv, NEW s \in Slots, LoginAnswered(s)
    PROVE  PInv'
  <1>1. calls[s].kind # "idle" /\ UNCHANGED <<auth, truth, spent>>
    BY DEF LoginAnswered
  <1>2. CASE calls[s].got["reply"] \in Tokens
    <2>1. jar' = calls[s].got["reply"] /\ ShowDashboard(s)
      BY <1>2 DEF LoginAnswered
    <2>2. Issued(jar', sessions') /\ jar' \in Cookies
      BY <1>1, <1>2, <2>1 DEF PInv, CallsOK, Sound, Issued, Cookies, auth
    <2>3. WorldOK' BY <1>1, <2>2 DEF PInv, WorldOK, auth
    <2>4. Moves
      BY <1>1, SameAtMost DEF PInv, WorldOK, Moves, Ages, auth
    <2>5. QED BY <1>1, <2>1, <2>3, <2>4, DashboardKeeps DEF PInv
  <1>3. CASE calls[s].got["reply"] \notin Tokens
    <2>1. jar' = jar /\ page' = Note(s, "error") /\ calls' = [calls EXCEPT ![s] = Idle]
      BY <1>3 DEF LoginAnswered
    <2>2. WorldOK' /\ Moves BY <1>1, <2>1, WorldRests DEF PInv
    <2>3. QED BY <1>1, <2>1, <2>2, MessagePInv
  <1>4. QED BY <1>2, <1>3

(* The second half of a refresh.                                           *)
LEMMA AskNodesKeeps ==
    ASSUME PInv, WorldOK', Moves, jar' = jar, NEW s \in Slots, calls[s].kind = "refresh", AskNodes(s),
           page' \in [Tabs -> Pages], \A r \in Slots : Around(calls[r], page, page')
    PROVE  CallsOK'
  <1> DEFINE t == calls[s].tab
             m == calls[s].mounted
  <1>1. /\ t \in Tabs /\ m \in BOOLEAN
        /\ calls' = [calls EXCEPT ![s] = CallOf("nodes", t, m, jar, Zero)]
    BY DEF AskNodes, PInv, CallsOK, Sound, Calls
  <1>2. m => page'[t].screen = "dash"
    BY <1>1 DEF Around, PInv, CallsOK, Sound, OfDashboard
  <1>3. "nodes" \in Kinds BY DEF Kinds
  <1> HIDE DEF t, m
  <1>4. Sound(CallOf("nodes", t, m, jar, Zero), page', truth', sessions')
    BY <1>1, <1>2, <1>3, MadeSound, ZeroLeast DEF WorldOK
  <1>5. QED BY <1>1, <1>4, OneCall

(* Promise.all rejected.                                                   *)
LEMMA RejectPInv ==
    ASSUME PInv, NEW s \in Slots, Reject(s)
    PROVE  PInv'
  <1>1. WorldOK' /\ Moves BY WorldRests DEF Reject, PInv
  <1>2. calls[s].kind = "refresh" /\ jar' = jar BY DEF Reject
  <1>3. CASE ShowLogin(s)
    BY <1>1, <1>2, <1>3, LoginKeeps DEF PInv
  <1>4. CASE page' = Note(s, "error") /\ AskNodes(s)
    <2>1. PagesOK' /\ \A r \in Slots : Around(calls[r], page, page')
      BY <1>1, <1>2, <1>4, NoteKeeps
    <2>2. CallsOK' BY <1>1, <1>2, <1>4, <2>1, AskNodesKeeps DEF PagesOK
    <2>3. QED BY <1>1, <2>1, <2>2 DEF PInv
  <1>5. QED BY <1>3, <1>4 DEF Reject

(* A command was answered.                                                 *)
LEMMA ActAnsweredPInv ==
    ASSUME PInv, NEW s \in Slots, ActAnswered(s)
    PROVE  PInv'
  <1> DEFINE v == calls[s].got["reply"]
  <1>1. WorldOK' /\ Moves BY WorldRests DEF ActAnswered, PInv
  <1>2. calls[s].kind \in Commands /\ calls[s].kind # "idle" /\ jar' = jar
    BY DEF ActAnswered, Commands
  <1>3. CASE v \notin Nat
    <2>1. page' = Note(s, "error") /\ calls' = [calls EXCEPT ![s] = Idle]
      BY <1>3 DEF ActAnswered
    <2>2. QED BY <1>1, <1>2, <2>1, MessagePInv
  <1>4. CASE v \in Nat
    <2> DEFINE t == calls[s].tab
               m == calls[s].mounted
               w == Written(calls[s].kind)
               wrote == [Zero EXCEPT ![w] = v]
    <2>1. /\ page' = Note(s, "done") /\ t \in Tabs /\ m \in BOOLEAN
          /\ calls' = [calls EXCEPT ![s] = CallOf("refresh", t, m, jar, wrote)]
      BY <1>2, <1>4 DEF ActAnswered, ActRefreshed, PInv, CallsOK, Sound, Calls
    <2>2. PagesOK' /\ \A r \in Slots : Around(calls[r], page, page')
      BY <1>1, <1>2, <2>1, NoteKeeps
    <2>3. v <= truth[w] /\ w \in Things
      BY <1>2, <1>4, Sources DEF PInv, CallsOK, Sound
    <2>4. wrote \in [Things -> Nat] /\ wrote[w] = v /\ \A th \in Things \ {w} : wrote[th] = 0
      BY <1>4, <2>3 DEF Zero
    <2>5. m => page'[t].screen = "dash"
      BY <1>2, <2>1, <2>2 DEF Around, PInv, CallsOK, Sound, OfDashboard
    <2>6. "refresh" \in Kinds BY DEF Kinds
    <2> HIDE DEF v, t, m, w, wrote
    <2>7. truth \in [Things -> Nat] /\ truth' \in [Things -> Nat] /\ AtMost(truth, truth')
      BY <1>1 DEF PInv, WorldOK, Moves
    <2>8. AtMost(wrote, truth)
      <3> SUFFICES ASSUME NEW th \in Things PROVE wrote[th] <= truth[th]
        BY DEF AtMost
      <3>1. CASE th = w BY <2>3, <2>4, <3>1
      <3>2. CASE th # w BY <2>4, <2>7, <3>2
      <3>3. QED BY <3>1, <3>2
    <2>9. AtMost(wrote, truth') BY <2>4, <2>7, <2>8, AtMostOfAtMost
    <2>10. Sound(CallOf("refresh", t, m, jar, wrote), page', truth', sessions')
      BY <1>1, <1>2, <2>1, <2>4, <2>5, <2>6, <2>9, MadeSound DEF WorldOK
    <2>11. CallsOK' BY <1>1, <2>1, <2>2, <2>10, OneCall DEF PagesOK
    <2>12. QED BY <1>1, <2>2, <2>11 DEF PInv
  <1>5. QED BY <1>3, <1>4

(* A dashboard shows what a mounted call brought.                          *)
LEMMA ShownKeeps ==
    ASSUME PInv, WorldOK', Moves, NEW t \in Tabs, page[t].screen = "dash",
           NEW note \in {"", "busy", "done", "error"}, NEW shown \in [Cells -> Nat \cup {NoData}],
           page' = [page EXCEPT ![t].note = note, ![t].shown = shown],
           shown["total"] # NoData => shown["users"] # NoData /\ shown["total"] <= shown["users"],
           \A c \in Cells : shown[c] # NoData => page[t].since[Source(c)] <= shown[c]
    PROVE  PagesOK' /\ \A r \in Slots : Around(calls[r], page, page')
  <1> DEFINE pg == [page[t] EXCEPT !.note = note, !.shown = shown]
  <1>1. /\ pg \in Pages /\ pg.screen = page[t].screen /\ pg.since = page[t].since
        /\ pg.shown = shown /\ page' = [page EXCEPT ![t] = pg]
    BY DEF PInv, PagesOK, Pages
  <1> HIDE DEF pg
  <1>2. Shows(page[t], truth') BY StillShows DEF PInv, WorldOK, PagesOK, Moves
  <1>3. Shows(pg, truth') BY <1>1, <1>2 DEF Shows
  <1>4. PagesOK' BY <1>1, <1>3, OnePage
  <1>5. \A u \in Tabs : page'[u].since = page[u].since /\ page'[u].screen = page[u].screen
    BY <1>1 DEF PInv, PagesOK
  <1>6. \A r \in Slots : Around(calls[r], page, page')
    BY <1>5, SameAtMost DEF Around, PInv, PagesOK, Pages
  <1>7. QED BY <1>4, <1>6

(* Promise.all resolved.                                                   *)
LEMMA ApplyPInv ==
    ASSUME PInv, NEW s \in Slots, Apply(s)
    PROVE  PInv'
  <1> DEFINE t == calls[s].tab
             got == calls[s].got
             shown == [c \in Cells |-> IF c = "nodes" THEN page[t].shown[c] ELSE got[c]]
  <1>1. WorldOK' /\ Moves BY WorldRests DEF Apply, PInv
  <1>2. /\ calls[s].kind = "refresh" /\ jar' = jar /\ AskNodes(s) /\ t \in Tabs
        /\ Sound(calls[s], page, truth, sessions) /\ Shows(page[t], truth)
    BY DEF Apply, PInv, CallsOK, PagesOK, Sound
  <1>3. PagesOK' /\ \A r \in Slots : Around(calls[r], page, page')
    <2>1. CASE ~calls[s].mounted
      BY <1>1, <2>1, NoPage DEF Apply
    <2>2. CASE calls[s].mounted
      <3>1. page' = [page EXCEPT ![t].note = "", ![t].shown = shown]
        BY <1>2, <2>2 DEF Apply, PInv, PagesOK
      <3>2. \A c \in Cells \ {"nodes"} : got[c] \in Nat /\ shown[c] = got[c]
        BY DEF Apply, Asked
      <3>3. shown["nodes"] = page[t].shown["nodes"] /\ page[t].shown \in [Cells -> Nat \cup {NoData}]
        BY <1>2, Sources DEF Shows, Pages
      <3>4. shown \in [Cells -> Nat \cup {NoData}]
        BY <3>2, <3>3
      <3>5. page[t].screen = "dash"
        BY <1>2, <2>2 DEF Sound, OfDashboard
      <3>6. shown["users"] # NoData /\ shown["total"] <= shown["users"]
        BY <1>2, <3>2, Sources, AnswersAssumption DEF Sound, CountedFirst
      <3>7. ASSUME NEW c \in Cells, shown[c] # NoData
            PROVE  page[t].since[Source(c)] <= shown[c]
        <4>1. CASE c = "nodes"
          BY <1>2, <3>3, <3>7, <4>1 DEF Shows
        <4>2. CASE c # "nodes"
          BY <1>2, <2>2, <3>2, <4>2 DEF Sound, GotBetween
        <4>3. QED BY <4>1, <4>2
      <3> HIDE DEF t, got, shown
      <3>8. QED BY <1>1, <1>2, <3>1, <3>4, <3>5, <3>6, <3>7, ShownKeeps
    <2>3. QED BY <2>1, <2>2 DEF PInv, CallsOK, Calls
  <1>4. CallsOK' BY <1>1, <1>2, <1>3, AskNodesKeeps DEF PagesOK
  <1>5. QED BY <1>1, <1>3, <1>4 DEF PInv

(* The registry came, or an error.                                         *)
LEMMA NodesAnsweredPInv ==
    ASSUME PInv, NEW s \in Slots, NodesAnswered(s)
    PROVE  PInv'
  <1> DEFINE t == calls[s].tab
             v == IF calls[s].got["nodes"] \in Nat THEN calls[s].got["nodes"] ELSE NoData
             shown == [page[t].shown EXCEPT !["nodes"] = v]
  <1>1. WorldOK' /\ Moves BY WorldRests DEF NodesAnswered, PInv
  <1>2. /\ calls[s].kind = "nodes" /\ calls' = [calls EXCEPT ![s] = Idle] /\ t \in Tabs
        /\ Sound(calls[s], page, truth, sessions) /\ Shows(page[t], truth)
    BY DEF NodesAnswered, PInv, CallsOK, PagesOK, Sound
  <1>3. PagesOK' /\ \A r \in Slots : Around(calls[r], page, page')
    <2>1. CASE ~calls[s].mounted
      BY <1>1, <2>1, NoPage DEF NodesAnswered
    <2>2. CASE calls[s].mounted
      <3>1. page[t].note \in {"", "busy", "done", "error"}
        BY <1>2 DEF Shows, Pages
      <3>2. page' = [page EXCEPT ![t].shown["nodes"] = v]
        BY <2>2 DEF NodesAnswered
      <3>3. page' = [page EXCEPT ![t].note = page[t].note, ![t].shown = shown]
        BY <1>2, <3>2 DEF PInv, PagesOK, Shows, Pages
      <3>4. /\ v \in Nat \cup {NoData} /\ shown \in [Cells -> Nat \cup {NoData}] /\ shown["nodes"] = v
            /\ \A c \in Cells \ {"nodes"} : shown[c] = page[t].shown[c]
        BY <1>2, Sources DEF Shows, Pages
      <3>5. page[t].screen = "dash"
        BY <1>2, <2>2 DEF Sound, OfDashboard
      <3>6. shown["total"] # NoData => shown["users"] # NoData /\ shown["total"] <= shown["users"]
        BY <1>2, <3>4, Sources DEF Shows
      <3>7. ASSUME NEW c \in Cells, shown[c] # NoData
            PROVE  page[t].since[Source(c)] <= shown[c]
        <4>1. CASE c = "nodes"
          <5>1. calls[s].got["nodes"] \in Nat /\ shown[c] = calls[s].got["nodes"]
            BY <3>4, <3>7, <4>1
          <5>2. QED BY <1>2, <2>2, <4>1, <5>1, Sources DEF Sound, GotBetween
        <4>2. CASE c # "nodes"
          BY <1>2, <3>4, <3>7, <4>2 DEF Shows
        <4>3. QED BY <4>1, <4>2
      <3> HIDE DEF t, v, shown
      <3>8. QED BY <1>1, <1>2, <3>1, <3>3, <3>4, <3>5, <3>6, <3>7, ShownKeeps
    <2>3. QED BY <2>1, <2>2 DEF PInv, CallsOK, Calls
  <1>4. Sound(Idle, page', truth', sessions') BY <1>1, IdleSound DEF WorldOK
  <1>5. CallsOK' BY <1>1, <1>2, <1>3, <1>4, OneCall DEF PagesOK
  <1>6. QED BY <1>1, <1>3, <1>5 DEF PInv

-----------------------------------------------------------------------------
(* The daemon answers a request.                                           *)
LEMMA AnswerPInv ==
    ASSUME PInv, WorldOK', Moves, page' = page, NEW s \in Slots, NEW p \in Parts,
           NEW v \in Answers \ {NoData, Pending}, Answer(s, p, v), Issued(v, sessions'),
           p \in Cells /\ v \in Nat => v = truth'[Source(p)],
           p = "users" /\ v \in Nat => calls[s].got["total"] \in Nat,
           p = "reply" /\ v \in Nat /\ calls[s].kind \in Commands =>
               v <= truth'[Written(calls[s].kind)],
           v = Ok /\ calls[s].kind = "logout" /\ calls[s].cookie \in Tokens =>
               sessions'[calls[s].cookie] # "live"
    PROVE  PInv'
  <1>1. PagesOK' /\ \A r \in Slots : Around(calls[r], page, page') BY NoPage
  <1>2. Sound(calls[s], page', truth', sessions')
    BY <1>1, Stays DEF PInv, WorldOK, PagesOK, CallsOK, Moves
  <1>3. calls[s].got[p] = Pending /\ calls' = [calls EXCEPT ![s] = Answered(calls[s], p, v)]
    BY DEF Answer, Answered
  <1>4. \A t \in Tabs : AtMost(page'[t].since, truth')
    BY <1>1 DEF PagesOK, Shows
  <1>5. p = "users" /\ v \in Nat => calls[s].got["total"] \in Nat /\ calls[s].got["total"] <= v
    BY <1>2, Sources DEF Sound, GotBetween, Source
  <1>6. Sound(Answered(calls[s], p, v), page', truth', sessions')
    BY <1>1, <1>2, <1>3, <1>4, <1>5, AnsweredSound DEF PagesOK, WorldOK
  <1>7. CallsOK' BY <1>1, <1>3, <1>6, OneCall DEF PagesOK
  <1>8. QED BY <1>1, <1>7 DEF PInv

(* What is neither a version nor a token tells nothing.                    *)
LEMMA Words ==
    /\ {Unauthorized, Failed, Ok} \subseteq Answers \ {NoData, Pending}
    /\ \A v \in {Unauthorized, Failed, Ok} : v \notin Nat /\ v \notin Tokens
    /\ Unauthorized # Ok /\ Failed # Ok
    /\ Nat \cup Tokens \subseteq Answers \ {NoData, Pending}
  BY AnswersAssumption DEF Answers

LEMMA ErrorPInv ==
    ASSUME PInv, WorldOK', Moves, page' = page, NEW s \in Slots, NEW p \in Parts,
           NEW v \in {Unauthorized, Failed}, Answer(s, p, v)
    PROVE  PInv'
  <1>1. v \in Answers \ {NoData, Pending} /\ v \notin Nat /\ v \notin Tokens /\ v # Ok
    BY Words
  <1>2. Issued(v, sessions') BY <1>1 DEF Issued
  <1>3. QED BY <1>1, <1>2, AnswerPInv

(* The world while the daemon looks at a cookie.                           *)
LEMMA WorldServes ==
    ASSUME WorldOK, UNCHANGED <<enabled, jar, spent>>,
           truth' = truth \/ \E th \in Things : truth' = [truth EXCEPT ![th] = @ + 1],
           \/ sessions' = sessions
           \/ \E c \in Cookies : Check(c) \/ LogOut(c)
           \/ \E t \in Tokens : LogIn(t)
    PROVE  WorldOK' /\ Moves
  <1>1. sessions' \in [Tokens -> Lives] /\ Ages(sessions, sessions')
    BY SessionsMove DEF WorldOK
  <1>2. truth' \in [Things -> Nat] /\ AtMost(truth, truth')
    BY TruthMoves DEF WorldOK
  <1>3. spent' \in [changes : 0 .. MaxChanges, clicks : 0 .. MaxClicks, faults : 0 .. MaxFaults]
    BY DEF WorldOK
  <1>4. QED BY <1>1, <1>2, <1>3, WorldStays DEF Moves

LEMMA ServeReadPInv ==
    ASSUME PInv, NEW s \in Slots, NEW p \in Cells, ServeRead(s, p)
    PROVE  PInv'
  <1>1. UNCHANGED <<enabled, truth, jar, page, spent>> BY DEF ServeRead
  <1>2. calls[s].cookie \in Cookies BY DEF PInv, CallsOK, Calls
  <1>3. WorldOK' /\ Moves
    BY <1>1, <1>2, WorldServes DEF ServeRead, PInv
  <1>4. p \in Parts /\ p # "reply" /\ Source(p) \in Things /\ truth[Source(p)] \in Nat
    BY Sources DEF PInv, WorldOK
  <1>5. CASE Answer(s, p, Unauthorized)
    BY <1>1, <1>3, <1>4, <1>5, ErrorPInv
  <1>6. CASE Answer(s, p, truth[Source(p)]) /\ (p = "users" => calls[s].got["total"] \in Nat)
    <2> DEFINE v == truth[Source(p)]
    <2>1. v \in Answers \ {NoData, Pending} /\ v \in Nat /\ v \notin Tokens /\ v # Ok
      BY <1>4, Words, AnswersAssumption
    <2>2. v = truth'[Source(p)] BY <1>1
    <2> HIDE DEF v
    <2>3. Issued(v, sessions') BY <2>1 DEF Issued
    <2>4. Answer(s, p, v) BY <1>6 DEF v
    <2>5. QED BY <1>1, <1>3, <1>4, <1>6, <2>1, <2>2, <2>3, <2>4, AnswerPInv
  <1>7. QED BY <1>5, <1>6 DEF ServeRead, Source

(* The answers that are neither versions nor tokens.                       *)
LEMMA WordsPInv ==
    ASSUME PInv, NEW s \in Slots, ServeMe(s) \/ RefuseLogin(s) \/ RefuseCommand(s)
    PROVE  PInv'
  <1>1. UNCHANGED <<enabled, truth, jar, page, spent>>
    BY DEF ServeMe, RefuseLogin, RefuseCommand, auth
  <1>2. calls[s].cookie \in Cookies BY DEF PInv, CallsOK, Calls
  <1>3. WorldOK' /\ Moves
    BY <1>1, <1>2, WorldServes DEF ServeMe, RefuseLogin, RefuseCommand, auth, PInv
  <1>4. CASE \E v \in {Unauthorized, Failed} : Answer(s, "reply", v)
    BY <1>1, <1>3, <1>4, Sources, ErrorPInv
  <1>5. CASE calls[s].kind = "me" /\ Answer(s, "reply", Ok)
    <2>1. Issued(Ok, sessions') BY Words DEF Issued
    <2>2. QED BY <1>1, <1>3, <1>5, <2>1, Sources, Words, AnswerPInv
  <1>6. QED BY <1>4, <1>5 DEF ServeMe, RefuseLogin, RefuseCommand

LEMMA ServeLoginPInv ==
    ASSUME PInv, NEW s \in Slots, ServeLogin(s)
    PROVE  PInv'
  <1>1. UNCHANGED <<enabled, truth, jar, page, spent>> /\ calls[s].kind = "login"
    BY DEF ServeLogin
  <1>2. PICK t \in Tokens : LogIn(t) /\ Answer(s, "reply", t)
    BY DEF ServeLogin
  <1>3. WorldOK' /\ Moves
    BY <1>1, <1>2, WorldServes DEF PInv
  <1>4. Issued(t, sessions')
    BY <1>2 DEF Issued, LogIn, PInv, WorldOK
  <1>5. t \in Answers \ {NoData, Pending} /\ t \notin Nat
    BY Words, AnswersAssumption
  <1>6. QED BY <1>1, <1>2, <1>3, <1>4, <1>5, Sources, AnswerPInv

LEMMA ServeLogoutPInv ==
    ASSUME PInv, NEW s \in Slots, ServeLogout(s)
    PROVE  PInv'
  <1>1. UNCHANGED <<enabled, truth, jar, page, spent>> /\ calls[s].kind = "logout"
    BY DEF ServeLogout
  <1>2. calls[s].cookie \in Cookies BY DEF PInv, CallsOK, Calls
  <1>3. WorldOK' /\ Moves
    BY <1>1, <1>2, WorldServes DEF ServeLogout, PInv
  <1>4. CASE Answer(s, "reply", Unauthorized)
    BY <1>1, <1>3, <1>4, Sources, ErrorPInv
  <1>5. CASE LogOut(calls[s].cookie) /\ Answer(s, "reply", Ok)
    <2>1. calls[s].cookie \in Tokens => sessions'[calls[s].cookie] # "live"
      BY <1>5 DEF LogOut
    <2>2. Issued(Ok, sessions') BY Words DEF Issued
    <2>3. QED BY <1>1, <1>3, <1>5, <2>1, <2>2, Sources, Words, AnswerPInv
  <1>6. QED BY <1>4, <1>5 DEF ServeLogout

LEMMA ServeCommandPInv ==
    ASSUME PInv, NEW s \in Slots, ServeCommand(s)
    PROVE  PInv'
  <1> DEFINE th == Written(calls[s].kind)
             v == truth'[th]
  <1>1. /\ UNCHANGED <<enabled, sessions, jar, page, spent>> /\ calls[s].kind \in Commands
        /\ th \in Things /\ truth' = [truth EXCEPT ![th] = @ + 1] /\ Answer(s, "reply", v)
    BY Sources DEF ServeCommand, auth
  <1>2. WorldOK' /\ Moves
    BY <1>1, WorldServes DEF PInv
  <1>3. v \in Nat BY <1>1, <1>2 DEF WorldOK
  <1>4. v <= truth'[Written(calls[s].kind)] BY <1>3
  <1>5. "logout" \notin Commands BY DEF Commands
  <1> HIDE DEF th, v
  <1>6. v \in Answers \ {NoData, Pending} /\ v \notin Tokens
    BY <1>3, Words, AnswersAssumption
  <1>7. Issued(v, sessions') BY <1>6 DEF Issued
  <1>8. QED BY <1>1, <1>2, <1>4, <1>5, <1>6, <1>7, Sources, AnswerPInv

-----------------------------------------------------------------------------
(* A call some of whose answers are lost.                                  *)
LEMMA LostSound ==
    ASSUME NEW call, NEW got \in [Parts -> Answers], NEW pages, NEW tr \in [Things -> Nat],
           NEW se \in [Tokens -> Lives], Sound(call, pages, tr, se),
           \A p \in Parts : got[p] = call.got[p] \/ got[p] \in {NoData, Failed},
           got["total"] = call.got["total"] \/ got["users"] \notin Nat
    PROVE  Sound([call EXCEPT !.got = got], pages, tr, se)
  <1> DEFINE new == [call EXCEPT !.got = got]
  <1>1. /\ new.kind = call.kind /\ new.tab = call.tab /\ new.mounted = call.mounted
        /\ new.cookie = call.cookie /\ new.wrote = call.wrote /\ new.got = got /\ new \in Calls
    BY DEF Sound, Calls
  <1> HIDE DEF new
  <1>2. \A v \in {NoData, Failed} : v \notin Nat /\ v \notin Tokens /\ v # Ok
    BY AnswersAssumption
  <1>3. Issued(new.cookie, se) /\ Issued(new.got["reply"], se)
    BY <1>1, <1>2, Sources DEF Sound, Issued
  <1>4. GotBetween(new, pages, tr)
    BY <1>1, <1>2, Sources DEF Sound, GotBetween
  <1>5. CountedFirst(new.got)
    BY <1>1, <1>2, Sources DEF Sound, CountedFirst
  <1>6. Sound(new, pages, tr, se)
    BY <1>1, <1>2, <1>3, <1>4, <1>5, Sources DEF Sound
  <1>7. QED BY <1>6 DEF new

LEMMA LosePInv ==
    ASSUME PInv, NEW s \in Slots, NEW p \in Parts, Lose(s, p)
    PROVE  PInv'
  <1>1. UNCHANGED <<auth, truth, jar, page>> /\ Spend("faults", MaxFaults) /\ Answer(s, p, Failed)
    BY DEF Lose
  <1>2. WorldOK' /\ Moves
    <2>1. spent' \in [changes : 0 .. MaxChanges, clicks : 0 .. MaxClicks, faults : 0 .. MaxFaults]
      BY <1>1, SpentMoves DEF PInv, WorldOK
    <2>2. Moves BY <1>1, SameAtMost DEF Moves, Ages, auth, PInv, WorldOK
    <2>3. QED BY <1>1, <2>1, <2>2 DEF PInv, WorldOK, auth
  <1>3. QED BY <1>1, <1>2, ErrorPInv

LEMMA LoseAnswerPInv ==
    ASSUME PInv, NEW s \in Slots, LoseAnswer(s)
    PROVE  PInv'
  <1> DEFINE got == [calls[s].got EXCEPT !["reply"] = Failed]
             new == [calls[s] EXCEPT !.got = got]
  <1>1. UNCHANGED <<auth, truth, jar, page>> /\ Spend("faults", MaxFaults)
    BY DEF LoseAnswer
  <1>2. WorldOK' /\ Moves
    <2>1. spent' \in [changes : 0 .. MaxChanges, clicks : 0 .. MaxClicks, faults : 0 .. MaxFaults]
      BY <1>1, SpentMoves DEF PInv, WorldOK
    <2>2. Moves BY <1>1, SameAtMost DEF Moves, Ages, auth, PInv, WorldOK
    <2>3. QED BY <1>1, <2>1, <2>2 DEF PInv, WorldOK, auth
  <1>3. calls' = [calls EXCEPT ![s] = new]
    BY DEF LoseAnswer
  <1>4. /\ got \in [Parts -> Answers]
        /\ \A p \in Parts : got[p] = calls[s].got[p] \/ got[p] \in {NoData, Failed}
        /\ got["total"] = calls[s].got["total"]
    BY Sources DEF PInv, CallsOK, Calls, Answers
  <1>5. Sound(calls[s], page', truth', sessions')
    BY <1>1 DEF PInv, CallsOK, auth
  <1> HIDE DEF got
  <1>6. Sound(new, page', truth', sessions')
    BY <1>2, <1>4, <1>5, LostSound DEF WorldOK
  <1> HIDE DEF new
  <1>7. PagesOK' /\ \A r \in Slots : Around(calls[r], page, page') BY <1>1, <1>2, NoPage
  <1>8. CallsOK' BY <1>2, <1>3, <1>6, <1>7, OneCall DEF PagesOK
  <1>9. QED BY <1>2, <1>7, <1>8 DEF PInv

(* Everything under way fails with the daemon.                             *)
LEMMA RestartPInv ==
    ASSUME PInv, Restart
    PROVE  PInv'
  <1>1. /\ UNCHANGED <<enabled, jar, page>> /\ Spend("faults", MaxFaults) /\ Forget
        /\ truth' = [th \in Things |-> IF th = "sync" THEN truth[th] + 1 ELSE truth[th]]
    BY DEF Restart
  <1>2. sessions' \in [Tokens -> Lives] /\ Ages(sessions, sessions')
    BY <1>1, SessionsMove DEF PInv, WorldOK
  <1>3. truth' \in [Things -> Nat] /\ AtMost(truth, truth')
    BY <1>1, TruthMoves DEF PInv, WorldOK
  <1>4. spent' \in [changes : 0 .. MaxChanges, clicks : 0 .. MaxClicks, faults : 0 .. MaxFaults]
    BY <1>1, SpentMoves DEF PInv, WorldOK
  <1>5. Moves BY <1>2, <1>3 DEF Moves
  <1>6. WorldOK' BY <1>1, <1>2, <1>3, <1>4, <1>5, WorldStays DEF PInv
  <1>7. PagesOK' /\ \A r \in Slots : Around(calls[r], page, page') BY <1>1, <1>5, <1>6, NoPage
  <1>8. ASSUME NEW s \in Slots
        PROVE  Sound(calls'[s], page', truth', sessions')
    <2> DEFINE got == [p \in Parts |-> IF calls[s].got[p] = NoData THEN NoData ELSE Failed]
    <2>1. Sound(calls[s], page', truth', sessions')
      BY <1>5, <1>6, <1>7, Stays DEF PInv, WorldOK, PagesOK, CallsOK, Moves
    <2>2. \/ calls'[s] = calls[s]
          \/ calls'[s] = [calls[s] EXCEPT !.got = got]
      BY DEF Restart
    <2>3. /\ got \in [Parts -> Answers] /\ got["users"] \notin Nat
          /\ \A p \in Parts : got[p] \in {NoData, Failed}
      BY Sources, AnswersAssumption DEF Answers
    <2> HIDE DEF got
    <2>4. Sound([calls[s] EXCEPT !.got = got], page', truth', sessions')
      BY <1>6, <2>1, <2>3, LostSound DEF WorldOK
    <2>5. QED BY <2>1, <2>2, <2>4
  <1>9. calls' = [s \in Slots |-> calls'[s]]
    BY DEF Restart
  <1>10. CallsOK' BY <1>8, <1>9 DEF CallsOK, Sound
  <1>11. QED BY <1>6, <1>7, <1>10 DEF PInv

(* The world moves on and nothing else.                                    *)
LEMMA OthersPInv ==
    ASSUME PInv, UNCHANGED <<enabled, jar, page, calls>>,
           \/ sessions' = sessions /\ \E th \in Things : truth' = [truth EXCEPT ![th] = @ + 1]
           \/ truth' = truth /\ \E t \in Tokens : Expire(t)
           \/ UNCHANGED <<sessions, truth>>,
           spent' = spent \/ Spend("changes", MaxChanges)
    PROVE  PInv'
  <1>1. sessions' \in [Tokens -> Lives] /\ Ages(sessions, sessions')
    BY SessionsMove DEF PInv, WorldOK
  <1>2. truth' \in [Things -> Nat] /\ AtMost(truth, truth')
    BY TruthMoves DEF PInv, WorldOK
  <1>3. spent' \in [changes : 0 .. MaxChanges, clicks : 0 .. MaxClicks, faults : 0 .. MaxFaults]
    BY SpentMoves DEF PInv, WorldOK
  <1>4. Moves BY <1>1, <1>2 DEF Moves
  <1>5. WorldOK' BY <1>1, <1>2, <1>3, <1>4, WorldStays DEF PInv
  <1>6. PagesOK' /\ \A r \in Slots : Around(calls[r], page, page') BY <1>4, <1>5, NoPage
  <1>7. \A s \in Slots : Sound(calls[s], page', truth', sessions')
    BY <1>4, <1>5, <1>6, Stays DEF PInv, WorldOK, PagesOK, CallsOK, Moves
  <1>8. CallsOK' BY <1>7 DEF PInv, CallsOK
  <1>9. QED BY <1>5, <1>6, <1>8 DEF PInv

-----------------------------------------------------------------------------
(* Every step keeps the invariant.                                         *)
LEMMA StepPInv == PInv /\ [Next]_vars => PInv'
  <1> SUFFICES ASSUME PInv, [Next]_vars PROVE PInv' OBVIOUS
  <1>1. ASSUME NEW t \in Tabs, Click(t) PROVE PInv'
    BY <1>1, OpenPInv, AsksPInv, ClickActPInv DEF Click
  <1>2. ASSUME NEW s \in Slots, Serve(s) PROVE PInv'
    BY <1>2, ServeReadPInv, WordsPInv, ServeLoginPInv, ServeLogoutPInv, ServeCommandPInv DEF Serve
  <1>3. ASSUME NEW s \in Slots, Settle(s) PROVE PInv'
    BY <1>3, ScreensPInv, LoginAnsweredPInv, ApplyPInv, RejectPInv, NodesAnsweredPInv, ActAnsweredPInv
    DEF Settle
  <1>4. CASE World
    <2>1. ASSUME NEW s \in Slots, LoseAnswer(s) PROVE PInv' BY <2>1, LoseAnswerPInv
    <2>2. ASSUME NEW s \in Slots, NEW p \in Parts, Lose(s, p) PROVE PInv' BY <2>2, LosePInv
    <2>3. CASE Restart BY <2>3, RestartPInv
    <2>4. CASE SessionEnds BY <2>4, OthersPInv DEF SessionEnds
    <2>5. ASSUME NEW th \in Things, Change(th) PROVE PInv'
      BY <2>5, OthersPInv DEF Change, auth
    <2>6. QED BY <1>4, <2>1, <2>2, <2>3, <2>4, <2>5 DEF World
  <1>5. CASE UNCHANGED vars
    BY <1>5, OthersPInv DEF vars, auth
  <1>6. QED BY <1>1, <1>2, <1>3, <1>4, <1>5 DEF Next

-----------------------------------------------------------------------------
(* A command under way of the dashboard of t.                              *)
Working(call, t) == call.kind \in Commands /\ call.tab = t /\ call.mounted

(* Nothing is shown as under way that was not, and what is stays so.       *)
StillWorking ==
    \A t \in Tabs : page'[t].note = "busy" =>
        page[t].note = "busy" /\ \A s \in Slots : Working(calls[s], t) => Working(calls'[s], t)

LEMMA BusyStays ==
    ASSUME BusyHasCommand, StillWorking
    PROVE  BusyHasCommand'
  BY DEF BusyHasCommand, StillWorking, Working

(* A step in which only the call s, which is no command of a busy tab,     *)
(* changes, and nobody becomes busy.                                       *)
LEMMA OneStops ==
    ASSUME PInv, NEW s \in Slots, NEW new, calls' = [calls EXCEPT ![s] = new],
           \A t \in Tabs : page'[t].note = "busy" =>
               page[t].note = "busy" /\ ~Working(calls[s], t)
    PROVE  StillWorking
  BY DEF StillWorking, PInv, CallsOK

(* The components of one tab are replaced by some without a message.       *)
LEMMA ReplacedStops ==
    ASSUME PInv, NEW s \in Slots, NEW t \in Tabs, NEW new, NEW pg, pg.note = "",
           page' = [page EXCEPT ![t] = pg], calls' = [Unmounted(t) EXCEPT ![s] = new],
           calls[s].kind \notin Commands
    PROVE  StillWorking
  <1>1. /\ page \in [Tabs -> Pages] /\ page'[t].note = ""
        /\ \A u \in Tabs \ {t} : page'[u] = page[u]
    BY DEF PInv, PagesOK
  <1>2. \A r \in Slots \ {s} : calls[r].tab # t => calls'[r] = calls[r]
    BY DEF Unmounted
  <1>3. ASSUME NEW u \in Tabs, page'[u].note = "busy", NEW r \in Slots, Working(calls[r], u)
        PROVE  Working(calls'[r], u)
    <2>1. u # t BY <1>1, <1>3
    <2>2. r # s /\ calls[r].tab # t BY <1>3, <2>1 DEF Working
    <2>3. QED BY <1>2, <1>3, <2>2
  <1>4. \A u \in Tabs : page'[u].note = "busy" => page[u].note = "busy" BY <1>1
  <1>5. QED BY <1>3, <1>4 DEF StillWorking

(* A page that has just been shown has no message.                         *)
LEMMA PageQuiet == \A screen, since : PageOf(screen, since).note = ""
  BY DEF PageOf

LEMMA ScreensStop ==
    ASSUME PInv, NEW s \in Slots, calls[s].kind \notin Commands \cup {"idle"},
           ShowDashboard(s) \/ ShowLogin(s)
    PROVE  StillWorking
  <1> DEFINE t == calls[s].tab
  <1>1. t \in Tabs BY DEF PInv, CallsOK, Sound
  <1>2. CASE page' = page /\ calls' = [calls EXCEPT ![s] = Idle]
    BY <1>2, OneStops DEF Working
  <1>3. CASE \E pg \in {Dashboard, Login} : \E new :
               page' = [page EXCEPT ![t] = pg] /\ calls' = [Unmounted(t) EXCEPT ![s] = new]
    <2>1. PICK pg \in {Dashboard, Login} : \E new :
              page' = [page EXCEPT ![t] = pg] /\ calls' = [Unmounted(t) EXCEPT ![s] = new]
      BY <1>3
    <2>2. PICK new : calls' = [Unmounted(t) EXCEPT ![s] = new] BY <2>1
    <2>3. page' = [page EXCEPT ![t] = pg] BY <2>1
    <2>4. pg.note = "" BY PageQuiet DEF Dashboard, Login
    <2> HIDE DEF t
    <2>5. QED BY <1>1, <2>2, <2>3, <2>4, ReplacedStops
  <1>4. QED BY <1>2, <1>3 DEF ShowDashboard, ShowLogin

(* A message other than the dots.                                          *)
LEMMA NoteStops ==
    ASSUME PInv, NEW s \in Slots, calls[s].kind # "idle", NEW text \in {"", "done", "error"},
           page' = Note(s, text), NEW new, calls' = [calls EXCEPT ![s] = new]
    PROVE  StillWorking
  <1>1. calls[s].tab \in Tabs /\ page \in [Tabs -> Pages]
    BY DEF PInv, PagesOK, CallsOK, Sound
  <1>2. \A t \in Tabs : page'[t].note = "busy" => page[t].note = "busy" /\ ~Working(calls[s], t)
    BY <1>1 DEF Note, Pages, Working
  <1>3. QED BY <1>2, OneStops

LEMMA SettleBusy ==
    ASSUME PInv, BusyHasCommand, NEW s \in Slots, Settle(s)
    PROVE  BusyHasCommand'
  <1>1. \A kind \in {"me", "login", "logout", "refresh", "nodes", "idle"} : kind \notin Commands
    BY DEF Commands
  <1>2. "idle" \notin Commands BY <1>1
  <1>3. CASE MeAnswered(s)
    BY <1>1, <1>3, ScreensStop, BusyStays DEF MeAnswered
  <1>4. CASE LogoutAnswered(s)
    BY <1>1, <1>4, ScreensStop, BusyStays DEF LogoutAnswered
  <1>5. CASE LoginAnswered(s)
    BY <1>1, <1>5, ScreensStop, NoteStops, BusyStays DEF LoginAnswered
  <1>6. CASE Reject(s)
    BY <1>1, <1>6, ScreensStop, NoteStops, BusyStays DEF Reject, AskNodes
  <1>7. CASE ActAnswered(s)
    BY <1>2, <1>7, NoteStops, BusyStays DEF ActAnswered
  <1>8. CASE Apply(s) \/ NodesAnswered(s)
    <2>1. calls[s].kind \in {"refresh", "nodes"} /\ calls[s].tab \in Tabs
          /\ page \in [Tabs -> Pages]
      BY <1>8 DEF Apply, NodesAnswered, PInv, PagesOK, CallsOK, Sound
    <2>2. \A t \in Tabs : page'[t].note \in {"", page[t].note}
      <3>1. CASE page' = page BY <3>1
      <3>2. CASE Apply(s) /\ page' # page
        BY <2>1, <3>2 DEF Apply, Pages
      <3>3. CASE NodesAnswered(s) /\ page' # page
        BY <2>1, <3>3 DEF NodesAnswered, Pages
      <3>4. QED BY <1>8, <3>1, <3>2, <3>3
    <2>3. \E new : calls' = [calls EXCEPT ![s] = new]
      BY <1>8 DEF Apply, NodesAnswered, AskNodes
    <2>4. \A t \in Tabs : page'[t].note = "busy" => page[t].note = "busy" /\ ~Working(calls[s], t)
      BY <1>1, <2>1, <2>2 DEF Working
    <2>5. QED BY <2>3, <2>4, OneStops, BusyStays
  <1>9. QED BY <1>3, <1>4, <1>5, <1>6, <1>7, <1>8 DEF Settle

LEMMA ClickBusy ==
    ASSUME PInv, BusyHasCommand, NEW t \in Tabs, Click(t)
    PROVE  BusyHasCommand'
  <1>1. PICK s \in Slots :
            \/ Open(t, s) \/ SubmitLogin(t, s) \/ ClickLogout(t, s) \/ Refresh(t, s)
            \/ \E kind \in Commands : ClickAct(t, s, kind)
    BY DEF Click
  <1>2. calls[s].kind = "idle" /\ "idle" \notin Commands /\ page \in [Tabs -> Pages]
    BY <1>1 DEF Open, SubmitLogin, ClickLogout, Refresh, ClickAct, Free, Commands, PInv, PagesOK
  <1>3. \A u \in Tabs : ~Working(calls[s], u) BY <1>2 DEF Working
  <1>4. CASE Open(t, s)
    <2>1. \A u \in Tabs : page'[u].note = "busy" => page[u].note = "busy"
      BY <1>2, <1>4 DEF Open, PageOf
    <2>2. QED BY <1>3, <1>4, <2>1, OneStops, BusyStays DEF Open
  <1>5. CASE SubmitLogin(t, s) \/ ClickLogout(t, s) \/ Refresh(t, s)
    BY <1>3, <1>5, OneStops, BusyStays DEF SubmitLogin, ClickLogout, Refresh
  <1>6. ASSUME NEW kind \in Commands, ClickAct(t, s, kind) PROVE BusyHasCommand'
    <2>1. /\ calls' = [calls EXCEPT ![s] = Call(kind, t)]
          /\ page' = [page EXCEPT ![t].note = "busy"]
      BY <1>6 DEF ClickAct
    <2>2. calls'[s] = Call(kind, t) /\ \A r \in Slots \ {s} : calls'[r] = calls[r]
      BY <2>1 DEF PInv, CallsOK
    <2>3. Working(calls'[s], t) BY <2>2 DEF Working, Call, CallOf
    <2>4. ASSUME NEW u \in Tabs, page'[u].note = "busy"
          PROVE  \E r \in Slots : Working(calls'[r], u)
      <3>1. CASE u = t BY <2>3, <3>1
      <3>2. CASE u # t
        <4>1. page[u].note = "busy" BY <1>2, <2>1, <2>4, <3>2
        <4>2. PICK r \in Slots : Working(calls[r], u)
          BY <4>1 DEF BusyHasCommand, Working
        <4>3. r # s BY <1>3, <4>2
        <4>4. QED BY <2>2, <4>2, <4>3
      <3>3. QED BY <3>1, <3>2
    <2>5. QED BY <2>4 DEF BusyHasCommand, Working
  <1>7. QED BY <1>1, <1>4, <1>5, <1>6

(* The daemon and the network only give answers.                           *)
LEMMA AnswerBusy ==
    ASSUME PInv, BusyHasCommand, page' = page,
           \A s \in Slots : \E got : calls'[s] = [calls[s] EXCEPT !.got = got]
    PROVE  BusyHasCommand'
  <1>1. \A s \in Slots : calls'[s].kind = calls[s].kind /\ calls'[s].tab = calls[s].tab
                         /\ calls'[s].mounted = calls[s].mounted
    BY DEF PInv, CallsOK, Calls
  <1>2. QED BY <1>1 DEF BusyHasCommand

LEMMA OneAnswered ==
    ASSUME PInv, NEW s \in Slots, NEW got, calls' = [calls EXCEPT ![s].got = got]
    PROVE  \A r \in Slots : \E g : calls'[r] = [calls[r] EXCEPT !.got = g]
  <1> SUFFICES ASSUME NEW r \in Slots PROVE \E g : calls'[r] = [calls[r] EXCEPT !.got = g]
    OBVIOUS
  <1>1. CASE r = s BY <1>1 DEF PInv, CallsOK
  <1>2. CASE r # s
    <2>1. calls'[r] = [calls[r] EXCEPT !.got = calls[r].got]
      BY <1>2 DEF PInv, CallsOK, Calls
    <2>2. QED BY <2>1
  <1>3. QED BY <1>1, <1>2

LEMMA ServeBusy ==
    ASSUME PInv, BusyHasCommand, NEW s \in Slots,
           \/ Serve(s) \/ LoseAnswer(s) \/ \E p \in Parts : Lose(s, p)
    PROVE  BusyHasCommand'
  <1>1. page' = page
    BY DEF Serve, ServeRead, ServeMe, ServeLogin, RefuseLogin, ServeLogout, ServeCommand,
           RefuseCommand, LoseAnswer, Lose
  <1>2. (\E p \in Parts : \E v : Answer(s, p, v)) \/ LoseAnswer(s)
    BY Sources DEF Serve, ServeRead, ServeMe, ServeLogin, RefuseLogin, ServeLogout, ServeCommand,
                   RefuseCommand, Lose
  <1>3. \E got : calls' = [calls EXCEPT ![s].got = got]
    BY <1>2 DEF Answer, LoseAnswer
  <1>4. QED BY <1>1, <1>3, OneAnswered, AnswerBusy

LEMMA StepBusy ==
    ASSUME PInv, BusyHasCommand, [Next]_vars
    PROVE  BusyHasCommand'
  <1>1. CASE Restart
    <2>1. ASSUME NEW s \in Slots
          PROVE  \E got : calls'[s] = [calls[s] EXCEPT !.got = got]
      <3>1. calls[s] = [calls[s] EXCEPT !.got = calls[s].got] BY DEF PInv, CallsOK, Calls
      <3>2. QED BY <1>1, <3>1 DEF Restart
    <2>2. QED BY <1>1, <2>1, AnswerBusy DEF Restart
  <1>2. CASE SessionEnds \/ (\E th \in Things : Change(th)) \/ UNCHANGED vars
    BY <1>2 DEF SessionEnds, Change, vars, BusyHasCommand
  <1>3. QED BY <1>1, <1>2, ClickBusy, SettleBusy, ServeBusy DEF Next, World

(* The invariant of the panel.                                             *)
THEOREM PanelInvariance == Spec => []PInv
  BY InitPInv, StepPInv, PTL DEF Spec

(* The types, and that only a dashboard shows anything: App's screens and  *)
(* the calls under way, whatever is clicked and lost.                      *)
THEOREM PanelTypeCorrect == Spec => []TypeOK
  <1>1. PInv => TypeOK
    BY DEF PInv, WorldOK, PagesOK, CallsOK, Sound, Shows, TypeOK
  <1>2. QED BY <1>1, PanelInvariance, PTL

(* An answered logout ended its session for every request (auth.go,        *)
(* POST /api/logout), because a token that was issued is never issued      *)
(* again.                                                                  *)
THEOREM LogoutIsFinal == Spec => []LogoutRevokes
  <1>1. PInv => LogoutRevokes
    BY DEF PInv, CallsOK, Sound, LogoutRevokes, Valid
  <1>2. QED BY <1>1, PanelInvariance, PTL

(* The list of a dashboard is not older than its count: ListUsersPage      *)
(* counts first, and a refresh is applied as a whole.                      *)
THEOREM ListNotOlderThanCount == Spec => []PageFollowsTotal
  <1>1. PInv => PageFollowsTotal
    <2> SUFFICES ASSUME PInv, NEW t \in Tabs, page[t].shown["total"] # NoData
                 PROVE  page[t].shown["users"] # NoData /\ page[t].shown["users"] >= page[t].shown["total"]
      BY DEF PageFollowsTotal
    <2>1. page[t].shown["users"] # NoData /\ page[t].shown["total"] <= page[t].shown["users"]
      BY DEF PInv, PagesOK, Shows
    <2>2. page[t].shown \in [Cells -> Nat \cup {NoData}]
      BY DEF PInv, PagesOK, Pages
    <2>3. page[t].shown["users"] \in Nat /\ page[t].shown["total"] \in Nat
      BY <2>1, <2>2, Sources
    <2>4. QED BY <2>1, <2>3
  <1>2. QED BY <1>1, PanelInvariance, PTL

(* Nothing an earlier dashboard of the tab had under way is shown by a     *)
(* later one, because the setters of an unmounted component do nothing.    *)
THEOREM NothingCarriedOver == Spec => []NoCarryOver
  <1>1. PInv => NoCarryOver
    <2> SUFFICES ASSUME PInv, NEW t \in Tabs, NEW c \in Cells, page[t].shown[c] # NoData
                 PROVE  page[t].shown[c] >= page[t].since[Source(c)]
      BY DEF NoCarryOver
    <2>1. page[t].since[Source(c)] <= page[t].shown[c]
      BY DEF PInv, PagesOK, Shows
    <2>2. page[t].shown \in [Cells -> Nat \cup {NoData}] /\ page[t].since \in [Things -> Nat]
      BY DEF PInv, PagesOK, Pages
    <2>3. page[t].shown[c] \in Nat /\ page[t].since[Source(c)] \in Nat
      BY <2>2, Sources
    <2>4. QED BY <2>1, <2>3
  <1>2. QED BY <1>1, PanelInvariance, PTL

(* What a command's refresh shows has the command's effect: refresh is     *)
(* called after fn() returned (App.tsx, act).                              *)
THEOREM WritesAreShown == Spec => ReadYourWrites
  <1> DEFINE Shown == \A s \in Slots :
                 Apply(s) /\ calls[s].mounted =>
                     \A c \in Cells \ {"nodes"} :
                         page'[calls[s].tab].shown[c] >= calls[s].wrote[Source(c)]
  <1>1. PInv => Shown
    <2> SUFFICES ASSUME PInv, NEW s \in Slots, Apply(s), calls[s].mounted, NEW c \in Cells \ {"nodes"}
                 PROVE  page'[calls[s].tab].shown[c] >= calls[s].wrote[Source(c)]
      OBVIOUS
    <2>1. /\ calls[s].kind # "idle" /\ calls[s].got[c] \in Nat
          /\ page' = [page EXCEPT ![calls[s].tab].note = "",
                                  ![calls[s].tab].shown = [d \in Cells |-> IF d = "nodes" THEN @[d]
                                                                          ELSE calls[s].got[d]]]
      BY DEF Apply, Asked
    <2>2. /\ calls[s].tab \in Tabs /\ calls[s].wrote[Source(c)] <= calls[s].got[c]
          /\ calls[s].wrote[Source(c)] \in Nat
      BY <2>1, Sources DEF PInv, CallsOK, Sound, GotBetween, Calls
    <2>3. page'[calls[s].tab].shown[c] = calls[s].got[c]
      BY <2>1, <2>2 DEF PInv, PagesOK, Pages
    <2>4. QED BY <2>1, <2>2, <2>3
  <1>2. QED BY <1>1, PanelInvariance, PTL DEF ReadYourWrites

(* No session comes back: not by being used, nor by a login or a restart.  *)
THEOREM DeadSessionsStayDead == Spec => DeadStaysDead
  <1> DEFINE Dead == \A t \in Tokens : sessions[t] \in {"expired", "gone"} => sessions'[t] # "live"
  <1>1. PInv /\ [Next]_vars => [Dead]_vars
    <2> SUFFICES ASSUME PInv, [Next]_vars PROVE Dead OBVIOUS
    <2>1. \/ sessions' = sessions
          \/ \E c \in Cookies : Check(c) \/ LogOut(c)
          \/ \E t \in Tokens : LogIn(t) \/ Expire(t)
          \/ Forget
      <3>1. \A s \in Slots : calls[s].cookie \in Cookies BY DEF PInv, CallsOK, Calls
      <3>2. ASSUME NEW t \in Tabs, Click(t) PROVE sessions' = sessions
        BY <3>2 DEF Click, Open, SubmitLogin, ClickLogout, Refresh, ClickAct, auth
      <3>3. ASSUME NEW s \in Slots, Settle(s) PROVE sessions' = sessions
        BY <3>3 DEF Settle, MeAnswered, LoginAnswered, LogoutAnswered, Apply, Reject, NodesAnswered,
                    ActAnswered, auth
      <3>4. ASSUME NEW s \in Slots, Serve(s)
            PROVE  \/ sessions' = sessions
                   \/ \E c \in Cookies : Check(c) \/ LogOut(c)
                   \/ \E t \in Tokens : LogIn(t)
        BY <3>1, <3>4 DEF Serve, ServeRead, ServeMe, ServeLogin, RefuseLogin, ServeLogout, ServeCommand,
                          RefuseCommand, auth
      <3>5. CASE World
        BY <3>5 DEF World, LoseAnswer, Lose, Restart, SessionEnds, Change, auth
      <3>6. CASE UNCHANGED vars BY <3>6 DEF vars, auth
      <3>7. QED BY <3>2, <3>3, <3>4, <3>5, <3>6 DEF Next
    <2>2. Ages(sessions, sessions') BY <2>1, SessionsMove DEF PInv, WorldOK
    <2>3. QED BY <2>2 DEF Ages
  <1>2. QED BY <1>1, PanelInvariance, PTL DEF Spec, DeadStaysDead

(* The dots of a command never stay behind it: whatever fails, is lost or  *)
(* is replaced meanwhile, a dashboard that shows them has a command of its *)
(* own under way (App.tsx, act).                                           *)
THEOREM DotsEnd == Spec => []BusyHasCommand
  <1>1. Init => BusyHasCommand BY PageQuiet DEF Init, BusyHasCommand
  <1>2. PInv /\ BusyHasCommand /\ [Next]_vars => BusyHasCommand' BY StepBusy
  <1>3. QED BY <1>1, <1>2, PanelInvariance, PTL DEF Spec

=============================================================================
