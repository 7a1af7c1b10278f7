---- MODULE WebApp ----
(***************************************************************************)
(* The web application in the tabs of one browser, in front of the         *)
(* accounts and of what the gateway answers to its pages.                  *)
(*                                                                         *)
(* The tabs share the gateway's cookie and the session in localStorage;    *)
(* each keeps a copy of the session, the page of its route and what that   *)
(* page shows.  A page's async function is a call: it goes on when its     *)
(* awaits have ended, even after its component was unmounted, but then it  *)
(* changes no page.  A reload forgets the calls of its tab.  The answers   *)
(* of scoring, ranking and profile stand for what those services have.     *)
(***************************************************************************)
EXTENDS Accounts

CONSTANTS
    Tabs, Debates,
    Votable,     \* debates that take ballots
    Published,   \* what can be fetched: [Parts -> SUBSET ids]
    Plans        \* what people may do in the tabs, at most how often, with which
                 \* calls, what other clients ask, whether the cookie may expire

VARIABLES
    plan,       \* the plan they follow
    clicks,
    page,       \* route of each tab, mount of its component, id typed in it
    loaded,     \* first mount since the tab was loaded
    view,       \* what the component shows
    session,    \* `session` of App in each tab
    stored,     \* ai-debate-session in localStorage
    cookie,     \* the user whose token the cookie holds
    ballots,    \* rows of spectator_votes
    origin,     \* tab and mount that made each call, and the cookie sent with it
    part,       \* answers to each call's fetches
    disturbed   \* "login", "page": two such calls have overlapped

tabVars == <<page, loaded, session>>
browserVars == <<stored, cookie>>
webVars == <<plan, clicks, tabVars, browserVars, view, ballots, origin, part, disturbed>>
vars == <<accountVars, webVars>>

Parts == {"final", "analysis", "summary", "stats", "random", "board"}
PartsOf(op) ==
    CASE op = "results" -> {"final", "analysis", "summary"}
      [] op \in {"summary", "vote"} -> {"summary"}
      [] OTHER -> {op}
PageOps == {"results", "summary", "vote", "stats", "random", "board"}

\* An answer: still awaited, an error, or the data of an id (with its voters).
Waiting == [at |-> "waiting", of |-> None, voters |-> {}]
Rejected == [Waiting EXCEPT !.at = "rejected"]
Item(id, voters) == [at |-> "ok", of |-> id, voters |-> voters]

NoMessage == [of |-> None, user |-> None]
NewView ==
    [loading |-> FALSE, submitting |-> FALSE, error |-> FALSE, message |-> NoMessage,
     warnings |-> {}, shown |-> [p \in Parts |-> None]]
Home == [name |-> "home", id |-> None]
Login == [name |-> "login", id |-> None]
PageOf(route, mount, input) == [route |-> route, mount |-> mount, input |-> input]

\* The routes that App knows: results and debates have an id, a profile may.
Routable ==
    [name : {"home", "login", "signup", "vote", "leaderboard"}, id : {None}]
        \cup [name : {"results", "spectate"}, id : Debates]
        \cup [name : {"profile"}, id : Users \cup {None}]

ASSUME WebAssumption ==
    /\ Calls \subseteq Nat
    /\ Votable \subseteq Debates
    /\ DOMAIN Published = Parts
    /\ None \notin Debates /\ None \notin [op : PageOps, id : Debates]
    /\ None \notin [at : {"ok"}, of : Debates, voters : SUBSET Users]
    /\ \A p \in Plans :
           /\ DOMAIN p.tab = Tabs /\ p.clients \subseteq ProfileWork
           /\ p.clicks \in Nat /\ p.calls \subseteq Calls /\ p.expiry \in BOOLEAN
           /\ \A b \in Tabs : \A c \in p.tab[b] :
                  /\ c.do = "open" => c.route \in Routable
                  /\ c.do = "submit" => c.work \in Credentials

Init ==
    /\ AccountsInit
    /\ plan \in Plans
    /\ clicks = 0
    /\ page = [b \in Tabs |-> PageOf(Home, 0, None)]
    /\ loaded = [b \in Tabs |-> 0]
    /\ view = [b \in Tabs |-> NewView]
    /\ session = [b \in Tabs |-> None]
    /\ stored = None
    /\ cookie = None
    /\ ballots = {}
    /\ origin = [t \in Calls |-> None]
    /\ part = [t \in Calls |-> [p \in Parts |-> Waiting]]
    /\ disturbed = {}

-----------------------------------------------------------------------------
(* Calls begin                                                             *)

Unsent == {t \in plan.calls : pc[t] = "unsent"}
NextCall == CHOOSE t \in Unsent : \A x \in Unsent : t <= x

FromTab(t, b) == origin[t] # None /\ origin[t].tab = b
Here(t) == origin[t] # None /\ origin[t].mount >= loaded[origin[t].tab]
Mounted(t) == origin[t].mount = page[origin[t].tab].mount
UnderWay(t) == Here(t) /\ pc[t] # "ended"

\* The overlaps that a new call is part of.
Overlaps(b, m, op) ==
    {x \in {"login"} : op = "login" /\ \E t \in Calls : Asks(t, "login") /\ UnderWay(t)}
        \cup {x \in {"page"} : op \in PageOps /\ \E t \in Calls :
                  FromTab(t, b) /\ UnderWay(t) /\ origin[t].mount = m /\ request[t].op \in PageOps}

\* Mutant: a reload of the results leaves the analysis of the last debate.
KeepsAnalysis(op) == IF op = "results" THEN Parts \ {"analysis"} ELSE PartsOf(op)
\* What a call resets before its first await: the vote panel and the
\* leaderboard keep what they show, the others clear it.
Reset(op) == IF op \in {"results", "stats", "random"} THEN PartsOf(op) ELSE {}

Cleared(v, cleared) ==
    [v EXCEPT !.shown = [p \in Parts |-> IF p \in cleared THEN None ELSE @[p]]]
Started(v, op) ==
    CASE op = "vote" -> [v EXCEPT !.submitting = TRUE, !.message = NoMessage, !.error = FALSE]
      [] op = "signup" -> [v EXCEPT !.loading = TRUE, !.message = NoMessage, !.error = FALSE]
      [] OTHER -> [Cleared(v, Reset(op)) EXCEPT !.loading = TRUE, !.error = FALSE,
                      !.warnings = {}]

FirstStep(op) ==
    CASE op = "signup" -> "find" [] op = "login" -> "login" [] op = "vote" -> "vote"
      [] OTHER -> "read"

Begins(b, m, work, v) ==
    /\ Unsent # {}
    /\ Sends(NextCall, work, FirstStep(work.op))
    /\ origin' = [origin EXCEPT ![NextCall] = [tab |-> b, mount |-> m, as |-> cookie]]
    /\ view' = [view EXCEPT ![b] = Started(v, work.op)]
    /\ disturbed' = disturbed \cup Overlaps(b, m, work.op)
    /\ UNCHANGED <<stores, part>>

BeginsNothing(b, v) ==
    /\ view' = [view EXCEPT ![b] = v]
    /\ UNCHANGED <<request, pc, answer, origin, disturbed, stores, part>>

Fetch(op, id) == [op |-> op, id |-> id]

-----------------------------------------------------------------------------
(* What people do                                                          *)

Clicks(b, what) ==
    /\ what \in plan.tab[b]
    /\ clicks < plan.clicks
    /\ clicks' = clicks + 1
    /\ UNCHANGED <<plan, cookie, ballots, faults>>

InitialUser(route, user) == IF route.id # None THEN route.id ELSE user

\* The effect of the component of a route, if it fetches something.
EffectOp(route, user) ==
    CASE route.name = "results" -> "results"
      [] route.name = "spectate" -> "summary"
      [] route.name = "leaderboard" -> "board"
      [] route.name = "profile" /\ InitialUser(route, user) # None -> "stats"
      [] OTHER -> "none"

\* A component is mounted, or stays and gets another id: then its effect runs
\* again, and the profile page looks up the id typed in it, not the new one.
Renders(b, route, mount, input, v, user, effect) ==
    /\ page' = [page EXCEPT ![b] = PageOf(route, mount, input)]
    /\ IF effect /\ EffectOp(route, user) # "none"
       THEN Begins(b, mount,
                   Fetch(EffectOp(route, user),
                         IF route.name = "profile" THEN input ELSE route.id), v)
       ELSE BeginsNothing(b, v)

Mounts(b, route, user) ==
    Renders(b, route, page[b].mount + 1, InitialUser(route, user), NewView, user, TRUE)

\* A link, a button that navigates, or the history
Opens(b, route) ==
    /\ Clicks(b, [do |-> "open", route |-> route])
    /\ page[b].route # route
    /\ IF page[b].route.name # route.name THEN Mounts(b, route, session[b])
       ELSE Renders(b, route, page[b].mount, page[b].input, view[b], session[b],
                    InitialUser(route, session[b]) # InitialUser(page[b].route, session[b]))
    /\ UNCHANGED <<loaded, session, stored>>

Reloads(b) ==
    /\ Clicks(b, [do |-> "reload"])
    /\ session' = [session EXCEPT ![b] = stored]
    /\ loaded' = [loaded EXCEPT ![b] = page[b].mount + 1]
    /\ Mounts(b, page[b].route, stored)
    /\ UNCHANGED stored

\* The login form and the signup form, disabled while they are loading
Submits(b, work) ==
    /\ Clicks(b, [do |-> "submit", work |-> work])
    /\ page[b].route.name = work.op
    /\ ~view[b].loading
    /\ Begins(b, page[b].mount, work, view[b])
    /\ UNCHANGED <<tabVars, stored>>

\* logout: the cookie stays, no endpoint clears it
LogsOut(b) ==
    /\ Clicks(b, [do |-> "logout"])
    /\ session[b] # None
    /\ stored' = None
    /\ session' = [session EXCEPT ![b] = None]
    /\ IF page[b].route = Login THEN BeginsNothing(b, view[b]) /\ UNCHANGED page
       ELSE Mounts(b, Login, None)
    /\ UNCHANGED loaded

\* The vote buttons are disabled while a vote is submitted, Refresh and the
\* profile form while something is loading, the picker's button never.
Votes(b) ==
    /\ Clicks(b, [do |-> "vote"])
    /\ page[b].route.name = "spectate"
    /\ ~view[b].submitting
    /\ Begins(b, page[b].mount, Fetch("vote", page[b].route.id), view[b])
    /\ UNCHANGED <<tabVars, stored>>

Refreshes(b) ==
    /\ Clicks(b, [do |-> "refresh"])
    /\ page[b].route.name = "spectate"
    /\ ~view[b].loading
    /\ Begins(b, page[b].mount, Fetch("summary", page[b].route.id), view[b])
    /\ UNCHANGED <<tabVars, stored>>

LooksUp(b, u) ==
    /\ Clicks(b, [do |-> "load", user |-> u])
    /\ page[b].route.name = "profile"
    /\ ~view[b].loading
    /\ page' = [page EXCEPT ![b].input = u]
    /\ Begins(b, page[b].mount, Fetch("stats", u), view[b])
    /\ UNCHANGED <<loaded, session, stored>>

FindsDebate(b) ==
    /\ Clicks(b, [do |-> "find"])
    /\ page[b].route.name = "vote"
    /\ Begins(b, page[b].mount, Fetch("random", None), view[b])
    /\ UNCHANGED <<tabVars, stored>>

Uses(b) ==
    \/ \E c \in plan.tab[b] :
          \/ c.do = "open" /\ Opens(b, c.route)
          \/ c.do = "submit" /\ Submits(b, c.work)
          \/ c.do = "load" /\ LooksUp(b, c.user)
    \/ Reloads(b)
    \/ LogsOut(b)
    \/ Votes(b)
    \/ Refreshes(b)
    \/ FindsDebate(b)

\* Another client calls the profile service for a user who has logged in.
ClientSends(work) ==
    /\ Unsent # {}
    /\ work \in plan.clients
    /\ ~\E t \in Calls : request[t] = work
    /\ \E t \in Calls : Asks(t, "login") /\ answer[t].user = work.owner
    /\ Sends(NextCall, work, "profile")
    /\ UNCHANGED <<stores, faults, webVars>>

-----------------------------------------------------------------------------
(* The gateway answers                                                     *)

AccountStep(t) == Serves(t) /\ UNCHANGED webVars

NoSide == <<plan, clicks, tabVars, browserVars, view, origin, disturbed>>

\* The guard lets in a user with a cookie, scoring one ballot per debate.
Accepts(d, u) == u # None /\ d \in Votable /\ [debate |-> d, user |-> u] \notin ballots
Casts(t) == ballots' = ballots \cup {[debate |-> request[t].id, user |-> origin[t].as]}

ServesVote(t) ==
    /\ pc[t] = "vote"
    /\ \/ /\ Accepts(request[t].id, origin[t].as)
          /\ Casts(t)
          /\ Goto(t, "voted")
       \/ /\ ~Accepts(request[t].id, origin[t].as)
          /\ Goto(t, "refused")
          /\ UNCHANGED ballots
    /\ UNCHANGED <<request, stores, faults, NoSide, part>>

\* A ballot is stored and its answer lost.
LosesVote(t) ==
    /\ pc[t] = "vote"
    /\ Accepts(request[t].id, origin[t].as)
    /\ faults < MaxFaults
    /\ faults' = faults + 1
    /\ Casts(t)
    /\ Goto(t, "refused")
    /\ UNCHANGED <<request, stores, NoSide, part>>

VotersOf(d) == {x.user : x \in {y \in ballots : y.debate = d}}
Found(p, id) ==
    CASE p = "random" -> {Item(d, {}) : d \in Published[p]}
      [] p = "board" -> {Item(None, {})}
      [] p = "summary" -> {Item(id, VotersOf(id))}
      [] OTHER -> {Item(id, {}) : x \in Published[p] \cap {id}}

Fetches(t, p) ==
    /\ pc[t] = "read"
    /\ p \in PartsOf(request[t].op)
    /\ part[t][p] = Waiting
    /\ UNCHANGED <<request, stores, pc, answer, NoSide, ballots>>

ServesPart(t, p) ==
    /\ Fetches(t, p)
    /\ LET found == Found(p, request[t].id) IN
       \E x \in IF found = {} THEN {Rejected} ELSE found :
           part' = [part EXCEPT ![t][p] = x]
    /\ UNCHANGED faults

RejectsPart(t, p) ==
    /\ Fetches(t, p)
    /\ faults < MaxFaults
    /\ faults' = faults + 1
    /\ part' = [part EXCEPT ![t][p] = Rejected]

\* The cookie lives as long as its token; the session in localStorage stays.
CookieExpires ==
    /\ plan.expiry
    /\ cookie # None
    /\ cookie' = None
    /\ UNCHANGED <<accountVars, plan, clicks, tabVars, stored, view, ballots, origin, part,
                   disturbed>>

-----------------------------------------------------------------------------
(* The tab hears an answer                                                 *)

Hears(t) == Here(t) /\ UNCHANGED <<request, stores, faults, plan, clicks, loaded, ballots,
                                   origin, part, disturbed>>
Ends(t) == Goto(t, "ended")

\* A component that was unmounted shows nothing any more.
Shows(t, v) ==
    view' = IF Mounted(t) THEN [view EXCEPT ![origin[t].tab] = v] ELSE view
ViewOf(t) == view[origin[t].tab]

\* The headers of an accepted login arrive before fetch and text() return.
SetsCookie(t) ==
    /\ Hears(t)
    /\ Asks(t, "login") /\ pc[t] = "answered" /\ answer[t].status = 200
    /\ cookie' = answer[t].user
    /\ Goto(t, "body")
    /\ UNCHANGED <<page, session, stored, view>>

\* Mutant: a session that is stored already is kept.
FirstSession(u) == IF stored = None THEN u ELSE stored
\* localStorage.setItem(SESSION_KEY, ...)
StoredSession(u) == u

\* onLogin, which also navigates when the form has been left
HearsLogin(t) ==
    /\ Hears(t)
    /\ pc[t] = "body"
    /\ LET b == origin[t].tab
           u == answer[t].user IN
       /\ stored' = StoredSession(u)
       /\ session' = [session EXCEPT ![b] = u]
       /\ IF page[b].route = Home THEN UNCHANGED <<page, view>>
          ELSE /\ page' = [page EXCEPT ![b] = PageOf(Home, @.mount + 1, None)]
               /\ view' = [view EXCEPT ![b] = NewView]
    /\ Ends(t)
    /\ UNCHANGED cookie

HearsRefusal(t) ==
    /\ Hears(t)
    /\ Asks(t, "login") \/ Asks(t, "signup")
    /\ pc[t] = "answered" /\ answer[t].status \notin {200, 201}
    /\ Shows(t, [ViewOf(t) EXCEPT !.loading = FALSE, !.error = TRUE])
    /\ Ends(t)
    /\ UNCHANGED <<page, session, browserVars>>

HearsSignup(t) ==
    /\ Hears(t)
    /\ Asks(t, "signup")
    /\ pc[t] = "answered" /\ answer[t].status = 201
    /\ Shows(t, [ViewOf(t) EXCEPT !.loading = FALSE,
                     !.message = [of |-> None, user |-> answer[t].user]])
    /\ Ends(t)
    /\ UNCHANGED <<page, session, browserVars>>

\* Mutant: the panel does not refresh after a vote.
NoRefresh == "ended"
AfterVote == "read"

HearsVote(t) ==
    /\ Hears(t)
    /\ \/ /\ pc[t] = "voted"
          /\ Shows(t, [Started(ViewOf(t), "summary") EXCEPT
                          !.message = [of |-> request[t].id, user |-> origin[t].as],
                          !.loading = AfterVote = "read",
                          !.submitting = AfterVote = "read"])
          /\ Goto(t, AfterVote)
       \/ /\ pc[t] = "refused"
          /\ Shows(t, [ViewOf(t) EXCEPT !.submitting = FALSE, !.error = TRUE])
          /\ Ends(t)
    /\ UNCHANGED <<page, session, browserVars>>

\* Promise.allSettled, or the one fetch of the other pages
Settled(t) == {p \in PartsOf(request[t].op) : part[t][p] # Waiting}
Refused(t) == {p \in PartsOf(request[t].op) : part[t][p] = Rejected}
Fulfilled(t) == Settled(t) \ Refused(t)

\* Mutant: `loading` is reset on success only.
OnSuccess(t) == Refused(t) # {}
StillLoading(t) == FALSE

\* The results have an error when nothing came, the other pages when their
\* fetch failed.
Fetched(v, t) ==
    [v EXCEPT
        !.shown = [p \in Parts |-> IF p \in Fulfilled(t) THEN part[t][p] ELSE @[p]],
        !.warnings = IF Asks(t, "results") THEN Refused(t) ELSE @,
        !.error = @ \/ Refused(t) = PartsOf(request[t].op),
        !.loading = StillLoading(t),
        !.submitting = @ /\ ~Asks(t, "vote")]

HearsParts(t) ==
    /\ Hears(t)
    /\ pc[t] = "read"
    /\ Settled(t) = PartsOf(request[t].op)
    /\ Shows(t, Fetched(ViewOf(t), t))
    /\ Ends(t)
    /\ UNCHANGED <<page, session, browserVars>>

Hearing(t) ==
    \/ SetsCookie(t)
    \/ HearsLogin(t)
    \/ HearsRefusal(t)
    \/ HearsSignup(t)
    \/ HearsVote(t)
    \/ HearsParts(t)

-----------------------------------------------------------------------------

Answering(t) ==
    \/ AccountStep(t)
    \/ ServesVote(t)
    \/ \E p \in Parts : ServesPart(t, p)

Fault ==
    \/ \E t \in Calls : AccountFault(t) /\ UNCHANGED webVars
    \/ \E t \in Calls : LosesVote(t)
    \/ \E t \in Calls, p \in Parts : RejectsPart(t, p)

\* Nothing is under way; people may leave it at that.
Quiescent ==
    /\ \A t \in Calls :
           \/ pc[t] \in {"unsent", "answered", "ended"}
           \/ pc[t] \in {"body", "voted", "refused", "read"} /\ ~Here(t)
    /\ UNCHANGED vars

Next ==
    \/ \E b \in Tabs : Uses(b)
    \/ \E work \in plan.clients : ClientSends(work)
    \/ \E t \in Calls : Answering(t)
    \/ \E t \in Calls : Hearing(t)
    \/ CookieExpires
    \/ Fault
    \/ Quiescent

\* What is under way goes on, in whichever order; nobody has to click.
Fairness == WF_vars(\E t \in Calls : Answering(t) \/ Hearing(t))

Safety == Init /\ [][Next]_vars
Spec == Safety /\ Fairness

-----------------------------------------------------------------------------
(* Properties                                                              *)

Routes(b) == {c.route : c \in {x \in plan.tab[b] : x.do = "open"}} \cup {Home, Login}
Labels ==
    {"unsent", "find", "insert", "provision", "reply", "login", "profile", "answered",
     "body", "vote", "voted", "refused", "read", "ended"}

TypeOK ==
    /\ \A u \in Users : users[u] = None \/ users[u] \in UserRows
    /\ \A u \in Users :
           profiles[u] = None
               \/ profiles[u] \in [name : Names, avatar : Avatars \cup {None}]
    /\ pc \in [Calls -> Labels]
    /\ session \in [Tabs -> Users \cup {None}]
    /\ \A u \in {stored, cookie} \cup {session[b] : b \in Tabs} :
           u # None => u \in Users /\ users[u] # None
    /\ \A x \in ballots : x.debate \in Votable /\ users[x.user] # None
    /\ \A b \in Tabs : page[b].route \in Routes(b) /\ loaded[b] <= page[b].mount
    /\ faults \in 0..MaxFaults

\* Who the browser is follows the logins in the order in which they were made,
\* across tabs, logouts and reloads, unless two of them overlapped.  The cookie
\* names the account of the last login whose headers arrived, localStorage that
\* of the last one that its page heard to the end, and a tab that of its own
\* last login or of a later one: the one that was stored when the tab was
\* loaded.  So a tab and the cookie name two accounts only if another tab has
\* logged in since, or if a login was left by a reload between its headers and
\* setItem; either may last until the next login.
Accepted ==
    {t \in Calls : Asks(t, "login") /\ answer[t].status = 200 /\ pc[t] \in {"body", "ended"}}
Heard == {t \in Accepted : pc[t] = "ended"}
Last(logins, t) == t \in logins /\ \A x \in logins : x <= t
SessionsFollowLogins ==
    "login" \notin disturbed =>
        /\ cookie = None \/ \E t \in Calls : Last(Accepted, t) /\ answer[t].user = cookie
        /\ stored = None \/ \E t \in Calls : Last(Heard, t) /\ answer[t].user = stored
        /\ \A b \in Tabs : session[b] # None =>
               \E t \in Heard :
                   /\ answer[t].user = session[b]
                   /\ \A x \in Heard : FromTab(x, b) => x <= t

\* A page of results that has finished loading shows the debate of its route
\* only, and says what it lacks, whatever was shown before in the same
\* component, unless it was left for another debate while it was loading.
ResultsShowTheirDebate ==
    \A b \in Tabs :
        LET id == page[b].route.id IN
        page[b].route.name = "results" /\ ~view[b].loading /\ "page" \notin disturbed =>
            \A p \in PartsOf("results") :
                IF view[b].shown[p] = None THEN p \in view[b].warnings
                ELSE view[b].shown[p].of = id /\ p \notin view[b].warnings

\* A vote panel that says that a vote was submitted, rests and shows no error
\* has a summary that counts the vote, unless its fetches have overlapped.
PanelCountsOwnVote ==
    \A b \in Tabs :
        LET m == view[b].message
            x == view[b].shown["summary"] IN
        /\ page[b].route.name = "spectate" /\ m.of = page[b].route.id
        /\ ~view[b].loading /\ ~view[b].submitting /\ ~view[b].error
        /\ "page" \notin disturbed
        => x # None /\ x.of = m.of /\ m.user \in x.voters

\* Once people stop clicking, no page stays in its loading state, whatever
\* fails and whichever calls overlap: each call ends it, in a finally or after
\* allSettled.
PagesSettle == <>[](\A b \in Tabs : ~view[b].loading /\ ~view[b].submitting)

====
