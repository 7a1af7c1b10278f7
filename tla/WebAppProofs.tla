---- MODULE WebAppProofs ----
(***************************************************************************)
(* Proofs about accounts, sessions and pages, for any number of calls,     *)
(* tabs, users and debates.                                                *)
(***************************************************************************)
EXTENDS WebApp, DataInduction

\* The variables of the auth service and of its callers.
accounts == <<stores, request, pc, answer>>

Domains ==
    /\ DOMAIN users = Users /\ DOMAIN profiles = Users
    /\ DOMAIN request = Calls /\ DOMAIN pc = Calls /\ DOMAIN answer = Calls

\* A call has a row of its own only once it has stored one.
RowsFollowCalls ==
    \A t \in Calls :
        /\ pc[t] = "unsent" => answer[t] = NoAnswer
        /\ pc[t] \in {"unsent", "find", "insert"} => users[t] = None
        /\ pc[t] \in {"provision", "reply"} => users[t] = UserOf(t)

AccountsInv == Domains /\ RowsFollowCalls /\ OneAccountPerEmail /\ AnswersAreTrue

\* What is sent fits the step that reads it.
WorkFits(work, label) ==
    /\ label \in {"find", "login"} => work \in Credentials
    /\ label = "profile" => work \in ProfileWork

\* A call leaves "unsent" for a step that has stored nothing yet.
SendsAny ==
    \E t, work, label :
        /\ label \in {"find", "login", "vote", "read", "profile"}
        /\ WorkFits(work, label)
        /\ pc[t] = "unsent"
        /\ request' = [request EXCEPT ![t] = work]
        /\ pc' = [pc EXCEPT ![t] = label]
        /\ UNCHANGED <<stores, answer>>

\* A call that has its answer, or waits for other pages, goes on to such a step.
MovesAny ==
    \E t, label :
        /\ label \in {"body", "voted", "refused", "read", "ended"}
        /\ pc[t] \notin {"unsent", "find", "insert", "provision"}
        /\ pc' = [pc EXCEPT ![t] = label]
        /\ UNCHANGED <<stores, request, answer>>


-----------------------------------------------------------------------------
(* Which steps touch the accounts                                          *)

LEMMA PlanStays == [Next]_vars => plan' = plan
<1>1. ASSUME NEW b, Uses(b) PROVE plan' = plan
  BY <1>1 DEF Uses, Opens, Submits, LooksUp, Reloads, LogsOut, Votes, Refreshes, FindsDebate, Clicks
<1>2. ASSUME NEW t, Answering(t) \/ Hearing(t) PROVE plan' = plan
  BY <1>2 DEF Answering, AccountStep, ServesVote, ServesPart, Fetches, NoSide, webVars, Hearing,
              SetsCookie, HearsLogin, HearsRefusal, HearsSignup, HearsVote, HearsParts, Hears
<1>3. CASE Fault
  BY <1>3 DEF Fault, LosesVote, RejectsPart, Fetches, NoSide, webVars
<1>4. CASE CookieExpires \/ Quiescent \/ UNCHANGED vars
  BY <1>4 DEF CookieExpires, Quiescent, vars, webVars
<1> QED
  BY <1>1, <1>2, <1>3, <1>4 DEF Next, ClientSends, webVars

LEMMA PlanHolds == Safety => [](plan \in Plans)
<1>1. Init => plan \in Plans
  BY DEF Init
<1>2. plan \in Plans /\ [Next]_vars => (plan \in Plans)'
  BY PlanStays
<1> QED
  BY <1>1, <1>2, PTL DEF Safety

\* What people open and submit.
LEMMA PlansFit ==
    ASSUME plan \in Plans, NEW b \in Tabs
    PROVE  /\ \A route : [do |-> "open", route |-> route] \in plan.tab[b] => route \in Routable
           /\ \A work : [do |-> "submit", work |-> work] \in plan.tab[b] => work \in Credentials
           /\ plan.clients \subseteq ProfileWork
<1>1. /\ plan.clients \subseteq ProfileWork
      /\ \A c \in plan.tab[b] : /\ c.do = "open" => c.route \in Routable
                                /\ c.do = "submit" => c.work \in Credentials
  BY WebAssumption
<1>2. ASSUME NEW route, [do |-> "open", route |-> route] \in plan.tab[b]
      PROVE  route \in Routable
  <2> DEFINE c == [do |-> "open", route |-> route]
  <2>1. c.do = "open" /\ c.route = route
    OBVIOUS
  <2> QED
    BY <1>1, <1>2, <2>1
<1>3. ASSUME NEW work, [do |-> "submit", work |-> work] \in plan.tab[b]
      PROVE  work \in Credentials
  <2> DEFINE c == [do |-> "submit", work |-> work]
  <2>1. c.do = "submit" /\ c.work = work
    OBVIOUS
  <2> QED
    BY <1>1, <1>3, <2>1
<1> QED
  BY <1>1, <1>2, <1>3

LEMMA BeginsSends ==
    ASSUME NEW b, NEW m, NEW work, NEW v, Begins(b, m, work, v),
           work \in Credentials \/ work.op \in PageOps
    PROVE  SendsAny
<1>1. FirstStep(work.op) \in {"find", "login", "vote", "read"}
  BY DEF FirstStep
<1>2. WorkFits(work, FirstStep(work.op))
  BY DEF WorkFits, FirstStep, PageOps
<1>3. /\ pc[NextCall] = "unsent"
      /\ request' = [request EXCEPT ![NextCall] = work]
      /\ pc' = [pc EXCEPT ![NextCall] = FirstStep(work.op)]
      /\ UNCHANGED <<stores, answer>>
  BY DEF Begins, Sends, Goto, stores
<1> QED
  BY <1>1, <1>2, <1>3 DEF SendsAny

LEMMA RendersSends ==
    ASSUME NEW b, NEW route, NEW mount, NEW input, NEW v, NEW user, NEW effect,
           Renders(b, route, mount, input, v, user, effect)
    PROVE  SendsAny \/ UNCHANGED accounts
<1>1. CASE effect /\ EffectOp(route, user) # "none"
  <2>1. PICK id : Begins(b, mount, Fetch(EffectOp(route, user), id), v)
    BY <1>1 DEF Renders
  <2>2. Fetch(EffectOp(route, user), id).op \in PageOps
    BY <1>1 DEF EffectOp, Fetch, PageOps
  <2> QED
    BY <2>1, <2>2, BeginsSends
<1>2. CASE ~(effect /\ EffectOp(route, user) # "none")
  BY <1>2 DEF Renders, BeginsNothing, accounts, stores
<1> QED
  BY <1>1, <1>2

LEMMA UsesSends ==
    ASSUME plan \in Plans, NEW b \in Tabs, Uses(b)
    PROVE  SendsAny \/ UNCHANGED accounts
<1>1. ASSUME NEW route, Opens(b, route) PROVE SendsAny \/ UNCHANGED accounts
  BY <1>1, RendersSends DEF Opens, Mounts
<1>2. ASSUME NEW work, Submits(b, work) PROVE SendsAny
  <2>1. work \in Credentials
    BY <1>2, PlansFit DEF Submits, Clicks
  <2> QED
    BY <1>2, <2>1, BeginsSends DEF Submits
<1>3. ASSUME NEW op \in PageOps, NEW id, Begins(b, page[b].mount, Fetch(op, id), view[b])
      PROVE  SendsAny
  BY <1>3, BeginsSends DEF Fetch
<1>4. ASSUME Reloads(b) PROVE SendsAny \/ UNCHANGED accounts
  BY <1>4, RendersSends DEF Reloads, Mounts
<1>5. ASSUME LogsOut(b) PROVE SendsAny \/ UNCHANGED accounts
  BY <1>5, RendersSends DEF LogsOut, Mounts, BeginsNothing, accounts, stores
<1>6. ASSUME Votes(b) \/ Refreshes(b) \/ FindsDebate(b) \/ \E u : LooksUp(b, u) PROVE SendsAny
  BY <1>3, <1>6 DEF Votes, Refreshes, FindsDebate, LooksUp, PageOps
<1> QED
  BY <1>1, <1>2, <1>4, <1>5, <1>6 DEF Uses

LEMMA ClientSendsAny ==
    ASSUME plan \in Plans, NEW work, ClientSends(work)
    PROVE  SendsAny
<1>1. work \in ProfileWork
  BY WebAssumption DEF ClientSends
<1>2. WorkFits(work, "profile")
  BY <1>1 DEF WorkFits
<1> QED
  BY <1>2 DEF ClientSends, Sends, Goto, SendsAny, stores, webVars

LEMMA HearingMoves ==
    ASSUME NEW t \in Calls, Hearing(t)
    PROVE  MovesAny
<1>1. UNCHANGED <<stores, request>>
  BY DEF Hearing, SetsCookie, HearsLogin, HearsRefusal, HearsSignup, HearsVote, HearsParts, Hears, stores
<1>2. /\ pc[t] \in {"answered", "body", "voted", "refused", "read"}
      /\ UNCHANGED answer
      /\ \E label \in {"body", "voted", "refused", "read", "ended"} :
             pc' = [pc EXCEPT ![t] = label]
  BY DEF Hearing, SetsCookie, HearsLogin, HearsRefusal, HearsSignup, HearsVote, HearsParts,
         Goto, Ends, AfterVote
<1> QED
  BY <1>1, <1>2 DEF MovesAny

\* Every step is one of the account services', or one of these.
LEMMA StepKinds ==
    ASSUME plan \in Plans, [Next]_vars
    PROVE  \/ \E t \in Calls : Serves(t) \/ AccountFault(t)
           \/ SendsAny \/ MovesAny \/ UNCHANGED accounts
<1>1. ASSUME NEW t \in Calls, Answering(t)
      PROVE  Serves(t) \/ MovesAny \/ UNCHANGED accounts
  <2>1. CASE AccountStep(t)
    BY <2>1 DEF AccountStep
  <2>2. CASE ServesVote(t)
    BY <2>2 DEF ServesVote, Goto, MovesAny, stores
  <2>3. CASE \E p \in Parts : ServesPart(t, p)
    BY <2>3 DEF ServesPart, Fetches, accounts, stores
  <2> QED
    BY <1>1, <2>1, <2>2, <2>3 DEF Answering
<1>2. CASE Fault
  <2>1. ASSUME NEW t \in Calls, LosesVote(t) PROVE MovesAny
    BY <2>1 DEF LosesVote, Goto, MovesAny, stores
  <2>2. ASSUME NEW t \in Calls, NEW p \in Parts, RejectsPart(t, p)
        PROVE  UNCHANGED accounts
    BY <2>2 DEF RejectsPart, Fetches, accounts, stores
  <2> QED
    BY <1>2, <2>1, <2>2 DEF Fault
<1>3. CASE CookieExpires \/ Quiescent \/ UNCHANGED vars
  BY <1>3 DEF CookieExpires, Quiescent, vars, accountVars, accounts, stores
<1> QED
  BY <1>1, <1>2, <1>3, UsesSends, ClientSendsAny, HearingMoves DEF Next

-----------------------------------------------------------------------------
(* The accounts                                                            *)

LEMMA InitAccounts == ASSUME Init PROVE AccountsInv
<1>1. Domains
  BY DEF Init, AccountsInit, Domains
<1>2. RowsFollowCalls
  BY DEF Init, AccountsInit, RowsFollowCalls, Users
<1>3. OneAccountPerEmail
  <2>1. ASSUME NEW u \in Users, users[u] # None
        PROVE  u \in DOMAIN Known /\ users[u] = Known[u]
    BY <2>1 DEF Init, AccountsInit, Users
  <2> QED
    BY <2>1, AccountsAssumption DEF OneAccountPerEmail
<1>4. AnswersAreTrue
  BY DEF Init, AccountsInit, AnswersAreTrue, NoAnswer
<1> QED
  BY <1>1, <1>2, <1>3, <1>4 DEF AccountsInv

LEMMA SendsKeepsAccounts ==
    ASSUME AccountsInv, SendsAny
    PROVE  AccountsInv'
<1> USE DEF AccountsInv
<1>1. PICK x, work, label :
          /\ label \in {"find", "login", "vote", "read", "profile"}
          /\ pc[x] = "unsent"
          /\ request' = [request EXCEPT ![x] = work]
          /\ pc' = [pc EXCEPT ![x] = label]
          /\ UNCHANGED <<users, profiles, answer>>
  BY DEF SendsAny, stores
<1>2. Domains'
  BY <1>1 DEF Domains
<1>3. ASSUME NEW t \in Calls, t # x
      PROVE  pc'[t] = pc[t] /\ request'[t] = request[t]
  BY <1>1, <1>3 DEF Domains
<1>4. RowsFollowCalls'
  <2>1. ASSUME NEW t \in Calls, t = x PROVE pc'[t] = label /\ users'[t] = None
    BY <1>1, <2>1 DEF Domains, RowsFollowCalls
  <2> QED
    BY <1>1, <1>3, <2>1 DEF RowsFollowCalls, UserOf, Email
<1>5. OneAccountPerEmail'
  BY <1>1 DEF OneAccountPerEmail
<1>6. AnswersAreTrue'
  <2>1. ASSUME NEW t \in Calls, t = x PROVE answer'[t] = NoAnswer
    BY <1>1, <2>1 DEF RowsFollowCalls
  <2> QED
    BY <1>1, <1>3, <2>1 DEF AnswersAreTrue, NoAnswer, UserOf, Email, Having, Asks
<1> QED
  BY <1>2, <1>4, <1>5, <1>6

LEMMA MovesKeepsAccounts ==
    ASSUME AccountsInv, MovesAny
    PROVE  AccountsInv'
<1> USE DEF AccountsInv
<1>1. PICK x, label :
          /\ label \in {"body", "voted", "refused", "read", "ended"}
          /\ pc[x] \notin {"unsent", "find", "insert", "provision"}
          /\ pc' = [pc EXCEPT ![x] = label]
          /\ UNCHANGED <<users, profiles, request, answer>>
  BY DEF MovesAny, stores
<1>2. Domains'
  BY <1>1 DEF Domains
<1>3. RowsFollowCalls'
  BY <1>1 DEF RowsFollowCalls, UserOf, Email, Domains
<1>4. OneAccountPerEmail' /\ AnswersAreTrue'
  BY <1>1 DEF OneAccountPerEmail, AnswersAreTrue, UserOf, Email, Having, Asks
<1> QED
  BY <1>2, <1>3, <1>4

LEMMA InsertKeepsAccounts ==
    ASSUME AccountsInv, NEW x \in Calls, InsertsUser(x)
    PROVE  AccountsInv'
<1> USE DEF AccountsInv
<1>1. CASE ~EmailFree(x)
  <2>1. /\ pc[x] = "insert" /\ users[x] = None
        /\ pc' = [pc EXCEPT ![x] = "answered"]
        /\ answer' = [answer EXCEPT ![x] = AnswerOf(409, None)]
        /\ UNCHANGED <<users, profiles, request>>
    BY <1>1 DEF InsertsUser, Answers, RowsFollowCalls
  <2>2. Domains' /\ RowsFollowCalls'
    BY <2>1 DEF Domains, RowsFollowCalls, UserOf, Email
  <2>3. OneAccountPerEmail'
    BY <2>1 DEF OneAccountPerEmail
  <2>4. AnswersAreTrue'
    <3>1. Having(Email(x)) \ {x} # {}
      BY <1>1, <2>1 DEF EmailFree, Having
    <3>2. answer'[x].status = 409
      BY <2>1 DEF Domains, AnswerOf, NoAnswer
    <3>3. ASSUME NEW t \in Calls, t # x PROVE answer'[t] = answer[t]
      BY <2>1, <3>3 DEF Domains
    <3> QED
      BY <2>1, <3>1, <3>2, <3>3 DEF AnswersAreTrue, UserOf, Email, Having, Asks
  <2> QED
    BY <2>2, <2>3, <2>4
<1>2. CASE EmailFree(x)
  <2>1. /\ pc[x] = "insert" /\ users[x] = None
        /\ users' = [users EXCEPT ![x] = UserOf(x)]
        /\ pc' = [pc EXCEPT ![x] = "provision"]
        /\ UNCHANGED <<profiles, request, answer>>
    BY <1>2 DEF InsertsUser, Goto, AfterInsert, RowsFollowCalls
  <2>2. x \in Users /\ users'[x] = UserOf(x) /\ UserOf(x).email = Email(x)
    BY <2>1 DEF Domains, Users, UserOf
  <2>3. \A u \in Users \ {x} : users'[u] = users[u]
    BY <2>1 DEF Domains
  <2>4. Domains' /\ RowsFollowCalls'
    BY <2>1, <2>2, <2>3 DEF Domains, RowsFollowCalls, UserOf, Email, Users
  <2>5. OneAccountPerEmail'
    <3>1. \A u \in Users : users[u] # None => users[u].email # Email(x)
      BY <1>2 DEF EmailFree, Having
    <3> QED
      BY <2>2, <2>3, <3>1 DEF OneAccountPerEmail
  <2>6. AnswersAreTrue'
    <3> SUFFICES ASSUME NEW t \in Calls
                 PROVE  LET u == answer[t].user IN
                        /\ answer[t].status = 201 /\ Asks(t, "signup") => users'[t] = UserOf(t)
                        /\ answer[t].status = 409 /\ Asks(t, "signup") =>
                               Having(Email(t))' \ {t} # {}
                        /\ answer[t].status = 200 /\ Asks(t, "login") =>
                               users'[u] # None /\ users'[u].email = Email(t)
                                   /\ users'[u].password = request[t].password
      BY <2>1 DEF AnswersAreTrue, Asks, UserOf, Email
    <3>1. ASSUME NEW v, v \in Having(Email(t)) PROVE v \in Having(Email(t))'
      BY <3>1, <2>1, <2>3 DEF Having, Email
    <3>2. answer[t].status = 201 /\ Asks(t, "signup") => users'[t] = UserOf(t)
      BY <2>2, <2>3 DEF AnswersAreTrue, Users
    <3>3. answer[t].status = 409 /\ Asks(t, "signup") => Having(Email(t))' \ {t} # {}
      BY <3>1 DEF AnswersAreTrue
    <3>4. ASSUME NEW u, users[u] # None PROVE users'[u] = users[u]
      BY <2>1, <3>4 DEF Domains
    <3> QED
      BY <3>2, <3>3, <3>4 DEF AnswersAreTrue
  <2> QED
    BY <2>4, <2>5, <2>6
<1> QED
  BY <1>1, <1>2

\* A call of the auth service goes on without an answer, or has this one.
GoesOn(x) ==
    /\ UNCHANGED answer
    /\ \/ pc[x] = "find" /\ pc' = [pc EXCEPT ![x] = "insert"]
       \/ pc[x] = "provision" /\ pc' = [pc EXCEPT ![x] = "reply"]
AnswersTruly(x, n, u) ==
    /\ pc' = [pc EXCEPT ![x] = "answered"]
    /\ answer' = [answer EXCEPT ![x] = AnswerOf(n, u)]
    /\ n = 201 /\ Asks(x, "signup") => users[x] = UserOf(x)
    /\ n = 409 /\ Asks(x, "signup") => Having(Email(x)) \ {x} # {}
    /\ n = 200 /\ Asks(x, "login") =>
           users[u] # None /\ users[u].email = Email(x)
               /\ users[u].password = request[x].password

\* The other steps of the services change no row of users.
LEMMA ServesKeepsAccounts ==
    ASSUME AccountsInv, NEW x \in Calls, Serves(x) \/ AccountFault(x), ~InsertsUser(x)
    PROVE  AccountsInv'
<1> USE DEF AccountsInv
<1>1. UNCHANGED <<users, request>> /\ pc[x] # "unsent" /\ DOMAIN profiles' = DOMAIN profiles
  BY DEF Serves, AccountFault, FindsEmail, ProvisionsProfile, SignupAnswers, LogsIn, CreatesProfile,
         UpdatesProfile, DeletesProfile, ProvisioningFails, CallFails, stores
<1>2. GoesOn(x) \/ \E n, u : AnswersTruly(x, n, u)
  <2>1. CASE FindsEmail(x)
    <3>1. Having(Email(x)) # {} => AnswersTruly(x, 409, None)
      BY <2>1 DEF FindsEmail, Answers, AnswersTruly, RowsFollowCalls, Having
    <3>2. Having(Email(x)) = {} => GoesOn(x)
      BY <2>1 DEF FindsEmail, Goto, GoesOn
    <3> QED
      BY <3>1, <3>2
  <2>2. CASE ProvisionsProfile(x) \/ ProvisioningFails(x)
    BY <2>2 DEF ProvisionsProfile, ProvisioningFails, Goto, GoesOn
  <2>3. CASE SignupAnswers(x)
    <3>1. AnswersTruly(x, 201, x)
      BY <2>3 DEF SignupAnswers, Answers, RowsFollowCalls, AnswersTruly
    <3> QED
      BY <3>1
  <2>4. CASE LogsIn(x)
    <3>1. ASSUME Answers(x, 401, None) PROVE AnswersTruly(x, 401, None)
      BY <3>1 DEF AnswersTruly, Answers
    <3>2. ASSUME NEW u \in Having(Email(x)), PasswordFits(u, request[x].password), Answers(x, 200, u)
          PROVE  AnswersTruly(x, 200, u)
      BY <3>2 DEF AnswersTruly, Answers, Having, PasswordFits
    <3> QED
      BY <2>4, <3>1, <3>2 DEF LogsIn
  <2>5. CASE CreatesProfile(x) \/ UpdatesProfile(x) \/ DeletesProfile(x)
    <3>1. PICK n, u : Answers(x, n, u) /\ n \in {200, 201, 404, 409}
      BY <2>5 DEF CreatesProfile, UpdatesProfile, DeletesProfile
    <3>2. ~Asks(x, "signup") /\ ~Asks(x, "login")
      BY <1>1, <2>5 DEF CreatesProfile, UpdatesProfile, DeletesProfile, Asks
    <3>3. AnswersTruly(x, n, u)
      BY <3>1, <3>2 DEF AnswersTruly, Answers
    <3> QED
      BY <3>3
  <2>6. CASE CallFails(x)
    <3>1. AnswersTruly(x, 500, None)
      BY <2>6 DEF CallFails, Answers, AnswersTruly
    <3> QED
      BY <3>1
  <2> QED
    BY <2>1, <2>2, <2>3, <2>4, <2>5, <2>6 DEF Serves, AccountFault
<1>3. OneAccountPerEmail'
  BY <1>1 DEF OneAccountPerEmail
<1>4. Domains' /\ RowsFollowCalls'
  BY <1>1, <1>2 DEF Domains, RowsFollowCalls, UserOf, Email, GoesOn, AnswersTruly
<1>5. AnswersAreTrue'
  <2>1. CASE GoesOn(x)
    BY <1>1, <2>1 DEF GoesOn, AnswersAreTrue, UserOf, Email, Having, Asks
  <2>2. ASSUME NEW n, NEW u, AnswersTruly(x, n, u) PROVE AnswersAreTrue'
    <3>1. answer'[x].status = n /\ answer'[x].user = u
      BY <2>2 DEF Domains, AnswerOf, NoAnswer, AnswersTruly
    <3>2. \A t \in Calls : t # x => answer'[t] = answer[t]
      BY <2>2 DEF Domains, AnswersTruly
    <3> QED
      BY <1>1, <2>2, <3>1, <3>2 DEF AnswersTruly, AnswersAreTrue, UserOf, Email, Having, Asks
  <2> QED
    BY <1>2, <2>1, <2>2
<1> QED
  BY <1>3, <1>4, <1>5

LEMMA StepKeepsAccounts == AccountsInv /\ plan \in Plans /\ [Next]_vars => AccountsInv'
<1> SUFFICES ASSUME AccountsInv, plan \in Plans, [Next]_vars PROVE AccountsInv'
  OBVIOUS
<1>1. ASSUME NEW t \in Calls, Serves(t) \/ AccountFault(t) PROVE AccountsInv'
  BY <1>1, InsertKeepsAccounts, ServesKeepsAccounts
<1>2. CASE UNCHANGED accounts
  BY <1>2 DEF accounts, stores, AccountsInv, Domains, RowsFollowCalls, OneAccountPerEmail, AnswersAreTrue,
              UserOf, Email, Having, Asks
<1> QED
  BY <1>1, <1>2, StepKinds, SendsKeepsAccounts, MovesKeepsAccounts

LEMMA AccountsHold == Safety => []AccountsInv
<1>1. Init => AccountsInv
  BY InitAccounts
<1> QED
  BY <1>1, PlanHolds, StepKeepsAccounts, PTL DEF Safety

\* Signups that overlap never leave two accounts with one email: of the calls that
\* looked for it in vain, the constraint on the table lets one store a row.
THEOREM EmailsStayUnique == Safety => []OneAccountPerEmail
BY AccountsHold, PTL DEF AccountsInv

\* What the gateway answers to signups and logins is so, and stays so.
THEOREM AnswersStayTrue == Safety => []AnswersAreTrue
BY AccountsHold, PTL DEF AccountsInv

\* The two steps that create a profile find none, and the two that change one are
\* calls of its owner; a signup that provisions late overwrites nothing.
THEOREM ProvisioningKeepsProfiles == Safety => ProvisioningNeverOverwrites
<1>1. ASSUME AccountsInv, plan \in Plans, [Next]_vars
      PROVE  [\A u \in Users : profiles[u] # None /\ profiles'[u] # profiles[u] => OwnerCalls(u)]_stores
  <2>1. ASSUME NEW t \in Calls, Serves(t) \/ AccountFault(t),
               NEW u \in Users, profiles[u] # None, profiles'[u] # profiles[u]
        PROVE  OwnerCalls(u)
    <3>1. DOMAIN profiles = Users /\ DOMAIN pc = Calls /\ t \in Users
      BY <1>1 DEF AccountsInv, Domains, Users
    <3>2. CASE UNCHANGED profiles
      BY <2>1, <3>2
    <3>3. CASE ProvisionsProfile(t)
      BY <2>1, <3>1, <3>3 DEF ProvisionsProfile, ProfileFree
    <3>4. CASE CreatesProfile(t)
      BY <2>1, <3>1, <3>4 DEF CreatesProfile, ProfileFree
    <3>5. CASE UpdatesProfile(t)
      <4>1. /\ pc[t] = "profile" /\ pc'[t] = "answered"
            /\ request[t].owner = u
        BY <2>1, <3>1, <3>5 DEF UpdatesProfile, Answers
      <4> QED
        BY <4>1 DEF OwnerCalls
    <3>6. CASE DeletesProfile(t)
      <4>1. /\ pc[t] = "profile" /\ pc'[t] = "answered"
            /\ request[t].owner = u
        BY <2>1, <3>1, <3>6 DEF DeletesProfile, Answers
      <4> QED
        BY <4>1 DEF OwnerCalls
    <3> QED
      BY <2>1, <3>2, <3>3, <3>4, <3>5, <3>6
      DEF Serves, AccountFault, FindsEmail, InsertsUser, SignupAnswers, LogsIn, ProvisioningFails,
          CallFails, stores
  <2>2. CASE SendsAny \/ MovesAny \/ UNCHANGED accounts
    BY <2>2 DEF SendsAny, MovesAny, accounts
  <2> QED
    BY <1>1, <2>1, <2>2, StepKinds
<1> QED
  BY <1>1, PlanHolds, AccountsHold, PTL DEF Safety, ProvisioningNeverOverwrites

-----------------------------------------------------------------------------
(* Sessions                                                                *)

LoggingIn(t) == Asks(t, "login") /\ UnderWay(t)

PagesOK ==
    /\ DOMAIN page = Tabs /\ DOMAIN loaded = Tabs
    /\ \A b \in Tabs :
           /\ page[b] = PageOf(page[b].route, page[b].mount, page[b].input)
           /\ page[b].mount \in Nat /\ loaded[b] \in 0..page[b].mount

\* A call was made by a component that is or was there.
OriginsOK ==
    /\ DOMAIN origin = Calls
    /\ \A t \in Calls :
           /\ pc[t] = "unsent" => origin[t] = None
           /\ origin[t] # None =>
                  /\ origin[t].tab \in Tabs
                  /\ origin[t].mount \in 0..page[origin[t].tab].mount

OneLogin ==
    "login" \notin disturbed =>
        \A t, x \in Calls : LoggingIn(t) /\ LoggingIn(x) => t = x

\* Where a login may be; only an accepted one is read to its end.
LoginPath ==
    \A t \in Calls :
        /\ Asks(t, "login") => pc[t] \in {"login", "answered", "body", "ended"}
        /\ pc[t] = "body" => Asks(t, "login") /\ answer[t].status = 200

\* Calls begin in the order of their numbers.
NumbersOK ==
    \A t \in Calls, x \in plan.calls : pc[t] # "unsent" /\ pc[x] = "unsent" => t < x

\* A login that is under way is later than those that were accepted.
LaterThanAccepted ==
    "login" \notin disturbed =>
        \A t \in Calls, x \in Accepted : LoggingIn(t) => x <= t

SessionInv ==
    /\ Domains /\ PagesOK /\ OriginsOK /\ DOMAIN session = Tabs
    /\ NumbersOK /\ LoginPath /\ OneLogin /\ LaterThanAccepted /\ SessionsFollowLogins

\* Components are mounted, tabs are loaded, and neither is undone.
PagesGrow ==
    /\ PagesOK'
    /\ \A b \in Tabs : loaded[b] <= loaded'[b] /\ page[b].mount <= page'[b].mount

\* The browser forgets who it is, or a tab shows what is stored.
Forgets ==
    /\ cookie' \in {cookie, None} /\ stored' \in {stored, None}
    /\ DOMAIN session' = Tabs
    /\ \A b \in Tabs : session'[b] \in {session[b], stored, None}

\* A page makes a call.
CallOf(x, work, label, b, m) ==
    /\ label \in {"find", "login", "vote", "read"}
    /\ work.op = "login" => label = "login"
    /\ x \in Unsent /\ \A y \in Unsent : x <= y
    /\ request' = [request EXCEPT ![x] = work]
    /\ pc' = [pc EXCEPT ![x] = label]
    /\ origin' = [origin EXCEPT ![x] = [tab |-> b, mount |-> m, as |-> cookie]]
    /\ disturbed' = disturbed \cup Overlaps(b, m, work.op)
    /\ UNCHANGED <<users, profiles, answer, plan>>
    /\ b \in Tabs /\ m \in 0..page'[b].mount
    /\ PagesGrow /\ Forgets
CallBegins == \E x, work, label, b, m : CallOf(x, work, label, b, m)

NoCallBegins ==
    /\ UNCHANGED <<users, profiles, request, pc, origin, answer, disturbed, plan>>
    /\ PagesGrow /\ Forgets

\* A call goes on, and neither the browser nor its pages hear of a login.
CallGoes(x, label) ==
    /\ pc[x] \notin {"unsent", "body", "ended"}
    /\ label \notin {"unsent", "body"} /\ pc' = [pc EXCEPT ![x] = label]
    /\ pc[x] = "login" => label = "answered"
    /\ pc[x] = "answered" =>
           label = "ended" /\ (Asks(x, "login") => answer[x].status # 200) /\ UNCHANGED answer
    /\ \A t \in Calls \ {x} : answer'[t] = answer[t]
    /\ DOMAIN answer' = DOMAIN answer
    /\ DOMAIN users' = DOMAIN users /\ DOMAIN profiles' = DOMAIN profiles
    /\ UNCHANGED <<request, origin, page, loaded, disturbed, cookie, stored, session, plan>>
CallMoves == \E x \in Calls : \E label : CallGoes(x, label)

LEMMA PlannedCalls ==
    ASSUME plan \in Plans PROVE plan.calls \subseteq Calls /\ Calls \subseteq Nat
BY WebAssumption

LEMMA NextCallIsFirst ==
    ASSUME plan \in Plans, Unsent # {}
    PROVE  NextCall \in Unsent /\ \A x \in Unsent : NextCall <= x
<1>1. Unsent \in SUBSET Nat
  BY PlannedCalls DEF Unsent
<1>2. \E t \in Unsent : \A x \in Unsent : t <= x
  BY <1>1, LeastNatural
<1> QED
  BY <1>2 DEF NextCall

LEMMA NumbersGrow ==
    ASSUME plan \in Plans, Domains, NumbersOK, plan' = plan, NEW label, label # "unsent",
           NEW x \in Unsent, \A y \in Unsent : x <= y, pc' = [pc EXCEPT ![x] = label]
    PROVE  NumbersOK'
<1>1. plan.calls \subseteq Calls /\ Calls \subseteq Nat
  BY PlannedCalls
<1>2. x \in Calls /\ pc'[x] = label /\ \A t \in Calls : t # x => pc'[t] = pc[t]
  BY <1>1 DEF Domains, Unsent
<1>3. ASSUME NEW t \in Calls, NEW y \in plan.calls, pc'[t] # "unsent", pc'[y] = "unsent"
      PROVE  t < y
  <2>1. y \in Calls /\ y # x /\ pc[y] = "unsent" /\ y \in Unsent
    BY <1>1, <1>2, <1>3 DEF Unsent
  <2>2. CASE t = x
    BY <1>1, <1>2, <2>1, <2>2
  <2>3. CASE t # x
    BY <1>2, <1>3, <2>1, <2>3 DEF NumbersOK
  <2> QED
    BY <2>2, <2>3
<1> QED
  BY <1>3 DEF NumbersOK

\* Calls that have begun stay begun.
LEMMA NumbersStay ==
    ASSUME plan \in Plans, NumbersOK, plan' = plan,
           \A t \in Calls : pc'[t] = "unsent" <=> pc[t] = "unsent"
    PROVE  NumbersOK'
BY PlannedCalls DEF NumbersOK

\* The logins that were accepted stay as they are, and so does who is who.
LoginsStay ==
    /\ Accepted' = Accepted /\ Heard' = Heard
    /\ \A t \in Accepted : answer'[t] = answer[t] /\ origin'[t] = origin[t]
    /\ disturbed \subseteq disturbed'

LEMMA FollowersStay ==
    ASSUME SessionsFollowLogins, LoginsStay, Forgets PROVE SessionsFollowLogins'
<1> SUFFICES ASSUME "login" \notin disturbed'
             PROVE  /\ cookie' = None \/ \E t \in Calls : Last(Accepted', t) /\ answer'[t].user = cookie'
                    /\ stored' = None \/ \E t \in Calls : Last(Heard', t) /\ answer'[t].user = stored'
                    /\ \A b \in Tabs : session'[b] # None =>
                           \E t \in Heard' :
                               /\ answer'[t].user = session'[b]
                               /\ \A x \in Heard' : FromTab(x, b)' => x <= t
  BY DEF SessionsFollowLogins, Last
<1>1. /\ "login" \notin disturbed
      /\ cookie' \in {cookie, None} /\ stored' \in {stored, None}
      /\ Accepted' = Accepted /\ Heard' = Heard /\ Heard \subseteq Accepted
      /\ \A t \in Accepted : answer'[t] = answer[t]
      /\ \A x \in Heard, b \in Tabs : FromTab(x, b)' <=> FromTab(x, b)
  BY DEF LoginsStay, Heard, FromTab, Forgets
<1>2. cookie' = None \/ \E t \in Calls : Last(Accepted', t) /\ answer'[t].user = cookie'
  BY <1>1 DEF SessionsFollowLogins, Last
<1>3. stored' = None \/ \E t \in Calls : Last(Heard', t) /\ answer'[t].user = stored'
  BY <1>1 DEF SessionsFollowLogins, Last
<1>4. ASSUME NEW b \in Tabs, session'[b] # None
      PROVE  \E t \in Heard' :
                 /\ answer'[t].user = session'[b]
                 /\ \A x \in Heard' : FromTab(x, b)' => x <= t
  <2>1. CASE session'[b] = session[b]
    <3>1. PICK t \in Heard : /\ answer[t].user = session[b]
                             /\ \A x \in Heard : FromTab(x, b) => x <= t
      BY <1>1, <1>4, <2>1 DEF SessionsFollowLogins
    <3> QED
      BY <1>1, <2>1, <3>1
  <2>2. CASE session'[b] = stored
    <3>1. PICK t \in Calls : Last(Heard, t) /\ answer[t].user = stored
      BY <1>1, <1>4, <2>2 DEF SessionsFollowLogins
    <3> QED
      BY <1>1, <2>2, <3>1 DEF Last
  <2> QED
    BY <1>4, <2>1, <2>2 DEF Forgets
<1> QED
  BY <1>2, <1>3, <1>4

LEMMA LaterStays ==
    ASSUME LaterThanAccepted, LoginsStay, \A t \in Calls : LoggingIn(t)' => LoggingIn(t)
    PROVE  LaterThanAccepted'
BY DEF LaterThanAccepted, LoginsStay

LEMMA InitSessions == ASSUME Init PROVE SessionInv
<1>1. Domains
  BY DEF Init, AccountsInit, Domains
<1>2. PagesOK /\ OriginsOK /\ DOMAIN session = Tabs
  BY DEF Init, AccountsInit, PagesOK, OriginsOK, PageOf
<1>3. \A t \in Calls : pc[t] = "unsent" /\ ~LoggingIn(t) /\ ~Asks(t, "login")
  BY DEF Init, AccountsInit, LoggingIn, UnderWay, Here, Asks
<1>4. NumbersOK /\ LoginPath /\ OneLogin /\ LaterThanAccepted
  BY <1>3 DEF NumbersOK, LoginPath, OneLogin, LaterThanAccepted
<1>5. SessionsFollowLogins
  BY DEF Init, SessionsFollowLogins
<1> QED
  BY <1>1, <1>2, <1>4, <1>5 DEF SessionInv

LEMMA PagesGrowKeepsHere ==
    ASSUME PagesOK, OriginsOK, PagesGrow,
           NEW t \in Calls, origin'[t] = origin[t], Here(t)'
    PROVE  Here(t)
BY DEF PagesOK, OriginsOK, PagesGrow, Here

LEMMA CallBeginsKeepsSessions ==
    ASSUME plan \in Plans, SessionInv, CallBegins
    PROVE  SessionInv'
<1> USE DEF SessionInv
<1>1. PICK x, work, label, b, m :
        /\ label \in {"find", "login", "vote", "read"}
        /\ work.op = "login" => label = "login"
        /\ x \in Unsent /\ \A y \in Unsent : x <= y
        /\ request' = [request EXCEPT ![x] = work]
        /\ pc' = [pc EXCEPT ![x] = label]
        /\ origin' = [origin EXCEPT ![x] = [tab |-> b, mount |-> m, as |-> cookie]]
        /\ disturbed' = disturbed \cup Overlaps(b, m, work.op)
        /\ UNCHANGED <<users, profiles, answer, plan>>
        /\ b \in Tabs /\ m \in 0..page'[b].mount
        /\ PagesGrow /\ Forgets
  BY DEF CallBegins, CallOf
<1>0. x \in Calls /\ pc[x] = "unsent" /\ x \in plan.calls /\ Calls \subseteq Nat
  BY <1>1, PlannedCalls DEF Unsent
<1>2. Domains' /\ PagesOK' /\ DOMAIN session' = Tabs
  BY <1>1 DEF Domains, PagesGrow, Forgets
<1>3. ASSUME NEW t \in Calls, t # x
      PROVE  pc'[t] = pc[t] /\ request'[t] = request[t] /\ origin'[t] = origin[t]
  BY <1>1, <1>3 DEF Domains, OriginsOK
<1>4. ASSUME NEW t \in Calls, t = x
      PROVE  /\ pc'[t] = label /\ request'[t] = work
             /\ origin'[t] = [tab |-> b, mount |-> m, as |-> cookie]
  BY <1>1, <1>4 DEF Domains, OriginsOK
<1>5. OriginsOK'
  <2>1. ASSUME NEW t \in Calls, t # x, origin[t] # None
        PROVE  origin[t].mount \in 0..page'[origin[t].tab].mount /\ origin[t].tab \in Tabs
    BY <1>1, <2>1 DEF OriginsOK, PagesGrow, PagesOK
  <2> QED
    BY <1>1, <1>3, <1>4, <2>1 DEF OriginsOK
<1>6. ASSUME NEW t \in Calls, t # x, LoggingIn(t)' PROVE LoggingIn(t)
  BY <1>1, <1>3, <1>6, PagesGrowKeepsHere DEF LoggingIn, UnderWay, Asks
<1>7. OneLogin'
  <2>1. ASSUME "login" \notin disturbed', NEW t \in Calls, t # x, LoggingIn(t) PROVE work.op # "login"
    BY <1>1, <2>1 DEF Overlaps, LoggingIn
  <2>2. ASSUME NEW t \in Calls, t = x, LoggingIn(t)' PROVE work.op = "login"
    BY <1>4, <2>2 DEF LoggingIn, Asks
  <2> QED
    BY <1>1, <1>6, <2>1, <2>2 DEF OneLogin
<1>8. LoginPath'
  <2>1. ASSUME NEW t \in Calls, t # x
        PROVE  /\ Asks(t, "login")' => pc'[t] \in {"login", "answered", "body", "ended"}
               /\ pc'[t] = "body" => Asks(t, "login")' /\ answer'[t].status = 200
    BY <1>1, <1>3, <2>1 DEF LoginPath, Asks
  <2>2. /\ Asks(x, "login")' => pc'[x] \in {"login", "answered", "body", "ended"}
        /\ pc'[x] # "body"
    BY <1>0, <1>1, <1>4 DEF Asks
  <2> QED
    BY <2>1, <2>2 DEF LoginPath
<1>9. LoginsStay
  <2>1. ASSUME NEW t \in Calls
        PROVE  /\ t \in Accepted' <=> t \in Accepted
               /\ t \in Heard' <=> t \in Heard
               /\ t \in Accepted => origin'[t] = origin[t]
    <3>1. CASE t # x
      BY <1>1, <1>3, <3>1 DEF Accepted, Heard, Asks
    <3>2. CASE t = x
      BY <1>0, <1>1, <1>4, <3>2 DEF Accepted, Heard
    <3> QED
      BY <3>1, <3>2
  <2>2. Accepted \subseteq Calls /\ Heard \subseteq Calls /\ Accepted' \subseteq Calls /\ Heard' \subseteq Calls
    BY DEF Accepted, Heard
  <2> QED
    BY <1>1, <2>1, <2>2 DEF LoginsStay
<1>10. LaterThanAccepted'
  <2>1. ASSUME NEW y \in Accepted PROVE y <= x
    <3>1. y \in Calls /\ pc[y] # "unsent"
      BY DEF Accepted
    <3> QED
      BY <1>0, <3>1 DEF NumbersOK
  <2> QED
    BY <1>6, <1>9, <2>1 DEF LaterThanAccepted, LoginsStay
<1>11. NumbersOK'
  BY <1>1, NumbersGrow
<1>12. SessionsFollowLogins'
  BY <1>1, <1>9, FollowersStay
<1> QED
  BY <1>2, <1>5, <1>7, <1>8, <1>10, <1>11, <1>12

LEMMA NoCallKeepsSessions ==
    ASSUME plan \in Plans, SessionInv, NoCallBegins
    PROVE  SessionInv'
<1> USE DEF SessionInv
<1>1. /\ UNCHANGED <<users, profiles, request, pc, origin, answer, disturbed, plan>>
      /\ PagesGrow /\ Forgets
  BY DEF NoCallBegins
<1>2. Domains' /\ PagesOK' /\ DOMAIN session' = Tabs
  BY <1>1 DEF Domains, PagesGrow, Forgets
<1>3. OriginsOK'
  <2>1. ASSUME NEW t \in Calls, origin[t] # None
        PROVE  origin[t].mount \in 0..page'[origin[t].tab].mount /\ origin[t].tab \in Tabs
    BY <1>1, <2>1 DEF OriginsOK, PagesGrow, PagesOK
  <2> QED
    BY <1>1, <2>1 DEF OriginsOK
<1>4. ASSUME NEW t \in Calls, LoggingIn(t)' PROVE LoggingIn(t)
  BY <1>1, <1>4, PagesGrowKeepsHere DEF LoggingIn, UnderWay, Asks
<1>5. NumbersOK' /\ LoginPath' /\ OneLogin'
  BY <1>1, <1>4 DEF NumbersOK, LoginPath, OneLogin, Asks
<1>6. LoginsStay
  BY <1>1 DEF LoginsStay, Accepted, Heard, Asks
<1> QED
  BY <1>1, <1>2, <1>3, <1>4, <1>5, <1>6, LaterStays, FollowersStay

LEMMA MovesKeepsSessions ==
    ASSUME plan \in Plans, SessionInv, CallMoves
    PROVE  SessionInv'
<1> USE DEF SessionInv
<1>1. PICK x \in Calls : \E label : CallGoes(x, label)
  BY DEF CallMoves
<1>2. PICK label : CallGoes(x, label)
  BY <1>1
<1>3. Domains' /\ PagesOK' /\ OriginsOK' /\ DOMAIN session' = Tabs
  BY <1>2 DEF Domains, PagesOK, OriginsOK, CallGoes
<1>4. /\ \A t \in Calls : t # x => pc'[t] = pc[t]
      /\ pc'[x] = label /\ pc[x] \notin {"unsent", "body", "ended"} /\ label \notin {"unsent", "body"}
  BY <1>2 DEF Domains, CallGoes
<1>5. \A t \in Calls : LoggingIn(t)' => LoggingIn(t)
  BY <1>2, <1>4 DEF LoggingIn, UnderWay, Here, Asks, CallGoes
<1>6. NumbersOK' /\ OneLogin'
  BY <1>2, <1>4, <1>5, NumbersStay DEF OneLogin, CallGoes
<1>7. LoginPath'
  <2>1. Asks(x, "login") => label \in {"answered", "ended"}
    BY <1>2, <1>4 DEF LoginPath, CallGoes
  <2> QED
    BY <1>2, <1>4, <2>1 DEF LoginPath, Asks, CallGoes
<1>8. LoginsStay
  <2>1. x \notin Accepted /\ x \notin Heard /\ x \notin Accepted' /\ x \notin Heard'
    <3>1. ASSUME label = "ended", Asks(x, "login") PROVE answer'[x].status # 200
      BY <1>2, <1>4, <3>1 DEF LoginPath, CallGoes
    <3> QED
      BY <1>2, <1>4, <3>1 DEF Accepted, Heard, Asks, CallGoes
  <2>2. \A t \in Calls \ {x} :
            /\ t \in Accepted' <=> t \in Accepted
            /\ t \in Heard' <=> t \in Heard
            /\ answer'[t] = answer[t] /\ origin'[t] = origin[t]
    BY <1>2, <1>4 DEF Accepted, Heard, Asks, CallGoes
  <2>3. Accepted \subseteq Calls /\ Heard \subseteq Calls /\ Accepted' \subseteq Calls /\ Heard' \subseteq Calls
    BY DEF Accepted, Heard
  <2> QED
    BY <1>2, <2>1, <2>2, <2>3 DEF LoginsStay, CallGoes
<1>9. Forgets
  BY <1>2 DEF CallGoes, Forgets
<1> QED
  BY <1>3, <1>5, <1>6, <1>7, <1>8, <1>9, LaterStays, FollowersStay

\* The headers of a login: it is the last one, and no other is being read.
LEMMA CookieKeepsSessions ==
    ASSUME plan \in Plans, SessionInv, NEW x \in Calls, SetsCookie(x)
    PROVE  SessionInv'
<1> USE DEF SessionInv
<1>1. /\ Here(x) /\ Asks(x, "login") /\ pc[x] = "answered" /\ answer[x].status = 200
      /\ cookie' = answer[x].user
      /\ pc' = [pc EXCEPT ![x] = "body"]
      /\ UNCHANGED <<users, profiles, answer, request, origin, page, loaded, disturbed, stored,
                     session, plan>>
  BY DEF SetsCookie, Hears, Goto, stores
<1>2. Domains' /\ PagesOK' /\ OriginsOK' /\ DOMAIN session' = Tabs
  BY <1>1 DEF Domains, PagesOK, OriginsOK
<1>3. /\ pc'[x] = "body" /\ LoggingIn(x)
      /\ \A t \in Calls : t # x => pc'[t] = pc[t]
      /\ \A t \in Calls : LoggingIn(t)' => LoggingIn(t)
  BY <1>1 DEF Domains, LoggingIn, UnderWay, Here, Asks
<1>4. NumbersOK' /\ OneLogin' /\ LoginPath'
  BY <1>1, <1>3, NumbersStay DEF OneLogin, LoginPath, Asks
<1>5. /\ Accepted' = Accepted \cup {x} /\ Heard' = Heard
      /\ \A y \in Heard, b \in Tabs : FromTab(y, b)' <=> FromTab(y, b)
  BY <1>1, <1>3 DEF Accepted, Heard, Asks, FromTab
<1>6. x \in Nat
  BY PlannedCalls
<1>7. "login" \notin disturbed => Last(Accepted', x)
  BY <1>3, <1>5, <1>6 DEF LaterThanAccepted, Last
<1>8. LaterThanAccepted'
  <2>1. ASSUME "login" \notin disturbed, NEW t \in Calls, LoggingIn(t)' PROVE t = x
    BY <1>3, <2>1 DEF OneLogin
  <2> QED
    BY <1>1, <1>7, <2>1 DEF LaterThanAccepted, Last
<1>9. SessionsFollowLogins'
  BY <1>1, <1>5, <1>7 DEF SessionsFollowLogins, Last
<1> QED
  BY <1>2, <1>4, <1>8, <1>9

\* The page of the last login stores it and shows it.
LEMMA LoginKeepsSessions ==
    ASSUME plan \in Plans, SessionInv, NEW x \in Calls, HearsLogin(x)
    PROVE  SessionInv'
<1> USE DEF SessionInv
<1>0. PICK b : b = origin[x].tab
  OBVIOUS
<1>1. /\ Here(x) /\ pc[x] = "body"
      /\ stored' = answer[x].user /\ session' = [session EXCEPT ![b] = answer[x].user]
      /\ pc' = [pc EXCEPT ![x] = "ended"]
      /\ UNCHANGED <<users, profiles, answer, request, origin, loaded, disturbed, cookie, plan>>
  BY <1>0 DEF HearsLogin, Hears, Ends, Goto, stores, StoredSession
<1>a. b \in Tabs /\ origin[x] # None
  BY <1>0, <1>1 DEF OriginsOK, Here
<1>2. PagesGrow
  <2>1. CASE page' = page
    BY <1>1, <2>1 DEF PagesGrow, PagesOK
  <2>2. CASE page' = [page EXCEPT ![b] = PageOf(Home, @.mount + 1, None)]
    <3>1. /\ page'[b] = PageOf(Home, page[b].mount + 1, None)
          /\ \A c \in Tabs \ {b} : page'[c] = page[c]
      BY <1>a, <2>2 DEF PagesOK
    <3>2. DOMAIN page' = Tabs /\ page'[b].mount = page[b].mount + 1
      BY <2>2, <3>1 DEF PagesOK, PageOf
    <3>3. page'[b] = PageOf(page'[b].route, page'[b].mount, page'[b].input)
      BY <3>1 DEF PageOf
    <3> QED
      BY <1>1, <1>a, <3>1, <3>2, <3>3 DEF PagesGrow, PagesOK
  <2> QED
    BY <1>0, <2>1, <2>2 DEF HearsLogin
<1>3. Domains' /\ PagesOK' /\ DOMAIN session' = Tabs
  BY <1>1, <1>2 DEF Domains, PagesGrow
<1>4. OriginsOK'
  <2>1. ASSUME NEW t \in Calls, origin[t] # None
        PROVE  origin[t].mount \in 0..page'[origin[t].tab].mount /\ origin[t].tab \in Tabs
    BY <1>1, <1>2, <2>1 DEF OriginsOK, PagesGrow, PagesOK
  <2> QED
    BY <1>1, <2>1 DEF OriginsOK, Domains
<1>5. /\ pc'[x] = "ended" /\ \A t \in Calls : t # x => pc'[t] = pc[t]
      /\ \A t \in Calls : LoggingIn(t)' => LoggingIn(t)
  BY <1>1 DEF Domains, LoggingIn, UnderWay, Here, Asks
<1>6. LoggingIn(x) /\ Asks(x, "login") /\ answer[x].status = 200
  BY <1>1 DEF LoginPath, LoggingIn, UnderWay
<1>7. NumbersOK' /\ OneLogin' /\ LoginPath'
  BY <1>1, <1>5, <1>6, NumbersStay DEF OneLogin, LoginPath, Asks
<1>8. /\ Accepted' = Accepted /\ x \in Accepted /\ Heard' = Heard \cup {x}
      /\ Heard \subseteq Accepted
      /\ \A y \in Calls, c \in Tabs : FromTab(y, c)' <=> FromTab(y, c)
  BY <1>1, <1>5, <1>6 DEF Accepted, Heard, Asks, FromTab
<1>9. LaterThanAccepted'
  BY <1>1, <1>5, <1>8 DEF LaterThanAccepted
<1>10. x \in Nat /\ Heard \subseteq Calls
  BY PlannedCalls DEF Heard, Accepted
<1>11. ASSUME "login" \notin disturbed PROVE Last(Heard', x)
  BY <1>6, <1>8, <1>10, <1>11 DEF LaterThanAccepted, Last
<1>12. ASSUME "login" \notin disturbed, NEW c \in Tabs, session'[c] # None
       PROVE  \E t \in Heard' :
                  /\ answer'[t].user = session'[c]
                  /\ \A y \in Heard' : FromTab(y, c)' => y <= t
  <2>1. CASE c = b
    BY <1>1, <1>8, <1>11, <1>12, <2>1 DEF Last
  <2>2. CASE c # b
    <3>1. session'[c] = session[c] /\ ~FromTab(x, c)
      BY <1>0, <1>1, <2>2 DEF FromTab
    <3>2. PICK t \in Heard : /\ answer[t].user = session[c]
                             /\ \A y \in Heard : FromTab(y, c) => y <= t
      BY <1>12, <3>1 DEF SessionsFollowLogins
    <3> QED
      BY <1>1, <1>8, <1>10, <3>1, <3>2
  <2> QED
    BY <2>1, <2>2
<1>13. SessionsFollowLogins'
  <2>1. ASSUME "login" \notin disturbed
        PROVE  cookie' = None \/ \E t \in Calls : Last(Accepted', t) /\ answer'[t].user = cookie'
    BY <1>1, <1>8, <2>1 DEF SessionsFollowLogins, Last
  <2>2. ASSUME "login" \notin disturbed
        PROVE  \E t \in Calls : Last(Heard', t) /\ answer'[t].user = stored'
    BY <1>1, <1>11, <2>2
  <2> QED
    BY <1>1, <1>12, <2>1, <2>2 DEF SessionsFollowLogins, Last
<1> QED
  BY <1>3, <1>4, <1>7, <1>9, <1>13

LEMMA ClientKeepsSessions ==
    ASSUME plan \in Plans, SessionInv, NEW work, ClientSends(work)
    PROVE  SessionInv'
<1> USE DEF SessionInv
<1>1. PICK x :
        /\ x \in Unsent /\ \A y \in Unsent : x <= y
        /\ request' = [request EXCEPT ![x] = work]
        /\ pc' = [pc EXCEPT ![x] = "profile"]
        /\ UNCHANGED <<users, profiles, answer, origin, page, loaded, disturbed, cookie, stored,
                       session, plan>>
  BY NextCallIsFirst DEF ClientSends, Sends, Goto, stores, webVars, tabVars, browserVars
<1>0. x \in Calls /\ pc[x] = "unsent" /\ work.op # "login"
  <2>1. work \in ProfileWork
    BY WebAssumption DEF ClientSends
  <2>2. work.op \in {"create", "update", "delete"}
    BY <2>1, Zenon DEF ProfileWork
  <2> QED
    BY <1>1, <2>2, PlannedCalls DEF Unsent
<1>2. Domains' /\ PagesOK' /\ OriginsOK' /\ DOMAIN session' = Tabs
  BY <1>1 DEF Domains, PagesOK, OriginsOK
<1>3. ~Here(x) /\ ~Here(x)' /\ pc'[x] = "profile" /\ ~Asks(x, "login")'
  BY <1>0, <1>1 DEF Domains, OriginsOK, Here, Asks
<1>4. ASSUME NEW t \in Calls, t # x
      PROVE  pc'[t] = pc[t] /\ request'[t] = request[t] /\ (Here(t)' <=> Here(t))
  BY <1>1, <1>4 DEF Domains, Here
<1>5. \A t \in Calls : LoggingIn(t)' => LoggingIn(t)
  BY <1>3, <1>4 DEF LoggingIn, UnderWay, Asks
<1>6. NumbersOK' /\ OneLogin'
  BY <1>1, <1>5, NumbersGrow DEF OneLogin
<1>7. LoginPath'
  BY <1>1, <1>3, <1>4 DEF LoginPath, Asks
<1>8. LoginsStay
  <2>1. ASSUME NEW t \in Calls
        PROVE  /\ t \in Accepted' <=> t \in Accepted
               /\ t \in Heard' <=> t \in Heard
    <3>1. CASE t # x
      BY <1>1, <1>4, <3>1 DEF Accepted, Heard, Asks
    <3>2. CASE t = x
      BY <1>0, <1>3, <3>2 DEF Accepted, Heard
    <3> QED
      BY <3>1, <3>2
  <2>2. Accepted \subseteq Calls /\ Heard \subseteq Calls /\ Accepted' \subseteq Calls /\ Heard' \subseteq Calls
    BY DEF Accepted, Heard
  <2> QED
    BY <1>1, <2>1, <2>2 DEF LoginsStay
<1>9. Forgets
  BY <1>1 DEF Forgets
<1> QED
  BY <1>2, <1>5, <1>6, <1>7, <1>8, <1>9, LaterStays, FollowersStay

-----------------------------------------------------------------------------
(* What people do begins at most one call.                                 *)

LEMMA BeginsOne ==
    ASSUME plan \in Plans, NEW b \in Tabs, NEW m, NEW work, NEW v, Begins(b, m, work, v),
           PagesGrow, Forgets, plan' = plan, m \in 0..page'[b].mount
    PROVE  CallBegins
<1>1. /\ FirstStep(work.op) \in {"find", "login", "vote", "read"}
      /\ work.op = "login" => FirstStep(work.op) = "login"
  BY DEF FirstStep
<1>2. /\ NextCall \in Unsent /\ \A y \in Unsent : NextCall <= y
      /\ request' = [request EXCEPT ![NextCall] = work]
      /\ pc' = [pc EXCEPT ![NextCall] = FirstStep(work.op)]
      /\ origin' = [origin EXCEPT ![NextCall] = [tab |-> b, mount |-> m, as |-> cookie]]
      /\ disturbed' = disturbed \cup Overlaps(b, m, work.op)
      /\ UNCHANGED <<users, profiles, answer>>
  BY NextCallIsFirst DEF Begins, Sends, Goto, stores
<1>3. CallOf(NextCall, work, FirstStep(work.op), b, m)
  BY <1>1, <1>2 DEF CallOf
<1> QED
  BY <1>3 DEF CallBegins

LEMMA RendersOne ==
    ASSUME plan \in Plans, PagesOK, NEW b \in Tabs, NEW route, NEW mount \in Nat, NEW input,
           NEW v, NEW user, NEW effect, Renders(b, route, mount, input, v, user, effect),
           mount >= page[b].mount, Forgets, plan' = plan,
           loaded' = loaded \/ loaded' = [loaded EXCEPT ![b] = mount]
    PROVE  CallBegins \/ NoCallBegins
<1>1. page' = [page EXCEPT ![b] = PageOf(route, mount, input)]
  BY DEF Renders
<1>2. /\ DOMAIN page' = Tabs /\ page'[b] = PageOf(route, mount, input)
      /\ \A c \in Tabs \ {b} : page'[c] = page[c]
  BY <1>1 DEF PagesOK
<1>3. /\ page'[b].mount = mount
      /\ page'[b] = PageOf(page'[b].route, page'[b].mount, page'[b].input)
  BY <1>2 DEF PageOf
<1>4. /\ DOMAIN loaded' = Tabs /\ loaded'[b] \in {loaded[b], mount}
      /\ \A c \in Tabs \ {b} : loaded'[c] = loaded[c]
  BY DEF PagesOK
<1>5. PagesGrow
  BY <1>2, <1>3, <1>4 DEF PagesOK, PagesGrow
<1>6. CASE effect /\ EffectOp(route, user) # "none"
  <2>1. \E work : Begins(b, mount, work, v)
    BY <1>6 DEF Renders
  <2> QED
    BY <1>3, <1>5, <2>1, BeginsOne
<1>7. CASE ~(effect /\ EffectOp(route, user) # "none")
  <2>1. BeginsNothing(b, v)
    BY <1>7 DEF Renders
  <2> QED
    BY <1>5, <2>1 DEF BeginsNothing, NoCallBegins, stores
<1> QED
  BY <1>6, <1>7

LEMMA StayKeepsPages ==
    ASSUME PagesOK, UNCHANGED <<page, loaded>>
    PROVE  PagesGrow
BY DEF PagesOK, PagesGrow

LEMMA UsesOne ==
    ASSUME plan \in Plans, PagesOK, DOMAIN session = Tabs, NEW b \in Tabs, Uses(b)
    PROVE  CallBegins \/ NoCallBegins
<1>1. page[b].mount \in Nat /\ page[b].mount + 1 \in Nat
  BY DEF PagesOK
<1>2. ASSUME NEW route, Opens(b, route) PROVE CallBegins \/ NoCallBegins
  <2>1. UNCHANGED <<loaded, stored, cookie, session, plan>>
    BY <1>2 DEF Opens, Clicks
  <2>2. PICK mount \in {page[b].mount, page[b].mount + 1} :
            \E input, v, user, effect : Renders(b, route, mount, input, v, user, effect)
    BY <1>2 DEF Opens, Mounts
  <2>3. mount \in Nat /\ mount >= page[b].mount /\ Forgets
    BY <1>1, <2>1, <2>2 DEF Forgets
  <2> QED
    BY <2>1, <2>2, <2>3, RendersOne
<1>3. ASSUME Reloads(b) PROVE CallBegins \/ NoCallBegins
  <2>1. /\ loaded' = [loaded EXCEPT ![b] = page[b].mount + 1]
        /\ UNCHANGED <<stored, cookie, plan>> /\ session' = [session EXCEPT ![b] = stored]
    BY <1>3 DEF Reloads, Clicks
  <2>2. \E route, input, v, user, effect :
            Renders(b, route, page[b].mount + 1, input, v, user, effect)
    BY <1>3 DEF Reloads, Mounts
  <2>3. page[b].mount + 1 >= page[b].mount /\ Forgets
    BY <1>1, <2>1 DEF Forgets
  <2> QED
    BY <1>1, <2>1, <2>2, <2>3, RendersOne
<1>4. ASSUME LogsOut(b) PROVE CallBegins \/ NoCallBegins
  <2>1. UNCHANGED <<loaded, cookie, plan>> /\ Forgets
    BY <1>4 DEF LogsOut, Clicks, Forgets
  <2>2. CASE Mounts(b, Login, None)
    <3>1. page[b].mount + 1 >= page[b].mount
      BY <1>1
    <3>2. \E input, v, effect : Renders(b, Login, page[b].mount + 1, input, v, None, effect)
      BY <2>2 DEF Mounts
    <3> QED
      BY <1>1, <2>1, <3>1, <3>2, RendersOne
  <2>3. CASE BeginsNothing(b, view[b]) /\ UNCHANGED page
    BY <2>1, <2>3, StayKeepsPages DEF BeginsNothing, NoCallBegins, stores
  <2> QED
    BY <1>4, <2>2, <2>3 DEF LogsOut
<1>5. ASSUME NEW u, LooksUp(b, u) PROVE CallBegins
  <2>1. page' = [page EXCEPT ![b].input = u] /\ UNCHANGED <<loaded, stored, cookie, session, plan>>
    BY <1>5 DEF LooksUp, Clicks
  <2>2. page[b] = PageOf(page[b].route, page[b].mount, page[b].input)
    BY DEF PagesOK
  <2>3. page'[b] = PageOf(page[b].route, page[b].mount, u)
    BY <2>1, <2>2 DEF PagesOK, PageOf
  <2>4. page'[b].mount = page[b].mount
        /\ page'[b] = PageOf(page'[b].route, page'[b].mount, page'[b].input)
    BY <2>3 DEF PageOf
  <2>5. PagesGrow
    BY <2>1, <2>4 DEF PagesOK, PagesGrow
  <2>6. \E work, v : Begins(b, page[b].mount, work, v)
    BY <1>5 DEF LooksUp
  <2> QED
    BY <1>1, <2>1, <2>4, <2>5, <2>6, BeginsOne DEF Forgets
<1>6. ASSUME NEW work, NEW v, Begins(b, page[b].mount, work, v),
             UNCHANGED <<page, loaded, stored, cookie, session, plan>>
      PROVE  CallBegins
  BY <1>1, <1>6, BeginsOne, StayKeepsPages DEF Forgets
<1>7. ASSUME NEW work, Submits(b, work) PROVE CallBegins
  BY <1>6, <1>7 DEF Submits, Clicks, tabVars
<1>8. ASSUME Votes(b) \/ Refreshes(b) \/ FindsDebate(b) PROVE CallBegins
  BY <1>6, <1>8 DEF Votes, Refreshes, FindsDebate, Clicks, tabVars
<1> QED
  BY <1>2, <1>3, <1>4, <1>5, <1>7, <1>8 DEF Uses

LEMMA ServesMoves ==
    ASSUME SessionInv, NEW x \in Calls, Serves(x) \/ AccountFault(x), UNCHANGED webVars
    PROVE  CallMoves
<1>1. UNCHANGED <<request, origin, page, loaded, disturbed, cookie, stored, session, plan>>
  BY DEF Serves, AccountFault, FindsEmail, InsertsUser, ProvisionsProfile, SignupAnswers, LogsIn,
         CreatesProfile, UpdatesProfile, DeletesProfile, ProvisioningFails, CallFails,
         webVars, tabVars, browserVars
<1>2. /\ pc[x] \notin {"unsent", "answered", "body", "ended"}
      /\ \E label \in {"insert", "provision", "reply", "answered"} :
             (pc[x] = "login" => label = "answered") /\ pc' = [pc EXCEPT ![x] = label]
      /\ \/ UNCHANGED answer
         \/ \E n, u : answer' = [answer EXCEPT ![x] = AnswerOf(n, u)]
  BY DEF Serves, AccountFault, FindsEmail, InsertsUser, ProvisionsProfile, SignupAnswers, LogsIn,
         CreatesProfile, UpdatesProfile, DeletesProfile, ProvisioningFails, CallFails,
         Goto, Answers, AfterInsert
<1>3. DOMAIN users' = DOMAIN users /\ DOMAIN profiles' = DOMAIN profiles
  BY DEF Serves, AccountFault, FindsEmail, InsertsUser, ProvisionsProfile, SignupAnswers, LogsIn,
         CreatesProfile, UpdatesProfile, DeletesProfile, ProvisioningFails, CallFails, stores
<1>4. DOMAIN answer' = DOMAIN answer /\ \A t \in Calls \ {x} : answer'[t] = answer[t]
  BY <1>2 DEF SessionInv, Domains
<1> QED
  BY <1>1, <1>2, <1>3, <1>4 DEF CallMoves, CallGoes

LEMMA PartsKeepSessions ==
    ASSUME SessionInv, NEW x \in Calls, NEW p, ServesPart(x, p) \/ RejectsPart(x, p)
    PROVE  NoCallBegins
<1>1. /\ UNCHANGED <<users, profiles, request, pc, origin, answer, disturbed>>
      /\ UNCHANGED <<page, loaded, cookie, stored, session, plan>>
  BY DEF ServesPart, RejectsPart, Fetches, NoSide, stores, tabVars, browserVars
<1> QED
  BY <1>1, StayKeepsPages DEF NoCallBegins, Forgets, SessionInv

LEMMA VoteMoves ==
    ASSUME SessionInv, NEW x \in Calls, ServesVote(x) \/ LosesVote(x)
    PROVE  CallMoves
<1>1. /\ UNCHANGED <<users, profiles, request, answer, origin>>
      /\ UNCHANGED <<page, loaded, disturbed, cookie, stored, session, plan>>
      /\ pc[x] = "vote"
      /\ \E label \in {"voted", "refused"} : pc' = [pc EXCEPT ![x] = label]
  BY DEF ServesVote, LosesVote, NoSide, Goto, stores, tabVars, browserVars
<1> QED
  BY <1>1 DEF CallMoves, CallGoes

LEMMA HearingMovesOn ==
    ASSUME SessionInv, NEW x \in Calls,
           HearsRefusal(x) \/ HearsSignup(x) \/ HearsVote(x) \/ HearsParts(x)
    PROVE  CallMoves
<1>1. /\ UNCHANGED <<users, profiles, request, answer, origin>>
      /\ UNCHANGED <<page, loaded, disturbed, cookie, stored, session, plan>>
      /\ pc[x] \in {"answered", "voted", "refused", "read"}
      /\ \E label \in {"read", "ended"} :
             /\ pc' = [pc EXCEPT ![x] = label]
             /\ pc[x] = "answered" => label = "ended" /\ (Asks(x, "login") => answer[x].status # 200)
  BY DEF Asks, HearsRefusal, HearsSignup, HearsVote, HearsParts, Hears, Ends, Goto, AfterVote, stores,
         browserVars
<1> QED
  BY <1>1 DEF CallMoves, CallGoes

LEMMA StepKeepsSessions == plan \in Plans /\ SessionInv /\ [Next]_vars => SessionInv'
<1> SUFFICES ASSUME plan \in Plans, SessionInv, [Next]_vars PROVE SessionInv'
  OBVIOUS
<1> USE DEF SessionInv
<1>1. ASSUME NEW b \in Tabs, Uses(b) PROVE SessionInv'
  BY <1>1, UsesOne, CallBeginsKeepsSessions, NoCallKeepsSessions
<1>2. ASSUME NEW t \in Calls, Answering(t) PROVE SessionInv'
  BY <1>2, ServesMoves, VoteMoves, PartsKeepSessions, MovesKeepsSessions, NoCallKeepsSessions
  DEF Answering, AccountStep
<1>3. ASSUME NEW t \in Calls, Hearing(t) PROVE SessionInv'
  BY <1>3, HearingMovesOn, MovesKeepsSessions, CookieKeepsSessions, LoginKeepsSessions DEF Hearing
<1>4. CASE Fault
  BY <1>4, ServesMoves, VoteMoves, PartsKeepSessions, MovesKeepsSessions, NoCallKeepsSessions
  DEF Fault
<1>5. CASE CookieExpires \/ Quiescent \/ UNCHANGED vars
  <2>1. /\ UNCHANGED <<users, profiles, request, pc, origin, answer, disturbed, page, loaded, plan>>
        /\ Forgets
    BY <1>5 DEF CookieExpires, Quiescent, vars, accountVars, webVars, stores, tabVars, browserVars, Forgets
  <2> QED
    BY <2>1, StayKeepsPages, NoCallKeepsSessions DEF NoCallBegins
<1> QED
  BY <1>1, <1>2, <1>3, <1>4, <1>5, ClientKeepsSessions DEF Next

LEMMA SessionsHold == Safety => []SessionInv
<1>1. Init => SessionInv
  BY InitSessions
<1> QED
  BY <1>1, PlanHolds, StepKeepsSessions, PTL DEF Safety

\* For any number of tabs, users and logins that do not overlap: the cookie, the
\* session in localStorage and those of the tabs follow the logins in their
\* order, so that a tab names another account than the cookie only when another
\* tab has logged in since or a login was left between its cookie and setItem.
THEOREM SessionsFollow == Safety => []SessionsFollowLogins
BY SessionsHold, PTL DEF SessionInv

-----------------------------------------------------------------------------
(* The types of the accounts                                               *)

ProfileRows == [name : Names, avatar : Avatars \cup {None}]

\* A call that is somewhere asks for what is done there.
RequestFits(t) ==
    /\ pc[t] \in {"find", "insert", "provision", "reply", "login"} => request[t] \in Credentials
    /\ pc[t] = "profile" => request[t] \in ProfileWork

AccountTypes ==
    /\ \A u \in Users : users[u] = None \/ users[u] \in UserRows
    /\ \A u \in Users : profiles[u] = None \/ profiles[u] \in ProfileRows
    /\ pc \in [Calls -> Labels]
    /\ \A t \in Calls : answer[t].user \in Users \cup {None} /\ RequestFits(t)

LEMMA CredentialsRow ==
    ASSUME NEW r \in Credentials
    PROVE  /\ Normalized[r.email] \in Emails
           /\ [email |-> Normalized[r.email], password |-> r.password] \in UserRows
BY DEF Credentials, UserRows, Emails

LEMMA RowEmail ==
    ASSUME NEW row \in UserRows
    PROVE  LocalPart[row.email] \in Names
BY DEF UserRows, Names

\* What a profile's owner may send.
LEMMA ProfileFields ==
    ASSUME NEW r \in ProfileWork
    PROVE  /\ r.owner \in Users
           /\ r.op = "create" => NewProfile(r.name, r.avatar) \in ProfileRows
           /\ r.op = "update" =>
                  /\ r.name \in Names \cup {None}
                  /\ r.avatar \in Avatars \cup {"", None}
<1> DEFINE Patches == Avatars \cup {"", None}
<1>1. r \in [op : {"create"}, owner : Users, name : Names, avatar : Avatars \cup {None}]
        \cup [op : {"update"}, owner : Users, name : Names \cup {None}, avatar : Patches]
        \cup [op : {"delete"}, owner : Users]
  BY Zenon DEF ProfileWork
<1>2. Patches = Avatars \cup {"", None}
  OBVIOUS
<1> HIDE DEF Patches
<1>3. /\ r.owner \in Users
      /\ r.op = "create" => r.name \in Names /\ r.avatar \in Avatars \cup {None}
      /\ r.op = "update" => r.name \in Names \cup {None} /\ r.avatar \in Patches
  BY <1>1
<1> QED
  BY <1>2, <1>3 DEF NewProfile, ProfileRows

LEMMA ProfileRow ==
    \A n \in Names : \A a \in Avatars \cup {None} : [name |-> n, avatar |-> a] \in ProfileRows
BY DEF ProfileRows

LEMMA PatchedType ==
    ASSUME NEW profile \in ProfileRows, NEW r,
           r.name \in Names \cup {None}, r.avatar \in Avatars \cup {"", None}
    PROVE  Patched(profile, r) \in ProfileRows
<1>1. profile.name \in Names /\ profile.avatar \in Avatars \cup {None}
  BY DEF ProfileRows
<1> DEFINE n == IF r.name = None THEN profile.name ELSE r.name
<1>2. n \in Names
  BY <1>1, Zenon
<1> DEFINE a == CASE r.avatar = None -> profile.avatar
                  [] r.avatar = "" -> None
                  [] OTHER -> r.avatar
<1>3. a \in Avatars \cup {None}
  <2>1. CASE r.avatar = None
    BY <1>1, <2>1, Zenon
  <2>2. CASE r.avatar # None /\ r.avatar = ""
    BY <1>1, <2>2, Zenon
  <2>3. CASE r.avatar # None /\ r.avatar # ""
    BY <1>1, <2>3, Zenon
  <2> QED
    BY <2>1, <2>2, <2>3, Zenon
<1>4. Patched(profile, r) = [name |-> n, avatar |-> a]
  BY Zenon DEF Patched
<1> HIDE DEF a, n
<1> QED
  BY <1>2, <1>3, <1>4, ProfileRow, Zenon

LEMMA InitAccountTypes == ASSUME Init PROVE AccountTypes
<1>1. ASSUME NEW u \in Users PROVE users[u] = None \/ users[u] \in UserRows
  <2>1. \A k \in DOMAIN Known : Known[k] \in UserRows
    BY AccountsAssumption, Zenon
  <2> QED
    BY <2>1 DEF Init, AccountsInit, Users
<1>2. /\ \A u \in Users : profiles[u] = None
      /\ pc \in [Calls -> Labels]
      /\ \A t \in Calls : answer[t].user = None /\ pc[t] = "unsent"
  BY DEF Init, AccountsInit, NoAnswer, Labels
<1> QED
  BY <1>1, <1>2 DEF AccountTypes, RequestFits

LEMMA SendsKeepsTypes ==
    ASSUME AccountsInv, AccountTypes, SendsAny
    PROVE  AccountTypes'
<1>1. PICK x, work, label :
          /\ label \in {"find", "login", "vote", "read", "profile"}
          /\ WorkFits(work, label)
          /\ pc[x] = "unsent"
          /\ request' = [request EXCEPT ![x] = work]
          /\ pc' = [pc EXCEPT ![x] = label]
          /\ UNCHANGED <<users, profiles, answer>>
  BY DEF SendsAny, stores
<1>2. DOMAIN request = Calls /\ DOMAIN pc = Calls
  BY DEF AccountsInv, Domains
<1>3. pc' \in [Calls -> Labels]
  BY <1>1 DEF AccountTypes, Labels
<1>4. ASSUME NEW t \in Calls PROVE RequestFits(t)'
  <2>1. CASE t = x
    BY <1>1, <1>2, <2>1 DEF RequestFits, WorkFits
  <2>2. CASE t # x
    BY <1>1, <1>2, <2>2 DEF AccountTypes, RequestFits
  <2> QED
    BY <2>1, <2>2
<1> QED
  BY <1>1, <1>3, <1>4 DEF AccountTypes

LEMMA MovesKeepsTypes ==
    ASSUME AccountTypes, MovesAny
    PROVE  AccountTypes'
<1>1. PICK x, label :
          /\ label \in {"body", "voted", "refused", "read", "ended"}
          /\ pc' = [pc EXCEPT ![x] = label]
          /\ UNCHANGED <<users, profiles, request, answer>>
  BY DEF MovesAny, stores
<1>2. pc' \in [Calls -> Labels]
  BY <1>1 DEF AccountTypes, Labels
<1>3. ASSUME NEW t \in Calls PROVE RequestFits(t)'
  BY <1>1 DEF AccountTypes, RequestFits
<1> QED
  BY <1>1, <1>2, <1>3 DEF AccountTypes

\* A call of the services goes to its next step or has its answer.
LEMMA ServesGoesOn ==
    ASSUME AccountTypes, NEW x \in Calls, Serves(x) \/ AccountFault(x)
    PROVE  /\ request' = request
           /\ pc[x] \in {"find", "insert", "provision", "reply", "login", "profile"}
           /\ \/ pc[x] \in {"find", "insert", "provision"} /\ UNCHANGED answer
                     /\ \E label \in {"insert", "provision", "reply"} :
                            pc' = [pc EXCEPT ![x] = label]
              \/ pc' = [pc EXCEPT ![x] = "answered"]
                     /\ \E n : \E u \in Users \cup {None} :
                            answer' = [answer EXCEPT ![x] = AnswerOf(n, u)]
<1>1. x \in Users
  BY DEF Users
<1>2. CASE FindsEmail(x)
  BY <1>2 DEF FindsEmail, Answers, Goto
<1>3. CASE InsertsUser(x)
  BY <1>3 DEF InsertsUser, Answers, Goto, AfterInsert
<1>4. CASE ProvisionsProfile(x) \/ ProvisioningFails(x)
  BY <1>4 DEF ProvisionsProfile, ProvisioningFails, Goto
<1>5. CASE SignupAnswers(x)
  BY <1>1, <1>5 DEF SignupAnswers, Answers
<1>6. CASE LogsIn(x)
  <2>1. \E n : \E u \in Users \cup {None} : Answers(x, n, u)
    BY <1>6 DEF LogsIn, Having
  <2> QED
    BY <1>6, <2>1 DEF LogsIn, Answers
<1>7. CASE CreatesProfile(x) \/ UpdatesProfile(x) \/ DeletesProfile(x)
  <2>1. request[x] \in ProfileWork
    BY <1>7 DEF CreatesProfile, UpdatesProfile, DeletesProfile, AccountTypes, RequestFits
  <2>2. request[x].owner \in Users
    BY <2>1, ProfileFields, Zenon
  <2>3. \E n : \E u \in Users \cup {None} : Answers(x, n, u)
    BY <1>7, <2>2 DEF CreatesProfile, UpdatesProfile, DeletesProfile
  <2> QED
    BY <1>7, <2>3 DEF CreatesProfile, UpdatesProfile, DeletesProfile, Answers
<1>8. CASE CallFails(x)
  BY <1>8 DEF CallFails, Answers
<1> QED
  BY <1>2, <1>3, <1>4, <1>5, <1>6, <1>7, <1>8 DEF Serves, AccountFault

\* The rows that the services store.
LEMMA ServesKeepsRows ==
    ASSUME AccountsInv, AccountTypes, NEW x \in Calls, Serves(x) \/ AccountFault(x)
    PROVE  /\ \A u \in Users : users'[u] = None \/ users'[u] \in UserRows
           /\ \A u \in Users : profiles'[u] = None \/ profiles'[u] \in ProfileRows
<1>1. DOMAIN users = Users /\ DOMAIN profiles = Users
  BY DEF AccountsInv, Domains
<1>2. ASSUME pc[x] \in {"insert", "provision"}
      PROVE  UserOf(x) \in UserRows /\ Email(x) \in Emails
  BY <1>2, CredentialsRow DEF AccountTypes, RequestFits, UserOf, Email
<1>3. CASE InsertsUser(x)
  <2>1. users' \in {users, [users EXCEPT ![x] = UserOf(x)]} /\ profiles' = profiles
    BY <1>3 DEF InsertsUser
  <2>2. UserOf(x) \in UserRows
    BY <1>2, <1>3 DEF InsertsUser
  <2>3. \A u \in Users : users'[u] = users[u] \/ users'[u] = UserOf(x)
    BY <1>1, <2>1
  <2> QED
    BY <2>1, <2>2, <2>3 DEF AccountTypes
<1>4. CASE ProvisionsProfile(x)
  <2>1. users[x] = UserOf(x) /\ users[x] \in UserRows
    BY <1>2, <1>4 DEF ProvisionsProfile, AccountsInv, RowsFollowCalls
  <2> DEFINE row == NewProfile(LocalPart[users[x].email], None)
  <2>2. row \in ProfileRows
    BY <2>1, RowEmail, ProfileRow DEF NewProfile
  <2>3. profiles' \in {profiles, [profiles EXCEPT ![x] = row]} /\ users' = users
    BY <1>4 DEF ProvisionsProfile
  <2> HIDE DEF row
  <2>4. \A u \in Users : profiles'[u] = profiles[u] \/ profiles'[u] = row
    BY <1>1, <2>3
  <2> QED
    BY <2>2, <2>3, <2>4 DEF AccountTypes
<1>5. ASSUME pc[x] = "profile" PROVE request[x] \in ProfileWork
  BY <1>5 DEF AccountTypes, RequestFits
<1>6. CASE CreatesProfile(x)
  <2> DEFINE row == NewProfile(request[x].name, request[x].avatar)
  <2>1. request[x] \in ProfileWork /\ request[x].op = "create"
    BY <1>5, <1>6 DEF CreatesProfile, Asks
  <2>2. row \in ProfileRows
    BY <2>1, ProfileFields, Zenon
  <2>3. profiles' \in {profiles, [profiles EXCEPT ![request[x].owner] = row]} /\ users' = users
    BY <1>6 DEF CreatesProfile
  <2> HIDE DEF row
  <2>4. \A u \in Users : profiles'[u] = profiles[u] \/ profiles'[u] = row
    BY <1>1, <2>3
  <2> QED
    BY <2>2, <2>3, <2>4 DEF AccountTypes
<1>7. CASE UpdatesProfile(x)
  <2> DEFINE o == request[x].owner
             row == Patched(profiles[o], request[x])
  <2>1. request[x] \in ProfileWork /\ request[x].op = "update"
    BY <1>5, <1>7 DEF UpdatesProfile, Asks
  <2>2. /\ o \in Users
        /\ request[x].name \in Names \cup {None}
        /\ request[x].avatar \in Avatars \cup {"", None}
    BY <2>1, ProfileFields, Zenon
  <2>3. profiles[o] # None => row \in ProfileRows
    <3>1. profiles[o] # None => profiles[o] \in ProfileRows
      BY <2>2, Zenon DEF AccountTypes
    <3> QED
      BY <2>2, <3>1, PatchedType, Zenon
  <2>4. /\ users' = users
        /\ \/ profiles[o] = None /\ profiles' = profiles
           \/ profiles[o] # None /\ profiles' = [profiles EXCEPT ![o] = row]
    BY <1>7, Zenon DEF UpdatesProfile
  <2> HIDE DEF row, o
  <2>5. \A u \in Users : profiles'[u] = profiles[u] \/ (profiles[o] # None /\ profiles'[u] = row)
    BY <1>1, <2>4
  <2> QED
    BY <2>3, <2>4, <2>5 DEF AccountTypes
<1>8. CASE DeletesProfile(x)
  <2>1. profiles' = [profiles EXCEPT ![request[x].owner] = None] /\ users' = users
    BY <1>8 DEF DeletesProfile
  <2>2. \A u \in Users : profiles'[u] = profiles[u] \/ profiles'[u] = None
    BY <1>1, <2>1
  <2> QED
    BY <2>1, <2>2 DEF AccountTypes
<1>9. CASE UNCHANGED stores
  BY <1>9 DEF stores, AccountTypes
<1> QED
  BY <1>3, <1>4, <1>6, <1>7, <1>8, <1>9
  DEF Serves, AccountFault, FindsEmail, SignupAnswers, LogsIn, ProvisioningFails, CallFails, stores

LEMMA ServesKeepsTypes ==
    ASSUME AccountsInv, AccountTypes, NEW x \in Calls, Serves(x) \/ AccountFault(x)
    PROVE  AccountTypes'
<1>1. /\ \A u \in Users : users'[u] = None \/ users'[u] \in UserRows
      /\ \A u \in Users : profiles'[u] = None \/ profiles'[u] \in ProfileRows
  BY ServesKeepsRows
<1>2. DOMAIN answer = Calls /\ DOMAIN pc = Calls
  BY DEF AccountsInv, Domains
<1>3. CASE /\ pc[x] \in {"find", "insert", "provision"} /\ UNCHANGED <<answer, request>>
           /\ \E label \in {"insert", "provision", "reply"} : pc' = [pc EXCEPT ![x] = label]
  <2>1. PICK label \in {"insert", "provision", "reply"} : pc' = [pc EXCEPT ![x] = label]
    BY <1>3
  <2>2. pc' \in [Calls -> Labels]
    BY <2>1 DEF AccountTypes, Labels
  <2>3. ASSUME NEW t \in Calls PROVE RequestFits(t)'
    BY <1>2, <1>3, <2>1 DEF AccountTypes, RequestFits
  <2> QED
    BY <1>1, <1>3, <2>2, <2>3 DEF AccountTypes
<1>4. ASSUME NEW n, NEW u \in Users \cup {None}, request' = request,
             pc' = [pc EXCEPT ![x] = "answered"],
             answer' = [answer EXCEPT ![x] = AnswerOf(n, u)]
      PROVE  AccountTypes'
  <2>1. pc' \in [Calls -> Labels]
    BY <1>4 DEF AccountTypes, Labels
  <2>2. ASSUME NEW t \in Calls PROVE RequestFits(t)'
    BY <1>2, <1>4 DEF AccountTypes, RequestFits
  <2>3. AnswerOf(n, u).user = u
    BY DEF AnswerOf
  <2>4. ASSUME NEW t \in Calls PROVE answer'[t].user \in Users \cup {None}
    BY <1>2, <1>4, <2>3 DEF AccountTypes
  <2> QED
    BY <1>1, <2>1, <2>2, <2>4 DEF AccountTypes
<1> QED
  BY <1>3, <1>4, ServesGoesOn

LEMMA StepKeepsTypes ==
    AccountsInv /\ AccountTypes /\ plan \in Plans /\ [Next]_vars => AccountTypes'
<1> SUFFICES ASSUME AccountsInv, AccountTypes, plan \in Plans, [Next]_vars PROVE AccountTypes'
  OBVIOUS
<1>1. CASE UNCHANGED accounts
  BY <1>1 DEF accounts, stores, AccountTypes, RequestFits
<1> QED
  BY <1>1, StepKinds, SendsKeepsTypes, MovesKeepsTypes, ServesKeepsTypes

LEMMA AccountTypesHold == Safety => []AccountTypes
<1>1. Init => AccountTypes
  BY InitAccountTypes
<1> QED
  BY <1>1, PlanHolds, AccountsHold, StepKeepsTypes, PTL DEF Safety

-----------------------------------------------------------------------------
(* The types of the browser                                                *)

\* A user that is named has an account.
HasRow(u) == u # None => u \in Users /\ users[u] # None

BrowserTypes ==
    /\ session \in [Tabs -> Users \cup {None}]
    /\ stored \in Users \cup {None}
    /\ HasRow(cookie)
    /\ \A x \in ballots : x.debate \in Votable /\ x.user \in Users /\ users[x.user] # None
    /\ \A t \in Calls : pc[t] = "vote" => HasRow(origin[t].as)
    /\ \A b \in Tabs : page[b].route \in Routes(b)
    /\ faults \in 0..MaxFaults

\* What the proofs about the browser start from.
Groundwork == plan \in Plans /\ AccountsInv /\ SessionInv /\ AccountTypes

LEMMA GroundworkHolds == Safety => []Groundwork
BY PlanHolds, AccountsHold, SessionsHold, AccountTypesHold, PTL DEF Groundwork

\* A row of users stays.
LEMMA RowsStay ==
    ASSUME Groundwork, [Next]_vars, NEW u \in Users, users[u] # None
    PROVE  users'[u] # None
<1>1. ASSUME NEW x \in Calls, InsertsUser(x) PROVE users'[u] # None
  <2>1. users[x] = None /\ DOMAIN users = Users
    BY <1>1 DEF InsertsUser, Groundwork, AccountsInv, RowsFollowCalls, Domains
  <2> QED
    BY <1>1, <2>1 DEF InsertsUser
<1>2. ASSUME NEW x \in Calls, Serves(x) \/ AccountFault(x), ~InsertsUser(x)
      PROVE  users' = users
  BY <1>2 DEF Serves, AccountFault, FindsEmail, ProvisionsProfile, SignupAnswers, LogsIn, CreatesProfile,
              UpdatesProfile, DeletesProfile, ProvisioningFails, CallFails, stores
<1>3. (\E x \in Calls : InsertsUser(x)) \/ users' = users
  BY <1>2, StepKinds DEF Groundwork, SendsAny, MovesAny, accounts, stores
<1> QED
  BY <1>1, <1>3

\* What people do changes a session to the stored one or ends it.
LEMMA UsesKeepsBrowser ==
    ASSUME Groundwork, BrowserTypes, [Next]_vars, NEW b \in Tabs, Uses(b)
    PROVE  BrowserTypes'
<1>1. UNCHANGED <<plan, cookie, ballots, faults, users>>
  <2>1. UNCHANGED <<plan, cookie, ballots, faults>>
    BY DEF Uses, Opens, Submits, LooksUp, Reloads, LogsOut, Votes, Refreshes, FindsDebate, Clicks
  <2>2. users' = users
    BY UsesSends DEF Groundwork, SendsAny, accounts, stores
  <2> QED
    BY <2>1, <2>2
<1>2. session' \in [Tabs -> Users \cup {None}] /\ stored' \in Users \cup {None}
  <2>1. stored' \in {stored, None}
    BY DEF Uses, Opens, Submits, LooksUp, Reloads, LogsOut, Votes, Refreshes, FindsDebate, tabVars
  <2>2. \/ session' = session
        \/ session' = [session EXCEPT ![b] = stored]
        \/ session' = [session EXCEPT ![b] = None]
    BY DEF Uses, Opens, Submits, LooksUp, Reloads, LogsOut, Votes, Refreshes, FindsDebate, tabVars
  <2> QED
    BY <2>1, <2>2 DEF BrowserTypes
<1>3. ASSUME NEW t \in Calls, pc'[t] = "vote" PROVE HasRow(origin[t].as)'
  <2>1. DOMAIN pc = Calls /\ DOMAIN origin = Calls
    BY DEF Groundwork, AccountsInv, Domains, SessionInv, OriginsOK
  <2>2. CASE NoCallBegins
    BY <1>1, <1>3, <2>2 DEF NoCallBegins, BrowserTypes, HasRow
  <2>3. ASSUME NEW x, NEW label, NEW c, NEW m,
               pc' = [pc EXCEPT ![x] = label],
               origin' = [origin EXCEPT ![x] = [tab |-> c, mount |-> m, as |-> cookie]]
        PROVE  HasRow(origin[t].as)'
    <3>1. CASE t = x
      <4>1. origin'[t].as = cookie
        BY <2>1, <2>3, <3>1
      <4> QED
        BY <1>1, <4>1 DEF BrowserTypes, HasRow
    <3>2. CASE t # x
      <4>1. origin'[t] = origin[t] /\ pc'[t] = pc[t]
        BY <2>1, <2>3, <3>2
      <4> QED
        BY <1>1, <1>3, <4>1 DEF BrowserTypes, HasRow
    <3> QED
      BY <3>1, <3>2
  <2>4. CASE CallBegins
    <3>1. PICK x, work, label, c, m : CallOf(x, work, label, c, m)
      BY <2>4 DEF CallBegins
    <3> QED
      BY <2>3, <3>1 DEF CallOf
  <2> QED
    BY <2>2, <2>4, UsesOne DEF Groundwork, SessionInv
<1>4. ASSUME NEW c \in Tabs PROVE (page[c].route \in Routes(c))'
  <2>1. Routes(c)' = Routes(c) /\ page[c].route \in Routes(c)
    BY <1>1 DEF Routes, BrowserTypes
  <2>2. DOMAIN page = Tabs /\ page[b] = PageOf(page[b].route, page[b].mount, page[b].input)
    BY DEF Groundwork, SessionInv, PagesOK
  <2>3. \/ page' = page
        \/ \E u : page' = [page EXCEPT ![b].input = u]
        \/ \E mount, input : page' = [page EXCEPT ![b] = PageOf(page[b].route, mount, input)]
        \/ \E mount, input : page' = [page EXCEPT ![b] = PageOf(Login, mount, input)]
        \/ \E route : Opens(b, route)
    BY DEF Uses, Opens, Submits, LooksUp, Reloads, LogsOut, Votes, Refreshes, FindsDebate, tabVars,
           Mounts, Renders
  <2>4. ASSUME NEW route, route \in Routes(b), NEW mount, NEW input,
               page' = [page EXCEPT ![b] = PageOf(route, mount, input)]
        PROVE  page'[c].route \in Routes(c)
    BY <2>1, <2>2, <2>4 DEF PageOf
  <2>5. ASSUME NEW u, page' = [page EXCEPT ![b].input = u]
        PROVE  page'[c].route \in Routes(c)
    BY <2>1, <2>2, <2>5 DEF PageOf
  <2>6. ASSUME NEW route, Opens(b, route) PROVE page'[c].route \in Routes(c)
    <3>1. [do |-> "open", route |-> route] \in plan.tab[b]
      BY <2>6 DEF Opens, Clicks
    <3>2. route \in Routes(b)
      BY <3>1 DEF Routes
    <3>3. \E mount, input : page' = [page EXCEPT ![b] = PageOf(route, mount, input)]
      BY <2>6 DEF Opens, Mounts, Renders
    <3> QED
      BY <2>4, <3>2, <3>3
  <2>7. Login \in Routes(b) /\ page[b].route \in Routes(b)
    BY DEF Routes, BrowserTypes
  <2> QED
    BY <2>1, <2>3, <2>4, <2>5, <2>6, <2>7
<1> QED
  BY <1>1, <1>2, <1>3, <1>4 DEF BrowserTypes, HasRow

\* Nobody else begins to vote.
LEMMA VotesAreClicked ==
    ASSUME Groundwork, [Next]_vars, ~\E b \in Tabs : Uses(b),
           NEW t \in Calls, pc'[t] = "vote"
    PROVE  pc[t] = "vote" /\ origin'[t] = origin[t]
<1>1. DOMAIN pc = Calls
  BY DEF Groundwork, AccountsInv, Domains
<1>2. ASSUME NEW x \in Calls, Serves(x) \/ AccountFault(x), UNCHANGED webVars
      PROVE  pc[t] = "vote" /\ origin'[t] = origin[t]
  <2>1. \E label \in {"insert", "provision", "reply", "answered"} : pc' = [pc EXCEPT ![x] = label]
    BY <1>2, ServesGoesOn DEF Groundwork
  <2> QED
    BY <1>1, <1>2, <2>1 DEF webVars
<1>3. ASSUME NEW x \in Calls, Hearing(x) PROVE pc[t] = "vote" /\ origin'[t] = origin[t]
  <2>1. /\ origin' = origin
        /\ \E label \in {"body", "read", "ended"} : pc' = [pc EXCEPT ![x] = label]
    BY <1>3 DEF Hearing, SetsCookie, HearsLogin, HearsRefusal, HearsSignup, HearsVote, HearsParts, Hears,
                Goto, Ends, AfterVote
  <2> QED
    BY <1>1, <2>1
<1>4. ASSUME NEW x \in Calls, ServesVote(x) \/ LosesVote(x) PROVE pc[t] = "vote" /\ origin'[t] = origin[t]
  BY <1>1, <1>4 DEF ServesVote, LosesVote, Goto, NoSide
<1>5. ASSUME NEW x \in Calls, NEW p, ServesPart(x, p) \/ RejectsPart(x, p)
      PROVE  pc[t] = "vote" /\ origin'[t] = origin[t]
  BY <1>5 DEF ServesPart, RejectsPart, Fetches, NoSide
<1>6. ASSUME NEW work, ClientSends(work) PROVE pc[t] = "vote" /\ origin'[t] = origin[t]
  BY <1>1, <1>6 DEF ClientSends, Sends, Goto, webVars
<1>7. CASE CookieExpires \/ Quiescent \/ UNCHANGED vars
  BY <1>7 DEF CookieExpires, Quiescent, vars, accountVars, webVars
<1> QED
  BY <1>2, <1>3, <1>4, <1>5, <1>6, <1>7 DEF Next, Answering, AccountStep, Fault

\* The browser hears who has logged in, and that is somebody.
LEMMA CookieType ==
    ASSUME Groundwork, BrowserTypes, [Next]_vars, ~\E b \in Tabs : Uses(b)
    PROVE  HasRow(cookie)'
<1>1. ASSUME NEW x \in Calls, SetsCookie(x) PROVE HasRow(cookie')
  BY <1>1 DEF SetsCookie, Groundwork, AccountTypes, AccountsInv, AnswersAreTrue, HasRow
<1>2. ASSUME ~\E x \in Calls : SetsCookie(x) PROVE cookie' \in {cookie, None}
  <2>1. ASSUME NEW x \in Calls, Answering(x) PROVE cookie' = cookie
    BY <2>1 DEF Answering, AccountStep, ServesVote, ServesPart, Fetches, NoSide, webVars, browserVars
  <2>2. ASSUME NEW x \in Calls, Hearing(x) PROVE cookie' = cookie
    BY <1>2, <2>2 DEF Hearing, HearsLogin, HearsRefusal, HearsSignup, HearsVote, HearsParts, browserVars
  <2>3. CASE Fault
    BY <2>3 DEF Fault, LosesVote, RejectsPart, Fetches, NoSide, webVars, browserVars
  <2>4. ASSUME NEW work, ClientSends(work) PROVE cookie' = cookie
    BY <2>4 DEF ClientSends, webVars, browserVars
  <2>5. CASE CookieExpires \/ Quiescent \/ UNCHANGED vars
    BY <2>5 DEF CookieExpires, Quiescent, vars, webVars, browserVars
  <2> QED
    BY <2>1, <2>2, <2>3, <2>4, <2>5 DEF Next
<1>3. HasRow(cookie')
  BY <1>1, <1>2 DEF BrowserTypes, HasRow
<1>4. PICK u : u = cookie'
  OBVIOUS
<1>5. CASE u # None
  <2>1. u \in Users /\ users[u] # None
    BY <1>3, <1>4, <1>5 DEF HasRow
  <2> QED
    BY <1>4, <2>1, RowsStay DEF HasRow
<1>6. CASE u = None
  BY <1>4, <1>6 DEF HasRow
<1> QED
  BY <1>5, <1>6

\* A ballot is cast by somebody with an account.
LEMMA BallotsType ==
    ASSUME Groundwork, BrowserTypes, [Next]_vars, ~\E b \in Tabs : Uses(b)
    PROVE  (\A x \in ballots : x.debate \in Votable /\ x.user \in Users /\ users[x.user] # None)'
<1>1. ASSUME NEW t \in Calls, ServesVote(t) \/ LosesVote(t)
      PROVE  \A x \in ballots' : x.debate \in Votable /\ x.user \in Users /\ users[x.user] # None
  <2> DEFINE new == [debate |-> request[t].id, user |-> origin[t].as]
  <2>1. CASE ballots' = ballots
    BY <2>1 DEF BrowserTypes
  <2>2. CASE Accepts(request[t].id, origin[t].as) /\ Casts(t)
    <3>1. /\ request[t].id \in Votable /\ origin[t].as # None
          /\ ballots' = ballots \cup {new}
      BY <2>2 DEF Accepts, Casts
    <3>2. HasRow(origin[t].as)
      BY <1>1 DEF ServesVote, LosesVote, BrowserTypes
    <3>3. new.debate \in Votable /\ new.user \in Users /\ users[new.user] # None
      BY <3>1, <3>2 DEF HasRow
    <3> QED
      BY <3>1, <3>3 DEF BrowserTypes
  <2> QED
    BY <1>1, <2>1, <2>2 DEF ServesVote, LosesVote
<1>2. ASSUME ~\E t \in Calls : ServesVote(t) \/ LosesVote(t) PROVE ballots' = ballots
  <2>1. ASSUME NEW x \in Calls, Answering(x) \/ Hearing(x) PROVE ballots' = ballots
    BY <1>2, <2>1 DEF Answering, AccountStep, ServesPart, Fetches, webVars, Hearing,
              SetsCookie, HearsLogin, HearsRefusal, HearsSignup, HearsVote, HearsParts, Hears
  <2>2. CASE Fault
    BY <1>2, <2>2 DEF Fault, RejectsPart, Fetches, webVars
  <2>3. ASSUME NEW work, ClientSends(work) PROVE ballots' = ballots
    BY <2>3 DEF ClientSends, webVars
  <2>4. CASE CookieExpires \/ Quiescent \/ UNCHANGED vars
    BY <2>4 DEF CookieExpires, Quiescent, vars, webVars
  <2> QED
    BY <2>1, <2>2, <2>3, <2>4 DEF Next
<1>3. \A x \in ballots' : x.debate \in Votable /\ x.user \in Users /\ users[x.user] # None
  BY <1>1, <1>2 DEF BrowserTypes
<1> QED
  BY <1>3, RowsStay

LEMMA FaultsType ==
    ASSUME BrowserTypes, [Next]_vars
    PROVE  faults' \in 0..MaxFaults
<1>0. MaxFaults \in Nat /\ faults \in 0..MaxFaults
  <2>1. MaxFaults \in Nat
    BY AccountsAssumption, Zenon
  <2> QED
    BY <2>1 DEF BrowserTypes
<1>1. faults' = faults \/ (faults < MaxFaults /\ faults' = faults + 1)
  <2>1. ASSUME NEW b, Uses(b) PROVE faults' = faults
    BY <2>1 DEF Uses, Opens, Submits, LooksUp, Reloads, LogsOut, Votes, Refreshes, FindsDebate, Clicks
  <2>2. ASSUME NEW x, Serves(x) PROVE faults' = faults
    BY <2>2 DEF Serves, FindsEmail, InsertsUser, ProvisionsProfile, SignupAnswers, LogsIn, CreatesProfile,
              UpdatesProfile, DeletesProfile
  <2>3. ASSUME NEW x, Answering(x) \/ Hearing(x) PROVE faults' = faults
    BY <2>2, <2>3 DEF Answering, AccountStep, ServesVote, ServesPart, Hearing,
              SetsCookie, HearsLogin, HearsRefusal, HearsSignup, HearsVote, HearsParts, Hears
  <2>4. CASE Fault
    BY <2>4 DEF Fault, LosesVote, RejectsPart, AccountFault, ProvisioningFails, CallFails
  <2>5. CASE CookieExpires \/ Quiescent \/ UNCHANGED vars
    BY <2>5 DEF CookieExpires, Quiescent, vars, accountVars
  <2> QED
    BY <2>1, <2>3, <2>4, <2>5 DEF Next, ClientSends
<1> QED
  BY <1>0, <1>1

\* Only people and an accepted login change what the tabs show and store.
LEMMA TabsRest ==
    ASSUME [Next]_vars, ~\E b \in Tabs : Uses(b), ~\E x \in Calls : HearsLogin(x)
    PROVE  UNCHANGED <<session, stored, page>>
<1>1. ASSUME NEW x \in Calls, Answering(x) PROVE UNCHANGED <<session, stored, page>>
  BY <1>1 DEF Answering, AccountStep, ServesVote, ServesPart, Fetches, NoSide, webVars, browserVars,
              tabVars
<1>2. ASSUME NEW x \in Calls, Hearing(x) PROVE UNCHANGED <<session, stored, page>>
  BY <1>2 DEF Hearing, SetsCookie, HearsRefusal, HearsSignup, HearsVote, HearsParts, browserVars
<1>3. CASE Fault
  BY <1>3 DEF Fault, LosesVote, RejectsPart, Fetches, NoSide, webVars, browserVars, tabVars
<1>4. ASSUME NEW work, ClientSends(work) PROVE UNCHANGED <<session, stored, page>>
  BY <1>4 DEF ClientSends, webVars, browserVars, tabVars
<1>5. CASE CookieExpires \/ Quiescent \/ UNCHANGED vars
  BY <1>5 DEF CookieExpires, Quiescent, vars, webVars, browserVars, tabVars
<1> QED
  BY <1>1, <1>2, <1>3, <1>4, <1>5 DEF Next

\* What a tab keeps when nobody uses it.
LEMMA TabsType ==
    ASSUME Groundwork, BrowserTypes, [Next]_vars, ~\E b \in Tabs : Uses(b)
    PROVE  /\ session' \in [Tabs -> Users \cup {None}] /\ stored' \in Users \cup {None}
           /\ \A c \in Tabs : (page[c].route \in Routes(c))'
<1>1. plan' = plan
  BY PlanStays
<1>2. ASSUME NEW x \in Calls, HearsLogin(x)
      PROVE  /\ session' \in [Tabs -> Users \cup {None}] /\ stored' \in Users \cup {None}
             /\ \A c \in Tabs : (page[c].route \in Routes(c))'
  <2> DEFINE b == origin[x].tab
             u == answer[x].user
  <2>1. u \in Users \cup {None} /\ b \in Tabs
    BY <1>2 DEF HearsLogin, Hears, Here, Groundwork, AccountTypes, SessionInv, OriginsOK
  <2>2. stored' = u /\ session' = [session EXCEPT ![b] = u]
    BY <1>2 DEF HearsLogin, StoredSession
  <2>3. \/ page' = page
        \/ \E mount : page' = [page EXCEPT ![b] = PageOf(Home, mount, None)]
    BY <1>2 DEF HearsLogin
  <2>4. ASSUME NEW c \in Tabs PROVE (page[c].route \in Routes(c))'
    <3>1. Routes(c)' = Routes(c) /\ page[c].route \in Routes(c) /\ Home \in Routes(c)
      BY <1>1 DEF Routes, BrowserTypes
    <3>2. DOMAIN page = Tabs
      BY DEF Groundwork, SessionInv, PagesOK
    <3>3. ASSUME NEW mount, page' = [page EXCEPT ![b] = PageOf(Home, mount, None)]
          PROVE  page'[c].route \in {page[c].route, Home}
      <4>1. CASE c = b
        <5>1. page'[c] = PageOf(Home, mount, None)
          BY <3>2, <3>3, <4>1
        <5> QED
          BY <5>1 DEF PageOf
      <4>2. CASE c # b
        BY <3>2, <3>3, <4>2
      <4> QED
        BY <4>1, <4>2
    <3> QED
      BY <2>3, <3>1, <3>3
  <2> HIDE DEF u, b
  <2> QED
    BY <2>1, <2>2, <2>4 DEF BrowserTypes
<1>3. CASE UNCHANGED <<session, stored, page>>
  BY <1>1, <1>3 DEF BrowserTypes, Routes
<1> QED
  BY <1>2, <1>3, TabsRest

LEMMA StepKeepsBrowser == Groundwork /\ BrowserTypes /\ [Next]_vars => BrowserTypes'
<1> SUFFICES ASSUME Groundwork, BrowserTypes, [Next]_vars PROVE BrowserTypes'
  OBVIOUS
<1>1. CASE \E b \in Tabs : Uses(b)
  BY <1>1, UsesKeepsBrowser
<1>2. CASE ~\E b \in Tabs : Uses(b)
  <2>1. ASSUME NEW t \in Calls, pc'[t] = "vote" PROVE HasRow(origin[t].as)'
    <3>1. pc[t] = "vote" /\ origin'[t] = origin[t]
      BY <1>2, <2>1, VotesAreClicked
    <3>2. HasRow(origin[t].as)
      BY <3>1 DEF BrowserTypes
    <3> QED
      BY <3>1, <3>2, RowsStay DEF HasRow
  <2> QED
    BY <1>2, <2>1, CookieType, BallotsType, FaultsType, TabsType DEF BrowserTypes
<1> QED
  BY <1>1, <1>2

LEMMA InitBrowser == ASSUME Init PROVE BrowserTypes
<1>1. /\ session = [b \in Tabs |-> None] /\ stored = None /\ cookie = None /\ ballots = {}
      /\ \A t \in Calls : pc[t] = "unsent"
      /\ page = [b \in Tabs |-> PageOf(Home, 0, None)] /\ faults = 0
  BY DEF Init, AccountsInit
<1>2. MaxFaults \in Nat
  BY AccountsAssumption, Zenon
<1>3. \A b \in Tabs : page[b].route \in Routes(b)
  BY <1>1 DEF Routes, PageOf
<1>4. HasRow(cookie)
  BY <1>1 DEF HasRow
<1> QED
  BY <1>1, <1>2, <1>3, <1>4 DEF BrowserTypes

LEMMA BrowserHolds == Safety => []BrowserTypes
<1>1. Init => BrowserTypes
  BY InitBrowser
<1> QED
  BY <1>1, GroundworkHolds, StepKeepsBrowser, PTL DEF Safety

\* The stored session and those of the tabs name users with an account.
NamesKnown == HasRow(stored) /\ \A b \in Tabs : HasRow(session[b])

LEMMA StepKeepsNames ==
    Groundwork /\ BrowserTypes /\ NamesKnown /\ [Next]_vars => NamesKnown'
<1> SUFFICES ASSUME Groundwork, BrowserTypes, NamesKnown, [Next]_vars PROVE NamesKnown'
  OBVIOUS
<1>1. ASSUME NEW b \in Tabs, Uses(b)
      PROVE  /\ stored' \in {stored, None}
             /\ \A c \in Tabs : session'[c] \in {session[c], stored, None}
  BY <1>1, UsesOne DEF Groundwork, SessionInv, CallBegins, CallOf, NoCallBegins, Forgets
<1>2. ASSUME NEW x \in Calls, HearsLogin(x)
      PROVE  /\ HasRow(answer[x].user) /\ stored' = answer[x].user
             /\ \A c \in Tabs : session'[c] \in {session[c], answer[x].user}
  <2>1. HasRow(answer[x].user)
    <3>1. Asks(x, "login") /\ answer[x].status = 200
      BY <1>2 DEF HearsLogin, Groundwork, SessionInv, LoginPath
    <3> QED
      BY <3>1 DEF Groundwork, AccountTypes, AccountsInv, AnswersAreTrue, HasRow
  <2>2. PICK b : b = origin[x].tab
    OBVIOUS
  <2>3. stored' = answer[x].user /\ session' = [session EXCEPT ![b] = answer[x].user]
    BY <1>2, <2>2 DEF HearsLogin, StoredSession
  <2> QED
    BY <2>1, <2>3 DEF Groundwork, SessionInv
<1>3. HasRow(stored') /\ \A c \in Tabs : HasRow(session'[c])
  <2>1. CASE UNCHANGED <<session, stored, page>>
    BY <2>1 DEF NamesKnown
  <2>2. HasRow(None)
    BY DEF HasRow
  <2>3. CASE \E b \in Tabs : Uses(b)
    BY <1>1, <2>2, <2>3 DEF NamesKnown
  <2>4. CASE \E x \in Calls : HearsLogin(x)
    BY <1>2, <2>4 DEF NamesKnown
  <2> QED
    BY <2>1, <2>3, <2>4, TabsRest
<1>4. ASSUME NEW u, HasRow(u) PROVE u # None => u \in Users /\ users'[u] # None
  BY <1>4, RowsStay DEF HasRow
<1>5. /\ stored' # None => stored' \in Users /\ users'[stored'] # None
      /\ \A c \in Tabs : session'[c] # None => session'[c] \in Users /\ users'[session'[c]] # None
  <2>1. PICK u : u = stored'
    OBVIOUS
  <2>2. stored' # None => stored' \in Users /\ users'[stored'] # None
    BY <1>3, <1>4, <2>1
  <2>3. ASSUME NEW c \in Tabs
        PROVE  session'[c] # None => session'[c] \in Users /\ users'[session'[c]] # None
    <3>1. PICK v : v = session'[c]
      OBVIOUS
    <3> QED
      BY <1>3, <1>4, <3>1
  <2> QED
    BY <2>2, <2>3
<1> QED
  BY <1>5 DEF NamesKnown, HasRow

LEMMA NamesHold == Safety => []NamesKnown
<1>1. Init => NamesKnown
  BY DEF Init, NamesKnown, HasRow
<1> QED
  BY <1>1, GroundworkHolds, BrowserHolds, StepKeepsNames, PTL DEF Safety

\* Every row and every call has its type, and nobody is named, by the cookie, by a
\* session or by a ballot, who has no account.
THEOREM TypeCorrect == Safety => []TypeOK
<1>1. Groundwork /\ BrowserTypes /\ NamesKnown => TypeOK
  <2> SUFFICES ASSUME Groundwork, BrowserTypes, NamesKnown PROVE TypeOK
    OBVIOUS
  <2>1. \A u \in {stored, cookie} \cup {session[b] : b \in Tabs} :
            u # None => u \in Users /\ users[u] # None
    BY DEF BrowserTypes, NamesKnown, HasRow
  <2>2. \A b \in Tabs : loaded[b] <= page[b].mount
    BY DEF Groundwork, SessionInv, PagesOK
  <2>3. AccountTypes
    BY DEF Groundwork
  <2>4. /\ \A u \in Users : users[u] = None \/ users[u] \in UserRows
        /\ \A u \in Users :
               profiles[u] = None \/ profiles[u] \in [name : Names, avatar : Avatars \cup {None}]
        /\ pc \in [Calls -> Labels]
    BY <2>3 DEF AccountTypes, ProfileRows
  <2> QED
    BY <2>1, <2>2, <2>4 DEF BrowserTypes, TypeOK
<1> QED
  BY <1>1, GroundworkHolds, BrowserHolds, NamesHold, PTL

-----------------------------------------------------------------------------
(* Pages                                                                   *)

\* The route whose page makes a call.
RouteOf(op) ==
    CASE op = "results" -> "results"
      [] op \in {"summary", "vote"} -> "spectate"
      [] op = "board" -> "leaderboard"
      [] op = "stats" -> "profile"
      [] op = "random" -> "vote"
      [] OTHER -> op
OfDebate == {"results", "summary", "vote"}

At(t, b) == FromTab(t, b) /\ origin[t].mount = page[b].mount
Current(t, b) == At(t, b) /\ pc[t] # "ended" /\ request[t].op \in PageOps
Cast(d, u) == [debate |-> d, user |-> u] \in ballots

\* What a call has been answered about a debate is about the debate it asked for.
AboutIts(t, p) ==
    \/ part[t][p] \in {Waiting, Rejected}
    \/ part[t][p].at = "ok" /\ part[t][p].of = request[t].id /\ part[t][p] # None
CallInv(t) ==
    /\ DOMAIN part[t] = Parts
    /\ pc[t] \notin {"read", "ended"} => \A p \in Parts : part[t][p] = Waiting
    /\ pc[t] = "read" => request[t].op \in PageOps
    /\ pc[t] \in {"vote", "voted", "refused"} => request[t].op = "vote"
    /\ pc[t] \in {"vote", "voted", "refused", "read"} /\ request[t].op \in OfDebate =>
           request[t].id \in Debates /\ request[t] # None
    /\ pc[t] = "voted" => Cast(request[t].id, origin[t].as)
    /\ \A p \in PartsOf("results") : AboutIts(t, p)
CallsInv == DOMAIN part = Calls /\ \A t \in Calls : CallInv(t)

IsView(v) ==
    /\ v = [loading |-> v.loading, submitting |-> v.submitting, error |-> v.error,
            message |-> v.message, warnings |-> v.warnings, shown |-> v.shown]
    /\ DOMAIN v.shown = Parts
ViewsOK == DOMAIN view = Tabs /\ \A b \in Tabs : IsView(view[b])

\* A summary that was fetched for a panel with a message counts the vote.
Seen(t, b) ==
    /\ page[b].route.name = "spectate" /\ view[b].message.of = page[b].route.id
    /\ part[t]["summary"].at = "ok"
    => view[b].message.user \in part[t]["summary"].voters
\* What a page shows while its call is under way.
Working(t, b) ==
    /\ page[b].route.name \in {"results", "spectate"} => request[t].id = page[b].route.id
    /\ page[b].route.name = "results" => \A p \in PartsOf("results") : view[b].shown[p] = None
    /\ Seen(t, b)

ShowsResults(b) ==
    page[b].route.name = "results" /\ ~view[b].loading =>
        \A p \in PartsOf("results") :
            IF view[b].shown[p] = None THEN p \in view[b].warnings
            ELSE view[b].shown[p].of = page[b].route.id /\ p \notin view[b].warnings
CountsVote(b) ==
    LET m == view[b].message
        x == view[b].shown["summary"] IN
    /\ page[b].route.name = "spectate" /\ m.of = page[b].route.id
    /\ ~view[b].loading /\ ~view[b].submitting /\ ~view[b].error
    => x # None /\ x.of = m.of /\ m.user \in x.voters

TabInv(b) ==
    /\ \A t \in Calls : At(t, b) => page[b].route.name = RouteOf(request[t].op)
    /\ view[b].message.of # None => Cast(view[b].message.of, view[b].message.user)
    /\ "page" \notin disturbed =>
           /\ \A t, x \in Calls : Current(t, b) /\ Current(x, b) => t = x
           /\ \A t \in Calls : Current(t, b) => Working(t, b)
           /\ ShowsResults(b) /\ CountsVote(b)

PagesInv == ViewsOK /\ CallsInv /\ \A b \in Tabs : TabInv(b)

LEMMA InitPages == ASSUME Init PROVE PagesInv
<1>1. /\ view = [b \in Tabs |-> NewView] /\ ballots = {}
      /\ part = [t \in Calls |-> [p \in Parts |-> Waiting]]
      /\ page = [b \in Tabs |-> PageOf(Home, 0, None)]
      /\ \A t \in Calls : pc[t] = "unsent" /\ origin[t] = None
  BY DEF Init, AccountsInit
<1>2. ViewsOK
  BY <1>1 DEF ViewsOK, IsView, NewView
<1>3. CallsInv
  <2>1. PartsOf("results") \subseteq Parts
    BY DEF PartsOf, Parts
  <2> QED
    BY <1>1, <2>1 DEF CallsInv, CallInv, AboutIts
<1>4. ASSUME NEW b \in Tabs PROVE TabInv(b)
  <2>1. \A t \in Calls : ~At(t, b)
    BY <1>1 DEF At, FromTab
  <2>2. view[b].message.of = None /\ page[b].route.name = "home"
    BY <1>1 DEF NewView, NoMessage, PageOf, Home
  <2> QED
    BY <2>1, <2>2 DEF TabInv, Current, ShowsResults, CountsVote
<1> QED
  BY <1>2, <1>3, <1>4 DEF PagesInv

\* A route with a debate has its id.
LEMMA RouteShape ==
    ASSUME NEW r \in Routable
    PROVE  /\ r = [name |-> r.name, id |-> r.id]
           /\ r.name \in {"results", "spectate"} => r.id \in Debates /\ r.id # None
<1>1. None \notin Debates
  BY WebAssumption, Zenon
<1> QED
  BY <1>1 DEF Routable

LEMMA RoutesFit ==
    ASSUME Groundwork, BrowserTypes, NEW b \in Tabs
    PROVE  page[b].route \in Routable
<1>1. \A c \in plan.tab[b] : c.do = "open" => c.route \in Routable
  BY WebAssumption DEF Groundwork
<1>2. Home \in Routable /\ Login \in Routable
  BY DEF Routable, Home, Login
<1> QED
  BY <1>1, <1>2 DEF BrowserTypes, Routes

\* What a call changes before its first await.
LEMMA StartedView ==
    ASSUME NEW v, IsView(v), NEW op
    PROVE  LET w == Started(v, op) IN
           /\ IsView(w)
           /\ op = "vote" => w.submitting
           /\ op # "vote" => w.loading
           /\ w.message \in {v.message, NoMessage}
           /\ op = "results" => \A p \in PartsOf("results") : w.shown[p] = None
<1>1. CASE op = "vote"
  BY <1>1 DEF Started, IsView
<1>2. CASE op = "signup"
  BY <1>2 DEF Started, IsView
<1>3. CASE op \notin {"vote", "signup"}
  <2> DEFINE c == Cleared(v, Reset(op))
  <2>1. c = [v EXCEPT !.shown = [p \in Parts |-> IF p \in Reset(op) THEN None ELSE v.shown[p]]]
    BY DEF Cleared
  <2>2. IsView(c) /\ c.message = v.message /\ \A p \in Parts : p \in Reset(op) => c.shown[p] = None
    BY <2>1 DEF IsView
  <2>3. Started(v, op) = [c EXCEPT !.loading = TRUE, !.error = FALSE, !.warnings = {}]
    BY <1>3 DEF Started
  <2> HIDE DEF c
  <2>4. /\ IsView(Started(v, op)) /\ Started(v, op).loading
        /\ Started(v, op).message = v.message /\ Started(v, op).shown = c.shown
    BY <2>2, <2>3 DEF IsView
  <2>5. op = "results" => Reset(op) = PartsOf("results") /\ PartsOf("results") \subseteq Parts
    BY DEF Reset, PartsOf, Parts
  <2> QED
    BY <1>3, <2>2, <2>4, <2>5
<1> QED
  BY <1>1, <1>2, <1>3

\* No call of a tab comes to be or comes back, and nothing is forgotten.
Continues(b) ==
    /\ ballots \subseteq ballots' /\ disturbed \subseteq disturbed'
    /\ \A t \in Calls : At(t, b)' => At(t, b) /\ request'[t] = request[t]
    /\ \A t \in Calls : pc[t] = "ended" => pc'[t] = "ended"

\* A step that changes nothing of a tab but lets its calls go on.
LEMMA TabStays ==
    ASSUME NEW b \in Tabs, TabInv(b), Continues(b), page'[b].route = page[b].route, view'[b] = view[b],
           "page" \notin disturbed' => \A t \in Calls : Current(t, b)' => Seen(t, b)'
    PROVE  TabInv(b)'
<1>1. ASSUME NEW t \in Calls, Current(t, b)' PROVE Current(t, b)
  BY <1>1 DEF Current, Continues
<1>2. \A t \in Calls : At(t, b)' => page'[b].route.name = RouteOf(request'[t].op)
  BY DEF TabInv, Continues
<1>3. (view[b].message.of # None => Cast(view[b].message.of, view[b].message.user))'
  BY DEF TabInv, Continues, Cast
<1>4. ASSUME "page" \notin disturbed'
      PROVE  /\ \A t, x \in Calls : Current(t, b)' /\ Current(x, b)' => t = x
             /\ \A t \in Calls : Current(t, b)' => Working(t, b)'
             /\ ShowsResults(b)' /\ CountsVote(b)'
  <2>1. "page" \notin disturbed
    BY <1>4 DEF Continues
  <2>2. ShowsResults(b) /\ CountsVote(b)
    BY <2>1 DEF TabInv
  <2>3. ShowsResults(b)' /\ CountsVote(b)'
    BY <2>2 DEF ShowsResults, CountsVote
  <2>4. \A t, x \in Calls : Current(t, b)' /\ Current(x, b)' => t = x
    BY <1>1, <2>1 DEF TabInv
  <2>5. ASSUME NEW t \in Calls, Current(t, b)' PROVE Working(t, b)'
    <3>1. Working(t, b) /\ request'[t] = request[t] /\ Seen(t, b)'
      BY <1>1, <1>4, <2>1, <2>5 DEF TabInv, Continues, Current
    <3> QED
      BY <3>1 DEF Working
  <2> QED
    BY <2>3, <2>4, <2>5
<1> QED
  BY <1>2, <1>3, <1>4 DEF TabInv

\* A step after which a tab shows neither results nor a panel.
LEMMA TabIsElsewhere ==
    ASSUME NEW b \in Tabs, TabInv(b), Continues(b), page'[b].route.name \notin {"results", "spectate"},
           \A t \in Calls : At(t, b)' => page'[b].route.name = page[b].route.name,
           view'[b].message.of # None => view'[b].message = view[b].message
    PROVE  TabInv(b)'
<1>1. ASSUME NEW t \in Calls, Current(t, b)' PROVE Current(t, b)
  BY <1>1 DEF Current, Continues
<1>2. \A t \in Calls : At(t, b)' => page'[b].route.name = RouteOf(request'[t].op)
  BY DEF TabInv, Continues
<1>3. (view[b].message.of # None => Cast(view[b].message.of, view[b].message.user))'
  BY DEF TabInv, Continues, Cast
<1>4. ShowsResults(b)' /\ CountsVote(b)' /\ \A t \in Calls : Working(t, b)'
  BY DEF ShowsResults, CountsVote, Working, Seen
<1>5. "page" \notin disturbed' => \A t, x \in Calls : Current(t, b)' /\ Current(x, b)' => t = x
  BY <1>1 DEF TabInv, Continues
<1> QED
  BY <1>2, <1>3, <1>4, <1>5 DEF TabInv

\* What a use of a tab leaves alone, and where it leads.
Turns(b) ==
    /\ \A c \in Tabs \ {b} : page'[c] = page[c] /\ view'[c] = view[c]
    /\ DOMAIN view' = DOMAIN view /\ UNCHANGED <<part, ballots>>
    /\ page[b].mount <= page'[b].mount
    /\ page'[b].mount = page[b].mount => page'[b].route.name = page[b].route.name

BeginsOn(b, x, work, v) ==
    /\ Turns(b)
    /\ pc[x] = "unsent"
    /\ request' = [request EXCEPT ![x] = work]
    /\ pc' = [pc EXCEPT ![x] = FirstStep(work.op)]
    /\ origin' = [origin EXCEPT ![x] = [tab |-> b, mount |-> page'[b].mount, as |-> cookie]]
    /\ v \in {view[b], NewView} /\ view'[b] = Started(v, work.op)
    /\ disturbed' = disturbed \cup Overlaps(b, page'[b].mount, work.op)
    /\ page'[b].route.name = RouteOf(work.op)
    /\ \/ work \in Credentials
       \/ work.op \in PageOps /\ (work.op \in OfDebate => work = Fetch(work.op, page'[b].route.id))

BeginsNone(b) ==
    /\ Turns(b)
    /\ UNCHANGED <<request, pc, origin, disturbed>>
    /\ \/ page'[b] = page[b] /\ view'[b] = view[b]
       \/ view'[b] \in {view[b], NewView} /\ page'[b].route.name \notin {"results", "spectate"}

LEMMA RenderTurns ==
    ASSUME Groundwork, PagesInv, NEW b \in Tabs, NEW route, NEW mount \in Nat, NEW input,
           NEW v \in {view[b], NewView}, NEW user, NEW effect,
           Renders(b, route, mount, input, v, user, effect), UNCHANGED ballots,
           page[b].mount <= mount, mount = page[b].mount => route.name = page[b].route.name,
           route.name \in {"results", "spectate"} => effect
    PROVE  BeginsNone(b) \/ \E x, work : BeginsOn(b, x, work, v)
<1>1. DOMAIN page = Tabs /\ DOMAIN view = Tabs
  BY DEF Groundwork, SessionInv, PagesOK, PagesInv, ViewsOK
<1>2. page' = [page EXCEPT ![b] = PageOf(route, mount, input)]
  BY DEF Renders
<1>3. page'[b] = PageOf(route, mount, input) /\ \A c \in Tabs \ {b} : page'[c] = page[c]
  BY <1>1, <1>2
<1>4. page'[b].mount = mount /\ page'[b].route = route
  BY <1>3 DEF PageOf
<1> DEFINE op == EffectOp(route, user)
<1>5. CASE effect /\ op # "none"
  <2> DEFINE id == IF route.name = "profile" THEN input ELSE route.id
             work == Fetch(op, id)
  <2>1. work.op = op /\ op \in PageOps /\ RouteOf(op) = route.name
    BY <1>5 DEF EffectOp, Fetch, PageOps, RouteOf
  <2>2. op \in OfDebate => id = route.id
    BY <1>5 DEF EffectOp, OfDebate
  <2>3. Begins(b, mount, work, v)
    BY <1>5 DEF Renders
  <2> HIDE DEF op, id
  <2>4. /\ pc[NextCall] = "unsent"
        /\ request' = [request EXCEPT ![NextCall] = work]
        /\ pc' = [pc EXCEPT ![NextCall] = FirstStep(work.op)]
        /\ origin' = [origin EXCEPT ![NextCall] = [tab |-> b, mount |-> mount, as |-> cookie]]
        /\ view' = [view EXCEPT ![b] = Started(v, work.op)]
        /\ disturbed' = disturbed \cup Overlaps(b, mount, work.op)
        /\ UNCHANGED part
    BY <2>3 DEF Begins, Sends, Goto
  <2>5. Turns(b) /\ view'[b] = Started(v, work.op)
    BY <1>1, <1>3, <1>4, <2>4 DEF Turns
  <2>6. work.op \in OfDebate => work = Fetch(work.op, page'[b].route.id)
    BY <1>4, <2>1, <2>2
  <2> HIDE DEF work
  <2>7. BeginsOn(b, NextCall, work, v)
    BY <1>4, <2>1, <2>4, <2>5, <2>6 DEF BeginsOn
  <2> QED
    BY <2>7
<1>6. CASE ~(effect /\ op # "none")
  <2>1. BeginsNothing(b, v)
    BY <1>6 DEF Renders
  <2>2. view' = [view EXCEPT ![b] = v] /\ UNCHANGED <<request, pc, origin, disturbed, part>>
    BY <2>1 DEF BeginsNothing
  <2>3. route.name \notin {"results", "spectate"}
    BY <1>6 DEF EffectOp
  <2>4. Turns(b)
    BY <1>1, <1>3, <1>4, <2>2 DEF Turns
  <2> QED
    BY <1>1, <1>4, <2>2, <2>3, <2>4 DEF BeginsNone
<1> QED
  BY <1>5, <1>6

LEMMA FormTurns ==
    ASSUME Groundwork, PagesInv, NEW b \in Tabs, NEW work, Begins(b, page[b].mount, work, view[b]),
           UNCHANGED ballots,
           \A c \in Tabs \ {b} : page'[c] = page[c],
           page'[b].mount = page[b].mount, page'[b].route = page[b].route,
           page[b].route.name = RouteOf(work.op),
           \/ work \in Credentials
           \/ work.op \in PageOps /\ (work.op \in OfDebate => work = Fetch(work.op, page[b].route.id))
    PROVE  BeginsOn(b, NextCall, work, view[b])
<1>1. DOMAIN page = Tabs /\ DOMAIN view = Tabs /\ page[b].mount \in Nat
  BY DEF Groundwork, SessionInv, PagesOK, PagesInv, ViewsOK
<1>2. /\ pc[NextCall] = "unsent"
      /\ request' = [request EXCEPT ![NextCall] = work]
      /\ pc' = [pc EXCEPT ![NextCall] = FirstStep(work.op)]
      /\ origin' = [origin EXCEPT ![NextCall] = [tab |-> b, mount |-> page[b].mount, as |-> cookie]]
      /\ view' = [view EXCEPT ![b] = Started(view[b], work.op)]
      /\ disturbed' = disturbed \cup Overlaps(b, page[b].mount, work.op)
      /\ UNCHANGED part
  BY DEF Begins, Sends, Goto
<1>3. Turns(b) /\ view'[b] = Started(view[b], work.op)
  BY <1>1, <1>2 DEF Turns
<1> QED
  BY <1>2, <1>3 DEF BeginsOn

LEMMA UsesTurns ==
    ASSUME Groundwork, BrowserTypes, PagesInv, NEW b \in Tabs, Uses(b)
    PROVE  BeginsNone(b) \/ \E x, work, v : BeginsOn(b, x, work, v)
<1>1. /\ page[b].mount \in Nat /\ page[b].mount + 1 \in Nat /\ DOMAIN page = Tabs
      /\ page[b].mount <= page[b].mount + 1 /\ page[b].mount # page[b].mount + 1
      /\ page[b] = PageOf(page[b].route, page[b].mount, page[b].input)
  BY DEF Groundwork, SessionInv, PagesOK
<1>2. ASSUME NEW route, NEW user, Mounts(b, route, user), UNCHANGED ballots
      PROVE  BeginsNone(b) \/ \E x, work, v : BeginsOn(b, x, work, v)
  <2>1. Renders(b, route, page[b].mount + 1, InitialUser(route, user), NewView, user, TRUE)
    BY <1>2 DEF Mounts
  <2>2. BeginsNone(b) \/ \E x, work : BeginsOn(b, x, work, NewView)
    BY <1>1, <1>2, <2>1, RenderTurns
  <2> QED
    BY <2>2
<1>3. ASSUME NEW route, Opens(b, route)
      PROVE  BeginsNone(b) \/ \E x, work, v : BeginsOn(b, x, work, v)
  <2>1. UNCHANGED ballots /\ page[b].route # route
    BY <1>3 DEF Opens, Clicks
  <2>2. CASE page[b].route.name # route.name
    BY <1>2, <1>3, <2>1, <2>2 DEF Opens
  <2>3. CASE page[b].route.name = route.name
    <3> DEFINE effect == InitialUser(route, session[b]) # InitialUser(page[b].route, session[b])
    <3>1. Renders(b, route, page[b].mount, page[b].input, view[b], session[b], effect)
      BY <1>3, <2>3 DEF Opens
    <3>2. route \in Routable /\ page[b].route \in Routable
      BY <1>3, PlansFit, RoutesFit DEF Opens, Clicks, Groundwork
    <3>3. route.name \in {"results", "spectate"} => effect
      <4>1. /\ route = [name |-> route.name, id |-> route.id]
            /\ page[b].route = [name |-> page[b].route.name, id |-> page[b].route.id]
            /\ route.name \in {"results", "spectate"} => route.id # None /\ page[b].route.id # None
        BY <2>3, <3>2, RouteShape
      <4>2. route.id # page[b].route.id
        BY <2>1, <2>3, <4>1
      <4> QED
        BY <4>1, <4>2 DEF InitialUser
    <3> HIDE DEF effect
    <3>4. /\ view[b] \in {view[b], NewView} /\ UNCHANGED ballots
          /\ page[b].mount \in Nat /\ page[b].mount <= page[b].mount
          /\ page[b].mount = page[b].mount => route.name = page[b].route.name
      BY <1>1, <2>1, <2>3
    <3>5. BeginsNone(b) \/ \E x, work : BeginsOn(b, x, work, view[b])
      BY <3>1, <3>3, <3>4, RenderTurns
    <3> QED
      BY <3>5
  <2> QED
    BY <2>2, <2>3
<1>4. ASSUME Reloads(b) PROVE BeginsNone(b) \/ \E x, work, v : BeginsOn(b, x, work, v)
  BY <1>2, <1>4 DEF Reloads, Clicks
<1>5. ASSUME LogsOut(b) PROVE BeginsNone(b) \/ \E x, work, v : BeginsOn(b, x, work, v)
  <2>1. CASE BeginsNothing(b, view[b]) /\ UNCHANGED page
    <3>1. /\ UNCHANGED <<page, request, pc, origin, disturbed, part, ballots>>
          /\ view' = [view EXCEPT ![b] = view[b]]
      BY <1>5, <2>1 DEF BeginsNothing, LogsOut, Clicks
    <3>2. DOMAIN view' = DOMAIN view /\ \A c \in Tabs : view'[c] = view[c]
      BY <3>1 DEF PagesInv, ViewsOK
    <3>3. Turns(b)
      BY <1>1, <3>1, <3>2 DEF Turns
    <3> QED
      BY <3>1, <3>2, <3>3 DEF BeginsNone
  <2>2. CASE Mounts(b, Login, None)
    BY <1>2, <1>5, <2>2 DEF LogsOut, Clicks
  <2> QED
    BY <1>5, <2>1, <2>2 DEF LogsOut
<1>6. ASSUME NEW work, Submits(b, work) PROVE \E x, w, v : BeginsOn(b, x, w, v)
  <2>1. work \in Credentials
    BY <1>6, PlansFit DEF Submits, Clicks, Groundwork
  <2>2. RouteOf(work.op) = work.op
    BY <2>1 DEF Credentials, RouteOf
  <2>3. BeginsOn(b, NextCall, work, view[b])
    BY <1>6, <2>1, <2>2, FormTurns DEF Submits, Clicks, tabVars
  <2> QED
    BY <2>3
<1>7. ASSUME Votes(b) \/ Refreshes(b) \/ FindsDebate(b) PROVE \E x, w, v : BeginsOn(b, x, w, v)
  <2>1. \E op \in {"vote", "summary", "random"} :
            /\ Begins(b, page[b].mount, Fetch(op, IF op = "random" THEN None ELSE page[b].route.id), view[b])
            /\ page[b].route.name = RouteOf(op)
    BY <1>7 DEF Votes, Refreshes, FindsDebate, RouteOf
  <2>2. PICK op \in {"vote", "summary", "random"} :
            /\ Begins(b, page[b].mount, Fetch(op, IF op = "random" THEN None ELSE page[b].route.id), view[b])
            /\ page[b].route.name = RouteOf(op)
    BY <2>1
  <2> DEFINE work == Fetch(op, IF op = "random" THEN None ELSE page[b].route.id)
  <2>3. /\ work.op = op /\ op \in PageOps
        /\ op \in OfDebate => work = Fetch(op, page[b].route.id)
    BY <2>2 DEF Fetch, PageOps, OfDebate
  <2>4. UNCHANGED <<page, ballots>>
    BY <1>7 DEF Votes, Refreshes, FindsDebate, Clicks, tabVars
  <2>5. Begins(b, page[b].mount, work, view[b])
    BY <2>2
  <2> HIDE DEF work
  <2>6. BeginsOn(b, NextCall, work, view[b])
    BY <2>2, <2>3, <2>4, <2>5, FormTurns
  <2> QED
    BY <2>6
<1>8. ASSUME NEW u, LooksUp(b, u) PROVE \E x, w, v : BeginsOn(b, x, w, v)
  <2> DEFINE work == Fetch("stats", u)
  <2>1. /\ work.op = "stats" /\ "stats" \in PageOps /\ "stats" \notin OfDebate
        /\ RouteOf("stats") = "profile"
    BY DEF Fetch, PageOps, OfDebate, RouteOf
  <2>2. page' = [page EXCEPT ![b].input = u] /\ UNCHANGED ballots /\ page[b].route.name = "profile"
    BY <1>8 DEF LooksUp, Clicks
  <2>3. /\ \A c \in Tabs \ {b} : page'[c] = page[c]
        /\ page'[b].mount = page[b].mount /\ page'[b].route = page[b].route
    BY <1>1, <2>2 DEF PageOf
  <2>4. Begins(b, page[b].mount, work, view[b])
    BY <1>8 DEF LooksUp
  <2> HIDE DEF work
  <2>5. BeginsOn(b, NextCall, work, view[b])
    BY <2>1, <2>2, <2>3, <2>4, FormTurns
  <2> QED
    BY <2>5
<1> QED
  BY <1>3, <1>4, <1>5, <1>6, <1>7, <1>8 DEF Uses

\* The call that begins, the others, and the tab it begins in.
LEMMA BeginsWhere ==
    ASSUME Groundwork, PagesInv, NEW b \in Tabs, NEW x, NEW work, NEW v, BeginsOn(b, x, work, v)
    PROVE  /\ \A t \in Calls : t # x =>
                  request'[t] = request[t] /\ pc'[t] = pc[t] /\ origin'[t] = origin[t]
           /\ \A t \in Calls : t = x =>
                  /\ request'[t] = work /\ pc'[t] = FirstStep(work.op) /\ pc[t] = "unsent"
                  /\ \A p \in Parts : part[t][p] = Waiting
                  /\ origin[t] = None /\ origin'[t].tab = b
           /\ \A t \in Calls : At(t, b)' /\ t # x =>
                  At(t, b) /\ page'[b].mount = page[b].mount /\ page'[b].route.name = page[b].route.name
           /\ \A c \in Tabs \ {b} : \A t \in Calls : At(t, c)' => At(t, c) /\ t # x
<1>1. DOMAIN request = Calls /\ DOMAIN pc = Calls /\ DOMAIN origin = Calls
  BY DEF Groundwork, AccountsInv, Domains, SessionInv, OriginsOK
<1>2. /\ pc[x] = "unsent"
      /\ request' = [request EXCEPT ![x] = work]
      /\ pc' = [pc EXCEPT ![x] = FirstStep(work.op)]
      /\ origin' = [origin EXCEPT ![x] = [tab |-> b, mount |-> page'[b].mount, as |-> cookie]]
  BY DEF BeginsOn
<1>3. ASSUME NEW t \in Calls, t # x
      PROVE  request'[t] = request[t] /\ pc'[t] = pc[t] /\ origin'[t] = origin[t]
  BY <1>1, <1>2, <1>3
<1>4. ASSUME NEW t \in Calls, t = x
      PROVE  /\ request'[t] = work /\ pc'[t] = FirstStep(work.op) /\ pc[t] = "unsent"
             /\ \A p \in Parts : part[t][p] = Waiting
             /\ origin[t] = None /\ origin'[t].tab = b
  <2>1. /\ request'[t] = work /\ pc'[t] = FirstStep(work.op) /\ pc[t] = "unsent"
        /\ origin'[t] = [tab |-> b, mount |-> page'[b].mount, as |-> cookie]
    BY <1>1, <1>2, <1>4
  <2>2. origin[t] = None
    BY <2>1 DEF Groundwork, SessionInv, OriginsOK
  <2>3. \A p \in Parts : part[t][p] = Waiting
    BY <2>1 DEF PagesInv, CallsInv, CallInv
  <2> QED
    BY <2>1, <2>2, <2>3
<1>5. ASSUME NEW t \in Calls, At(t, b)', t # x
      PROVE  At(t, b) /\ page'[b].mount = page[b].mount /\ page'[b].route.name = page[b].route.name
  <2>1. origin[t] # None /\ origin[t].tab = b /\ origin[t].mount = page'[b].mount
    BY <1>3, <1>5 DEF At, FromTab
  <2>2. origin[t].mount \in 0..page[b].mount /\ page[b].mount \in Nat
    BY <2>1 DEF Groundwork, SessionInv, OriginsOK, PagesOK
  <2>3. page[b].mount <= page'[b].mount
    BY DEF BeginsOn, Turns
  <2>4. origin[t].mount = page[b].mount
    BY <2>1, <2>2, <2>3
  <2> QED
    BY <2>1, <2>4 DEF At, FromTab, BeginsOn, Turns
<1>6. ASSUME NEW c \in Tabs \ {b}, NEW t \in Calls, At(t, c)' PROVE At(t, c) /\ t # x
  <2>1. t # x
    BY <1>4, <1>6 DEF At, FromTab
  <2> QED
    BY <1>3, <1>6, <2>1 DEF At, FromTab, BeginsOn, Turns
<1> QED
  BY <1>3, <1>4, <1>5, <1>6

\* Of the pages of one route, only forms make calls that fetch nothing.
LEMMA RouteOfPages ==
    ASSUME NEW op \in PageOps
    PROVE  /\ RouteOf(op) \in {"results", "spectate", "leaderboard", "profile", "vote"}
           /\ RouteOf(op) = "results" => op = "results"
           /\ RouteOf(op) = "spectate" => op \in {"summary", "vote"}
BY DEF PageOps, RouteOf

LEMMA BeginsKeepsTab ==
    ASSUME Groundwork, BrowserTypes, PagesInv, NEW b \in Tabs,
           NEW x, NEW work, NEW v, BeginsOn(b, x, work, v)
    PROVE  TabInv(b)'
<1> DEFINE op == work.op
<1>1. /\ page'[b].route.name = RouteOf(op) /\ view'[b] = Started(v, op) /\ ballots' = ballots
      /\ part' = part /\ disturbed' = disturbed \cup Overlaps(b, page'[b].mount, op)
      /\ v \in {view[b], NewView}
      /\ \/ work \in Credentials
         \/ op \in PageOps /\ (op \in OfDebate => work = Fetch(op, page'[b].route.id))
  BY DEF BeginsOn, Turns
<1>2. IsView(v) /\ v.message \in {view[b].message, NoMessage}
  BY <1>1 DEF PagesInv, ViewsOK, NewView, IsView
<1>3. /\ op = "vote" => view'[b].submitting
      /\ op # "vote" => view'[b].loading
      /\ view'[b].message \in {view[b].message, NoMessage}
      /\ op = "results" => \A p \in PartsOf("results") : view'[b].shown[p] = None
  BY <1>1, <1>2, StartedView
<1>4. ASSUME NEW t \in Calls, At(t, b)' PROVE page'[b].route.name = RouteOf(request'[t].op)
  <2>1. CASE t = x
    BY <1>1, <2>1, BeginsWhere
  <2>2. CASE t # x
    <3>1. At(t, b) /\ page'[b].route.name = page[b].route.name /\ request'[t] = request[t]
      BY <1>4, <2>2, BeginsWhere
    <3> QED
      BY <3>1 DEF PagesInv, TabInv
  <2> QED
    BY <2>1, <2>2
<1>5. (view[b].message.of # None => Cast(view[b].message.of, view[b].message.user))'
  BY <1>1, <1>3 DEF PagesInv, TabInv, NoMessage, Cast
<1>6. ASSUME "page" \notin disturbed', NEW t \in Calls, Current(t, b)'
      PROVE  t = x /\ op \in PageOps
  <2>1. CASE op \notin PageOps
    <3>1. work \in Credentials /\ op \in {"signup", "login"}
      BY <1>1, <2>1 DEF Credentials
    <3>2. request'[t].op \in PageOps /\ page'[b].route.name = RouteOf(request'[t].op)
      BY <1>4, <1>6 DEF Current
    <3>3. RouteOf(op) \in {"signup", "login"}
      BY <3>1 DEF RouteOf
    <3> QED
      BY <1>1, <3>2, <3>3, RouteOfPages
  <2>2. CASE op \in PageOps /\ t # x
    <3>1. /\ At(t, b) /\ page'[b].mount = page[b].mount
          /\ request'[t] = request[t] /\ pc'[t] = pc[t]
      BY <1>6, <2>2, BeginsWhere DEF Current
    <3>2. FromTab(t, b) /\ origin[t].mount = page[b].mount /\ pc[t] # "ended" /\ request[t].op \in PageOps
      BY <1>6, <3>1 DEF Current, At
    <3>3. UnderWay(t)
      BY <3>2 DEF UnderWay, Here, FromTab, Groundwork, SessionInv, PagesOK
    <3>4. "page" \in Overlaps(b, page'[b].mount, op)
      BY <2>2, <3>1, <3>2, <3>3 DEF Overlaps
    <3> QED
      BY <1>1, <1>6, <3>4
  <2> QED
    BY <2>1, <2>2
<1>7. ASSUME "page" \notin disturbed', NEW t \in Calls, Current(t, b)' PROVE Working(t, b)'
  <2>1. t = x /\ op \in PageOps /\ request'[t] = work
    BY <1>6, <1>7, BeginsWhere
  <2>2. part'[t]["summary"] = Waiting
    BY <1>1, <2>1, BeginsWhere DEF Parts
  <2>3. Seen(t, b)'
    BY <2>2 DEF Seen, Waiting
  <2>4. ASSUME page'[b].route.name \in {"results", "spectate"} PROVE request'[t].id = page'[b].route.id
    <3>1. op \in OfDebate
      BY <1>1, <2>1, <2>4, RouteOfPages DEF OfDebate
    <3>2. work = Fetch(op, page'[b].route.id) \/ work \in Credentials
      BY <1>1, <3>1
    <3>3. work \notin Credentials
      BY <2>1 DEF Credentials, PageOps
    <3> QED
      BY <2>1, <3>2, <3>3 DEF Fetch
  <2>5. page'[b].route.name = "results" => \A p \in PartsOf("results") : view'[b].shown[p] = None
    BY <1>1, <1>3, <2>1, RouteOfPages
  <2> QED
    BY <2>3, <2>4, <2>5 DEF Working
<1>8. ShowsResults(b)' /\ CountsVote(b)'
  <2>1. CASE op \in PageOps
    BY <1>1, <1>3, <2>1, RouteOfPages DEF ShowsResults, CountsVote
  <2>2. CASE op \in {"signup", "login"}
    BY <1>1, <2>2 DEF ShowsResults, CountsVote, RouteOf
  <2> QED
    BY <1>1, <2>1, <2>2 DEF Credentials
<1> QED
  BY <1>4, <1>5, <1>6, <1>7, <1>8 DEF TabInv

RoutesOK == \A b \in Tabs : page[b].route \in Routable

LEMMA RoutesHold == Safety => []RoutesOK
<1>1. Groundwork /\ BrowserTypes => RoutesOK
  BY RoutesFit DEF RoutesOK
<1> QED
  BY <1>1, GroundworkHolds, BrowserHolds, PTL

LEMMA BeginsKeepsCalls ==
    ASSUME Groundwork, BrowserTypes, PagesInv, RoutesOK', NEW b \in Tabs,
           NEW x, NEW work, NEW v, BeginsOn(b, x, work, v)
    PROVE  CallsInv'
<1> DEFINE op == work.op
<1>1. /\ page'[b].route.name = RouteOf(op) /\ ballots' = ballots /\ part' = part
      /\ \/ work \in Credentials
         \/ op \in PageOps /\ (op \in OfDebate => work = Fetch(op, page'[b].route.id))
  BY DEF BeginsOn, Turns
<1>2. ASSUME NEW t \in Calls, t # x PROVE CallInv(t)'
  <2>1. /\ CallInv(t)
        /\ request'[t] = request[t] /\ pc'[t] = pc[t] /\ origin'[t] = origin[t]
    BY <1>2, BeginsWhere DEF PagesInv, CallsInv
  <2> QED
    BY <1>1, <2>1 DEF CallInv, AboutIts, Cast
<1>3. ASSUME NEW t \in Calls, t = x PROVE CallInv(t)'
  <2>1. /\ request'[t] = work /\ pc'[t] = FirstStep(op)
        /\ \A p \in Parts : part[t][p] = Waiting
    BY <1>3, BeginsWhere
  <2>2. DOMAIN part[t] = Parts /\ PartsOf("results") \subseteq Parts
    BY DEF PagesInv, CallsInv, CallInv, PartsOf, Parts
  <2>3. /\ FirstStep(op) \in {"find", "login", "vote", "read"}
        /\ FirstStep(op) = "vote" => op = "vote"
        /\ FirstStep(op) = "read" => op \in PageOps
    BY <1>1 DEF FirstStep, Credentials
  <2>4. ASSUME FirstStep(op) \in {"vote", "read"}, op \in OfDebate
        PROVE  work.id \in Debates /\ work # None
    <3>1. op \in PageOps /\ work = Fetch(op, page'[b].route.id)
      BY <1>1, <2>4 DEF OfDebate, Credentials, PageOps
    <3>2. page'[b].route.name \in {"results", "spectate"}
      BY <1>1, <2>4 DEF OfDebate, RouteOf
    <3>3. page'[b].route \in Routable
      BY DEF RoutesOK
    <3>4. PICK r : r = page'[b].route
      OBVIOUS
    <3>5. r.id \in Debates
      BY <3>2, <3>3, <3>4, RouteShape
    <3>6. work = Fetch(op, r.id)
      BY <3>1, <3>4
    <3>7. work \in [op : PageOps, id : Debates]
      BY <3>1, <3>5, <3>6 DEF Fetch
    <3>8. None \notin [op : PageOps, id : Debates]
      BY WebAssumption, Zenon
    <3> QED
      BY <3>5, <3>6, <3>7, <3>8 DEF Fetch
  <2> QED
    BY <1>1, <2>1, <2>2, <2>3, <2>4 DEF CallInv, AboutIts
<1> QED
  BY <1>1, <1>2, <1>3 DEF PagesInv, CallsInv

LEMMA BeginsKeepsPages ==
    ASSUME Groundwork, BrowserTypes, PagesInv, RoutesOK', NEW b \in Tabs,
           NEW x, NEW work, NEW v, BeginsOn(b, x, work, v)
    PROVE  PagesInv'
<1>1. ViewsOK'
  <2>1. v \in {view[b], NewView} /\ view'[b] = Started(v, work.op)
    BY DEF BeginsOn
  <2>2. IsView(v)
    BY <2>1 DEF PagesInv, ViewsOK, NewView, IsView
  <2>3. IsView(view'[b])
    BY <2>1, <2>2, StartedView
  <2> QED
    BY <2>3 DEF PagesInv, ViewsOK, BeginsOn, Turns
<1>2. ASSUME NEW c \in Tabs \ {b} PROVE TabInv(c)'
  <2>1. /\ page'[c] = page[c] /\ view'[c] = view[c] /\ UNCHANGED <<part, ballots>>
        /\ disturbed \subseteq disturbed'
    BY DEF BeginsOn, Turns
  <2>2. ASSUME NEW t \in Calls, At(t, c)'
        PROVE  At(t, c) /\ t # x /\ request'[t] = request[t] /\ pc'[t] = pc[t]
    BY <2>2, BeginsWhere
  <2>3. ASSUME NEW t \in Calls, pc[t] = "ended" PROVE pc'[t] = "ended"
    BY <2>3, BeginsWhere
  <2>4. Continues(c)
    BY <2>1, <2>2, <2>3 DEF Continues
  <2>5. ASSUME "page" \notin disturbed', NEW t \in Calls, Current(t, c)' PROVE Seen(t, c)'
    <3>1. Current(t, c)
      BY <2>2, <2>5 DEF Current
    <3>2. Seen(t, c)
      BY <2>1, <2>5, <3>1 DEF PagesInv, TabInv, Working
    <3> QED
      BY <2>1, <3>2 DEF Seen
  <2>6. TabInv(c)
    BY DEF PagesInv
  <2> QED
    BY <2>1, <2>4, <2>5, <2>6, TabStays
<1> QED
  BY <1>1, <1>2, BeginsKeepsTab, BeginsKeepsCalls DEF PagesInv

LEMMA BeginsNoneKeepsPages ==
    ASSUME Groundwork, BrowserTypes, PagesInv, NEW b \in Tabs, BeginsNone(b)
    PROVE  PagesInv'
<1>1. /\ UNCHANGED <<request, pc, origin, disturbed, part, ballots>>
      /\ DOMAIN view' = DOMAIN view
      /\ \A c \in Tabs \ {b} : page'[c] = page[c] /\ view'[c] = view[c]
      /\ view'[b] \in {view[b], NewView}
      /\ page[b].mount <= page'[b].mount
      /\ page'[b].mount = page[b].mount => page'[b].route.name = page[b].route.name
  BY DEF BeginsNone, Turns
<1>2. ViewsOK'
  BY <1>1 DEF PagesInv, ViewsOK, NewView, IsView
<1>3. CallsInv'
  BY <1>1 DEF PagesInv, CallsInv, CallInv, AboutIts, Cast
<1>4. ASSUME NEW c \in Tabs, page'[c] = page[c], view'[c] = view[c] PROVE TabInv(c)'
  <2>1. Continues(c)
    BY <1>1, <1>4 DEF Continues, At, FromTab
  <2>2. ASSUME "page" \notin disturbed', NEW t \in Calls, Current(t, c)' PROVE Seen(t, c)'
    <3>1. Current(t, c)
      BY <1>1, <1>4, <2>2 DEF Current, At, FromTab
    <3>2. Seen(t, c)
      BY <1>1, <2>2, <3>1 DEF PagesInv, TabInv, Working
    <3> QED
      BY <1>1, <1>4, <3>2 DEF Seen
  <2>3. TabInv(c)
    BY DEF PagesInv
  <2> QED
    BY <1>4, <2>1, <2>2, <2>3, TabStays
<1>5. ASSUME page'[b].route.name \notin {"results", "spectate"} PROVE TabInv(b)'
  <2>1. ASSUME NEW t \in Calls, At(t, b)'
        PROVE  At(t, b) /\ page'[b].route.name = page[b].route.name
    <3>1. origin[t] # None /\ origin[t].tab = b /\ origin[t].mount = page'[b].mount
      BY <1>1, <2>1 DEF At, FromTab
    <3>2. origin[t].mount \in 0..page[b].mount /\ page[b].mount \in Nat
      BY <3>1 DEF Groundwork, SessionInv, OriginsOK, PagesOK
    <3>3. origin[t].mount = page[b].mount
      BY <1>1, <3>1, <3>2
    <3> QED
      BY <1>1, <3>1, <3>3 DEF At, FromTab
  <2>2. Continues(b)
    BY <1>1, <2>1 DEF Continues
  <2>3. view'[b].message.of # None => view'[b].message = view[b].message
    BY <1>1 DEF NewView, NoMessage
  <2>4. TabInv(b)
    BY DEF PagesInv
  <2> QED
    BY <1>5, <2>1, <2>2, <2>3, <2>4, TabIsElsewhere
<1>6. TabInv(b)'
  BY <1>4, <1>5 DEF BeginsNone
<1> QED
  BY <1>1, <1>2, <1>3, <1>4, <1>6 DEF PagesInv

\* A step behind the pages.
LEMMA PagesStay ==
    ASSUME Groundwork, PagesInv, CallsInv', UNCHANGED <<page, view, origin, disturbed>>,
           ballots \subseteq ballots',
           \A t \in Calls : origin[t] # None => request'[t] = request[t],
           \A t \in Calls : pc[t] = "ended" => pc'[t] = "ended",
           "page" \notin disturbed =>
               \A b \in Tabs : \A t \in Calls : Current(t, b) => part'[t] = part[t] \/ Seen(t, b)'
    PROVE  PagesInv'
<1>1. ASSUME NEW b \in Tabs PROVE TabInv(b)'
  <2>1. ASSUME NEW t \in Calls, At(t, b)' PROVE At(t, b) /\ request'[t] = request[t]
    BY <2>1 DEF At, FromTab
  <2>2. Continues(b)
    BY <2>1 DEF Continues
  <2>3. ASSUME "page" \notin disturbed', NEW t \in Calls, Current(t, b)' PROVE Seen(t, b)'
    <3>1. Current(t, b)
      BY <2>1, <2>3 DEF Current
    <3>2. Seen(t, b)
      BY <2>3, <3>1 DEF PagesInv, TabInv, Working
    <3>3. CASE part'[t] = part[t]
      BY <3>2, <3>3 DEF Seen
    <3> QED
      BY <2>3, <3>1, <3>3
  <2>4. TabInv(b)
    BY DEF PagesInv
  <2> QED
    BY <2>2, <2>3, <2>4, TabStays
<1>2. ViewsOK'
  BY DEF PagesInv, ViewsOK
<1> QED
  BY <1>1, <1>2 DEF PagesInv

LEMMA MovesKeepCalls ==
    ASSUME Groundwork, PagesInv, NEW x \in Calls, NEW label,
           pc' = [pc EXCEPT ![x] = label],
           UNCHANGED <<request, origin, part>>, ballots \subseteq ballots',
           label = "ended" \/ pc[x] \notin {"read", "ended"},
           label \in {"vote", "voted", "refused"} => pc[x] = "vote",
           label = "read" => pc[x] = "voted",
           label = "voted" => Cast(request[x].id, origin[x].as)'
    PROVE  CallsInv'
<1>1. ASSUME NEW t \in Calls, t # x PROVE CallInv(t)'
  <2>1. CallInv(t) /\ pc'[t] = pc[t]
    BY <1>1 DEF PagesInv, CallsInv, Groundwork, AccountsInv, Domains
  <2> QED
    BY <2>1 DEF CallInv, AboutIts, Cast
<1>2. CallInv(x)'
  <2>1. CallInv(x) /\ pc'[x] = label
    BY DEF PagesInv, CallsInv, Groundwork, AccountsInv, Domains
  <2>2. "vote" \in PageOps
    BY DEF PageOps
  <2> QED
    BY <2>1, <2>2 DEF CallInv, AboutIts, Cast
<1> QED
  BY <1>1, <1>2 DEF PagesInv, CallsInv

LEMMA ServesKeepsPages ==
    ASSUME Groundwork, PagesInv, NEW x \in Calls, Serves(x) \/ AccountFault(x), UNCHANGED webVars
    PROVE  PagesInv'
<1>1. /\ UNCHANGED <<page, view, origin, disturbed, ballots, part, request>>
      /\ pc[x] \in {"find", "insert", "provision", "reply", "login", "profile"}
      /\ \E label \in {"insert", "provision", "reply", "answered"} : pc' = [pc EXCEPT ![x] = label]
  BY ServesGoesOn DEF webVars, tabVars, Groundwork
<1>2. PICK label \in {"insert", "provision", "reply", "answered"} : pc' = [pc EXCEPT ![x] = label]
  BY <1>1
<1>3. CallsInv'
  BY <1>1, <1>2, MovesKeepCalls
<1>4. \A t \in Calls : pc[t] = "ended" => pc'[t] = "ended"
  BY <1>1, <1>2 DEF Groundwork, AccountsInv, Domains
<1> QED
  BY <1>1, <1>3, <1>4, PagesStay

LEMMA ClientKeepsPages ==
    ASSUME Groundwork, PagesInv, NEW work, ClientSends(work)
    PROVE  PagesInv'
<1>1. PICK x :
        /\ pc[x] = "unsent"
        /\ request' = [request EXCEPT ![x] = work]
        /\ pc' = [pc EXCEPT ![x] = "profile"]
        /\ UNCHANGED <<page, view, origin, disturbed, ballots, part>>
  BY DEF ClientSends, Sends, Goto, webVars, tabVars
<1>2. DOMAIN request = Calls /\ DOMAIN pc = Calls
  BY DEF Groundwork, AccountsInv, Domains
<1>3. ASSUME NEW t \in Calls PROVE CallInv(t)'
  <2>1. CallInv(t)
    BY DEF PagesInv, CallsInv
  <2>2. CASE t # x
    <3>1. pc'[t] = pc[t] /\ request'[t] = request[t]
      BY <1>1, <1>2, <2>2
    <3> QED
      BY <1>1, <2>1, <3>1 DEF CallInv, AboutIts, Cast
  <2>3. CASE t = x
    <3>1. pc[t] = "unsent" /\ pc'[t] = "profile"
      BY <1>1, <1>2, <2>3
    <3>2. DOMAIN part[t] = Parts /\ \A p \in Parts : part[t][p] = Waiting
      BY <2>1, <3>1 DEF CallInv
    <3>3. PartsOf("results") \subseteq Parts
      BY DEF PartsOf, Parts
    <3> QED
      BY <1>1, <3>1, <3>2, <3>3 DEF CallInv, AboutIts
  <2> QED
    BY <2>2, <2>3
<1>4. CallsInv'
  BY <1>1, <1>3 DEF PagesInv, CallsInv
<1>5. ASSUME NEW t \in Calls PROVE origin[t] # None => request'[t] = request[t]
  <2>1. CASE t = x
    BY <1>1, <2>1 DEF Groundwork, SessionInv, OriginsOK
  <2>2. CASE t # x
    BY <1>1, <1>2, <2>2
  <2> QED
    BY <2>1, <2>2
<1>6. \A t \in Calls : pc[t] = "ended" => pc'[t] = "ended"
  BY <1>1, <1>2
<1> QED
  BY <1>1, <1>4, <1>5, <1>6, PagesStay

LEMMA CookieKeepsPages ==
    ASSUME Groundwork, PagesInv, NEW x \in Calls, SetsCookie(x)
    PROVE  PagesInv'
<1>1. /\ UNCHANGED <<page, view, origin, disturbed, ballots, part, request>>
      /\ pc[x] = "answered" /\ pc' = [pc EXCEPT ![x] = "body"]
  BY DEF SetsCookie, Hears, Goto
<1>2. CallsInv'
  BY <1>1, MovesKeepCalls
<1>3. \A t \in Calls : pc[t] = "ended" => pc'[t] = "ended"
  BY <1>1 DEF Groundwork, AccountsInv, Domains
<1> QED
  BY <1>1, <1>2, <1>3, PagesStay

LEMMA BallotKeepsPages ==
    ASSUME Groundwork, PagesInv, NEW x \in Calls, ServesVote(x) \/ LosesVote(x)
    PROVE  PagesInv'
<1>1. UNCHANGED <<page, view, origin, disturbed, part, request>> /\ pc[x] = "vote"
  BY DEF ServesVote, LosesVote, NoSide, tabVars
<1>2. PICK label \in {"voted", "refused"} :
        /\ pc' = [pc EXCEPT ![x] = label]
        /\ \/ Casts(x)
           \/ ballots' = ballots /\ label = "refused"
  BY DEF ServesVote, LosesVote, Goto
<1>3. ballots \subseteq ballots' /\ (label = "voted" => Cast(request[x].id, origin[x].as)')
  BY <1>1, <1>2 DEF Casts, Cast
<1>4. CallsInv'
  BY <1>1, <1>2, <1>3, MovesKeepCalls
<1>5. \A t \in Calls : pc[t] = "ended" => pc'[t] = "ended"
  BY <1>1, <1>2 DEF Groundwork, AccountsInv, Domains
<1> QED
  BY <1>1, <1>3, <1>4, <1>5, PagesStay

LEMMA WebParts ==
    /\ PartsOf("results") = {"final", "analysis", "summary"} /\ PartsOf("results") \subseteq Parts
    /\ \A op \in PageOps : \A p \in PartsOf("results") :
           p \in PartsOf(op) => op \in OfDebate
    /\ PartsOf("summary") = {"summary"} /\ PartsOf("vote") = {"summary"}
BY DEF PartsOf, Parts, PageOps, OfDebate

\* What is found of a debate is about it, and is not nothing.
LEMMA FoundIsAbout ==
    ASSUME BrowserTypes, NEW id \in Debates, NEW p \in PartsOf("results"), NEW y \in Found(p, id)
    PROVE  /\ y.at = "ok" /\ y.of = id /\ y # None
           /\ p = "summary" => y.voters = VotersOf(id)
<1>1. p \in {"final", "analysis", "summary"}
  BY WebParts
<1>2. y = Item(id, {}) \/ (p = "summary" /\ y = Item(id, VotersOf(id)))
  BY <1>1 DEF Found
<1>3. p = "summary" => y = Item(id, VotersOf(id))
  BY DEF Found
<1>4. VotersOf(id) \subseteq Users
  BY DEF VotersOf, BrowserTypes
<1>5. y \in [at : {"ok"}, of : Debates, voters : SUBSET Users]
  BY <1>2, <1>4 DEF Item
<1>6. None \notin [at : {"ok"}, of : Debates, voters : SUBSET Users]
  BY WebAssumption, Zenon
<1>7. y.at = "ok" /\ y.of = id
  BY <1>2 DEF Item
<1>8. p = "summary" => y.voters = VotersOf(id)
  BY <1>3 DEF Item
<1> QED
  BY <1>5, <1>6, <1>7, <1>8

LEMMA PartKeepsPages ==
    ASSUME Groundwork, BrowserTypes, RoutesOK, PagesInv, NEW x \in Calls, NEW p \in Parts,
           ServesPart(x, p) \/ RejectsPart(x, p)
    PROVE  PagesInv'
<1>1. /\ UNCHANGED <<page, view, origin, disturbed, request, pc, ballots>>
      /\ pc[x] = "read" /\ p \in PartsOf(request[x].op)
  BY DEF ServesPart, RejectsPart, Fetches, NoSide, tabVars
<1>2. PICK y : /\ part' = [part EXCEPT ![x][p] = y]
               /\ y = Rejected \/ y \in Found(p, request[x].id)
  <2>1. CASE RejectsPart(x, p)
    BY <2>1 DEF RejectsPart
  <2>2. CASE ServesPart(x, p)
    BY <2>2 DEF ServesPart
  <2> QED
    BY <2>1, <2>2
<1>3. DOMAIN part = Calls /\ CallInv(x) /\ DOMAIN part[x] = Parts
  BY DEF PagesInv, CallsInv, CallInv
<1> DEFINE new == [part[x] EXCEPT ![p] = y]
<1>4. part' = [part EXCEPT ![x] = new]
  BY <1>2
<1>5. new[p] = y /\ DOMAIN new = Parts /\ \A q \in Parts \ {p} : new[q] = part[x][q]
  BY <1>3
<1> HIDE DEF new
<1>6. part'[x] = new /\ DOMAIN part' = Calls /\ \A t \in Calls \ {x} : part'[t] = part[t]
  BY <1>3, <1>4
<1>7. ASSUME p \in PartsOf("results"), y \in Found(p, request[x].id)
      PROVE  /\ y.at = "ok" /\ y.of = request[x].id /\ y # None
             /\ p = "summary" => y.voters = VotersOf(request[x].id)
  <2>1. request[x].id \in Debates
    BY <1>1, <1>3, <1>7, WebParts DEF CallInv
  <2> QED
    BY <1>7, <2>1, FoundIsAbout
<1>8. CallsInv'
  <2>1. ASSUME NEW t \in Calls, t # x PROVE CallInv(t)'
    <3>1. CallInv(t) /\ part'[t] = part[t]
      BY <1>6, <2>1 DEF PagesInv, CallsInv
    <3> QED
      BY <1>1, <3>1 DEF CallInv, AboutIts, Cast
  <2>2. ASSUME NEW q \in PartsOf("results") PROVE AboutIts(x, q)'
    <3>1. q \in Parts
      BY WebParts
    <3>2. CASE q = p
      BY <1>1, <1>2, <1>5, <1>6, <1>7, <3>2 DEF AboutIts
    <3>3. CASE q # p
      BY <1>1, <1>3, <1>5, <1>6, <3>1, <3>3 DEF AboutIts, CallInv
    <3> QED
      BY <3>2, <3>3
  <2>3. CallInv(x)'
    BY <1>1, <1>3, <1>5, <1>6, <2>2 DEF CallInv, Cast
  <2> QED
    BY <1>6, <2>1, <2>3 DEF CallsInv
<1>9. ASSUME "page" \notin disturbed, NEW b \in Tabs, NEW t \in Calls, Current(t, b)
      PROVE  part'[t] = part[t] \/ Seen(t, b)'
  <2>1. CASE t # x
    BY <1>6, <2>1
  <2>2. CASE t = x
    <3>1. Working(x, b)
      BY <1>9, <2>2 DEF PagesInv, TabInv
    <3>2. ASSUME page[b].route.name = "spectate", view[b].message.of = page[b].route.id,
                 new["summary"].at = "ok"
          PROVE  view[b].message.user \in new["summary"].voters
      <4>1. CASE p # "summary"
        <5>1. new["summary"] = part[x]["summary"]
          BY <1>5, <4>1 DEF Parts
        <5> QED
          BY <3>1, <3>2, <5>1 DEF Working, Seen
      <4>2. CASE p = "summary"
        <5>1. y # Rejected
          BY <1>5, <3>2, <4>2 DEF Rejected, Waiting
        <5>2. y.voters = VotersOf(request[x].id)
          BY <1>2, <1>7, <4>2, <5>1, WebParts
        <5>3. request[x].id = page[b].route.id
          BY <3>1, <3>2 DEF Working
        <5>4. page[b].route.id # None
          BY <3>2, RouteShape DEF RoutesOK
        <5>5. Cast(view[b].message.of, view[b].message.user)
          BY <3>2, <5>4 DEF PagesInv, TabInv
        <5>6. view[b].message.user \in VotersOf(view[b].message.of)
          BY <5>5 DEF Cast, VotersOf
        <5> QED
          BY <1>5, <3>2, <4>2, <5>2, <5>3, <5>6
      <4> QED
        BY <4>1, <4>2
    <3> QED
      BY <1>1, <1>6, <2>2, <3>2 DEF Seen
  <2> QED
    BY <2>1, <2>2
<1> QED
  BY <1>1, <1>8, <1>9, PagesStay

\* Where a tab hears an answer to a call of its own.
HeardIn(x, b) ==
    /\ FromTab(x, b) /\ b \in Tabs
    /\ UNCHANGED <<request, origin, part, ballots, disturbed>>

LEMMA HearsWhere ==
    ASSUME Groundwork, NEW x \in Calls, Hears(x)
    PROVE  HeardIn(x, origin[x].tab)
<1>1. origin[x] # None
  BY DEF Hears, Here
<1>2. origin[x].tab \in Tabs
  BY <1>1 DEF Groundwork, SessionInv, OriginsOK
<1> QED
  BY <1>1, <1>2 DEF Hears, HeardIn, FromTab

LEMMA LoginKeepsPages ==
    ASSUME Groundwork, PagesInv, NEW x \in Calls, HearsLogin(x)
    PROVE  PagesInv'
<1> PICK b : b = origin[x].tab
  OBVIOUS
<1>1. /\ FromTab(x, b) /\ b \in Tabs
      /\ UNCHANGED <<request, origin, part, ballots, disturbed>>
  BY HearsWhere DEF HearsLogin, HeardIn
<1>2. pc[x] = "body" /\ pc' = [pc EXCEPT ![x] = "ended"]
  BY DEF HearsLogin, Ends, Goto
<1>3. CallsInv'
  BY <1>1, <1>2, MovesKeepCalls
<1>4. \A t \in Calls : pc[t] = "ended" => pc'[t] = "ended"
  BY <1>2 DEF Groundwork, AccountsInv, Domains
<1>5. CASE UNCHANGED <<page, view>>
  BY <1>1, <1>3, <1>4, <1>5, PagesStay
<1>6. CASE /\ page' = [page EXCEPT ![b] = PageOf(Home, @.mount + 1, None)]
           /\ view' = [view EXCEPT ![b] = NewView]
  <2>1. DOMAIN page = Tabs /\ DOMAIN view = Tabs
    BY DEF Groundwork, SessionInv, PagesOK, PagesInv, ViewsOK
  <2>2. /\ page'[b].mount = page[b].mount + 1 /\ page'[b].route.name = "home"
        /\ view'[b] = NewView
    BY <1>1, <1>6, <2>1 DEF PageOf, Home
  <2>3. ASSUME NEW c \in Tabs, c # b PROVE page'[c] = page[c] /\ view'[c] = view[c]
    BY <1>6, <2>1, <2>3
  <2>4. ASSUME NEW c \in Tabs, c # b PROVE TabInv(c)'
    <3>1. page'[c] = page[c] /\ view'[c] = view[c] /\ TabInv(c)
      BY <2>3, <2>4 DEF PagesInv
    <3>2. Continues(c)
      BY <1>1, <1>4, <3>1 DEF Continues, At, FromTab
    <3>3. ASSUME "page" \notin disturbed', NEW t \in Calls, Current(t, c)' PROVE Seen(t, c)'
      <4>1. Current(t, c)
        BY <1>1, <1>4, <3>1, <3>3 DEF Current, At, FromTab
      <4>2. Seen(t, c)
        BY <1>1, <3>1, <3>3, <4>1 DEF TabInv, Working
      <4> QED
        BY <1>1, <3>1, <4>2 DEF Seen
    <3> QED
      BY <3>1, <3>2, <3>3, TabStays
  <2>5. TabInv(b)'
    <3>1. ASSUME NEW t \in Calls PROVE ~At(t, b)'
      <4>1. FromTab(t, b) => origin[t].mount <= page[b].mount /\ origin[t].mount \in Nat
        BY DEF FromTab, Groundwork, SessionInv, OriginsOK
      <4>2. page[b].mount \in Nat
        BY <1>1 DEF Groundwork, SessionInv, PagesOK
      <4> QED
        BY <1>1, <2>2, <4>1, <4>2 DEF At, FromTab
    <3>2. Continues(b)
      BY <1>1, <1>4, <3>1 DEF Continues
    <3>3. view'[b].message.of = None
      BY <2>2 DEF NewView, NoMessage
    <3>4. TabInv(b)
      BY <1>1 DEF PagesInv
    <3> QED
      BY <1>1, <2>2, <3>1, <3>2, <3>3, <3>4, TabIsElsewhere
  <2>6. ViewsOK'
    <3>1. IsView(NewView)
      BY DEF IsView, NewView
    <3>2. ASSUME NEW c \in Tabs PROVE IsView(view'[c])
      BY <2>2, <2>3, <3>1 DEF PagesInv, ViewsOK
    <3>3. DOMAIN view' = Tabs
      BY <1>6, <2>1
    <3> QED
      BY <3>2, <3>3 DEF ViewsOK, IsView
  <2> QED
    BY <1>3, <2>4, <2>5, <2>6 DEF PagesInv
<1>7. \/ UNCHANGED <<page, view>>
      \/ /\ page' = [page EXCEPT ![b] = PageOf(Home, @.mount + 1, None)]
         /\ view' = [view EXCEPT ![b] = NewView]
  BY DEF HearsLogin
<1> QED
  BY <1>5, <1>6, <1>7

\* An answer that changes what one tab shows.
LEMMA AnswerKeepsPages ==
    ASSUME Groundwork, PagesInv, CallsInv', NEW x \in Calls, NEW b, HeardIn(x, b), page' = page,
           NEW label, pc[x] # "ended", pc' = [pc EXCEPT ![x] = label],
           NEW v, IsView(v), view' = [view EXCEPT ![b] = v],
           Continues(b) /\ view'[b] = v => TabInv(b)'
    PROVE  PagesInv'
<1>1. /\ FromTab(x, b) /\ b \in Tabs
      /\ UNCHANGED <<request, origin, part, ballots, disturbed>>
  BY DEF HeardIn
<1>2. \A t \in Calls : pc[t] = "ended" => pc'[t] = "ended"
  BY DEF Groundwork, AccountsInv, Domains
<1>3. DOMAIN view = Tabs
  BY DEF PagesInv, ViewsOK
<1>4. view'[b] = v
  BY <1>1, <1>3
<1>5. ASSUME NEW c \in Tabs PROVE Continues(c)
  BY <1>1, <1>2 DEF Continues, At, FromTab
<1>6. ASSUME NEW c \in Tabs, c # b PROVE TabInv(c)'
  <2>1. view'[c] = view[c] /\ TabInv(c)
    BY <1>3, <1>6 DEF PagesInv
  <2>2. ASSUME NEW t \in Calls, Current(t, c)' PROVE Current(t, c)
    BY <1>1, <1>2, <2>2 DEF Current, At, FromTab
  <2>3. ASSUME "page" \notin disturbed', NEW t \in Calls, Current(t, c)' PROVE Seen(t, c)'
    <3>1. Seen(t, c)
      BY <1>1, <2>1, <2>2, <2>3 DEF TabInv, Working
    <3> QED
      BY <1>1, <2>1, <3>1 DEF Seen
  <2> QED
    BY <1>5, <2>1, <2>3, TabStays
<1>7. TabInv(b)'
  BY <1>1, <1>4, <1>5
<1>8. ViewsOK'
  <2>1. ASSUME NEW c \in Tabs PROVE IsView(view'[c])
    BY <1>3, <1>4 DEF PagesInv, ViewsOK
  <2> QED
    BY <1>3, <2>1 DEF ViewsOK, IsView
<1> QED
  BY <1>6, <1>7, <1>8 DEF PagesInv

LEMMA UnmountedKeepsPages ==
    ASSUME Groundwork, PagesInv, CallsInv', NEW x \in Calls, Hears(x), UNCHANGED <<page, view>>,
           NEW label, pc[x] # "ended", pc' = [pc EXCEPT ![x] = label]
    PROVE  PagesInv'
<1>1. UNCHANGED <<request, origin, part, ballots, disturbed>>
  BY DEF Hears
<1>2. \A t \in Calls : pc[t] = "ended" => pc'[t] = "ended"
  BY DEF Groundwork, AccountsInv, Domains
<1> QED
  BY <1>1, <1>2, PagesStay

LEMMA FormAnswerKeepsPages ==
    ASSUME Groundwork, PagesInv, NEW x \in Calls, HearsRefusal(x) \/ HearsSignup(x)
    PROVE  PagesInv'
<1> PICK b : b = origin[x].tab
  OBVIOUS
<1>1. /\ Hears(x) /\ page' = page /\ pc[x] = "answered" /\ pc' = [pc EXCEPT ![x] = "ended"]
      /\ Asks(x, "login") \/ Asks(x, "signup")
  BY DEF HearsRefusal, HearsSignup, Ends, Goto
<1>2. HeardIn(x, b)
  BY <1>1, HearsWhere
<1>3. CallsInv'
  BY <1>1, <1>2, MovesKeepCalls DEF HeardIn
<1>4. CASE ~Mounted(x)
  <2>1. view' = view
    BY <1>4 DEF HearsRefusal, HearsSignup, Shows
  <2> QED
    BY <1>1, <1>3, <2>1, UnmountedKeepsPages
<1>5. CASE Mounted(x)
  <2>1. b \in Tabs /\ TabInv(b) /\ IsView(view[b]) /\ At(x, b)
    BY <1>2, <1>5 DEF HeardIn, PagesInv, ViewsOK, At, Mounted
  <2>2. PICK v :
          /\ view' = [view EXCEPT ![b] = v]
          /\ \/ v = [view[b] EXCEPT !.loading = FALSE, !.error = TRUE]
             \/ v = [view[b] EXCEPT !.loading = FALSE,
                         !.message = [of |-> None, user |-> answer[x].user]]
    BY <1>5 DEF HearsRefusal, HearsSignup, Shows, ViewOf
  <2>3. IsView(v) /\ (v.message.of # None => v.message = view[b].message)
    <3>1. CASE v = [view[b] EXCEPT !.loading = FALSE, !.error = TRUE]
      BY <2>1, <3>1 DEF IsView
    <3>2. CASE v = [view[b] EXCEPT !.loading = FALSE,
                        !.message = [of |-> None, user |-> answer[x].user]]
      <4>1. IsView(v) /\ v.message = [of |-> None, user |-> answer[x].user]
        BY <2>1, <3>2 DEF IsView
      <4> QED
        BY <4>1
    <3> QED
      BY <2>2, <3>1, <3>2
  <2>4. page[b].route.name \in {"login", "signup"}
    BY <1>1, <2>1 DEF TabInv, RouteOf, Asks
  <2>5. ASSUME Continues(b), view'[b] = v PROVE TabInv(b)'
    BY <1>1, <2>1, <2>3, <2>4, <2>5, TabIsElsewhere
  <2> QED
    BY <1>1, <1>2, <1>3, <2>2, <2>3, <2>5, AnswerKeepsPages
<1> QED
  BY <1>4, <1>5

LEMMA VoteAnswerKeepsPages ==
    ASSUME Groundwork, PagesInv, NEW x \in Calls, HearsVote(x)
    PROVE  PagesInv'
<1> PICK b : b = origin[x].tab
  OBVIOUS
<1>1. Hears(x) /\ page' = page
  BY DEF HearsVote
<1>2. HeardIn(x, b)
  BY <1>1, HearsWhere
<1>3. PICK label :
        /\ pc' = [pc EXCEPT ![x] = label]
        /\ \/ /\ pc[x] = "voted" /\ label = "read"
              /\ Shows(x, [Started(ViewOf(x), "summary") EXCEPT
                              !.message = [of |-> request[x].id, user |-> origin[x].as],
                              !.loading = TRUE, !.submitting = TRUE])
           \/ /\ pc[x] = "refused" /\ label = "ended"
              /\ Shows(x, [ViewOf(x) EXCEPT !.submitting = FALSE, !.error = TRUE])
  BY DEF HearsVote, Goto, Ends, AfterVote
<1>4. CallsInv'
  BY <1>2, <1>3, MovesKeepCalls DEF HeardIn
<1>5. CASE ~Mounted(x)
  <2>1. view' = view
    BY <1>3, <1>5 DEF Shows
  <2> QED
    BY <1>1, <1>3, <1>4, <2>1, UnmountedKeepsPages
<1>6. CASE Mounted(x)
  <2>1. b \in Tabs /\ TabInv(b) /\ IsView(view[b]) /\ At(x, b) /\ CallInv(x)
    BY <1>2, <1>6 DEF HeardIn, PagesInv, ViewsOK, CallsInv, At, Mounted
  <2>2. request[x].op = "vote" /\ Current(x, b) /\ page[b].route.name = "spectate"
    BY <1>3, <2>1 DEF CallInv, TabInv, Current, PageOps, RouteOf
  <2>3. ASSUME NEW v, Continues(b), view'[b] = v,
               v.message.of # None => Cast(v.message.of, v.message.user),
               v.loading \/ v.error,
               "page" \notin disturbed => \A t \in Calls : Current(t, b)' => Working(t, b)'
        PROVE  TabInv(b)'
    <3>1. ASSUME NEW t \in Calls, Current(t, b)' PROVE Current(t, b)
      BY <2>3, <3>1 DEF Current, Continues
    <3>2. \A t \in Calls : At(t, b)' => page'[b].route.name = RouteOf(request'[t].op)
      BY <1>1, <2>1, <2>3 DEF TabInv, Continues
    <3>3. (view[b].message.of # None => Cast(view[b].message.of, view[b].message.user))'
      BY <2>3 DEF Cast, Continues
    <3>4. ShowsResults(b)' /\ CountsVote(b)'
      BY <1>1, <2>2, <2>3 DEF ShowsResults, CountsVote
    <3>5. disturbed' = disturbed
      BY <1>2 DEF HeardIn
    <3> QED
      BY <2>1, <2>3, <3>1, <3>2, <3>3, <3>4, <3>5 DEF TabInv
  <2>4. CASE pc[x] = "voted"
    <3> PICK w : w = Started(view[b], "summary")
      OBVIOUS
    <3> PICK v : v = [w EXCEPT !.message = [of |-> request[x].id, user |-> origin[x].as],
                               !.loading = TRUE, !.submitting = TRUE]
      OBVIOUS
    <3>1. view' = [view EXCEPT ![b] = v]
      BY <1>3, <1>6, <2>4 DEF Shows, ViewOf
    <3>2. IsView(w)
      BY <2>1, StartedView
    <3>3. /\ IsView(v) /\ v.loading
          /\ v.message = [of |-> request[x].id, user |-> origin[x].as]
      BY <3>2 DEF IsView
    <3>4. Cast(v.message.of, v.message.user)
      BY <2>1, <2>4, <3>3 DEF CallInv
    <3>5. ASSUME Continues(b), view'[b] = v, "page" \notin disturbed, NEW t \in Calls, Current(t, b)'
          PROVE  Working(t, b)'
      <4>1. Current(t, b) /\ request'[t] = request[t] /\ part'[t] = part[t]
        BY <1>2, <3>5 DEF Current, Continues, HeardIn
      <4>2. t = x
        BY <2>1, <2>2, <3>5, <4>1 DEF TabInv
      <4>3. Working(x, b)
        BY <2>1, <2>2, <3>5 DEF TabInv
      <4>4. part[x]["summary"] = Waiting
        BY <2>1, <2>4 DEF CallInv, Parts
      <4> QED
        BY <1>1, <2>2, <4>1, <4>2, <4>3, <4>4 DEF Working, Seen, Waiting
    <3>6. Continues(b) /\ view'[b] = v => TabInv(b)'
      BY <2>3, <3>3, <3>4, <3>5
    <3> QED
      BY <1>1, <1>2, <1>3, <1>4, <2>4, <3>1, <3>3, <3>6, AnswerKeepsPages
  <2>5. CASE pc[x] = "refused"
    <3> PICK v : v = [view[b] EXCEPT !.submitting = FALSE, !.error = TRUE]
      OBVIOUS
    <3>1. view' = [view EXCEPT ![b] = v]
      BY <1>3, <1>6, <2>5 DEF Shows, ViewOf
    <3>2. /\ IsView(v) /\ v.error /\ v.message = view[b].message
      BY <2>1 DEF IsView
    <3>3. v.message.of # None => Cast(v.message.of, v.message.user)
      BY <2>1, <3>2 DEF TabInv
    <3>4. ASSUME Continues(b), view'[b] = v, "page" \notin disturbed, NEW t \in Calls, Current(t, b)'
          PROVE  Working(t, b)'
      <4>1. Current(t, b) /\ request'[t] = request[t] /\ part'[t] = part[t]
        BY <1>2, <3>4 DEF Current, Continues, HeardIn
      <4>2. Working(t, b)
        BY <2>1, <3>4, <4>1 DEF TabInv
      <4> QED
        BY <1>1, <2>2, <3>2, <3>4, <4>1, <4>2 DEF Working, Seen
    <3>5. Continues(b) /\ view'[b] = v => TabInv(b)'
      BY <2>3, <3>2, <3>3, <3>4
    <3> QED
      BY <1>1, <1>2, <1>3, <1>4, <2>5, <3>1, <3>2, <3>5, AnswerKeepsPages
  <2> QED
    BY <1>3, <2>4, <2>5
<1> QED
  BY <1>5, <1>6

\* What a page shows when its fetches have settled.
LEMMA FetchedView ==
    ASSUME NEW v, IsView(v), NEW x
    PROVE  LET w == Fetched(v, x) IN
           /\ IsView(w) /\ w.message = v.message /\ ~w.loading
           /\ \A p \in Parts :
                  w.shown[p] = IF p \in Fulfilled(x) THEN part[x][p] ELSE v.shown[p]
           /\ Asks(x, "results") => w.warnings = Refused(x)
           /\ ~w.error => Refused(x) # PartsOf(request[x].op)
<1> DEFINE shown == [p \in Parts |-> IF p \in Fulfilled(x) THEN part[x][p] ELSE v.shown[p]]
<1>1. PICK warnings, error, submitting :
        /\ Fetched(v, x) = [v EXCEPT !.shown = shown, !.warnings = warnings, !.error = error,
                                     !.loading = FALSE, !.submitting = submitting]
        /\ Asks(x, "results") => warnings = Refused(x)
        /\ ~error => Refused(x) # PartsOf(request[x].op)
  BY DEF Fetched, StillLoading
<1>2. DOMAIN shown = Parts
  OBVIOUS
<1>3. \A p \in Parts : shown[p] = IF p \in Fulfilled(x) THEN part[x][p] ELSE v.shown[p]
  OBVIOUS
<1> HIDE DEF shown
<1> PICK w : w = Fetched(v, x)
  OBVIOUS
<1>4. w = [loading |-> FALSE, submitting |-> submitting, error |-> error,
           message |-> v.message, warnings |-> warnings, shown |-> shown]
  BY <1>1 DEF IsView
<1>5. IsView(w)
  BY <1>2, <1>4 DEF IsView
<1> QED
  BY <1>1, <1>3, <1>4, <1>5

LEMMA PartsAnswerKeepsPages ==
    ASSUME Groundwork, RoutesOK, PagesInv, NEW x \in Calls, HearsParts(x)
    PROVE  PagesInv'
<1> PICK b : b = origin[x].tab
  OBVIOUS
<1>1. /\ Hears(x) /\ page' = page
      /\ pc[x] = "read" /\ pc' = [pc EXCEPT ![x] = "ended"]
      /\ Settled(x) = PartsOf(request[x].op)
      /\ Shows(x, Fetched(ViewOf(x), x))
  BY DEF HearsParts, Ends, Goto
<1>2. HeardIn(x, b)
  BY <1>1, HearsWhere
<1>3. CallsInv'
  BY <1>1, <1>2, MovesKeepCalls DEF HeardIn
<1>4. CASE ~Mounted(x)
  <2>1. view' = view
    BY <1>1, <1>4 DEF Shows
  <2> QED
    BY <1>1, <1>3, <2>1, UnmountedKeepsPages
<1>5. CASE Mounted(x)
  <2>1. b \in Tabs /\ TabInv(b) /\ IsView(view[b]) /\ At(x, b) /\ CallInv(x)
    BY <1>2, <1>5 DEF HeardIn, PagesInv, ViewsOK, CallsInv, At, Mounted
  <2> PICK v : v = Fetched(view[b], x)
    OBVIOUS
  <2>2. view' = [view EXCEPT ![b] = v]
    BY <1>1, <1>5 DEF Shows, ViewOf
  <2>3. /\ IsView(v) /\ v.message = view[b].message /\ ~v.loading
        /\ \A p \in Parts :
               v.shown[p] = IF p \in Fulfilled(x) THEN part[x][p] ELSE view[b].shown[p]
        /\ Asks(x, "results") => v.warnings = Refused(x)
        /\ ~v.error => Refused(x) # PartsOf(request[x].op)
    BY <2>1, FetchedView
  <2>4. Current(x, b) /\ request[x].op \in PageOps /\ page[b].route.name = RouteOf(request[x].op)
    BY <1>1, <2>1 DEF CallInv, TabInv, Current
  <2>5. ASSUME page[b].route.name \in {"results", "spectate"}
        PROVE  request[x].op \in OfDebate /\ request[x] # None
    BY <1>1, <2>1, <2>4, <2>5 DEF CallInv, RouteOf, OfDebate, PageOps
  <2>6. ASSUME Continues(b), view'[b] = v, "page" \notin disturbed
        PROVE  ShowsResults(b)' /\ CountsVote(b)'
    <3>1. Working(x, b)
      BY <2>1, <2>4, <2>6 DEF TabInv
    <3>2. ASSUME page[b].route.name = "results", NEW p \in PartsOf("results")
          PROVE  IF v.shown[p] = None THEN p \in v.warnings
                 ELSE v.shown[p].of = page[b].route.id /\ p \notin v.warnings
      <4>1. request[x].op = "results" /\ v.warnings = Refused(x)
        BY <2>3, <2>4, <2>5, <3>2 DEF RouteOf, PageOps, Asks
      <4>2. p \in Parts /\ view[b].shown[p] = None /\ request[x].id = page[b].route.id
        BY <3>1, <3>2, WebParts DEF Working
      <4>3. CASE p \in Refused(x)
        <5>1. p \notin Fulfilled(x)
          BY <4>3 DEF Fulfilled
        <5> QED
          BY <2>3, <4>1, <4>2, <4>3, <5>1
      <4>4. CASE p \notin Refused(x)
        <5>1. p \in Fulfilled(x) /\ part[x][p] \notin {Waiting, Rejected}
          BY <1>1, <3>2, <4>1, <4>4 DEF Fulfilled, Settled, Refused
        <5>2. part[x][p].of = request[x].id /\ part[x][p] # None
          BY <2>1, <3>2, <5>1 DEF CallInv, AboutIts
        <5> QED
          BY <2>3, <4>1, <4>2, <4>4, <5>1, <5>2
      <4> QED
        BY <4>3, <4>4
    <3>3. ASSUME page[b].route.name = "spectate", v.message.of = page[b].route.id, ~v.error
          PROVE  LET s == v.shown["summary"] IN
                 s # None /\ s.of = v.message.of /\ v.message.user \in s.voters
      <4>1. PartsOf(request[x].op) = {"summary"} /\ "summary" \in PartsOf("results")
        BY <2>4, <3>3, WebParts DEF RouteOf, PageOps
      <4>2. "summary" \in Fulfilled(x) /\ part[x]["summary"] \notin {Waiting, Rejected}
        BY <1>1, <2>3, <3>3, <4>1 DEF Fulfilled, Settled, Refused
      <4>3. /\ part[x]["summary"].at = "ok" /\ part[x]["summary"].of = request[x].id
            /\ part[x]["summary"] # None
        BY <2>1, <4>1, <4>2 DEF CallInv, AboutIts
      <4>4. /\ request[x].id = page[b].route.id
            /\ v.message.user \in part[x]["summary"].voters
        BY <2>3, <3>1, <3>3, <4>3 DEF Working, Seen
      <4>5. v.shown["summary"] = part[x]["summary"]
        BY <2>3, <4>1, <4>2, WebParts
      <4> QED
        BY <3>3, <4>3, <4>4, <4>5
    <3>4. page'[b] = page[b]
      BY <1>1
    <3>5. ShowsResults(b)'
      BY <2>6, <3>2, <3>4 DEF ShowsResults
    <3>6. CountsVote(b)'
      BY <2>6, <3>3, <3>4 DEF CountsVote
    <3> QED
      BY <3>5, <3>6
  <2>7. ASSUME Continues(b), view'[b] = v PROVE TabInv(b)'
    <3>1. ASSUME NEW t \in Calls, Current(t, b)' PROVE Current(t, b) /\ t # x
      <4>1. pc'[x] = "ended"
        BY <1>1 DEF Groundwork, AccountsInv, Domains
      <4> QED
        BY <2>7, <3>1, <4>1 DEF Current, Continues
    <3>2. disturbed' = disturbed
      BY <1>2 DEF HeardIn
    <3>3. "page" \notin disturbed => \A t \in Calls : ~Current(t, b)'
      BY <2>1, <2>4, <3>1 DEF TabInv
    <3>4. \A t \in Calls : At(t, b)' => page'[b].route.name = RouteOf(request'[t].op)
      BY <1>1, <2>1, <2>7 DEF TabInv, Continues
    <3>5. (view[b].message.of # None => Cast(view[b].message.of, view[b].message.user))'
      BY <2>1, <2>3, <2>7 DEF TabInv, Cast, Continues
    <3> QED
      BY <2>6, <2>7, <3>2, <3>3, <3>4, <3>5 DEF TabInv
  <2> QED
    BY <1>1, <1>2, <1>3, <2>2, <2>3, <2>7, AnswerKeepsPages
<1> QED
  BY <1>4, <1>5

LEMMA StepKeepsPages ==
    /\ Groundwork /\ BrowserTypes /\ RoutesOK /\ RoutesOK' /\ PagesInv
    /\ [Next]_vars
    => PagesInv'
<1> SUFFICES ASSUME Groundwork, BrowserTypes, RoutesOK, RoutesOK', PagesInv, [Next]_vars
             PROVE  PagesInv'
  OBVIOUS
<1>1. ASSUME NEW b \in Tabs, Uses(b) PROVE PagesInv'
  BY <1>1, UsesTurns, BeginsKeepsPages, BeginsNoneKeepsPages
<1>2. ASSUME NEW t \in Calls, Answering(t) PROVE PagesInv'
  BY <1>2, ServesKeepsPages, BallotKeepsPages, PartKeepsPages DEF Answering, AccountStep
<1>3. ASSUME NEW t \in Calls, Hearing(t) PROVE PagesInv'
  BY <1>3, CookieKeepsPages, LoginKeepsPages, FormAnswerKeepsPages, VoteAnswerKeepsPages,
     PartsAnswerKeepsPages DEF Hearing
<1>4. CASE Fault
  BY <1>4, ServesKeepsPages, BallotKeepsPages, PartKeepsPages DEF Fault
<1>5. CASE CookieExpires \/ Quiescent \/ UNCHANGED vars
  <2>1. UNCHANGED <<page, view, origin, disturbed, ballots, part, request, pc>>
    BY <1>5 DEF CookieExpires, Quiescent, vars, accountVars, webVars, tabVars
  <2>2. CallsInv'
    BY <2>1 DEF PagesInv, CallsInv, CallInv, AboutIts, Cast
  <2> QED
    BY <2>1, <2>2, PagesStay
<1> QED
  BY <1>1, <1>2, <1>3, <1>4, <1>5, ClientKeepsPages DEF Next

LEMMA PagesHold == Safety => []PagesInv
<1>1. Init => PagesInv
  BY InitPages
<1> QED
  BY <1>1, StepKeepsPages, GroundworkHolds, BrowserHolds, RoutesHold, PTL DEF Safety

\* A page of results that rests shows only parts about the debate of its route
\* and warns of the parts it lacks, for any number of debates that people open
\* in the same component, unless two of its loads have overlapped.
THEOREM ResultsAreTheirDebates == Safety => []ResultsShowTheirDebate
<1>1. PagesInv => ResultsShowTheirDebate
  BY DEF PagesInv, TabInv, ShowsResults, ResultsShowTheirDebate
<1> QED
  BY <1>1, PagesHold, PTL

\* A vote panel at rest that thanks for a vote shows a summary with that vote,
\* however many ballots others cast meanwhile, unless its fetches overlapped.
THEOREM PanelsCountVotes == Safety => []PanelCountsOwnVote
<1>1. PagesInv => PanelCountsOwnVote
  BY DEF PagesInv, TabInv, CountsVote, PanelCountsOwnVote
<1> QED
  BY <1>1, PagesHold, PTL

====
