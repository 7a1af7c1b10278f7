---- MODULE Accounts ----
(***************************************************************************)
(* Accounts: signup and login in the auth service, behind the gateway, and *)
(* the profiles that the profile service keeps for them.                   *)
(*                                                                         *)
(* A signup looks for the email, stores the user and then asks the profile *)
(* service for a profile; nothing holds the three steps together.  An      *)
(* action is one query.  The id of a new user is the call that stored it.  *)
(***************************************************************************)
EXTENDS Naturals, FiniteSets

CONSTANTS
    Calls,         \* requests, each sent at most once
    Typed,         \* emails as people type them
    Normalized,    \* what trim and toLowerCase make of them: [Typed -> Emails]
    LocalPart,     \* the display name derived from an email
    Passwords,
    Avatars,
    Known,         \* rows of users to begin with, by their ids
    None,
    MaxFaults      \* bound on rejected awaits

VARIABLES
    request,   \* what each call asks for, or None
    users,     \* rows of users, or None
    profiles,  \* rows of profiles, or None
    pc,        \* where each call is
    answer,    \* what the gateway answers to it
    faults

stores == <<users, profiles>>
accountVars == <<request, stores, pc, answer, faults>>

Users == Calls \cup DOMAIN Known
Emails == {Normalized[e] : e \in Typed}
UserRows == [email : Emails, password : Passwords]
Names == {LocalPart[e] : e \in Emails}

\* A field that is None is left out of its request; "" clears an avatar.
Credentials == [op : {"signup", "login"}, email : Typed, password : Passwords]
ProfileWork ==
    [op : {"create"}, owner : Users, name : Names, avatar : Avatars \cup {None}]
        \cup [op : {"update"}, owner : Users, name : Names \cup {None},
              avatar : Avatars \cup {"", None}]
        \cup [op : {"delete"}, owner : Users]
AccountWork == Credentials \cup ProfileWork

ASSUME AccountsAssumption ==
    /\ Normalized \in [Typed -> Emails]
    /\ LocalPart \in [Emails -> Names]
    /\ None \notin Avatars /\ "" \notin Avatars /\ None \notin UserRows
    /\ Calls \cap DOMAIN Known = {}
    /\ \A u \in DOMAIN Known : Known[u] \in UserRows
    /\ \A u, v \in DOMAIN Known : Known[u].email = Known[v].email => u = v
    /\ MaxFaults \in Nat

NoAnswer == [status |-> 0, user |-> None]
Status(n) == [NoAnswer EXCEPT !.status = n]
AnswerOf(n, u) == [status |-> n, user |-> u]

AccountsInit ==
    /\ request = [t \in Calls |-> None]
    /\ users = [u \in Users |-> IF u \in Calls THEN None ELSE Known[u]]
    /\ profiles = [u \in Users |-> None]
    /\ pc = [t \in Calls |-> "unsent"]
    /\ answer = [t \in Calls |-> NoAnswer]
    /\ faults = 0

Email(t) == Normalized[request[t].email]
Having(e) == {u \in Users : users[u] # None /\ users[u].email = e}
Answers(t, n, u) ==
    /\ pc' = [pc EXCEPT ![t] = "answered"]
    /\ answer' = [answer EXCEPT ![t] = AnswerOf(n, u)]
Goto(t, label) ==
    /\ pc' = [pc EXCEPT ![t] = label]
    /\ UNCHANGED answer
Asks(t, op) == request[t] # None /\ request[t].op = op

\* A request reaches the gateway, which passes it on.
Sends(t, work, label) ==
    /\ pc[t] = "unsent"
    /\ request' = [request EXCEPT ![t] = work]
    /\ Goto(t, label)

-----------------------------------------------------------------------------
(* AuthService.signup                                                      *)

\* findByEmail, then bcrypt.hash
FindsEmail(t) ==
    /\ pc[t] = "find"
    /\ IF Having(Email(t)) # {} THEN Answers(t, 409, None) ELSE Goto(t, "insert")
    /\ UNCHANGED <<request, stores, faults>>

\* Mutant: the table lacks its constraint on emails.
NoConstraint(t) == TRUE
\* users_email_unique
EmailFree(t) == Having(Email(t)) = {}

\* Mutant: the profile is left to somebody else.
Forgotten == "reply"
AfterInsert == "provision"

UserOf(t) == [email |-> Email(t), password |-> request[t].password]

\* The insert either stores the user or meets one that came in between.
InsertsUser(t) ==
    /\ pc[t] = "insert"
    /\ \/ /\ EmailFree(t)
          /\ users' = [users EXCEPT ![t] = UserOf(t)]
          /\ Goto(t, AfterInsert)
       \/ /\ ~EmailFree(t)
          /\ Answers(t, 409, None)
          /\ UNCHANGED users
    /\ UNCHANGED <<request, profiles, faults>>

\* Mutant: the profile service stores what it is sent over what it has.
Upserted(u) == TRUE
\* profiles_pkey
ProfileFree(u) == profiles[u] = None

NewProfile(name, avatar) == [name |-> name, avatar |-> avatar]

\* provisionProfile: a profile that is there already is an error like any
\* other, which is logged.
ProvisionsProfile(t) ==
    /\ pc[t] = "provision"
    /\ profiles' =
           IF ProfileFree(t)
           THEN [profiles EXCEPT ![t] = NewProfile(LocalPart[users[t].email], None)]
           ELSE profiles
    /\ Goto(t, "reply")
    /\ UNCHANGED <<request, users, faults>>

\* The profile service does not answer: the signup goes on without a profile.
ProvisioningFails(t) ==
    /\ pc[t] = "provision"
    /\ faults < MaxFaults
    /\ faults' = faults + 1
    /\ Goto(t, "reply")
    /\ UNCHANGED <<request, stores>>

SignupAnswers(t) ==
    /\ pc[t] = "reply"
    /\ Answers(t, 201, t)
    /\ UNCHANGED <<request, stores, faults>>

-----------------------------------------------------------------------------
(* AuthService.login                                                       *)

\* Mutant: any password will do.
AnyPassword(u, password) == TRUE
\* bcrypt.compare
PasswordFits(u, password) == users[u].password = password

\* findByEmail and compare; nothing changes a row in between.
LogsIn(t) ==
    /\ pc[t] = "login"
    /\ LET fitting == {u \in Having(Email(t)) : PasswordFits(u, request[t].password)} IN
       IF fitting = {} THEN Answers(t, 401, None)
       ELSE \E u \in fitting : Answers(t, 200, u)
    /\ UNCHANGED <<request, stores, faults>>

-----------------------------------------------------------------------------
(* ProfileService, called by the owner                                     *)

CreatesProfile(t) ==
    /\ pc[t] = "profile"
    /\ Asks(t, "create")
    /\ LET u == request[t].owner IN
       \/ /\ ProfileFree(u)
          /\ profiles' =
                 [profiles EXCEPT ![u] = NewProfile(request[t].name, request[t].avatar)]
          /\ Answers(t, 201, u)
       \/ /\ ~ProfileFree(u)
          /\ Answers(t, 409, None)
          /\ UNCHANGED profiles
    /\ UNCHANGED <<request, users, faults>>

\* Mutant: an avatar is stored as it is sent.
Literal(profile, patch) ==
    [name |-> IF patch.name = None THEN profile.name ELSE patch.name,
     avatar |-> IF patch.avatar = None THEN profile.avatar ELSE patch.avatar]
\* undefined leaves a column, an empty avatar clears it
Patched(profile, patch) ==
    [name |-> IF patch.name = None THEN profile.name ELSE patch.name,
     avatar |-> CASE patch.avatar = None -> profile.avatar
                  [] patch.avatar = "" -> None
                  [] OTHER -> patch.avatar]

UpdatesProfile(t) ==
    /\ pc[t] = "profile"
    /\ Asks(t, "update")
    /\ LET u == request[t].owner IN
       IF profiles[u] = None THEN
           /\ Answers(t, 404, None)
           /\ UNCHANGED profiles
       ELSE
           /\ profiles' = [profiles EXCEPT ![u] = Patched(profiles[u], request[t])]
           /\ Answers(t, 200, u)
    /\ UNCHANGED <<request, users, faults>>

DeletesProfile(t) ==
    /\ pc[t] = "profile"
    /\ Asks(t, "delete")
    /\ LET u == request[t].owner IN
       /\ profiles' = [profiles EXCEPT ![u] = None]
       /\ IF profiles[u] = None THEN Answers(t, 404, None) ELSE Answers(t, 200, u)
    /\ UNCHANGED <<request, users, faults>>

-----------------------------------------------------------------------------

\* A query rejects, or its answer is lost with the service that waits for it:
\* the gateway answers 500 whatever has been stored.
CallFails(t) ==
    /\ pc[t] \in {"find", "insert", "provision", "reply", "login", "profile"}
    /\ faults < MaxFaults
    /\ faults' = faults + 1
    /\ Answers(t, 500, None)
    /\ UNCHANGED <<request, stores>>

Serves(t) ==
    \/ FindsEmail(t)
    \/ InsertsUser(t)
    \/ ProvisionsProfile(t)
    \/ SignupAnswers(t)
    \/ LogsIn(t)
    \/ CreatesProfile(t)
    \/ UpdatesProfile(t)
    \/ DeletesProfile(t)

AccountFault(t) == ProvisioningFails(t) \/ CallFails(t)

-----------------------------------------------------------------------------
(* Properties                                                              *)

\* Two signups with one email, however it is typed and however they overlap,
\* never leave two accounts, although each looked for the email and found none.
OneAccountPerEmail ==
    \A u, v \in Users :
        users[u] # None /\ users[v] # None /\ users[u].email = users[v].email => u = v

\* What the gateway answers is so: a signup that was accepted has its account,
\* with its own password and not that of the signup it raced with; one that
\* was refused met another account; a login answers with an account that the
\* email and the password fit.
AnswersAreTrue ==
    \A t \in Calls :
        LET u == answer[t].user IN
        /\ answer[t].status = 201 /\ Asks(t, "signup") => users[t] = UserOf(t)
        /\ answer[t].status = 409 /\ Asks(t, "signup") => Having(Email(t)) \ {t} # {}
        /\ answer[t].status = 200 /\ Asks(t, "login") =>
               users[u] # None /\ users[u].email = Email(t)
                   /\ users[u].password = request[t].password

\* A profile that is there changes only by a call of its owner: a signup that
\* still provisions its profile never overwrites the one that its user, who
\* may log in as soon as the row is stored, has created in the meantime.
OwnerCalls(u) ==
    \E t \in Calls : pc[t] = "profile" /\ pc'[t] = "answered" /\ request[t].owner = u
ProvisioningNeverOverwrites ==
    [][\A u \in Users : profiles[u] # None /\ profiles'[u] # profiles[u] => OwnerCalls(u)]_stores

\* In the end every account has its profile, unless an await was rejected or
\* the user has asked for its deletion.
Deletion(u) == \E t \in Calls : Asks(t, "delete") /\ request[t].owner = u
AccountsGetProfiles ==
    <>[](\A u \in Calls :
            users[u] # None => profiles[u] # None \/ faults > 0 \/ Deletion(u))

====
