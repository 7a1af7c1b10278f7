---- MODULE MCWebApp ----
(***************************************************************************)
(* Small instances of WebApp: two tabs that sign up and log in, or one tab *)
(* that goes from page to page.                                            *)
(***************************************************************************)
EXTENDS WebApp

MCCalls == 1..4
MCTyped == {"Ann@x", "ann@x ", "cy@x", "dan@x"}
MCNormalized == [e \in MCTyped |-> IF e \in {"Ann@x", "ann@x "} THEN "ann@x" ELSE e]
MCLocalPart ==
    [e \in {"ann@x", "cy@x", "dan@x"} |->
        CASE e = "ann@x" -> "ann" [] e = "cy@x" -> "cy" [] OTHER -> "dan"]
MCKnown ==
    [u \in {11, 12} |-> [email |-> IF u = 11 THEN "cy@x" ELSE "dan@x", password |-> "p"]]
MCPublished ==
    [p \in {"final", "analysis", "summary", "stats", "random", "board"} |->
        CASE p = "random" -> {"first"} [] p = "analysis" -> {"first"} [] p = "stats" -> {11}
          [] OTHER -> {"first", "second"}]

Open(name, id) == [do |-> "open", route |-> [name |-> name, id |-> id]]
Submit(op, email, password) ==
    [do |-> "submit", work |-> [op |-> op, email |-> email, password |-> password]]
Do(what) == [do |-> what]

Plan(most, calls, one, two, clients, expiry) ==
    [clicks |-> most, calls |-> 1..calls, clients |-> clients, expiry |-> expiry,
     tab |-> [b \in {"one", "two"} |-> IF b = "one" THEN one ELSE two]]
SignsUp(email, password) == {Open("signup", None), Submit("signup", email, password)}
LogsInAs(email, password) == {Open("login", None), Submit("login", email, password)}

MCPlans ==
    { \* Two signups with one email race; one of them may log in with its password.
      Plan(6, 3, SignsUp("Ann@x", "p"),
           SignsUp("ann@x ", "q") \cup LogsInAs("Ann@x", "p"), {}, FALSE),
      \* A user writes a profile while the signup still provisions one.
      Plan(4, 4, SignsUp("Ann@x", "p"), LogsInAs("Ann@x", "p"),
           {[op |-> "create", owner |-> 1, name |-> "dan", avatar |-> "photo"],
            [op |-> "update", owner |-> 1, name |-> None, avatar |-> ""],
            [op |-> "delete", owner |-> 1]}, FALSE),
      \* One browser, two accounts.
      Plan(8, 4, LogsInAs("cy@x", "p") \cup {Do("logout")},
           LogsInAs("dan@x", "p") \cup {Do("reload")}, {}, FALSE),
      \* Pages
      Plan(3, 3, {Open("results", "first"), Open("results", "second"), Do("reload")}, {}, {},
           FALSE),
      Plan(4, 4, {Open("vote", None), Do("find"), Open("leaderboard", None),
                  Open("profile", None), Open("profile", 11), [do |-> "load", user |-> 12]},
           {}, {}, FALSE),
      Plan(6, 4, LogsInAs("cy@x", "p") \cup
              {Open("spectate", "first"), Do("vote"), Do("refresh")}, {}, {}, TRUE) }

====
