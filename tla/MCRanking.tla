---- MODULE MCRanking ----
(***************************************************************************)
(* Small instances of Ranking: two debates that share a player whose Elo   *)
(* is almost used up.                                                      *)
(***************************************************************************)
EXTENDS Ranking

MCUsers == {"ann", "bob", "cy", "dan"}
MCDebates == {"first", "second"}

\* The first debate may be scored again: the second verdict turns the first.
Verdict == FinalScore(80, 61, 2, 1)
Reversed == FinalScore(40, 61, 1, 2)
MCVerdicts ==
    [d \in MCDebates |->
        IF d = "first" THEN {Verdict, Reversed} ELSE {FinalScore(75, 30, 1, 0)}]

\* dan has no statistics yet.
Row(xp, elo) == [NewStats EXCEPT !.xp = xp, !.elo = elo]
MCStats ==
    [u \in Users |->
        CASE u = "ann" -> Row(40, 30) [] u = "bob" -> Row(15, 22) [] u = "cy" -> Row(0, 15)
          [] OTHER -> None]

Players(u, v) == [s \in Sides |-> IF s = "FOR" THEN u ELSE v]
Xp(d, u, v) == [op |-> "xp", debate |-> d, player |-> Players(u, v)]
Elo(d, u, v) == [op |-> "elo", debate |-> d, player |-> Players(u, v)]
Top(n) == [op |-> "top", limit |-> n]
Upsert(u, row) == [op |-> "upsert", user |-> u, row |-> row]

Record(u, d) ==
    [op |-> "record", user |-> u, debate |-> d,
     row |-> [side |-> "FOR", result |-> "WIN", finalScore |-> 90, xp |-> 39, elo |-> 0]]

MCCalls == 1..3
MCPlans ==
    { \* The experience of one debate is computed twice, or with its Elo.
      <<Xp("first", "dan", "bob"), Xp("first", "dan", "bob"), NoWork>>,
      <<Xp("first", "dan", "bob"), Elo("first", "dan", "bob"), Record("dan", "first")>>,
      \* The same player may lose two debates, a row is overwritten.
      <<Elo("first", "ann", "bob"), Elo("second", "cy", "bob"), Upsert("bob", Row(5, 25))>>,
      \* Two readers, one of them slow, ask for the leader while it changes.
      <<Elo("first", "ann", "bob"), Top(1), Top(1)>> }

====
