---- MODULE MCFinalization ----
(***************************************************************************)
(* Small instances of Finalization: one debate, and a list of requests for *)
(* each question, any subset of which is sent, in any order.               *)
(***************************************************************************)
EXTENDS Finalization, TLC

CONSTANTS good, bad, r1, r2

MCDebates == {"debate"}
MCUsers == {"ann", "bob"}
MCRuns == {r1, r2}
RunSymmetry == Permutations(MCRuns)

Upsert(s) == [op |-> "upsert", debate |-> "debate", status |-> s]
Analyse(a) == [op |-> "analysis", debate |-> "debate", result |-> a]
VoteBy(u, s) == [op |-> "vote", debate |-> "debate", user |-> u, side |-> s]

\* The vote is opened by two requests at once, and once more after a step back;
\* one spectator votes twice.
BallotRequests ==
    <<Upsert("RUNNING"), Upsert("VOTING"), Upsert("VOTING"), Upsert("CLOSED"),
      VoteBy("ann", "FOR"), VoteBy("ann", "AGAINST")>>
BallotCalls == DOMAIN BallotRequests

\* Votes and analyses come in while the finalization jobs run.
ScoreRequests ==
    <<Upsert("VOTING"), VoteBy("ann", "FOR"), VoteBy("bob", "AGAINST"),
      Analyse(good), Analyse(bad)>>
ScoreCalls == DOMAIN ScoreRequests

====
