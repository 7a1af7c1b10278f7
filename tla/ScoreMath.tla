---- MODULE ScoreMath ----
(***************************************************************************)
(* The arithmetic of scores, experience and Elo: what the scoring, ranking *)
(* and profile services compute, as operators on integers.                 *)
(*                                                                         *)
(* Math.round rounds halves upwards.  Where it is applied to a quotient of *)
(* integers the model rounds the exact quotient.                           *)
(***************************************************************************)
EXTENDS Integers, FiniteSets

Sides == {"FOR", "AGAINST"}
Results == {"WIN", "LOSS", "DRAW"}
Percent == 0..100

\* Math.round(n / m)
Rounded(n, m) == (2 * n + m) \div (2 * m)

Percentage(part, total) == IF total = 0 THEN 0 ELSE Rounded(100 * part, total)

WeightedScore(ai, audience) == Rounded(ai + audience, 2)

WinnerSide(forScore, againstScore) ==
    IF forScore > againstScore THEN "FOR"
    ELSE IF againstScore > forScore THEN "AGAINST" ELSE "DRAW"

\* The row that computeFinalDebateScore stores, for the scores of the analysis
\* and the votes of each side.
FinalScore(aiFor, aiAgainst, forVotes, againstVotes) ==
    LET total == forVotes + againstVotes
        for == WeightedScore(aiFor, Percentage(forVotes, total))
        against == WeightedScore(aiAgainst, Percentage(againstVotes, total))
    IN [for |-> for, against |-> against, winner |-> WinnerSide(for, against)]

FinalScores ==
    [for : Percent, against : Percent, winner : Sides \cup {"DRAW"}]

ResultForSide(winner, side) ==
    IF winner = "DRAW" THEN "DRAW" ELSE IF winner = side THEN "WIN" ELSE "LOSS"

ResultBonus(result) ==
    CASE result = "WIN" -> 20 [] result = "DRAW" -> 10 [] OTHER -> 0

XpDelta(result, score) == 10 + ResultBonus(result) + Rounded(score, 10)

\* 32 times scoreForResult
ScoreForResult(result) ==
    CASE result = "WIN" -> 32 [] result = "DRAW" -> 16 [] OTHER -> 0

\* The expected score depends on the difference of the two ratings alone, and
\* 32 times that score, rounded, is the number of these thresholds it reaches.
\* No difference gives a half exactly, so the delta is what is left of 32.
EloThresholds ==
    {-719, -523, -428, -364, -314, -273, -237, -205,
     -176, -149, -124, -100, -77, -54, -32, -10,
     11, 33, 55, 78, 101, 125, 150, 177,
     206, 238, 274, 315, 365, 429, 524, 720}

ExpectedScore(elo, opponentElo) ==
    Cardinality({t \in EloThresholds : elo - opponentElo >= t})

EloDelta(elo, opponentElo, result) ==
    ScoreForResult(result) - ExpectedScore(elo, opponentElo)

Winrate(wins, debatesCount) == Percentage(wins, debatesCount)

RankTier(elo) ==
    CASE elo >= 2000 -> "MASTER"
      [] elo >= 1800 -> "DIAMOND"
      [] elo >= 1600 -> "PLATINUM"
      [] elo >= 1400 -> "GOLD"
      [] elo >= 1200 -> "SILVER"
      [] OTHER -> "BRONZE"

====
