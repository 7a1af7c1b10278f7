---- MODULE Ranking ----
(***************************************************************************)
(* What a debate is worth: the ranking service awards experience and Elo,  *)
(* keeps a history of performances and caches a leaderboard; the profile   *)
(* service keeps the statistics it changes.                                *)
(*                                                                         *)
(* A call is a gRPC request.  The two computations at the close of a       *)
(* debate work on both players at once: each call has a leg per side,      *)
(* and goes on when both have ended well, or fails when one has failed,    *)
(* while the other goes on.  An action is one query.  Final scores come    *)
(* from the scoring service, which may store another one at any time.      *)
(***************************************************************************)
EXTENDS ScoreMath, FiniteSetsExt, Functions

CONSTANTS
    Users, Debates,
    Verdicts,        \* the final scores a debate may get: [Debates -> SUBSET FinalScores]
    FirstStats,      \* the rows of player_stats to begin with, or None
    Calls, Plans,    \* the gRPC requests, a set of [Calls -> Work]: each is sent at
                     \* most once, but a leaderboard is asked for any number of times
    Limits,          \* of leaderboards asked for
    None,
    MaxFaults        \* bound on rejected awaits and handlers that die

VARIABLES
    request,      \* the plan that the clients follow
    final,        \* rows of debate_final_scores, or None
    stats,        \* rows of player_stats, or None
    performance,  \* rows of ranking_performances, or None
    cache,        \* ranking:leaderboard:<limit>, or None
    pc,           \* where each call is
    finalScore,   \* `finalScore` in the two computations
    leg,          \* what each call is doing for each side
    answer,       \* the listing a leaderboard request has obtained
    faults

tables == <<stats, performance>>
locals == <<pc, finalScore, leg, answer>>
vars == <<request, final, tables, cache, locals, faults>>

StatsRows == [xp : Nat, elo : Nat, wins : Nat, losses : Nat, draws : Nat, debatesCount : Nat]
CountsMatch(row) == row.debatesCount = row.wins + row.losses + row.draws
Stats == {row \in StatsRows : CountsMatch(row)}
NewStats == [xp |-> 0, elo |-> 1000, wins |-> 0, losses |-> 0, draws |-> 0, debatesCount |-> 0]

Performances ==
    [side : Sides, result : Results, finalScore : Percent, xp : Nat, elo : Int]

CloseWork == [op : {"xp", "elo"}, debate : Debates, player : [Sides -> Users]]
UpsertWork == [op : {"upsert"}, user : Users, row : StatsRows]
RecordWork == [op : {"record"}, user : Users, debate : Debates, row : Performances]
TopWork == [op : {"top"}, limit : Limits]
NoWork == [op |-> "none"]  \* nobody sends this one
Work == CloseWork \cup UpsertWork \cup RecordWork \cup TopWork \cup {NoWork}

ASSUME ConstantsAssumption ==
    /\ Verdicts \in [Debates -> SUBSET FinalScores]
    /\ None \notin StatsRows \cup Performances \cup FinalScores
    /\ \A u \in Users : FirstStats[u] = None \/ FirstStats[u] \in Stats
    /\ FirstStats \in [Users -> {None} \cup {FirstStats[u] : u \in Users}]
    /\ \A plan \in Plans : DOMAIN plan = Calls /\ \A t \in Calls :
           /\ plan[t] \in Work
           /\ plan[t] \in CloseWork => plan[t].player["FOR"] # plan[t].player["AGAINST"]
    /\ Limits \subseteq Nat \ {0}
    /\ MaxFaults \in Nat

\* There are finitely many of everything that is summed up.
ASSUME FiniteAssumption == IsFiniteSet(Users) /\ IsFiniteSet(Debates) /\ IsFiniteSet(Calls)

NoOrder == [xp |-> 0, elo |-> 0, result |-> "DRAW"]
NoLeg == [at |-> "off", rating |-> 0, order |-> NoOrder]

Init ==
    /\ request \in Plans
    /\ final = [d \in Debates |-> None]
    /\ stats = FirstStats
    /\ performance = [u \in Users |-> [d \in Debates |-> None]]
    /\ cache = [n \in Limits |-> None]
    /\ pc = [t \in Calls |-> "unsent"]
    /\ finalScore = [t \in Calls |-> None]
    /\ leg = [t \in Calls |-> [s \in Sides |-> NoLeg]]
    /\ answer = [t \in Calls |-> None]
    /\ faults = 0

Asks(t, op) == request[t].op = op
Closes(t) == request[t].op \in {"xp", "elo"}
Player(t, s) == request[t].player[s]
Goto(t, label) == pc' = [pc EXCEPT ![t] = label]

\* Every leg of the call starts on its next query.
BothLegs(t, L(_)) == leg' = [leg EXCEPT ![t] = [s \in Sides |-> L(s)]]
LegGoes(t, s, label) == leg' = [leg EXCEPT ![t][s].at = label]
BothAt(t, label) == \A s \in Sides : leg[t][s].at = label

-----------------------------------------------------------------------------
(* computeXpForDebateClose and computeEloForDebateClose                    *)

\* upsertFinalDebateScore: see Finalization.
ScoreStored(d) ==
    /\ \E v \in Verdicts[d] : final' = [final EXCEPT ![d] = v]
    /\ UNCHANGED <<request, tables, cache, locals, faults>>

\* A request to applyPlayerStatsDelta
XpOrder(score, s) ==
    LET result == ResultForSide(score.winner, s) IN
    [xp |-> XpDelta(result, IF s = "FOR" THEN score.for ELSE score.against),
     elo |-> 0, result |-> result]

Apply(order) == [at |-> "find", rating |-> 0, order |-> order]

ReadsFinalScore(t) ==
    LET score == final[request[t].debate] IN
    /\ Closes(t) /\ pc[t] = "unsent"
    /\ finalScore' = [finalScore EXCEPT ![t] = score]
    /\ IF score = None
       THEN Goto(t, "failed") /\ UNCHANGED leg
       ELSE IF Asks(t, "xp")
            THEN /\ Goto(t, "apply")
                 /\ BothLegs(t, LAMBDA s : Apply(XpOrder(score, s)))
            ELSE /\ Goto(t, "ratings")
                 /\ BothLegs(t, LAMBDA s : [NoLeg EXCEPT !.at = "rating"])
    /\ UNCHANGED <<request, final, tables, cache, answer, faults>>

ReadsRating(t, s) ==
    LET row == stats[Player(t, s)] IN
    /\ leg[t][s].at = "rating"
    /\ IF row = None
       THEN LegGoes(t, s, "missed")
       ELSE leg' = [leg EXCEPT ![t][s].at = "rated", ![t][s].rating = row.elo]
    /\ UNCHANGED <<request, final, tables, cache, pc, finalScore, answer, faults>>

\* Mutant: the loser gives up what the winner is given.
SameElo(forDelta) == forDelta

AgainstElo(forDelta) == -forDelta

EloOrder(t, s) ==
    LET result(side) == ResultForSide(finalScore[t].winner, side)
        forDelta == EloDelta(leg[t]["FOR"].rating, leg[t]["AGAINST"].rating, result("FOR"))
    IN [xp |-> 0, elo |-> IF s = "FOR" THEN forDelta ELSE AgainstElo(forDelta),
        result |-> result(s)]

ComputesElo(t) ==
    /\ pc[t] = "ratings" /\ BothAt(t, "rated")
    /\ Goto(t, "apply")
    /\ BothLegs(t, LAMBDA s : Apply(EloOrder(t, s)))
    /\ UNCHANGED <<request, final, tables, cache, finalScore, answer, faults>>

\* Mutant: the history is written when one of the players has been dealt with.
EitherApplied(t) == \E s \in Sides : leg[t][s].at = "applied"

Applied(t) == BothAt(t, "applied")

StartsRecording(t) ==
    /\ pc[t] = "apply" /\ Applied(t)
    /\ Goto(t, "record")
    /\ BothLegs(t, LAMBDA s : [leg[t][s] EXCEPT !.at = "record"])
    /\ UNCHANGED <<request, final, tables, cache, finalScore, answer, faults>>

PerformanceOf(t, s) ==
    LET score == finalScore[t] IN
    [side |-> s, result |-> leg[t][s].order.result,
     finalScore |-> IF s = "FOR" THEN score.for ELSE score.against,
     xp |-> leg[t][s].order.xp, elo |-> 0]

\* Mutant: the rows of an earlier computation are overwritten.
AlwaysInserts(row) == TRUE

\* ranking_performances_user_debate_unique
MayInsert(row) == row = None

\* recordPerformance
RecordsPerformance(t, s) ==
    LET u == Player(t, s)  d == request[t].debate IN
    /\ leg[t][s].at = "record" /\ Asks(t, "xp")
    /\ IF MayInsert(performance[u][d])
       THEN /\ performance' = [performance EXCEPT ![u][d] = PerformanceOf(t, s)]
            /\ LegGoes(t, s, "recorded")
       ELSE LegGoes(t, s, "missed") /\ UNCHANGED performance
    /\ UNCHANGED <<request, final, stats, cache, pc, finalScore, answer, faults>>

\* The RPC of the same name records what it is told.
RecordsAsTold(t) ==
    LET u == request[t].user  d == request[t].debate IN
    /\ Asks(t, "record") /\ pc[t] = "unsent"
    /\ IF MayInsert(performance[u][d])
       THEN /\ performance' = [performance EXCEPT ![u][d] = request[t].row]
            /\ Goto(t, "done")
       ELSE Goto(t, "failed") /\ UNCHANGED performance
    /\ UNCHANGED <<request, final, stats, cache, finalScore, leg, answer, faults>>

\* updatePerformanceEloOrThrow
RecordsElo(t, s) ==
    LET u == Player(t, s)  d == request[t].debate IN
    /\ leg[t][s].at = "record" /\ Asks(t, "elo")
    /\ IF performance[u][d] = None
       THEN LegGoes(t, s, "missed") /\ UNCHANGED performance
       ELSE /\ performance' = [performance EXCEPT ![u][d].elo = leg[t][s].order.elo]
            /\ LegGoes(t, s, "recorded")
    /\ UNCHANGED <<request, final, stats, cache, pc, finalScore, answer, faults>>

CloseAnswers(t) ==
    /\ pc[t] = "record" /\ BothAt(t, "recorded")
    /\ Goto(t, "done")
    /\ UNCHANGED <<request, final, tables, cache, finalScore, leg, answer, faults>>

\* Promise.all rejects with its first rejection; the other leg goes on.
CloseFails(t) ==
    /\ pc[t] \in {"ratings", "apply", "record"}
    /\ \E s \in Sides : leg[t][s].at \in {"missed", "refused"}
    /\ Goto(t, "failed")
    /\ UNCHANGED <<request, final, tables, cache, finalScore, leg, answer, faults>>

-----------------------------------------------------------------------------
(* applyPlayerStatsDelta, in the profile service                           *)

EloOf(row) == IF row = None THEN 1000 ELSE row.elo

FindsStats(t, s) ==
    /\ leg[t][s].at = "find"
    /\ LegGoes(t, s, IF EloOf(stats[Player(t, s)]) + leg[t][s].order.elo < 0
                     THEN "refused" ELSE "insert")
    /\ UNCHANGED <<request, final, tables, cache, pc, finalScore, answer, faults>>

InsertsStats(t, s) ==
    LET u == Player(t, s) IN
    /\ leg[t][s].at = "insert"
    /\ stats' = IF stats[u] = None THEN [stats EXCEPT ![u] = NewStats] ELSE stats
    /\ LegGoes(t, s, "update")
    /\ UNCHANGED <<request, final, performance, cache, pc, finalScore, answer, faults>>

One(condition) == IF condition THEN 1 ELSE 0

Increased(row, order) ==
    [xp |-> row.xp + order.xp,
     elo |-> row.elo + order.elo,
     wins |-> row.wins + One(order.result = "WIN"),
     losses |-> row.losses + One(order.result = "LOSS"),
     draws |-> row.draws + One(order.result = "DRAW"),
     debatesCount |-> row.debatesCount + 1]

\* Mutant: the check made before the update is all that keeps Elo above zero.
Unchecked(row) == TRUE

\* player_stats_elo_check
EloAllowed(row) == row.elo >= 0

UpdatesStats(t, s) ==
    LET u == Player(t, s)
        row == Increased(stats[u], leg[t][s].order)
    IN
    /\ leg[t][s].at = "update"
    /\ IF EloAllowed(row)
       THEN stats' = [stats EXCEPT ![u] = row] /\ LegGoes(t, s, "applied")
       ELSE LegGoes(t, s, "refused") /\ UNCHANGED stats
    /\ UNCHANGED <<request, final, performance, cache, pc, finalScore, answer, faults>>

\* upsertPlayerStats writes the row it is given.
UpsertsStats(t) ==
    /\ Asks(t, "upsert") /\ pc[t] = "unsent"
    /\ IF CountsMatch(request[t].row)
       THEN /\ stats' = [stats EXCEPT ![request[t].user] = request[t].row]
            /\ Goto(t, "done")
       ELSE Goto(t, "failed") /\ UNCHANGED stats
    /\ UNCHANGED <<request, final, performance, cache, finalScore, leg, answer, faults>>

-----------------------------------------------------------------------------
(* getLeaderboard                                                          *)

Ranked == {u \in Users : stats[u] # None}

\* elo descending, xp descending; the order of user_id is left open.
Above(u, v) ==
    \/ stats[u].elo > stats[v].elo
    \/ stats[u].elo = stats[v].elo /\ stats[u].xp > stats[v].xp

\* toStatsResponse adds what it derives from the row.
Listed(row) ==
    [stats |-> row, rankTier |-> RankTier(row.elo),
     winrate |-> Winrate(row.wins, row.debatesCount)]

\* The listings of at most n rows that the query may return.
Listings(n) ==
    {[u \in top |-> Listed(stats[u])] : top \in
        {x \in SUBSET Ranked :
            /\ Cardinality(x) = IF Cardinality(Ranked) < n THEN Cardinality(Ranked) ELSE n
            /\ \A u \in x, v \in Ranked \ x : ~Above(v, u)}}

TopReadsCache(t) ==
    LET cached == cache[request[t].limit] IN
    /\ Asks(t, "top") /\ pc[t] = "unsent"
    /\ answer' = [answer EXCEPT ![t] = cached]
    /\ Goto(t, IF cached = None THEN "list" ELSE "done")
    /\ UNCHANGED <<request, final, tables, cache, finalScore, leg, faults>>

TopLists(t) ==
    /\ pc[t] = "list"
    /\ \E listing \in Listings(request[t].limit) : answer' = [answer EXCEPT ![t] = listing]
    /\ Goto(t, "store")
    /\ UNCHANGED <<request, final, tables, cache, finalScore, leg, faults>>

TopStores(t) ==
    /\ pc[t] = "store"
    /\ cache' = [cache EXCEPT ![request[t].limit] = answer[t]]
    /\ Goto(t, "done")
    /\ UNCHANGED <<request, final, tables, finalScore, leg, answer, faults>>

\* The same request, sent anew.
AsksAgain(t) ==
    /\ Asks(t, "top") /\ pc[t] \in {"done", "failed"}
    /\ Goto(t, "unsent")
    /\ answer' = [answer EXCEPT ![t] = None]
    /\ UNCHANGED <<request, final, tables, cache, finalScore, leg, faults>>

\* Mutant: entries are stored without EX.
NeverExpires(entry) == FALSE

MayExpire(entry) == entry # None

\* Thirty seconds after it was stored, in Redis.
Expires(n) ==
    /\ MayExpire(cache[n])
    /\ cache' = [cache EXCEPT ![n] = None]
    /\ UNCHANGED <<request, final, tables, locals, faults>>

-----------------------------------------------------------------------------
(* Faults, bounded by MaxFaults                                            *)

\* A query rejects.
LegRejects(t, s) ==
    /\ faults < MaxFaults
    /\ \/ leg[t][s].at \in {"find", "insert", "update"} /\ LegGoes(t, s, "refused")
       \/ leg[t][s].at \in {"rating", "record"} /\ LegGoes(t, s, "missed")
    /\ faults' = faults + 1
    /\ UNCHANGED <<request, final, tables, cache, pc, finalScore, answer>>

\* The reply is lost or the ranking service restarts: what it has asked of
\* others goes on.
CallDies(t) ==
    /\ faults < MaxFaults
    /\ pc[t] \in {"ratings", "apply", "record", "list", "store"}
    /\ Goto(t, "failed")
    /\ faults' = faults + 1
    /\ UNCHANGED <<request, final, tables, cache, finalScore, leg, answer>>

\* Redis refuses: the read counts as a miss, the write is given up.
RedisRefuses(t) ==
    /\ faults < MaxFaults /\ Asks(t, "top")
    /\ \/ pc[t] = "unsent" /\ Goto(t, "list")
       \/ pc[t] = "store" /\ Goto(t, "done")
    /\ faults' = faults + 1
    /\ UNCHANGED <<request, final, tables, cache, finalScore, leg, answer>>

-----------------------------------------------------------------------------

Leg(t, s) ==
    \/ ReadsRating(t, s)
    \/ FindsStats(t, s)
    \/ InsertsStats(t, s)
    \/ UpdatesStats(t, s)
    \/ RecordsPerformance(t, s)
    \/ RecordsElo(t, s)

Call(t) ==
    \/ ReadsFinalScore(t)
    \/ ComputesElo(t)
    \/ StartsRecording(t)
    \/ CloseAnswers(t)
    \/ CloseFails(t)
    \/ UpsertsStats(t)
    \/ RecordsAsTold(t)
    \/ TopReadsCache(t)
    \/ TopLists(t)
    \/ TopStores(t)

Fault ==
    \/ \E t \in Calls, s \in Sides : LegRejects(t, s)
    \/ \E t \in Calls : CallDies(t) \/ RedisRefuses(t)

Next ==
    \/ \E t \in Calls, s \in Sides : Leg(t, s)
    \/ \E t \in Calls : Call(t)
    \/ \E d \in Debates : ScoreStored(d)
    \/ \E t \in Calls : AsksAgain(t)
    \/ \E n \in Limits : Expires(n)
    \/ Fault

\* Each process is scheduled; nobody has to send a request.
Fairness ==
    /\ \A t \in Calls, s \in Sides : WF_vars(Leg(t, s))
    /\ \A t \in Calls : WF_vars(pc[t] # "unsent" /\ Call(t))
    /\ \A n \in Limits : WF_vars(Expires(n))

Safety == Init /\ [][Next]_vars
Spec == Safety /\ Fairness

-----------------------------------------------------------------------------
(* Properties                                                              *)

Labels == {"unsent", "ratings", "apply", "record", "list", "store", "done", "failed"}
LegLabels ==
    {"off", "rating", "rated", "find", "insert", "update", "applied", "record",
     "recorded", "missed", "refused"}
Orders == [xp : Nat, elo : Int, result : Results]

\* Tables, calls and legs keep their types; in particular no row of player_stats
\* has a negative Elo or counts that do not add up, whatever the deltas that
\* reach the profile service at the same time.
TypeOK ==
    /\ \A d \in Debates : final[d] = None \/ final[d] \in Verdicts[d]
    /\ \A u \in Users : stats[u] = None \/ stats[u] \in Stats
    /\ \A u \in Users, d \in Debates :
           performance[u][d] = None \/ performance[u][d] \in Performances
    /\ pc \in [Calls -> Labels]
    /\ \A t \in Calls : finalScore[t] = None \/ finalScore[t] \in FinalScores
    /\ leg \in [Calls -> [Sides -> [at : LegLabels, rating : Nat, order : Orders]]]
    /\ faults \in 0..MaxFaults

\* Unless somebody has overwritten a row, Elo only moves between players: what
\* they have together, what is still to be applied and what was refused add up
\* to what they had, however many closings of shared players overlap and fail.
\* (The deltas of computeEloForDebateClose cancel, the updates are relative.)
NothingUpserted == \A t \in Calls : Asks(t, "upsert") => pc[t] = "unsent"
Outstanding(t, s) ==
    IF leg[t][s].at \in {"find", "insert", "update", "refused"} THEN leg[t][s].order.elo ELSE 0
TotalElo(rows) == SumFunction([u \in Users |-> EloOf(rows[u])])
TotalOutstanding == SumFunction([x \in Calls \X Sides |-> Outstanding(x[1], x[2])])
EloAccounted ==
    NothingUpserted => TotalElo(stats) + TotalOutstanding = TotalElo(FirstStats)

\* Unless somebody has recorded a performance by hand, the history never claims
\* experience that the statistics lack: a performance is recorded after both
\* deltas were applied, also when a computation was retried or failed half way.
NothingRecorded == \A t \in Calls : Asks(t, "record") => pc[t] = "unsent"
XpOf(row) == IF row = None THEN 0 ELSE row.xp
RecordedXp(u) == SumFunction([d \in Debates |-> XpOf(performance[u][d])])
HistoryBacked ==
    NothingUpserted /\ NothingRecorded =>
        \A u \in Users : XpOf(FirstStats[u]) + RecordedXp(u) <= XpOf(stats[u])

\* Of all the computations of a debate's experience for some player at most one
\* succeeds, and then the history says what it computed, for both players.
SucceedsWith(t) ==
    \A s \in Sides :
        LET row == performance[Player(t, s)][request[t].debate] IN
        row # None /\ [row EXCEPT !.elo = 0] = PerformanceOf(t, s)
OneAward ==
    \A t \in Calls : Asks(t, "xp") /\ pc[t] = "done" =>
        /\ SucceedsWith(t)
        /\ \A x \in Calls \ {t}, s, z \in Sides :
               /\ Asks(x, "xp") /\ request[x].debate = request[t].debate
               /\ Player(x, z) = Player(t, s)
               => pc[x] # "done"

\* A reader who asks for a leaderboard again and again is answered right in the
\* end: once the statistics rest, neither a hit nor a query gives a listing that
\* they do not explain, also when a slow reader stores an old listing over a
\* newer one after the last change.
LeaderboardCatchesUp ==
    \A t \in Calls :
        []<><<AsksAgain(t)>>_vars =>
            <>[](Asks(t, "top") /\ pc[t] = "done" => answer[t] \in Listings(request[t].limit))

====
