---- MODULE RankingProofs ----
(***************************************************************************)
(* Proofs about Ranking, for all players, debates, requests and final      *)
(* scores: its types, who is answered that an award was made, and that the *)
(* sums of Elo and of experience agree across the tables.                  *)
(***************************************************************************)
EXTENDS Ranking, DataInduction

Legs == [at : LegLabels, rating : Nat, order : Orders]

-----------------------------------------------------------------------------
(* Arithmetic                                                              *)

LEMMA ExpectedIsNat == \A a, b \in Int : ExpectedScore(a, b) \in Nat
<1>1. EloThresholds \subseteq (-719)..720
  BY DEF EloThresholds
<1>2. IsFiniteSet(EloThresholds)
  <2>1. \A a, b \in Int : IsFiniteSet(a..b)
    BY FS_Interval
  <2>2. PICK a \in Int : a = -719
    OBVIOUS
  <2>3. PICK b \in Int : b = 720
    OBVIOUS
  <2>4. EloThresholds \subseteq a..b
    BY <1>1, <2>2, <2>3
  <2> QED
    BY <2>1, <2>4, FS_Subset
<1>3. ASSUME NEW a \in Int, NEW b \in Int PROVE ExpectedScore(a, b) \in Nat
  <2>1. {t \in EloThresholds : a - b >= t} \subseteq EloThresholds
    OBVIOUS
  <2> QED
    BY <1>2, <2>1, FS_Subset, FS_CardinalityType DEF ExpectedScore
<1> QED
  BY <1>3

LEMMA DeltaIsInt == \A a, b \in Int, r \in Results : EloDelta(a, b, r) \in Int
BY ExpectedIsNat DEF EloDelta, ScoreForResult, Results

LEMMA XpIsNat == \A r \in Results, p \in Percent : XpDelta(r, p) \in Nat
BY DEF XpDelta, ResultBonus, Rounded, Results, Percent

LEMMA ResultKnown == \A w, s : ResultForSide(w, s) \in Results
BY DEF ResultForSide, Results

LEMMA XpOrderType ==
    ASSUME NEW score \in FinalScores, NEW s \in Sides
    PROVE  XpOrder(score, s) \in Orders
<1>1. score.for \in Percent /\ score.against \in Percent
  BY DEF FinalScores
<1> QED
  BY <1>1, ResultKnown, XpIsNat DEF XpOrder, Orders

\* What a delta makes of a row adds up, if the update is let through.
LEMMA IncreasedType ==
    ASSUME NEW row \in Stats, NEW order \in Orders, EloAllowed(Increased(row, order))
    PROVE  Increased(row, order) \in Stats
<1>1. order.result \in {"WIN", "LOSS", "DRAW"} /\ order.xp \in Nat /\ order.elo \in Int
  BY DEF Orders, Results
<1>2. row \in StatsRows /\ CountsMatch(row)
  BY DEF Stats
<1>3. Increased(row, order) \in StatsRows
  BY <1>1, <1>2 DEF Increased, EloAllowed, StatsRows, One
<1>4. CountsMatch(Increased(row, order))
  BY <1>1, <1>2 DEF Increased, CountsMatch, StatsRows, One
<1> QED
  BY <1>3, <1>4 DEF Stats


LEMMA EloOrderType ==
    ASSUME NEW t \in Calls, NEW s \in Sides, leg \in [Calls -> [Sides -> Legs]]
    PROVE  EloOrder(t, s) \in Orders
<1>1. /\ leg[t]["FOR"].rating \in Int /\ leg[t]["AGAINST"].rating \in Int
  BY DEF Legs, Sides
<1>2. EloDelta(leg[t]["FOR"].rating, leg[t]["AGAINST"].rating,
               ResultForSide(finalScore[t].winner, "FOR")) \in Int
  BY <1>1, DeltaIsInt, ResultKnown
<1> QED
  BY <1>2, ResultKnown DEF EloOrder, AgainstElo, Orders

-----------------------------------------------------------------------------
(* Types, and how far the legs of a call are when the call is somewhere.   *)

RowsOK ==
    /\ request \in Plans
    /\ final \in [Debates -> FinalScores \cup {None}]
    /\ \A d \in Debates : final[d] = None \/ final[d] \in Verdicts[d]
    /\ stats \in [Users -> Stats \cup {None}]
    /\ performance \in [Users -> [Debates -> Performances \cup {None}]]
    /\ faults \in 0..MaxFaults

CallsOK ==
    /\ pc \in [Calls -> Labels]
    /\ finalScore \in [Calls -> FinalScores \cup {None}]
    /\ leg \in [Calls -> [Sides -> Legs]]

BothIn(t, labels) == \A s \in Sides : leg[t][s].at \in labels

\* A call that has failed may have legs that go on.
StagesOK ==
    \A t \in Calls :
        /\ pc[t] = "unsent" => BothAt(t, "off")
        /\ pc[t] = "ratings" => BothIn(t, {"rating", "rated", "missed"})
        /\ pc[t] = "apply" => BothIn(t, {"find", "insert", "update", "applied", "refused"})
        /\ pc[t] = "record" => BothIn(t, {"record", "recorded", "missed"})
        /\ pc[t] = "done" /\ Closes(t) => BothAt(t, "recorded")
        /\ pc[t] \in {"ratings", "apply", "record"} => Closes(t)
        /\ pc[t] \in {"list", "store"} => ~Closes(t)

\* A leg that has begun has its final score, and its row once it was inserted.
LegsOK ==
    \A t \in Calls, s \in Sides :
        /\ leg[t][s].at # "off" => Closes(t) /\ finalScore[t] \in FinalScores
        /\ leg[t][s].at = "update" => stats[Player(t, s)] # None

TypeInv == RowsOK /\ CallsOK /\ StagesOK /\ LegsOK

LEMMA RequestKnown ==
    ASSUME request \in Plans, NEW t \in Calls
    PROVE  /\ request[t] \in Work
           /\ Closes(t) => request[t] \in CloseWork /\ request[t].debate \in Debates
           /\ Closes(t) => \A s \in Sides : Player(t, s) \in Users
           /\ Closes(t) => Player(t, "FOR") # Player(t, "AGAINST")
BY ConstantsAssumption
DEF Closes, Work, CloseWork, UpsertWork, RecordWork, TopWork, NoWork, Player

LEMMA InitType == ASSUME Init PROVE TypeInv
<1>1. NoLeg \in Legs
  BY DEF NoLeg, NoOrder, Legs, LegLabels, Orders, Results
<1>2. RowsOK
  BY ConstantsAssumption DEF Init, RowsOK
<1>3. CallsOK
  BY <1>1 DEF Init, CallsOK, Labels
<1>4. \A t \in Calls : pc[t] = "unsent" /\ \A s \in Sides : leg[t][s].at = "off"
  BY DEF Init, NoLeg
<1>5. StagesOK
  BY <1>4 DEF StagesOK, BothAt
<1>6. LegsOK
  BY <1>4 DEF LegsOK
<1> QED
  BY <1>2, <1>3, <1>5, <1>6 DEF TypeInv

-----------------------------------------------------------------------------
(* Steps                                                                   *)

Phases ==
    {{"rating", "rated", "missed"}, {"find", "insert", "update", "applied", "refused"},
     {"record", "recorded", "missed"}}

StatsStay == \A u \in Users : stats[u] # None => stats'[u] # None

\* One leg goes on, in the phase of its call.
LEMMA LegStep ==
    ASSUME TypeInv, RowsOK', request' = request, pc' = pc, finalScore' = finalScore,
           StatsStay, NEW t \in Calls, NEW s \in Sides, NEW new \in Legs,
           leg' = [leg EXCEPT ![t][s] = new],
           leg[t][s].at \notin {"off", "recorded"},
           \A P \in Phases : leg[t][s].at \in P => new.at \in P,
           new.at = "update" => stats'[Player(t, s)] # None
    PROVE  TypeInv'
<1>1. /\ leg' \in [Calls -> [Sides -> Legs]] /\ leg'[t][s] = new
      /\ \A x \in Calls, z \in Sides : x # t \/ z # s => leg'[x][z] = leg[x][z]
  BY DEF TypeInv, CallsOK
<1>2. CallsOK'
  BY <1>1 DEF TypeInv, CallsOK
<1>3. StagesOK'
  <2>1. ASSUME NEW P \in Phases, NEW x \in Calls, BothIn(x, P) PROVE (BothIn(x, P))'
    BY <1>1, <2>1 DEF BothIn
  <2>2. \A x \in Calls, l \in {"off", "recorded"} : BothAt(x, l) => (BothAt(x, l))'
    BY <1>1 DEF BothAt
  <2> QED
    BY <2>1, <2>2 DEF TypeInv, StagesOK, Phases, Closes
<1>4. LegsOK'
  <2>1. Closes(t) /\ finalScore[t] \in FinalScores
    BY DEF TypeInv, LegsOK
  <2>2. \A x \in Calls, z \in Sides : leg[x][z].at = "update" => stats'[Player(x, z)] # None
    BY RequestKnown DEF TypeInv, RowsOK, LegsOK, StatsStay
  <2>3. \A x \in Calls, z \in Sides : Player(x, z)' = Player(x, z) /\ Closes(x)' = Closes(x)
    BY DEF Player, Closes
  <2>4. ASSUME NEW x \in Calls, NEW z \in Sides
        PROVE  /\ leg'[x][z].at # "off" => Closes(x) /\ finalScore[x] \in FinalScores
               /\ leg'[x][z].at = "update" => stats'[Player(x, z)] # None
    BY <1>1, <2>1, <2>2 DEF TypeInv, LegsOK
  <2> QED
    BY <2>3, <2>4 DEF LegsOK
<1> QED
  BY <1>2, <1>3, <1>4 DEF TypeInv

\* A call goes on, its legs stay where they are.
LEMMA CallStep ==
    ASSUME TypeInv, RowsOK', request' = request, leg' = leg, finalScore' = finalScore,
           StatsStay, NEW t \in Calls, NEW label \in {"unsent", "list", "store", "done", "failed"},
           Goto(t, label), label # "failed" /\ Closes(t) => label = "done" /\ BothAt(t, "recorded")
    PROVE  TypeInv'
<1>1. /\ pc' \in [Calls -> Labels] /\ pc'[t] = label
      /\ \A x \in Calls : x # t => pc'[x] = pc[x]
  BY DEF Goto, TypeInv, CallsOK, Labels
<1>2. CallsOK'
  BY <1>1 DEF TypeInv, CallsOK
<1>3. StagesOK'
  <2>1. ~Closes(t) => BothAt(t, "off")
    BY DEF TypeInv, LegsOK, BothAt
  <2> QED
    BY <1>1, <2>1 DEF TypeInv, StagesOK, BothAt, BothIn, Closes
<1>4. LegsOK'
  BY RequestKnown DEF TypeInv, RowsOK, LegsOK, StatsStay, Closes, Player
<1> QED
  BY <1>2, <1>3, <1>4 DEF TypeInv

\* A call goes on to another phase, and so do both its legs.
LEMMA PhaseStep ==
    ASSUME TypeInv, RowsOK', request' = request, stats' = stats, NEW t \in Calls, Closes(t),
           NEW label \in {"ratings", "apply", "record"}, Goto(t, label),
           NEW new \in [Sides -> Legs], leg' = [leg EXCEPT ![t] = new],
           finalScore' \in [Calls -> FinalScores \cup {None}], finalScore'[t] \in FinalScores,
           \A x \in Calls : x # t => finalScore'[x] = finalScore[x],
           \A s \in Sides :
              new[s].at = CASE label = "ratings" -> "rating" [] label = "apply" -> "find"
                            [] label = "record" -> "record"
    PROVE  TypeInv'
<1>1. /\ pc' \in [Calls -> Labels] /\ pc'[t] = label
      /\ \A x \in Calls : x # t => pc'[x] = pc[x]
  BY DEF Goto, TypeInv, CallsOK, Labels
<1>2. /\ leg' \in [Calls -> [Sides -> Legs]] /\ leg'[t] = new
      /\ \A x \in Calls : x # t => leg'[x] = leg[x]
  BY DEF TypeInv, CallsOK
<1>3. CallsOK'
  BY <1>1, <1>2 DEF CallsOK
<1>4. StagesOK'
  <2>1. ASSUME NEW x \in Calls, x # t
        PROVE  /\ \A l : (BothAt(x, l))' <=> BothAt(x, l)
               /\ \A l : (BothIn(x, l))' <=> BothIn(x, l)
    BY <1>2, <2>1 DEF BothAt, BothIn
  <2>2. \A x \in Calls : Closes(x)' = Closes(x)
    BY DEF Closes
  <2>3. /\ label = "ratings" => (BothAt(t, "rating"))'
        /\ label = "apply" => (BothAt(t, "find"))'
        /\ label = "record" => (BothAt(t, "record"))'
    BY <1>2 DEF BothAt
  <2>4. \A x \in Calls : x # t =>
           /\ pc'[x] = "unsent" => (BothAt(x, "off"))'
           /\ pc'[x] = "ratings" => (BothIn(x, {"rating", "rated", "missed"}))'
           /\ pc'[x] = "apply" => (BothIn(x, {"find", "insert", "update", "applied", "refused"}))'
           /\ pc'[x] = "record" => (BothIn(x, {"record", "recorded", "missed"}))'
           /\ pc'[x] = "done" /\ Closes(x) => (BothAt(x, "recorded"))'
           /\ pc'[x] \in {"ratings", "apply", "record"} => Closes(x)
           /\ pc'[x] \in {"list", "store"} => ~Closes(x)
    BY <1>1, <2>1 DEF TypeInv, StagesOK
  <2> QED
    BY <1>1, <2>2, <2>3, <2>4 DEF StagesOK, BothAt, BothIn
<1>5. LegsOK'
  BY <1>2 DEF TypeInv, LegsOK, Closes, Player
<1> QED
  BY <1>3, <1>4, <1>5 DEF TypeInv

LEMMA NextRows == ASSUME TypeInv, [Next]_vars PROVE RowsOK' /\ StatsStay /\ request' = request
<1> USE DEF tables, locals
<1>1. ASSUME UNCHANGED <<request, final, stats, performance>>, faults' \in 0..MaxFaults
      PROVE  RowsOK' /\ StatsStay /\ request' = request
  BY <1>1 DEF TypeInv, RowsOK, StatsStay
<1>2. CASE UNCHANGED vars
  BY <1>1, <1>2 DEF vars, TypeInv, RowsOK
<1>3. ASSUME NEW d \in Debates, ScoreStored(d)
      PROVE  RowsOK' /\ StatsStay /\ request' = request
  BY <1>3, ConstantsAssumption DEF ScoreStored, TypeInv, RowsOK, StatsStay
<1>4. ASSUME NEW t \in Calls, NEW s \in Sides, Leg(t, s)
      PROVE  RowsOK' /\ StatsStay /\ request' = request
  <2>1. CASE ReadsRating(t, s) \/ FindsStats(t, s)
    BY <1>1, <2>1 DEF ReadsRating, FindsStats, TypeInv, RowsOK
  <2>2. CASE InsertsStats(t, s)
    <3>1. NewStats \in Stats
      BY DEF NewStats, Stats, StatsRows, CountsMatch
    <3> QED
      BY <2>2, <3>1, ConstantsAssumption DEF InsertsStats, TypeInv, RowsOK, StatsStay, Stats
  <2>3. CASE UpdatesStats(t, s)
    <3>1. /\ stats[Player(t, s)] \in Stats /\ leg[t][s].order \in Orders
          /\ Player(t, s) \in Users
      BY <2>3, RequestKnown
      DEF UpdatesStats, TypeInv, RowsOK, LegsOK, CallsOK, Legs
    <3> DEFINE row == Increased(stats[Player(t, s)], leg[t][s].order)
    <3>2. CASE EloAllowed(row)
      <4>1. row \in Stats /\ row # None
        BY <3>1, <3>2, IncreasedType, ConstantsAssumption DEF Stats
      <4> HIDE DEF row
      <4>2. stats' = [stats EXCEPT ![Player(t, s)] = row]
        BY <2>3, <3>2 DEF UpdatesStats, row
      <4> QED
        BY <2>3, <4>1, <4>2 DEF UpdatesStats, TypeInv, RowsOK, StatsStay
    <3>3. CASE ~EloAllowed(row)
      BY <1>1, <2>3, <3>3 DEF UpdatesStats, TypeInv, RowsOK
    <3> QED
      BY <3>2, <3>3
  <2>4. CASE RecordsPerformance(t, s)
    <3>1. /\ finalScore[t] \in FinalScores /\ leg[t][s].order \in Orders
          /\ Player(t, s) \in Users /\ request[t].debate \in Debates
      BY <2>4, RequestKnown
      DEF RecordsPerformance, TypeInv, RowsOK, LegsOK, CallsOK, Legs
    <3>2. PerformanceOf(t, s) \in Performances
      BY <3>1 DEF PerformanceOf, Performances, FinalScores, Orders
    <3> QED
      BY <1>1, <2>4, <3>1, <3>2 DEF RecordsPerformance, TypeInv, RowsOK, StatsStay
  <2>5. CASE RecordsElo(t, s)
    <3> DEFINE u == Player(t, s)
               d == request[t].debate
               elo == leg[t][s].order.elo
               up == [performance[u][d] EXCEPT !.elo = elo]
    <3>1. leg[t][s].order \in Orders /\ u \in Users /\ d \in Debates
      BY <2>5, RequestKnown
      DEF RecordsElo, TypeInv, RowsOK, LegsOK, CallsOK, Legs
    <3>2. elo \in Int
      BY <3>1 DEF Orders
    <3>3. /\ UNCHANGED <<request, final, stats, faults>>
          /\ \/ performance' = performance
             \/ performance[u][d] # None /\ performance' = [performance EXCEPT ![u][d].elo = elo]
      BY <2>5 DEF RecordsElo
    <3> HIDE DEF u, d, elo
    <3>4. performance[u][d] # None => up \in Performances
      <4>1. \A row \in Performances : [row EXCEPT !.elo = elo] \in Performances
        BY <3>2 DEF Performances
      <4> QED
        BY <3>1, <4>1 DEF TypeInv, RowsOK
    <3>5. \/ performance' = performance
          \/ up \in Performances /\ performance' = [performance EXCEPT ![u][d] = up]
      BY <3>3, <3>4
    <3> HIDE DEF up
    <3>6. performance' \in [Users -> [Debates -> Performances \cup {None}]]
      BY <3>5 DEF TypeInv, RowsOK
    <3> QED
      BY <3>3, <3>6 DEF TypeInv, RowsOK, StatsStay
  <2> QED
    BY <1>4, <2>1, <2>2, <2>3, <2>4, <2>5 DEF Leg
<1>5. ASSUME NEW t \in Calls, Call(t)
      PROVE  RowsOK' /\ StatsStay /\ request' = request
  <2>1. CASE UpsertsStats(t)
    <3>1. request[t].user \in Users /\ request[t].row \in StatsRows
      BY <2>1, RequestKnown
      DEF UpsertsStats, Asks, TypeInv, RowsOK, Work, CloseWork, UpsertWork, RecordWork, TopWork, NoWork
    <3> QED
      BY <1>1, <2>1, <3>1, ConstantsAssumption
      DEF UpsertsStats, TypeInv, RowsOK, StatsStay, Stats
  <2>2. CASE RecordsAsTold(t)
    <3>1. /\ request[t].user \in Users /\ request[t].debate \in Debates
          /\ request[t].row \in Performances
      BY <2>2, RequestKnown
      DEF RecordsAsTold, Asks, TypeInv, RowsOK, Work, CloseWork, UpsertWork, RecordWork, TopWork, NoWork
    <3> QED
      BY <1>1, <2>2, <3>1 DEF RecordsAsTold, TypeInv, RowsOK, StatsStay
  <2> QED
    BY <1>1, <1>5, <2>1, <2>2
    DEF Call, ReadsFinalScore, ComputesElo, StartsRecording, CloseAnswers, CloseFails,
        TopReadsCache, TopLists, TopStores, TypeInv, RowsOK
<1>6. ASSUME NEW n \in Limits, Expires(n)
      PROVE  RowsOK' /\ StatsStay /\ request' = request
  BY <1>1, <1>6 DEF Expires, TypeInv, RowsOK
<1>8. ASSUME NEW t \in Calls, AsksAgain(t)
      PROVE  RowsOK' /\ StatsStay /\ request' = request
  BY <1>1, <1>8 DEF AsksAgain, TypeInv, RowsOK
<1>7. CASE Fault
  <2>1. \A f \in 0..MaxFaults : f < MaxFaults => f + 1 \in 0..MaxFaults
    BY ConstantsAssumption
  <2> QED
    BY <1>1, <1>7, <2>1 DEF Fault, LegRejects, CallDies, RedisRefuses, TypeInv, RowsOK
<1> QED
  BY <1>2, <1>3, <1>4, <1>5, <1>6, <1>7, <1>8 DEF Next

\* The same for a leg that only changes its label.
LEMMA GoesOn ==
    ASSUME TypeInv, RowsOK', request' = request, pc' = pc, finalScore' = finalScore,
           StatsStay, NEW t \in Calls, NEW s \in Sides, NEW label \in LegLabels,
           LegGoes(t, s, label), leg[t][s].at \notin {"off", "recorded"},
           \A P \in Phases : leg[t][s].at \in P => label \in P,
           label = "update" => stats'[Player(t, s)] # None
    PROVE  TypeInv'
<1> DEFINE new == [leg[t][s] EXCEPT !.at = label]
<1>1. leg[t][s] \in Legs
  BY DEF TypeInv, CallsOK
<1>2. new \in Legs /\ new.at = label
  BY <1>1 DEF Legs
<1>3. leg' = [leg EXCEPT ![t][s] = new]
  BY DEF LegGoes, TypeInv, CallsOK
<1> HIDE DEF new
<1> QED
  BY <1>2, <1>3, LegStep

LEMMA NextType == ASSUME TypeInv, [Next]_vars PROVE TypeInv'
<1> USE DEF tables, locals
<1>0. RowsOK' /\ StatsStay /\ request' = request
  BY NextRows
<1>1. ASSUME UNCHANGED <<pc, finalScore, leg>> PROVE TypeInv'
  <2>1. StagesOK' /\ CallsOK'
    BY <1>0, <1>1 DEF TypeInv, StagesOK, CallsOK, BothAt, BothIn, Closes
  <2>2. LegsOK'
    BY <1>0, <1>1, RequestKnown DEF TypeInv, RowsOK, LegsOK, StatsStay, Closes, Player
  <2> QED
    BY <1>0, <2>1, <2>2 DEF TypeInv
<1>2. ASSUME NEW t \in Calls, NEW s \in Sides, Leg(t, s) PROVE TypeInv'
  <2>0. pc' = pc /\ finalScore' = finalScore
    BY <1>2 DEF Leg, ReadsRating, FindsStats, InsertsStats, UpdatesStats, RecordsPerformance,
                RecordsElo
  <2>a. leg[t][s].at # "off" => Player(t, s) \in Users
    BY RequestKnown DEF TypeInv, RowsOK, LegsOK
  <2>1. CASE ReadsRating(t, s)
    <3>0. leg[t][s].at = "rating" /\ Player(t, s) \in Users
      BY <2>a, <2>1 DEF ReadsRating
    <3>1. CASE stats[Player(t, s)] = None
      <4>1. LegGoes(t, s, "missed")
        BY <2>1, <3>1 DEF ReadsRating
      <4> QED
        BY <1>0, <2>0, <3>0, <4>1, GoesOn DEF Phases, LegLabels
    <3>2. CASE stats[Player(t, s)] # None
      <4> DEFINE elo == stats[Player(t, s)].elo
                 new == [leg[t][s] EXCEPT !.at = "rated", !.rating = elo]
      <4>1. elo \in Nat
        BY <3>0, <3>2 DEF TypeInv, RowsOK, Stats, StatsRows
      <4>2. leg' = [leg EXCEPT ![t][s].at = "rated", ![t][s].rating = elo]
        BY <2>1, <3>2 DEF ReadsRating
      <4> HIDE DEF elo
      <4>3. leg[t][s] \in Legs
        BY DEF TypeInv, CallsOK
      <4>4. new \in Legs /\ new.at = "rated"
        BY <4>1, <4>3 DEF Legs, LegLabels
      <4>5. leg' = [leg EXCEPT ![t][s] = new]
        BY <4>2 DEF TypeInv, CallsOK
      <4> HIDE DEF new
      <4> QED
        BY <1>0, <2>0, <3>0, <4>4, <4>5, LegStep DEF Phases
    <3> QED
      BY <3>1, <3>2
  <2>2. CASE FindsStats(t, s)
    <3>1. /\ leg[t][s].at = "find"
          /\ LegGoes(t, s, "refused") \/ LegGoes(t, s, "insert")
      BY <2>2 DEF FindsStats
    <3> QED
      BY <1>0, <2>0, <3>1, GoesOn DEF Phases, LegLabels
  <2>3. CASE InsertsStats(t, s)
    <3>1. leg[t][s].at = "insert" /\ Player(t, s) \in Users /\ LegGoes(t, s, "update")
      BY <2>a, <2>3 DEF InsertsStats
    <3>2. NewStats # None
      BY ConstantsAssumption DEF NewStats, StatsRows
    <3>3. stats'[Player(t, s)] # None
      BY <2>3, <3>1, <3>2 DEF InsertsStats, TypeInv, RowsOK
    <3> QED
      BY <1>0, <2>0, <3>1, <3>3, GoesOn DEF Phases, LegLabels
  <2>4. CASE UpdatesStats(t, s)
    <3>1. /\ leg[t][s].at = "update"
          /\ LegGoes(t, s, "refused") \/ LegGoes(t, s, "applied")
      BY <2>4 DEF UpdatesStats
    <3> QED
      BY <1>0, <2>0, <3>1, GoesOn DEF Phases, LegLabels
  <2>5. CASE RecordsPerformance(t, s) \/ RecordsElo(t, s)
    <3>1. /\ leg[t][s].at = "record"
          /\ LegGoes(t, s, "missed") \/ LegGoes(t, s, "recorded")
      BY <2>5 DEF RecordsPerformance, RecordsElo
    <3> QED
      BY <1>0, <2>0, <3>1, GoesOn DEF Phases, LegLabels
  <2> QED
    BY <1>2, <2>1, <2>2, <2>3, <2>4, <2>5 DEF Leg
<1>3. ASSUME NEW t \in Calls, Call(t) PROVE TypeInv'
  <2>1. CASE ReadsFinalScore(t)
    <3>1. Closes(t) /\ pc[t] = "unsent" /\ request[t].debate \in Debates
      BY <2>1, RequestKnown DEF ReadsFinalScore, TypeInv, RowsOK
    <3> DEFINE score == final[request[t].debate]
    <3>2. /\ finalScore' = [finalScore EXCEPT ![t] = score]
          /\ score \in FinalScores \cup {None}
      BY <2>1, <3>1 DEF ReadsFinalScore, TypeInv, RowsOK
    <3>3. /\ finalScore' \in [Calls -> FinalScores \cup {None}] /\ finalScore'[t] = score
          /\ \A x \in Calls : x # t => finalScore'[x] = finalScore[x]
      BY <3>2 DEF TypeInv, CallsOK
    <3>4. CASE score = None
      <4>1. Goto(t, "failed") /\ leg' = leg
        BY <2>1, <3>4 DEF ReadsFinalScore
      <4>2. /\ pc' \in [Calls -> Labels] /\ pc'[t] = "failed"
            /\ \A x \in Calls : x # t => pc'[x] = pc[x]
        BY <4>1 DEF Goto, TypeInv, CallsOK, Labels
      <4>3. CallsOK' /\ StagesOK'
        BY <1>0, <3>3, <4>1, <4>2 DEF TypeInv, CallsOK, StagesOK, BothAt, BothIn, Closes
      <4>4. \A s \in Sides : leg[t][s].at = "off"
        BY <3>1 DEF TypeInv, StagesOK, BothAt
      <4>5. LegsOK'
        BY <1>0, <3>3, <4>1, <4>4, RequestKnown
        DEF TypeInv, RowsOK, LegsOK, StatsStay, Closes, Player
      <4> QED
        BY <1>0, <4>3, <4>5 DEF TypeInv
    <3>5. CASE score # None /\ Asks(t, "xp")
      <4> DEFINE new == [s \in Sides |-> Apply(XpOrder(score, s))]
      <4>1. Goto(t, "apply") /\ leg' = [leg EXCEPT ![t] = new]
        BY <2>1, <3>5 DEF ReadsFinalScore, BothLegs
      <4>2. new \in [Sides -> Legs] /\ \A s \in Sides : new[s].at = "find"
        BY <3>2, <3>5, XpOrderType DEF Apply, Legs, LegLabels
      <4> HIDE DEF new
      <4>3. stats' = stats
        BY <2>1 DEF ReadsFinalScore
      <4> QED
        BY <1>0, <3>1, <3>2, <3>3, <3>5, <4>1, <4>2, <4>3, PhaseStep
    <3>6. CASE score # None /\ ~Asks(t, "xp")
      <4> DEFINE new == [s \in Sides |-> [NoLeg EXCEPT !.at = "rating"]]
      <4>1. Goto(t, "ratings") /\ leg' = [leg EXCEPT ![t] = new]
        BY <2>1, <3>6 DEF ReadsFinalScore, BothLegs
      <4>2. new \in [Sides -> Legs] /\ \A s \in Sides : new[s].at = "rating"
        BY DEF NoLeg, NoOrder, Legs, LegLabels, Orders, Results
      <4> HIDE DEF new
      <4>3. stats' = stats
        BY <2>1 DEF ReadsFinalScore
      <4> QED
        BY <1>0, <3>1, <3>2, <3>3, <3>6, <4>1, <4>2, <4>3, PhaseStep
    <3> QED
      BY <3>4, <3>5, <3>6
  <2>2. CASE ComputesElo(t)
    <3> DEFINE new == [s \in Sides |-> Apply(EloOrder(t, s))]
    <3>1. /\ Goto(t, "apply") /\ leg' = [leg EXCEPT ![t] = new]
          /\ stats' = stats /\ finalScore' = finalScore
          /\ leg[t]["FOR"].at = "rated" /\ "FOR" \in Sides
      BY <2>2 DEF ComputesElo, BothLegs, BothAt, Sides
    <3>2. new \in [Sides -> Legs] /\ \A s \in Sides : new[s].at = "find"
      BY EloOrderType DEF TypeInv, CallsOK, Apply, Legs, LegLabels
    <3>3. Closes(t) /\ finalScore[t] \in FinalScores
      BY <3>1 DEF TypeInv, LegsOK
    <3> HIDE DEF new
    <3> QED
      BY <1>0, <3>1, <3>2, <3>3, PhaseStep DEF TypeInv, CallsOK
  <2>3. CASE StartsRecording(t)
    <3> DEFINE new == [s \in Sides |-> [leg[t][s] EXCEPT !.at = "record"]]
    <3>1. /\ Goto(t, "record") /\ leg' = [leg EXCEPT ![t] = new]
          /\ stats' = stats /\ finalScore' = finalScore
          /\ leg[t]["FOR"].at = "applied" /\ "FOR" \in Sides
      BY <2>3 DEF StartsRecording, Applied, BothLegs, BothAt, Sides
    <3>2. new \in [Sides -> Legs] /\ \A s \in Sides : new[s].at = "record"
      <4>1. ASSUME NEW l \in Legs
            PROVE  [l EXCEPT !.at = "record"] \in Legs /\ [l EXCEPT !.at = "record"].at = "record"
        BY DEF Legs, LegLabels
      <4> QED
        BY <4>1 DEF TypeInv, CallsOK
    <3>3. Closes(t) /\ finalScore[t] \in FinalScores
      BY <3>1 DEF TypeInv, LegsOK
    <3> HIDE DEF new
    <3> QED
      BY <1>0, <3>1, <3>2, <3>3, PhaseStep DEF TypeInv, CallsOK
  <2>4. CASE CloseAnswers(t) \/ CloseFails(t)
    BY <1>0, <2>4, CallStep DEF CloseAnswers, CloseFails
  <2>5. CASE UpsertsStats(t) \/ RecordsAsTold(t)
    BY <1>0, <2>5, CallStep DEF UpsertsStats, RecordsAsTold, Asks, Closes
  <2>6. CASE TopReadsCache(t)
    BY <1>0, <2>6, CallStep DEF TopReadsCache, Asks, Closes
  <2>7. CASE TopLists(t) \/ TopStores(t)
    BY <1>0, <2>7, CallStep DEF TopLists, TopStores, TypeInv, StagesOK
  <2> QED
    BY <1>3, <2>1, <2>2, <2>3, <2>4, <2>5, <2>6, <2>7 DEF Call
<1>4. CASE Fault
  <2>1. ASSUME NEW t \in Calls, NEW s \in Sides, LegRejects(t, s) PROVE TypeInv'
    <3>1. \/ leg[t][s].at \in {"find", "insert", "update"} /\ LegGoes(t, s, "refused")
          \/ leg[t][s].at \in {"rating", "record"} /\ LegGoes(t, s, "missed")
      BY <2>1 DEF LegRejects
    <3>2. pc' = pc /\ finalScore' = finalScore
      BY <2>1 DEF LegRejects
    <3> QED
      BY <1>0, <3>1, <3>2, GoesOn DEF Phases, LegLabels
  <2>2. ASSUME NEW t \in Calls, CallDies(t) PROVE TypeInv'
    BY <1>0, <2>2, CallStep DEF CallDies
  <2>3. ASSUME NEW t \in Calls, RedisRefuses(t) PROVE TypeInv'
    BY <1>0, <2>3, CallStep DEF RedisRefuses, Asks, Closes
  <2> QED
    BY <1>4, <2>1, <2>2, <2>3 DEF Fault
<1>5. CASE UNCHANGED vars \/ (\E d \in Debates : ScoreStored(d)) \/ (\E n \in Limits : Expires(n))
  BY <1>1, <1>5 DEF vars, ScoreStored, Expires
<1>6. ASSUME NEW t \in Calls, AsksAgain(t) PROVE TypeInv'
  BY <1>0, <1>6, CallStep DEF AsksAgain, Asks, Closes
<1> QED
  BY <1>2, <1>3, <1>4, <1>5, <1>6 DEF Next

LEMMA TypeInvariant == Spec => []TypeInv
<1>1. Init => TypeInv
  BY InitType
<1>2. TypeInv /\ [Next]_vars => TypeInv'
  BY NextType
<1> QED
  BY <1>1, <1>2, PTL DEF Spec, Safety

\* Statistics never go below zero and their counts add up, whatever deltas and
\* rows reach the profile service in whatever order; every other row and call
\* keeps its type as well.
THEOREM TypeCorrect == Spec => []TypeOK
<1>1. TypeInv => TypeOK
  BY DEF TypeInv, RowsOK, CallsOK, Legs, TypeOK
<1> QED
  BY <1>1, TypeInvariant, PTL

-----------------------------------------------------------------------------
(* Who is told that an award was made                                      *)

Recorded(t, s) == Asks(t, "xp") /\ leg[t][s].at = "recorded"
Row(t, s) == performance[Player(t, s)][request[t].debate]
SameAward(t, s, x, z) ==
    request[x].debate = request[t].debate /\ Player(x, z) = Player(t, s)

\* A leg that has recorded its performance owns the row: the row says what it
\* computed, and no other call has recorded the same.
Owned ==
    \A t \in Calls, s \in Sides : Recorded(t, s) =>
        /\ Row(t, s) # None /\ [Row(t, s) EXCEPT !.elo = 0] = PerformanceOf(t, s)
        /\ \A x \in Calls \ {t}, z \in Sides : SameAward(t, s, x, z) => ~Recorded(x, z)

\* What a step may do to the legs that have recorded, and to the history.
LegsRest ==
    \A t \in Calls, s \in Sides : leg[t][s].at = "recorded" =>
        leg'[t][s] = leg[t][s] /\ finalScore'[t] = finalScore[t]
RowsRest ==
    \A u \in Users, d \in Debates : performance[u][d] # None =>
        /\ performance'[u][d] # None
        /\ [performance'[u][d] EXCEPT !.elo = 0] = [performance[u][d] EXCEPT !.elo = 0]
NobodyRecords ==
    \A t \in Calls, s \in Sides :
        Asks(t, "xp") /\ leg'[t][s].at = "recorded" => leg[t][s].at = "recorded"

LEMMA RestIsOwned ==
    ASSUME TypeInv, Owned, request' = request, LegsRest, RowsRest, NobodyRecords
    PROVE  Owned'
<1>1. \A t \in Calls, s \in Sides : Recorded(t, s)' => Recorded(t, s)
  BY DEF Recorded, Asks, NobodyRecords
<1>2. ASSUME NEW t \in Calls, NEW s \in Sides, Recorded(t, s)
      PROVE  Row(t, s)' # None /\ [Row(t, s)' EXCEPT !.elo = 0] = PerformanceOf(t, s)'
  <2>1. Player(t, s) \in Users /\ request[t].debate \in Debates
    BY <1>2, RequestKnown DEF Recorded, Asks, Closes, TypeInv, RowsOK
  <2>2. Row(t, s)' = performance'[Player(t, s)][request[t].debate]
    BY DEF Row, Player
  <2>3. PerformanceOf(t, s)' = PerformanceOf(t, s)
    BY <1>2 DEF Recorded, LegsRest, PerformanceOf
  <2>4. Row(t, s) # None /\ [Row(t, s) EXCEPT !.elo = 0] = PerformanceOf(t, s)
    BY <1>2 DEF Owned
  <2>5. /\ performance'[Player(t, s)][request[t].debate] # None
        /\ [performance'[Player(t, s)][request[t].debate] EXCEPT !.elo = 0] =
               [performance[Player(t, s)][request[t].debate] EXCEPT !.elo = 0]
    BY <2>1, <2>4 DEF RowsRest, Row
  <2> QED
    BY <2>2, <2>3, <2>4, <2>5 DEF Row
<1>3. \A t, x \in Calls, s, z \in Sides : SameAward(t, s, x, z)' = SameAward(t, s, x, z)
  BY DEF SameAward, Player
<1> QED
  BY <1>1, <1>2, <1>3 DEF Owned

\* One leg goes on without recording anything.
LEMMA LegRests ==
    ASSUME TypeInv, Owned, request' = request, performance' = performance,
           finalScore' = finalScore, NEW t \in Calls, NEW s \in Sides, NEW new,
           leg' = [leg EXCEPT ![t][s] = new],
           leg[t][s].at # "recorded", new.at # "recorded"
    PROVE  Owned'
<1>1. leg'[t][s] = new /\ \A x \in Calls, z \in Sides : x # t \/ z # s => leg'[x][z] = leg[x][z]
  BY DEF TypeInv, CallsOK
<1> QED
  BY <1>1, RestIsOwned DEF LegsRest, RowsRest, NobodyRecords

LEMMA LabelRests ==
    ASSUME TypeInv, Owned, request' = request, performance' = performance,
           finalScore' = finalScore, NEW t \in Calls, NEW s \in Sides, NEW label,
           LegGoes(t, s, label), leg[t][s].at # "recorded", label # "recorded"
    PROVE  Owned'
<1> DEFINE new == [leg[t][s] EXCEPT !.at = label]
<1>1. new.at = label
  <2>1. leg[t][s] \in Legs
    BY DEF TypeInv, CallsOK
  <2> QED
    BY <2>1 DEF Legs
<1>2. leg' = [leg EXCEPT ![t][s] = new]
  BY DEF LegGoes, TypeInv, CallsOK
<1> HIDE DEF new
<1> QED
  BY <1>1, <1>2, LegRests

\* Both legs of a call start on something else.
LEMMA LegsRestart ==
    ASSUME TypeInv, Owned, request' = request, performance' = performance, NEW t \in Calls,
           \A x \in Calls : x # t => finalScore'[x] = finalScore[x],
           NEW new, leg' = [leg EXCEPT ![t] = new],
           \A s \in Sides : leg[t][s].at # "recorded", \A s \in Sides : new[s].at # "recorded"
    PROVE  Owned'
<1>1. leg'[t] = new /\ \A x \in Calls : x # t => leg'[x] = leg[x]
  BY DEF TypeInv, CallsOK
<1> QED
  BY <1>1, RestIsOwned DEF LegsRest, RowsRest, NobodyRecords

LEMMA RecordsOwned ==
    ASSUME TypeInv, Owned, request' = request, NEW t \in Calls, NEW s \in Sides,
           RecordsPerformance(t, s)
    PROVE  Owned'
<1>0. /\ leg[t][s].at = "record" /\ Asks(t, "xp")
      /\ Player(t, s) \in Users /\ request[t].debate \in Debates
  BY RequestKnown DEF RecordsPerformance, Asks, Closes, TypeInv, RowsOK
<1>1. CASE ~MayInsert(Row(t, s))
  <2>1. LegGoes(t, s, "missed") /\ performance' = performance /\ finalScore' = finalScore
    BY <1>1 DEF RecordsPerformance, Row
  <2> QED
    BY <1>0, <2>1, LabelRests
<1>2. CASE MayInsert(Row(t, s))
  <2> DEFINE row == PerformanceOf(t, s)
  <2>1. /\ Row(t, s) = None /\ finalScore' = finalScore /\ LegGoes(t, s, "recorded")
        /\ performance' = [performance EXCEPT ![Player(t, s)][request[t].debate] = row]
    BY <1>2 DEF RecordsPerformance, Row, MayInsert
  <2>2. /\ leg'[t][s].at = "recorded" /\ leg'[t][s].order = leg[t][s].order
        /\ \A x \in Calls, z \in Sides : x # t \/ z # s => leg'[x][z] = leg[x][z]
    <3>1. leg[t][s] \in Legs
      BY DEF TypeInv, CallsOK
    <3> QED
      BY <2>1, <3>1 DEF LegGoes, TypeInv, CallsOK, Legs
  <2>3. /\ performance'[Player(t, s)][request[t].debate] = row
        /\ \A u \in Users, d \in Debates :
               u # Player(t, s) \/ d # request[t].debate =>
                   performance'[u][d] = performance[u][d]
    BY <1>0, <2>1 DEF TypeInv, RowsOK
  <2>4. row # None /\ [row EXCEPT !.elo = 0] = row
    <3>1. finalScore[t] \in FinalScores /\ leg[t][s].order \in Orders
      BY <1>0 DEF TypeInv, LegsOK, CallsOK, Legs
    <3>2. row \in Performances
      BY <3>1 DEF PerformanceOf, Performances, FinalScores, Orders
    <3> QED
      BY <3>2, ConstantsAssumption DEF PerformanceOf
  <2>5. PerformanceOf(t, s)' = row
    BY <2>1, <2>2 DEF PerformanceOf
  <2> HIDE DEF row
  <2>6. Row(t, s)' = row
    BY <2>3 DEF Row, Player
  <2>7. \A x \in Calls, z \in Sides :
            Recorded(x, z)' => Recorded(x, z) \/ (x = t /\ z = s)
    BY <2>2 DEF Recorded, Asks
  <2>8. \A x \in Calls, z \in Sides : Recorded(x, z) => ~SameAward(t, s, x, z)
    BY <2>1 DEF Owned, SameAward, Row
  <2>9. ASSUME NEW x \in Calls, NEW z \in Sides, Recorded(x, z)
        PROVE  Row(x, z)' = Row(x, z) /\ PerformanceOf(x, z)' = PerformanceOf(x, z)
    <3>1. Player(x, z) \in Users /\ request[x].debate \in Debates
      BY <2>9, RequestKnown DEF Recorded, Asks, Closes, TypeInv, RowsOK
    <3>2. Row(x, z)' = Row(x, z)
      BY <2>3, <2>8, <2>9, <3>1 DEF Row, Player, SameAward
    <3>3. leg'[x][z] = leg[x][z]
      BY <1>0, <2>2, <2>9 DEF Recorded
    <3> QED
      BY <2>1, <3>2, <3>3 DEF PerformanceOf
  <2>10. \A x, y \in Calls, v, z \in Sides : SameAward(x, v, y, z)' = SameAward(x, v, y, z)
    BY DEF SameAward, Player
  <2>11. \A x \in Calls, z \in Sides : SameAward(x, z, t, s) => SameAward(t, s, x, z)
    BY DEF SameAward
  <2>12. ASSUME NEW x \in Calls, NEW z \in Sides, Recorded(x, z)'
         PROVE  Row(x, z)' # None /\ [Row(x, z)' EXCEPT !.elo = 0] = PerformanceOf(x, z)'
    BY <2>4, <2>5, <2>6, <2>7, <2>9, <2>12 DEF Owned
  <2>13. ASSUME NEW x \in Calls, NEW z \in Sides, NEW y \in Calls \ {x}, NEW v \in Sides,
                Recorded(x, z)', Recorded(y, v)'
         PROVE  ~SameAward(x, z, y, v)
    BY <2>7, <2>8, <2>11, <2>13 DEF Owned
  <2> QED
    BY <2>10, <2>12, <2>13 DEF Owned
<1> QED
  BY <1>1, <1>2

LEMMA NextOwned == ASSUME TypeInv, Owned, [Next]_vars PROVE Owned'
<1> USE DEF tables, locals
<1>0. request' = request
  BY NextRows
<1>1. ASSUME UNCHANGED <<performance, finalScore, leg>> PROVE Owned'
  BY <1>0, <1>1, RestIsOwned DEF LegsRest, RowsRest, NobodyRecords
<1>2. ASSUME NEW t \in Calls, NEW s \in Sides, Leg(t, s) PROVE Owned'
  <2>1. CASE ReadsRating(t, s)
    <3>1. /\ leg[t][s].at = "rating" /\ performance' = performance /\ finalScore' = finalScore
          /\ leg[t][s] \in Legs
      BY <2>1 DEF ReadsRating, TypeInv, CallsOK
    <3>2. CASE stats[Player(t, s)] = None
      <4>1. LegGoes(t, s, "missed")
        BY <2>1, <3>2 DEF ReadsRating
      <4> QED
        BY <1>0, <3>1, <4>1, LabelRests
    <3>3. CASE stats[Player(t, s)] # None
      <4> DEFINE elo == stats[Player(t, s)].elo
                 new == [leg[t][s] EXCEPT !.at = "rated", !.rating = elo]
      <4>1. leg' = [leg EXCEPT ![t][s].at = "rated", ![t][s].rating = elo]
        BY <2>1, <3>3 DEF ReadsRating
      <4> HIDE DEF elo
      <4>2. new.at = "rated"
        BY <3>1 DEF Legs
      <4>3. leg' = [leg EXCEPT ![t][s] = new]
        BY <4>1 DEF TypeInv, CallsOK
      <4> HIDE DEF new
      <4> QED
        BY <1>0, <3>1, <4>2, <4>3, LegRests
    <3> QED
      BY <3>2, <3>3
  <2>2. CASE FindsStats(t, s) \/ InsertsStats(t, s) \/ UpdatesStats(t, s)
    <3>1. /\ leg[t][s].at \in {"find", "insert", "update"}
          /\ performance' = performance /\ finalScore' = finalScore
          /\ \E label \in {"refused", "insert", "update", "applied"} : LegGoes(t, s, label)
      BY <2>2 DEF FindsStats, InsertsStats, UpdatesStats
    <3> QED
      BY <1>0, <3>1, LabelRests
  <2>3. CASE RecordsPerformance(t, s)
    BY <1>0, <2>3, RecordsOwned
  <2>4. CASE RecordsElo(t, s)
    <3>1. /\ leg[t][s].at = "record" /\ ~Asks(t, "xp") /\ finalScore' = finalScore
          /\ LegGoes(t, s, "missed") \/ LegGoes(t, s, "recorded")
          /\ leg[t][s] \in Legs
      BY <2>4 DEF RecordsElo, Asks, TypeInv, CallsOK
    <3>2. \A x \in Calls, z \in Sides : x # t \/ z # s => leg'[x][z] = leg[x][z]
      BY <3>1 DEF LegGoes, TypeInv, CallsOK
    <3>3. LegsRest /\ NobodyRecords
      BY <3>1, <3>2 DEF LegsRest, NobodyRecords
    <3>4. RowsRest
      <4> DEFINE elo == leg[t][s].order.elo
                 u == Player(t, s)
                 d == request[t].debate
      <4>1. u \in Users /\ d \in Debates
        BY <2>4, RequestKnown DEF RecordsElo, Asks, Closes, TypeInv, RowsOK
      <4>2. \/ performance' = performance
            \/ performance' = [performance EXCEPT ![u][d].elo = elo] /\ performance[u][d] # None
        BY <2>4 DEF RecordsElo
      <4> HIDE DEF elo
      <4>3. \A row \in Performances :
               /\ [[row EXCEPT !.elo = elo] EXCEPT !.elo = 0] = [row EXCEPT !.elo = 0]
               /\ elo \in Int => [row EXCEPT !.elo = elo] \in Performances
        BY DEF Performances, Percent
      <4>4. elo \in Int
        BY <3>1 DEF elo, Legs, Orders
      <4> HIDE DEF u, d
      <4>5. CASE performance' = performance
        BY <4>5 DEF RowsRest
      <4>6. CASE /\ performance' = [performance EXCEPT ![u][d].elo = elo]
                 /\ performance[u][d] # None
        <5>1. performance[u][d] \in Performances
          BY <4>1, <4>6 DEF TypeInv, RowsOK
        <5> DEFINE old == performance[u][d]
        <5>2. /\ performance'[u][d] = [old EXCEPT !.elo = elo]
              /\ \A v \in Users, e \in Debates :
                     v # u \/ e # d => performance'[v][e] = performance[v][e]
          <6> DEFINE up == [old EXCEPT !.elo = elo]
          <6>1. performance' = [performance EXCEPT ![u][d] = up]
            BY <4>6
          <6> HIDE DEF up
          <6>2. /\ performance'[u][d] = up
                /\ \A v \in Users, e \in Debates :
                       v # u \/ e # d => performance'[v][e] = performance[v][e]
            BY <4>1, <6>1 DEF TypeInv, RowsOK
          <6> QED
            BY <6>2 DEF up
        <5> HIDE DEF old
        <5>3. /\ [old EXCEPT !.elo = elo] \in Performances
              /\ [[old EXCEPT !.elo = elo] EXCEPT !.elo = 0] = [old EXCEPT !.elo = 0]
          BY <4>3, <4>4, <5>1 DEF old
        <5>4. [old EXCEPT !.elo = elo] # None
          BY <5>3, ConstantsAssumption
        <5>5. /\ performance'[u][d] # None
              /\ [performance'[u][d] EXCEPT !.elo = 0] = [old EXCEPT !.elo = 0]
          BY <5>2, <5>3, <5>4
        <5> QED
          BY <5>2, <5>5 DEF RowsRest, old
      <4> QED
        BY <4>2, <4>5, <4>6
    <3> QED
      BY <1>0, <3>3, <3>4, RestIsOwned
  <2> QED
    BY <1>2, <2>1, <2>2, <2>3, <2>4 DEF Leg
<1>3. ASSUME NEW t \in Calls, Call(t) PROVE Owned'
  <2>1. CASE ReadsFinalScore(t)
    <3> DEFINE score == final[request[t].debate]
               xp == [s \in Sides |-> Apply(XpOrder(score, s))]
               ratings == [s \in Sides |-> [NoLeg EXCEPT !.at = "rating"]]
    <3>1. /\ performance' = performance
          /\ \A x \in Calls : x # t => finalScore'[x] = finalScore[x]
      BY <2>1 DEF ReadsFinalScore, TypeInv, CallsOK
    <3>2. \A s \in Sides : leg[t][s].at = "off"
      BY <2>1 DEF ReadsFinalScore, TypeInv, StagesOK, BothAt
    <3>3. \A s \in Sides : leg[t][s].at # "recorded"
      BY <3>2
    <3>4. CASE leg' = leg
      BY <1>0, <3>1, <3>2, <3>4, RestIsOwned DEF LegsRest, RowsRest, NobodyRecords
    <3>5. \/ leg' = leg
          \/ leg' = [leg EXCEPT ![t] = xp]
          \/ leg' = [leg EXCEPT ![t] = ratings]
      BY <2>1 DEF ReadsFinalScore, BothLegs
    <3>6. \A s \in Sides : xp[s].at # "recorded"
      BY DEF Apply
    <3>7. \A s \in Sides : ratings[s].at # "recorded"
      BY DEF NoLeg
    <3> HIDE DEF xp, ratings
    <3>8. CASE leg' = [leg EXCEPT ![t] = xp]
      BY <1>0, <3>1, <3>3, <3>6, <3>8, LegsRestart
    <3>9. CASE leg' = [leg EXCEPT ![t] = ratings]
      BY <1>0, <3>1, <3>3, <3>7, <3>9, LegsRestart
    <3> QED
      BY <3>4, <3>5, <3>8, <3>9
  <2>2. CASE ComputesElo(t)
    <3> DEFINE new == [s \in Sides |-> Apply(EloOrder(t, s))]
    <3>1. /\ performance' = performance /\ finalScore' = finalScore
          /\ \A x \in Calls : x # t => finalScore'[x] = finalScore[x]
          /\ leg' = [leg EXCEPT ![t] = new]
      BY <2>2 DEF ComputesElo, BothLegs
    <3>2. \A s \in Sides : leg[t][s].at # "recorded"
      BY <2>2 DEF ComputesElo, BothAt
    <3>3. \A s \in Sides : new[s].at # "recorded"
      BY DEF Apply
    <3> HIDE DEF new
    <3> QED
      BY <1>0, <3>1, <3>2, <3>3, LegsRestart
  <2>3. CASE StartsRecording(t)
    <3> DEFINE new == [s \in Sides |-> [leg[t][s] EXCEPT !.at = "record"]]
    <3>1. /\ performance' = performance /\ finalScore' = finalScore
          /\ \A x \in Calls : x # t => finalScore'[x] = finalScore[x]
          /\ leg' = [leg EXCEPT ![t] = new]
      BY <2>3 DEF StartsRecording, BothLegs
    <3>2. \A s \in Sides : leg[t][s].at # "recorded"
      BY <2>3 DEF StartsRecording, Applied, BothAt
    <3>3. \A s \in Sides : new[s].at # "recorded"
      <4>1. \A l \in Legs : [l EXCEPT !.at = "record"].at = "record"
        BY DEF Legs
      <4> QED
        BY <4>1 DEF TypeInv, CallsOK
    <3> HIDE DEF new
    <3> QED
      BY <1>0, <3>1, <3>2, <3>3, LegsRestart
  <2>4. CASE RecordsAsTold(t)
    <3>1. /\ leg' = leg /\ finalScore' = finalScore
          /\ request[t].user \in Users /\ request[t].debate \in Debates
      BY <2>4, RequestKnown
      DEF RecordsAsTold, Asks, TypeInv, RowsOK, Work, CloseWork, UpsertWork, RecordWork, TopWork, NoWork
    <3>2. RowsRest
      BY <2>4, <3>1 DEF RecordsAsTold, MayInsert, RowsRest, TypeInv, RowsOK
    <3> QED
      BY <1>0, <3>1, <3>2, RestIsOwned DEF LegsRest, NobodyRecords
  <2> QED
    BY <1>1, <1>3, <2>1, <2>2, <2>3, <2>4
    DEF Call, CloseAnswers, CloseFails, UpsertsStats, TopReadsCache, TopLists, TopStores
<1>4. CASE Fault
  <2>1. ASSUME NEW t \in Calls, NEW s \in Sides, LegRejects(t, s) PROVE Owned'
    <3>1. /\ leg[t][s].at \in {"find", "insert", "update", "rating", "record"}
          /\ LegGoes(t, s, "refused") \/ LegGoes(t, s, "missed")
          /\ performance' = performance /\ finalScore' = finalScore
      BY <2>1 DEF LegRejects
    <3> QED
      BY <1>0, <3>1, LabelRests
  <2> QED
    BY <1>1, <1>4, <2>1 DEF Fault, CallDies, RedisRefuses
<1> QED
  BY <1>1, <1>2, <1>3, <1>4 DEF Next, vars, ScoreStored, AsksAgain, Expires

\* However often the experience of a debate is computed, by however many callers
\* at once, for one player it is answered at most once that it was awarded, and
\* then the history says what was computed.
THEOREM AwardedOnce == Spec => []OneAward
<1>1. Init => Owned
  BY DEF Init, Owned, Recorded, NoLeg
<1>2. TypeInv /\ Owned /\ [Next]_vars => Owned'
  BY NextOwned
<1>3. TypeInv /\ Owned => OneAward
  <2> SUFFICES ASSUME TypeInv, Owned, NEW t \in Calls, Asks(t, "xp"), pc[t] = "done"
               PROVE  /\ SucceedsWith(t)
                      /\ \A x \in Calls \ {t}, s, z \in Sides :
                             /\ Asks(x, "xp") /\ request[x].debate = request[t].debate
                             /\ Player(x, z) = Player(t, s)
                             => pc[x] # "done"
    BY DEF OneAward
  <2>1. \A x \in Calls, s \in Sides : Asks(x, "xp") /\ pc[x] = "done" => Recorded(x, s)
    BY DEF TypeInv, StagesOK, BothAt, Closes, Asks, Recorded
  <2>2. SucceedsWith(t)
    BY <2>1 DEF Owned, SucceedsWith, Row
  <2> QED
    BY <2>1, <2>2 DEF Owned, SameAward
<1> QED
  BY <1>1, <1>2, <1>3, TypeInvariant, PTL DEF Spec, Safety

-----------------------------------------------------------------------------
(* Where the Elo is                                                        *)

Owing == {"find", "insert", "update", "refused"}
Owes(l) == IF l.at \in Owing THEN l.order.elo ELSE 0
EloHeld(rows) == [u \in Users |-> EloOf(rows[u])]
EloOwed(legs) == [x \in Calls \X Sides |-> Owes(legs[x[1]][x[2]])]
Balanced == NothingUpserted => TotalElo(stats) + TotalOutstanding = TotalElo(FirstStats)

\* Nothing but a leaderboard is asked for again.
SentStay == \A t \in Calls : pc'[t] = "unsent" => pc[t] = "unsent" \/ Asks(t, "top")

LEMMA SentStays == ASSUME TypeInv, [Next]_vars PROVE SentStay
<1> SUFFICES ASSUME pc' # pc
             PROVE  \/ \E t \in Calls, label \in Labels \ {"unsent"} : Goto(t, label)
                    \/ \E t \in Calls : Asks(t, "top") /\ Goto(t, "unsent")
  BY DEF Goto, TypeInv, CallsOK, SentStay
<1> USE DEF Labels, locals
<1>1. ASSUME NEW t \in Calls, Call(t)
      PROVE  \E label \in Labels \ {"unsent"} : Goto(t, label)
  BY <1>1 DEF Call, ReadsFinalScore, ComputesElo, StartsRecording, CloseAnswers, CloseFails,
              UpsertsStats, RecordsAsTold, TopReadsCache, TopLists, TopStores
<1>2. CASE Fault
  BY <1>2 DEF Fault, LegRejects, CallDies, RedisRefuses
<1>3. ASSUME NEW t \in Calls, NEW s \in Sides, Leg(t, s) PROVE FALSE
  BY <1>3 DEF Leg, ReadsRating, FindsStats, InsertsStats, UpdatesStats, RecordsPerformance,
              RecordsElo
<1> QED
  BY <1>1, <1>2, <1>3 DEF Next, vars, ScoreStored, AsksAgain, Expires

LEMMA FinitePairs == IsFiniteSet(Calls \X Sides)
<1>1. IsFiniteSet({"FOR"}) /\ IsFiniteSet({"FOR"} \cup {"AGAINST"})
  BY FS_Singleton, FS_AddElement
<1>2. Sides = {"FOR"} \cup {"AGAINST"}
  BY DEF Sides
<1> QED
  BY <1>1, <1>2, FiniteAssumption, FS_Product

TotalOwed(legs) == SumFunctionOnSet(EloOwed(legs), Calls \X Sides)

LEMMA Totals ==
    /\ \A rows : TotalElo(rows) = SumFunctionOnSet(EloHeld(rows), Users)
    /\ TotalOutstanding = TotalOwed(leg)
    /\ TotalOutstanding' = TotalOwed(leg')
<1>1. TotalOutstanding = TotalOwed(leg)
  BY DEF TotalOutstanding, TotalOwed, SumFunction, EloOwed, Outstanding, Owes, Owing
<1>2. TotalOutstanding' = TotalOwed(leg')
  BY DEF TotalOutstanding, TotalOwed, SumFunction, EloOwed, Outstanding, Owes, Owing
<1>3. ASSUME NEW rows PROVE TotalElo(rows) = SumFunctionOnSet(EloHeld(rows), Users)
  BY DEF TotalElo, SumFunction, EloHeld
<1> QED
  BY <1>1, <1>2, <1>3

LEMMA HeldType ==
    ASSUME NEW rows \in [Users -> Stats \cup {None}]
    PROVE  EloHeld(rows) \in [Users -> Int] /\ TotalElo(rows) \in Int
<1>1. EloHeld(rows) \in [Users -> Int]
  BY DEF EloHeld, EloOf, Stats, StatsRows
<1> QED
  BY <1>1, FiniteAssumption, SumType, Totals

LEMMA OwedType ==
    ASSUME NEW legs \in [Calls -> [Sides -> Legs]]
    PROVE  /\ EloOwed(legs) \in [Calls \X Sides -> Int]
           /\ TotalOwed(legs) \in Int
<1>1. \A l \in Legs : Owes(l) \in Int
  BY DEF Owes, Legs, Orders
<1>2. EloOwed(legs) \in [Calls \X Sides -> Int]
  BY <1>1 DEF EloOwed
<1> QED
  BY <1>2, FinitePairs, SumType DEF TotalOwed

\* One row changes, or one leg.
LEMMA RowMoves ==
    ASSUME NEW old \in [Users -> Stats \cup {None}], NEW new \in [Users -> Stats \cup {None}],
           NEW u \in Users, \A v \in Users : v # u => new[v] = old[v]
    PROVE  TotalElo(new) = TotalElo(old) + (EloOf(new[u]) - EloOf(old[u]))
<1>1. EloHeld(old) \in [Users -> Int] /\ EloHeld(new) \in [Users -> Int]
  BY HeldType
<1>2. \A v \in Users : EloHeld(old)[v] = EloOf(old[v]) /\ EloHeld(new)[v] = EloOf(new[v])
  BY DEF EloHeld
<1>3. SumFunctionOnSet(EloHeld(new), Users)
         = SumFunctionOnSet(EloHeld(old), Users) + (EloHeld(new)[u] - EloHeld(old)[u])
  BY <1>1, <1>2, FiniteAssumption, SumChange
<1> QED
  BY <1>2, <1>3, Totals

LEMMA LegMoves ==
    ASSUME NEW old \in [Calls -> [Sides -> Legs]], NEW new \in [Calls -> [Sides -> Legs]],
           NEW t \in Calls, NEW s \in Sides
    PROVE  (\A x \in Calls, z \in Sides : x # t \/ z # s => new[x][z] = old[x][z])
             => TotalOwed(new) = TotalOwed(old) + (Owes(new[t][s]) - Owes(old[t][s]))
<1>0. SUFFICES ASSUME \A x \in Calls, z \in Sides : x # t \/ z # s => new[x][z] = old[x][z]
               PROVE  TotalOwed(new) = TotalOwed(old) + (Owes(new[t][s]) - Owes(old[t][s]))
  OBVIOUS
<1>1. EloOwed(old) \in [Calls \X Sides -> Int] /\ EloOwed(new) \in [Calls \X Sides -> Int]
  BY OwedType
<1>2. \A x \in Calls, z \in Sides : /\ EloOwed(old)[<<x, z>>] = Owes(old[x][z])
                                    /\ EloOwed(new)[<<x, z>>] = Owes(new[x][z])
  BY DEF EloOwed
<1>3. \A x \in Calls \X Sides : x # <<t, s>> => EloOwed(new)[x] = EloOwed(old)[x]
  <2> SUFFICES ASSUME NEW y \in Calls, NEW z \in Sides, <<y, z>> # <<t, s>>
               PROVE  EloOwed(new)[<<y, z>>] = EloOwed(old)[<<y, z>>]
    OBVIOUS
  <2>1. new[y][z] = old[y][z]
    BY <1>0
  <2> QED
    BY <1>2, <2>1
<1>4. PICK S, w, v, c : S = Calls \X Sides /\ w = EloOwed(old) /\ v = EloOwed(new) /\ c = <<t, s>>
  OBVIOUS
<1>5. w \in [S -> Int] /\ v \in [S -> Int] /\ c \in S /\ IsFiniteSet(S)
  BY <1>1, <1>4, FinitePairs
<1>6. \A x \in S : x # c => v[x] = w[x]
  BY <1>3, <1>4
<1>7. SumFunctionOnSet(v, S) = SumFunctionOnSet(w, S) + (v[c] - w[c])
  BY <1>5, <1>6, SumChange
<1> QED
  BY <1>2, <1>4, <1>7 DEF TotalOwed

\* A step that moves no Elo, or every row and leg that it changes keeps its share.
LEMMA EloRests ==
    ASSUME TypeInv, TypeInv', Balanced, request' = request, SentStay,
           \A u \in Users : EloOf(stats'[u]) = EloOf(stats[u]),
           \A t \in Calls, s \in Sides : Owes(leg'[t][s]) = Owes(leg[t][s])
    PROVE  Balanced'
<1>1. EloHeld(stats') = EloHeld(stats) /\ TotalOwed(leg') = TotalOwed(leg)
  BY DEF EloHeld, TotalOwed, EloOwed
<1>2. TotalElo(stats') = TotalElo(stats) /\ TotalOutstanding' = TotalOutstanding
  BY <1>1, Totals
<1>3. NothingUpserted' => NothingUpserted
  BY DEF NothingUpserted, Asks, SentStay
<1> QED
  BY <1>2, <1>3 DEF Balanced, TotalElo

LEMMA LabelUpdate ==
    ASSUME TypeInv, NEW t \in Calls, NEW s \in Sides, NEW label, LegGoes(t, s, label)
    PROVE  /\ leg'[t][s].at = label /\ leg'[t][s].order = leg[t][s].order
           /\ \A x \in Calls, z \in Sides : x # t \/ z # s => leg'[x][z] = leg[x][z]
<1>1. leg[t][s] \in Legs
  BY DEF TypeInv, CallsOK
<1> QED
  BY <1>1 DEF LegGoes, TypeInv, CallsOK, Legs

\* The delta that a leg still owes is what the row gains.
LEMMA EloApplied ==
    ASSUME TypeInv, TypeInv', Balanced, request' = request, pc' = pc,
           NEW t \in Calls, NEW s \in Sides, UpdatesStats(t, s),
           EloAllowed(Increased(stats[Player(t, s)], leg[t][s].order))
    PROVE  Balanced'
<1> DEFINE u == Player(t, s)
           row == Increased(stats[u], leg[t][s].order)
           d == leg[t][s].order.elo
<1>1. /\ leg[t][s].at = "update" /\ u \in Users /\ stats[u] # None /\ stats[u] \in Stats
      /\ leg[t][s] \in Legs
  <2>1. leg[t][s].at = "update" /\ leg[t][s] \in Legs
    BY DEF UpdatesStats, TypeInv, CallsOK
  <2>2. stats[u] # None /\ Closes(t)
    BY <2>1 DEF TypeInv, LegsOK
  <2>3. u \in Users
    BY <2>2, RequestKnown DEF TypeInv, RowsOK
  <2> QED
    BY <2>1, <2>2, <2>3 DEF TypeInv, RowsOK
<1>2. /\ stats' = [stats EXCEPT ![u] = row] /\ LegGoes(t, s, "applied")
  BY DEF UpdatesStats
<1>3. d \in Int /\ stats[u].elo \in Int /\ row.elo = stats[u].elo + d
  <2>1. leg[t][s].order \in Orders /\ stats[u] \in StatsRows
    BY <1>1 DEF Legs, Stats
  <2> QED
    BY <2>1 DEF Orders, StatsRows, Increased
<1>4. row # None
  BY <1>1, IncreasedType, ConstantsAssumption DEF Legs, Stats
<1> HIDE DEF row, u, d
<1>5. stats'[u] = row /\ \A v \in Users : v # u => stats'[v] = stats[v]
  BY <1>1, <1>2 DEF TypeInv, RowsOK
<1>6. TotalElo(stats') = TotalElo(stats) + d
  <2>1. stats \in [Users -> Stats \cup {None}] /\ stats' \in [Users -> Stats \cup {None}]
    BY DEF TypeInv, RowsOK
  <2>2. TotalElo(stats') = TotalElo(stats) + (EloOf(stats'[u]) - EloOf(stats[u]))
    BY <1>1, <1>5, <2>1, RowMoves
  <2>3. EloOf(stats'[u]) = stats[u].elo + d /\ EloOf(stats[u]) = stats[u].elo
    BY <1>1, <1>3, <1>4, <1>5 DEF EloOf
  <2> QED
    BY <1>3, <2>1, <2>2, <2>3, HeldType
<1>7. TotalOutstanding' = TotalOutstanding - d
  <2>1. leg \in [Calls -> [Sides -> Legs]] /\ leg' \in [Calls -> [Sides -> Legs]]
    BY DEF TypeInv, CallsOK
  <2>2. /\ leg'[t][s].at = "applied"
        /\ \A x \in Calls, z \in Sides : x # t \/ z # s => leg'[x][z] = leg[x][z]
    BY <1>2, LabelUpdate
  <2>3. TotalOutstanding' = TotalOutstanding + (Owes(leg'[t][s]) - Owes(leg[t][s]))
    BY <2>1, <2>2, LegMoves, Totals
  <2>4. Owes(leg'[t][s]) = 0 /\ Owes(leg[t][s]) = d
    BY <1>1, <2>2 DEF Owes, Owing, d
  <2>5. TotalOutstanding \in Int
    BY <2>1, OwedType, Totals
  <2> QED
    BY <1>3, <2>3, <2>4, <2>5
<1>8. NothingUpserted' => NothingUpserted
  BY DEF NothingUpserted, Asks, SentStay
<1>9. TotalElo(stats) \in Int /\ TotalOutstanding \in Int
  BY HeldType, OwedType, Totals DEF TypeInv, RowsOK, CallsOK
<1> QED
  BY <1>3, <1>6, <1>7, <1>8, <1>9 DEF Balanced, TotalElo

\* The two deltas of a computation cancel.
LEMMA EloComputed ==
    ASSUME TypeInv, TypeInv', Balanced, request' = request, NEW t \in Calls, ComputesElo(t)
    PROVE  Balanced'
<1> DEFINE new == [s \in Sides |-> Apply(EloOrder(t, s))]
           d == EloDelta(leg[t]["FOR"].rating, leg[t]["AGAINST"].rating,
                         ResultForSide(finalScore[t].winner, "FOR"))
           mid == [leg EXCEPT ![t]["FOR"] = new["FOR"]]
<1>1. /\ leg' = [leg EXCEPT ![t] = new] /\ stats' = stats
      /\ leg[t]["FOR"].at = "rated" /\ leg[t]["AGAINST"].at = "rated"
      /\ "FOR" \in Sides /\ "AGAINST" \in Sides
  BY DEF ComputesElo, BothLegs, BothAt, Sides, tables
<1>2. d \in Int
  <2>1. leg[t]["FOR"] \in Legs /\ leg[t]["AGAINST"] \in Legs
    BY <1>1 DEF TypeInv, CallsOK
  <2>2. leg[t]["FOR"].rating \in Int /\ leg[t]["AGAINST"].rating \in Int
    BY <2>1 DEF Legs
  <2> QED
    BY <2>2, DeltaIsInt, ResultKnown
<1>3. Owes(new["FOR"]) = d /\ Owes(new["AGAINST"]) = -d
  BY <1>1 DEF Owes, Owing, Apply, EloOrder, AgainstElo
<1>4. leg \in [Calls -> [Sides -> Legs]] /\ leg' \in [Calls -> [Sides -> Legs]]
  BY DEF TypeInv, CallsOK
<1>5. new["FOR"] \in Legs
  BY <1>1, <1>4, EloOrderType DEF Apply, Legs, LegLabels
<1> HIDE DEF new, d
<1>6. leg'[t] = new /\ \A x \in Calls : x # t => leg'[x] = leg[x]
  BY <1>1, <1>4
<1>7. /\ mid \in [Calls -> [Sides -> Legs]]
      /\ mid[t]["FOR"] = new["FOR"] /\ mid[t]["AGAINST"] = leg[t]["AGAINST"]
      /\ \A x \in Calls : x # t => mid[x] = leg[x]
  BY <1>1, <1>4, <1>5
<1>a. /\ TotalOutstanding = TotalOwed(leg)
      /\ TotalOutstanding' = TotalOwed(leg')
      /\ TotalOutstanding \in Int
  BY <1>4, Totals, OwedType
<1>8. TotalOwed(mid) = TotalOutstanding + d
  <2>1. Owes(leg[t]["FOR"]) = 0
    BY <1>1 DEF Owes, Owing
  <2>2. \A x \in Calls, z \in Sides : x # t \/ z # "FOR" => mid[x][z] = leg[x][z]
    BY <1>7 DEF Sides
  <2> HIDE DEF mid
  <2>3. TotalOwed(mid) = TotalOwed(leg) + (Owes(mid[t]["FOR"]) - Owes(leg[t]["FOR"]))
    BY <1>1, <1>4, <1>7, <2>2, LegMoves
  <2>4. Owes(mid[t]["FOR"]) = d
    BY <1>3, <1>7
  <2> QED
    BY <1>2, <1>a, <2>1, <2>3, <2>4
<1> HIDE DEF mid
<1>9. TotalOutstanding' = TotalOwed(mid) - d
  <2>1. Owes(mid[t]["AGAINST"]) = 0
    BY <1>1, <1>7 DEF Owes, Owing
  <2>2. \A x \in Calls, z \in Sides : x # t \/ z # "AGAINST" => leg'[x][z] = mid[x][z]
    BY <1>6, <1>7 DEF Sides
  <2>3. TotalOwed(leg') = TotalOwed(mid) + (Owes(leg'[t]["AGAINST"]) - Owes(mid[t]["AGAINST"]))
    <3>1. PICK legs, s : legs = leg' /\ s = "AGAINST"
      OBVIOUS
    <3>2. legs \in [Calls -> [Sides -> Legs]] /\ s \in Sides
      BY <1>1, <1>4, <3>1
    <3>3. \A x \in Calls, z \in Sides : x # t \/ z # s => legs[x][z] = mid[x][z]
      BY <2>2, <3>1
    <3>4. TotalOwed(legs) = TotalOwed(mid) + (Owes(legs[t][s]) - Owes(mid[t][s]))
      BY <1>7, <3>2, <3>3, LegMoves
    <3> QED
      BY <3>1, <3>4
  <2>4. Owes(leg'[t]["AGAINST"]) = -d
    BY <1>3, <1>6
  <2>5. TotalOwed(mid) \in Int
    BY <1>7, OwedType
  <2> QED
    BY <1>2, <1>a, <2>1, <2>3, <2>4, <2>5
<1>10. TotalOutstanding' = TotalOutstanding
  BY <1>2, <1>8, <1>9, <1>a
<1>11. NothingUpserted' => NothingUpserted
  <2>1. pc' = [pc EXCEPT ![t] = "apply"]
    BY DEF ComputesElo, Goto
  <2> QED
    BY <2>1 DEF NothingUpserted, Asks, TypeInv, CallsOK
<1> QED
  BY <1>1, <1>10, <1>11 DEF Balanced, TotalElo

\* A leg that only changes its label keeps what it owes on either side.
LEMMA LabelOwes ==
    ASSUME TypeInv, NEW t \in Calls, NEW s \in Sides, NEW label, LegGoes(t, s, label),
           leg[t][s].at \in Owing <=> label \in Owing
    PROVE  \A x \in Calls, z \in Sides : Owes(leg'[x][z]) = Owes(leg[x][z])
<1>1. /\ leg'[t][s].at = label /\ leg'[t][s].order = leg[t][s].order
      /\ \A x \in Calls, z \in Sides : x # t \/ z # s => leg'[x][z] = leg[x][z]
  BY LabelUpdate
<1>2. Owes(leg'[t][s]) = Owes(leg[t][s])
  BY <1>1 DEF Owes
<1> QED
  BY <1>1, <1>2

LEMMA NextBalanced == ASSUME TypeInv, TypeInv', Balanced, [Next]_vars PROVE Balanced'
<1> USE DEF tables, locals
<1>0. request' = request /\ SentStay
  BY NextRows, SentStays
<1>1. ASSUME UNCHANGED <<stats, leg>> PROVE Balanced'
  BY <1>0, <1>1, EloRests
<1>2. ASSUME NEW t \in Calls, NEW s \in Sides, Leg(t, s) PROVE Balanced'
  <2>1. CASE ReadsRating(t, s)
    <3>1. leg[t][s].at = "rating" /\ stats' = stats
      BY <2>1 DEF ReadsRating
    <3>2. CASE stats[Player(t, s)] = None
      <4>1. LegGoes(t, s, "missed")
        BY <2>1, <3>2 DEF ReadsRating
      <4>2. \A x \in Calls, z \in Sides : Owes(leg'[x][z]) = Owes(leg[x][z])
        BY <3>1, <4>1, LabelOwes DEF Owing
      <4> QED
        BY <1>0, <3>1, <4>2, EloRests
    <3>3. CASE stats[Player(t, s)] # None
      <4> DEFINE elo == stats[Player(t, s)].elo
                 new == [leg[t][s] EXCEPT !.at = "rated", !.rating = elo]
      <4>1. leg' = [leg EXCEPT ![t][s].at = "rated", ![t][s].rating = elo]
        BY <2>1, <3>3 DEF ReadsRating
      <4> HIDE DEF elo
      <4>2. leg \in [Calls -> [Sides -> Legs]]
        BY DEF TypeInv, CallsOK
      <4>3. new.at = "rated"
        BY <4>2 DEF Legs
      <4>a. leg' = [leg EXCEPT ![t][s] = new]
        BY <4>1, <4>2
      <4> HIDE DEF new
      <4>4. /\ leg'[t][s] = new
            /\ \A x \in Calls, z \in Sides : x # t \/ z # s => leg'[x][z] = leg[x][z]
        BY <4>2, <4>a
      <4>5. Owes(leg'[t][s]) = Owes(leg[t][s])
        BY <3>1, <4>3, <4>4 DEF Owes, Owing
      <4>6. \A x \in Calls, z \in Sides : Owes(leg'[x][z]) = Owes(leg[x][z])
        BY <4>4, <4>5
      <4> QED
        BY <1>0, <3>1, <4>6, EloRests
    <3> QED
      BY <3>2, <3>3
  <2>2. CASE FindsStats(t, s)
    <3>1. /\ leg[t][s].at = "find" /\ stats' = stats
          /\ LegGoes(t, s, "refused") \/ LegGoes(t, s, "insert")
      BY <2>2 DEF FindsStats
    <3> QED
      BY <1>0, <3>1, LabelOwes, EloRests DEF Owing
  <2>3. CASE InsertsStats(t, s)
    <3>1. leg[t][s].at = "insert" /\ LegGoes(t, s, "update")
      BY <2>3 DEF InsertsStats
    <3>2. \A x \in Calls, z \in Sides : Owes(leg'[x][z]) = Owes(leg[x][z])
      BY <3>1, LabelOwes DEF Owing
    <3>3. ASSUME NEW u \in Users PROVE EloOf(stats'[u]) = EloOf(stats[u])
      BY <2>3 DEF InsertsStats, TypeInv, RowsOK, EloOf, NewStats
    <3> QED
      BY <1>0, <3>2, <3>3, EloRests
  <2>4. CASE UpdatesStats(t, s)
    <3>1. CASE EloAllowed(Increased(stats[Player(t, s)], leg[t][s].order))
      <4>1. pc' = pc
        BY <2>4 DEF UpdatesStats
      <4> QED
        BY <1>0, <2>4, <3>1, <4>1, EloApplied
    <3>2. CASE ~EloAllowed(Increased(stats[Player(t, s)], leg[t][s].order))
      <4>1. leg[t][s].at = "update" /\ stats' = stats /\ LegGoes(t, s, "refused")
        BY <2>4, <3>2 DEF UpdatesStats
      <4> QED
        BY <1>0, <4>1, LabelOwes, EloRests DEF Owing
    <3> QED
      BY <3>1, <3>2
  <2>5. CASE RecordsPerformance(t, s) \/ RecordsElo(t, s)
    <3>1. /\ leg[t][s].at = "record" /\ stats' = stats
          /\ LegGoes(t, s, "missed") \/ LegGoes(t, s, "recorded")
      BY <2>5 DEF RecordsPerformance, RecordsElo
    <3> QED
      BY <1>0, <3>1, LabelOwes, EloRests DEF Owing
  <2> QED
    BY <1>2, <2>1, <2>2, <2>3, <2>4, <2>5 DEF Leg
<1>3. ASSUME NEW t \in Calls, Call(t) PROVE Balanced'
  <2>a. ASSUME NEW new, leg' = [leg EXCEPT ![t] = new], stats' = stats,
               \A s \in Sides : Owes(leg[t][s]) = 0 /\ Owes(new[s]) = 0
        PROVE  Balanced'
    <3>1. leg'[t] = new /\ \A x \in Calls : x # t => leg'[x] = leg[x]
      BY <2>a DEF TypeInv, CallsOK
    <3>2. \A x \in Calls, z \in Sides : Owes(leg'[x][z]) = Owes(leg[x][z])
      BY <2>a, <3>1
    <3> QED
      BY <1>0, <2>a, <3>2, EloRests
  <2>1. CASE ReadsFinalScore(t)
    <3> DEFINE score == final[request[t].debate]
               xp == [s \in Sides |-> Apply(XpOrder(score, s))]
               ratings == [s \in Sides |-> [NoLeg EXCEPT !.at = "rating"]]
    <3>1. stats' = stats /\ \A s \in Sides : Owes(leg[t][s]) = 0
      BY <2>1 DEF ReadsFinalScore, TypeInv, StagesOK, BothAt, Owes, Owing
    <3>2. \A s \in Sides : Owes(xp[s]) = 0
      BY DEF Owes, Apply, XpOrder
    <3>3. \A s \in Sides : Owes(ratings[s]) = 0
      BY DEF Owes, Owing, NoLeg
    <3>4. \/ leg' = leg
          \/ leg' = [leg EXCEPT ![t] = xp]
          \/ leg' = [leg EXCEPT ![t] = ratings]
      BY <2>1 DEF ReadsFinalScore, BothLegs
    <3> HIDE DEF xp, ratings
    <3>5. CASE leg' = [leg EXCEPT ![t] = xp]
      BY <2>a, <3>1, <3>2, <3>5
    <3>6. CASE leg' = [leg EXCEPT ![t] = ratings]
      BY <2>a, <3>1, <3>3, <3>6
    <3> QED
      BY <1>1, <3>1, <3>4, <3>5, <3>6
  <2>2. CASE ComputesElo(t)
    BY <1>0, <2>2, EloComputed
  <2>3. CASE StartsRecording(t)
    <3> DEFINE new == [s \in Sides |-> [leg[t][s] EXCEPT !.at = "record"]]
    <3>1. /\ stats' = stats /\ leg' = [leg EXCEPT ![t] = new]
          /\ \A s \in Sides : leg[t][s].at = "applied"
      BY <2>3 DEF StartsRecording, BothLegs, Applied, BothAt
    <3>2. ASSUME NEW s \in Sides PROVE new[s].at = "record"
      <4>1. \A l \in Legs : [l EXCEPT !.at = "record"].at = "record"
        BY DEF Legs
      <4>2. leg[t][s] \in Legs
        BY DEF TypeInv, CallsOK
      <4> QED
        BY <4>1, <4>2
    <3> HIDE DEF new
    <3>3. \A s \in Sides : Owes(leg[t][s]) = 0 /\ Owes(new[s]) = 0
      BY <3>1, <3>2 DEF Owes, Owing
    <3> QED
      BY <2>a, <3>1, <3>3
  <2>4. CASE UpsertsStats(t)
    <3>1. Asks(t, "upsert") /\ (Goto(t, "done") \/ Goto(t, "failed"))
      BY <2>4 DEF UpsertsStats
    <3>2. ~NothingUpserted'
      BY <1>0, <3>1 DEF NothingUpserted, Asks, Goto, TypeInv, CallsOK
    <3> QED
      BY <3>2 DEF Balanced
  <2> QED
    BY <1>1, <1>3, <2>1, <2>2, <2>3, <2>4
    DEF Call, CloseAnswers, CloseFails, RecordsAsTold, TopReadsCache, TopLists, TopStores
<1>4. CASE Fault
  <2>1. ASSUME NEW t \in Calls, NEW s \in Sides, LegRejects(t, s) PROVE Balanced'
    <3>1. /\ stats' = stats
          /\ \/ leg[t][s].at \in {"find", "insert", "update"} /\ LegGoes(t, s, "refused")
             \/ leg[t][s].at \in {"rating", "record"} /\ LegGoes(t, s, "missed")
      BY <2>1 DEF LegRejects
    <3> QED
      BY <1>0, <3>1, LabelOwes, EloRests DEF Owing
  <2> QED
    BY <1>1, <1>4, <2>1 DEF Fault, CallDies, RedisRefuses
<1> QED
  BY <1>1, <1>2, <1>3, <1>4 DEF Next, vars, ScoreStored, AsksAgain, Expires

\* However many closings of shared players overlap, are retried or fail half way,
\* and however many players and debates there are: Elo only moves between them.
THEOREM EloIsAccountedFor == Spec => []EloAccounted
<1>1. Init => Balanced
  <2> SUFFICES ASSUME Init PROVE Balanced
    OBVIOUS
  <2> DEFINE none == [x \in Calls \X Sides |-> 0]
  <2>1. \A t \in Calls, s \in Sides : Owes(leg[t][s]) = 0
    BY DEF Init, Owes, Owing, NoLeg
  <2>2. EloOwed(leg) = none
    BY <2>1 DEF EloOwed
  <2>3. TotalOutstanding = 0
    BY <2>2, FinitePairs, SumZero, Totals DEF TotalOwed
  <2>4. TotalElo(FirstStats) \in Int
    BY InitType, HeldType DEF Init, TypeInv, RowsOK
  <2> QED
    BY <2>3, <2>4 DEF Init, Balanced
<1>2. TypeInv /\ TypeInv' /\ Balanced /\ [Next]_vars => Balanced'
  BY NextBalanced
<1>3. Balanced => EloAccounted
  BY DEF Balanced, EloAccounted
<1> QED
  BY <1>1, <1>2, <1>3, TypeInvariant, PTL DEF Spec, Safety

-----------------------------------------------------------------------------
(* Where the experience is                                                 *)

\* Experience that was applied and is still to be recorded.
Earned == {"applied", "record"}
Claims(u) == {x \in Calls \X Sides : Asks(x[1], "xp") /\ Player(x[1], x[2]) = u}
Earns(C, t, s, l) == IF <<t, s>> \in C /\ l.at \in Earned THEN l.order.xp ELSE 0
XpEarned(C, legs) == [x \in Calls \X Sides |-> Earns(C, x[1], x[2], legs[x[1]][x[2]])]
Pending(C, legs) == SumFunctionOnSet(XpEarned(C, legs), Calls \X Sides)
XpClaimed(rows) == [d \in Debates |-> XpOf(rows[d])]
Claimed(rows) == SumFunctionOnSet(XpClaimed(rows), Debates)

Backed ==
    NothingUpserted /\ NothingRecorded =>
        \A u \in Users :
            XpOf(FirstStats[u]) + Claimed(performance[u]) + Pending(Claims(u), leg)
                <= XpOf(stats[u])

AllLegs == [Calls -> [Sides -> Legs]]
Histories == [Debates -> Performances \cup {None}]

LEMMA XpType ==
    /\ \A row \in Stats \cup {None} : XpOf(row) \in Nat
    /\ \A row \in Performances \cup {None} : XpOf(row) \in Nat
BY DEF XpOf, Stats, StatsRows, Performances

LEMMA ClaimedType ==
    ASSUME NEW rows \in Histories
    PROVE  XpClaimed(rows) \in [Debates -> Nat] /\ Claimed(rows) \in Nat
<1>1. XpClaimed(rows) \in [Debates -> Nat]
  BY XpType DEF XpClaimed, Histories
<1> QED
  BY <1>1, FiniteAssumption, SumBounds DEF Claimed

LEMMA EarnsType ==
    ASSUME NEW C, NEW t, NEW s, NEW l \in Legs PROVE Earns(C, t, s, l) \in Nat
BY DEF Earns, Legs, Orders

LEMMA PendingType ==
    ASSUME NEW C, NEW legs \in AllLegs
    PROVE  XpEarned(C, legs) \in [Calls \X Sides -> Nat] /\ Pending(C, legs) \in Nat
<1>1. XpEarned(C, legs) \in [Calls \X Sides -> Nat]
  BY EarnsType DEF XpEarned, AllLegs
<1> QED
  BY <1>1, FinitePairs, SumBounds DEF Pending

\* One row of a history changes, or one leg.
LEMMA ClaimMoves ==
    ASSUME NEW old \in Histories, NEW new \in Histories, NEW d \in Debates
    PROVE  (\A e \in Debates : e # d => new[e] = old[e])
             => Claimed(new) = Claimed(old) + (XpOf(new[d]) - XpOf(old[d]))
<1>0. SUFFICES ASSUME \A e \in Debates : e # d => new[e] = old[e]
               PROVE  Claimed(new) = Claimed(old) + (XpOf(new[d]) - XpOf(old[d]))
  OBVIOUS
<1>1. PICK w, v : w = XpClaimed(old) /\ v = XpClaimed(new)
  OBVIOUS
<1>2. w \in [Debates -> Int] /\ v \in [Debates -> Int]
  BY <1>1, ClaimedType
<1>3. \A e \in Debates : w[e] = XpOf(old[e]) /\ v[e] = XpOf(new[e])
  BY <1>1 DEF XpClaimed
<1>4. \A e \in Debates : e # d => v[e] = w[e]
  BY <1>0, <1>3
<1>5. SumFunctionOnSet(v, Debates) = SumFunctionOnSet(w, Debates) + (v[d] - w[d])
  BY <1>2, <1>4, FiniteAssumption, SumChange
<1> QED
  BY <1>1, <1>3, <1>5 DEF Claimed

LEMMA PendingMoves ==
    ASSUME NEW old \in AllLegs, NEW new \in AllLegs,
           NEW t \in Calls, NEW s \in Sides, NEW C
    PROVE  (\A x \in Calls, z \in Sides : x # t \/ z # s => new[x][z] = old[x][z])
             => Pending(C, new) = Pending(C, old) + (Earns(C, t, s, new[t][s]) - Earns(C, t, s, old[t][s]))
<1>0. SUFFICES ASSUME \A x \in Calls, z \in Sides : x # t \/ z # s => new[x][z] = old[x][z]
               PROVE  Pending(C, new) = Pending(C, old)
                        + (Earns(C, t, s, new[t][s]) - Earns(C, t, s, old[t][s]))
  OBVIOUS
<1>1. XpEarned(C, old) \in [Calls \X Sides -> Nat] /\ XpEarned(C, new) \in [Calls \X Sides -> Nat]
  BY PendingType
<1>2. \A x \in Calls, z \in Sides :
          /\ XpEarned(C, old)[<<x, z>>] = Earns(C, x, z, old[x][z])
          /\ XpEarned(C, new)[<<x, z>>] = Earns(C, x, z, new[x][z])
  BY DEF XpEarned
<1>3. \A x \in Calls \X Sides : x # <<t, s>> => XpEarned(C, new)[x] = XpEarned(C, old)[x]
  <2> SUFFICES ASSUME NEW y \in Calls, NEW z \in Sides, <<y, z>> # <<t, s>>
               PROVE  XpEarned(C, new)[<<y, z>>] = XpEarned(C, old)[<<y, z>>]
    OBVIOUS
  <2>1. new[y][z] = old[y][z]
    BY <1>0
  <2> QED
    BY <1>2, <2>1
<1>4. PICK S, w, v, c :
          S = Calls \X Sides /\ w = XpEarned(C, old) /\ v = XpEarned(C, new) /\ c = <<t, s>>
  OBVIOUS
<1>5. w \in [S -> Int] /\ v \in [S -> Int] /\ c \in S /\ IsFiniteSet(S)
  <2>1. w \in [S -> Nat] /\ v \in [S -> Nat]
    BY <1>1, <1>4
  <2> QED
    BY <1>4, <2>1, FinitePairs
<1>6. \A x \in S : x # c => v[x] = w[x]
  BY <1>3, <1>4
<1>7. SumFunctionOnSet(v, S) = SumFunctionOnSet(w, S) + (v[c] - w[c])
  BY <1>5, <1>6, SumChange
<1> QED
  BY <1>2, <1>4, <1>7 DEF Pending

LEMMA PendingSame ==
    ASSUME NEW C, NEW old, NEW new,
           \A x \in Calls, z \in Sides : Earns(C, x, z, new[x][z]) = Earns(C, x, z, old[x][z])
    PROVE  Pending(C, new) = Pending(C, old)
<1>1. XpEarned(C, new) = XpEarned(C, old)
  BY DEF XpEarned
<1> QED
  BY <1>1 DEF Pending

\* Nobody's history and pending awards grow by more than the statistics.
LEMMA BackedStep ==
    ASSUME TypeInv, TypeInv', Backed, request' = request, SentStay,
           \A u \in Users :
               Claimed(performance'[u]) + Pending(Claims(u), leg') + XpOf(stats[u])
                   <= Claimed(performance[u]) + Pending(Claims(u), leg) + XpOf(stats'[u])
    PROVE  Backed'
<1>1. NothingUpserted' => NothingUpserted
  BY DEF NothingUpserted, Asks, SentStay
<1>2. NothingRecorded' => NothingRecorded
  BY DEF NothingRecorded, Asks, SentStay
<1>3. \A u \in Users : Claims(u)' = Claims(u)
  BY DEF Claims, Asks, Player
<1>4. ASSUME NEW u \in Users, NothingUpserted, NothingRecorded
      PROVE  XpOf(FirstStats[u]) + Claimed(performance'[u]) + Pending(Claims(u), leg')
                <= XpOf(stats'[u])
  <2>1. /\ Claimed(performance[u]) \in Nat /\ Claimed(performance'[u]) \in Nat
        /\ Pending(Claims(u), leg) \in Nat /\ Pending(Claims(u), leg') \in Nat
    <3>1. performance[u] \in Histories /\ performance'[u] \in Histories
      BY DEF TypeInv, RowsOK, Histories
    <3>2. leg \in AllLegs /\ leg' \in AllLegs
      BY DEF TypeInv, CallsOK, AllLegs
    <3> QED
      BY <3>1, <3>2, ClaimedType, PendingType
  <2>2. /\ XpOf(stats[u]) \in Nat /\ XpOf(stats'[u]) \in Nat /\ XpOf(FirstStats[u]) \in Nat
    BY XpType, ConstantsAssumption DEF TypeInv, RowsOK
  <2>3. XpOf(FirstStats[u]) + Claimed(performance[u]) + Pending(Claims(u), leg) <= XpOf(stats[u])
    BY <1>4 DEF Backed
  <2>4. Claimed(performance'[u]) + Pending(Claims(u), leg') + XpOf(stats[u])
            <= Claimed(performance[u]) + Pending(Claims(u), leg) + XpOf(stats'[u])
    OBVIOUS
  <2> QED
    BY <2>1, <2>2, <2>3, <2>4
<1>5. Backed' = (NothingUpserted' /\ NothingRecorded' =>
        \A u \in Users :
            XpOf(FirstStats[u]) + Claimed(performance'[u]) + Pending(Claims(u)', leg')
                <= XpOf(stats'[u]))
  BY DEF Backed
<1> QED
  BY <1>1, <1>2, <1>3, <1>4, <1>5

\* Rows keep their experience, and no leg has more to record than before.
LEMMA BackedRests ==
    ASSUME TypeInv, TypeInv', Backed, request' = request, SentStay,
           \A u \in Users : XpOf(stats'[u]) = XpOf(stats[u]),
           \A u \in Users : Claimed(performance'[u]) = Claimed(performance[u]),
           \A u \in Users : Pending(Claims(u), leg') <= Pending(Claims(u), leg)
    PROVE  Backed'
<1>1. ASSUME NEW u \in Users
      PROVE  Claimed(performance'[u]) + Pending(Claims(u), leg') + XpOf(stats[u])
                <= Claimed(performance[u]) + Pending(Claims(u), leg) + XpOf(stats'[u])
  <2>1. performance[u] \in Histories
    BY DEF TypeInv, RowsOK, Histories
  <2>2. leg \in AllLegs /\ leg' \in AllLegs
    BY DEF TypeInv, CallsOK, AllLegs
  <2>3. /\ Claimed(performance[u]) \in Nat /\ Pending(Claims(u), leg) \in Nat
        /\ Pending(Claims(u), leg') \in Nat /\ XpOf(stats[u]) \in Nat
    BY <2>1, <2>2, ClaimedType, PendingType, XpType DEF TypeInv, RowsOK
  <2> QED
    BY <2>3
<1> QED
  BY <1>1, BackedStep

\* A leg that only changes its label, and does not come to have applied its delta.
LEMMA LabelPends ==
    ASSUME TypeInv, TypeInv', NEW t \in Calls, NEW s \in Sides, NEW label, LegGoes(t, s, label),
           label \notin Earned, NEW C
    PROVE  Pending(C, leg') <= Pending(C, leg)
<1>1. /\ leg'[t][s].at = label
      /\ \A x \in Calls, z \in Sides : x # t \/ z # s => leg'[x][z] = leg[x][z]
  BY LabelUpdate
<1>2. leg \in AllLegs /\ leg' \in AllLegs
  BY DEF TypeInv, CallsOK, AllLegs
<1>3. Earns(C, t, s, leg'[t][s]) = 0 /\ Earns(C, t, s, leg[t][s]) \in Nat
  BY <1>1, <1>2, EarnsType DEF Earns, AllLegs
<1>4. PICK new : new = leg'
  OBVIOUS
<1>5. Pending(C, new) = Pending(C, leg) + (Earns(C, t, s, new[t][s]) - Earns(C, t, s, leg[t][s]))
  BY <1>1, <1>2, <1>4, PendingMoves
<1>6. Pending(C, leg) \in Nat
  BY <1>2, PendingType
<1> QED
  BY <1>3, <1>4, <1>5, <1>6

\* The experience that a row gains is pending for its player at most.
LEMMA XpApplied ==
    ASSUME TypeInv, TypeInv', Backed, request' = request, pc' = pc,
           NEW t \in Calls, NEW s \in Sides, UpdatesStats(t, s),
           EloAllowed(Increased(stats[Player(t, s)], leg[t][s].order))
    PROVE  Backed'
<1> DEFINE v == Player(t, s)
           row == Increased(stats[v], leg[t][s].order)
           xp == leg[t][s].order.xp
<1>1. /\ leg[t][s].at = "update" /\ v \in Users /\ stats[v] # None /\ stats[v] \in Stats
      /\ leg[t][s] \in Legs
  <2>1. leg[t][s].at = "update" /\ leg[t][s] \in Legs
    BY DEF UpdatesStats, TypeInv, CallsOK
  <2>2. stats[v] # None /\ Closes(t)
    BY <2>1 DEF TypeInv, LegsOK
  <2>3. v \in Users
    BY <2>2, RequestKnown DEF TypeInv, RowsOK
  <2> QED
    BY <2>1, <2>2, <2>3 DEF TypeInv, RowsOK
<1>2. stats' = [stats EXCEPT ![v] = row] /\ LegGoes(t, s, "applied") /\ performance' = performance
  BY DEF UpdatesStats
<1>3. xp \in Nat /\ stats[v].xp \in Nat /\ row.xp = stats[v].xp + xp
  <2>1. leg[t][s].order \in Orders /\ stats[v] \in StatsRows
    BY <1>1 DEF Legs, Stats
  <2> QED
    BY <2>1 DEF Orders, StatsRows, Increased
<1>4. row # None
  BY <1>1, IncreasedType, ConstantsAssumption DEF Legs, Stats
<1> HIDE DEF row, xp, v
<1>5. /\ XpOf(stats'[v]) = XpOf(stats[v]) + xp
      /\ \A u \in Users : u # v => stats'[u] = stats[u]
  BY <1>1, <1>2, <1>3, <1>4 DEF TypeInv, RowsOK, XpOf
<1>6. /\ leg'[t][s].at = "applied" /\ leg'[t][s].order.xp = xp
      /\ \A x \in Calls, z \in Sides : x # t \/ z # s => leg'[x][z] = leg[x][z]
  BY <1>2, LabelUpdate DEF xp
<1>7. leg \in AllLegs /\ leg' \in AllLegs
  BY DEF TypeInv, CallsOK, AllLegs
<1>8. ASSUME NEW u \in Users
      PROVE  Claimed(performance'[u]) + Pending(Claims(u), leg') + XpOf(stats[u])
                <= Claimed(performance[u]) + Pending(Claims(u), leg) + XpOf(stats'[u])
  <2>1. PICK C, new : C = Claims(u) /\ new = leg'
    OBVIOUS
  <2>2. Pending(C, new) = Pending(C, leg) + (Earns(C, t, s, new[t][s]) - Earns(C, t, s, leg[t][s]))
    BY <1>6, <1>7, <2>1, PendingMoves
  <2>3. Earns(C, t, s, leg[t][s]) = 0
    BY <1>1 DEF Earns, Earned
  <2>4. Earns(C, t, s, new[t][s]) = IF u = v THEN Earns(C, t, s, new[t][s]) ELSE 0
    BY <2>1 DEF Earns, Claims, v
  <2>5. Earns(C, t, s, new[t][s]) \in {0, xp}
    BY <1>6, <2>1 DEF Earns
  <2>6. XpOf(stats'[u]) = XpOf(stats[u]) + (IF u = v THEN xp ELSE 0)
    BY <1>1, <1>5, XpType DEF TypeInv, RowsOK
  <2>7. /\ Pending(C, leg) \in Nat /\ XpOf(stats[u]) \in Nat
    BY <1>7, PendingType, XpType DEF TypeInv, RowsOK
  <2>8. Claimed(performance[u]) \in Nat
    BY ClaimedType DEF TypeInv, RowsOK, Histories
  <2> QED
    BY <1>2, <1>3, <2>1, <2>2, <2>3, <2>4, <2>5, <2>6, <2>7, <2>8
<1> QED
  BY <1>8, BackedStep DEF SentStay

\* A performance is written for what its player has been given.
LEMMA XpRecorded ==
    ASSUME TypeInv, TypeInv', Backed, request' = request, pc' = pc,
           NEW t \in Calls, NEW s \in Sides, RecordsPerformance(t, s),
           MayInsert(performance[Player(t, s)][request[t].debate])
    PROVE  Backed'
<1> DEFINE v == Player(t, s)
           d == request[t].debate
           row == PerformanceOf(t, s)
           xp == leg[t][s].order.xp
<1>1. /\ leg[t][s].at = "record" /\ Asks(t, "xp") /\ leg[t][s] \in Legs
      /\ v \in Users /\ d \in Debates /\ performance[v][d] = None
  <2>1. leg[t][s].at = "record" /\ Asks(t, "xp") /\ leg[t][s] \in Legs
    BY DEF RecordsPerformance, TypeInv, CallsOK
  <2> QED
    BY <2>1, RequestKnown DEF Asks, Closes, TypeInv, RowsOK, MayInsert
<1>2. /\ performance' = [performance EXCEPT ![v][d] = row] /\ LegGoes(t, s, "recorded")
      /\ stats' = stats
  BY DEF RecordsPerformance
<1>3. xp \in Nat /\ row.xp = xp
  BY <1>1 DEF Legs, Orders, PerformanceOf
<1>4. row \in Performances /\ row # None
  <2>1. performance'[v][d] \in Performances \cup {None}
    BY <1>1 DEF TypeInv, RowsOK
  <2>2. finalScore[t] \in FinalScores /\ leg[t][s].order \in Orders
    BY <1>1 DEF TypeInv, LegsOK, Legs
  <2>3. row \in Performances
    BY <2>2 DEF PerformanceOf, Performances, FinalScores, Orders
  <2> QED
    BY <2>3, ConstantsAssumption
<1>5. /\ performance \in [Users -> Histories] /\ performance' \in [Users -> Histories]
  BY DEF TypeInv, RowsOK, Histories
<1> HIDE DEF row, xp, v, d
<1>6. /\ performance'[v][d] = row
      /\ \A e \in Debates : e # d => performance'[v][e] = performance[v][e]
      /\ \A u \in Users : u # v => performance'[u] = performance[u]
  BY <1>1, <1>2, <1>5 DEF Histories
<1>7. Claimed(performance'[v]) = Claimed(performance[v]) + xp
  <2>1. PICK old, new : old = performance[v] /\ new = performance'[v]
    OBVIOUS
  <2>2. old \in Histories /\ new \in Histories
    BY <1>1, <1>5, <2>1
  <2>3. Claimed(new) = Claimed(old) + (XpOf(new[d]) - XpOf(old[d]))
    BY <1>1, <1>6, <2>1, <2>2, ClaimMoves
  <2>4. XpOf(new[d]) = xp /\ XpOf(old[d]) = 0
    BY <1>1, <1>3, <1>4, <1>6, <2>1 DEF XpOf
  <2> QED
    BY <1>3, <2>1, <2>3, <2>4
<1>8. leg \in AllLegs /\ leg' \in AllLegs
  BY DEF TypeInv, CallsOK, AllLegs
<1>9. /\ leg'[t][s].at = "recorded"
      /\ \A x \in Calls, z \in Sides : x # t \/ z # s => leg'[x][z] = leg[x][z]
  BY <1>2, LabelUpdate
<1>10. ASSUME NEW u \in Users
       PROVE  Claimed(performance'[u]) + Pending(Claims(u), leg') + XpOf(stats[u])
                 <= Claimed(performance[u]) + Pending(Claims(u), leg) + XpOf(stats'[u])
  <2>1. PICK C, new : C = Claims(u) /\ new = leg'
    OBVIOUS
  <2>2. Pending(C, new) = Pending(C, leg) + (Earns(C, t, s, new[t][s]) - Earns(C, t, s, leg[t][s]))
    BY <1>8, <1>9, <2>1, PendingMoves
  <2>3. Earns(C, t, s, new[t][s]) = 0
    BY <1>9, <2>1 DEF Earns, Earned
  <2>4. Earns(C, t, s, leg[t][s]) = IF u = v THEN xp ELSE 0
    <3>1. <<t, s>> \in C <=> u = v
      BY <1>1, <2>1 DEF Claims, v
    <3> QED
      BY <1>1, <3>1 DEF Earns, Earned, xp
  <2>5. Claimed(performance'[u]) = Claimed(performance[u]) + (IF u = v THEN xp ELSE 0)
    BY <1>5, <1>6, <1>7, ClaimedType
  <2>6. Pending(C, leg) \in Nat /\ XpOf(stats[u]) \in Nat /\ Claimed(performance[u]) \in Nat
    BY <1>5, <1>8, PendingType, ClaimedType, XpType DEF TypeInv, RowsOK
  <2> QED
    BY <1>2, <1>3, <2>1, <2>2, <2>3, <2>4, <2>5, <2>6
<1> QED
  BY <1>10, BackedStep DEF SentStay

\* No leg earns anything new, and the rows keep their experience.
LEMMA BackedAlike ==
    ASSUME TypeInv, TypeInv', Backed, request' = request, SentStay,
           stats' = stats, performance' = performance,
           \A C : \A x \in Calls, z \in Sides : Earns(C, x, z, leg'[x][z]) = Earns(C, x, z, leg[x][z])
    PROVE  Backed'
<1>1. ASSUME NEW u \in Users PROVE Pending(Claims(u), leg') <= Pending(Claims(u), leg)
  <2>1. PICK C, new : C = Claims(u) /\ new = leg'
    OBVIOUS
  <2>2. Pending(C, new) = Pending(C, leg)
    BY <2>1, PendingSame
  <2>3. Pending(C, leg) \in Nat
    BY PendingType DEF TypeInv, CallsOK, AllLegs
  <2> QED
    BY <2>1, <2>2, <2>3
<1> QED
  BY <1>1, BackedRests

\* A leg ends or goes on without having applied its delta.
LEMMA BackedLabel ==
    ASSUME TypeInv, TypeInv', Backed, request' = request, SentStay,
           \A u \in Users : XpOf(stats'[u]) = XpOf(stats[u]),
           \A u \in Users : Claimed(performance'[u]) = Claimed(performance[u]),
           NEW t \in Calls, NEW s \in Sides, NEW label, LegGoes(t, s, label), label \notin Earned
    PROVE  Backed'
<1>1. \A C : Pending(C, leg') <= Pending(C, leg)
  BY LabelPends
<1>2. \A u \in Users : Pending(Claims(u), leg') <= Pending(Claims(u), leg)
  BY <1>1
<1> QED
  BY <1>2, BackedRests

\* The Elo of a performance is written beside its experience.
LEMMA EloRecorded ==
    ASSUME TypeInv, TypeInv', NEW t \in Calls, NEW s \in Sides, RecordsElo(t, s)
    PROVE  \A u \in Users : Claimed(performance'[u]) = Claimed(performance[u])
<1> DEFINE v == Player(t, s)
           d == request[t].debate
           elo == leg[t][s].order.elo
           row == [performance[v][d] EXCEPT !.elo = elo]
<1>1. performance \in [Users -> [Debates -> Performances \cup {None}]]
  BY DEF TypeInv, RowsOK
<1>2. CASE performance[v][d] = None
  BY <1>2 DEF RecordsElo
<1>3. CASE performance[v][d] # None
  <2>1. leg[t][s].at = "record" /\ performance' = [performance EXCEPT ![v][d].elo = elo]
    BY <1>3 DEF RecordsElo
  <2>2. Closes(t)
    BY <2>1 DEF TypeInv, LegsOK
  <2>3. v \in Users /\ d \in Debates
    BY <2>2, RequestKnown DEF TypeInv, RowsOK
  <2>4. performance[v][d] \in Performances
    BY <1>1, <1>3, <2>3
  <2> HIDE DEF elo, v, d
  <2>5. row.xp = performance[v][d].xp
    BY <2>4 DEF Performances
  <2>6. performance' = [performance EXCEPT ![v][d] = row]
    BY <1>1, <2>1, <2>3
  <2> HIDE DEF row
  <2>7. \A u \in Users, e \in Debates :
            (u # v \/ e # d => performance'[u][e] = performance[u][e]) /\ performance'[v][d] = row
    BY <1>1, <2>3, <2>6
  <2>8. row # None
    <3>1. performance'[v][d] = row /\ performance'[v][d] \in Performances \cup {None}
      BY <2>3, <2>7 DEF TypeInv, RowsOK
    <3>2. row \in Performances
      <4>1. elo \in Int
        BY DEF TypeInv, CallsOK, Legs, Orders, elo
      <4> QED
        BY <2>4, <4>1 DEF row, Performances
    <3> QED
      BY <3>2, ConstantsAssumption
  <2>9. \A u \in Users, e \in Debates : XpOf(performance'[u][e]) = XpOf(performance[u][e])
    BY <1>3, <2>5, <2>7, <2>8 DEF XpOf
  <2>10. \A u \in Users : XpClaimed(performance'[u]) = XpClaimed(performance[u])
    BY <2>9 DEF XpClaimed
  <2> QED
    BY <2>10 DEF Claimed
<1> QED
  BY <1>2, <1>3

LEMMA NextBacked == ASSUME TypeInv, TypeInv', Backed, [Next]_vars PROVE Backed'
<1> USE DEF tables, locals
<1>0. request' = request /\ SentStay
  BY NextRows, SentStays
<1>1. ASSUME UNCHANGED <<stats, performance, leg>> PROVE Backed'
  BY <1>0, <1>1, BackedAlike
<1>2. ASSUME NEW t \in Calls, NEW s \in Sides, Leg(t, s) PROVE Backed'
  <2>a. ASSUME NEW label, LegGoes(t, s, label), label \notin Earned,
               UNCHANGED <<stats, performance>>
        PROVE  Backed'
    <3>1. /\ \A u \in Users : XpOf(stats'[u]) = XpOf(stats[u])
          /\ \A u \in Users : Claimed(performance'[u]) = Claimed(performance[u])
      BY <2>a
    <3> QED
      BY <1>0, <2>a, <3>1, BackedLabel
  <2>1. CASE ReadsRating(t, s)
    <3>1. leg[t][s].at = "rating" /\ stats' = stats /\ performance' = performance
      BY <2>1 DEF ReadsRating
    <3>2. CASE stats[Player(t, s)] = None
      <4>1. LegGoes(t, s, "missed")
        BY <2>1, <3>2 DEF ReadsRating
      <4> QED
        BY <2>a, <3>1, <4>1 DEF Earned
    <3>3. CASE stats[Player(t, s)] # None
      <4> DEFINE elo == stats[Player(t, s)].elo
                 new == [leg[t][s] EXCEPT !.at = "rated", !.rating = elo]
      <4>1. leg' = [leg EXCEPT ![t][s].at = "rated", ![t][s].rating = elo]
        BY <2>1, <3>3 DEF ReadsRating
      <4> HIDE DEF elo
      <4>2. leg \in [Calls -> [Sides -> Legs]]
        BY DEF TypeInv, CallsOK
      <4>3. new.at = "rated"
        BY <4>2 DEF Legs
      <4>a. leg' = [leg EXCEPT ![t][s] = new]
        BY <4>1, <4>2
      <4> HIDE DEF new
      <4>4. /\ leg'[t][s] = new
            /\ \A x \in Calls, z \in Sides : x # t \/ z # s => leg'[x][z] = leg[x][z]
        BY <4>2, <4>a
      <4>5. \A C : Earns(C, t, s, leg'[t][s]) = Earns(C, t, s, leg[t][s])
        BY <3>1, <4>3, <4>4 DEF Earns, Earned
      <4>6. \A C : \A x \in Calls, z \in Sides :
                Earns(C, x, z, leg'[x][z]) = Earns(C, x, z, leg[x][z])
        BY <4>4, <4>5
      <4> QED
        BY <1>0, <3>1, <4>6, BackedAlike
    <3> QED
      BY <3>2, <3>3
  <2>2. CASE FindsStats(t, s)
    <3>1. /\ stats' = stats /\ performance' = performance
          /\ LegGoes(t, s, "refused") \/ LegGoes(t, s, "insert")
      BY <2>2 DEF FindsStats
    <3> QED
      BY <2>a, <3>1 DEF Earned
  <2>3. CASE InsertsStats(t, s)
    <3>1. performance' = performance /\ LegGoes(t, s, "update")
      BY <2>3 DEF InsertsStats
    <3>2. ASSUME NEW u \in Users PROVE XpOf(stats'[u]) = XpOf(stats[u])
      BY <2>3 DEF InsertsStats, TypeInv, RowsOK, XpOf, NewStats
    <3>3. "update" \notin Earned
      BY DEF Earned
    <3> QED
      BY <1>0, <3>1, <3>2, <3>3, BackedLabel
  <2>4. CASE UpdatesStats(t, s)
    <3>1. CASE EloAllowed(Increased(stats[Player(t, s)], leg[t][s].order))
      <4>1. pc' = pc
        BY <2>4 DEF UpdatesStats
      <4> QED
        BY <1>0, <2>4, <3>1, <4>1, XpApplied
    <3>2. CASE ~EloAllowed(Increased(stats[Player(t, s)], leg[t][s].order))
      <4>1. stats' = stats /\ performance' = performance /\ LegGoes(t, s, "refused")
        BY <2>4, <3>2 DEF UpdatesStats
      <4> QED
        BY <2>a, <4>1 DEF Earned
    <3> QED
      BY <3>1, <3>2
  <2>5. CASE RecordsPerformance(t, s)
    <3>1. CASE MayInsert(performance[Player(t, s)][request[t].debate])
      <4>1. pc' = pc
        BY <2>5 DEF RecordsPerformance
      <4> QED
        BY <1>0, <2>5, <3>1, <4>1, XpRecorded
    <3>2. CASE ~MayInsert(performance[Player(t, s)][request[t].debate])
      <4>1. stats' = stats /\ performance' = performance /\ LegGoes(t, s, "missed")
        BY <2>5, <3>2 DEF RecordsPerformance
      <4> QED
        BY <2>a, <4>1 DEF Earned
    <3> QED
      BY <3>1, <3>2
  <2>6. CASE RecordsElo(t, s)
    <3>1. stats' = stats /\ (LegGoes(t, s, "missed") \/ LegGoes(t, s, "recorded"))
      BY <2>6 DEF RecordsElo
    <3>2. \A u \in Users : Claimed(performance'[u]) = Claimed(performance[u])
      BY <2>6, EloRecorded
    <3>3. \A u \in Users : XpOf(stats'[u]) = XpOf(stats[u])
      BY <3>1
    <3>4. "missed" \notin Earned /\ "recorded" \notin Earned
      BY DEF Earned
    <3> QED
      BY <1>0, <3>1, <3>2, <3>3, <3>4, BackedLabel
  <2> QED
    BY <1>2, <2>1, <2>2, <2>3, <2>4, <2>5, <2>6 DEF Leg
<1>3. ASSUME NEW t \in Calls, Call(t) PROVE Backed'
  <2>a. ASSUME NEW new, leg' = [leg EXCEPT ![t] = new], UNCHANGED <<stats, performance>>,
               \A C : \A s \in Sides : Earns(C, t, s, new[s]) = Earns(C, t, s, leg[t][s])
        PROVE  Backed'
    <3>1. leg'[t] = new /\ \A x \in Calls : x # t => leg'[x] = leg[x]
      BY <2>a DEF TypeInv, CallsOK
    <3>2. \A C : \A x \in Calls, z \in Sides :
              Earns(C, x, z, leg'[x][z]) = Earns(C, x, z, leg[x][z])
      BY <2>a, <3>1
    <3> QED
      BY <1>0, <2>a, <3>2, BackedAlike
  <2>1. CASE ReadsFinalScore(t)
    <3> DEFINE score == final[request[t].debate]
               xp == [s \in Sides |-> Apply(XpOrder(score, s))]
               ratings == [s \in Sides |-> [NoLeg EXCEPT !.at = "rating"]]
    <3>1. UNCHANGED <<stats, performance>> /\ \A s \in Sides : leg[t][s].at = "off"
      BY <2>1 DEF ReadsFinalScore, TypeInv, StagesOK, BothAt
    <3>2. \A s \in Sides : xp[s].at = "find"
      BY DEF Apply
    <3>3. \A s \in Sides : ratings[s].at = "rating"
      BY DEF NoLeg
    <3>4. \/ leg' = leg
          \/ leg' = [leg EXCEPT ![t] = xp]
          \/ leg' = [leg EXCEPT ![t] = ratings]
      BY <2>1 DEF ReadsFinalScore, BothLegs
    <3> HIDE DEF xp, ratings
    <3>5. CASE leg' = [leg EXCEPT ![t] = xp]
      <4>1. \A C : \A s \in Sides : Earns(C, t, s, xp[s]) = Earns(C, t, s, leg[t][s])
        BY <3>1, <3>2 DEF Earns, Earned
      <4> QED
        BY <2>a, <3>1, <3>5, <4>1
    <3>6. CASE leg' = [leg EXCEPT ![t] = ratings]
      <4>1. \A C : \A s \in Sides : Earns(C, t, s, ratings[s]) = Earns(C, t, s, leg[t][s])
        BY <3>1, <3>3 DEF Earns, Earned
      <4> QED
        BY <2>a, <3>1, <3>6, <4>1
    <3> QED
      BY <1>1, <3>1, <3>4, <3>5, <3>6
  <2>2. CASE ComputesElo(t)
    <3> DEFINE new == [s \in Sides |-> Apply(EloOrder(t, s))]
    <3>1. /\ UNCHANGED <<stats, performance>> /\ leg' = [leg EXCEPT ![t] = new]
          /\ \A s \in Sides : leg[t][s].at = "rated"
      BY <2>2 DEF ComputesElo, BothLegs, BothAt
    <3>2. \A s \in Sides : new[s].at = "find"
      BY DEF Apply
    <3> HIDE DEF new
    <3>3. \A C : \A s \in Sides : Earns(C, t, s, new[s]) = Earns(C, t, s, leg[t][s])
      BY <3>1, <3>2 DEF Earns, Earned
    <3> QED
      BY <2>a, <3>1, <3>3
  <2>3. CASE StartsRecording(t)
    <3> DEFINE new == [s \in Sides |-> [leg[t][s] EXCEPT !.at = "record"]]
    <3>1. /\ UNCHANGED <<stats, performance>> /\ leg' = [leg EXCEPT ![t] = new]
          /\ \A s \in Sides : leg[t][s].at = "applied"
      BY <2>3 DEF StartsRecording, BothLegs, Applied, BothAt
    <3>2. ASSUME NEW s \in Sides PROVE new[s].at = "record" /\ new[s].order = leg[t][s].order
      <4>1. \A l \in Legs : LET n == [l EXCEPT !.at = "record"] IN
                n.at = "record" /\ n.order = l.order
        BY DEF Legs
      <4>2. leg[t][s] \in Legs
        BY DEF TypeInv, CallsOK
      <4> QED
        BY <4>1, <4>2
    <3> HIDE DEF new
    <3>3. \A C : \A s \in Sides : Earns(C, t, s, new[s]) = Earns(C, t, s, leg[t][s])
      BY <3>1, <3>2 DEF Earns, Earned
    <3> QED
      BY <2>a, <3>1, <3>3
  <2>4. CASE UpsertsStats(t)
    <3>1. Asks(t, "upsert") /\ (Goto(t, "done") \/ Goto(t, "failed"))
      BY <2>4 DEF UpsertsStats
    <3>2. ~NothingUpserted'
      BY <1>0, <3>1 DEF NothingUpserted, Asks, Goto, TypeInv, CallsOK
    <3> QED
      BY <3>2 DEF Backed
  <2>5. CASE RecordsAsTold(t)
    <3>1. Asks(t, "record") /\ (Goto(t, "done") \/ Goto(t, "failed"))
      BY <2>5 DEF RecordsAsTold
    <3>2. ~NothingRecorded'
      BY <1>0, <3>1 DEF NothingRecorded, Asks, Goto, TypeInv, CallsOK
    <3> QED
      BY <3>2 DEF Backed
  <2>6. CASE CloseAnswers(t) \/ CloseFails(t) \/ TopReadsCache(t) \/ TopLists(t) \/ TopStores(t)
    BY <1>1, <2>6 DEF CloseAnswers, CloseFails, TopReadsCache, TopLists, TopStores
  <2> QED
    BY <1>3, <2>1, <2>2, <2>3, <2>4, <2>5, <2>6 DEF Call
<1>4. CASE Fault
  <2>1. ASSUME NEW t \in Calls, NEW s \in Sides, LegRejects(t, s) PROVE Backed'
    <3>1. /\ stats' = stats /\ performance' = performance
          /\ LegGoes(t, s, "refused") \/ LegGoes(t, s, "missed")
      BY <2>1 DEF LegRejects
    <3>2. /\ \A u \in Users : XpOf(stats'[u]) = XpOf(stats[u])
          /\ \A u \in Users : Claimed(performance'[u]) = Claimed(performance[u])
      BY <3>1
    <3>3. "refused" \notin Earned /\ "missed" \notin Earned
      BY DEF Earned
    <3> QED
      BY <1>0, <3>1, <3>2, <3>3, BackedLabel
  <2> QED
    BY <1>1, <1>4, <2>1 DEF Fault, CallDies, RedisRefuses
<1> QED
  BY <1>1, <1>2, <1>3, <1>4 DEF Next, vars, ScoreStored, AsksAgain, Expires

\* A history never claims experience that the statistics lack, whatever was
\* retried, failed half way or died, for any number of players and debates.
THEOREM HistoryIsBacked == Spec => []HistoryBacked
<1>1. Init => Backed
  <2> SUFFICES ASSUME Init, NEW u \in Users
               PROVE  XpOf(FirstStats[u]) + Claimed(performance[u]) + Pending(Claims(u), leg)
                          <= XpOf(stats[u])
    BY DEF Backed
  <2> DEFINE none == [x \in Calls \X Sides |-> 0]
             nothing == [d \in Debates |-> 0]
  <2>1. XpEarned(Claims(u), leg) = none
    BY DEF Init, XpEarned, Earns, Earned, NoLeg
  <2>2. Pending(Claims(u), leg) = 0
    BY <2>1, FinitePairs, SumZero DEF Pending
  <2>3. XpClaimed(performance[u]) = nothing
    BY DEF Init, XpClaimed, XpOf
  <2>4. Claimed(performance[u]) = 0
    BY <2>3, FiniteAssumption, SumZero DEF Claimed
  <2>5. XpOf(FirstStats[u]) \in Nat
    BY XpType, ConstantsAssumption
  <2> QED
    BY <2>2, <2>4, <2>5 DEF Init
<1>2. TypeInv /\ TypeInv' /\ Backed /\ [Next]_vars => Backed'
  BY NextBacked
<1>3. TypeInv /\ Backed => HistoryBacked
  <2> SUFFICES ASSUME TypeInv, Backed, NothingUpserted, NothingRecorded, NEW u \in Users
               PROVE  XpOf(FirstStats[u]) + RecordedXp(u) <= XpOf(stats[u])
    BY DEF HistoryBacked
  <2>1. RecordedXp(u) = Claimed(performance[u])
    BY DEF RecordedXp, SumFunction, Claimed, XpClaimed
  <2>2. Claimed(performance[u]) \in Nat
    BY ClaimedType DEF TypeInv, RowsOK, Histories
  <2>3. Pending(Claims(u), leg) \in Nat
    BY PendingType DEF TypeInv, CallsOK, AllLegs
  <2>4. XpOf(FirstStats[u]) \in Nat /\ XpOf(stats[u]) \in Nat
    BY XpType, ConstantsAssumption DEF TypeInv, RowsOK
  <2>5. XpOf(FirstStats[u]) + Claimed(performance[u]) + Pending(Claims(u), leg) <= XpOf(stats[u])
    BY DEF Backed
  <2> QED
    BY <2>1, <2>2, <2>3, <2>4, <2>5
<1> QED
  BY <1>1, <1>2, <1>3, TypeInvariant, PTL DEF Spec, Safety

====
