---- MODULE Finalization ----
(***************************************************************************)
(* From an open vote to a stored score: the scoring service (debates,      *)
(* ballots, AI analyses, final scores), the debate.finalize queue, and the *)
(* finalization runner that works it off.                                  *)
(*                                                                         *)
(* A call is a request to the scoring service; a run is one execution of   *)
(* computeFinalDebateScore, asked for by a worker slot of the runner.  An  *)
(* action is one query or one queue operation.  A run outlives the worker  *)
(* that asked for it if the connection breaks.                             *)
(*                                                                         *)
(* Scores are functions of an analysis and of the votes counted, so a      *)
(* final score is kept as that pair.  The queue (BullMQ, external) holds a *)
(* delayed or backed-off job as "waiting": how long it waits is left out,  *)
(* and so is the removal of old completed and failed jobs.                 *)
(***************************************************************************)
EXTENDS Naturals, FiniteSets

CONSTANTS
    Debates, Users,
    Completed, Failed,  \* the AI analyses that may be submitted, by status
    Calls, Request,     \* gRPC requests, each sent at most once: [Calls -> Work]
    RoomDebates,        \* debates the debate service queues a job for as well
    Runs,               \* identities for executions of computeFinalDebateScore
    Concurrency,        \* WORKER_CONCURRENCY
    None,
    MaxFaults           \* bound on rejected awaits, lost workers and restarts

VARIABLES
    status,    \* debates.status, or "ABSENT" while there is no such row
    votes,     \* rows of spectator_votes
    analysis,  \* rows of debate_ai_analysis_results, or None
    final,     \* rows of debate_final_scores, or None
    job,       \* the jobs of the queue: where they are, attempts left
    pc,        \* where each call is
    previous,  \* `previous` in upsertDebate()
    run,       \* what each run is doing, for which job
    faults

tables == <<status, votes, analysis, final>>
vars == <<tables, job, pc, previous, run, faults>>

Statuses == {"PENDING", "RUNNING", "VOTING", "CLOSED"}
VOTABLE_STATUSES == {"RUNNING", "VOTING"}
Analyses == Completed \cup Failed

Votes == [debate : Debates, user : Users, side : {"FOR", "AGAINST"}]
Scores == [analysis : Completed, tally : SUBSET Votes]

UpsertWork == [op : {"upsert"}, debate : Debates, status : Statuses]
AnalysisWork == [op : {"analysis"}, debate : Debates, result : Analyses]
VoteWork == [op : {"vote"}, debate : Debates, user : Users, side : {"FOR", "AGAINST"}]
Work == UpsertWork \cup AnalysisWork \cup VoteWork

\* A job is named by who added it: the scoring service gives it the id
\* finalize:<debate>, the debate service gives it none.
Jobs == {"scoring", "room"} \X Debates
Attempts(k) == IF k[1] = "scoring" THEN 3 ELSE 1
DebateOf(k) == k[2]

ASSUME ConstantsAssumption ==
    /\ Completed \cap Failed = {}
    /\ None \notin Analyses \cup Scores \cup Jobs
    /\ Request \in [Calls -> Work]
    /\ RoomDebates \subseteq Debates
    /\ IsFiniteSet(Runs)
    /\ Concurrency \in Nat \ {0}
    /\ MaxFaults \in Nat

CallAwaits == {"upsertDebate", "enqueue", "findVote", "insertVote", "storeAnalysis"}
RunAwaits == {"findDebate", "findAnalysis", "countVotes", "saveScore"}
Idle == [at |-> "idle", job |-> None, debate |-> None, analysis |-> None, tally |-> {}]

Init ==
    /\ status = [d \in Debates |-> "ABSENT"]
    /\ votes = {}
    /\ analysis = [d \in Debates |-> None]
    /\ final = [d \in Debates |-> None]
    /\ job = [k \in Jobs |-> [at |-> "absent", left |-> Attempts(k)]]
    /\ pc = [t \in Calls |-> "unsent"]
    /\ previous = [t \in Calls |-> "ABSENT"]
    /\ run = [x \in Runs |-> Idle]
    /\ faults = 0

Goto(t, label) == pc' = [pc EXCEPT ![t] = label]
On(t) == Request[t].debate
Asks(t, op) == Request[t].op = op
Ballot(t) ==
    [debate |-> On(t), user |-> Request[t].user, side |-> Request[t].side]
VotesOn(d) == {v \in votes : v.debate = d}

-----------------------------------------------------------------------------
(* upsertDebate                                                            *)

UpsertReads(t) ==
    /\ pc[t] = "unsent" /\ Asks(t, "upsert")
    /\ previous' = [previous EXCEPT ![t] = status[On(t)]]
    /\ Goto(t, "upsertDebate")
    /\ UNCHANGED <<tables, job, run, faults>>

\* Mutant: only a debate that was running is scheduled.
OpensFromRunning(old, new) == new = "VOTING" /\ old = "RUNNING"

OpensVoting(old, new) == new = "VOTING" /\ old # "VOTING"

\* The upsert writes the status asked for, whatever it has become meanwhile.
UpsertWrites(t) ==
    /\ pc[t] = "upsertDebate"
    /\ status' = [status EXCEPT ![On(t)] = Request[t].status]
    /\ Goto(t, IF OpensVoting(previous[t], Request[t].status) THEN "enqueue" ELSE "done")
    /\ UNCHANGED <<votes, analysis, final, job, previous, run, faults>>

\* An add whose id the queue knows changes nothing, wherever that job is.
Added(k) ==
    IF job[k].at = "absent" THEN [job EXCEPT ![k].at = "waiting"] ELSE job

EnqueueFinalization(t) ==
    /\ pc[t] = "enqueue"
    /\ job' = Added(<<"scoring", On(t)>>)
    /\ Goto(t, "done")
    /\ UNCHANGED <<tables, previous, run, faults>>

\* The debate service opens the vote of its room and adds a job of its own to
\* the same queue, without an id (once per room: see DebateRoom).
RoomEnqueues(d) ==
    /\ d \in RoomDebates
    /\ job[<<"room", d>>].at = "absent"
    /\ job' = Added(<<"room", d>>)
    /\ UNCHANGED <<tables, pc, previous, run, faults>>

-----------------------------------------------------------------------------
(* createVote and storeAiAnalysisResult                                    *)

VoteFindsDebate(t) ==
    /\ pc[t] = "unsent" /\ Asks(t, "vote")
    /\ Goto(t, IF status[On(t)] \in VOTABLE_STATUSES THEN "findVote" ELSE "failed")
    /\ UNCHANGED <<tables, job, previous, run, faults>>

HasVoted(v) == \E w \in votes : w.debate = v.debate /\ w.user = v.user

VoteFindsNoOther(t) ==
    /\ pc[t] = "findVote"
    /\ Goto(t, IF HasVoted(Ballot(t)) THEN "failed" ELSE "insertVote")
    /\ UNCHANGED <<tables, job, previous, run, faults>>

\* Mutant: the vote read before the insert is all that keeps ballots unique.
Unconstrained(v) == TRUE

\* spectator_votes_debate_user_unique
InsertAllowed(v) == ~HasVoted(v)

InsertVote(t) ==
    /\ pc[t] = "insertVote"
    /\ IF InsertAllowed(Ballot(t))
       THEN /\ votes' = votes \cup {Ballot(t)}
            /\ Goto(t, "done")
       ELSE /\ Goto(t, "failed")
            /\ UNCHANGED votes
    /\ UNCHANGED <<status, analysis, final, job, previous, run, faults>>

AnalysisFindsDebate(t) ==
    /\ pc[t] = "unsent" /\ Asks(t, "analysis")
    /\ Goto(t, IF status[On(t)] = "ABSENT" THEN "failed" ELSE "storeAnalysis")
    /\ UNCHANGED <<tables, job, previous, run, faults>>

\* The latest analysis replaces the one before it, a failed one a completed one.
StoreAnalysis(t) ==
    /\ pc[t] = "storeAnalysis"
    /\ analysis' = [analysis EXCEPT ![On(t)] = Request[t].result]
    /\ Goto(t, "done")
    /\ UNCHANGED <<status, votes, final, job, previous, run, faults>>

-----------------------------------------------------------------------------
(* computeFinalDebateScore                                                 *)

RunGoes(x, label) == run' = [run EXCEPT ![x].at = label]

\* Mutant: a debate is only scored once it is closed.
ScorableIfClosed(d) == status[d] = "CLOSED"

Scorable(d) == status[d] # "ABSENT"

RunFindsDebate(x) ==
    /\ run[x].at = "findDebate"
    /\ RunGoes(x, IF Scorable(run[x].debate) THEN "findAnalysis" ELSE "error")
    /\ UNCHANGED <<tables, job, pc, previous, faults>>

\* Mutant: the status of the analysis is not looked at.
AnyAnalysis(found) == found # None

\* COMPLETED; the contract makes sure that such a row has both scores.
Usable(found) == found \in Completed

RunFindsAnalysis(x) ==
    LET found == analysis[run[x].debate] IN
    /\ run[x].at = "findAnalysis"
    /\ IF Usable(found)
       THEN run' = [run EXCEPT ![x].at = "countVotes", ![x].analysis = found]
       ELSE RunGoes(x, "error")
    /\ UNCHANGED <<tables, job, pc, previous, faults>>

RunCountsVotes(x) ==
    /\ run[x].at = "countVotes"
    /\ run' = [run EXCEPT ![x].at = "saveScore", ![x].tally = VotesOn(run[x].debate)]
    /\ UNCHANGED <<tables, job, pc, previous, faults>>

\* One upsert: the row of an earlier run is overwritten.
RunSavesScore(x) ==
    /\ run[x].at = "saveScore"
    /\ final' = [final EXCEPT ![run[x].debate] =
                   [analysis |-> run[x].analysis, tally |-> run[x].tally]]
    /\ RunGoes(x, "reply")
    /\ UNCHANGED <<status, votes, analysis, job, pc, previous, faults>>

-----------------------------------------------------------------------------
(* The runner: worker slots take jobs and call the scoring service.        *)

\* Mutant: the worker is given no concurrency and takes whatever waits.
NeverBusy == {}

Busy == {x \in Runs : run[x].job # None}

RunFor(k) == [Idle EXCEPT !.at = "findDebate", !.debate = DebateOf(k), !.job = k]

TakeJob(k) ==
    /\ job[k].at = "waiting"
    /\ Cardinality(Busy) < Concurrency
    /\ job' = [job EXCEPT ![k].at = "active"]
    /\ \E x \in Runs : run[x] = Idle /\ run' = [run EXCEPT ![x] = RunFor(k)]
    /\ UNCHANGED <<tables, pc, previous, faults>>

Settled(k) == [job EXCEPT ![k].at = "completed"]

\* A rejected attempt: back to the queue, unless it was the last.
Retried(k) ==
    [job EXCEPT ![k] =
       [at |-> IF @.left = 1 THEN "failed" ELSE "waiting", left |-> @.left - 1]]

Released(x) == [run EXCEPT ![x] = Idle]

JobSucceeds(x) ==
    /\ run[x].at = "reply" /\ run[x].job # None
    /\ job' = Settled(run[x].job)
    /\ run' = Released(x)
    /\ UNCHANGED <<tables, pc, previous, faults>>

\* Mutant: the processor logs the error and returns.
Swallowed(k) == Settled(k)

\* process() logs the error and throws it again.
Rethrown(k) == Retried(k)

JobFails(x) ==
    /\ run[x].at = "error" /\ run[x].job # None
    /\ job' = Rethrown(run[x].job)
    /\ run' = Released(x)
    /\ UNCHANGED <<tables, pc, previous, faults>>

\* A run nobody waits for any more just ends.
OrphanEnds(x) ==
    /\ run[x].at \in {"reply", "error"} /\ run[x].job = None
    /\ run' = Released(x)
    /\ UNCHANGED <<tables, job, pc, previous, faults>>

-----------------------------------------------------------------------------
(* Faults, bounded by MaxFaults                                            *)

\* A query or an add rejects and the handler throws.
CallRejects(t) ==
    /\ faults < MaxFaults /\ pc[t] \in CallAwaits
    /\ Goto(t, "failed")
    /\ faults' = faults + 1
    /\ UNCHANGED <<tables, job, previous, run>>

RunRejects(x) ==
    /\ faults < MaxFaults /\ run[x].at \in RunAwaits
    /\ RunGoes(x, "error")
    /\ faults' = faults + 1
    /\ UNCHANGED <<tables, job, pc, previous>>

Orphaned(x) == run' = [run EXCEPT ![x].job = None]

\* The connection breaks: the attempt fails, the run goes on.
ReplyLost(x) ==
    /\ faults < MaxFaults /\ run[x].job # None
    /\ job' = Rethrown(run[x].job)
    /\ Orphaned(x)
    /\ faults' = faults + 1
    /\ UNCHANGED <<tables, pc, previous>>

\* The runner dies: its stalled job is put back, at no cost in attempts.
WorkerDies(x) ==
    /\ faults < MaxFaults /\ run[x].job # None
    /\ job' = [job EXCEPT ![run[x].job].at = "waiting"]
    /\ Orphaned(x)
    /\ faults' = faults + 1
    /\ UNCHANGED <<tables, pc, previous>>

\* The scoring service dies with all that it was doing, and starts again.
ScoringRestarts ==
    /\ faults < MaxFaults
    /\ pc' = [t \in Calls |-> IF pc[t] \in CallAwaits THEN "failed" ELSE pc[t]]
    /\ run' = [x \in Runs |-> IF run[x].job = None THEN Idle
                              ELSE [run[x] EXCEPT !.at = "error"]]
    /\ faults' = faults + 1
    /\ UNCHANGED <<tables, job, previous>>

-----------------------------------------------------------------------------

Call(t) ==
    \/ UpsertReads(t)
    \/ UpsertWrites(t)
    \/ EnqueueFinalization(t)
    \/ VoteFindsDebate(t)
    \/ VoteFindsNoOther(t)
    \/ InsertVote(t)
    \/ AnalysisFindsDebate(t)
    \/ StoreAnalysis(t)

Run(x) ==
    \/ RunFindsDebate(x)
    \/ RunFindsAnalysis(x)
    \/ RunCountsVotes(x)
    \/ RunSavesScore(x)
    \/ JobSucceeds(x)
    \/ JobFails(x)
    \/ OrphanEnds(x)

Fault ==
    \/ \E t \in Calls : CallRejects(t)
    \/ \E x \in Runs : RunRejects(x) \/ ReplyLost(x) \/ WorkerDies(x)
    \/ ScoringRestarts

\* Nothing sent is unanswered and no job waits: nothing need happen.
Quiescent ==
    /\ \A t \in Calls : pc[t] \in {"unsent", "done", "failed"}
    /\ \A k \in Jobs : job[k].at \in {"absent", "completed", "failed"}
    /\ UNCHANGED vars

Next ==
    \/ \E t \in Calls : Call(t)
    \/ \E d \in Debates : RoomEnqueues(d)
    \/ \E k \in Jobs : TakeJob(k)
    \/ \E x \in Runs : Run(x)
    \/ Fault
    \/ Quiescent

\* Clients may send nothing; what was sent is worked on, and the worker takes
\* a job whose delay is over.
Fairness ==
    /\ \A t \in Calls : WF_vars(pc[t] # "unsent" /\ Call(t))
    /\ \A k \in Jobs : WF_vars(TakeJob(k))
    /\ \A x \in Runs : WF_vars(Run(x))

Safety == Init /\ [][Next]_vars
Spec == Safety /\ Fairness

-----------------------------------------------------------------------------

JobStates == {"absent", "waiting", "active", "completed", "failed"}
RunStates == RunAwaits \cup {"idle", "reply", "error"}
RunRecords ==
    [at : RunStates, job : Jobs \cup {None}, debate : Debates \cup {None},
     analysis : Completed \cup {None}, tally : SUBSET Votes]

TypeOK ==
    /\ status \in [Debates -> Statuses \cup {"ABSENT"}]
    /\ votes \subseteq Votes
    /\ analysis \in [Debates -> Analyses \cup {None}]
    /\ final \in [Debates -> Scores \cup {None}]
    /\ job \in [Jobs -> [at : JobStates, left : 0..3]]
    /\ pc \in [Calls -> CallAwaits \cup {"unsent", "done", "failed"}]
    /\ previous \in [Calls -> Statuses \cup {"ABSENT"}]
    /\ run \in [Runs -> RunRecords]
    /\ faults \in 0..MaxFaults

\* Of the requests of one spectator racing past the check for an existing vote,
\* one is stored.
OneBallotEach ==
    \A v, w \in votes : v.debate = w.debate /\ v.user = w.user => v = w

AboutToAdd(d) == \E t \in Calls : pc[t] = "enqueue" /\ On(t) = d

AnsweredVoting(t) == /\ pc[t] = "done" /\ Asks(t, "upsert")
                     /\ Request[t].status = "VOTING"

\* An upsert to VOTING that was answered, with or without an add of its own,
\* leaves a finalization job behind: skipping an add loses nothing.
SkippedOnlyIfRedundant ==
    \A t \in Calls : AnsweredVoting(t) =>
        job[<<"scoring", On(t)>>].at # "absent" \/ AboutToAdd(On(t))

\* So it is as long as no add was lost, however upserts interleave.
VotingScheduled == faults = 0 => SkippedOnlyIfRedundant

\* With one worker slot and no faults, the score of a debate is only replaced
\* by one that counts at least the votes it counted: runs of the two jobs of a
\* debate do not overlap, so a stale count cannot overwrite a newer one.
TallyOnlyGrows ==
    [][faults = 0 => \A d \in Debates :
         final[d] # None => final[d].tally \subseteq final'[d].tally]_vars

\* A job that is over has left a score behind, computed from a completed
\* analysis and from votes that were cast on that debate.
CompletedMeansScored ==
    \A k \in Jobs : job[k].at = "completed" =>
        /\ final[DebateOf(k)] # None
        /\ final[DebateOf(k)].tally \subseteq VotesOn(DebateOf(k))

\* A job still in the queue when the analysis is there produces the score.
AnalysedDebateIsScored ==
    \A k \in Jobs :
        job[k].at = "waiting" /\ analysis[DebateOf(k)] \in Completed
          ~> \/ final[DebateOf(k)] # None
             \/ analysis[DebateOf(k)] \notin Completed
             \/ faults > 0

\* At most one finalization of a debate, even if VOTING is reached repeatedly.
FinalizedAtMostOnce ==
    \A j, k \in Jobs :
        /\ job[j].at = "completed" /\ job[k].at = "completed"
        /\ DebateOf(j) = DebateOf(k)
        => j = k

====
