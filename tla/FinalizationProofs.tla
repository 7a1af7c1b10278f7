---- MODULE FinalizationProofs ----
(***************************************************************************)
(* Proofs about Finalization, for every set of debates, spectators,        *)
(* analyses and requests, every concurrency of the runner and any number   *)
(* of faults, unless a theorem says otherwise.                             *)
(***************************************************************************)
EXTENDS Finalization, FiniteSetTheorems, TLAPS

-----------------------------------------------------------------------------
(* Types.  A job serves at most one run at a time and is active while it   *)
(* does, so that an attempt that fails is one the job had left.            *)

AttemptsOK ==
    \A k \in Jobs : job[k].at \notin {"completed", "failed"} => job[k].left >= 1

ServedOK ==
    \A x, y \in Runs :
        /\ run[x].job # None => job[run[x].job].at = "active"
        /\ run[x].job # None /\ run[x].job = run[y].job => x = y

\* What a run knows follows from where it is.
RunOK ==
    \A x \in Runs :
        /\ run[x].at = "idle" => run[x] = Idle
        /\ run[x].at # "idle" => run[x].debate \in Debates
        /\ run[x].at = "saveScore" => run[x].analysis \in Completed
        /\ run[x].at = "countVotes" => run[x].analysis \in Completed
        /\ run[x].job # None => run[x].debate = DebateOf(run[x].job)

\* The program counters that belong to one handler.
CallOK ==
    \A t \in Calls :
        /\ pc[t] \in {"upsertDebate", "enqueue"} => Asks(t, "upsert")
        /\ pc[t] \in {"findVote", "insertVote"} => Asks(t, "vote")
        /\ pc[t] = "storeAnalysis" => Asks(t, "analysis")

TypeInv == TypeOK /\ CallOK /\ AttemptsOK /\ ServedOK /\ RunOK

LEMMA InitType == ASSUME Init PROVE TypeInv
<1> USE ConstantsAssumption
<1>1. TypeOK
  BY DEF Init, TypeOK, JobStates, RunRecords, RunStates, RunAwaits, CallAwaits, Idle, Jobs, Attempts, DebateOf
<1>2. CallOK /\ AttemptsOK /\ ServedOK /\ RunOK
  BY DEF Init, CallOK, AttemptsOK, ServedOK, RunOK, Idle, Attempts
<1> QED
  BY <1>1, <1>2 DEF TypeInv

LEMMA RequestTypes ==
    ASSUME NEW t \in Calls
    PROVE  /\ On(t) \in Debates
           /\ Asks(t, "upsert") => Request[t].status \in Statuses
           /\ Asks(t, "vote") => Ballot(t) \in Votes
           /\ Asks(t, "analysis") => Request[t].result \in Analyses
BY ConstantsAssumption
DEF On, Asks, Work, UpsertWork, VoteWork, AnalysisWork, Ballot, Votes

LEMMA JobDebate == ASSUME NEW k \in Jobs PROVE DebateOf(k) \in Debates
BY DEF Jobs, DebateOf

\* A call moves on: its queue, runs and rows keep their types.
LEMMA CallType ==
    ASSUME TypeInv, NEW t \in Calls, Call(t)
    PROVE  TypeInv'
<1> USE ConstantsAssumption, RequestTypes DEF TypeInv, TypeOK, CallOK, tables, Goto
<1> USE DEF AttemptsOK, ServedOK, RunOK
<1>1. CASE UpsertReads(t)
  BY <1>1 DEF UpsertReads, CallAwaits
<1>2. CASE UpsertWrites(t)
  BY <1>2 DEF UpsertWrites, CallAwaits
<1>3. CASE EnqueueFinalization(t)
  <2> DEFINE k == <<"scoring", On(t)>>
  <2>1. k \in Jobs
    BY DEF Jobs
  <2>2. job' = Added(k) /\ UNCHANGED <<tables, previous, run, faults>>
        /\ pc[t] = "enqueue" /\ pc' = [pc EXCEPT ![t] = "done"]
    BY <1>3 DEF EnqueueFinalization
  <2> HIDE DEF k
  <2>3. job' \in [Jobs -> [at : JobStates, left : 0..3]]
    BY <2>1, <2>2 DEF Added, JobStates
  <2>4. AttemptsOK' /\ ServedOK' /\ RunOK'
    BY <2>1, <2>2 DEF Added
  <2>5. CallOK'
    BY <2>2
  <2> QED
    BY <2>2, <2>3, <2>4, <2>5 DEF CallAwaits
<1>4. CASE VoteFindsDebate(t)
  BY <1>4 DEF VoteFindsDebate, CallAwaits
<1>5. CASE VoteFindsNoOther(t)
  BY <1>5 DEF VoteFindsNoOther, CallAwaits
<1>6. CASE InsertVote(t)
  BY <1>6 DEF InsertVote, CallAwaits
<1>7. CASE AnalysisFindsDebate(t)
  BY <1>7 DEF AnalysisFindsDebate, CallAwaits
<1>8. CASE StoreAnalysis(t)
  BY <1>8 DEF StoreAnalysis, CallAwaits
<1> QED
  BY <1>1, <1>2, <1>3, <1>4, <1>5, <1>6, <1>7, <1>8 DEF Call

\* An attempt that fails leaves the job with what a job in its place has left.
LEMMA RetriedType ==
    ASSUME TypeInv, NEW k \in Jobs, job[k].at = "active", job' = Retried(k)
    PROVE  /\ job' \in [Jobs -> [at : JobStates, left : 0..3]]
           /\ AttemptsOK'
           /\ \A j \in Jobs : j # k => job'[j] = job[j]
           /\ job'[k].at \in {"waiting", "failed"}
<1> DEFINE e == [at |-> IF job[k].left = 1 THEN "failed" ELSE "waiting",
                 left |-> job[k].left - 1]
<1>1. job[k].left \in 1..3
  BY DEF TypeInv, TypeOK, AttemptsOK, JobStates
<1>2. e \in [at : JobStates, left : 0..3] /\ e.at \in {"waiting", "failed"}
      /\ (e.at # "failed" => e.left >= 1)
  BY <1>1 DEF JobStates
<1>3. job' = [job EXCEPT ![k] = e]
  BY DEF Retried
<1> HIDE DEF e
<1> QED
  BY <1>2, <1>3 DEF TypeInv, TypeOK, AttemptsOK

\* Jobs that change place without losing an attempt.
LEMMA MovedType ==
    ASSUME TypeInv, NEW k \in Jobs, NEW place \in JobStates,
           job[k].at \in {"waiting", "active"}, job' = [job EXCEPT ![k].at = place]
    PROVE  /\ job' \in [Jobs -> [at : JobStates, left : 0..3]]
           /\ AttemptsOK'
           /\ \A j \in Jobs : j # k => job'[j] = job[j]
           /\ job'[k].at = place
BY DEF TypeInv, TypeOK, AttemptsOK, JobStates

\* A run ends, and the job it served is no longer active.
LEMMA ReleasedType ==
    ASSUME TypeInv, NEW x \in Runs, run' = Released(x),
           run[x].job # None =>
               \A j \in Jobs : j # run[x].job => job'[j] = job[j],
           run[x].job = None => job' = job
    PROVE  /\ run' \in [Runs -> RunRecords]
           /\ ServedOK' /\ RunOK'
<1> USE ConstantsAssumption DEF TypeInv, TypeOK
<1>1. Idle \in RunRecords /\ Idle.job = None /\ Idle.at = "idle"
  BY DEF Idle, RunRecords, RunStates
<1>2. run' = [run EXCEPT ![x] = Idle]
  BY DEF Released
<1> HIDE DEF Idle
<1>3. ServedOK'
  BY <1>1, <1>2 DEF ServedOK, RunRecords
<1>4. RunOK'
  BY <1>1, <1>2 DEF RunOK
<1> QED
  BY <1>1, <1>2, <1>3, <1>4

\* A run that works on keeps its debate and its job.
LEMMA UpdateType ==
    ASSUME TypeInv, NEW x \in Runs, NEW e \in RunRecords, run' = [run EXCEPT ![x] = e],
           job' = job, run[x].at # "idle", e.at # "idle",
           e.job = run[x].job \/ e.job = None, e.debate = run[x].debate,
           e.at \in {"countVotes", "saveScore"} => e.analysis \in Completed
    PROVE  run' \in [Runs -> RunRecords] /\ ServedOK' /\ RunOK'
<1>1. run' \in [Runs -> RunRecords]
  BY DEF TypeInv, TypeOK
<1>2. ServedOK'
  BY DEF TypeInv, TypeOK, ServedOK
<1>3. RunOK'
  BY DEF TypeInv, TypeOK, RunOK
<1> QED
  BY <1>1, <1>2, <1>3

\* A run keeps its job while it moves or is abandoned.
LEMMA RunType ==
    ASSUME TypeInv, NEW x \in Runs, Run(x)
    PROVE  TypeInv'
<1> USE ConstantsAssumption
<1>a. TypeOK /\ CallOK /\ AttemptsOK /\ ServedOK /\ RunOK
  BY DEF TypeInv
<1>b. ASSUME UNCHANGED <<pc, job>> PROVE CallOK' /\ AttemptsOK'
  BY <1>a, <1>b DEF CallOK, AttemptsOK
<1>1. CASE RunFindsDebate(x)
  BY <1>1, <1>a, <1>b
  DEF RunFindsDebate, RunGoes, TypeInv, TypeOK, ServedOK, RunOK, RunRecords, RunStates, RunAwaits, tables
<1>2. CASE RunFindsAnalysis(x)
  <2> DEFINE found == analysis[run[x].debate]
  <2>1. CASE Usable(found)
    <3> DEFINE e == [run[x] EXCEPT !.at = "countVotes", !.analysis = found]
    <3>1. run' = [run EXCEPT ![x] = e] /\ UNCHANGED <<tables, job, pc, previous, faults>>
          /\ run[x].at = "findAnalysis"
      BY <1>2, <1>a, <2>1 DEF RunFindsAnalysis, TypeOK, RunRecords
    <3>2. e \in RunRecords /\ e.at = "countVotes" /\ e.analysis \in Completed
          /\ e.job = run[x].job /\ e.debate = run[x].debate
      <4>1. run[x] \in RunRecords /\ found \in Completed
        BY <1>a, <2>1 DEF TypeOK, Usable
      <4> HIDE DEF found
      <4> QED
        BY <4>1 DEF RunRecords, RunStates, RunAwaits
    <3> HIDE DEF e, found
    <3> QED
      BY <3>1, <3>2, <1>a, <1>b, UpdateType DEF TypeInv, TypeOK, tables
  <2>2. CASE ~Usable(found)
    <3> DEFINE e == [run[x] EXCEPT !.at = "error"]
    <3>1. run' = [run EXCEPT ![x] = e] /\ UNCHANGED <<tables, job, pc, previous, faults>>
          /\ run[x].at = "findAnalysis"
      BY <1>2, <1>a, <2>2 DEF RunFindsAnalysis, RunGoes, TypeOK, RunRecords
    <3>2. e \in RunRecords /\ e.at = "error"
          /\ e.job = run[x].job /\ e.debate = run[x].debate
      BY <1>a DEF TypeOK, RunRecords, RunStates
    <3> HIDE DEF e, found
    <3> QED
      BY <3>1, <3>2, <1>a, <1>b, UpdateType DEF TypeInv, TypeOK, tables
  <2> QED
    BY <2>1, <2>2
<1>3. CASE RunCountsVotes(x)
  <2> DEFINE e == [run[x] EXCEPT !.at = "saveScore", !.tally = VotesOn(run[x].debate)]
  <2>1. run' = [run EXCEPT ![x] = e] /\ UNCHANGED <<tables, job, pc, previous, faults>>
        /\ run[x].at = "countVotes"
    BY <1>3, <1>a DEF RunCountsVotes, TypeOK, RunRecords
  <2>2. e \in RunRecords /\ e.at = "saveScore" /\ e.analysis = run[x].analysis
        /\ e.job = run[x].job /\ e.debate = run[x].debate
    <3>1. run[x] \in RunRecords /\ VotesOn(run[x].debate) \in SUBSET Votes
      BY <1>a DEF TypeOK, VotesOn
    <3> QED
      BY <3>1 DEF RunRecords, RunStates, RunAwaits
  <2> HIDE DEF e
  <2> QED
    BY <2>1, <2>2, <1>a, <1>b, UpdateType DEF TypeInv, TypeOK, RunOK, tables
<1>4. CASE RunSavesScore(x)
  <2> DEFINE row == [analysis |-> run[x].analysis, tally |-> run[x].tally]
  <2>1. row \in Scores /\ run[x].debate \in Debates
    BY <1>4, <1>a DEF RunSavesScore, TypeOK, RunOK, RunRecords, Scores
  <2>2. final' \in [Debates -> Scores \cup {None}]
    BY <1>4, <1>a, <2>1 DEF RunSavesScore, TypeOK
  <2> QED
    BY <1>4, <1>a, <1>b, <2>2
    DEF RunSavesScore, RunGoes, TypeInv, TypeOK, ServedOK, RunOK, RunRecords, RunStates, RunAwaits
<1>5. CASE JobSucceeds(x)
  <2>1. /\ run[x].job \in Jobs /\ job[run[x].job].at = "active"
        /\ job' = [job EXCEPT ![run[x].job].at = "completed"] /\ run' = Released(x)
        /\ UNCHANGED <<tables, pc, previous, faults>>
    BY <1>5, <1>a DEF JobSucceeds, Settled, TypeOK, RunRecords, ServedOK
  <2>2. "completed" \in JobStates
    BY DEF JobStates
  <2>3. job' \in [Jobs -> [at : JobStates, left : 0..3]] /\ AttemptsOK'
        /\ \A j \in Jobs : j # run[x].job => job'[j] = job[j]
    BY <2>1, <2>2, MovedType
  <2>4. run' \in [Runs -> RunRecords]
        /\ ServedOK' /\ RunOK'
    BY <2>1, <2>3, ReleasedType
  <2> QED
    BY <1>a, <2>1, <2>3, <2>4 DEF TypeInv, TypeOK, CallOK, tables
<1>6. CASE JobFails(x)
  <2>1. /\ run[x].job \in Jobs /\ job[run[x].job].at = "active"
        /\ job' = Retried(run[x].job) /\ run' = Released(x)
        /\ UNCHANGED <<tables, pc, previous, faults>>
    BY <1>6, <1>a DEF JobFails, Rethrown, TypeOK, RunRecords, ServedOK
  <2>3. job' \in [Jobs -> [at : JobStates, left : 0..3]] /\ AttemptsOK'
        /\ \A j \in Jobs : j # run[x].job => job'[j] = job[j]
    BY <2>1, RetriedType
  <2>4. run' \in [Runs -> RunRecords]
        /\ ServedOK' /\ RunOK'
    BY <2>1, <2>3, ReleasedType
  <2> QED
    BY <1>a, <2>1, <2>3, <2>4 DEF TypeInv, TypeOK, CallOK, tables
<1>7. CASE OrphanEnds(x)
  <2>1. run[x].job = None /\ run' = Released(x)
        /\ UNCHANGED <<tables, job, pc, previous, faults>>
    BY <1>7 DEF OrphanEnds
  <2>2. run' \in [Runs -> RunRecords]
        /\ ServedOK' /\ RunOK'
    BY <2>1, ReleasedType
  <2> QED
    BY <1>a, <1>b, <2>1, <2>2 DEF TypeInv, TypeOK, tables
<1> QED
  BY <1>1, <1>2, <1>3, <1>4, <1>5, <1>6, <1>7 DEF Run

LEMMA TakeJobType ==
    ASSUME TypeInv, NEW k \in Jobs, TakeJob(k)
    PROVE  TypeInv'
<1> USE ConstantsAssumption
<1>a. TypeOK /\ CallOK /\ AttemptsOK /\ ServedOK /\ RunOK
  BY DEF TypeInv
<1>1. PICK x \in Runs : run[x] = Idle /\ run' = [run EXCEPT ![x] = RunFor(k)]
  BY DEF TakeJob
<1>2. job[k].at = "waiting" /\ job' = [job EXCEPT ![k].at = "active"]
      /\ UNCHANGED <<tables, pc, previous, faults>>
  BY DEF TakeJob
<1>3. "active" \in JobStates
  BY DEF JobStates
<1>4. job' \in [Jobs -> [at : JobStates, left : 0..3]] /\ AttemptsOK'
      /\ (\A j \in Jobs : j # k => job'[j] = job[j]) /\ job'[k].at = "active"
  BY <1>2, <1>3, MovedType
<1>5. /\ RunFor(k) \in RunRecords
      /\ RunFor(k).at = "findDebate" /\ RunFor(k).job = k
      /\ RunFor(k).debate = DebateOf(k)
  BY JobDebate DEF RunFor, Idle, RunRecords, RunStates, RunAwaits
<1>6. \A y \in Runs : run[y].job # k
  BY <1>2, <1>a DEF ServedOK, TypeOK
<1> HIDE DEF RunFor
<1>7. ServedOK'
  BY <1>1, <1>2, <1>4, <1>5, <1>6, <1>a DEF ServedOK, TypeOK
<1>8. RunOK'
  BY <1>1, <1>5, <1>a, JobDebate DEF RunOK, TypeOK
<1> QED
  BY <1>1, <1>2, <1>4, <1>5, <1>7, <1>8, <1>a DEF TypeInv, TypeOK, CallOK, tables

LEMMA FaultType ==
    ASSUME TypeInv, Fault
    PROVE  TypeInv'
<1> USE ConstantsAssumption
<1>a. TypeOK /\ CallOK /\ AttemptsOK /\ ServedOK /\ RunOK
  BY DEF TypeInv
<1>b. ASSUME faults < MaxFaults, faults' = faults + 1 PROVE faults' \in 0..MaxFaults
  BY <1>a, <1>b DEF TypeOK
<1>1. ASSUME NEW t \in Calls, CallRejects(t) PROVE TypeInv'
  BY <1>1, <1>a, <1>b
  DEF CallRejects, Goto, TypeInv, TypeOK, CallOK, AttemptsOK, ServedOK, RunOK, tables
<1>2. ASSUME NEW x \in Runs, RunRejects(x) PROVE TypeInv'
  BY <1>2, <1>a, <1>b
  DEF RunRejects, RunGoes, RunRecords, RunStates, RunAwaits, TypeInv, TypeOK, CallOK, AttemptsOK,
      ServedOK, RunOK, tables
<1>c. ASSUME NEW x \in Runs, Orphaned(x), run[x].job # None,
             \A j \in Jobs : j # run[x].job => job'[j] = job[j]
      PROVE  /\ run' \in [Runs -> RunRecords]
             /\ ServedOK' /\ RunOK'
  <2> DEFINE e == [run[x] EXCEPT !.job = None]
  <2>1. run' = [run EXCEPT ![x] = e] /\ e.job = None
        /\ e.at = run[x].at /\ e.debate = run[x].debate /\ e.analysis = run[x].analysis
    BY <1>a, <1>c DEF Orphaned, TypeOK, RunRecords
  <2>2. e \in RunRecords
    BY <1>a DEF TypeOK, RunRecords
  <2>3. run[x].at # "idle"
    BY <1>a, <1>c DEF RunOK, Idle
  <2> HIDE DEF e
  <2>4. ServedOK'
    BY <2>1, <2>2, <1>a, <1>c DEF TypeOK, ServedOK, RunRecords
  <2>5. RunOK'
    BY <2>1, <2>2, <2>3, <1>a DEF TypeOK, RunOK
  <2> QED
    BY <2>1, <2>2, <2>4, <2>5, <1>a DEF TypeOK
<1>3. ASSUME NEW x \in Runs, ReplyLost(x) PROVE TypeInv'
  <2>1. /\ run[x].job \in Jobs /\ job[run[x].job].at = "active"
        /\ job' = Retried(run[x].job) /\ Orphaned(x)
        /\ faults < MaxFaults /\ faults' = faults + 1
        /\ UNCHANGED <<tables, pc, previous>>
    BY <1>3, <1>a DEF ReplyLost, Rethrown, TypeOK, RunRecords, ServedOK
  <2>2. job' \in [Jobs -> [at : JobStates, left : 0..3]] /\ AttemptsOK'
        /\ \A j \in Jobs : j # run[x].job => job'[j] = job[j]
    BY <2>1, RetriedType
  <2> QED
    BY <1>a, <1>b, <1>c, <2>1, <2>2 DEF TypeInv, TypeOK, CallOK, tables
<1>4. ASSUME NEW x \in Runs, WorkerDies(x) PROVE TypeInv'
  <2>1. /\ run[x].job \in Jobs /\ job[run[x].job].at = "active"
        /\ job' = [job EXCEPT ![run[x].job].at = "waiting"] /\ Orphaned(x)
        /\ faults < MaxFaults /\ faults' = faults + 1
        /\ UNCHANGED <<tables, pc, previous>>
    BY <1>4, <1>a DEF WorkerDies, TypeOK, RunRecords, ServedOK
  <2>2. "waiting" \in JobStates
    BY DEF JobStates
  <2>3. job' \in [Jobs -> [at : JobStates, left : 0..3]] /\ AttemptsOK'
        /\ \A j \in Jobs : j # run[x].job => job'[j] = job[j]
    BY <2>1, <2>2, MovedType
  <2> QED
    BY <1>a, <1>b, <1>c, <2>1, <2>3 DEF TypeInv, TypeOK, CallOK, tables
<1>5. ASSUME ScoringRestarts PROVE TypeInv'
  <2> DEFINE Next_(x) == IF run[x].job = None THEN Idle ELSE [run[x] EXCEPT !.at = "error"]
  <2>1. /\ pc' = [t \in Calls |-> IF pc[t] \in CallAwaits THEN "failed" ELSE pc[t]]
        /\ run' = [x \in Runs |-> Next_(x)]
        /\ faults < MaxFaults /\ faults' = faults + 1
        /\ UNCHANGED <<tables, job, previous>>
    BY <1>5 DEF ScoringRestarts
  <2>2. \A x \in Runs :
          /\ Next_(x) \in RunRecords
          /\ Next_(x).job = run[x].job
          /\ run[x].job = None => Next_(x) = Idle
          /\ run[x].job # None => Next_(x).at = "error" /\ Next_(x).debate = run[x].debate
    BY <1>a DEF TypeOK, Idle, RunRecords, RunStates
  <2>3. Idle.at = "idle" /\ Idle.job = None
    BY DEF Idle
  <2> HIDE DEF Next_
  <2>4. RunOK'
    BY <2>1, <2>2, <2>3, <1>a, JobDebate DEF RunOK, TypeOK
  <2>5. ServedOK'
    BY <2>1, <2>2, <1>a DEF ServedOK
  <2>6. CallOK' /\ AttemptsOK' /\ pc' \in [Calls -> CallAwaits \cup {"unsent", "done", "failed"}]
    BY <2>1, <1>a DEF CallOK, AttemptsOK, TypeOK
  <2> QED
    BY <1>a, <1>b, <2>1, <2>2, <2>4, <2>5, <2>6 DEF TypeInv, TypeOK, tables
<1> QED
  BY <1>1, <1>2, <1>3, <1>4, <1>5 DEF Fault

LEMMA NextType == ASSUME TypeInv, [Next]_vars PROVE TypeInv'
<1>1. ASSUME NEW d \in Debates, RoomEnqueues(d) PROVE TypeInv'
  <2> DEFINE k == <<"room", d>>
  <2>1. k \in Jobs
    BY DEF Jobs
  <2>2. job[k].at = "absent" /\ job' = Added(k)
        /\ UNCHANGED <<tables, pc, previous, run, faults>>
    BY <1>1 DEF RoomEnqueues
  <2> HIDE DEF k
  <2>3. job' \in [Jobs -> [at : JobStates, left : 0..3]] /\ AttemptsOK' /\ ServedOK'
    BY <2>1, <2>2 DEF TypeInv, TypeOK, Added, JobStates, AttemptsOK, ServedOK
  <2> QED
    BY <2>2, <2>3 DEF TypeInv, TypeOK, CallOK, RunOK, tables
<1>2. CASE UNCHANGED vars
  BY <1>2 DEF vars, tables, TypeInv, TypeOK, CallOK, AttemptsOK, ServedOK, RunOK
<1> QED
  BY <1>1, <1>2, CallType, RunType, TakeJobType, FaultType DEF Next, Quiescent

LEMMA TypeInvariant == Safety => []TypeInv
<1> QED
  BY InitType, NextType, PTL DEF Safety

\* Every row, job, call and run keeps its type, whatever fails and whenever.
THEOREM TypeCorrect == Spec => []TypeOK
<1>1. TypeInv => TypeOK
  BY DEF TypeInv
<1> QED
  BY <1>1, TypeInvariant, PTL DEF Spec

\* The queue, as the workers see it: a job serves one run at a time, is active
\* meanwhile, and has an attempt left for it, although jobs that stall are put
\* back while the run of a dead worker or a broken connection goes on.
OneRunPerJob ==
    \A x \in Runs : run[x].job # None =>
        /\ job[run[x].job].at = "active"
        /\ job[run[x].job].left \in 1..3
        /\ \A y \in Runs : run[y].job = run[x].job => y = x

\* Neither a retry nor a stalled job lets two workers serve one job, nor does a
\* job that has used up its attempts run again (finalization.processor.ts:31 throws
\* on each failure and leaves the retries to the queue).
THEOREM JobsServeOneRun == Spec => []OneRunPerJob
<1>1. TypeInv => OneRunPerJob
  <2> SUFFICES ASSUME TypeInv, NEW x \in Runs, run[x].job # None
               PROVE  /\ job[run[x].job].at = "active"
                      /\ job[run[x].job].left \in 1..3
                      /\ \A y \in Runs : run[y].job = run[x].job => y = x
    BY DEF OneRunPerJob
  <2>1. /\ job[run[x].job].at = "active"
        /\ \A y \in Runs : run[y].job = run[x].job => y = x
    BY DEF TypeInv, ServedOK
  <2>2. run[x].job \in Jobs
    BY ConstantsAssumption DEF TypeInv, TypeOK, RunRecords
  <2>3. job[run[x].job].left \in 1..3
    BY <2>1, <2>2 DEF TypeInv, TypeOK, AttemptsOK
  <2> QED
    BY <2>1, <2>3
<1> QED
  BY <1>1, TypeInvariant, PTL DEF Spec

-----------------------------------------------------------------------------
(* Ballots                                                                 *)

LEMMA VotesChange ==
    ASSUME [Next]_vars PROVE votes' = votes \/ \E t \in Calls : InsertVote(t)
BY DEF Next, vars, tables, Call, UpsertReads, UpsertWrites, EnqueueFinalization,
   RoomEnqueues, VoteFindsDebate, VoteFindsNoOther, AnalysisFindsDebate, StoreAnalysis,
   Run, RunFindsDebate, RunFindsAnalysis, RunCountsVotes, RunSavesScore, TakeJob,
   JobSucceeds, JobFails, OrphanEnds, Fault, CallRejects, RunRejects, ReplyLost,
   WorkerDies, ScoringRestarts, Quiescent

\* A spectator has one ballot per debate, however many of their requests pass
\* the check before the first insert (spectator-votes.service.ts, createVote).
THEOREM OneBallot == Spec => []OneBallotEach
<1>1. Init => OneBallotEach
  BY DEF Init, OneBallotEach
<1>2. ASSUME OneBallotEach, [Next]_vars PROVE OneBallotEach'
  <2>1. CASE votes' = votes
    BY <1>2, <2>1 DEF OneBallotEach
  <2>2. ASSUME NEW t \in Calls, InsertVote(t) PROVE OneBallotEach'
    <3>1. CASE HasVoted(Ballot(t))
      BY <1>2, <2>2, <3>1 DEF InsertVote, InsertAllowed, OneBallotEach
    <3>2. CASE ~HasVoted(Ballot(t))
      BY <1>2, <2>2, <3>2 DEF InsertVote, InsertAllowed, HasVoted, OneBallotEach
    <3> QED
      BY <3>1, <3>2
  <2> QED
    BY <1>2, <2>1, <2>2, VotesChange
<1> QED
  BY <1>1, <1>2, PTL DEF Spec, Safety

-----------------------------------------------------------------------------
(* Scheduling.  What makes the invariant inductive: whoever finds the      *)
(* status at VOTING already, in the table or in what it has read, was      *)
(* preceded by a call that has added the job or is about to.               *)

Scheduled(d) == job[<<"scoring", d>>].at # "absent" \/ AboutToAdd(d)

SchedInv ==
    faults = 0 =>
        /\ \A d \in Debates : status[d] = "VOTING" => Scheduled(d)
        /\ \A t \in Calls : pc[t] = "upsertDebate" /\ previous[t] = "VOTING"
                                => Scheduled(On(t))
        /\ SkippedOnlyIfRedundant

\* No step takes a job out of the queue's knowledge.
LEMMA JobsStay ==
    ASSUME TypeInv, [Next]_vars, NEW k \in Jobs, job[k].at # "absent"
    PROVE  job'[k].at # "absent"
<1>1. job \in [Jobs -> [at : JobStates, left : 0..3]]
  BY DEF TypeInv, TypeOK
<1>2. ASSUME NEW j \in Jobs, job' = Added(j) PROVE job'[k].at # "absent"
  BY <1>1, <1>2 DEF Added
<1>3. ASSUME NEW j \in Jobs, job' = Retried(j) PROVE job'[k].at # "absent"
  BY <1>1, <1>3 DEF Retried
<1>4. ASSUME NEW j \in Jobs, NEW place \in JobStates \ {"absent"},
             job' = [job EXCEPT ![j].at = place]
      PROVE  job'[k].at # "absent"
  BY <1>1, <1>4 DEF JobStates
<1>5. {"active", "completed", "waiting"} \subseteq JobStates \ {"absent"}
  BY DEF JobStates
<1>6. \A x \in Runs : run[x].job # None => run[x].job \in Jobs
  BY DEF TypeInv, TypeOK, RunRecords
<1>7. ASSUME NEW d \in Debates PROVE <<"room", d>> \in Jobs /\ <<"scoring", d>> \in Jobs
  BY DEF Jobs
<1>8. \A t \in Calls : EnqueueFinalization(t) => job' = Added(<<"scoring", On(t)>>)
  BY DEF EnqueueFinalization
<1>9. \A d \in Debates : RoomEnqueues(d) => job' = Added(<<"room", d>>)
  BY DEF RoomEnqueues
<1>10. \A j \in Jobs : TakeJob(j) => job' = [job EXCEPT ![j].at = "active"]
  BY DEF TakeJob
<1>11. \A x \in Runs : JobSucceeds(x) =>
         run[x].job # None /\ job' = [job EXCEPT ![run[x].job].at = "completed"]
  BY DEF JobSucceeds, Settled
<1>12. \A x \in Runs : JobFails(x) \/ ReplyLost(x) =>
         run[x].job # None /\ job' = Retried(run[x].job)
  BY DEF JobFails, ReplyLost, Rethrown
<1>13. \A x \in Runs : WorkerDies(x) =>
         run[x].job # None /\ job' = [job EXCEPT ![run[x].job].at = "waiting"]
  BY DEF WorkerDies
<1>14. \/ job' = job
       \/ \E t \in Calls : EnqueueFinalization(t)
       \/ \E d \in Debates : RoomEnqueues(d)
       \/ \E j \in Jobs : TakeJob(j)
       \/ \E x \in Runs : JobSucceeds(x) \/ JobFails(x) \/ ReplyLost(x) \/ WorkerDies(x)
  BY DEF Next, vars, Call, UpsertReads, UpsertWrites, VoteFindsDebate, VoteFindsNoOther,
     InsertVote, AnalysisFindsDebate, StoreAnalysis, Run, RunFindsDebate,
     RunFindsAnalysis, RunCountsVotes, RunSavesScore, OrphanEnds, Fault, CallRejects,
     RunRejects, ScoringRestarts, Quiescent
<1> QED
  BY <1>2, <1>3, <1>4, <1>5, <1>6, <1>7, <1>8, <1>9, <1>10, <1>11, <1>12, <1>13, <1>14,
     RequestTypes

\* Faults are counted, and are the only steps that are.
LEMMA NoFault ==
    ASSUME TypeInv, [Next]_vars, faults' = 0
    PROVE  ~Fault /\ faults = 0
<1>1. Fault => faults' = faults + 1
  BY DEF Fault, CallRejects, RunRejects, ReplyLost, WorkerDies, ScoringRestarts
<1>2. ~Fault => faults' = faults
  BY DEF Next, vars, Call, UpsertReads, UpsertWrites, EnqueueFinalization, RoomEnqueues,
         VoteFindsDebate, VoteFindsNoOther, InsertVote, AnalysisFindsDebate,
         StoreAnalysis, Run, RunFindsDebate, RunFindsAnalysis, RunCountsVotes,
         RunSavesScore, TakeJob, JobSucceeds, JobFails, OrphanEnds, Quiescent
<1>3. faults \in Nat
  BY DEF TypeInv, TypeOK
<1> QED
  BY <1>1, <1>2, <1>3

\* What a step without faults does to the calls.
LEMMA CallsChange ==
    ASSUME [Next]_vars, ~Fault
    PROVE  (\E t \in Calls : Call(t)) \/ UNCHANGED <<status, pc, previous>>
BY DEF Next, vars, tables, RoomEnqueues, Run, RunFindsDebate, RunFindsAnalysis,
   RunCountsVotes, RunSavesScore, TakeJob, JobSucceeds, JobFails, OrphanEnds, Quiescent

\* Without faults a debate stays scheduled: an add about to be made is made.
LEMMA ScheduledStays ==
    ASSUME TypeInv, [Next]_vars, faults' = 0, NEW d \in Debates, Scheduled(d)
    PROVE  Scheduled(d)'
<1>1. <<"scoring", d>> \in Jobs
  BY DEF Jobs
<1>2. CASE job[<<"scoring", d>>].at # "absent"
  BY <1>1, <1>2, JobsStay DEF Scheduled
<1>3. ASSUME NEW t \in Calls, pc[t] = "enqueue", On(t) = d PROVE Scheduled(d)'
  <2>1. CASE EnqueueFinalization(t)
    BY <1>1, <1>3, <2>1 DEF EnqueueFinalization, Added, Scheduled, TypeInv, TypeOK, JobStates
  <2>2. CASE ~EnqueueFinalization(t)
    <3>1. ASSUME NEW u \in Calls, Call(u) PROVE pc'[t] = pc[t]
      <4>1. u # t
        BY <1>3, <2>2, <3>1
        DEF Call, UpsertReads, UpsertWrites, VoteFindsDebate, VoteFindsNoOther,
            InsertVote, AnalysisFindsDebate, StoreAnalysis
      <4>2. \E label : pc' = [pc EXCEPT ![u] = label]
        BY <3>1
        DEF Call, UpsertReads, UpsertWrites, EnqueueFinalization, VoteFindsDebate,
            VoteFindsNoOther, InsertVote, AnalysisFindsDebate, StoreAnalysis, Goto
      <4> QED
        BY <4>1, <4>2 DEF TypeInv, TypeOK
    <3>2. pc'[t] = pc[t]
      BY <3>1, NoFault, CallsChange
    <3> QED
      BY <1>3, <3>2 DEF Scheduled, AboutToAdd, On
  <2> QED
    BY <2>1, <2>2
<1> QED
  BY <1>2, <1>3 DEF Scheduled, AboutToAdd

LEMMA SchedNext == ASSUME TypeInv, SchedInv, [Next]_vars PROVE SchedInv'
<1> SUFFICES ASSUME faults' = 0 PROVE SchedInv'
  BY DEF SchedInv
<1>1. ~Fault /\ faults = 0
  BY NoFault
<1>2. \A d \in Debates : Scheduled(d) => Scheduled(d)'
  BY ScheduledStays
<1>3. /\ \A d \in Debates : status[d] = "VOTING" => Scheduled(d)
      /\ \A t \in Calls : pc[t] = "upsertDebate" /\ previous[t] = "VOTING"
                              => Scheduled(On(t))
      /\ \A t \in Calls : AnsweredVoting(t) => Scheduled(On(t))
  BY <1>1 DEF SchedInv, SkippedOnlyIfRedundant, Scheduled
<1>4. \A t \in Calls : On(t) \in Debates
  BY RequestTypes
<1>5. ASSUME NEW t \in Calls, UpsertReads(t) PROVE SchedInv'
  BY <1>2, <1>3, <1>4, <1>5
  DEF UpsertReads, Goto, tables, SchedInv, SkippedOnlyIfRedundant, Scheduled,
      AnsweredVoting, TypeInv, TypeOK, On, Asks
<1>6. ASSUME NEW t \in Calls, UpsertWrites(t) PROVE SchedInv'
  <2>1. Asks(t, "upsert") /\ pc[t] = "upsertDebate"
        /\ status' = [status EXCEPT ![On(t)] = Request[t].status]
        /\ pc' = [pc EXCEPT ![t] = IF OpensVoting(previous[t], Request[t].status)
                                   THEN "enqueue" ELSE "done"]
        /\ UNCHANGED <<previous, job>>
    BY <1>6 DEF UpsertWrites, Goto, TypeInv, CallOK
  <2>2. Request[t].status = "VOTING" => Scheduled(On(t))'
    <3>1. CASE previous[t] = "VOTING"
      BY <1>2, <1>3, <1>4, <2>1, <3>1
    <3>2. CASE previous[t] # "VOTING" /\ Request[t].status = "VOTING"
      BY <2>1, <3>2 DEF OpensVoting, Scheduled, AboutToAdd, On, TypeInv, TypeOK
    <3> QED
      BY <3>1, <3>2
  <2>3. \A d \in Debates : status'[d] = "VOTING" => Scheduled(d)'
    BY <1>2, <1>3, <1>4, <2>1, <2>2 DEF TypeInv, TypeOK
  <2>4. \A u \in Calls : pc'[u] = "upsertDebate" /\ previous'[u] = "VOTING"
                             => Scheduled(On(u))'
    BY <1>2, <1>3, <1>4, <2>1 DEF TypeInv, TypeOK, On
  <2>5. \A u \in Calls : AnsweredVoting(u)' => Scheduled(On(u))'
    BY <1>2, <1>3, <1>4, <2>1, <2>2 DEF TypeInv, TypeOK, On, Asks, AnsweredVoting
  <2> QED
    BY <2>3, <2>4, <2>5 DEF SchedInv, SkippedOnlyIfRedundant, Scheduled, On
<1>7. ASSUME NEW t \in Calls, EnqueueFinalization(t) PROVE SchedInv'
  <2>1. Scheduled(On(t))'
    BY <1>4, <1>7, <1>2 DEF EnqueueFinalization, Scheduled, AboutToAdd
  <2> QED
    BY <1>2, <1>3, <1>4, <1>7, <2>1
    DEF EnqueueFinalization, Goto, tables, SchedInv, SkippedOnlyIfRedundant, Scheduled,
        AnsweredVoting, TypeInv, TypeOK, On, Asks
<1>8. ASSUME NEW t \in Calls, \/ VoteFindsDebate(t) \/ VoteFindsNoOther(t) \/ InsertVote(t)
                              \/ AnalysisFindsDebate(t) \/ StoreAnalysis(t)
      PROVE SchedInv'
  <2>1. ~Asks(t, "upsert")
    BY <1>8 DEF VoteFindsDebate, VoteFindsNoOther, InsertVote, AnalysisFindsDebate,
                StoreAnalysis, TypeInv, CallOK, Asks
  <2>2. UNCHANGED <<status, previous>> /\ pc'[t] # "upsertDebate"
        /\ \A u \in Calls : u # t => pc'[u] = pc[u]
    BY <1>8 DEF VoteFindsDebate, VoteFindsNoOther, InsertVote, AnalysisFindsDebate,
                StoreAnalysis, Goto, tables, TypeInv, TypeOK
  <2> QED
    BY <1>2, <1>3, <1>4, <2>1, <2>2
    DEF SchedInv, SkippedOnlyIfRedundant, Scheduled, AnsweredVoting, On, Asks
<1>9. ASSUME UNCHANGED <<status, pc, previous>> PROVE SchedInv'
  BY <1>2, <1>3, <1>4, <1>9
  DEF SchedInv, SkippedOnlyIfRedundant, Scheduled, AnsweredVoting, On, Asks
<1>10. (\E t \in Calls : Call(t)) \/ UNCHANGED <<status, pc, previous>>
  BY <1>1, CallsChange
<1> QED
  BY <1>5, <1>6, <1>7, <1>8, <1>9, <1>10 DEF Call

\* As long as nothing fails, an answered upsert to VOTING leaves the debate's
\* finalization job behind, however upserts of all statuses interleave.
THEOREM VotingIsScheduled == Spec => []VotingScheduled
<1>1. Init => SchedInv
  BY DEF Init, SchedInv, SkippedOnlyIfRedundant, AnsweredVoting
<1>2. SchedInv => VotingScheduled
  BY DEF SchedInv, VotingScheduled
<1> QED
  BY <1>1, <1>2, SchedNext, TypeInvariant, PTL DEF Spec, Safety

-----------------------------------------------------------------------------
(* Tallies.  With one worker slot and no faults no two runs are ever under *)
(* way, so what a run has counted is at least what the stored score counts.*)

SoleInv ==
    faults = 0 =>
        /\ \A x \in Runs : run[x].at # "idle" => run[x].job # None
        /\ \A x, y \in Runs : run[x].job # None /\ run[y].job # None => x = y
        /\ \A d \in Debates : final[d] # None => final[d].tally \subseteq VotesOn(d)
        /\ \A x \in Runs : run[x].at = "saveScore" =>
             /\ run[x].tally \subseteq VotesOn(run[x].debate)
             /\ final[run[x].debate] # None =>
                  final[run[x].debate].tally \subseteq run[x].tally

LEMMA VotesStay ==
    ASSUME [Next]_vars, NEW d \in Debates PROVE VotesOn(d) \subseteq VotesOn(d)'
<1>1. votes \subseteq votes'
  BY VotesChange DEF InsertVote
<1> QED
  BY <1>1 DEF VotesOn

LEMMA FirstOfAll ==
    ASSUME Concurrency = 1, NEW k \in Jobs, TakeJob(k), NEW x \in Runs
    PROVE  run[x].job = None
<1>1. IsFiniteSet(Busy) /\ Cardinality(Busy) < 1
  BY ConstantsAssumption, FS_Subset DEF TakeJob, Busy
<1>2. Cardinality(Busy) \in Nat
  BY <1>1, FS_CardinalityType
<1>3. Busy = {}
  BY <1>1, <1>2, FS_EmptySet
<1> QED
  BY <1>3 DEF Busy

LEMMA SoleNext ==
    ASSUME Concurrency = 1, TypeInv, SoleInv, [Next]_vars
    PROVE  SoleInv'
<1> SUFFICES ASSUME faults' = 0 PROVE SoleInv'
  BY DEF SoleInv
<1> DEFINE NewVotesOn(d) == {v \in votes' : v.debate = d}
<1>a. /\ ~Fault /\ faults = 0
      /\ \A d \in Debates : VotesOn(d) \subseteq NewVotesOn(d)
  BY NoFault, VotesStay DEF VotesOn
<1>f. SoleInv' <=>
        /\ \A x \in Runs : run'[x].at # "idle" => run'[x].job # None
        /\ \A x, y \in Runs : run'[x].job # None /\ run'[y].job # None => x = y
        /\ \A d \in Debates : final'[d] # None => final'[d].tally \subseteq NewVotesOn(d)
        /\ \A x \in Runs : run'[x].at = "saveScore" =>
             /\ run'[x].tally \subseteq NewVotesOn(run'[x].debate)
             /\ final'[run'[x].debate] # None =>
                  final'[run'[x].debate].tally \subseteq run'[x].tally
  BY DEF SoleInv, VotesOn
<1> HIDE DEF NewVotesOn
<1>b. /\ run \in [Runs -> RunRecords] /\ final \in [Debates -> Scores \cup {None}]
      /\ \A x \in Runs : run[x].at # "idle" => run[x].debate \in Debates
  BY DEF TypeInv, TypeOK, RunOK
<1>c. /\ \A x \in Runs : run[x].at # "idle" => run[x].job # None
      /\ \A x, y \in Runs : run[x].job # None /\ run[y].job # None => x = y
      /\ \A d \in Debates : final[d] # None => final[d].tally \subseteq VotesOn(d)
      /\ \A x \in Runs : run[x].at = "saveScore" =>
           /\ run[x].tally \subseteq VotesOn(run[x].debate)
           /\ final[run[x].debate] # None =>
                final[run[x].debate].tally \subseteq run[x].tally
  BY <1>a DEF SoleInv
<1>d. \A d \in Debates : final[d] # None => final[d].tally \subseteq NewVotesOn(d)
  BY <1>a, <1>c
\* A run that moves, its job and debate kept, without saving a score.
<1>e. ASSUME NEW x \in Runs, NEW e \in RunRecords, run' = [run EXCEPT ![x] = e],
             final' = final, e.at # "idle" => e.job # None, e.job \in {None, run[x].job},
             e.at = "saveScore" => /\ e.debate \in Debates
                                   /\ e.tally = VotesOn(e.debate)
      PROVE  SoleInv'
  <2>1. \A y \in Runs : y # x => run'[y] = run[y]
    BY <1>b, <1>e
  <2>2. run'[x] = e
    BY <1>b, <1>e
  <2>3. \A y \in Runs : run'[y].at # "idle" => run'[y].job # None
    BY <1>c, <1>e, <2>1, <2>2
  <2>4. \A y, z \in Runs : run'[y].job # None /\ run'[z].job # None => y = z
    BY <1>c, <1>e, <2>1, <2>2
  <2>5. ASSUME NEW y \in Runs, run'[y].at = "saveScore"
        PROVE  /\ run'[y].tally \subseteq NewVotesOn(run'[y].debate)
               /\ final'[run'[y].debate] # None =>
                    final'[run'[y].debate].tally \subseteq run'[y].tally
    <3>1. CASE y = x
      BY <1>a, <1>c, <1>e, <2>2, <2>5, <3>1
    <3>2. CASE y # x
      BY <1>a, <1>b, <1>c, <1>e, <2>1, <2>5, <3>2
    <3> QED
      BY <3>1, <3>2
  <2> QED
    BY <1>d, <1>e, <1>f, <2>3, <2>4, <2>5
<1>1. ASSUME UNCHANGED <<run, final>> PROVE SoleInv'
  <2>1. ASSUME NEW x \in Runs, run[x].at = "saveScore"
        PROVE  run[x].tally \subseteq NewVotesOn(run[x].debate)
    BY <1>a, <1>b, <1>c, <2>1
  <2> QED
    BY <1>1, <1>c, <1>d, <1>f, <2>1
<1>2. ASSUME NEW k \in Jobs, TakeJob(k) PROVE SoleInv'
  <2>1. PICK x \in Runs : run' = [run EXCEPT ![x] = RunFor(k)]
    BY <1>2 DEF TakeJob
  <2>2. \A y \in Runs : run[y].job = None /\ run[y].at = "idle"
    BY <1>2, <1>c, FirstOfAll
  <2>3. RunFor(k).at = "findDebate" /\ RunFor(k).job # None
    BY ConstantsAssumption DEF RunFor, Idle
  <2>4. final' = final
    BY <1>2 DEF TakeJob, tables
  <2> HIDE DEF RunFor
  <2>5. \A y \in Runs : y # x => run'[y] = run[y]
    BY <1>b, <2>1
  <2>6. run'[x] = RunFor(k)
    BY <1>b, <2>1
  <2> QED
    BY <1>d, <1>f, <2>2, <2>3, <2>4, <2>5, <2>6
<1>3. ASSUME NEW x \in Runs,
             \/ RunFindsDebate(x) \/ RunFindsAnalysis(x) \/ RunCountsVotes(x)
             \/ JobSucceeds(x) \/ JobFails(x) \/ OrphanEnds(x)
      PROVE  SoleInv'
  <2>1. run[x] \in RunRecords /\ final' = final
    BY <1>3, <1>b DEF RunFindsDebate, RunFindsAnalysis, RunCountsVotes, JobSucceeds,
                      JobFails, OrphanEnds, tables
  <2>2. CASE RunFindsDebate(x)
    <3> DEFINE label == IF Scorable(run[x].debate) THEN "findAnalysis" ELSE "error"
               e == [run[x] EXCEPT !.at = label]
    <3>1. run' = [run EXCEPT ![x] = e] /\ run[x].at = "findDebate"
      BY <2>1, <2>2, <1>b DEF RunFindsDebate, RunGoes, RunRecords
    <3>2. label \in RunStates /\ label \notin {"idle", "saveScore"}
      BY DEF RunStates, RunAwaits
    <3> HIDE DEF label
    <3>3. e \in RunRecords /\ e.at = label /\ e.job = run[x].job
      BY <2>1, <3>2 DEF RunRecords
    <3> HIDE DEF e
    <3> QED
      BY <1>c, <1>e, <2>1, <3>1, <3>2, <3>3
  <2>3. CASE RunFindsAnalysis(x)
    <3> DEFINE found == analysis[run[x].debate]
    <3>1. CASE Usable(found)
      <4> DEFINE e == [run[x] EXCEPT !.at = "countVotes", !.analysis = found]
      <4>1. run' = [run EXCEPT ![x] = e] /\ run[x].at = "findAnalysis"
        BY <2>1, <2>3, <3>1, <1>b DEF RunFindsAnalysis, RunRecords
      <4>2. found \in Completed
        BY <3>1 DEF Usable
      <4> HIDE DEF found
      <4>3. e \in RunRecords /\ e.at = "countVotes" /\ e.job = run[x].job
        BY <2>1, <4>2 DEF RunRecords, RunStates, RunAwaits
      <4> HIDE DEF e
      <4> QED
        BY <1>c, <1>e, <2>1, <4>1, <4>3
    <3>2. CASE ~Usable(found)
      <4> DEFINE e == [run[x] EXCEPT !.at = "error"]
      <4>1. run' = [run EXCEPT ![x] = e] /\ run[x].at = "findAnalysis"
        BY <2>1, <2>3, <3>2, <1>b DEF RunFindsAnalysis, RunGoes, RunRecords
      <4>2. e \in RunRecords /\ e.at = "error" /\ e.job = run[x].job
        BY <2>1 DEF RunRecords, RunStates
      <4> HIDE DEF e, found
      <4> QED
        BY <1>c, <1>e, <2>1, <4>1, <4>2
    <3> QED
      BY <3>1, <3>2
  <2>4. CASE RunCountsVotes(x)
    <3> DEFINE e == [run[x] EXCEPT !.at = "saveScore", !.tally = VotesOn(run[x].debate)]
    <3>1. run' = [run EXCEPT ![x] = e] /\ run[x].at = "countVotes"
      BY <2>1, <2>4, <1>b DEF RunCountsVotes, RunRecords
    <3>2. VotesOn(run[x].debate) \in SUBSET Votes
      BY DEF VotesOn, TypeInv, TypeOK
    <3>3. e \in RunRecords /\ e.at = "saveScore" /\ e.job = run[x].job
          /\ e.debate = run[x].debate /\ e.tally = VotesOn(run[x].debate)
      BY <2>1, <3>2 DEF RunRecords, RunStates, RunAwaits
    <3> HIDE DEF e
    <3> QED
      BY <1>b, <1>c, <1>e, <2>1, <3>1, <3>3
  <2>5. CASE JobSucceeds(x) \/ JobFails(x) \/ OrphanEnds(x)
    <3>1. run' = [run EXCEPT ![x] = Idle]
      BY <2>5 DEF JobSucceeds, JobFails, OrphanEnds, Released
    <3>2. Idle \in RunRecords /\ Idle.at = "idle" /\ Idle.job = None
      BY DEF Idle, RunRecords, RunStates
    <3> QED
      BY <1>e, <2>1, <3>1, <3>2
  <2> QED
    BY <1>3, <2>2, <2>3, <2>4, <2>5
<1>4. ASSUME NEW x \in Runs, RunSavesScore(x) PROVE SoleInv'
  <2> DEFINE d == run[x].debate
             row == [analysis |-> run[x].analysis, tally |-> run[x].tally]
             e == [run[x] EXCEPT !.at = "reply"]
  <2>1. /\ run[x].at = "saveScore" /\ final' = [final EXCEPT ![d] = row]
        /\ run' = [run EXCEPT ![x] = e] /\ run[x] \in RunRecords
    BY <1>4, <1>b DEF RunSavesScore, RunGoes
  <2>2. row.tally = run[x].tally /\ e.at = "reply" /\ e.job = run[x].job /\ d \in Debates
    BY <2>1, <1>b DEF RunRecords
  <2>3. run[x].job # None /\ run[x].tally \subseteq NewVotesOn(d)
    BY <2>1, <2>2, <1>a, <1>c
  <2>4. \A y \in Runs : y # x => run'[y] = run[y] /\ run[y].at = "idle"
    BY <2>1, <2>3, <1>b, <1>c
  <2>5. \A b \in Debates : final'[b] = IF b = d THEN row ELSE final[b]
    BY <2>1, <1>b
  <2>6. run'[x] = e
    BY <2>1, <1>b
  <2> HIDE DEF row, e, d
  <2>7. \A b \in Debates : final'[b] # None => final'[b].tally \subseteq NewVotesOn(b)
    BY <1>d, <2>2, <2>3, <2>5
  <2>8. \A y, z \in Runs : run'[y].job # None /\ run'[z].job # None => y = z
    BY <1>c, <2>2, <2>4, <2>6
  <2>9. \A y \in Runs : run'[y].at # "saveScore"
                        /\ (run'[y].at # "idle" => run'[y].job # None)
    BY <2>2, <2>3, <2>4, <2>6
  <2> QED
    BY <1>f, <2>7, <2>8, <2>9
<1>5. UNCHANGED <<run, final>> \/ (\E k \in Jobs : TakeJob(k)) \/ \E x \in Runs : Run(x)
  BY <1>a DEF Next, vars, tables, Call, UpsertReads, UpsertWrites, EnqueueFinalization,
     RoomEnqueues, VoteFindsDebate, VoteFindsNoOther, InsertVote, AnalysisFindsDebate,
     StoreAnalysis, Quiescent
<1> QED
  BY <1>1, <1>2, <1>3, <1>4, <1>5 DEF Run

\* With one worker slot and no faults a stored score is only ever replaced by
\* one that counts every vote it counted: a stale count cannot overwrite it.
THEOREM TallyNeverShrinks ==
    ASSUME Concurrency = 1 PROVE Spec => TallyOnlyGrows
<1>1. Init => SoleInv
  BY DEF Init, SoleInv, Idle
<1>2. ASSUME TypeInv, SoleInv, [Next]_vars, faults = 0,
             NEW d \in Debates, final[d] # None
      PROVE  final[d].tally \subseteq final'[d].tally
  <2>1. ASSUME NEW x \in Runs, RunSavesScore(x) PROVE final[d].tally \subseteq final'[d].tally
    BY <1>2, <2>1 DEF RunSavesScore, SoleInv, TypeInv, TypeOK
  <2>2. final' = final \/ \E x \in Runs : RunSavesScore(x)
    BY <1>2 DEF Next, vars, tables, Call, UpsertReads, UpsertWrites, EnqueueFinalization,
       RoomEnqueues, VoteFindsDebate, VoteFindsNoOther, InsertVote, AnalysisFindsDebate,
       StoreAnalysis, Run, RunFindsDebate, RunFindsAnalysis, RunCountsVotes, TakeJob,
       JobSucceeds, JobFails, OrphanEnds, Fault, CallRejects, RunRejects, ReplyLost,
       WorkerDies, ScoringRestarts, Quiescent
  <2> QED
    BY <2>1, <2>2
<1>3. TypeInv /\ SoleInv /\ [Next]_vars =>
        [faults = 0 => \A d \in Debates :
           final[d] # None => final[d].tally \subseteq final'[d].tally]_vars
  BY <1>2
<1> QED
  BY <1>1, <1>3, SoleNext, TypeInvariant, PTL DEF Spec, Safety, TallyOnlyGrows

-----------------------------------------------------------------------------
(* What a completed job leaves behind.                                     *)

\* A count is of votes that were cast, a run that replies has saved, and nobody
\* takes a score away.
ScoreInv ==
    /\ \A x \in Runs :
          /\ run[x].at = "saveScore" => run[x].tally \subseteq VotesOn(run[x].debate)
          /\ run[x].at = "reply" => final[run[x].debate] # None
    /\ \A d \in Debates : final[d] # None => final[d].tally \subseteq VotesOn(d)
    /\ \A k \in Jobs : job[k].at = "completed" => final[DebateOf(k)] # None

\* Rows are only added, and replaced by rows that say as little or as much.
LEMMA FinalStays ==
    ASSUME TypeInv, ScoreInv, [Next]_vars
    PROVE  \A d \in Debates :
              /\ final[d] # None => final'[d] # None
              /\ final'[d] # None => final'[d].tally \subseteq VotesOn(d)'
<1>1. \A d \in Debates : VotesOn(d) \subseteq VotesOn(d)'
  BY VotesStay
<1>2. CASE final' = final
  BY <1>1, <1>2 DEF ScoreInv
<1>3. ASSUME NEW x \in Runs, RunSavesScore(x)
      PROVE  \A d \in Debates :
                /\ final[d] # None => final'[d] # None
                /\ final'[d] # None => final'[d].tally \subseteq VotesOn(d)'
  <2> DEFINE new == [analysis |-> run[x].analysis, tally |-> run[x].tally]
  <2>1. run[x].debate \in Debates /\ run[x].at = "saveScore"
    BY <1>3 DEF RunSavesScore, TypeInv, RunOK
  <2>2. new \in Scores
    BY <2>1 DEF TypeInv, TypeOK, RunOK, RunRecords, Scores
  <2>3. new # None
    BY <2>2, ConstantsAssumption
  <2>4. \A d \in Debates : final'[d] = IF d = run[x].debate THEN new ELSE final[d]
    BY <1>3, <2>1 DEF RunSavesScore, TypeInv, TypeOK
  <2> QED
    BY <1>1, <2>1, <2>3, <2>4 DEF ScoreInv
<1> QED
  BY <1>2, <1>3
  DEF Next, vars, tables, Call, UpsertReads, UpsertWrites, EnqueueFinalization,
      RoomEnqueues, VoteFindsDebate, VoteFindsNoOther, InsertVote, AnalysisFindsDebate,
      StoreAnalysis, TakeJob, Run, RunFindsDebate, RunFindsAnalysis, RunCountsVotes,
      JobSucceeds, JobFails, OrphanEnds, Fault, CallRejects, RunRejects, ReplyLost,
      WorkerDies, ScoringRestarts, Quiescent

\* A run comes to saveScore by counting and to reply by saving.
LEMMA RunsScore ==
    ASSUME TypeInv, ScoreInv, [Next]_vars, NEW x \in Runs
    PROVE  (/\ run[x].at = "saveScore" => run[x].tally \subseteq VotesOn(run[x].debate)
            /\ run[x].at = "reply" => final[run[x].debate] # None)'
<1> USE DEF Idle
<1>1. \A d \in Debates : VotesOn(d) \subseteq VotesOn(d)'
  BY VotesStay
<1>2. run[x].at # "idle" => run[x].debate \in Debates
  BY DEF TypeInv, RunOK
<1>3. CASE run'[x].at = run[x].at /\ run'[x].debate = run[x].debate
                                 /\ run'[x].tally = run[x].tally
  <2>1. CASE run[x].at \in {"saveScore", "reply"}
    <3>1. run[x].debate \in Debates
      BY <1>2, <2>1
    <3>2. VotesOn(run[x].debate) \subseteq {v \in votes' : v.debate = run[x].debate}
      BY <1>1, <3>1 DEF VotesOn
    <3>3. final[run[x].debate] # None => final'[run[x].debate] # None
      BY <3>1, FinalStays
    <3> QED
      BY <1>3, <3>2, <3>3 DEF ScoreInv, VotesOn
  <2>2. CASE run[x].at \notin {"saveScore", "reply"}
    BY <1>3, <2>2
  <2> QED
    BY <2>1, <2>2
<1>4. CASE run'[x].at \notin {"saveScore", "reply"}
  BY <1>4
<1>5. CASE RunCountsVotes(x)
  <2>1. /\ run'[x].at = "saveScore" /\ run'[x].debate = run[x].debate
        /\ run'[x].tally = VotesOn(run[x].debate) /\ run[x].debate \in Debates
    BY <1>2, <1>5 DEF RunCountsVotes, TypeInv, TypeOK, RunRecords
  <2>2. VotesOn(run[x].debate) \subseteq {v \in votes' : v.debate = run[x].debate}
    BY <1>1, <2>1 DEF VotesOn
  <2> QED
    BY <2>1, <2>2 DEF VotesOn
<1>6. CASE RunSavesScore(x)
  <2> DEFINE new == [analysis |-> run[x].analysis, tally |-> run[x].tally]
  <2>1. /\ run'[x].at = "reply" /\ run'[x].debate = run[x].debate
        /\ run[x].debate \in Debates /\ run[x].at = "saveScore"
    BY <1>2, <1>6 DEF RunSavesScore, RunGoes, TypeInv, TypeOK, RunRecords
  <2>2. new \in Scores
    BY <2>1 DEF TypeInv, TypeOK, RunOK, RunRecords, Scores
  <2>3. final'[run[x].debate] = new
    BY <1>6, <2>1 DEF RunSavesScore, TypeInv, TypeOK
  <2> QED
    BY <2>1, <2>2, <2>3, ConstantsAssumption
<1>7. ASSUME NEW y \in Runs, Run(y), y # x
      PROVE  run'[x] = run[x]
  BY <1>7 DEF Run, RunFindsDebate, RunFindsAnalysis, RunCountsVotes, RunSavesScore,
              JobSucceeds, JobFails, OrphanEnds, RunGoes, Released, TypeInv, TypeOK
<1>8. CASE Run(x)
  BY <1>4, <1>5, <1>6, <1>8
  DEF Run, RunFindsDebate, RunFindsAnalysis, JobSucceeds, JobFails, OrphanEnds, RunGoes,
      Released, TypeInv, TypeOK, RunRecords
<1>9. ASSUME NEW k \in Jobs, TakeJob(k)
      PROVE  run'[x] = run[x] \/ run'[x].at = "findDebate"
  BY <1>9 DEF TakeJob, RunFor, TypeInv, TypeOK
<1>10. CASE Fault
  <2>1. ASSUME NEW y \in Runs, RunRejects(y)
        PROVE  run'[x] = run[x] \/ run'[x].at = "error"
    BY <2>1 DEF RunRejects, RunGoes, TypeInv, TypeOK, RunRecords
  <2>2. ASSUME NEW y \in Runs, ReplyLost(y) \/ WorkerDies(y)
        PROVE  run'[x].at = run[x].at /\ run'[x].debate = run[x].debate
                                      /\ run'[x].tally = run[x].tally
    BY <2>2 DEF ReplyLost, WorkerDies, Orphaned, TypeInv, TypeOK, RunRecords
  <2>3. CASE ScoringRestarts
    BY <2>3, <1>4 DEF ScoringRestarts, TypeInv, TypeOK, RunRecords
  <2>4. ASSUME NEW t \in Calls, CallRejects(t)
        PROVE  run' = run
    BY <2>4 DEF CallRejects
  <2> QED
    BY <1>3, <1>4, <1>10, <2>1, <2>2, <2>3, <2>4 DEF Fault
<1>11. (\E t \in Calls : Call(t)) \/ (\E d \in Debates : RoomEnqueues(d)) \/ UNCHANGED vars
          => run' = run
  BY DEF Call, UpsertReads, UpsertWrites, EnqueueFinalization, VoteFindsDebate,
         VoteFindsNoOther, InsertVote, AnalysisFindsDebate, StoreAnalysis, RoomEnqueues, vars
<1> QED
  BY <1>3, <1>4, <1>7, <1>8, <1>9, <1>10, <1>11 DEF Next, Quiescent

\* A job is completed by the reply of a run that served it.
LEMMA JobsScore ==
    ASSUME TypeInv, ScoreInv, [Next]_vars, NEW k \in Jobs, job'[k].at = "completed"
    PROVE  final'[DebateOf(k)] # None
<1>1. CASE job[k].at = "completed"
  BY <1>1, FinalStays, JobDebate DEF ScoreInv
<1>2. ASSUME NEW x \in Runs, JobSucceeds(x)
      PROVE  job'[k].at = job[k].at \/ k = run[x].job
  BY <1>2 DEF JobSucceeds, Settled, TypeInv, TypeOK
<1>3. ASSUME NEW x \in Runs, JobSucceeds(x), k = run[x].job
      PROVE  final'[DebateOf(k)] # None
  <2>1. run[x].at = "reply" /\ run[x].debate = DebateOf(k)
    BY <1>3, ConstantsAssumption DEF JobSucceeds, TypeInv, RunOK
  <2>2. final[DebateOf(k)] # None
    BY <2>1 DEF ScoreInv
  <2> QED
    BY <2>2, FinalStays, JobDebate
<1>4. ASSUME NEW x \in Runs, JobFails(x) \/ ReplyLost(x)
      PROVE  job'[k].at = job[k].at \/ job'[k].at # "completed"
  <2>1. job' = Retried(run[x].job) /\ run[x].job # None
    BY <1>4 DEF JobFails, ReplyLost, Rethrown
  <2>2. run[x].job \in Jobs /\ job[run[x].job].at = "active"
    BY <2>1 DEF TypeInv, TypeOK, RunRecords, ServedOK
  <2> QED
    BY <2>1, <2>2, RetriedType
<1>5. ASSUME NEW x \in Runs, WorkerDies(x)
      PROVE  job'[k].at = job[k].at \/ job'[k].at # "completed"
  BY <1>5 DEF WorkerDies, TypeInv, TypeOK
<1>6. ASSUME NEW j \in Jobs, TakeJob(j) \/ job' = Added(j)
      PROVE  job'[k].at = job[k].at \/ job'[k].at # "completed"
  BY <1>6 DEF TakeJob, Added, TypeInv, TypeOK
<1>7. ASSUME NEW d \in Debates, RoomEnqueues(d)
      PROVE  \E j \in Jobs : job' = Added(j)
  BY <1>7 DEF RoomEnqueues, Jobs
<1>8. ASSUME NEW t \in Calls, EnqueueFinalization(t)
      PROVE  \E j \in Jobs : job' = Added(j)
  BY <1>8, RequestTypes DEF EnqueueFinalization, Jobs
<1>9. CASE job' = job
  BY <1>1, <1>9
<1> QED
  BY <1>1, <1>2, <1>3, <1>4, <1>5, <1>6, <1>7, <1>8, <1>9
  DEF Next, vars, Call, UpsertReads, UpsertWrites, VoteFindsDebate, VoteFindsNoOther,
      InsertVote, AnalysisFindsDebate, StoreAnalysis, Run, RunFindsDebate,
      RunFindsAnalysis, RunCountsVotes, RunSavesScore, OrphanEnds, Fault, CallRejects,
      RunRejects, ScoringRestarts, Quiescent

\* Whatever crashes, times out or is retried: a job that is over has left a score
\* behind, which counts votes that were cast on its debate and no others.
THEOREM CompletedJobsScored == Spec => []CompletedMeansScored
<1>1. Init => ScoreInv
  BY ConstantsAssumption DEF Init, ScoreInv, Idle
<1>2. TypeInv /\ ScoreInv /\ [Next]_vars => ScoreInv'
  <2> SUFFICES ASSUME TypeInv, ScoreInv, [Next]_vars PROVE ScoreInv'
    OBVIOUS
  <2> QED
    BY FinalStays, RunsScore, JobsScore DEF ScoreInv
<1>3. ScoreInv => CompletedMeansScored
  BY JobDebate DEF ScoreInv, CompletedMeansScored
<1> QED
  BY <1>1, <1>2, <1>3, TypeInvariant, PTL DEF Spec, Safety

====
