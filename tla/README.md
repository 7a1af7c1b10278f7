# Verification of the debate platform

TLA+ models, TLC runs and TLAPS proofs for the microservices of this
repository: a debate service that runs rooms, a scoring service that collects
ballots and computes results, a queue and a runner that finalize debates, the
ranking, profile, auth and gateway services around them, the package that asks
a language model for an analysis, and the web application in front.
`PROJECT.json` lists the components, the runs, the hazards, the theorems, and
for every definition that models code the lines it models.

## The system

| Component | State | Operations | Interacts with |
|---|---|---|---|
| Debate service (`services/debate`) | tables rooms, participants, messages, room_transitions; two in-memory maps of timers | createRoom, joinRoom, transition, sendMessage, getRoom, getReplay; two timer callbacks | adds jobs to two queues |
| Scoring service (`services/scoring`) | tables debates, spectator_votes, debate_ai_analysis_results, debate_final_scores | upsertDebate, createSpectatorVote, storeAiAnalysisResult, computeFinalDebateScore, read-only RPCs | adds a delayed finalization job |
| Queue and finalization runner (`packages/queue`, `packages/runner`, `runners/finalization`) | BullMQ jobs in Redis | take, call scoring, complete or retry | calls computeFinalDebateScore |
| Ranking service (`services/ranking`) | performances, a 30 s leaderboard cache in Redis | recordPerformance, computeXp/EloForDebateClose, getLeaderboard | reads final scores, calls the profile service |
| Profile service (`services/profile`) | profiles, player_stats | create, update, delete; upsertPlayerStats, applyPlayerStatsDelta, listTopPlayerStats | called by ranking, auth and clients |
| Auth service (`services/auth`) | users | signup, login | provisions a profile |
| Gateway (`services/gateway`) | subscribers per channel, one heartbeat per stream | REST to gRPC, session cookie and guard, event streams, announcement of votes | calls the services |
| AI package (`packages/ai`) | none | one chat completion with timeouts and retries, a strict parser, fallbacks | no caller yet |
| Web application (`apps/web`) | session in localStorage, cookie, one page per tab | signup, login, logout, the pages and their fetches, votes | calls the gateway |
| Shared packages, contracts, tooling | none | validation, logging, configuration, types | |

No service of the repository calls the debate service's `transition`, the
scoring service's `upsertDebate` and `storeAiAnalysisResult` or the ranking
service's computations on its own account: they are RPCs for clients, so the
models let clients call them in any order.

### What is hard

Every handler is asynchronous: Node runs one callback at a time, so code is
atomic between two awaits and anything may happen across one. Nearly all the
hazards follow from that: participants read before a seat is taken
(debate.service.ts:88 against 102), a state checked before an UPDATE that does
not look at it (53-62, room.repository.ts:32-35), timers that share maps keyed
by room (166-193) and are lost in a crash, jobs added after a commit (70,
scoring.service.ts:47-56), computations that overlap when a reply is lost,
results overwritten by whoever writes last, statistics changed by one RPC and
recorded by another (ranking.service.ts:111), an email looked up before it is
inserted, a session written two awaits after its cookie (App.tsx:55), and
fetches of a page that answer when it shows something else. `PROJECT.json`
lists each at its line with the properties that cover it.

### What makes each component correct

- *Debate service*: a room gathers two debaters, starts once with a question,
  ends once, and hands out one finalization job; its timers can be cancelled
  and none is forgotten; whoever reads a room is shown one that makes sense.
- *Scoring*: one ballot per spectator; an opened vote leads to a finalization
  job; a score counts votes that were cast, and never fewer than the score it
  replaces.
- *Runner*: a completed job has left a score; an analysed debate is scored.
- *Ranking and profile*: Elo only moves between players, the history claims no
  experience that the statistics lack, one computation per debate succeeds, and
  the leaderboard is right in the end.
- *Auth and profile*: one account per email, true answers, no profile
  overwritten by its provisioning.
- *Realtime*: each stream gets each event of its channels once, in order; a vote
  is announced once.
- *AI*: always an answer, always one the scoring service accepts, and a reason
  that tells what was tried.
- *Web*: cookie, localStorage and sessions follow the logins in order, pages show
  what their route says, and none loads for ever.

## Modules

| Module | Models | Role |
|---|---|---|
| `DebateState` | debate-state.ts | states and allowed transitions |
| `DebateRoom`, `MCDebateRoom` | debate.service.ts, room.repository.ts, db/schema.ts | the debate service |
| `RoomLifecycle` | none: what a room promises | abstract specification, implemented by `DebateRoom` |
| `DebateReplay`, `MCDebateReplay` | getRoom, getReplay | readers composed with `DebateRoom` |
| `Finalization`, `MCFinalization` | scoring.service.ts, spectator-votes.service.ts, scoring.repository.ts, debate-jobs.producer.ts, the runner | from an open vote to a stored score |
| `ScoreMath` | percentages, weighted scores, XP, Elo, tiers | arithmetic used by `Ranking` and `AiAnalysis` |
| `Ranking`, `MCRanking` | ranking.service.ts, the statistics part of profile.service.ts and their repositories | what a closed debate is worth |
| `Realtime`, `MCRealtime` | realtime.service.ts, the vote endpoint of gateway.controller.ts | event streams |
| `AiAnalysis`, `MCAiAnalysis` | openrouter.ts, the replay prompt's parser, the fallbacks | one chat completion |
| `Accounts` | auth.service.ts, the profile part of profile.service.ts | signup, login, profiles |
| `WebApp`, `MCWebApp` | App.tsx, the vote panel, the session guard and cookie | composed with `Accounts` |
| `DebateRoomProofs`, `DebateRoomQuietProofs` | | theorems about `DebateRoom`, the second also about `DebateReplay` |
| `FinalizationProofs`, `RankingProofs`, `RealtimeProofs`, `AiAnalysisProofs`, `WebAppProofs` | | theorems about those modules |
| `DataInduction` | | induction over numbers and finite sets, and what sums over sets do: lemmas the proofs cite |

A definition named as a mutant in its comment is a plausible bug in the
definition that follows it. It takes no part in the specification: it is there
to show that a property would notice.

### DebateRoom

The rows of the tables are the variables `state`, `question`, `participants`,
`history` and `messages`; `jobs` counts what was added to the queues;
`prepTimers` and `debateTimers` are the two maps. A *task* is a request or a
timer handle; `pc` says what it waits for, `work` what it does, and `from`,
`seen`, `pending` are the local variables of the handlers that are used after
an await. Each action is one query (JoinReadsParticipants, AddParticipant,
TransitionState, ...), one `queue.add` (EnqueueJob), or the synchronous code
after a commit (ScheduleDebateTimer, OpenVoting, CloseRoom). A handle that
fires deletes its map entry and then runs the same transition actions a request
runs. `transitionState` is one action because it is one database transaction.

Faults, at most MaxFaults of them: an awaited query rejects, before or after
its effect (the latter is a rejection at the next program counter); Redis refuses
one of the two adds; the process crashes, losing tasks and timers but no row.
Shutdown is the same, for its calls to clearTimeout reach only timers that die
with the process.

Left out: time (an armed timer may fire at any moment, so all orders of
timers and requests are covered) and the texts of messages and questions.

### RoomLifecycle

The promise, in six actions over a room's phase, its seats and its jobs: a room
is opened, debaters sit down while there is room, the debate starts when it is
full, ends, and is closed, and one finalization job is issued after the end. It
knows neither timers nor tasks nor queries. `ImplementsLifecycle` maps the rows
of `DebateRoom` to it; it holds when the timers alone start and end debates.

### DebateReplay

A reader is a getReplay or getRoom request: it reads the row of the room, then
its participants, messages and transitions by one query each, in any order
(Promise.all), while `DebateRoom` moves. What it answers may be of four
moments. It is consistent because the room is read first and everything it
implies is stored before the state changes. A crash fails the readers under way.

### Finalization

The four tables are `status`, `votes`, `analysis` and `final`. A final score
is kept as the pair of the analysis and the set of votes it was computed from,
of which the numbers are a function. `job` holds the jobs of the
`debate.finalize` queue, of two kinds per debate: the scoring service's, with
the id `finalize:<debate>` and three attempts, and the debate service's, with
neither. `pc` and `previous` belong to calls; a *run* is one execution of
computeFinalDebateScore with its four queries. A worker slot is a run that has
a job; a run whose worker is gone, or whose connection broke, goes on without.

BullMQ is external and modelled from how it is used: adding a known id changes
nothing, a rejected attempt goes back to the queue until none is left, a
stalled job is put back. Its delays are left out ("waiting" covers the twenty
minutes and the backoff), and so is the removal of old jobs (a day for
completed, a week for failed), after which an id could be added again. The debate
service is an environment action that adds at most one job per debate; that it
adds one is what `JobsAccountedFor` and `ImplementsLifecycle` show.

### Ranking and ScoreMath

A *call* is a gRPC request. computeXpForDebateClose and computeEloForDebateClose
work on both players at once, so each call has a *leg* per side; an action is
one query of a leg or the step of the handler when both have ended. A failed
leg fails the call while the other goes on, as Promise.all does. The
three queries of applyPlayerStatsDelta (find, insert if absent, update with the
database's check on Elo) are steps of the leg. `final` may be replaced at any
time by another final score, because that is what Finalization allows. A
leaderboard request reads the cache, lists, and stores what it listed; Redis
expires entries. A reader who was answered, or failed, may ask again for as long
as they like (`AsksAgain`).

`LeaderboardCatchesUp` is about readers who do: an answer that comes from the
cache, or from a query that a slow reader has made before a change, is wrong for
a while, but not for ever. What must not happen is that two readers keep an old
listing alive between them, one by storing what the other is then given.

`ScoreMath` has the arithmetic. Math.round is exact rounding of a quotient,
halves upwards. The expected score of Elo is the only real number: the delta
depends on the difference of ratings, so it is kept as the 32 thresholds
at which 32 times the expected score rounds to the next integer.

### Realtime

`registry` is subscribersByChannel: a stream is in the channels it listens to
and a channel without subscribers is not in the map. Publishing is synchronous,
so it is one action. `Deliveries` gives for each kind of event the sets of
channels it is published to, one call of publishToChannels each; a stream in
several channels of one call gets one copy. The vote endpoint is a call: it
asks the scoring service, whose answer is the one Finalization gives, and
announces after the answer. The other events are published by hooks that no
service calls yet: `Hooks` are those that may fire in an instance, once each.
Faults are a lost reply and a restart of the gateway.

### AiAnalysis

One call of createChatCompletion with whatever configuration `setting` gives,
and what becomes of its answer. `at` is what the call waits for and `timer` the
abort timer of its attempt. The server may answer any status, break the
connection, send a body that cannot be read, lacks content or has some, or never
answer. A content is kept as what parseReplayAnalysisOutput looks at: its form,
its keys, which of them are bad, the two scores. That the result is then stored
with the scoring service (`Stores`) is taken from the types
and the comment of the fallback, as no service calls the package yet.

### Accounts and WebApp

`Accounts` is signup (look up, insert, provision a profile, answer), login, and
the profile service's create, update and delete; an action is one query, the id
of a new user is the call that stored it, and a password fits or not.
`WebApp` puts tabs of one browser in front. `page` is the route of each tab with
the mount number of its component, `view` what the component shows, `session`
the state of App in the tab, `stored` localStorage, `cookie` the user whose
token the browser sends. A fetch of a page is a call with an answer per part;
the call remembers the tab and the mount that began it (`origin`). An answer is
heard when the tab has not been reloaded since; what it does to an
unmounted component is nothing. A component that stays while its id changes runs
its effect again and has no cleanup. What scoring, ranking and profile answer to
a page is given by `Published`, as the services hold it, except ballots, which
the model stores.

`disturbed` records whether two logins, or two fetches of one page, have
overlapped. The code has no protection against either, and three properties are
stated for the runs of the application where they have not (see below).

`SessionsFollowLogins` is as much as can be said about who the user of the browser
is. Three places keep it, and they are written at different moments: the cookie
when the headers of a login arrive, localStorage and the session of the tab once
its body is read; other tabs look at localStorage only when they are loaded. So
the cookie names the last login whose headers arrived, localStorage the last one
that was heard to the end, and a tab its own last login or a later one. They need
not be the same account (see the notes below).

## Runs

| Run | Question | Bounds |
|---|---|---|
| room_unattended | Does a debate moved by its timers alone follow the abstract life of a room and reach its finalization job? | one room, three clients and a retry for two seats, one close, 2 questions, 2 handles, 1 fault |
| room_replay | Is what a reader is shown consistent? | three joins and a message, 2 handles, one reader of either kind, 1 fault |
| room_manual | What holds when transition requests race the timers? | two joins and a message, one request for each later state, 3 handles, 1 fault |
| room_regress | Is the table of transitions respected? No. | as room_manual |
| final_ballots | Are ballots unique and openings scheduled? | two upserts to VOTING among others, two ballots of one spectator, one run, 1 fault |
| final_scores | What may a stored score be, and is an analysed debate scored? | two spectators, a good and a failed analysis, both jobs, 1 slot, 1 fault |
| final_twice | Is a debate finalized at most once? No. | as final_scores, no faults |
| final_lost_add | Is a skipped add always redundant? No. | as final_ballots |
| ranking_closings | Do statistics, history and leaderboard agree? | four players, two debates that share a loser near Elo 0, a new player, a score that is replaced, three calls per plan, one of them with two readers of one limit who ask again without bound, 1 fault |
| realtime_streams | Does each stream get what concerns it? | three streams, two of one user; a room whose id is a user's; a vote and its retry; two hook events; 1 heartbeat, 1 fault |
| ai_attempts | What does a call end with? | options absent, -1, 0 and 3, environment absent, -1, 1 and malformed; five statuses; a content for each check of the parser |
| web_sessions | Do accounts, sessions and pages stay true? | two tabs, two known users, up to four calls and eight clicks per plan, 1 fault |

Every request is sent at most once, at any moment, so a list of requests
covers all its subsets and orders; only a leaderboard is asked for again. One room and one debate are enough for the
rooms and the scores because no step relates two of them: rows, map entries and
jobs are all keyed by room or debate, and the theorems hold for any number. Three
clients are needed for one to be turned away from two seats, and the retry for
a join by someone already seated. A room arms at most one preparation and, per
start, one debate timer: two handles suffice when only timers start it, three
when one request may start it too. One fault is enough to break each guarantee
that needs its absence; the proofs cover more. Handles, and runs in final_twice,
are interchangeable, and symmetry is used for safety only.

Ranking and WebApp have a *plan*: what the clients of a behaviour may ask,
chosen in Init. The state spaces of the plans add up where those of their union
would multiply, and each plan is a situation a reviewer would name: a
computation that is retried, Elo beside XP, two closings of one loser, a
two readers beside a closing; two signups with one email, a profile written while it
is provisioned, two accounts in one browser, results of two debates, a picker
with a profile and a leaderboard, votes with a cookie that expires.

In room_unattended the only requests are joins and CLOSED. In room_manual
requests may ask for any state, and two guarantees are lost there, as planned
by nobody: if a request and the preparation timer both start the debate, each
arms a debate timer, the later one takes the map entry, and the other can no
longer be cleared (NoOrphanTimer fails); and since the first of them ends the
debate, a transition to RUNNING that is committed late moves it back.

### What the violations show

- *room_regress*: the timer's and a client's transition to VOTING both read
  RUNNING. One commits, the room is closed, the other commits: CLOSED to
  VOTING, which debate-state.spec.ts:30 forbids. `isValidTransition` is right;
  the UPDATE does not check that the state is still the one it was given.
- *final_twice*: the producer's comment promises one finalization per debate
  by its job id, but the debate service adds one to the same queue without an
  id.
- *final_lost_add*: the comment in upsertDebate calls the test of the previous
  status an optimization. It decides: when the add fails after the row was
  written, the retry skips it and no job ever exists.

### What else the modelling found

Nothing in the repository promises otherwise, so these are notes and not
findings; the models show each of them.

- The experience and the Elo of a debate are applied by two computations, each
  of which counts the debate and its result: after both, a player has
  two debates and two wins (`Increased`). A computation of experience that is
  retried after it failed half way applies the delta again; only the history
  refuses the second row. That is why `HistoryBacked` is an inequality.
- A final score that is stored between the computation of XP and that of Elo
  makes the two use different winners.
- A ballot whose status check passed before the debate closed is stored after
  it, and the final score may have been computed without it.
- An abort while the body is being read is taken for invalid JSON, which is not
  retried, although openrouter.spec.ts:186 treats aborts as timeouts worth a
  retry (`BodyRejects`).
- The option maxRetries is not validated as the environment variable is: with a
  negative one the client makes no attempt and reports a network error.
- Loads of one results page, or of one vote panel, may overlap; whichever is
  heard last is shown. The panel keeps the summary of the debate before when
  that of a new one cannot be fetched, with an error beside it.
- The profile page loads the id typed before when its route changes to another.
- Logging out clears the session and leaves the cookie, as no endpoint clears it:
  the next ballot is still the old user's. Two logins that overlap may leave a
  session and a cookie of different users.
- Two logins that do not overlap may do so too, for a tab does not listen to
  localStorage (App.tsx:41, 54-59). When another tab logs in, this one goes on
  showing the user of before, and its ballots are the other's, until it is
  reloaded or logs in. The third plan of `MCWebApp` has such runs. A reload
  between the headers of a login and `setItem` leaves the new user's cookie with
  the old user's session in every tab, until the next login.

### Fairness

The event loop runs ready callbacks, an armed timer fires, the database answers
or the await rejects. Nobody is ever obliged to send a request, click, or answer
from outside the repository.

- *DebateRoom*: weak fairness of each task that has been started, which
  includes armed handles.
- *Finalization*: of each run, and of taking each waiting job, which a BullMQ
  worker with a free slot does.
- *Ranking*: of each leg and each call that was sent, and of the expiry of each
  cache entry, which was stored with EX. Nobody has to ask for a leaderboard
  again: that a reader does so for ever is the premise of `LeaderboardCatchesUp`.
- *AiAnalysis*: of the client's own steps, of the timer of an attempt, and of
  the end of a read that was aborted. The server owes nothing.
- *WebApp*: of the steps under way as a whole; calls are finite, so one
  condition is enough for all of them to end.

The liveness properties of rooms, jobs and accounts hold unless a fault has
struck, because the code does not recover from one: nothing re-arms a timer,
repeats a lost add, or provisions a profile later.

## Proofs

All theorems hold for every value of the constants that satisfies the modules'
named assumptions: requests are well formed, `None` is no row, handle, id or
answer, calls and handles are distinct, runs are finite (for the sums of Ranking
also users, debates and calls), services publish through the hook their own
types of events only, and people open the routes that App knows and submit
credentials. `tlapm` checks every leaf.

- *Types* (`DebateRoomProofs`, `FinalizationProofs`, `RankingProofs`,
  `WebAppProofs`). TypeOK is not inductive:
  that a task's work has the field its action reads depends on where its
  program counter is. `TypeInv` adds that (`WorkOK`, `LabelsOK`; `CallOK`,
  `RunOK`), and for jobs that each serves at most one run, is active
  while it does and then has an attempt left, without which a failing
  attempt would count below zero. For Ranking it says how far the legs of a call are
  in each phase and that a leg about to update has its row (`StagesOK`, `LegsOK`);
  that Elo and counts stay in order is then arithmetic on one update
  (`IncreasedType`), whatever was read before it. For WebApp a call fits the step
  it is at (`AccountTypes`), and whoever is named by the cookie, localStorage, a
  session, a ballot or a vote on its way has a row in `users` (`BrowserTypes`,
  `NamesKnown`): the first three are set from answers of accepted logins, and no
  step removes a row.
- *OneRunPerJob* (`FinalizationProofs`), which no run checks: the part of `TypeInv`
  about the queue, stated for its own sake. A job that has a run is active, has an
  attempt left, and has one run only.
- *PrepTimerOnce, QuestionDrawnOnce* (`DebateRoomProofs`). The invariant
  says what a join that waits can have seen: a subset of the seats, in the
  order in which they were taken (`SeatOrder`, `SnapshotOK`), so that only the
  task that inserted the second seat passes to the draw (`OneStarter`), and no
  question is stored before it does (`QuestionOK`).
- *TimerMapsSound, PrepTimersCancellable* (`DebateRoomProofs`). The maps
  name armed handles of the right room and purpose. That a preparation timer
  is never overwritten follows from PrepTimerOnce.
- *FullRoomNeverStranded* (ibid.). Whoever takes CONTRE has read exactly POUR
  (`SeatsCounted`), so the insert that fills a room is the one whose count says
  so; from there a join, a handle or a transition brings the room to RUNNING
  (`Brought`), and a handle is cleared only by a task whose room has left
  PREPARATION, which no room enters twice.
- *JobsAccountedFor* (ibid.). Each action changes the set of tasks about to add
  by at most one element, and openings and jobs with it; a task that opens a vote
  was not yet in the set because only tasks at their adds have any pending
  (`PendingInv`).
- *NoOrphanTimer, StartsWithQuestion, ImplementsLifecycle*
  (`DebateRoomQuietProofs`), assuming `QuietRequests`: no request asks for
  RUNNING or VOTING, so that only timers do. Then a room has one debate timer
  (`OneDebateTimer`), started by its one preparation timer, which was armed
  after the question was stored (`QuestionInv`). The refinement adds that a
  transition that waits still finds the state it read (`TurnsInv`), that seats
  belong to distinct users (`SeatsUnique`), and that a job is added once for the
  one end (`JobInv`); every action is then shown to be a step of `RoomLifecycle`
  or a stutter. Without the assumption all three are false (see room_manual).
- *MessagesFromDebaters* (`DebateRoomQuietProofs`, whatever is requested): who is
  past a check of sendMessage has made sure of something that only grows: the
  transition to RUNNING is in the history, the seat is taken (`SendersOK`).
- *AnswersAreConsistent* (`DebateRoomQuietProofs`, under `QuietRequests`): the row
  of the room is read first, and when it shows a started debate the seats are
  final (`FullStays`) and the transition to that state is stored
  (`StatesVisited`), so the moment of each later query does not matter
  (`ReadersInv`).
- *OneBallotEach*: by the unique constraint, whatever was read before.
- *VotingScheduled*: whoever finds VOTING, in the table or in what it has read,
  was preceded by a call that has added the job or is about to (`SchedInv`).
- *CompletedMeansScored*: a run that is past its last query, and so every
  completed job, has its debate's score in the table, and no step removes one or
  makes it count a vote of another debate (`ScoreInv`).
- *TallyOnlyGrows*, assuming `Concurrency = 1` (the default of
  `WORKER_CONCURRENCY`): without faults every run has a job, so with one slot
  there is one run, and what it counted includes what the stored score counts
  (`SoleInv`). With more slots it is false, for two runs may overlap.
- *OneAward* (`RankingProofs`): a leg that has recorded its performance owns the
  row of its player and debate: the row says what it computed, up to the Elo that
  the other computation fills in, and no other call has recorded it (`Owned`).
- *EloAccounted* (`RankingProofs`): unless an upsert of the profile service
  replaced a row, what the rows hold and what the legs still owe add up to the
  initial total (`Balanced`). Each action moves one term of one sum, or one term
  of each by opposite amounts. That needs the sum over a set as a sum: the fold
  of the community modules is recursive, so `DataInduction` derives from the
  library's well-founded orders (`<` on Nat, strict inclusion) an induction in
  terms of sets, and from it what a sum does when one term changes.
- *HistoryBacked* (ibid.): for each user, the XP that the history records and the
  XP that was applied but is not yet recorded are together at most what the
  statistics hold (`Backed`, `Pending`). Without the second sum it is not
  inductive, for the row of the history is written after the statistics.
- *RegistryFollowsStreams* is inductive with the three states a stream may be
  in; *AnnouncedOnce* rests on a ballot having one owner: the call that
  stored it and is about to announce it, or has (`RealtimeProofs`).
- *StreamFollowsLog* (ibid.): a delivery appends to the inboxes of exactly the
  streams that the event concerns, once each, and opening a stream remembers where
  the log was (`LogInv`). What a stream should have is `Selected`, a recursive
  function, so an induction on the length of the log shows that appending to the
  log appends to it or changes nothing. That no stream gets `debate.started`
  twice rests on the scopes: none subscribes to a room and to a debate.
- *NoTimerOutlivesItsAttempt, ReasonTellsRetries, AnalysisIsUsable*
  (`AiAnalysisProofs`): an attempt starts only after retryable failures and with
  attempts left, and a fallback scores both sides alike, so that the audience
  decides in FinalScore.
- *OneAccountPerEmail, AnswersAreTrue, ProvisioningNeverOverwrites*
  (`WebAppProofs`): rows of users are never changed, and an answered signup or
  login is pinned to the row it found or stored.
- *SessionsFollowLogins* (ibid.): calls are numbered as they are begun, which
  takes the least element of a set of numbers (`NextCallIsFirst`, from
  `DataInduction`). While no two logins overlap, one that is accepted is later
  than all that were accepted before it (`LaterThanAccepted`), so it is the last
  when its headers set the cookie and still the last when it is heard; a tab that
  is loaded takes over the last login heard, which is at least as late as its own.
- *ResultsShowTheirDebate, PanelCountsOwnVote* (ibid.). `PagesInv` relates a
  page to the calls made by its present mount: they fit its route; unless fetches
  have overlapped there is one at a time (`Current`), it asks for the id of the
  route, and meanwhile the results show nothing (`Working`). A summary that was
  fetched counts the vote of the message because the ballot was stored before
  the message appeared and ballots only grow (`Seen`, `Cast`). An answer heard
  after its component was unmounted, or after a reload, changes no page.

Model-checked only are the liveness properties under fairness, which are out of
the prover's reach: FullRoomIsFinalized, AnalysedDebateIsScored,
LeaderboardCatchesUp, AnswersAtLast, AccountsGetProfiles, PagesSettle. Every
safety property that a passing run checks is a theorem.

## Not modelled

- Reads that only pass rows on: listUserPerformanceHistory, getProfile,
  getPlayerStats, the summaries and getters of the scoring service, the
  gateway's controllers for them. Pages of `WebApp` see what they may answer.
- Texts: the prompts of the AI package, the redaction of its error messages,
  messages, questions, layouts.
- Time: delays, backoff and the removal of old jobs in BullMQ; tokens expire
  when a plan says that they may.
- The ids of the last room and debate that the web application keeps in
  localStorage for its forms.
- Shared packages (logging, configuration, validation pipes), contracts
  (types and schemas, which the inputs of the models respect), build and
  deployment.
