---- MODULE DebateRoom ----
(***************************************************************************)
(* The debate service: rooms, seats, messages, the state machine of a room *)
(* and the in-process timers that drive it (debate.service.ts, on the rows *)
(* of room.repository.ts).                                                 *)
(*                                                                         *)
(* Node runs one callback at a time, so a handler is atomic between two    *)
(* awaits and anything may happen across one.  Each handler, and each      *)
(* setTimeout callback, is a task with a program counter; an action is one *)
(* query, one queue call, or the synchronous code after a commit.          *)
(*                                                                         *)
(* The rows and the queued jobs survive a crash of the process.  The tasks *)
(* and the two timer maps do not.                                          *)
(***************************************************************************)
EXTENDS DebateState, Naturals, Sequences, FiniteSets

CONSTANTS
    Rooms, Users,
    Questions,  \* the rows of the questions table; the service never writes it
    Calls,      \* the gRPC requests clients may send, each at most once
    Request,    \* what each of them asks for: [Calls -> Work]
    Timers,     \* setTimeout handles
    None,       \* no timer in a map, no question in a row
    MaxFaults   \* bound on crashes plus rejected awaits

VARIABLES
    state,         \* rooms.state, or "ABSENT" while there is no such row
    question,      \* rooms.question_id
    participants,  \* rows of the participants table
    history,       \* rows of room_transitions, per room
    messages,      \* rows of the messages table
    jobs,          \* how many jobs of each kind were added for a room
    prepTimers, debateTimers,  \* the two Maps of the service
    pc,            \* where each task is
    work,          \* what each task does
    from,          \* `from` in transition()
    seen,          \* the participants a task has read
    pending,       \* queue.add() calls a task still awaits
    faults         \* crashes and rejected awaits so far

dbVars     == <<state, question, participants, history, messages>>
timerMaps  == <<prepTimers, debateTimers>>
locals     == <<from, seen, pending>>
vars == <<dbVars, jobs, timerMaps, pc, work, locals, faults>>

Sides == {"POUR", "CONTRE"}
JobKinds == {"replay", "finalization"}
Tasks == Calls \cup Timers

Participants == [room : Rooms, user : Users, side : Sides]
Messages == [call : Calls, room : Rooms, user : Users]
JoinWork == [op : {"join"}, room : Rooms, user : Users]
SendWork == [op : {"send"}, room : Rooms, user : Users]
TransitionWork == [op : {"transition"}, room : Rooms, to : DebateStates]
Work == JoinWork \cup SendWork \cup TransitionWork

ASSUME ConstantsAssumption ==
    /\ Calls \cap Timers = {}
    /\ None \notin Timers \cup Questions \cup Work
    /\ Request \in [Calls -> Work]
    /\ MaxFaults \in Nat

\* Program counters.  A request starts "unsent" and a handle "unset"; the
\* others between Settled and "armed" name what the task waits for.
Settled == {"done", "failed", "lost", "cleared"}
Dormant == Settled \cup {"unsent", "unset"}
Awaits == {"findRoom", "getParticipants", "addParticipant", "randomQuestion",
           "setQuestion", "schedulePrep", "transitionState", "committed",
           "saveMessage"}
Labels == Dormant \cup Awaits \cup {"armed", "enqueue"}

Init ==
    /\ state = [r \in Rooms |-> "ABSENT"]
    /\ question = [r \in Rooms |-> None]
    /\ participants = {}
    /\ history = [r \in Rooms |-> << >>]
    /\ messages = {}
    /\ jobs = [r \in Rooms |-> [j \in JobKinds |-> 0]]
    /\ prepTimers = [r \in Rooms |-> None]
    /\ debateTimers = [r \in Rooms |-> None]
    /\ pc = [t \in Tasks |-> IF t \in Calls THEN "unsent" ELSE "unset"]
    /\ work = [t \in Tasks |-> IF t \in Calls THEN Request[t] ELSE None]
    /\ from = [t \in Tasks |-> "PREPARATION"]
    /\ seen = [t \in Tasks |-> {}]
    /\ pending = [t \in Tasks |-> {}]
    /\ faults = 0

Goto(t, label) == pc' = [pc EXCEPT ![t] = label]
RoomOf(t) == work[t].room
Doing(t, op) == work[t] # None /\ work[t].op = op
AtFindRoom(t) == pc[t] \in {"unsent", "findRoom"}
Seated(r) == {p \in participants : p.room = r}

-----------------------------------------------------------------------------
(* createRoom: one INSERT; the state column defaults to PREPARATION.       *)

\* Mutant: the column defaults to a state the service does not know.
DraftState == "DRAFT"

DefaultState == "PREPARATION"

CreateRoom(r) ==
    /\ state[r] = "ABSENT"
    /\ state' = [state EXCEPT ![r] = DefaultState]
    /\ UNCHANGED <<question, participants, history, messages, jobs, timerMaps,
                   pc, work, locals, faults>>

\* requireRoom, for each handler that starts with it: a NotFoundException.
RoomNotFound(t) ==
    /\ AtFindRoom(t)
    /\ state[RoomOf(t)] = "ABSENT"
    /\ Goto(t, "failed")
    /\ UNCHANGED <<dbVars, jobs, timerMaps, work, locals, faults>>

-----------------------------------------------------------------------------
(* joinRoom                                                                *)

JoinFindsRoom(t) ==
    /\ AtFindRoom(t) /\ Doing(t, "join")
    /\ state[RoomOf(t)] # "ABSENT"
    /\ Goto(t, IF state[RoomOf(t)] = "PREPARATION" THEN "getParticipants"
                                                   ELSE "failed")
    /\ UNCHANGED <<dbVars, jobs, timerMaps, work, locals, faults>>

\* Mutant: joining again runs the code for a room that has just filled up.
RejoinRestarts(user, read) ==
    IF Cardinality(read) >= Cardinality(Sides)
    THEN IF \E p \in read : p.user = user THEN "randomQuestion" ELSE "failed"
    ELSE IF \E p \in read : p.user = user THEN "done" ELSE "addParticipant"

\* Already seated: answered as it is.  Full: refused.  Else take a seat.
JoinDecision(user, read) ==
    IF \E p \in read : p.user = user THEN "done"
    ELSE IF Cardinality(read) >= Cardinality(Sides) THEN "failed"
    ELSE "addParticipant"

JoinReadsParticipants(t) ==
    LET read == Seated(RoomOf(t)) IN
    /\ pc[t] = "getParticipants" /\ Doing(t, "join")
    /\ seen' = [seen EXCEPT ![t] = read]
    /\ Goto(t, JoinDecision(work[t].user, read))
    /\ UNCHANGED <<dbVars, jobs, timerMaps, work, from, pending, faults>>

\* PARTICIPANT_SIDES.find: the first side, in that order, nobody read has.
FreeSide(t) ==
    IF \A p \in seen[t] : p.side # "POUR" THEN "POUR" ELSE "CONTRE"

\* Mutant: no UNIQUE (room_id, side) on the participants table.
InsertAllowedUserOnly(row) ==
    \A p \in Seated(row.room) : p.user # row.user

\* The two UNIQUE constraints of the participants table.
InsertAllowed(row) ==
    \A p \in Seated(row.room) : p.user # row.user /\ p.side # row.side

\* Mutant: the length tested is that of the participants read, without the new one.
CountsOnlyRead(t) == Cardinality(seen[t]) = Cardinality(Sides)

FillsRoom(t) == Cardinality(seen[t]) + 1 = Cardinality(Sides)

\* The INSERT, on the side chosen from the participants read before it.
\* Whoever read one participant sees two now and goes on to start the room.
AddParticipant(t) ==
    LET row == [room |-> RoomOf(t), user |-> work[t].user, side |-> FreeSide(t)]
    IN
    /\ pc[t] = "addParticipant"
    /\ IF InsertAllowed(row)
       THEN /\ participants' = participants \cup {row}
            /\ Goto(t, IF FillsRoom(t) THEN "randomQuestion" ELSE "done")
       ELSE /\ Goto(t, "failed")
            /\ UNCHANGED participants
    /\ UNCHANGED <<state, question, history, messages, jobs, timerMaps, work,
                   locals, faults>>

\* Mutant: the question drawn is put in the response and not in the row.
QuestionNotSaved == "schedulePrep"

\* randomQuestion finds no row when the table is empty.
AfterDraw == IF Questions = {} THEN "schedulePrep" ELSE "setQuestion"

RandomQuestion(t) ==
    /\ pc[t] = "randomQuestion"
    /\ Goto(t, AfterDraw)
    /\ UNCHANGED <<dbVars, jobs, timerMaps, work, locals, faults>>

SetQuestion(t) ==
    /\ pc[t] = "setQuestion"
    /\ \E q \in Questions : question' = [question EXCEPT ![RoomOf(t)] = q]
    /\ Goto(t, "schedulePrep")
    /\ UNCHANGED <<state, participants, history, messages, jobs, timerMaps,
                   work, locals, faults>>

-----------------------------------------------------------------------------
(* Timers.  A handle's task, once armed, fires at most once and then runs  *)
(* transition() to the state it was armed for.                             *)

\* Mutant: a callback does not delete its entry.
EntryKept(map, r) == map

Deleted(map, r) == [map EXCEPT ![r] = None]

\* Task t arms handle h for a transition of its room to `to`, and returns.
Arm(t, h, to) ==
    /\ pc[h] = "unset"
    /\ pc' = [pc EXCEPT ![t] = "done", ![h] = "armed"]
    /\ work' = [work EXCEPT ![h] =
                  [op |-> "transition", room |-> RoomOf(t), to |-> to]]

SchedulePrepTimer(t) ==
    /\ pc[t] = "schedulePrep"
    /\ \E h \in Timers :
         /\ Arm(t, h, "RUNNING")
         /\ prepTimers' = [prepTimers EXCEPT ![RoomOf(t)] = h]
    /\ UNCHANGED <<dbVars, jobs, debateTimers, locals, faults>>

\* The callback deletes its room's entry, whichever handle that entry holds.
TimerFires(t) ==
    /\ pc[t] = "armed"
    /\ IF work[t].to = "RUNNING"
       THEN /\ prepTimers' = Deleted(prepTimers, RoomOf(t))
            /\ UNCHANGED debateTimers
       ELSE /\ debateTimers' = Deleted(debateTimers, RoomOf(t))
            /\ UNCHANGED prepTimers
    /\ Goto(t, "findRoom")
    /\ UNCHANGED <<dbVars, jobs, work, locals, faults>>

\* Mutant: the entries are deleted and their handles left running.
HandlesLeftRunning(cleared, t, label) == Goto(t, label)

\* clearTimeout of the handles in `cleared`, and t moves on to `label`.
ClearAndGoto(cleared, t, label) ==
    pc' = [x \in Tasks |-> IF x = t THEN label
                           ELSE IF x \in cleared /\ pc[x] = "armed"
                                THEN "cleared" ELSE pc[x]]

-----------------------------------------------------------------------------
(* transition, called by a request or by a timer                           *)

TransitionFindsRoom(t) ==
    LET found == state[RoomOf(t)] IN
    /\ AtFindRoom(t) /\ Doing(t, "transition")
    /\ found # "ABSENT"
    /\ IF found # work[t].to /\ isValidTransition(found, work[t].to)
       THEN /\ from' = [from EXCEPT ![t] = found]
            /\ Goto(t, "transitionState")
       ELSE /\ Goto(t, IF found = work[t].to THEN "done" ELSE "failed")
            /\ UNCHANGED from
    /\ UNCHANGED <<dbVars, jobs, timerMaps, work, seen, pending, faults>>

\* One transaction: the history row and an UPDATE that does not look at the
\* state it replaces.
TransitionState(t) ==
    LET r == RoomOf(t) IN
    /\ pc[t] = "transitionState"
    /\ history' = [history EXCEPT ![r] =
                     Append(@, [from |-> from[t], to |-> work[t].to])]
    /\ state' = [state EXCEPT ![r] = work[t].to]
    /\ Goto(t, "committed")
    /\ UNCHANGED <<question, participants, messages, jobs, timerMaps, work,
                   locals, faults>>

ScheduleDebateTimer(t) ==
    /\ pc[t] = "committed" /\ work[t].to = "RUNNING"
    /\ \E h \in Timers :
         /\ Arm(t, h, "VOTING")
         /\ debateTimers' = [debateTimers EXCEPT ![RoomOf(t)] = h]
    /\ UNCHANGED <<dbVars, jobs, prepTimers, locals, faults>>

\* On VOTING: clear the debate timer and issue both queue.add() calls.
OpenVoting(t) ==
    LET r == RoomOf(t) IN
    /\ pc[t] = "committed" /\ work[t].to = "VOTING"
    /\ ClearAndGoto({debateTimers[r]}, t, "enqueue")
    /\ debateTimers' = Deleted(debateTimers, r)
    /\ pending' = [pending EXCEPT ![t] = JobKinds]
    /\ UNCHANGED <<dbVars, jobs, prepTimers, work, from, seen, faults>>

\* Mutant: the handler is over as soon as one add is (Promise.race).
FirstAddWins(t, j) == {}

StillPending(t, j) == pending[t] \ {j}

\* The two adds of Promise.all reach Redis in either order.
EnqueueJob(t, j) ==
    /\ pc[t] = "enqueue" /\ j \in pending[t]
    /\ jobs' = [jobs EXCEPT ![RoomOf(t)][j] = @ + 1]
    /\ pending' = [pending EXCEPT ![t] = StillPending(t, j)]
    /\ Goto(t, IF StillPending(t, j) = {} THEN "done" ELSE "enqueue")
    /\ UNCHANGED <<dbVars, timerMaps, work, from, seen, faults>>

CloseRoom(t) ==
    LET r == RoomOf(t) IN
    /\ pc[t] = "committed" /\ work[t].to = "CLOSED"
    /\ ClearAndGoto({prepTimers[r], debateTimers[r]}, t, "done")
    /\ prepTimers' = Deleted(prepTimers, r)
    /\ debateTimers' = Deleted(debateTimers, r)
    /\ UNCHANGED <<dbVars, jobs, work, locals, faults>>

-----------------------------------------------------------------------------
(* sendMessage                                                             *)

\* Mutant: whoever sits in the room may speak.
AnyState(found) == TRUE

MaySpeak(found) == found = "RUNNING"

SendFindsRoom(t) ==
    /\ AtFindRoom(t) /\ Doing(t, "send")
    /\ state[RoomOf(t)] # "ABSENT"
    /\ Goto(t, IF MaySpeak(state[RoomOf(t)]) THEN "getParticipants" ELSE "failed")
    /\ UNCHANGED <<dbVars, jobs, timerMaps, work, locals, faults>>

SendReadsParticipants(t) ==
    /\ pc[t] = "getParticipants" /\ Doing(t, "send")
    /\ Goto(t, IF \E p \in Seated(RoomOf(t)) : p.user = work[t].user
               THEN "saveMessage" ELSE "failed")
    /\ UNCHANGED <<dbVars, jobs, timerMaps, work, locals, faults>>

SaveMessage(t) ==
    /\ pc[t] = "saveMessage"
    /\ messages' = messages \cup
         {[call |-> t, room |-> RoomOf(t), user |-> work[t].user]}
    /\ Goto(t, "done")
    /\ UNCHANGED <<state, question, participants, history, jobs, timerMaps,
                   work, locals, faults>>

-----------------------------------------------------------------------------
(* Faults, bounded by MaxFaults                                            *)

\* The query a task waits for rejects, before or after taking effect in the
\* database; the handler throws.
AwaitRejects(t) ==
    /\ faults < MaxFaults
    /\ pc[t] \in Awaits
    /\ Goto(t, "failed")
    /\ faults' = faults + 1
    /\ UNCHANGED <<dbVars, jobs, timerMaps, work, locals>>

\* Redis refuses one of the two adds.  The other one goes on.
AddRejects(t, j) ==
    /\ faults < MaxFaults
    /\ pc[t] = "enqueue" /\ j \in pending[t]
    /\ pending' = [pending EXCEPT ![t] = StillPending(t, j)]
    /\ Goto(t, IF StillPending(t, j) = {} THEN "failed" ELSE "enqueue")
    /\ faults' = faults + 1
    /\ UNCHANGED <<dbVars, jobs, timerMaps, work, from, seen>>

\* The process dies, or shuts down, and starts again.  Nothing re-arms a timer.
Crash ==
    /\ faults < MaxFaults
    /\ pc' = [t \in Tasks |-> IF pc[t] \in Dormant THEN pc[t] ELSE "lost"]
    /\ prepTimers' = [r \in Rooms |-> None]
    /\ debateTimers' = [r \in Rooms |-> None]
    /\ pending' = [t \in Tasks |-> {}]
    /\ faults' = faults + 1
    /\ UNCHANGED <<dbVars, jobs, work, from, seen>>

-----------------------------------------------------------------------------

Join(t) ==
    \/ JoinFindsRoom(t)
    \/ JoinReadsParticipants(t)
    \/ AddParticipant(t)
    \/ RandomQuestion(t)
    \/ SetQuestion(t)
    \/ SchedulePrepTimer(t)

Transition(t) ==
    \/ TransitionFindsRoom(t)
    \/ TransitionState(t)
    \/ ScheduleDebateTimer(t)
    \/ OpenVoting(t)
    \/ \E j \in JobKinds : EnqueueJob(t, j)
    \/ CloseRoom(t)

Send(t) ==
    \/ SendFindsRoom(t)
    \/ SendReadsParticipants(t)
    \/ SaveMessage(t)

Step(t) ==
    \/ RoomNotFound(t)
    \/ Join(t)
    \/ Transition(t)
    \/ Send(t)
    \/ TimerFires(t)

Fault ==
    \/ \E t \in Tasks : AwaitRejects(t)
    \/ \E t \in Tasks, j \in JobKinds : AddRejects(t, j)
    \/ Crash

\* Every request answered or unsent and no timer armed: nothing need happen.
Quiescent ==
    /\ \A t \in Tasks : pc[t] \in Dormant
    /\ UNCHANGED vars

Next ==
    \/ \E r \in Rooms : CreateRoom(r)
    \/ \E t \in Tasks : Step(t)
    \/ Fault
    \/ Quiescent

\* A client need not send anything; but a query that was issued settles and an
\* armed timer fires, because the event loop runs whatever is ready.
Progress(t) == pc[t] # "unsent" /\ Step(t)
Fairness == \A t \in Tasks : WF_vars(Progress(t))

Safety == Init /\ [][Next]_vars
Spec == Safety /\ Fairness

-----------------------------------------------------------------------------
(* What the service promises, whoever calls it and in whatever order.      *)

TypeOK ==
    /\ state \in [Rooms -> DebateStates \cup {"ABSENT"}]
    /\ question \in [Rooms -> Questions \cup {None}]
    /\ participants \subseteq Participants
    /\ history \in [Rooms -> Seq([from : DebateStates, to : DebateStates])]
    /\ messages \subseteq Messages
    /\ jobs \in [Rooms -> [JobKinds -> Nat]]
    /\ prepTimers \in [Rooms -> Timers \cup {None}]
    /\ debateTimers \in [Rooms -> Timers \cup {None}]
    /\ pc \in [Tasks -> Labels]
    /\ work \in [Tasks -> Work \cup {None}]
    /\ from \in [Tasks -> DebateStates]
    /\ seen \in [Tasks -> SUBSET Participants]
    /\ pending \in [Tasks -> SUBSET JobKinds]
    /\ faults \in 0..MaxFaults

IsTimer(h, to) == h \in Timers /\ work[h] # None /\ work[h].to = to

\* A room's preparation countdown is started at most once in its life, however
\* many joins race: only the task that inserted the second seat sees two
\* participants, and the constraints let only one do so (lines 94-112).
PrepTimerOnce ==
    \A h1, h2 \in Timers :
        IsTimer(h1, "RUNNING") /\ IsTimer(h2, "RUNNING") /\ RoomOf(h1) = RoomOf(h2)
            => h1 = h2

\* The entry of a timer map never names a handle that has fired or was cleared,
\* nor one of another room or purpose: so clearTimeout always hits a live timer.
TimerMapsSound ==
    \A r \in Rooms :
        /\ prepTimers[r] # None =>
              /\ pc[prepTimers[r]] = "armed"
              /\ work[prepTimers[r]] =
                    [op |-> "transition", room |-> r, to |-> "RUNNING"]
        /\ debateTimers[r] # None =>
              /\ pc[debateTimers[r]] = "armed"
              /\ work[debateTimers[r]] =
                    [op |-> "transition", room |-> r, to |-> "VOTING"]

\* A running preparation countdown can always be cancelled: its handle is the
\* entry of its room, never overwritten or deleted by another callback.
PrepTimersCancellable ==
    \A h \in Timers : pc[h] = "armed" /\ work[h].to = "RUNNING"
                          => prepTimers[RoomOf(h)] = h

\* The question of a room, once drawn, is never drawn again.
QuestionDrawnOnce ==
    [][\A r \in Rooms : question[r] # None => question'[r] = question[r]]_vars

BothSeated(r) == \A s \in Sides : \E p \in Seated(r) : p.side = s

Heading(r, to) ==
    \E t \in Tasks :
        /\ pc[t] \in {"armed", "findRoom", "transitionState"}
        /\ Doing(t, "transition") /\ RoomOf(t) = r /\ work[t].to = to

\* Without faults, a full room in PREPARATION is never forgotten: the join that
\* filled it is about to start the countdown, or the countdown or a transition
\* to RUNNING is under way.
FullRoomNeverStranded ==
    faults = 0 =>
        \A r \in Rooms :
            state[r] = "PREPARATION" /\ BothSeated(r) =>
                \/ \E t \in Tasks :
                      /\ pc[t] \in {"randomQuestion", "setQuestion", "schedulePrep"}
                      /\ RoomOf(t) = r
                \/ Heading(r, "RUNNING")

VotingsOpened(r) ==
    Cardinality({i \in DOMAIN history[r] : history[r][i].to = "VOTING"})

AboutToAdd(r, j) ==
    {t \in Tasks : /\ work[t] # None /\ RoomOf(t) = r
                   /\ \/ pc[t] = "committed" /\ work[t].to = "VOTING"
                      \/ j \in pending[t]}

\* A job of each kind per committed opening of the vote, no more; and, without
\* faults, no less: the adds still awaited account for the difference.
JobsAccountedFor ==
    \A r \in Rooms, j \in JobKinds :
        LET added == jobs[r][j] + Cardinality(AboutToAdd(r, j)) IN
        /\ added <= VotingsOpened(r)
        /\ faults = 0 => added = VotingsOpened(r)

-----------------------------------------------------------------------------
(* What it promises when its timers alone start a debate and end it, that  *)
(* is when no request asks for RUNNING or VOTING (clients join, send and   *)
(* may close).                                                             *)

\* Every armed debate timer too is the entry of its room: none is orphaned.
NoOrphanTimer ==
    \A h \in Timers : pc[h] = "armed" =>
        h = IF work[h].to = "RUNNING" THEN prepTimers[RoomOf(h)]
                                      ELSE debateTimers[RoomOf(h)]

\* No debate starts without the question it is about, if there is one to draw.
StartsWithQuestion ==
    \A r \in Rooms :
        state[r] \in {"RUNNING", "VOTING", "CLOSED"} /\ Questions # {}
            => question[r] # None

\* The abstract life of a room: seats before the start, one start, one end,
\* one finalization job.
Lifecycle == INSTANCE RoomLifecycle WITH
    phase  <- state,
    seats  <- [r \in Rooms |-> {p.user : p \in Seated(r)}],
    issued <- [r \in Rooms |-> jobs[r]["finalization"]]
ImplementsLifecycle == Lifecycle!Spec

\* A room both debaters have joined reaches its vote, and its finalization job
\* is queued, unless a fault has struck.
FullRoomIsFinalized ==
    \A r \in Rooms :
        BothSeated(r) ~> (jobs[r]["finalization"] = 1 \/ faults > 0)

-----------------------------------------------------------------------------
(* What it does not keep, once requests race the timers.                   *)

\* The state of a room follows ALLOWED_TRANSITIONS; debate-state.spec.ts lists
\* CLOSED -> VOTING among the forbidden ones.
OnlyAllowedTransitions ==
    [][\A r \in Rooms :
         state'[r] # state[r] /\ state[r] # "ABSENT"
            => isValidTransition(state[r], state'[r])]_vars

====
