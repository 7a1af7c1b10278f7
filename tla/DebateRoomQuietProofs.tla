---- MODULE DebateRoomQuietProofs ----
(***************************************************************************)
(* What holds when the timers alone start a debate and end it: no request  *)
(* asks for RUNNING or VOTING.  Then a transition to either belongs to a   *)
(* timer, a room has one timer of each kind at most, and they take turns:  *)
(* the debate timer is armed by the preparation timer's own task, which is *)
(* over by then.  So no two transitions of a room overlap, and the rows go *)
(* through the abstract life of RoomLifecycle whatever crashes or fails.   *)
(* And what readers collect meanwhile (DebateReplay) fits together.        *)
(***************************************************************************)
EXTENDS DebateRoomProofs, DebateReplay

\* Clients join, send and may close.
QuietRequests ==
    \A c \in Calls : Request[c] \in TransitionWork
                        => Request[c].to \notin {"RUNNING", "VOTING"}

-----------------------------------------------------------------------------
(* The shapes of a step.                                                   *)

\* A task moves on and leaves rows, queue, handles and debate timers alone.
Plain(t) ==
    /\ pc[t] \notin Settled \cup {"enqueue"}
    /\ \E label \in {"done", "failed", "getParticipants", "addParticipant", "saveMessage"} :
         /\ Goto(t, label)
         /\ label \in {"getParticipants", "addParticipant"}
               => pc[t] = "getParticipants" \/ state[RoomOf(t)] # "ABSENT"
    /\ UNCHANGED <<state, question, participants, jobs, debateTimers, work, pending>>

\* The INSERT of a seat, when the constraints let it.
Inserts(t) ==
    /\ InsertAllowed([room |-> RoomOf(t), user |-> work[t].user, side |-> FreeSide(t)])
    /\ AddParticipant(t)

\* A transition that is allowed from the state it found.
Begins(t) ==
    /\ work[t] \in TransitionWork
    /\ state[RoomOf(t)] # "ABSENT"
    /\ isValidTransition(state[RoomOf(t)], work[t].to)
    /\ AtFindRoom(t) /\ Goto(t, "transitionState")
    /\ UNCHANGED <<state, question, participants, jobs, debateTimers, work, pending>>

Shape(t) ==
    \/ Plain(t) \/ Inserts(t) \/ RandomQuestion(t) \/ SetQuestion(t)
    \/ SchedulePrepTimer(t) \/ Begins(t) \/ TransitionState(t)
    \/ ScheduleDebateTimer(t) \/ OpenVoting(t) \/ CloseRoom(t) \/ TimerFires(t)
    \/ \E j \in JobKinds : EnqueueJob(t, j) \/ AddRejects(t, j)

LEMMA Shapes ==
    ASSUME TypeInv, [Next]_vars
    PROVE  \/ UNCHANGED vars
           \/ \E r \in Rooms : CreateRoom(r)
           \/ \E t \in Tasks : Shape(t)
           \/ Crash
<1> USE DEF dbVars, timerMaps, locals
<1>1. ASSUME NEW t \in Tasks, RoomNotFound(t) PROVE Shape(t)
  BY <1>1 DEF RoomNotFound, AtFindRoom, Shape, Plain, Settled
<1>2. ASSUME NEW t \in Tasks, Join(t) PROVE Shape(t)
  <2>1. CASE JoinFindsRoom(t)
    BY <2>1 DEF JoinFindsRoom, AtFindRoom, Shape, Plain, Settled
  <2>2. CASE JoinReadsParticipants(t)
    <3>1. PICK label \in {"done", "failed", "addParticipant"} : Goto(t, label)
      BY <2>2 DEF JoinReadsParticipants, JoinDecision
    <3> QED
      BY <2>2, <3>1 DEF JoinReadsParticipants, Shape, Plain, Settled
  <2>3. CASE AddParticipant(t) /\ ~Inserts(t)
    BY <2>3 DEF AddParticipant, Inserts, Shape, Plain, Settled
  <2> QED
    BY <1>2, <2>1, <2>2, <2>3 DEF Join, Shape
<1>3. ASSUME NEW t \in Tasks, Transition(t) PROVE Shape(t)
  <2>1. CASE TransitionFindsRoom(t)
    <3>1. work[t] \in TransitionWork
      BY <2>1 DEF TransitionFindsRoom, AtFindRoom, Doing, TypeInv, TypeOK, Work,
                  JoinWork, SendWork
    <3>2. CASE Goto(t, "transitionState") /\ isValidTransition(state[RoomOf(t)], work[t].to)
      BY <2>1, <3>1, <3>2 DEF TransitionFindsRoom, Shape, Begins
    <3>3. CASE Goto(t, "done") \/ Goto(t, "failed")
      BY <2>1, <3>3 DEF TransitionFindsRoom, AtFindRoom, Shape, Plain, Settled
    <3> QED
      BY <2>1, <3>2, <3>3 DEF TransitionFindsRoom
  <2> QED
    BY <1>3, <2>1 DEF Transition, Shape
<1>4. ASSUME NEW t \in Tasks, Send(t) PROVE Shape(t)
  BY <1>4 DEF Send, SendFindsRoom, SendReadsParticipants, SaveMessage, AtFindRoom,
              Shape, Plain, Settled
<1>5. ASSUME NEW t \in Tasks, AwaitRejects(t) PROVE Shape(t)
  BY <1>5 DEF AwaitRejects, Awaits, Shape, Plain, Settled
<1> QED
  BY <1>1, <1>2, <1>3, <1>4, <1>5 DEF Next, Step, Fault, Quiescent, Shape

-----------------------------------------------------------------------------
(* The debate timers.                                                      *)

RequestsKept == \A c \in Calls : work[c] = Request[c]

\* The debate timer of a room is armed when its preparation timer is over, by
\* that timer's own task, and never again.
OneDebateTimer ==
    /\ \A h, g \in Timers :
         IsTimer(h, "VOTING") /\ IsTimer(g, "RUNNING") /\ RoomOf(h) = RoomOf(g)
            => pc[g] \in Settled
    /\ \A h, g \in Timers :
         IsTimer(h, "VOTING") /\ IsTimer(g, "VOTING") /\ RoomOf(h) = RoomOf(g)
            => h = g
    /\ \A h \in Timers : IsTimer(h, "VOTING")
         => \E g \in Timers : IsTimer(g, "RUNNING") /\ RoomOf(h) = RoomOf(g)

DebateTimersCancellable ==
    \A h \in Timers : pc[h] = "armed" /\ IsTimer(h, "VOTING")
                         => debateTimers[RoomOf(h)] = h

DebateInv == RequestsKept /\ OneDebateTimer /\ DebateTimersCancellable

LEMMA InitDebate == ASSUME Init PROVE DebateInv
BY ConstantsAssumption
DEF Init, DebateInv, RequestsKept, OneDebateTimer, DebateTimersCancellable, IsTimer, Tasks

\* Only a timer moves a room to RUNNING or VOTING.
LEMMA TimersMove ==
    ASSUME QuietRequests, RequestsKept, NEW t \in Tasks, work[t] \in TransitionWork,
           work[t].to \in {"RUNNING", "VOTING"}
    PROVE  t \in Timers /\ IsTimer(t, work[t].to)
BY ConstantsAssumption DEF QuietRequests, RequestsKept, IsTimer, Tasks, Work

\* Steps that arm nothing, revive nothing and leave the entries alone.
LEMMA KeepDebate ==
    ASSUME TypeInv, DebateInv, work' = work, debateTimers' = debateTimers,
           \A x \in Tasks : /\ pc'[x] = "armed" => pc[x] = "armed"
                            /\ pc[x] \in Settled => pc'[x] \in Settled
    PROVE  DebateInv'
BY DEF DebateInv, RequestsKept, OneDebateTimer, DebateTimersCancellable, IsTimer, RoomOf,
       Tasks

LEMMA ArmPrepDebate ==
    ASSUME TypeInv, PrepInv, DebateInv, NEW t \in Tasks, SchedulePrepTimer(t)
    PROVE  DebateInv'
<1>1. PICK h \in Timers : Arm(t, h, "RUNNING")
  BY DEF SchedulePrepTimer
<1>2. pc[t] = "schedulePrep" /\ debateTimers' = debateTimers
  BY DEF SchedulePrepTimer
<1>3. RoomOf(t) \in Rooms /\ pc[t] \in Awaits /\ TypeOK /\ WorkOK
  BY <1>2, RoomKnown DEF TypeInv, LabelsOK, Work, Awaits
<1>4. /\ h # t /\ h \in Tasks /\ pc[h] = "unset" /\ work[h] = None
      /\ work'[h] = [op |-> "transition", room |-> RoomOf(t), to |-> "RUNNING"]
      /\ work'[h] # None
  <2>1. /\ h # t /\ work'[h] = [op |-> "transition", room |-> RoomOf(t), to |-> "RUNNING"]
        /\ WorkOK'
    BY <1>1, <1>3, ArmType
  <2>2. pc'[h] = "armed"
    BY <1>1, <2>1 DEF Arm, TypeInv, TypeOK, Tasks
  <2> QED
    BY <1>1, <1>3, <2>1, <2>2, ConstantsAssumption DEF Arm, WorkOK, Tasks, Work
<1>5. /\ \A x \in Tasks : x # h => work'[x] = work[x]
      /\ \A x \in Tasks : pc'[x] = IF x = h THEN "armed"
                                   ELSE IF x = t THEN "done" ELSE pc[x]
  BY <1>1, <1>4 DEF Arm, TypeInv, TypeOK
<1>6. \A x \in Timers, to \in {"RUNNING", "VOTING"} :
        x # h => ((IsTimer(x, to))' <=> IsTimer(x, to)) /\ (RoomOf(x))' = RoomOf(x)
  BY <1>5 DEF IsTimer, RoomOf, Tasks
<1>7. (IsTimer(h, "RUNNING"))' /\ ~(IsTimer(h, "VOTING"))' /\ (RoomOf(h))' = RoomOf(t)
  BY <1>4 DEF IsTimer, RoomOf
\* A debate timer of the room would have had a preparation timer before it.
<1>8. \A x \in Timers : IsTimer(x, "VOTING") => RoomOf(x) # RoomOf(t)
  <2> SUFFICES ASSUME NEW x \in Timers, IsTimer(x, "VOTING"), RoomOf(x) = RoomOf(t)
               PROVE  FALSE
    OBVIOUS
  <2>1. PICK g \in Timers : IsTimer(g, "RUNNING") /\ RoomOf(x) = RoomOf(g)
    BY DEF DebateInv, OneDebateTimer
  <2>2. Starter(t) /\ Starter(g) /\ g \in Tasks
    BY <1>2, <2>1 DEF Starter, Starting, Tasks
  <2>3. g = t
    BY <2>1, <2>2 DEF PrepInv, OneStarter
  <2> QED
    BY <1>2, <2>1, <2>3 DEF IsTimer, TypeInv, WorkOK, LabelsOK, JoinWork, TransitionWork
<1>9. RequestsKept'
  BY <1>4, <1>5, ConstantsAssumption DEF DebateInv, RequestsKept, Tasks
<1>10. OneDebateTimer'
  <2>1. ASSUME NEW x \in Timers, NEW g \in Timers, (IsTimer(x, "VOTING"))',
               (IsTimer(g, "RUNNING"))', (RoomOf(x))' = (RoomOf(g))'
        PROVE  pc'[g] \in Settled
    <3>1. x # h /\ g # h
      BY <1>6, <1>7, <1>8, <2>1
    <3> QED
      BY <1>5, <1>6, <2>1, <3>1 DEF DebateInv, OneDebateTimer, Settled, Tasks
  <2>2. ASSUME NEW x \in Timers, NEW g \in Timers, (IsTimer(x, "VOTING"))',
               (IsTimer(g, "VOTING"))', (RoomOf(x))' = (RoomOf(g))'
        PROVE  x = g
    BY <1>6, <1>7, <2>2 DEF DebateInv, OneDebateTimer
  <2>3. ASSUME NEW x \in Timers, (IsTimer(x, "VOTING"))'
        PROVE  \E g \in Timers : (IsTimer(g, "RUNNING") /\ RoomOf(x) = RoomOf(g))'
    <3>1. PICK g \in Timers : IsTimer(g, "RUNNING") /\ RoomOf(x) = RoomOf(g)
      BY <1>6, <1>7, <2>3 DEF DebateInv, OneDebateTimer
    <3>2. g # h
      BY <1>4, <3>1 DEF IsTimer
    <3> QED
      BY <1>6, <1>7, <2>3, <3>1, <3>2
  <2> QED
    BY <2>1, <2>2, <2>3 DEF OneDebateTimer
<1>11. DebateTimersCancellable'
  BY <1>2, <1>5, <1>6, <1>7 DEF DebateInv, DebateTimersCancellable, Tasks
<1> QED
  BY <1>9, <1>10, <1>11 DEF DebateInv

\* The task that arms it is the preparation timer of the room, which ends here.
LEMMA ArmDebateDebate ==
    ASSUME QuietRequests, TypeInv, PrepInv, DebateInv, NEW t \in Tasks,
           ScheduleDebateTimer(t)
    PROVE  DebateInv'
<1>1. PICK h \in Timers : /\ Arm(t, h, "VOTING")
                          /\ debateTimers' = [debateTimers EXCEPT ![RoomOf(t)] = h]
  BY DEF ScheduleDebateTimer
<1>2. pc[t] = "committed" /\ work[t].to = "RUNNING" /\ work[t] \in TransitionWork
  BY DEF ScheduleDebateTimer, TypeInv, LabelsOK
<1>3. RoomOf(t) \in Rooms /\ pc[t] \in Awaits /\ TypeOK /\ WorkOK
  BY <1>2, RoomKnown DEF TypeInv, Work, Awaits
<1>4. /\ h # t /\ h \in Tasks /\ pc[h] = "unset" /\ work[h] = None
      /\ work'[h] = [op |-> "transition", room |-> RoomOf(t), to |-> "VOTING"]
      /\ work'[h] # None
  <2>1. /\ h # t /\ work'[h] = [op |-> "transition", room |-> RoomOf(t), to |-> "VOTING"]
        /\ WorkOK'
    BY <1>1, <1>3, ArmType
  <2>2. pc'[h] = "armed"
    BY <1>1, <2>1 DEF Arm, TypeInv, TypeOK, Tasks
  <2> QED
    BY <1>1, <1>3, <2>1, <2>2, ConstantsAssumption DEF Arm, WorkOK, Tasks, Work
<1>5. /\ \A x \in Tasks : x # h => work'[x] = work[x]
      /\ \A x \in Tasks : pc'[x] = IF x = h THEN "armed"
                                   ELSE IF x = t THEN "done" ELSE pc[x]
  BY <1>1, <1>4 DEF Arm, TypeInv, TypeOK
<1>6. \A x \in Timers, to \in {"RUNNING", "VOTING"} :
        x # h => ((IsTimer(x, to))' <=> IsTimer(x, to)) /\ (RoomOf(x))' = RoomOf(x)
  BY <1>5 DEF IsTimer, RoomOf, Tasks
<1>7. (IsTimer(h, "VOTING"))' /\ ~(IsTimer(h, "RUNNING"))' /\ (RoomOf(h))' = RoomOf(t)
  BY <1>4 DEF IsTimer, RoomOf
<1>8. t \in Timers /\ IsTimer(t, "RUNNING")
  BY <1>2, TimersMove DEF DebateInv
<1>9. \A x \in Timers : IsTimer(x, "VOTING") => RoomOf(x) # RoomOf(t)
  BY <1>2, <1>8 DEF DebateInv, OneDebateTimer, Settled
<1>10. \A g \in Timers : IsTimer(g, "RUNNING") /\ RoomOf(g) = RoomOf(t) => g = t
  BY <1>8 DEF PrepInv, OneStarter, Starter, Tasks
<1>11. RequestsKept'
  BY <1>4, <1>5, ConstantsAssumption DEF DebateInv, RequestsKept, Tasks
<1>12. OneDebateTimer'
  <2>1. ASSUME NEW x \in Timers, NEW g \in Timers, (IsTimer(x, "VOTING"))',
               (IsTimer(g, "RUNNING"))', (RoomOf(x))' = (RoomOf(g))'
        PROVE  pc'[g] \in Settled
    <3>1. g # h /\ IsTimer(g, "RUNNING") /\ (RoomOf(g))' = RoomOf(g)
      BY <1>6, <1>7, <2>1
    <3>2. CASE x = h
      BY <1>5, <1>7, <1>10, <2>1, <3>1, <3>2 DEF Settled, Tasks
    <3>3. CASE x # h
      BY <1>5, <1>6, <2>1, <3>1, <3>3 DEF DebateInv, OneDebateTimer, Settled, Tasks
    <3> QED
      BY <3>2, <3>3
  <2>2. ASSUME NEW x \in Timers, NEW g \in Timers, (IsTimer(x, "VOTING"))',
               (IsTimer(g, "VOTING"))', (RoomOf(x))' = (RoomOf(g))'
        PROVE  x = g
    BY <1>6, <1>7, <1>9, <2>2 DEF DebateInv, OneDebateTimer
  <2>3. ASSUME NEW x \in Timers, (IsTimer(x, "VOTING"))'
        PROVE  \E g \in Timers : (IsTimer(g, "RUNNING") /\ RoomOf(x) = RoomOf(g))'
    <3>1. CASE x = h
      BY <1>4, <1>6, <1>7, <1>8, <3>1
    <3>2. CASE x # h
      <4>1. PICK g \in Timers : IsTimer(g, "RUNNING") /\ RoomOf(x) = RoomOf(g)
        BY <1>6, <2>3, <3>2 DEF DebateInv, OneDebateTimer
      <4>2. g # h
        BY <1>4, <4>1 DEF IsTimer
      <4> QED
        BY <1>6, <3>2, <4>1, <4>2
    <3> QED
      BY <3>1, <3>2
  <2> QED
    BY <2>1, <2>2, <2>3 DEF OneDebateTimer
<1>13. DebateTimersCancellable'
  <2> SUFFICES ASSUME NEW x \in Timers, pc'[x] = "armed", (IsTimer(x, "VOTING"))'
               PROVE  debateTimers'[(RoomOf(x))'] = x
    BY DEF DebateTimersCancellable
  <2>1. CASE x = h
    BY <1>1, <1>3, <1>7, <2>1 DEF TypeOK
  <2>2. CASE x # h
    <3>1. /\ pc[x] = "armed" /\ IsTimer(x, "VOTING") /\ (RoomOf(x))' = RoomOf(x)
          /\ RoomOf(x) # RoomOf(t) /\ RoomOf(x) \in Rooms
      <4>1. pc[x] = "armed" /\ IsTimer(x, "VOTING") /\ (RoomOf(x))' = RoomOf(x)
        BY <1>5, <1>6, <2>2 DEF Tasks
      <4> QED
        BY <1>9, <4>1 DEF TypeInv, WorkOK, TransitionWork, RoomOf
    <3> QED
      BY <1>1, <3>1 DEF DebateInv, DebateTimersCancellable, TypeInv, TypeOK
  <2> QED
    BY <2>1, <2>2
<1> QED
  BY <1>11, <1>12, <1>13 DEF DebateInv

\* A callback and a clearTimeout delete the entry of a handle that is over.
LEMMA EndDebate ==
    ASSUME TypeInv, DebateInv, NEW t \in Tasks,
           TimerFires(t) \/ OpenVoting(t) \/ CloseRoom(t)
    PROVE  DebateInv'
<1>1. work' = work
  BY DEF TimerFires, OpenVoting, CloseRoom
<1>2. \A x \in Tasks : /\ pc'[x] = "armed" => pc[x] = "armed"
                       /\ pc[x] \in Settled => pc'[x] \in Settled
  BY DEF TimerFires, OpenVoting, CloseRoom, ClearAndGoto, Goto, TypeInv, TypeOK, Settled
<1>3. RequestsKept' /\ OneDebateTimer'
  BY <1>1, <1>2 DEF DebateInv, RequestsKept, OneDebateTimer, IsTimer, RoomOf, Tasks
<1>4. DebateTimersCancellable'
  <2> SUFFICES ASSUME NEW x \in Timers, pc'[x] = "armed", IsTimer(x, "VOTING")
               PROVE  debateTimers'[RoomOf(x)] = x
    BY <1>1 DEF DebateTimersCancellable, IsTimer, RoomOf
  <2>1. pc[x] = "armed" /\ debateTimers[RoomOf(x)] = x /\ x \in Tasks
    BY <1>2 DEF DebateInv, DebateTimersCancellable, Tasks
  <2>2. RoomOf(x) \in Rooms
    BY <2>1 DEF TypeInv, WorkOK, TransitionWork, RoomOf
  <2>3. CASE TimerFires(t)
    <3>1. t \in Timers /\ x # t /\ work[t] \in TransitionWork
          /\ work[t].to \in {"RUNNING", "VOTING"}
      BY <2>1, <2>3 DEF TimerFires, Goto, TypeInv, TypeOK, WorkOK, Tasks
    <3>2. CASE work[t].to = "RUNNING"
      BY <2>1, <2>3, <3>2 DEF TimerFires
    <3>3. CASE work[t].to = "VOTING"
      <4>1. IsTimer(t, "VOTING")
        BY <3>1, <3>3, ConstantsAssumption DEF IsTimer, Work
      <4>2. RoomOf(x) # RoomOf(t)
        BY <3>1, <4>1 DEF DebateInv, OneDebateTimer
      <4> QED
        BY <2>1, <2>2, <2>3, <3>3, <4>2 DEF TimerFires, Deleted, TypeInv, TypeOK
    <3> QED
      BY <3>1, <3>2, <3>3
  <2>4. CASE OpenVoting(t) \/ CloseRoom(t)
    <3>1. RoomOf(x) # RoomOf(t)
      BY <2>1, <2>4 DEF OpenVoting, CloseRoom, ClearAndGoto
    <3> QED
      BY <2>1, <2>2, <2>4, <3>1 DEF OpenVoting, CloseRoom, Deleted, TypeInv, TypeOK
  <2> QED
    BY <2>3, <2>4
<1> QED
  BY <1>3, <1>4 DEF DebateInv

LEMMA NextDebate ==
    ASSUME QuietRequests, TypeInv, PrepInv, DebateInv, [Next]_vars PROVE DebateInv'
<1>1. CASE UNCHANGED vars
  BY <1>1, KeepDebate DEF vars, timerMaps
<1>2. ASSUME NEW r \in Rooms, CreateRoom(r) PROVE DebateInv'
  BY <1>2, KeepDebate DEF CreateRoom, timerMaps
<1>3. ASSUME NEW t \in Tasks, Shape(t) PROVE DebateInv'
  <2>1. CASE Plain(t)
    BY <2>1, KeepDebate DEF Plain, Goto, TypeInv, TypeOK
  <2>2. CASE Inserts(t)
    BY <2>2, KeepDebate DEF Inserts, AddParticipant, Goto, TypeInv, TypeOK, Settled, timerMaps
  <2>3. CASE RandomQuestion(t) \/ SetQuestion(t)
    BY <2>3, KeepDebate
    DEF RandomQuestion, AfterDraw, SetQuestion, Goto, TypeInv, TypeOK, Settled, timerMaps
  <2>4. CASE Begins(t)
    BY <2>4, KeepDebate DEF Begins, AtFindRoom, Goto, TypeInv, TypeOK, Settled
  <2>5. CASE TransitionState(t)
    BY <2>5, KeepDebate DEF TransitionState, Goto, TypeInv, TypeOK, Settled, timerMaps
  <2>6. ASSUME NEW j \in JobKinds, EnqueueJob(t, j) \/ AddRejects(t, j)
        PROVE  DebateInv'
    BY <2>6, KeepDebate
    DEF EnqueueJob, AddRejects, Goto, TypeInv, TypeOK, Settled, timerMaps
  <2> QED
    BY <1>3, <2>1, <2>2, <2>3, <2>4, <2>5, <2>6, ArmPrepDebate, ArmDebateDebate, EndDebate
    DEF Shape
<1>4. CASE Crash
  BY <1>4 DEF Crash, Dormant, Settled, DebateInv, RequestsKept, OneDebateTimer,
              DebateTimersCancellable, IsTimer, RoomOf, Tasks
<1> QED
  BY <1>1, <1>2, <1>3, <1>4, Shapes

LEMMA DebateInvariant == ASSUME QuietRequests PROVE Spec => []DebateInv
<1>1. Init => DebateInv
  BY InitDebate
<1>2. TypeInv /\ PrepInv /\ DebateInv /\ [Next]_vars => DebateInv'
  BY NextDebate
<1> QED
  BY <1>1, <1>2, TypeInvariant, PrepInvariant, PTL DEF Spec, Safety

\* While only timers start and end debates, every running timer is the entry of
\* its room: none is orphaned by an overwrite or by another's callback.
THEOREM TimersStayCancellable == ASSUME QuietRequests PROVE Spec => []NoOrphanTimer
<1>1. TypeInv /\ PrepTimersCancellable /\ DebateInv => NoOrphanTimer
  <2> SUFFICES ASSUME TypeInv, PrepTimersCancellable, DebateInv,
                      NEW h \in Timers, pc[h] = "armed"
               PROVE  h = IF work[h].to = "RUNNING" THEN prepTimers[RoomOf(h)]
                                                    ELSE debateTimers[RoomOf(h)]
    BY DEF NoOrphanTimer
  <2>1. work[h].to \in {"RUNNING", "VOTING"} /\ work[h] # None
    BY ConstantsAssumption DEF TypeInv, WorkOK, Work
  <2> QED
    BY <2>1 DEF PrepTimersCancellable, DebateInv, DebateTimersCancellable, IsTimer
<1> QED
  BY <1>1, TypeInvariant, TimersInvariant, DebateInvariant, PTL

-----------------------------------------------------------------------------
(* The question.                                                           *)

Drawn(r) == Questions # {} => question[r] # None

\* From the end of the draw on, whatever moves the room finds its question drawn.
QuestionInv ==
    /\ \A t \in Tasks : pc[t] \in {"schedulePrep", "transitionState", "committed"}
                            => Drawn(RoomOf(t))
    /\ \A h \in Timers : work[h] # None => Drawn(RoomOf(h))
    /\ \A r \in Rooms : state[r] \in {"RUNNING", "VOTING", "CLOSED"} => Drawn(r)

LEMMA InitQuestion == ASSUME Init PROVE QuestionInv
BY ConstantsAssumption DEF Init, QuestionInv, Tasks

\* Steps that draw no question, move no room and take no task past the draw.
LEMMA KeepQuestion ==
    ASSUME QuestionInv, work' = work, question' = question,
           \A t \in Tasks : pc'[t] \in {"schedulePrep", "transitionState", "committed"}
                               => pc'[t] = pc[t] \/ Drawn(RoomOf(t)),
           \A r \in Rooms : state'[r] \in {"RUNNING", "VOTING", "CLOSED"}
                               => state'[r] = state[r] \/ Drawn(r)
    PROVE  QuestionInv'
BY DEF QuestionInv, Drawn, RoomOf

LEMMA ArmQuestion ==
    ASSUME TypeInv, QuestionInv, NEW t \in Tasks,
           SchedulePrepTimer(t) \/ ScheduleDebateTimer(t)
    PROVE  QuestionInv'
<1>1. PICK h \in Timers, to \in {"RUNNING", "VOTING"} :
        Arm(t, h, to) /\ pc[t] \in {"schedulePrep", "committed"}
  BY DEF SchedulePrepTimer, ScheduleDebateTimer
<1>2. UNCHANGED <<state, question>>
  BY DEF SchedulePrepTimer, ScheduleDebateTimer, dbVars
<1>3. RoomOf(t) \in Rooms /\ pc[t] \in Awaits /\ TypeOK /\ WorkOK
  BY <1>1, RoomKnown DEF TypeInv, LabelsOK, Work, Awaits
<1>4. h # t /\ h \in Tasks /\ work'[h] = [op |-> "transition", room |-> RoomOf(t), to |-> to]
  BY <1>1, <1>3, ArmType DEF Tasks
<1>5. /\ \A x \in Tasks : x # h => work'[x] = work[x]
      /\ \A x \in Tasks : pc'[x] = IF x = h THEN "armed"
                                   ELSE IF x = t THEN "done" ELSE pc[x]
  BY <1>1, <1>4 DEF Arm, TypeInv, TypeOK
<1>6. Drawn(RoomOf(t)) /\ \A r : (Drawn(r))' <=> Drawn(r)
  BY <1>1, <1>2 DEF QuestionInv, Drawn
<1>7. (RoomOf(h))' = RoomOf(t) /\ \A x \in Tasks : x # h => (RoomOf(x))' = RoomOf(x)
  BY <1>4, <1>5 DEF RoomOf
<1>8. \A x \in Tasks : pc'[x] \in {"schedulePrep", "transitionState", "committed"}
                           => (Drawn(RoomOf(x)))'
  BY <1>5, <1>6, <1>7 DEF QuestionInv
<1>9. \A x \in Timers : work'[x] # None => (Drawn(RoomOf(x)))'
  BY <1>5, <1>6, <1>7 DEF QuestionInv, Tasks
<1>10. \A r \in Rooms : state'[r] \in {"RUNNING", "VOTING", "CLOSED"} => (Drawn(r))'
  BY <1>2, <1>6 DEF QuestionInv
<1> QED
  BY <1>8, <1>9, <1>10 DEF QuestionInv

\* A request can only ask for CLOSED, and is served in VOTING alone.
LEMMA BeginQuestion ==
    ASSUME QuietRequests, TypeInv, DebateInv, QuestionInv, NEW t \in Tasks, Begins(t)
    PROVE  QuestionInv'
<1>1. RoomOf(t) \in Rooms /\ state[RoomOf(t)] \in DebateStates /\ work[t] # None
  BY RoomKnown, ConstantsAssumption DEF Begins, Work, TypeInv, TypeOK
<1>2. CASE t \in Timers
  BY <1>1, <1>2, KeepQuestion DEF Begins, Goto, TypeInv, TypeOK, QuestionInv
<1>3. CASE t \notin Timers
  <2>1. work[t].to \notin {"RUNNING", "VOTING"} /\ work[t].to \in DebateStates
    BY <1>3, TimersMove DEF Begins, DebateInv, TransitionWork
  <2>2. state[RoomOf(t)] = "VOTING"
    BY <1>1, <2>1 DEF Begins, isValidTransition, ALLOWED_TRANSITIONS, DebateStates
  <2> QED
    BY <1>1, <2>2, KeepQuestion DEF Begins, Goto, TypeInv, TypeOK, QuestionInv
<1> QED
  BY <1>2, <1>3

LEMMA NextQuestion ==
    ASSUME QuietRequests, TypeInv, DebateInv, QuestionInv, [Next]_vars
    PROVE  QuestionInv'
<1> USE DEF dbVars
<1>1. CASE UNCHANGED vars
  BY <1>1, KeepQuestion DEF vars
<1>2. ASSUME NEW r \in Rooms, CreateRoom(r) PROVE QuestionInv'
  BY <1>2, KeepQuestion DEF CreateRoom, DefaultState, TypeInv, TypeOK
<1>3. ASSUME NEW t \in Tasks, Shape(t) PROVE QuestionInv'
  <2>1. CASE Plain(t)
    BY <2>1, KeepQuestion DEF Plain, Goto, TypeInv, TypeOK
  <2>2. CASE Inserts(t)
    BY <2>2, KeepQuestion DEF Inserts, AddParticipant, Goto, TypeInv, TypeOK
  <2>3. CASE RandomQuestion(t)
    BY <2>3, KeepQuestion DEF RandomQuestion, AfterDraw, Drawn, Goto, TypeInv, TypeOK
  <2>4. CASE SetQuestion(t)
    <3>1. RoomOf(t) \in Rooms
      BY <2>4, RoomKnown DEF SetQuestion, TypeInv, LabelsOK, Work
    <3>2. question'[RoomOf(t)] # None /\ \A r \in Rooms : Drawn(r) => (Drawn(r))'
      BY <2>4, <3>1, ConstantsAssumption DEF SetQuestion, Drawn, TypeInv, TypeOK
    <3>3. work' = work /\ state' = state /\ Goto(t, "schedulePrep")
      BY <2>4 DEF SetQuestion
    <3>4. \A x \in Tasks : pc'[x] \in {"schedulePrep", "transitionState", "committed"}
             => RoomOf(x) \in Rooms
      BY <3>1, <3>3, RoomKnown DEF TypeInv, TypeOK, LabelsOK, Work, Goto
    <3>5. \A h \in Timers : work[h] # None => RoomOf(h) \in Rooms
      BY DEF TypeInv, WorkOK, TransitionWork, RoomOf
    <3> QED
      BY <3>2, <3>3, <3>4, <3>5 DEF QuestionInv, Drawn, RoomOf, Goto, TypeInv, TypeOK
  <2>5. CASE TransitionState(t)
    <3>1. Drawn(RoomOf(t)) /\ RoomOf(t) \in Rooms
      BY <2>5, RoomKnown DEF TransitionState, QuestionInv, TypeInv, LabelsOK, Work
    <3> QED
      BY <2>5, <3>1, KeepQuestion DEF TransitionState, Goto, TypeInv, TypeOK
  <2>6. CASE TimerFires(t)
    BY <2>6, KeepQuestion DEF TimerFires, Goto, TypeInv, TypeOK
  <2>7. CASE OpenVoting(t) \/ CloseRoom(t)
    BY <2>7, KeepQuestion DEF OpenVoting, CloseRoom, ClearAndGoto, TypeInv, TypeOK
  <2>8. ASSUME NEW j \in JobKinds, EnqueueJob(t, j) \/ AddRejects(t, j)
        PROVE  QuestionInv'
    BY <2>8, KeepQuestion DEF EnqueueJob, AddRejects, Goto, TypeInv, TypeOK
  <2> QED
    BY <1>3, <2>1, <2>2, <2>3, <2>4, <2>5, <2>6, <2>7, <2>8, ArmQuestion, BeginQuestion
    DEF Shape
<1>4. CASE Crash
  BY <1>4, KeepQuestion DEF Crash, Dormant, Settled, TypeInv, TypeOK
<1> QED
  BY <1>1, <1>2, <1>3, <1>4, Shapes

LEMMA QuestionInvariant == ASSUME QuietRequests PROVE Spec => []QuestionInv
<1>1. Init => QuestionInv
  BY InitQuestion
<1>2. TypeInv /\ DebateInv /\ QuestionInv /\ [Next]_vars => QuestionInv'
  BY NextQuestion
<1> QED
  BY <1>1, <1>2, TypeInvariant, DebateInvariant, PTL DEF Spec, Safety

\* While only timers start and end debates, none runs without its question,
\* if there was one to draw.
THEOREM DebatesHaveQuestions == ASSUME QuietRequests PROVE Spec => []StartsWithQuestion
<1>1. QuestionInv => StartsWithQuestion
  BY DEF QuestionInv, StartsWithQuestion, Drawn
<1> QED
  BY <1>1, QuestionInvariant, PTL

-----------------------------------------------------------------------------
(* The turns tasks take at a room, and the finalization job.               *)

SeatsUnique ==
    \A p, q \in participants :
        p.room = q.room /\ (p.user = q.user \/ p.side = q.side) => p = q

Waiting == {"armed", "findRoom", "transitionState"}
Over == {"VOTING", "CLOSED"}

\* What a task that is about to change a room knows of its state.
TurnsInv ==
    /\ \A t \in Tasks : pc[t] \in {"getParticipants", "addParticipant"}
                            => state[RoomOf(t)] # "ABSENT"
    /\ \A r \in Rooms : state[r] \in {"RUNNING", "VOTING", "CLOSED"}
                            => \A s \in Sides : Taken(r, s)
    /\ \A t \in Tasks :
         /\ pc[t] \in Starting => state[RoomOf(t)] = "PREPARATION"
         /\ IsTimer(t, "RUNNING") /\ pc[t] \in Waiting => state[RoomOf(t)] = "PREPARATION"
         /\ IsTimer(t, "RUNNING") /\ pc[t] = "committed" => state[RoomOf(t)] = "RUNNING"
         /\ IsTimer(t, "VOTING") /\ pc[t] \in Waiting => state[RoomOf(t)] = "RUNNING"
         /\ IsTimer(t, "VOTING") /\ pc[t] \in {"committed", "enqueue"}
               => state[RoomOf(t)] \in Over
         /\ pc[t] = "transitionState" /\ work[t].to \notin {"RUNNING", "VOTING"}
               => work[t].to = "CLOSED" /\ state[RoomOf(t)] \in Over

AddedTo(r) == jobs[r]["finalization"]

JobInv ==
    /\ \A t \in Tasks : IsTimer(t, "VOTING") /\ pc[t] = "committed" => AddedTo(RoomOf(t)) = 0
    /\ \A t \in Tasks : "finalization" \in pending[t]
         => IsTimer(t, "VOTING") /\ pc[t] = "enqueue" /\ AddedTo(RoomOf(t)) = 0
    /\ \A r \in Rooms : AddedTo(r) # 0 => state[r] \in Over

LifeInv == SeatsUnique /\ TurnsInv /\ JobInv

LEMMA InitLife == ASSUME Init PROVE LifeInv
BY ConstantsAssumption
DEF Init, LifeInv, SeatsUnique, TurnsInv, JobInv, AddedTo, IsTimer, Waiting, Starting,
    Tasks, JobKinds

\* A task moves along its handler without passing a query that moves a room.
Along(old, new) ==
    \/ new = old
    \/ new \in Settled \cup {"saveMessage"}
    \/ {old, new} \subseteq Starting
    \/ {old, new} \subseteq {"getParticipants", "addParticipant"}
    \/ old = "armed" /\ new = "findRoom"
    \/ old = "committed" /\ new = "enqueue"

LEMMA KeepTurns ==
    ASSUME TurnsInv, state' = state, work' = work, participants' = participants,
           \A t \in Tasks :
              \/ Along(pc[t], pc'[t])
              \/ pc'[t] \in {"getParticipants", "addParticipant"}
                    /\ state[RoomOf(t)] # "ABSENT"
    PROVE  TurnsInv'
BY DEF TurnsInv, Along, Settled, Starting, Waiting, IsTimer, RoomOf, Taken

LEMMA KeepJobs ==
    ASSUME JobInv, jobs' = jobs, work' = work,
           \A t \in Tasks : /\ pc'[t] = "committed" => pc[t] = "committed"
                            /\ "finalization" \in pending'[t] =>
                                  "finalization" \in pending[t] /\ pc'[t] = pc[t],
           \A r \in Rooms : state[r] \in Over => state'[r] \in Over
    PROVE  JobInv'
BY DEF JobInv, AddedTo, IsTimer, RoomOf

\* A seat is only ever inserted before the debate: later, both sides are taken.
LEMMA InsertEarly ==
    ASSUME TypeInv, TurnsInv, NEW t \in Tasks, Inserts(t)
    PROVE  RoomOf(t) \in Rooms /\ state[RoomOf(t)] = "PREPARATION"
<1>1. pc[t] = "addParticipant" /\ FreeSide(t) \in Sides
  BY DEF Inserts, AddParticipant, FreeSide, Sides
<1>2. RoomOf(t) \in Rooms
  BY <1>1, RoomKnown DEF TypeInv, LabelsOK, Work
<1>3. ~Taken(RoomOf(t), FreeSide(t))
  BY DEF Inserts, InsertAllowed, Seated, Taken
<1> QED
  BY <1>1, <1>2, <1>3 DEF TurnsInv, TypeInv, TypeOK, DebateStates

LEMMA InsertLife ==
    ASSUME TypeInv, LifeInv, NEW t \in Tasks, Inserts(t)
    PROVE  LifeInv'
<1> DEFINE row == [room |-> RoomOf(t), user |-> work[t].user, side |-> FreeSide(t)]
<1>1. /\ InsertAllowed(row) /\ participants' = participants \cup {row}
      /\ Goto(t, "randomQuestion") \/ Goto(t, "done")
      /\ pc[t] = "addParticipant"
      /\ UNCHANGED <<state, work, jobs, pending>>
  BY DEF Inserts, AddParticipant, locals
<1>2. SeatsUnique'
  BY <1>1 DEF LifeInv, SeatsUnique, InsertAllowed, Seated
<1>3. \A r, s : Taken(r, s) => (Taken(r, s))'
  BY <1>1 DEF Taken
<1>4. \A x \in Tasks : x # t => pc'[x] = pc[x]
  BY <1>1 DEF Goto, TypeInv, TypeOK
<1>5. pc'[t] \in {"randomQuestion", "done"} /\ state[RoomOf(t)] = "PREPARATION"
  BY <1>1, InsertEarly DEF Goto, TypeInv, TypeOK, LifeInv
<1>6. TurnsInv'
  BY <1>1, <1>3, <1>4, <1>5 DEF LifeInv, TurnsInv, Starting, Waiting, IsTimer, RoomOf
<1>7. JobInv'
  <2>1. "finalization" \notin pending[t]
    BY <1>1 DEF LifeInv, JobInv
  <2> QED
    BY <1>1, <1>4, <1>5, <2>1, KeepJobs DEF LifeInv
<1> QED
  BY <1>2, <1>6, <1>7 DEF LifeInv

\* A timer is armed in the state its callback expects to find.
LEMMA ArmLife ==
    ASSUME QuietRequests, TypeInv, DebateInv, LifeInv, NEW t \in Tasks,
           SchedulePrepTimer(t) \/ ScheduleDebateTimer(t)
    PROVE  LifeInv'
<1>1. PICK h \in Timers, to \in {"RUNNING", "VOTING"} :
        /\ Arm(t, h, to)
        /\ \/ to = "RUNNING" /\ pc[t] = "schedulePrep"
           \/ to = "VOTING" /\ pc[t] = "committed" /\ work[t].to = "RUNNING"
  BY DEF SchedulePrepTimer, ScheduleDebateTimer
<1>2. UNCHANGED <<state, participants, jobs, pending>>
  BY DEF SchedulePrepTimer, ScheduleDebateTimer, dbVars, locals
<1>3. RoomOf(t) \in Rooms /\ pc[t] \in Awaits /\ TypeOK /\ WorkOK
  BY <1>1, RoomKnown DEF TypeInv, LabelsOK, Work, Awaits
<1>4. /\ h # t /\ h \in Tasks /\ pc[h] = "unset"
      /\ work'[h] = [op |-> "transition", room |-> RoomOf(t), to |-> to]
  BY <1>1, <1>3, ArmType DEF Arm, Tasks
<1>5. /\ \A x \in Tasks : x # h => work'[x] = work[x]
      /\ \A x \in Tasks : pc'[x] = IF x = h THEN "armed"
                                   ELSE IF x = t THEN "done" ELSE pc[x]
  BY <1>1, <1>4 DEF Arm, TypeInv, TypeOK
<1>6. state[RoomOf(t)] = IF to = "RUNNING" THEN "PREPARATION" ELSE "RUNNING"
  <2>1. CASE to = "RUNNING"
    BY <1>1, <2>1 DEF LifeInv, TurnsInv, Starting
  <2>2. CASE to = "VOTING"
    <3>1. IsTimer(t, "RUNNING")
      BY <1>1, <2>2, TimersMove DEF DebateInv, TypeInv, LabelsOK
    <3> QED
      BY <1>1, <2>2, <3>1 DEF LifeInv, TurnsInv
  <2> QED
    BY <2>1, <2>2
<1>7. (RoomOf(h))' = RoomOf(t) /\ work'[h].to = to /\ pc'[h] = "armed"
  BY <1>4, <1>5 DEF RoomOf
<1>8. \A x \in Tasks : x # h => (RoomOf(x))' = RoomOf(x)
  BY <1>5 DEF RoomOf
<1>9. TurnsInv'
  <2>1. \A x \in Tasks : x # h => pc'[x] \in {pc[x], "done"}
    BY <1>5
  <2>2. \A r, s : (Taken(r, s))' <=> Taken(r, s)
    BY <1>2 DEF Taken
  <2>3. ASSUME NEW x \in Tasks, x # h
        PROVE  /\ pc'[x] \in {"getParticipants", "addParticipant"}
                     => state'[(RoomOf(x))'] # "ABSENT"
               /\ pc'[x] \in Starting => state'[(RoomOf(x))'] = "PREPARATION"
               /\ (IsTimer(x, "RUNNING"))' /\ pc'[x] \in Waiting
                     => state'[(RoomOf(x))'] = "PREPARATION"
               /\ (IsTimer(x, "RUNNING"))' /\ pc'[x] = "committed"
                     => state'[(RoomOf(x))'] = "RUNNING"
               /\ (IsTimer(x, "VOTING"))' /\ pc'[x] \in Waiting
                     => state'[(RoomOf(x))'] = "RUNNING"
               /\ (IsTimer(x, "VOTING"))' /\ pc'[x] \in {"committed", "enqueue"}
                     => state'[(RoomOf(x))'] \in Over
               /\ pc'[x] = "transitionState" /\ work'[x].to \notin {"RUNNING", "VOTING"}
                     => work'[x].to = "CLOSED" /\ state'[(RoomOf(x))'] \in Over
    BY <1>2, <1>5, <1>8, <2>1, <2>3 DEF LifeInv, TurnsInv, IsTimer, Starting, Waiting
  <2> QED
    BY <1>2, <1>6, <1>7, <2>2, <2>3 DEF LifeInv, TurnsInv, IsTimer, Starting, Waiting
<1>10. JobInv'
  <2>1. \A x \in Tasks : "finalization" \in pending[x] => x # h /\ x # t
    BY <1>1, <1>4 DEF LifeInv, JobInv
  <2>2. \A r : (AddedTo(r))' = AddedTo(r)
    BY <1>2 DEF AddedTo
  <2> QED
    BY <1>2, <1>5, <1>7, <1>8, <2>1, <2>2 DEF LifeInv, JobInv, IsTimer
<1>11. SeatsUnique'
  BY <1>2 DEF LifeInv, SeatsUnique
<1> QED
  BY <1>9, <1>10, <1>11 DEF LifeInv

LEMMA BeginLife ==
    ASSUME QuietRequests, TypeInv, DebateInv, LifeInv, NEW t \in Tasks, Begins(t)
    PROVE  LifeInv'
<1>1. /\ UNCHANGED <<state, participants, jobs, work, pending>>
      /\ pc[t] \in {"unsent", "findRoom"}
      /\ \A x \in Tasks : pc'[x] = IF x = t THEN "transitionState" ELSE pc[x]
  BY DEF Begins, AtFindRoom, Goto, TypeInv, TypeOK
<1>2. SeatsUnique'
  BY <1>1 DEF LifeInv, SeatsUnique
<1>3. TurnsInv'
  <2>1. CASE work[t].to \in {"RUNNING", "VOTING"}
    <3>1. t \in Timers /\ pc[t] = "findRoom"
      BY <1>1, <2>1, TimersMove DEF Begins, DebateInv, TypeInv, WorkOK
    <3> QED
      BY <1>1, <2>1, <3>1 DEF LifeInv, TurnsInv, Starting, Waiting, IsTimer, RoomOf, Taken
  <2>2. CASE work[t].to \notin {"RUNNING", "VOTING"}
    <3>1. RoomOf(t) \in Rooms /\ state[RoomOf(t)] \in DebateStates
          /\ work[t].to \in DebateStates
      BY RoomKnown DEF Begins, Work, TypeInv, TypeOK, TransitionWork
    <3>2. work[t].to = "CLOSED" /\ state[RoomOf(t)] \in Over
      BY <2>2, <3>1 DEF Begins, isValidTransition, ALLOWED_TRANSITIONS, DebateStates, Over
    <3> QED
      BY <1>1, <2>2, <3>2 DEF LifeInv, TurnsInv, Starting, Waiting, IsTimer, RoomOf, Taken
  <2> QED
    BY <2>1, <2>2
<1>4. JobInv'
  <2>1. "finalization" \notin pending[t]
    BY <1>1 DEF LifeInv, JobInv
  <2> QED
    BY <1>1, <2>1, KeepJobs DEF LifeInv
<1> QED
  BY <1>2, <1>3, <1>4 DEF LifeInv

\* What an UPDATE of a room's state replaces: nothing has moved since it was read,
\* except that a room being closed may be closed already.
LEMMA Replaces ==
    ASSUME QuietRequests, TypeInv, DebateInv, LifeInv, NEW t \in Tasks, TransitionState(t)
    PROVE  /\ RoomOf(t) \in Rooms
           /\ \/ /\ IsTimer(t, "RUNNING") /\ work[t].to = "RUNNING"
                 /\ state[RoomOf(t)] = "PREPARATION"
              \/ /\ IsTimer(t, "VOTING") /\ work[t].to = "VOTING"
                 /\ state[RoomOf(t)] = "RUNNING"
              \/ work[t].to = "CLOSED" /\ state[RoomOf(t)] \in Over
<1>1. pc[t] = "transitionState" /\ work[t] \in TransitionWork
  BY DEF TransitionState, TypeInv, LabelsOK
<1>2. RoomOf(t) \in Rooms
  BY <1>1, RoomKnown DEF Work
<1>3. CASE work[t].to \in {"RUNNING", "VOTING"}
  <2>1. IsTimer(t, work[t].to)
    BY <1>1, <1>3, TimersMove DEF DebateInv
  <2> QED
    BY <1>1, <1>2, <1>3, <2>1 DEF LifeInv, TurnsInv, Waiting
<1>4. CASE work[t].to \notin {"RUNNING", "VOTING"}
  BY <1>1, <1>2, <1>4 DEF LifeInv, TurnsInv
<1> QED
  BY <1>3, <1>4

LEMMA MoveLife ==
    ASSUME QuietRequests, TypeInv, PrepInv, DebateInv, LifeInv, NEW t \in Tasks,
           TransitionState(t)
    PROVE  LifeInv'
<1> DEFINE r == RoomOf(t)
<1>1. /\ UNCHANGED <<participants, jobs, work, pending>>
      /\ pc[t] = "transitionState"
      /\ \A x \in Tasks : pc'[x] = IF x = t THEN "committed" ELSE pc[x]
  BY DEF TransitionState, Goto, TypeInv, TypeOK, locals
<1>2. r \in Rooms /\ \/ /\ IsTimer(t, "RUNNING") /\ work[t].to = "RUNNING"
                        /\ state[r] = "PREPARATION"
                     \/ /\ IsTimer(t, "VOTING") /\ work[t].to = "VOTING"
                        /\ state[r] = "RUNNING"
                     \/ work[t].to = "CLOSED" /\ state[r] \in Over
  BY Replaces
<1>3. \A q \in Rooms : state'[q] = IF q = r THEN work[t].to ELSE state[q]
  BY <1>2 DEF TransitionState, TypeInv, TypeOK
<1>4. SeatsUnique'
  BY <1>1 DEF LifeInv, SeatsUnique
<1>5. \A x \in Tasks : /\ (RoomOf(x))' = RoomOf(x)
                       /\ \A to : (IsTimer(x, to))' <=> IsTimer(x, to)
  BY <1>1 DEF RoomOf, IsTimer
<1>6. \A q, s : (Taken(q, s))' <=> Taken(q, s)
  BY <1>1 DEF Taken
<1>7. TurnsInv'
  <2>1. \A q \in Rooms : state'[q] \in {"RUNNING", "VOTING", "CLOSED"}
                            => \A s \in Sides : (Taken(q, s))'
    <3>1. CASE IsTimer(t, "RUNNING")
      <4>1. Starter(t)
        BY <3>1 DEF Starter
      <4>2. Taken(r, "CONTRE")
        BY <4>1 DEF PrepInv, OneStarter
      <4>3. Taken(r, "POUR")
        BY <4>2 DEF PrepInv, SeatOrder, Taken
      <4> QED
        BY <1>3, <1>6, <4>2, <4>3 DEF LifeInv, TurnsInv, Sides
    <3>2. CASE state[r] \in {"RUNNING", "VOTING", "CLOSED"}
      BY <1>3, <1>6, <3>2 DEF LifeInv, TurnsInv
    <3> QED
      BY <1>2, <3>1, <3>2 DEF Over
  <2>2. ASSUME NEW x \in Tasks, pc'[x] \in {"getParticipants", "addParticipant"}
        PROVE  state'[RoomOf(x)] # "ABSENT"
    <3>1. RoomOf(x) \in Rooms
      BY <1>1, <2>2, RoomKnown DEF TypeInv, LabelsOK, Work
    <3> QED
      BY <1>1, <1>2, <1>3, <2>2, <3>1 DEF LifeInv, TurnsInv
  <2>3. ASSUME NEW x \in Tasks, x # t, RoomOf(x) = r
        PROVE  /\ ~(pc[x] \in Starting)
               /\ IsTimer(x, "RUNNING") => pc[x] \notin Waiting \cup {"committed"}
               /\ IsTimer(x, "VOTING") => pc[x] \notin Waiting
               /\ IsTimer(x, "VOTING") /\ pc[x] \in {"committed", "enqueue"}
                     => state'[r] \in Over
               /\ pc[x] = "transitionState" /\ work[x].to \notin {"RUNNING", "VOTING"}
                     => state'[r] \in Over
    <3>1. CASE IsTimer(t, "RUNNING") /\ work[t].to = "RUNNING" /\ state[r] = "PREPARATION"
      <4>1. Starter(t) /\ ~Starter(x)
        BY <2>3, <3>1 DEF Starter, PrepInv, OneStarter
      <4>2. ~IsTimer(x, "VOTING")
        BY <1>1, <2>3, <3>1 DEF DebateInv, OneDebateTimer, IsTimer, Settled
      <4> QED
        BY <2>3, <3>1, <4>1, <4>2 DEF LifeInv, TurnsInv, Starter, Over
    <3>2. CASE IsTimer(t, "VOTING") /\ work[t].to = "VOTING" /\ state[r] = "RUNNING"
      <4>1. ~IsTimer(x, "VOTING")
        BY <2>3, <3>2 DEF DebateInv, OneDebateTimer, IsTimer
      <4>2. IsTimer(x, "RUNNING") => pc[x] \in Settled
        BY <2>3, <3>2 DEF DebateInv, OneDebateTimer, IsTimer
      <4> QED
        BY <1>2, <1>3, <2>3, <3>2, <4>1, <4>2 DEF LifeInv, TurnsInv, Settled, Waiting, Over
    <3>3. CASE work[t].to = "CLOSED" /\ state[r] \in Over
      BY <1>2, <1>3, <2>3, <3>3 DEF LifeInv, TurnsInv, Over
    <3> QED
      BY <1>2, <3>1, <3>2, <3>3
  <2>4. ASSUME NEW x \in Tasks
        PROVE  /\ pc'[x] \in Starting => state'[RoomOf(x)] = "PREPARATION"
               /\ IsTimer(x, "RUNNING") /\ pc'[x] \in Waiting
                     => state'[RoomOf(x)] = "PREPARATION"
               /\ IsTimer(x, "RUNNING") /\ pc'[x] = "committed"
                     => state'[RoomOf(x)] = "RUNNING"
               /\ IsTimer(x, "VOTING") /\ pc'[x] \in Waiting
                     => state'[RoomOf(x)] = "RUNNING"
               /\ IsTimer(x, "VOTING") /\ pc'[x] \in {"committed", "enqueue"}
                     => state'[RoomOf(x)] \in Over
               /\ pc'[x] = "transitionState" /\ work[x].to \notin {"RUNNING", "VOTING"}
                     => work[x].to = "CLOSED" /\ state'[RoomOf(x)] \in Over
    <3>1. CASE x = t
      BY <1>1, <1>2, <1>3, <3>1 DEF Starting, Waiting, IsTimer, Over
    <3>2. CASE x # t /\ RoomOf(x) = r
      BY <1>1, <2>3, <3>2 DEF LifeInv, TurnsInv
    <3>3. CASE x # t /\ RoomOf(x) # r
      <4>1. pc'[x] = pc[x]
        BY <1>1, <3>3
      <4>2. state'[RoomOf(x)] = state[RoomOf(x)]
        BY <3>3 DEF TransitionState, TypeInv, TypeOK
      <4> QED
        BY <4>1, <4>2 DEF LifeInv, TurnsInv
    <3> QED
      BY <3>1, <3>2, <3>3
  <2> QED
    BY <1>1, <1>5, <2>1, <2>2, <2>4 DEF TurnsInv
<1>8. JobInv'
  <2>1. \A q : (AddedTo(q))' = AddedTo(q)
    BY <1>1 DEF AddedTo
  <2>2. \A q \in Rooms : AddedTo(q) # 0 => state'[q] \in Over
    BY <1>2, <1>3 DEF LifeInv, JobInv, Over
  <2>3. IsTimer(t, "VOTING") => AddedTo(r) = 0
    BY <1>2 DEF LifeInv, JobInv, IsTimer, Over
  <2>4. "finalization" \notin pending[t]
    BY <1>1 DEF LifeInv, JobInv
  <2> QED
    BY <1>1, <1>5, <2>1, <2>2, <2>3, <2>4 DEF LifeInv, JobInv
<1> QED
  BY <1>4, <1>7, <1>8 DEF LifeInv

\* The vote of a room is opened by its one debate timer, hence once.
LEMMA OpenLife ==
    ASSUME QuietRequests, TypeInv, DebateInv, LifeInv, NEW t \in Tasks, OpenVoting(t)
    PROVE  LifeInv'
<1>1. /\ UNCHANGED <<state, participants, jobs, work>>
      /\ pc[t] = "committed" /\ work[t].to = "VOTING" /\ work[t] \in TransitionWork
      /\ pending' = [pending EXCEPT ![t] = JobKinds]
  BY DEF OpenVoting, dbVars, TypeInv, LabelsOK
<1>2. /\ pc'[t] = "enqueue"
      /\ \A x \in Tasks : x # t => \/ pc'[x] = pc[x]
                                   \/ pc'[x] = "cleared" /\ pc[x] = "armed"
  BY DEF OpenVoting, ClearAndGoto
<1>3. IsTimer(t, "VOTING")
  BY <1>1, TimersMove DEF DebateInv
<1>4. SeatsUnique'
  BY <1>1 DEF LifeInv, SeatsUnique
<1>5. TurnsInv'
  BY <1>1, <1>2, KeepTurns DEF LifeInv, Along, Settled
<1>6. JobInv'
  <2>1. \A x \in Tasks : x # t => pending'[x] = pending[x]
    BY <1>1 DEF TypeInv, TypeOK
  <2>2. AddedTo(RoomOf(t)) = 0
    BY <1>1, <1>3 DEF LifeInv, JobInv
  <2> QED
    BY <1>1, <1>2, <1>3, <2>1, <2>2 DEF LifeInv, JobInv, AddedTo, IsTimer, RoomOf
<1> QED
  BY <1>4, <1>5, <1>6 DEF LifeInv

LEMMA AddLife ==
    ASSUME TypeInv, DebateInv, LifeInv, NEW t \in Tasks, NEW j \in JobKinds,
           EnqueueJob(t, j) \/ AddRejects(t, j)
    PROVE  LifeInv'
<1>1. /\ UNCHANGED <<state, participants, work>>
      /\ pc[t] = "enqueue" /\ j \in pending[t]
      /\ pending' = [pending EXCEPT ![t] = pending[t] \ {j}]
      /\ \A x \in Tasks : x # t => pc'[x] = pc[x] /\ pending'[x] = pending[x]
      /\ pc'[t] \in {"done", "failed", "enqueue"}
      /\ pending'[t] # {} => pc'[t] = "enqueue"
      /\ pending'[t] = pending[t] \ {j}
  BY DEF EnqueueJob, AddRejects, StillPending, Goto, TypeInv, TypeOK, dbVars
<1>2. SeatsUnique'
  BY <1>1 DEF LifeInv, SeatsUnique
<1>3. TurnsInv'
  BY <1>1, KeepTurns DEF LifeInv, Along, Settled
<1>4. JobInv'
  <2>1. CASE jobs' = jobs
    BY <1>1, <2>1, KeepJobs DEF LifeInv
  <2>2. CASE EnqueueJob(t, j)
    <3>1. RoomOf(t) \in Rooms
      BY <1>1, RoomKnown DEF TypeInv, LabelsOK, Work
    <3>2. \A q \in Rooms : jobs'[q]["finalization"] =
            IF q = RoomOf(t) /\ j = "finalization" THEN AddedTo(q) + 1 ELSE AddedTo(q)
      BY <2>2, <3>1 DEF EnqueueJob, AddedTo, TypeInv, TypeOK, JobKinds
    <3>3. CASE j # "finalization"
      <4>1. \A q \in Rooms : (AddedTo(q))' = AddedTo(q)
        BY <3>2, <3>3 DEF AddedTo
      <4>2. \A x \in Tasks : IsTimer(x, "VOTING") => RoomOf(x) \in Rooms
        BY DEF IsTimer, TypeInv, WorkOK, TransitionWork, RoomOf
      <4> QED
        BY <1>1, <4>1, <4>2 DEF LifeInv, JobInv, IsTimer, RoomOf
    <3>4. CASE j = "finalization"
      <4>1. IsTimer(t, "VOTING") /\ state[RoomOf(t)] \in Over
        BY <1>1, <3>4 DEF LifeInv, JobInv, TurnsInv
      <4>2. \A x \in Tasks : IsTimer(x, "VOTING") /\ x # t
               => RoomOf(x) # RoomOf(t) /\ RoomOf(x) \in Rooms
        BY <4>1 DEF DebateInv, OneDebateTimer, IsTimer, TypeInv, WorkOK, TransitionWork, RoomOf
      <4>3. \A q \in Rooms : q # RoomOf(t) => (AddedTo(q))' = AddedTo(q)
        BY <3>2 DEF AddedTo
      <4>4. "finalization" \notin pending'[t] /\ pc'[t] # "committed"
        BY <1>1, <3>4
      <4>5. \A q \in Rooms : (AddedTo(q))' # 0 => state'[q] \in Over
        BY <1>1, <4>1, <4>3 DEF LifeInv, JobInv
      <4> QED
        BY <1>1, <4>2, <4>3, <4>4, <4>5 DEF LifeInv, JobInv, IsTimer, RoomOf
    <3> QED
      BY <3>3, <3>4
  <2> QED
    BY <2>1, <2>2 DEF AddRejects
<1> QED
  BY <1>2, <1>3, <1>4 DEF LifeInv

LEMMA NextLife ==
    ASSUME QuietRequests, TypeInv, PrepInv, DebateInv, LifeInv, [Next]_vars
    PROVE  LifeInv'
<1> USE DEF dbVars, locals
<1>1. CASE UNCHANGED vars
  BY <1>1 DEF vars, LifeInv, SeatsUnique, TurnsInv, JobInv, AddedTo, IsTimer, RoomOf, Taken
<1>2. ASSUME NEW r \in Rooms, CreateRoom(r) PROVE LifeInv'
  <2>1. /\ state[r] = "ABSENT" /\ UNCHANGED <<participants, jobs, pc, work, pending>>
        /\ \A q : q # r => state'[q] = state[q]
        /\ state'[r] = "PREPARATION"
    BY <1>2 DEF CreateRoom, DefaultState, TypeInv, TypeOK
  <2>2. SeatsUnique' /\ TurnsInv'
    BY <2>1 DEF LifeInv, SeatsUnique, TurnsInv, IsTimer, RoomOf, Taken, Over
  <2>3. JobInv'
    BY <2>1 DEF LifeInv, JobInv, AddedTo, IsTimer, RoomOf, Over
  <2> QED
    BY <2>2, <2>3 DEF LifeInv
<1>3. ASSUME NEW t \in Tasks, Shape(t) PROVE LifeInv'
  <2>1. CASE Plain(t)
    <3>1. "finalization" \in pending[t] => pc[t] = "enqueue"
      BY DEF LifeInv, JobInv
    <3>2. SeatsUnique' /\ TurnsInv'
      BY <2>1, KeepTurns
      DEF Plain, Along, Settled, Goto, LifeInv, SeatsUnique, TypeInv, TypeOK
    <3>3. JobInv'
      BY <2>1, <3>1, KeepJobs DEF Plain, Goto, LifeInv, TypeInv, TypeOK
    <3> QED
      BY <3>2, <3>3 DEF LifeInv
  <2>2. CASE RandomQuestion(t) \/ SetQuestion(t) \/ TimerFires(t)
    <3>1. "finalization" \in pending[t] => pc[t] = "enqueue"
      BY DEF LifeInv, JobInv
    <3>2. /\ UNCHANGED <<state, participants, jobs, work, pending>>
          /\ \E label : /\ Goto(t, label) /\ Along(pc[t], label) /\ label # "committed"
                        /\ pc[t] # "enqueue"
      BY <2>2 DEF RandomQuestion, AfterDraw, SetQuestion, TimerFires, Along, Starting
    <3>3. SeatsUnique' /\ TurnsInv'
      BY <3>2, KeepTurns DEF Along, Goto, LifeInv, SeatsUnique, TypeInv, TypeOK
    <3>4. JobInv'
      BY <3>1, <3>2, KeepJobs DEF Goto, LifeInv, TypeInv, TypeOK
    <3> QED
      BY <3>3, <3>4 DEF LifeInv
  <2>3. CASE CloseRoom(t)
    <3>1. /\ UNCHANGED <<state, participants, jobs, work, pending>>
          /\ pc[t] = "committed"
          /\ \A x \in Tasks : \/ pc'[x] = pc[x]
                              \/ pc'[x] = "done" /\ x = t
                              \/ pc'[x] = "cleared" /\ pc[x] = "armed"
      BY <2>3 DEF CloseRoom, ClearAndGoto
    <3>2. SeatsUnique' /\ TurnsInv'
      BY <3>1, KeepTurns DEF Along, Settled, LifeInv, SeatsUnique
    <3>3. JobInv'
      <4>1. \A x \in Tasks : "finalization" \in pending[x] => pc[x] = "enqueue"
        BY DEF LifeInv, JobInv
      <4> QED
        BY <3>1, <4>1, KeepJobs DEF LifeInv
    <3> QED
      BY <3>2, <3>3 DEF LifeInv
  <2> QED
    BY <1>3, <2>1, <2>2, <2>3, InsertLife, ArmLife, BeginLife, MoveLife, OpenLife, AddLife
    DEF Shape
<1>4. CASE Crash
  <2>1. SeatsUnique' /\ TurnsInv'
    BY <1>4, KeepTurns DEF Crash, Along, Settled, LifeInv, SeatsUnique
  <2>2. JobInv'
    BY <1>4, KeepJobs DEF Crash, LifeInv
  <2> QED
    BY <2>1, <2>2 DEF LifeInv
<1> QED
  BY <1>1, <1>2, <1>3, <1>4, Shapes

LEMMA LifeInvariant == ASSUME QuietRequests PROVE Spec => []LifeInv
<1>1. Init => LifeInv
  BY InitLife
<1>2. TypeInv /\ PrepInv /\ DebateInv /\ LifeInv /\ [Next]_vars => LifeInv'
  BY NextLife
<1> QED
  BY <1>1, <1>2, TypeInvariant, PrepInvariant, DebateInvariant, PTL DEF Spec, Safety

-----------------------------------------------------------------------------
(* The refinement.                                                         *)

LEMMA TwoSeats ==
    ASSUME SeatsUnique, NEW r \in Rooms, \A s \in Sides : Taken(r, s)
    PROVE  \E p, q \in Seated(r) : p.user # q.user
<1>1. PICK p \in participants : p.room = r /\ p.side = "POUR"
  BY DEF Sides, Taken
<1>2. PICK q \in participants : q.room = r /\ q.side = "CONTRE"
  BY DEF Sides, Taken
<1> QED
  BY <1>1, <1>2 DEF SeatsUnique, Seated

\* Where an INSERT is allowed, at most the other side is taken.
LEMMA OneSeat ==
    ASSUME TypeInv, SeatsUnique, NEW row, row.side \in Sides, InsertAllowed(row)
    PROVE  /\ \A p \in Seated(row.room) : p.user # row.user
           /\ \A p, q \in Seated(row.room) : p = q
BY DEF InsertAllowed, SeatsUnique, Seated, TypeInv, TypeOK, Participants, Sides

LEMMA StepRefines ==
    ASSUME QuietRequests, TypeInv, PrepInv, DebateInv, LifeInv, [Next]_vars
    PROVE  [Lifecycle!Next]_(Lifecycle!lifecycle)
<1> USE DEF Lifecycle!Next, Lifecycle!lifecycle, dbVars
<1> DEFINE seats == [r \in Rooms |-> {p.user : p \in Seated(r)}]
           issued == [r \in Rooms |-> jobs[r]["finalization"]]
<1>1. participants' = participants => seats' = seats
  BY DEF Seated
<1>2. jobs' = jobs => issued' = issued
  OBVIOUS
<1>3. CASE UNCHANGED <<state, participants, jobs>>
  BY <1>1, <1>2, <1>3
<1>4. ASSUME NEW r \in Rooms, CreateRoom(r)
      PROVE  Lifecycle!Open(r)
  BY <1>1, <1>2, <1>4 DEF CreateRoom, DefaultState, Lifecycle!Open, Lifecycle!Move
<1>5. ASSUME NEW t \in Tasks, Inserts(t)
      PROVE  \E r \in Rooms, u \in Users : Lifecycle!Sit(r, u)
  <2>a. RoomOf(t) \in Rooms /\ state[RoomOf(t)] = "PREPARATION"
    BY <1>5, InsertEarly DEF LifeInv
  <2>b. work[t].user \in Users
    BY <1>5 DEF Inserts, AddParticipant, TypeInv, LabelsOK, JoinWork
  <2> PICK r \in Rooms : r = RoomOf(t)
    BY <2>a
  <2> PICK u \in Users : u = work[t].user
    BY <2>b
  <2> DEFINE row == [room |-> r, user |-> u, side |-> FreeSide(t)]
  <2>1. /\ UNCHANGED <<state, jobs>> /\ participants' = participants \cup {row}
        /\ InsertAllowed(row) /\ pc[t] = "addParticipant"
    BY <1>5 DEF Inserts, AddParticipant
  <2>2. state[r] = "PREPARATION"
    BY <2>a
  <2>4. /\ \A p \in Seated(r) : p.user # u
        /\ \A p, q \in Seated(r) : p = q
    <3>1. row.side \in Sides /\ row.user = u /\ row.room = r
      BY DEF FreeSide, Sides
    <3> HIDE DEF row
    <3> QED
      BY <2>1, <3>1, OneSeat DEF LifeInv
  <2>5. seats' = [seats EXCEPT ![r] = seats[r] \cup {u}]
    <3>1. \A q \in Rooms : {p.user : p \in Seated(q)}' =
             IF q = r THEN {p.user : p \in Seated(q)} \cup {u}
                      ELSE {p.user : p \in Seated(q)}
      BY <2>1 DEF Seated
    <3> QED
      BY <3>1
  <2>6. u \notin seats[r] /\ ~(\E v, w \in seats[r] : v # w)
    BY <2>2, <2>4
  <2>7. Lifecycle!Sit(r, u)
    BY <1>2, <2>1, <2>2, <2>5, <2>6 DEF Lifecycle!Sit, Lifecycle!Full
  <2> QED
    BY <2>7
<1>6. ASSUME NEW t \in Tasks, TransitionState(t)
      PROVE  \/ \E r \in Rooms : Lifecycle!Start(r) \/ Lifecycle!End(r) \/ Lifecycle!Close(r)
             \/ UNCHANGED <<state, participants, jobs>>
  <2> DEFINE r == RoomOf(t)
  <2>1. UNCHANGED <<participants, jobs>> /\ state' = [state EXCEPT ![r] = work[t].to]
    BY <1>6 DEF TransitionState
  <2>2. r \in Rooms
    BY <1>6, Replaces
  <2>3. CASE IsTimer(t, "RUNNING") /\ work[t].to = "RUNNING" /\ state[r] = "PREPARATION"
    <3>1. Starter(t)
      BY <2>3 DEF Starter
    <3>2. Taken(r, "CONTRE")
      BY <3>1 DEF PrepInv, OneStarter
    <3>3. Taken(r, "POUR")
      BY <3>2 DEF PrepInv, SeatOrder, Taken
    <3>4. \E p, q \in Seated(r) : p.user # q.user
      BY <2>2, <3>2, <3>3, TwoSeats DEF LifeInv, Sides
    <3>5. \E u, v \in seats[r] : u # v
      BY <2>2, <3>4
    <3>6. Lifecycle!Start(r)
      BY <1>1, <1>2, <2>1, <2>3, <3>5 DEF Lifecycle!Start, Lifecycle!Full, Lifecycle!Move
    <3> QED
      BY <2>2, <3>6
  <2>4. CASE work[t].to = "VOTING" /\ state[r] = "RUNNING"
    BY <1>1, <1>2, <2>1, <2>2, <2>4 DEF Lifecycle!End, Lifecycle!Move
  <2>5. CASE work[t].to = "CLOSED" /\ state[r] = "VOTING"
    BY <1>1, <1>2, <2>1, <2>2, <2>5 DEF Lifecycle!Close, Lifecycle!Move
  <2>6. CASE work[t].to = "CLOSED" /\ state[r] = "CLOSED"
    <3>1. state' = state
      BY <2>1, <2>2, <2>6 DEF TypeInv, TypeOK
    <3> QED
      BY <2>1, <3>1
  <2> QED
    BY <1>6, <2>3, <2>4, <2>5, <2>6, Replaces DEF Over
<1>7. ASSUME NEW t \in Tasks, NEW j \in JobKinds, EnqueueJob(t, j)
      PROVE  \/ \E r \in Rooms : Lifecycle!Issue(r)
             \/ UNCHANGED <<state, participants>> /\ issued' = issued
  <2>2. RoomOf(t) \in Rooms
    BY <1>7, RoomKnown DEF EnqueueJob, TypeInv, LabelsOK, Work
  <2> PICK r \in Rooms : r = RoomOf(t)
    BY <2>2
  <2>1. /\ UNCHANGED <<state, participants>> /\ pc[t] = "enqueue" /\ j \in pending[t]
        /\ jobs' = [jobs EXCEPT ![r][j] = @ + 1]
    BY <1>7 DEF EnqueueJob
  <2>3. \A q \in Rooms : jobs'[q]["finalization"] =
          IF q = r /\ j = "finalization" THEN jobs[q]["finalization"] + 1
                                         ELSE jobs[q]["finalization"]
    BY <2>1, <2>2 DEF TypeInv, TypeOK, JobKinds
  <2>4. CASE j # "finalization"
    BY <2>1, <2>3, <2>4
  <2>5. CASE j = "finalization"
    <3>1. state[r] \in {"VOTING", "CLOSED"} /\ jobs[r]["finalization"] = 0
      BY <2>1, <2>5 DEF LifeInv, JobInv, TurnsInv, AddedTo, Over
    <3>2. \A q \in Rooms : jobs'[q]["finalization"] =
              IF q = r THEN 1 ELSE jobs[q]["finalization"]
      BY <2>3, <2>5, <3>1
    <3>3. issued' = [issued EXCEPT ![r] = 1]
      BY <2>2, <3>2
    <3>4. Lifecycle!Issue(r)
      BY <1>1, <2>1, <2>2, <3>1, <3>3 DEF Lifecycle!Issue
    <3> QED
      BY <2>2, <3>4
  <2> QED
    BY <2>4, <2>5
<1>8. ASSUME NEW t \in Tasks, Shape(t)
      PROVE  \/ UNCHANGED <<state, participants, jobs>>
             \/ Inserts(t) \/ TransitionState(t) \/ \E j \in JobKinds : EnqueueJob(t, j)
  BY <1>8 DEF Shape, Plain, RandomQuestion, SetQuestion, SchedulePrepTimer, Begins,
              ScheduleDebateTimer, OpenVoting, CloseRoom, TimerFires, AddRejects
<1>9. UNCHANGED vars \/ Crash => UNCHANGED <<state, participants, jobs>>
  BY DEF vars, Crash
<1> QED
  BY <1>1, <1>3, <1>4, <1>5, <1>6, <1>7, <1>8, <1>9, Shapes

\* While only timers start and end debates, the rows of a room and its finalization
\* jobs go through the abstract life of a room: seats, one start, one end, one job.
THEOREM RoomImplementsLifecycle == ASSUME QuietRequests PROVE Spec => ImplementsLifecycle
<1>1. Init => Lifecycle!Init
  <2> SUFFICES ASSUME Init PROVE Lifecycle!Init
    OBVIOUS
  <2>1. \A r \in Rooms : {p.user : p \in Seated(r)} = {}
    BY DEF Init, Seated
  <2>2. \A r \in Rooms : jobs[r]["finalization"] = 0
    BY DEF Init, JobKinds
  <2> QED
    BY <2>1, <2>2 DEF Init, Lifecycle!Init
<1>2. TypeInv /\ PrepInv /\ DebateInv /\ LifeInv /\ [Next]_vars
        => [Lifecycle!Next]_(Lifecycle!lifecycle)
  BY StepRefines
<1> QED
  BY <1>1, <1>2, TypeInvariant, PrepInvariant, DebateInvariant, LifeInvariant, PTL
  DEF Spec, Safety, ImplementsLifecycle, Lifecycle!Spec

-----------------------------------------------------------------------------
(* The readers of DebateReplay: what they collect at several moments fits, *)
(* because all that a state implies is stored before the state and stays.  *)

Visited(r, s) == \E i \in DOMAIN history[r] : history[r][i].to = s
Full(r) == \A s \in Sides : Taken(r, s)

\* The steps that move the rows of a room.
LEMMA RowsMove ==
    ASSUME [Next]_vars
    PROVE  \/ UNCHANGED <<state, participants, history, messages>>
           \/ \E q \in Rooms : CreateRoom(q)
           \/ \E t \in Tasks : AddParticipant(t) \/ TransitionState(t) \/ SaveMessage(t)
<1> USE DEF dbVars
<1>1. ASSUME NEW t \in Tasks, Join(t)
      PROVE  AddParticipant(t) \/ UNCHANGED <<state, participants, history, messages>>
  BY <1>1 DEF Join, JoinFindsRoom, JoinReadsParticipants, RandomQuestion, SetQuestion,
              SchedulePrepTimer
<1>2. ASSUME NEW t \in Tasks, Transition(t)
      PROVE  TransitionState(t) \/ UNCHANGED <<state, participants, history, messages>>
  BY <1>2 DEF Transition, TransitionFindsRoom, ScheduleDebateTimer, OpenVoting, EnqueueJob,
              CloseRoom
<1>3. ASSUME NEW t \in Tasks, Send(t) \/ RoomNotFound(t) \/ TimerFires(t)
      PROVE  SaveMessage(t) \/ UNCHANGED <<state, participants, history, messages>>
  BY <1>3 DEF Send, SendFindsRoom, SendReadsParticipants, RoomNotFound, TimerFires
<1>4. Fault \/ Quiescent \/ UNCHANGED vars
         => UNCHANGED <<state, participants, history, messages>>
  BY DEF Fault, AwaitRejects, AddRejects, Crash, Quiescent, vars
<1> QED
  BY <1>1, <1>2, <1>3, <1>4 DEF Next, Step

\* Seats and transitions are only ever added.
LEMMA StepGrows ==
    ASSUME TypeInv, [Next]_vars, NEW r \in Rooms
    PROVE  /\ participants \subseteq participants'
           /\ \A s : Visited(r, s) => Visited(r, s)'
           /\ \A s : state'[r] = s /\ s \notin {"ABSENT", "PREPARATION"} =>
                  state[r] = s \/ Visited(r, s)'
<1> USE DEF dbVars, locals
<1>1. CASE UNCHANGED <<state, participants, history>>
  BY <1>1 DEF Visited
<1>2. ASSUME NEW q \in Rooms, CreateRoom(q)
      PROVE  /\ UNCHANGED <<participants, history>>
             /\ state'[r] = state[r] \/ state'[r] = "PREPARATION"
  BY <1>2 DEF CreateRoom, DefaultState, TypeInv, TypeOK
<1>3. ASSUME NEW t \in Tasks, AddParticipant(t)
      PROVE  participants \subseteq participants' /\ UNCHANGED <<state, history>>
  BY <1>3 DEF AddParticipant
<1>4. ASSUME NEW t \in Tasks, TransitionState(t)
      PROVE  /\ participants' = participants
             /\ \A s : Visited(r, s) => Visited(r, s)'
             /\ \A s : state'[r] = s => state[r] = s \/ Visited(r, s)'
  <2>1. PICK entry : entry = [from |-> from[t], to |-> work[t].to]
    OBVIOUS
  <2>2. /\ history' = [history EXCEPT ![RoomOf(t)] = Append(history[RoomOf(t)], entry)]
        /\ state' = [state EXCEPT ![RoomOf(t)] = entry.to]
        /\ participants' = participants
    BY <1>4, <2>1 DEF TransitionState
  <2>3. entry \in [from : DebateStates, to : DebateStates]
    BY <1>4, <2>1 DEF TransitionState, TypeInv, TypeOK, LabelsOK, TransitionWork
  <2>4. CASE r # RoomOf(t)
    BY <2>2, <2>4 DEF Visited, TypeInv, TypeOK
  <2>5. CASE r = RoomOf(t)
    <3>1. /\ history[r] \in Seq([from : DebateStates, to : DebateStates])
          /\ history'[r] = Append(history[r], entry) /\ state'[r] = entry.to
      BY <2>2, <2>5 DEF TypeInv, TypeOK
    <3>2. /\ \A i \in DOMAIN history[r] :
                i \in DOMAIN history'[r] /\ history'[r][i] = history[r][i]
          /\ Len(history[r]) + 1 \in DOMAIN history'[r]
          /\ history'[r][Len(history[r]) + 1] = entry
      BY <2>3, <3>1
    <3>3. \A s : Visited(r, s) => Visited(r, s)'
      BY <3>2 DEF Visited
    <3>4. \A s : state'[r] = s => Visited(r, s)'
      BY <3>1, <3>2 DEF Visited
    <3> QED
      BY <2>2, <3>3, <3>4
  <2> QED
    BY <2>4, <2>5
<1>5. \/ UNCHANGED <<state, participants, history>>
      \/ \E q \in Rooms : CreateRoom(q)
      \/ \E t \in Tasks : AddParticipant(t) \/ TransitionState(t)
  BY RowsMove DEF SaveMessage
<1>6. ASSUME UNCHANGED history PROVE \A s : Visited(r, s) => Visited(r, s)'
  BY <1>6 DEF Visited
<1> QED
  BY <1>1, <1>2, <1>3, <1>4, <1>5, <1>6

LEMMA FullStays ==
    ASSUME TypeInv, [Next]_vars, NEW r \in Rooms, Full(r)
    PROVE  Full(r)' /\ Seated(r)' = Seated(r)
<1>1. ASSUME NEW t \in Tasks, AddParticipant(t) PROVE Seated(r)' = Seated(r)
  <2> DEFINE row == [room |-> RoomOf(t), user |-> work[t].user, side |-> FreeSide(t)]
  <2>1. CASE InsertAllowed(row)
    <3>1. row.room # r
      BY <2>1 DEF Full, Taken, InsertAllowed, FreeSide, Sides, Seated
    <3>2. participants' = participants \cup {row}
      BY <1>1, <2>1 DEF AddParticipant
    <3> HIDE DEF row
    <3> QED
      BY <3>1, <3>2 DEF Seated
  <2>2. CASE ~InsertAllowed(row)
    <3>1. participants' = participants
      BY <1>1, <2>2 DEF AddParticipant
    <3> QED
      BY <3>1 DEF Seated
  <2> QED
    BY <2>1, <2>2
<1>2. participants' = participants \/ \E t \in Tasks : AddParticipant(t)
  BY RowsMove DEF dbVars, CreateRoom, TransitionState, SaveMessage
<1>3. Seated(r)' = Seated(r)
  BY <1>1, <1>2 DEF Seated
<1>4. Full(r)'
  BY StepGrows DEF Full, Taken
<1> QED
  BY <1>3, <1>4

\* A state is only shown once the transition to it is in the history; whoever
\* is about to send has found the room RUNNING and, later, itself seated.
StatesVisited == \A r \in Rooms : state[r] \notin {"ABSENT", "PREPARATION"} => Visited(r, state[r])
SendersOK ==
    \A t \in Tasks :
        /\ pc[t] \in {"getParticipants", "saveMessage"} /\ work[t] \in SendWork
              => Visited(RoomOf(t), "RUNNING")
        /\ pc[t] = "saveMessage" => \E p \in Seated(RoomOf(t)) : p.user = work[t].user

LEMMA InitSenders == ASSUME Init PROVE StatesVisited /\ SendersOK /\ MessagesFromDebaters
BY DEF Init, StatesVisited, SendersOK, MessagesFromDebaters, Tasks

LEMMA NextStates == ASSUME TypeInv, StatesVisited, [Next]_vars PROVE StatesVisited'
<1>1. ASSUME NEW r \in Rooms, NEW s, state'[r] = s, s \notin {"ABSENT", "PREPARATION"}
      PROVE  Visited(r, s)'
  BY <1>1, StepGrows DEF StatesVisited
<1> QED
  BY <1>1 DEF StatesVisited, Visited

LEMMA NextSenders ==
    ASSUME TypeInv, StatesVisited, SendersOK, [Next]_vars
    PROVE  SendersOK'
<1> USE DEF dbVars, locals
<1>1. \A t \in Tasks : work[t] \in SendWork => RoomOf(t) \in Rooms
  BY DEF SendWork, RoomOf
<1>2. \A r \in Rooms : Seated(r) \subseteq Seated(r)'
  BY StepGrows DEF Seated
\* Nobody gets any further in sending than it was.
<1>3. ASSUME \A t \in Tasks : pc'[t] \in {"getParticipants", "saveMessage"} =>
                 work'[t] = work[t] /\ (pc'[t] = pc[t] \/ work[t] \in JoinWork)
      PROVE  SendersOK'
  <2>1. \A w \in JoinWork : w \notin SendWork
    BY DEF JoinWork, SendWork
  <2>2. \A t \in Tasks : pc'[t] = "saveMessage" => work'[t] \in SendWork
    BY NextType DEF TypeInv, LabelsOK
  <2> QED
    BY <1>1, <1>2, <1>3, <2>1, <2>2, StepGrows DEF SendersOK, RoomOf
<1>4. CASE UNCHANGED vars
  BY <1>3, <1>4 DEF vars
<1>5. ASSUME NEW r \in Rooms, CreateRoom(r) PROVE SendersOK'
  BY <1>3, <1>5 DEF CreateRoom
<1>6. ASSUME NEW t \in Tasks, SendFindsRoom(t) PROVE SendersOK'
  <2>1. /\ work' = work /\ history' = history /\ participants' = participants
        /\ \A x \in Tasks : x # t => pc'[x] = pc[x]
        /\ \/ pc'[t] = "getParticipants" /\ state[RoomOf(t)] = "RUNNING"
           \/ pc'[t] = "failed"
    BY <1>6 DEF SendFindsRoom, MaySpeak, Goto, TypeInv, TypeOK
  <2>2. work[t] \in SendWork /\ pc'[t] = "getParticipants" => Visited(RoomOf(t), "RUNNING")
    BY <1>1, <2>1 DEF StatesVisited
  <2> QED
    BY <2>1, <2>2 DEF SendersOK, RoomOf, Visited, Seated
<1>7. ASSUME NEW t \in Tasks, SendReadsParticipants(t) PROVE SendersOK'
  <2>1. /\ work' = work /\ history' = history /\ participants' = participants
        /\ pc[t] = "getParticipants"
        /\ \A x \in Tasks : x # t => pc'[x] = pc[x]
        /\ \/ pc'[t] = "failed"
           \/ pc'[t] = "saveMessage" /\ \E p \in Seated(RoomOf(t)) : p.user = work[t].user
    BY <1>7 DEF SendReadsParticipants, Goto, TypeInv, TypeOK
  <2> QED
    BY <2>1 DEF SendersOK, RoomOf, Visited, Seated
<1>8. ASSUME NEW t \in Tasks, JoinFindsRoom(t) PROVE SendersOK'
  <2>1. work[t] \in JoinWork
    BY <1>8 DEF JoinFindsRoom, Doing, TypeInv, TypeOK, Work, JoinWork, SendWork, TransitionWork
  <2>2. work' = work /\ \A x \in Tasks : x # t => pc'[x] = pc[x]
    BY <1>8 DEF JoinFindsRoom, Goto, TypeInv, TypeOK
  <2> QED
    BY <1>3, <2>1, <2>2
<1>9. ASSUME NEW t \in Tasks, SchedulePrepTimer(t) \/ ScheduleDebateTimer(t) PROVE SendersOK'
  <2>1. PICK h \in Timers, to \in {"RUNNING", "VOTING"} : Arm(t, h, to)
    BY <1>9 DEF SchedulePrepTimer, ScheduleDebateTimer
  <2>2. \A x \in Tasks : pc'[x] \in {"getParticipants", "saveMessage"}
           => pc'[x] = pc[x] /\ work'[x] = work[x]
    BY <2>1 DEF Arm, TypeInv, TypeOK
  <2> QED
    BY <1>3, <2>2
<1>10. ASSUME NEW t \in Tasks,
              \/ RoomNotFound(t) \/ JoinReadsParticipants(t) \/ AddParticipant(t)
              \/ RandomQuestion(t) \/ SetQuestion(t) \/ TransitionFindsRoom(t)
              \/ TransitionState(t) \/ SaveMessage(t) \/ TimerFires(t)
              \/ \E j \in JobKinds : EnqueueJob(t, j)
       PROVE  SendersOK'
  <2>1. /\ work' = work
        /\ \E label : Goto(t, label) /\ label \notin {"getParticipants", "saveMessage"}
    BY <1>10
    DEF RoomNotFound, JoinReadsParticipants, JoinDecision, AddParticipant, RandomQuestion,
        AfterDraw, SetQuestion, TransitionFindsRoom, TransitionState, SaveMessage, TimerFires,
        EnqueueJob
  <2> QED
    BY <1>3, <2>1 DEF Goto, TypeInv, TypeOK
<1>11. ASSUME NEW t \in Tasks, OpenVoting(t) \/ CloseRoom(t) PROVE SendersOK'
  BY <1>3, <1>11 DEF OpenVoting, CloseRoom, ClearAndGoto
<1>12. CASE Fault
  BY <1>3, <1>12 DEF Fault, AwaitRejects, AddRejects, Crash, Goto, TypeInv, TypeOK
<1> QED
  BY <1>4, <1>5, <1>6, <1>7, <1>8, <1>9, <1>10, <1>11, <1>12
  DEF Next, Step, Join, Transition, Send, Quiescent

LEMMA NextMessages ==
    ASSUME TypeInv, SendersOK, MessagesFromDebaters, [Next]_vars
    PROVE  MessagesFromDebaters'
<1>1. ASSUME NEW m \in messages
      PROVE  /\ \E p \in Seated(m.room)' : p.user = m.user
             /\ Visited(m.room, "RUNNING")'
  <2>1. m.room \in Rooms
    BY DEF TypeInv, TypeOK, Messages
  <2>2. (\E p \in Seated(m.room) : p.user = m.user) /\ Visited(m.room, "RUNNING")
    BY DEF MessagesFromDebaters, Visited
  <2> QED
    BY <2>1, <2>2, StepGrows DEF Seated
<1>2. ASSUME NEW t \in Tasks, SaveMessage(t)
      PROVE  \A m \in messages' : m \in messages \/
                 /\ \E p \in Seated(m.room)' : p.user = m.user
                 /\ Visited(m.room, "RUNNING")'
  <2>1. pc[t] = "saveMessage" /\ work[t] \in SendWork
    BY <1>2 DEF SaveMessage, TypeInv, LabelsOK
  <2>2. (\E p \in Seated(RoomOf(t)) : p.user = work[t].user) /\ Visited(RoomOf(t), "RUNNING")
    BY <2>1 DEF SendersOK
  <2>3. participants' = participants /\ history' = history
    BY <1>2 DEF SaveMessage
  <2>4. messages' = messages \cup {[call |-> t, room |-> RoomOf(t), user |-> work[t].user]}
    BY <1>2 DEF SaveMessage
  <2> QED
    BY <2>2, <2>3, <2>4 DEF Seated, Visited
<1>3. messages' = messages \/ \E t \in Tasks : SaveMessage(t)
  BY RowsMove DEF dbVars, CreateRoom, AddParticipant, TransitionState
<1>4. \A m \in messages' : /\ \E p \in Seated(m.room)' : p.user = m.user
                           /\ Visited(m.room, "RUNNING")'
  BY <1>1, <1>2, <1>3
<1> QED
  BY <1>4 DEF MessagesFromDebaters, Visited

LEMMA ReplayIsRoom ==
    /\ ReplayInit => Init
    /\ [ReplayNext]_allVars => [Next]_vars
BY DEF ReplayInit, ReplayNext, allVars, RoomMoves, CrashWithReaders, Read, ReadsRoom,
       ReadsParticipants, ReadsMessages, ReadsTransitions, Next, Fault

\* Whatever is requested and whatever fails: nobody but a seated debater of a
\* room that has been RUNNING has a message in it, although the state and the
\* seat are checked two awaits and one await before the message is stored.
THEOREM MessagesStayTheDebaters == ReplaySafety => []MessagesFromDebaters
<1>1. ReplayInit => TypeInv /\ StatesVisited /\ SendersOK /\ MessagesFromDebaters
  BY ReplayIsRoom, InitType, InitSenders
<1>2. /\ TypeInv /\ StatesVisited /\ SendersOK /\ MessagesFromDebaters
      /\ [ReplayNext]_allVars
      => (TypeInv /\ StatesVisited /\ SendersOK /\ MessagesFromDebaters)'
  BY ReplayIsRoom, NextType, NextStates, NextSenders, NextMessages
<1> QED
  BY <1>1, <1>2, PTL DEF ReplaySafety

-----------------------------------------------------------------------------
(* What a reader has collected.                                            *)

Answer == [state : DebateStates \cup {"ABSENT"}, participants : SUBSET Participants,
           messages : SUBSET Messages, transitions : Seq([from : DebateStates, to : DebateStates])]

ReadersType ==
    /\ asked \in [Readers -> ReadWork]
    /\ read \in [Readers -> SUBSET {"room", "participants", "messages", "transitions", "failed"}]
    /\ answer \in [Readers -> Answer]

LeadsTo(a) == \E i \in DOMAIN a.transitions : a.transitions[i].to = a.state

\* The row is read first: if it shows a started debate, the seats are final
\* and the transition to what it shows is stored, whenever the lists are read.
ReaderOK(x) ==
    "failed" \notin read[x] =>
        /\ read[x] # {} => "room" \in read[x]
        /\ "room" \in read[x] /\ Started(x)
              => Full(asked[x].room) /\ Visited(asked[x].room, answer[x].state)
        /\ "participants" \in read[x] /\ Started(x)
              => answer[x].participants = Seated(asked[x].room)
        /\ \A m \in answer[x].messages : \E p \in Seated(asked[x].room) : p.user = m.user
        /\ "transitions" \in read[x] /\ Started(x) => LeadsTo(answer[x])

ReadersInv == ReadersType /\ \A x \in Readers : ReaderOK(x)

LEMMA InitReaders == ASSUME ReplayInit PROVE ReadersInv
BY DEF ReplayInit, ReadersInv, ReadersType, ReaderOK, Answer, Nothing

\* A reader that is not answered, or dies, while the room moves on.
LEMMA ReaderWaits ==
    ASSUME TypeInv, [Next]_vars, ReadersType, NEW x \in Readers, ReaderOK(x),
           asked'[x] = asked[x], answer'[x] = answer[x],
           read'[x] = read[x] \/ read'[x] = {"failed"}
    PROVE  ReaderOK(x)'
<1>1. PICK r \in Rooms : r = asked[x].room
  BY DEF ReadersType, ReadWork
<1>2. PICK s : s = answer[x].state
  OBVIOUS
<1>3. CASE read'[x] = {"failed"}
  BY <1>3 DEF ReaderOK
<1>4. CASE read'[x] = read[x]
  <2>1. Full(r) => Full(r)' /\ Seated(r)' = Seated(r)
    BY FullStays
  <2>2. Visited(r, s) => Visited(r, s)'
    BY StepGrows
  <2>3. Seated(r) \subseteq Seated(r)'
    BY StepGrows DEF Seated
  <2>4. "participants" \in read[x] /\ "failed" \notin read[x] => "room" \in read[x]
    BY DEF ReaderOK
  <2> QED
    BY <1>1, <1>2, <1>4, <2>1, <2>2, <2>3, <2>4
    DEF ReaderOK, Started, LeadsTo, Full, Taken, Visited, Seated
<1> QED
  BY <1>3, <1>4

\* What stands in the tables at the moment of a query.
LEMMA ReaderReads ==
    ASSUME TypeInv, TurnsInv, StatesVisited, MessagesFromDebaters, ReadersType,
           NEW x \in Readers, ReaderOK(x), Read(x)
    PROVE  ReaderOK(x)' /\ ReadersType'
<1>1. PICK r \in Rooms : r = asked[x].room
  BY DEF ReadersType, ReadWork
<1>2. /\ asked' = asked /\ UNCHANGED vars /\ "failed" \notin read[x]
  BY DEF Read, ReadsRoom, ReadsParticipants, ReadsMessages, ReadsTransitions, Outstanding
<1>3. /\ Seated(r)' = Seated(r) /\ Full(r)' = Full(r)
      /\ \A s : Visited(r, s)' = Visited(r, s)
  BY <1>2 DEF vars, dbVars, Seated, Full, Taken, Visited
<1>4. /\ answer[x] \in Answer /\ asked'[x] = asked[x]
      /\ read[x] \subseteq {"room", "participants", "messages", "transitions", "failed"}
  BY <1>2 DEF ReadersType
<1>5. ASSUME NEW up \in Answer, NEW query \in {"room", "participants", "messages", "transitions"},
             answer' = [answer EXCEPT ![x] = up], Answers(x, query)
      PROVE  /\ ReadersType' /\ answer'[x] = up /\ read'[x] = read[x] \cup {query}
  BY <1>2, <1>5 DEF ReadersType, Answers
<1>6. CASE ReadsRoom(x)
  <2>1. read[x] = {}
    BY <1>2, <1>6 DEF ReadsRoom, Outstanding, Issued, ReaderOK
  <2>2. CASE state[r] = "ABSENT"
    <3>1. read' = [read EXCEPT ![x] = {"failed"}] /\ answer' = answer
      BY <1>1, <1>6, <2>2 DEF ReadsRoom
    <3> QED
      BY <1>2, <3>1 DEF ReadersType, ReaderOK
  <2>3. CASE state[r] # "ABSENT"
    <3> DEFINE up == [answer[x] EXCEPT !.state = state[r]]
    <3>1. answer' = [answer EXCEPT ![x] = up] /\ Answers(x, "room")
      BY <1>1, <1>6, <2>3 DEF ReadsRoom, ReadersType
    <3>2. /\ up \in Answer /\ up.state = state[r] /\ up.messages = answer[x].messages
      BY <1>4 DEF Answer, TypeInv, TypeOK
    <3> HIDE DEF up
    <3>3. ReadersType' /\ answer'[x] = up /\ read'[x] = {"room"}
      BY <1>5, <2>1, <3>1, <3>2
    <3>4. up.state # "PREPARATION" => Full(r) /\ Visited(r, up.state)
      BY <2>3, <3>2 DEF TurnsInv, StatesVisited, Full, TypeInv, TypeOK, DebateStates
    <3> QED
      BY <1>1, <1>2, <1>3, <1>4, <3>2, <3>3, <3>4 DEF ReaderOK, Started
  <2> QED
    BY <2>2, <2>3
<1>7. CASE ReadsParticipants(x)
  <2> DEFINE up == [answer[x] EXCEPT !.participants = Seated(r)]
  <2>1. answer' = [answer EXCEPT ![x] = up] /\ Answers(x, "participants")
    BY <1>1, <1>7 DEF ReadsParticipants, ReadersType
  <2>2. /\ up \in Answer /\ up.participants = Seated(r) /\ up.state = answer[x].state
        /\ up.messages = answer[x].messages /\ up.transitions = answer[x].transitions
    BY <1>4 DEF Answer, TypeInv, TypeOK, Seated
  <2> HIDE DEF up
  <2>3. /\ ReadersType' /\ answer'[x] = up /\ read'[x] = read[x] \cup {"participants"}
        /\ "room" \in read[x]
    BY <1>5, <1>7, <2>1, <2>2 DEF ReadsParticipants, Outstanding, Issued
  <2> QED
    BY <1>1, <1>2, <1>3, <1>4, <2>2, <2>3 DEF ReaderOK, Started, LeadsTo
<1>8. CASE ReadsMessages(x)
  <2> DEFINE up == [answer[x] EXCEPT !.messages = {m \in messages : m.room = r}]
  <2>1. answer' = [answer EXCEPT ![x] = up] /\ Answers(x, "messages")
    BY <1>1, <1>8 DEF ReadsMessages, ReadersType
  <2>2. /\ up \in Answer /\ up.participants = answer[x].participants
        /\ up.state = answer[x].state /\ up.transitions = answer[x].transitions
        /\ up.messages = {m \in messages : m.room = r}
    BY <1>4 DEF Answer, TypeInv, TypeOK
  <2> HIDE DEF up
  <2>3. /\ ReadersType' /\ answer'[x] = up /\ read'[x] = read[x] \cup {"messages"}
        /\ "room" \in read[x]
    BY <1>5, <1>8, <2>1, <2>2 DEF ReadsMessages, Outstanding, Issued
  <2>4. \A m \in up.messages : \E p \in Seated(r) : p.user = m.user
    BY <2>2 DEF MessagesFromDebaters
  <2> QED
    BY <1>1, <1>2, <1>3, <1>4, <2>2, <2>3, <2>4 DEF ReaderOK, Started, LeadsTo
<1>9. CASE ReadsTransitions(x)
  <2> DEFINE up == [answer[x] EXCEPT !.transitions = history[r]]
  <2>1. answer' = [answer EXCEPT ![x] = up] /\ Answers(x, "transitions")
    BY <1>1, <1>9 DEF ReadsTransitions, ReadersType
  <2>2. /\ up \in Answer /\ up.participants = answer[x].participants
        /\ up.state = answer[x].state /\ up.messages = answer[x].messages
        /\ up.transitions = history[r]
    BY <1>4 DEF Answer, TypeInv, TypeOK
  <2> HIDE DEF up
  <2>3. /\ ReadersType' /\ answer'[x] = up /\ read'[x] = read[x] \cup {"transitions"}
        /\ "room" \in read[x]
    BY <1>5, <1>9, <2>1, <2>2 DEF ReadsTransitions, Outstanding, Issued
  <2>4. up.state # "PREPARATION" => LeadsTo(up)
    BY <1>1, <1>2, <2>2, <2>3 DEF ReaderOK, Started, Visited, LeadsTo
  <2> QED
    BY <1>1, <1>2, <1>3, <1>4, <2>2, <2>3, <2>4 DEF ReaderOK, Started
<1> QED
  BY <1>6, <1>7, <1>8, <1>9 DEF Read

LEMMA NextReaders ==
    ASSUME TypeInv, TurnsInv, StatesVisited, MessagesFromDebaters, ReadersInv,
           [ReplayNext]_allVars
    PROVE  ReadersInv'
<1>1. [Next]_vars
  BY ReplayIsRoom
<1>2. CASE UNCHANGED readers
  BY <1>1, <1>2, ReaderWaits DEF readers, ReadersInv, ReadersType
<1>3. CASE CrashWithReaders
  <2>1. /\ asked' = asked /\ answer' = answer
        /\ \A x \in Readers : read'[x] = read[x] \/ read'[x] = {"failed"}
    BY <1>3 DEF CrashWithReaders
  <2>2. ReadersType'
    BY <1>3, <2>1 DEF CrashWithReaders, ReadersInv, ReadersType
  <2> QED
    BY <1>1, <2>1, <2>2, ReaderWaits DEF ReadersInv
<1>4. ASSUME NEW x \in Readers, Read(x) PROVE ReadersInv'
  <2>1. ReaderOK(x)' /\ ReadersType'
    BY <1>4, ReaderReads DEF ReadersInv
  <2>2. ASSUME NEW y \in Readers, y # x PROVE ReaderOK(y)'
    <3>1. asked'[y] = asked[y] /\ answer'[y] = answer[y] /\ read'[y] = read[y]
      BY <1>4, <2>2 DEF Read, ReadsRoom, ReadsParticipants, ReadsMessages, ReadsTransitions,
                        Answers, ReadersInv, ReadersType
    <3> QED
      BY <1>1, <3>1, ReaderWaits DEF ReadersInv
  <2> QED
    BY <2>1, <2>2 DEF ReadersInv
<1> QED
  BY <1>2, <1>3, <1>4 DEF ReplayNext, allVars

LEMMA ReadersConsistent == ASSUME TypeInv, ReadersInv PROVE AnswersAreConsistent
<1> SUFFICES ASSUME NEW x \in Readers, Answered(x), Started(x)
             PROVE  /\ {p.side : p \in answer[x].participants} = Sides
                    /\ \A m \in answer[x].messages : SideShown(x, m) \in Sides
                    /\ asked[x].op = "replay" => LeadsTo(answer[x])
  BY DEF AnswersAreConsistent, LeadsTo
<1>1. PICK r \in Rooms : r = asked[x].room
  BY DEF ReadersInv, ReadersType, ReadWork
<1>2. /\ "failed" \notin read[x] /\ {"room", "participants"} \subseteq read[x]
      /\ asked[x].op = "replay" => "transitions" \in read[x]
  BY DEF Answered, Lists
<1>3. /\ Full(r) /\ answer[x].participants = Seated(r)
      /\ \A m \in answer[x].messages : \E p \in Seated(r) : p.user = m.user
      /\ asked[x].op = "replay" => LeadsTo(answer[x])
  BY <1>1, <1>2 DEF ReadersInv, ReaderOK
<1>4. \A p \in Seated(r) : p.side \in Sides
  BY DEF TypeInv, TypeOK, Participants, Seated
<1>5. {p.side : p \in Seated(r)} = Sides
  <2>1. \A s \in Sides : \E p \in Seated(r) : p.side = s
    BY <1>3 DEF Full, Taken, Seated
  <2> QED
    BY <1>4, <2>1
<1>6. ASSUME NEW m \in answer[x].messages PROVE SideShown(x, m) \in Sides
  <2>1. \E p \in answer[x].participants : p.user = m.user
    BY <1>3
  <2>2. (CHOOSE p \in answer[x].participants : p.user = m.user) \in Seated(r)
    BY <1>3, <2>1
  <2>3. SideShown(x, m) = (CHOOSE p \in answer[x].participants : p.user = m.user).side
    BY <2>1, Zenon DEF SideShown
  <2> QED
    BY <1>4, <2>2, <2>3
<1> QED
  BY <1>3, <1>5, <1>6

\* However its queries fall among the steps of the room: a reader that is shown
\* a debate as started is shown both debaters, every message with a side, and a
\* history that leads to the state shown.
THEOREM ReadersAgree == ASSUME QuietRequests PROVE ReplaySafety => []AnswersAreConsistent
<1> DEFINE RoomInv == /\ TypeInv /\ PrepInv /\ DebateInv /\ LifeInv
                      /\ StatesVisited /\ SendersOK /\ MessagesFromDebaters
<1>1. ReplayInit => RoomInv /\ ReadersInv
  BY ReplayIsRoom, InitType, InitPrep, InitDebate, InitLife, InitSenders, InitReaders
<1>2. RoomInv /\ ReadersInv /\ [ReplayNext]_allVars => RoomInv' /\ ReadersInv'
  <2> SUFFICES ASSUME RoomInv, ReadersInv, [ReplayNext]_allVars
               PROVE  RoomInv' /\ ReadersInv'
    OBVIOUS
  <2>1. [Next]_vars
    BY ReplayIsRoom
  <2>2. TypeInv' /\ PrepInv' /\ DebateInv' /\ LifeInv'
    BY <2>1, NextType, NextPrep, NextDebate, NextLife
  <2>3. StatesVisited' /\ SendersOK' /\ MessagesFromDebaters'
    BY <2>1, NextStates, NextSenders, NextMessages
  <2>4. ReadersInv'
    BY NextReaders DEF LifeInv
  <2> QED
    BY <2>2, <2>3, <2>4
<1>3. RoomInv /\ ReadersInv => AnswersAreConsistent
  BY ReadersConsistent
<1> QED
  BY <1>1, <1>2, <1>3, PTL DEF ReplaySafety

====
