---- MODULE DebateRoomProofs ----
(***************************************************************************)
(* Proofs about DebateRoom, for every set of rooms, users, questions,      *)
(* requests and timers and any number of faults: its types, why racing     *)
(* joins start one preparation countdown and draw one question, and what   *)
(* the two maps of timers and the opened votes never lose.                 *)
(***************************************************************************)
EXTENDS DebateRoom, FiniteSetTheorems, TLAPS

-----------------------------------------------------------------------------
(* What a task is doing follows from where it is.                          *)

\* Requests keep what they ask for; a handle has work exactly once armed, and
\* only ever to start a debate or to end one.
WorkOK ==
    /\ \A c \in Calls : /\ work[c] \in Work
                        /\ pc[c] \notin {"unset", "armed", "cleared"}
    /\ \A h \in Timers : IF pc[h] = "unset" THEN work[h] = None
                         ELSE /\ work[h] \in TransitionWork
                              /\ work[h].to \in {"RUNNING", "VOTING"}
                              /\ pc[h] # "unsent"

\* The program counters that belong to one handler.
LabelsOK ==
    \A t \in Tasks :
        /\ pc[t] \in {"addParticipant", "randomQuestion", "setQuestion",
                      "schedulePrep"} => work[t] \in JoinWork
        /\ pc[t] \in {"transitionState", "committed", "enqueue"}
              => work[t] \in TransitionWork
        /\ pc[t] = "saveMessage" => work[t] \in SendWork /\ t \in Calls
        /\ pc[t] = "getParticipants" => work[t] \in JoinWork \cup SendWork

TypeInv == TypeOK /\ WorkOK /\ LabelsOK

LEMMA InitType == ASSUME Init PROVE TypeInv
<1>1. TypeOK
  BY ConstantsAssumption
  DEF Init, TypeOK, Tasks, Labels, Dormant, Settled, Awaits, DebateStates, JobKinds
<1>2. WorkOK
  BY ConstantsAssumption DEF Init, WorkOK, Tasks
<1>3. LabelsOK
  BY ConstantsAssumption DEF Init, LabelsOK, Tasks
<1> QED
  BY <1>1, <1>2, <1>3 DEF TypeInv

\* Most steps move one task, which already has its work, to another label.
LEMMA GotoWork ==
    ASSUME TypeOK, WorkOK, NEW t \in Tasks, NEW label, Goto(t, label),
           work' = work, pc[t] # "unset",
           label \notin {"unset", "unsent", "armed", "cleared"}
    PROVE  WorkOK'
BY DEF Goto, TypeOK, WorkOK, Tasks

LEMMA GotoType ==
    ASSUME TypeOK, NEW t \in Tasks, NEW label \in Labels, Goto(t, label)
    PROVE  pc' \in [Tasks -> Labels]
BY DEF Goto, TypeOK

LEMMA RoomKnown ==
    ASSUME NEW t \in Tasks, work[t] \in Work
    PROVE  RoomOf(t) \in Rooms
BY DEF RoomOf, Work, JoinWork, SendWork, TransitionWork

\* Arming: the armed handle is not the task that arms it, which is not unset.
LEMMA ArmType ==
    ASSUME TypeOK, WorkOK, NEW t \in Tasks, NEW h \in Timers,
           NEW to \in {"RUNNING", "VOTING"}, RoomOf(t) \in Rooms,
           pc[t] \in Awaits, Arm(t, h, to)
    PROVE  /\ h # t
           /\ pc' \in [Tasks -> Labels]
           /\ work' \in [Tasks -> Work \cup {None}]
           /\ work'[h] = [op |-> "transition", room |-> RoomOf(t), to |-> to]
           /\ WorkOK'
<1> DEFINE w == [op |-> "transition", room |-> RoomOf(t), to |-> to]
<1>1. w \in TransitionWork /\ w.to = to
  BY DEF TransitionWork, DebateStates
<1>2. h # t /\ h \in Tasks
  BY DEF Arm, Awaits, Tasks
<1>3. pc' \in [Tasks -> Labels]
  BY DEF Arm, TypeOK, Labels, Dormant, Settled
<1>4. work' = [work EXCEPT ![h] = w]
  BY DEF Arm
<1> HIDE DEF w
<1>5. work' \in [Tasks -> Work \cup {None}]
  BY <1>1, <1>4 DEF TypeOK, Work
<1>6. work'[h] = w
  BY <1>2, <1>4 DEF TypeOK
<1>7. WorkOK'
  BY <1>1, <1>2, <1>4, <1>6, ConstantsAssumption DEF Arm, TypeOK, WorkOK, Tasks, Awaits
<1> QED
  BY <1>2, <1>3, <1>5, <1>6, <1>7 DEF w

LEMMA NextType == ASSUME TypeInv, [Next]_vars PROVE TypeInv'
<1> USE ConstantsAssumption
<1> SUFFICES ASSUME Next PROVE TypeInv'
  BY DEF vars, dbVars, timerMaps, locals, TypeInv, TypeOK, WorkOK, LabelsOK
<1>a. TypeOK /\ WorkOK /\ LabelsOK
  BY DEF TypeInv
<1>1. ASSUME NEW r \in Rooms, CreateRoom(r) PROVE TypeInv'
  <2>1. TypeOK'
    BY <1>1, <1>a DEF CreateRoom, TypeOK, timerMaps, locals, DefaultState, DebateStates
  <2>2. WorkOK' /\ LabelsOK'
    BY <1>1, <1>a DEF CreateRoom, WorkOK, LabelsOK
  <2> QED
    BY <2>1, <2>2 DEF TypeInv
<1>2. ASSUME NEW t \in Tasks, RoomNotFound(t) PROVE TypeInv'
  <2>1. TypeOK'
    BY <1>2, <1>a
    DEF RoomNotFound, Goto, TypeOK, dbVars, timerMaps, locals, Tasks, Labels, Dormant, Settled, Awaits
  <2>2. WorkOK'
    BY <1>2, <1>a, GotoWork DEF RoomNotFound, AtFindRoom
  <2>3. LabelsOK'
    BY <1>2, <1>a DEF RoomNotFound, Goto, TypeOK, LabelsOK
  <2> QED
    BY <2>1, <2>2, <2>3 DEF TypeInv
<1>3. ASSUME NEW t \in Tasks, JoinFindsRoom(t) PROVE TypeInv'
  <2>1. TypeOK'
    BY <1>3, <1>a
    DEF JoinFindsRoom, Goto, TypeOK, dbVars, timerMaps, locals, Tasks, Labels, Dormant, Settled, Awaits
  <2>2. WorkOK'
    BY <1>3, <1>a, GotoWork DEF JoinFindsRoom, AtFindRoom
  <2>3. LabelsOK'
    BY <1>3, <1>a DEF JoinFindsRoom, Goto, TypeOK, LabelsOK, Doing, AtFindRoom, WorkOK, Work, JoinWork, SendWork, TransitionWork, Tasks
  <2> QED
    BY <2>1, <2>2, <2>3 DEF TypeInv
<1>4. ASSUME NEW t \in Tasks, JoinReadsParticipants(t) PROVE TypeInv'
  <2>1. TypeOK'
    BY <1>4, <1>a
    DEF JoinReadsParticipants, Goto, TypeOK, dbVars, timerMaps, locals, Tasks, Labels, Dormant, Settled, Awaits, JoinDecision, Seated
  <2>2. WorkOK'
    BY <1>4, <1>a, GotoWork DEF JoinReadsParticipants, Doing, JoinDecision, SendWork, JoinWork
  <2>3. LabelsOK'
    BY <1>4, <1>a DEF JoinReadsParticipants, Goto, TypeOK, LabelsOK, Doing, JoinDecision, SendWork, JoinWork
  <2> QED
    BY <2>1, <2>2, <2>3 DEF TypeInv
<1>5. ASSUME NEW t \in Tasks, AddParticipant(t) PROVE TypeInv'
  <2>1. TypeOK'
    <3> DEFINE row == [room |-> RoomOf(t), user |-> work[t].user, side |-> FreeSide(t)]
    <3>1. row \in Participants
      BY <1>5, <1>a DEF AddParticipant, LabelsOK, JoinWork, RoomOf, FreeSide,
                        Participants, Sides
    <3>2. participants' \subseteq Participants
      BY <1>5, <1>a, <3>1 DEF AddParticipant, TypeOK
    <3>3. pc' \in [Tasks -> Labels]
      BY <1>5, <1>a, GotoType DEF AddParticipant, Labels, Dormant, Settled, Awaits
    <3> QED
      BY <1>5, <1>a, <3>2, <3>3 DEF AddParticipant, TypeOK, timerMaps, locals
  <2>2. WorkOK'
    BY <1>5, <1>a, GotoWork DEF AddParticipant
  <2>3. LabelsOK'
    BY <1>5, <1>a DEF AddParticipant, Goto, TypeOK, LabelsOK, FillsRoom
  <2> QED
    BY <2>1, <2>2, <2>3 DEF TypeInv
<1>6. ASSUME NEW t \in Tasks, RandomQuestion(t) PROVE TypeInv'
  <2>1. TypeOK'
    BY <1>6, <1>a
    DEF RandomQuestion, Goto, TypeOK, dbVars, timerMaps, locals, Tasks, Labels, Dormant, Settled, Awaits, AfterDraw
  <2>2. WorkOK'
    BY <1>6, <1>a, GotoWork DEF RandomQuestion, AfterDraw
  <2>3. LabelsOK'
    BY <1>6, <1>a DEF RandomQuestion, Goto, TypeOK, LabelsOK, AfterDraw
  <2> QED
    BY <2>1, <2>2, <2>3 DEF TypeInv
<1>7. ASSUME NEW t \in Tasks, SetQuestion(t) PROVE TypeInv'
  <2>1. TypeOK'
    <3>1. question' \in [Rooms -> Questions \cup {None}]
      BY <1>7, <1>a DEF SetQuestion, TypeOK
    <3>2. pc' \in [Tasks -> Labels]
      BY <1>7, <1>a, GotoType DEF SetQuestion, Labels, Awaits
    <3> QED
      BY <1>7, <1>a, <3>1, <3>2 DEF SetQuestion, TypeOK, timerMaps, locals
  <2>2. WorkOK'
    BY <1>7, <1>a, GotoWork DEF SetQuestion
  <2>3. LabelsOK'
    BY <1>7, <1>a DEF SetQuestion, Goto, TypeOK, LabelsOK
  <2> QED
    BY <2>1, <2>2, <2>3 DEF TypeInv
<1>8. ASSUME NEW t \in Tasks, SchedulePrepTimer(t) PROVE TypeInv'
  <2> PICK h \in Timers : /\ Arm(t, h, "RUNNING")
                         /\ prepTimers' = [prepTimers EXCEPT ![RoomOf(t)] = h]
    BY <1>8 DEF SchedulePrepTimer
  <2>r. RoomOf(t) \in Rooms /\ pc[t] \in Awaits
    BY <1>8, <1>a, RoomKnown DEF SchedulePrepTimer, LabelsOK, Work, Awaits
  <2>1. TypeOK'
    <3>1. pc' \in [Tasks -> Labels] /\ work' \in [Tasks -> Work \cup {None}]
      BY <1>a, <2>r, ArmType
    <3>2. prepTimers' \in [Rooms -> Timers \cup {None}]
      BY <1>a, <2>r DEF TypeOK
    <3> QED
      BY <1>8, <1>a, <3>1, <3>2 DEF SchedulePrepTimer, TypeOK, dbVars, locals
  <2>2. WorkOK'
    BY <1>a, <2>r, ArmType
  <2>3. LabelsOK'
    <3>1. h # t /\ h \in Tasks
      BY <1>a, <2>r, ArmType DEF Tasks
    <3> QED
      BY <1>a, <3>1 DEF Arm, TypeOK, LabelsOK
  <2> QED
    BY <2>1, <2>2, <2>3 DEF TypeInv
<1>9. ASSUME NEW t \in Tasks, TimerFires(t) PROVE TypeInv'
  <2>1. TypeOK'
    BY <1>9, <1>a
    DEF TimerFires, Goto, TypeOK, dbVars, timerMaps, locals, Tasks, Labels, Dormant, Settled, Awaits, Deleted
  <2>2. WorkOK'
    BY <1>9, <1>a, GotoWork DEF TimerFires
  <2>3. LabelsOK'
    BY <1>9, <1>a DEF TimerFires, Goto, TypeOK, LabelsOK
  <2> QED
    BY <2>1, <2>2, <2>3 DEF TypeInv
<1>10. ASSUME NEW t \in Tasks, TransitionFindsRoom(t) PROVE TypeInv'
  <2>1. TypeOK'
    <3>1. work[t] \in TransitionWork
      BY <1>10, <1>a DEF TransitionFindsRoom, AtFindRoom, Doing, TypeOK, Work,
                         JoinWork, SendWork
    <3>2. RoomOf(t) \in Rooms
      BY <3>1, RoomKnown DEF Work
    <3>3. from' \in [Tasks -> DebateStates]
      <4>1. state[RoomOf(t)] \in DebateStates
        BY <1>10, <1>a, <3>2 DEF TransitionFindsRoom, TypeOK
      <4> QED
        BY <1>10, <1>a, <4>1 DEF TransitionFindsRoom, TypeOK
    <3>4. pc' \in [Tasks -> Labels]
      BY <1>10, <1>a, GotoType DEF TransitionFindsRoom, Labels, Dormant, Settled, Awaits
    <3> QED
      BY <1>10, <1>a, <3>3, <3>4 DEF TransitionFindsRoom, TypeOK, dbVars, timerMaps
  <2>2. WorkOK'
    BY <1>10, <1>a, GotoWork DEF TransitionFindsRoom, AtFindRoom
  <2>3. LabelsOK'
    BY <1>10, <1>a DEF TransitionFindsRoom, Goto, TypeOK, LabelsOK, Doing, AtFindRoom, WorkOK, Work, JoinWork, SendWork, TransitionWork, Tasks
  <2> QED
    BY <2>1, <2>2, <2>3 DEF TypeInv
<1>11. ASSUME NEW t \in Tasks, TransitionState(t) PROVE TypeInv'
  <2>1. TypeOK'
    <3>1. RoomOf(t) \in Rooms /\ work[t].to \in DebateStates
      BY <1>11, <1>a, RoomKnown DEF TransitionState, LabelsOK, TransitionWork, Work
    <3>2. state' \in [Rooms -> DebateStates \cup {"ABSENT"}]
      BY <1>11, <1>a, <3>1 DEF TransitionState, TypeOK
    <3>3. history' \in [Rooms -> Seq([from : DebateStates, to : DebateStates])]
      <4> DEFINE Row == [from : DebateStates, to : DebateStates]
                 new == [from |-> from[t], to |-> work[t].to]
      <4>1. new \in Row
        BY <1>a, <3>1 DEF TypeOK
      <4>2. history \in [Rooms -> Seq(Row)]
        BY <1>a DEF TypeOK
      <4>3. history' = [history EXCEPT ![RoomOf(t)] = Append(history[RoomOf(t)], new)]
        BY <1>11 DEF TransitionState
      <4> HIDE DEF Row, new
      <4>4. Append(history[RoomOf(t)], new) \in Seq(Row)
        BY <3>1, <4>1, <4>2
      <4>5. history' \in [Rooms -> Seq(Row)]
        BY <4>2, <4>3, <4>4
      <4> QED
        BY <4>5 DEF Row
    <3>4. pc' \in [Tasks -> Labels]
      BY <1>11, <1>a, GotoType DEF TransitionState, Labels, Awaits
    <3> QED
      BY <1>11, <1>a, <3>2, <3>3, <3>4 DEF TransitionState, TypeOK, timerMaps, locals
  <2>2. WorkOK'
    BY <1>11, <1>a, GotoWork DEF TransitionState
  <2>3. LabelsOK'
    BY <1>11, <1>a DEF TransitionState, Goto, TypeOK, LabelsOK
  <2> QED
    BY <2>1, <2>2, <2>3 DEF TypeInv
<1>12. ASSUME NEW t \in Tasks, ScheduleDebateTimer(t) PROVE TypeInv'
  <2> PICK h \in Timers : /\ Arm(t, h, "VOTING")
                         /\ debateTimers' = [debateTimers EXCEPT ![RoomOf(t)] = h]
    BY <1>12 DEF ScheduleDebateTimer
  <2>r. RoomOf(t) \in Rooms /\ pc[t] \in Awaits
    BY <1>12, <1>a, RoomKnown DEF ScheduleDebateTimer, LabelsOK, Work, Awaits
  <2>1. TypeOK'
    <3>1. pc' \in [Tasks -> Labels] /\ work' \in [Tasks -> Work \cup {None}]
      BY <1>a, <2>r, ArmType
    <3>2. debateTimers' \in [Rooms -> Timers \cup {None}]
      BY <1>a, <2>r DEF TypeOK
    <3> QED
      BY <1>12, <1>a, <3>1, <3>2 DEF ScheduleDebateTimer, TypeOK, dbVars, locals
  <2>2. WorkOK'
    BY <1>a, <2>r, ArmType
  <2>3. LabelsOK'
    <3>1. h # t /\ h \in Tasks
      BY <1>a, <2>r, ArmType DEF Tasks
    <3> QED
      BY <1>a, <3>1 DEF Arm, TypeOK, LabelsOK
  <2> QED
    BY <2>1, <2>2, <2>3 DEF TypeInv
<1>13. ASSUME NEW t \in Tasks, OpenVoting(t) PROVE TypeInv'
  <2>1. TypeOK'
    BY <1>13, <1>a
    DEF OpenVoting, TypeOK, dbVars, timerMaps, locals, Tasks, Labels, Dormant, Settled, Awaits, ClearAndGoto, Deleted
  <2>2. WorkOK'
    BY <1>13, <1>a DEF OpenVoting, TypeOK, WorkOK, Tasks, ClearAndGoto
  <2>3. LabelsOK'
    BY <1>13, <1>a DEF OpenVoting, TypeOK, LabelsOK, ClearAndGoto
  <2> QED
    BY <2>1, <2>2, <2>3 DEF TypeInv
<1>14. ASSUME NEW t \in Tasks, NEW j \in JobKinds, EnqueueJob(t, j) PROVE TypeInv'
  <2>1. TypeOK'
    <3>1. RoomOf(t) \in Rooms
      BY <1>14, <1>a, RoomKnown DEF EnqueueJob, LabelsOK, Work
    <3>2. jobs' \in [Rooms -> [JobKinds -> Nat]]
      BY <1>14, <1>a, <3>1 DEF EnqueueJob, TypeOK
    <3>3. pending' \in [Tasks -> SUBSET JobKinds]
      BY <1>14, <1>a DEF EnqueueJob, StillPending, TypeOK
    <3>4. pc' \in [Tasks -> Labels]
      BY <1>14, <1>a, GotoType DEF EnqueueJob, Labels, Dormant, Settled
    <3> QED
      BY <1>14, <1>a, <3>2, <3>3, <3>4 DEF EnqueueJob, TypeOK, dbVars, timerMaps
  <2>2. WorkOK'
    BY <1>14, <1>a, GotoWork DEF EnqueueJob
  <2>3. LabelsOK'
    BY <1>14, <1>a DEF EnqueueJob, Goto, TypeOK, LabelsOK
  <2> QED
    BY <2>1, <2>2, <2>3 DEF TypeInv
<1>15. ASSUME NEW t \in Tasks, CloseRoom(t) PROVE TypeInv'
  <2>1. TypeOK'
    BY <1>15, <1>a
    DEF CloseRoom, TypeOK, dbVars, timerMaps, locals, Tasks, Labels, Dormant, Settled, Awaits, ClearAndGoto, Deleted
  <2>2. WorkOK'
    BY <1>15, <1>a DEF CloseRoom, TypeOK, WorkOK, Tasks, ClearAndGoto
  <2>3. LabelsOK'
    BY <1>15, <1>a DEF CloseRoom, TypeOK, LabelsOK, ClearAndGoto
  <2> QED
    BY <2>1, <2>2, <2>3 DEF TypeInv
<1>16. ASSUME NEW t \in Tasks, SendFindsRoom(t) PROVE TypeInv'
  <2>1. TypeOK'
    BY <1>16, <1>a
    DEF SendFindsRoom, Goto, TypeOK, dbVars, timerMaps, locals, Tasks, Labels, Dormant, Settled, Awaits
  <2>2. WorkOK'
    BY <1>16, <1>a, GotoWork DEF SendFindsRoom, AtFindRoom
  <2>3. LabelsOK'
    BY <1>16, <1>a DEF SendFindsRoom, Goto, TypeOK, LabelsOK, Doing, AtFindRoom, WorkOK, Work, JoinWork, SendWork, TransitionWork, Tasks
  <2> QED
    BY <2>1, <2>2, <2>3 DEF TypeInv
<1>17. ASSUME NEW t \in Tasks, SendReadsParticipants(t) PROVE TypeInv'
  <2>1. TypeOK'
    BY <1>17, <1>a
    DEF SendReadsParticipants, Goto, TypeOK, dbVars, timerMaps, locals, Tasks, Labels, Dormant, Settled, Awaits
  <2>2. WorkOK'
    BY <1>17, <1>a, GotoWork DEF SendReadsParticipants
  <2>3. LabelsOK'
    BY <1>17, <1>a DEF SendReadsParticipants, Goto, TypeOK, LabelsOK, Doing, JoinWork, SendWork, WorkOK, TransitionWork, Tasks
  <2> QED
    BY <2>1, <2>2, <2>3 DEF TypeInv
<1>18. ASSUME NEW t \in Tasks, SaveMessage(t) PROVE TypeInv'
  <2>1. TypeOK'
    <3>1. messages' \subseteq Messages
      BY <1>18, <1>a DEF SaveMessage, TypeOK, LabelsOK, SendWork, Messages, RoomOf
    <3>2. pc' \in [Tasks -> Labels]
      BY <1>18, <1>a, GotoType DEF SaveMessage, Labels, Dormant, Settled
    <3> QED
      BY <1>18, <1>a, <3>1, <3>2 DEF SaveMessage, TypeOK, timerMaps, locals
  <2>2. WorkOK'
    BY <1>18, <1>a, GotoWork DEF SaveMessage
  <2>3. LabelsOK'
    BY <1>18, <1>a DEF SaveMessage, Goto, TypeOK, LabelsOK
  <2> QED
    BY <2>1, <2>2, <2>3 DEF TypeInv
<1>19. ASSUME NEW t \in Tasks, AwaitRejects(t) PROVE TypeInv'
  <2>1. TypeOK'
    <3>1. faults' \in 0..MaxFaults
      BY <1>19, <1>a DEF AwaitRejects, TypeOK
    <3>2. pc' \in [Tasks -> Labels]
      BY <1>19, <1>a, GotoType DEF AwaitRejects, Labels, Dormant, Settled
    <3> QED
      BY <1>19, <1>a, <3>1, <3>2 DEF AwaitRejects, TypeOK, dbVars, timerMaps, locals
  <2>2. WorkOK'
    BY <1>19, <1>a, GotoWork DEF AwaitRejects, Awaits
  <2>3. LabelsOK'
    BY <1>19, <1>a DEF AwaitRejects, Goto, TypeOK, LabelsOK
  <2> QED
    BY <2>1, <2>2, <2>3 DEF TypeInv
<1>20. ASSUME NEW t \in Tasks, NEW j \in JobKinds, AddRejects(t, j) PROVE TypeInv'
  <2>1. TypeOK'
    <3>1. faults' \in 0..MaxFaults
      BY <1>20, <1>a DEF AddRejects, TypeOK
    <3>2. pc' \in [Tasks -> Labels]
      BY <1>20, <1>a, GotoType DEF AddRejects, Labels, Dormant, Settled
    <3>3. pending' \in [Tasks -> SUBSET JobKinds]
      BY <1>20, <1>a DEF AddRejects, StillPending, TypeOK
    <3> QED
      BY <1>20, <1>a, <3>1, <3>2, <3>3 DEF AddRejects, TypeOK, dbVars, timerMaps, locals
  <2>2. WorkOK'
    BY <1>20, <1>a, GotoWork DEF AddRejects
  <2>3. LabelsOK'
    BY <1>20, <1>a DEF AddRejects, Goto, TypeOK, LabelsOK
  <2> QED
    BY <2>1, <2>2, <2>3 DEF TypeInv
<1>21. ASSUME Crash PROVE TypeInv'
  <2>1. TypeOK'
    <3>1. faults' \in 0..MaxFaults
      BY <1>21, <1>a DEF Crash, TypeOK
    <3>2. pc' \in [Tasks -> Labels]
      BY <1>21, <1>a DEF Crash, TypeOK, Labels, Dormant, Settled
    <3> QED
      BY <1>21, <1>a, <3>1, <3>2 DEF Crash, TypeOK, dbVars
  <2>2. WorkOK'
    BY <1>21, <1>a DEF Crash, TypeOK, WorkOK, Tasks, Dormant, Settled
  <2>3. LabelsOK'
    BY <1>21, <1>a DEF Crash, TypeOK, LabelsOK
  <2> QED
    BY <2>1, <2>2, <2>3 DEF TypeInv
<1>22. ASSUME Quiescent PROVE TypeInv'
  BY <1>22, <1>a
  DEF Quiescent, vars, dbVars, timerMaps, locals, TypeInv, TypeOK, WorkOK, LabelsOK
<1> QED
  BY <1>1, <1>2, <1>3, <1>4, <1>5, <1>6, <1>7, <1>8, <1>9, <1>10, <1>11, <1>12,
     <1>13, <1>14, <1>15, <1>16, <1>17, <1>18, <1>19, <1>20, <1>21, <1>22
  DEF Next, Step, Join, Transition, Send, Fault

LEMMA TypeInvariant == Spec => []TypeInv
<1>1. Init => TypeInv
  BY InitType
<1>2. TypeInv /\ [Next]_vars => TypeInv'
  BY NextType
<1> QED
  BY <1>1, <1>2, PTL DEF Spec, Safety

\* Every row, queue counter, timer map and task keeps its type in every behaviour
\* of the service: in particular a transition only ever records known states.
THEOREM TypeCorrect == Spec => []TypeOK
<1>1. TypeInv => TypeOK
  BY DEF TypeInv
<1> QED
  BY <1>1, TypeInvariant, PTL

-----------------------------------------------------------------------------
(* Only the join that inserted the CONTRE seat goes on to draw a question  *)
(* and arm the timer: whoever read a seat read POUR among them, because    *)
(* POUR is always taken first, and so chose CONTRE; and the UNIQUE         *)
(* constraint lets one row per room have it.                               *)

Starting == {"randomQuestion", "setQuestion", "schedulePrep"}

\* A task that is about to start the countdown of its room, or is its timer.
Starter(t) == pc[t] \in Starting \/ IsTimer(t, "RUNNING")

Taken(r, s) == \E p \in participants : p.room = r /\ p.side = s

SeatOrder == \A p \in participants : p.side = "CONTRE" => Taken(p.room, "POUR")

\* What a join read before choosing its side is still there.
SnapshotOK ==
    \A t \in Tasks : pc[t] = "addParticipant" =>
        /\ \A p \in seen[t] : p \in participants /\ p.room = RoomOf(t)
        /\ seen[t] # {} => \E p \in seen[t] : p.side = "POUR"

OneStarter ==
    /\ \A t \in Tasks : Starter(t) => Taken(RoomOf(t), "CONTRE")
    /\ \A t, u \in Tasks :
          Starter(t) /\ Starter(u) /\ RoomOf(t) = RoomOf(u) => t = u

\* A drawn question means the CONTRE seat is taken and nobody is about to draw.
QuestionOK ==
    /\ \A r \in Rooms : question[r] # None => Taken(r, "CONTRE")
    /\ \A t \in Tasks : pc[t] \in {"randomQuestion", "setQuestion"}
                            => question[RoomOf(t)] = None

PrepInv == SeatOrder /\ SnapshotOK /\ OneStarter /\ QuestionOK

LEMMA InitPrep == ASSUME Init PROVE PrepInv
BY ConstantsAssumption
DEF Init, PrepInv, SeatOrder, SnapshotOK, OneStarter, QuestionOK, Starter, Starting,
    IsTimer, Tasks

\* Steps that touch neither seats, questions nor work, and bring no task to the
\* part of a join that follows its read.
LEMMA QuietStep ==
    ASSUME TypeInv, PrepInv,
           participants' = participants, question' = question, work' = work,
           seen' = seen,
           \A t \in Tasks : \/ pc'[t] = pc[t]
                            \/ pc'[t] \notin Starting \cup {"addParticipant"}
    PROVE  PrepInv'
<1>1. \A t \in Tasks : (Starter(t))' => Starter(t)
  BY DEF Starter, Starting, IsTimer
<1>2. SeatOrder' /\ SnapshotOK'
  BY DEF PrepInv, SeatOrder, SnapshotOK, Taken, RoomOf
<1>3. OneStarter'
  BY <1>1 DEF PrepInv, OneStarter, Taken, RoomOf
<1>4. QuestionOK'
  BY DEF PrepInv, QuestionOK, Taken, RoomOf, Starting
<1> QED
  BY <1>2, <1>3, <1>4 DEF PrepInv

\* The read of a join: the rows of its room, POUR among them if there are any.
LEMMA ReadStep ==
    ASSUME TypeInv, PrepInv, NEW t \in Tasks, JoinReadsParticipants(t)
    PROVE  PrepInv'
<1> USE DEF JoinReadsParticipants, JoinDecision
<1>1. \A x \in Tasks : (Starter(x))' => Starter(x)
  BY DEF Goto, TypeInv, TypeOK, Starter, Starting, IsTimer
<1>2. SeatOrder' /\ QuestionOK'
  BY DEF PrepInv, SeatOrder, QuestionOK, Taken, RoomOf, Goto, TypeInv, TypeOK, dbVars
<1>3. OneStarter'
  BY <1>1 DEF PrepInv, OneStarter, Taken, RoomOf, dbVars
<1>4. SnapshotOK'
  <2>1. \A p \in Seated(RoomOf(t)) : p \in participants /\ p.room = RoomOf(t)
    BY DEF Seated
  <2>2. Seated(RoomOf(t)) # {} => \E p \in Seated(RoomOf(t)) : p.side = "POUR"
    BY DEF Seated, PrepInv, SeatOrder, Taken, TypeInv, TypeOK, Participants, Sides
  <2> QED
    BY <2>1, <2>2 DEF PrepInv, SnapshotOK, Goto, TypeInv, TypeOK, dbVars, RoomOf
<1> QED
  BY <1>2, <1>3, <1>4 DEF PrepInv

\* Whoever fills the room has read a seat, hence POUR, and so takes CONTRE.
LEMMA FillerTakesContre ==
    ASSUME TypeInv, PrepInv, NEW t \in Tasks, pc[t] = "addParticipant", FillsRoom(t)
    PROVE  FreeSide(t) = "CONTRE"
<1>1. Cardinality(Sides) = 2
  <2>1. IsFiniteSet({"POUR"}) /\ Cardinality({"POUR"}) = 1
    BY FS_Singleton
  <2>2. Sides = {"POUR"} \cup {"CONTRE"} /\ "CONTRE" \notin {"POUR"}
    BY DEF Sides
  <2> QED
    BY <2>1, <2>2, FS_AddElement
<1>2. seen[t] # {}
  BY <1>1, FS_EmptySet DEF FillsRoom
<1> QED
  BY <1>2 DEF PrepInv, SnapshotOK, FreeSide

\* The INSERT.  A task that takes CONTRE found it free, so its room had neither a
\* starter nor a question; one that takes POUR starts nothing.
LEMMA InsertStep ==
    ASSUME TypeInv, PrepInv, NEW t \in Tasks, AddParticipant(t)
    PROVE  PrepInv'
<1> DEFINE row == [room |-> RoomOf(t), user |-> work[t].user, side |-> FreeSide(t)]
<1>0. pc[t] = "addParticipant" /\ work' = work /\ seen' = seen /\ question' = question
  BY DEF AddParticipant, locals
<1>1. CASE ~InsertAllowed(row)
  <2>1. participants' = participants /\ Goto(t, "failed")
    BY <1>1 DEF AddParticipant
  <2> QED
    BY <1>0, <2>1, QuietStep DEF Goto, TypeInv, TypeOK, Starting
<1>2. CASE InsertAllowed(row)
  <2>1. /\ participants' = participants \cup {row}
        /\ Goto(t, IF FillsRoom(t) THEN "randomQuestion" ELSE "done")
    BY <1>2 DEF AddParticipant
  <2>2. \A r, s : Taken(r, s) => (Taken(r, s))'
    BY <2>1 DEF Taken
  <2>3. row.side = "CONTRE" => Taken(RoomOf(t), "POUR") /\ ~Taken(RoomOf(t), "CONTRE")
    BY <1>0, <1>2 DEF PrepInv, SnapshotOK, FreeSide, Taken, InsertAllowed, Seated
  <2>4. SeatOrder'
    <3> SUFFICES ASSUME NEW p \in participants', p.side = "CONTRE"
                 PROVE  (Taken(p.room, "POUR"))'
      BY DEF SeatOrder
    <3>1. CASE p \in participants
      BY <2>2, <3>1 DEF PrepInv, SeatOrder
    <3>2. CASE p = row
      BY <2>2, <2>3, <3>2
    <3> QED
      BY <2>1, <3>1, <3>2
  <2>5. SnapshotOK'
    BY <1>0, <2>1 DEF PrepInv, SnapshotOK, Goto, TypeInv, TypeOK, RoomOf
  <2>6. FillsRoom(t) => row.side = "CONTRE"
    BY <1>0, FillerTakesContre
  <2>7. \A x \in Tasks : (Starter(x))' => \/ Starter(x) /\ x # t
                                          \/ x = t /\ FillsRoom(t)
    BY <1>0, <2>1, ConstantsAssumption
    DEF Starter, Starting, IsTimer, Goto, TypeInv, TypeOK, WorkOK, LabelsOK, JoinWork,
        TransitionWork
  <2>8. OneStarter'
    <3>1. FillsRoom(t) => (Taken(RoomOf(t), "CONTRE"))'
      BY <1>0, <2>1, <2>6 DEF Taken, RoomOf
    <3>2. \A x \in Tasks : Starter(x) => Taken(RoomOf(x), "CONTRE")
      BY DEF PrepInv, OneStarter
    <3>3. \A x \in Tasks : (RoomOf(x))' = RoomOf(x)
      BY <1>0 DEF RoomOf
    <3>4. \A x \in Tasks : (Starter(x))' => (Taken(RoomOf(x), "CONTRE"))'
      BY <1>0, <2>2, <2>7, <3>1, <3>2, <3>3 DEF Taken
    <3>5. ASSUME NEW x \in Tasks, NEW y \in Tasks, (Starter(x))', (Starter(y))',
                 RoomOf(x) = RoomOf(y)
          PROVE  x = y
      BY <2>3, <2>6, <2>7, <3>2, <3>5 DEF PrepInv, OneStarter
    <3> QED
      BY <3>3, <3>4, <3>5 DEF OneStarter
  <2>9. QuestionOK'
    <3>1. \A r \in Rooms : question'[r] # None => (Taken(r, "CONTRE"))'
      BY <1>0, <2>2 DEF PrepInv, QuestionOK
    <3>2. ASSUME NEW x \in Tasks, pc'[x] \in {"randomQuestion", "setQuestion"}
          PROVE  question[RoomOf(x)] = None
      <4>1. CASE x = t
        <5>1. FillsRoom(t)
          BY <2>1, <3>2, <4>1 DEF Goto, TypeInv, TypeOK
        <5>2. RoomOf(t) \in Rooms
          BY <1>0, RoomKnown DEF TypeInv, LabelsOK, Work
        <5> QED
          BY <2>3, <2>6, <4>1, <5>1, <5>2 DEF PrepInv, QuestionOK
      <4>2. CASE x # t
        BY <2>1, <3>2, <4>2 DEF PrepInv, QuestionOK, Goto, TypeInv, TypeOK
      <4> QED
        BY <4>1, <4>2
    <3> QED
      BY <1>0, <3>1, <3>2 DEF QuestionOK, RoomOf
  <2> QED
    BY <2>4, <2>5, <2>8, <2>9 DEF PrepInv
<1> QED
  BY <1>1, <1>2

\* The rest of the join that filled the room: it remains its only starter.
LEMMA DrawStep ==
    ASSUME TypeInv, PrepInv, NEW t \in Tasks, RandomQuestion(t) \/ SetQuestion(t)
    PROVE  PrepInv'
<1>0. /\ pc[t] \in {"randomQuestion", "setQuestion"}
      /\ work' = work /\ seen' = seen /\ participants' = participants
      /\ Goto(t, "setQuestion") \/ Goto(t, "schedulePrep")
  BY DEF RandomQuestion, SetQuestion, AfterDraw, dbVars, locals
<1>1. \A x \in Tasks : (Starter(x))' => Starter(x)
  BY <1>0 DEF Starter, Starting, IsTimer, Goto, TypeInv, TypeOK
<1>2. SeatOrder' /\ SnapshotOK'
  BY <1>0 DEF PrepInv, SeatOrder, SnapshotOK, Taken, RoomOf, Goto, TypeInv, TypeOK
<1>3. OneStarter'
  BY <1>0, <1>1 DEF PrepInv, OneStarter, Taken, RoomOf
<1>4. QuestionOK'
  <2>1. CASE RandomQuestion(t)
    BY <1>0, <2>1 DEF RandomQuestion, PrepInv, QuestionOK, Taken, RoomOf, Goto,
                      TypeInv, TypeOK, dbVars
  <2>2. CASE SetQuestion(t)
    <3>1. RoomOf(t) \in Rooms
      BY <1>0, RoomKnown DEF TypeInv, LabelsOK, Work
    <3>2. \A r \in Rooms : r # RoomOf(t) => question'[r] = question[r]
      BY <2>2, <3>1 DEF SetQuestion, TypeInv, TypeOK
    <3>3. Starter(t)
      BY <1>0 DEF Starter, Starting
    <3>4. \A r \in Rooms : question'[r] # None => Taken(r, "CONTRE")
      BY <3>2, <3>3 DEF PrepInv, QuestionOK, OneStarter
    <3>5. ASSUME NEW x \in Tasks, pc'[x] \in {"randomQuestion", "setQuestion"}
          PROVE  question'[RoomOf(x)] = None
      <4>1. x # t /\ pc[x] = pc'[x]
        BY <2>2, <3>5 DEF SetQuestion, Goto, TypeInv, TypeOK
      <4>2. RoomOf(x) \in Rooms
        BY <3>5, <4>1, RoomKnown DEF TypeInv, LabelsOK, Work
      <4>3. Starter(x)
        BY <3>5, <4>1 DEF Starter, Starting
      <4>4. RoomOf(x) # RoomOf(t)
        BY <3>3, <4>1, <4>3 DEF PrepInv, OneStarter
      <4> QED
        BY <3>2, <3>5, <4>1, <4>2, <4>4 DEF PrepInv, QuestionOK
    <3> QED
      BY <1>0, <3>4, <3>5 DEF QuestionOK, Taken, RoomOf
  <2> QED
    BY <2>1, <2>2
<1> QED
  BY <1>2, <1>3, <1>4 DEF PrepInv

\* Arming a handle: for RUNNING it replaces the join as the starter of its room.
LEMMA ArmStep ==
    ASSUME TypeInv, PrepInv, NEW t \in Tasks,
           SchedulePrepTimer(t) \/ ScheduleDebateTimer(t)
    PROVE  PrepInv'
<1>0. UNCHANGED <<participants, question, seen>>
  BY DEF SchedulePrepTimer, ScheduleDebateTimer, dbVars, locals
<1>1. PICK h \in Timers, to \in {"RUNNING", "VOTING"} :
        /\ Arm(t, h, to)
        /\ to = "RUNNING" => pc[t] = "schedulePrep"
        /\ pc[t] \in {"schedulePrep", "committed"}
  BY DEF SchedulePrepTimer, ScheduleDebateTimer
<1>2. RoomOf(t) \in Rooms /\ pc[t] \in Awaits /\ TypeOK /\ WorkOK
  BY <1>1, RoomKnown DEF TypeInv, LabelsOK, Work, Awaits
<1>3. /\ h # t /\ h \in Tasks
      /\ work'[h] = [op |-> "transition", room |-> RoomOf(t), to |-> to]
  BY <1>1, <1>2, ArmType DEF Tasks
<1>4. /\ \A x \in Tasks : x # h => work'[x] = work[x]
      /\ \A x \in Tasks : pc'[x] = IF x = h THEN "armed"
                                   ELSE IF x = t THEN "done" ELSE pc[x]
  BY <1>1, <1>3 DEF Arm, TypeInv, TypeOK
<1>5. \A x \in Tasks : (Starter(x))' =>
          \/ x # h /\ Starter(x) /\ (to = "RUNNING" => x # t)
          \/ x = h /\ to = "RUNNING"
  <2>1. to = "RUNNING" => ~(Starter(t))'
    BY <1>1, <1>3, <1>4
    DEF Starter, Starting, IsTimer, TypeInv, LabelsOK, WorkOK, JoinWork, TransitionWork
  <2>2. (Starter(h))' => to = "RUNNING"
    BY <1>3, <1>4 DEF Starter, Starting, IsTimer
  <2>3. \A x \in Tasks : x # h /\ (Starter(x))' => Starter(x)
    BY <1>4 DEF Starter, Starting, IsTimer
  <2> QED
    BY <2>1, <2>2, <2>3
<1>6. \A x \in Tasks : x # h => (RoomOf(x))' = RoomOf(x)
  BY <1>4 DEF RoomOf
<1>7. (RoomOf(h))' = RoomOf(t)
  BY <1>3 DEF RoomOf
<1>8. to = "RUNNING" => Starter(t)
  BY <1>1 DEF Starter, Starting
<1>9. SeatOrder' /\ SnapshotOK'
  BY <1>0, <1>4, <1>6 DEF PrepInv, SeatOrder, SnapshotOK, Taken
<1>10. OneStarter'
  <2>1. \A x \in Tasks : (Starter(x))' => Taken((RoomOf(x))', "CONTRE")
    BY <1>5, <1>6, <1>7, <1>8 DEF PrepInv, OneStarter
  <2>2. \A x, y \in Tasks : (Starter(x))' /\ (Starter(y))' /\ (RoomOf(x))' = (RoomOf(y))'
                                => x = y
    BY <1>5, <1>6, <1>7, <1>8 DEF PrepInv, OneStarter
  <2> QED
    BY <1>0, <2>1, <2>2 DEF OneStarter, Taken
<1>11. QuestionOK'
  BY <1>0, <1>4, <1>6 DEF PrepInv, QuestionOK, Taken
<1> QED
  BY <1>9, <1>10, <1>11 DEF PrepInv

LEMMA NextPrep == ASSUME TypeInv, PrepInv, [Next]_vars PROVE PrepInv'
<1> USE DEF Starting
<1>1. CASE UNCHANGED vars
  BY <1>1, QuietStep DEF vars, dbVars, locals
<1>2. ASSUME NEW r \in Rooms, CreateRoom(r) PROVE PrepInv'
  BY <1>2, QuietStep DEF CreateRoom, locals
<1>3. ASSUME NEW t \in Tasks, RoomNotFound(t) PROVE PrepInv'
  BY <1>3, QuietStep DEF RoomNotFound, Goto, TypeInv, TypeOK, dbVars, locals
<1>4. ASSUME NEW t \in Tasks, Join(t) PROVE PrepInv'
  <2>1. CASE JoinFindsRoom(t)
    BY <2>1, QuietStep DEF JoinFindsRoom, Goto, TypeInv, TypeOK, dbVars, locals
  <2> QED
    BY <1>4, <2>1, ReadStep, InsertStep, DrawStep, ArmStep DEF Join
<1>5. ASSUME NEW t \in Tasks, Transition(t) PROVE PrepInv'
  <2>1. CASE TransitionFindsRoom(t)
    BY <2>1, QuietStep DEF TransitionFindsRoom, Goto, TypeInv, TypeOK, dbVars
  <2>2. CASE TransitionState(t)
    BY <2>2, QuietStep DEF TransitionState, Goto, TypeInv, TypeOK, locals
  <2>3. CASE OpenVoting(t)
    BY <2>3, QuietStep DEF OpenVoting, ClearAndGoto, dbVars
  <2>4. ASSUME NEW j \in JobKinds, EnqueueJob(t, j) PROVE PrepInv'
    BY <2>4, QuietStep DEF EnqueueJob, Goto, TypeInv, TypeOK, dbVars
  <2>5. CASE CloseRoom(t)
    BY <2>5, QuietStep DEF CloseRoom, ClearAndGoto, dbVars, locals
  <2> QED
    BY <1>5, <2>1, <2>2, <2>3, <2>4, <2>5, ArmStep DEF Transition
<1>6. ASSUME NEW t \in Tasks, Send(t) PROVE PrepInv'
  BY <1>6, QuietStep
  DEF Send, SendFindsRoom, SendReadsParticipants, SaveMessage, Goto, TypeInv, TypeOK,
      dbVars, locals
<1>7. ASSUME NEW t \in Tasks, TimerFires(t) PROVE PrepInv'
  BY <1>7, QuietStep DEF TimerFires, Goto, TypeInv, TypeOK, dbVars, locals
<1>8. CASE Fault
  <2>1. ASSUME NEW t \in Tasks, AwaitRejects(t) PROVE PrepInv'
    BY <2>1, QuietStep DEF AwaitRejects, Goto, TypeInv, TypeOK, dbVars, locals
  <2>2. ASSUME NEW t \in Tasks, NEW j \in JobKinds, AddRejects(t, j) PROVE PrepInv'
    BY <2>2, QuietStep DEF AddRejects, Goto, TypeInv, TypeOK, dbVars
  <2>3. CASE Crash
    BY <2>3, QuietStep DEF Crash, dbVars
  <2> QED
    BY <1>8, <2>1, <2>2, <2>3 DEF Fault
<1> QED
  BY <1>1, <1>2, <1>3, <1>4, <1>5, <1>6, <1>7, <1>8 DEF Next, Step, Quiescent

LEMMA PrepInvariant == Spec => []PrepInv
<1>1. Init => PrepInv
  BY InitPrep
<1>2. TypeInv /\ PrepInv /\ [Next]_vars => PrepInv'
  BY NextPrep
<1> QED
  BY <1>1, <1>2, TypeInvariant, PTL DEF Spec, Safety

\* However many joins race, whatever else is requested and whatever fails, a room
\* has one preparation countdown in its life at most.
THEOREM PrepTimerArmedOnce == Spec => []PrepTimerOnce
<1>1. PrepInv => PrepTimerOnce
  BY DEF PrepInv, OneStarter, Starter, PrepTimerOnce, Tasks
<1> QED
  BY <1>1, PrepInvariant, PTL

\* The question of a room is drawn once: a later join never replaces it.
THEOREM QuestionNeverRedrawn == Spec => QuestionDrawnOnce
<1>1. TypeInv /\ PrepInv /\ [Next]_vars
        => [\A r \in Rooms : question[r] # None => question'[r] = question[r]]_vars
  <2> SUFFICES ASSUME TypeInv, PrepInv, Next, NEW r \in Rooms, question[r] # None
               PROVE  question'[r] = question[r]
    OBVIOUS
  <2>1. ASSUME NEW t \in Tasks, SetQuestion(t) PROVE question'[r] = question[r]
    <3>1. RoomOf(t) # r
      BY <2>1 DEF SetQuestion, PrepInv, QuestionOK
    <3> QED
      BY <2>1, <3>1 DEF SetQuestion, TypeInv, TypeOK
  <2>2. \/ \E t \in Tasks : SetQuestion(t)
        \/ question' = question
    BY DEF Next, CreateRoom, Step, RoomNotFound, Join, JoinFindsRoom,
       JoinReadsParticipants, AddParticipant, RandomQuestion, SchedulePrepTimer,
       Transition, TransitionFindsRoom, TransitionState, ScheduleDebateTimer,
       OpenVoting, EnqueueJob, CloseRoom, Send, SendFindsRoom, SendReadsParticipants,
       SaveMessage, TimerFires, Fault, AwaitRejects, AddRejects, Crash, Quiescent,
       vars, dbVars
  <2> QED
    BY <2>1, <2>2
<1> QED
  BY <1>1, TypeInvariant, PrepInvariant, PTL DEF Spec, Safety, QuestionDrawnOnce

-----------------------------------------------------------------------------
(* The two timer maps: an entry always names a live handle of its room and *)
(* purpose, and a running preparation countdown is always an entry.  The   *)
(* second rests on there being one countdown per room: a second one would  *)
(* overwrite the entry of the first.  Hence a full room is never forgotten:*)
(* its countdown is cancelled only once the room has left PREPARATION.  At *)
(* the other end, no job that an opened vote owes is forgotten.            *)

Armed(h, r, to) ==
    pc[h] = "armed" /\ work[h] = [op |-> "transition", room |-> r, to |-> to]

LEMMA Entries ==
    ASSUME TypeInv, TimerMapsSound, NEW r \in Rooms
    PROVE  /\ prepTimers[r] # None =>
                /\ prepTimers[r] \in Tasks /\ Armed(prepTimers[r], r, "RUNNING")
                /\ RoomOf(prepTimers[r]) = r /\ work[prepTimers[r]].to = "RUNNING"
           /\ debateTimers[r] # None =>
                /\ debateTimers[r] \in Tasks /\ Armed(debateTimers[r], r, "VOTING")
                /\ RoomOf(debateTimers[r]) = r /\ work[debateTimers[r]].to = "VOTING"
BY DEF TypeInv, TypeOK, TimerMapsSound, Tasks, RoomOf, Armed

LEMMA InitTimers == ASSUME Init PROVE TimerMapsSound /\ PrepTimersCancellable
BY ConstantsAssumption
DEF Init, TimerMapsSound, PrepTimersCancellable, Tasks

\* Steps of one task that is not an armed timer leave the maps as sound as before.
LEMMA GotoTimers ==
    ASSUME TypeInv, TimerMapsSound, PrepTimersCancellable,
           NEW t \in Tasks, NEW label, Goto(t, label), label # "armed",
           pc[t] # "armed", work' = work,
           prepTimers' = prepTimers, debateTimers' = debateTimers
    PROVE  TimerMapsSound' /\ PrepTimersCancellable'
<1>1. \A x \in Tasks : pc'[x] = "armed" <=> pc[x] = "armed"
  BY DEF Goto, TypeInv, TypeOK
<1>2. TimerMapsSound'
  BY <1>1 DEF TimerMapsSound, TypeInv, TypeOK, Tasks
<1>3. PrepTimersCancellable'
  BY <1>1 DEF PrepTimersCancellable, RoomOf, Tasks
<1> QED
  BY <1>2, <1>3

LEMMA ArmTimers ==
    ASSUME TypeInv, PrepInv, TimerMapsSound, PrepTimersCancellable, NEW t \in Tasks,
           SchedulePrepTimer(t) \/ ScheduleDebateTimer(t)
    PROVE  TimerMapsSound' /\ PrepTimersCancellable'
<1>1. PICK h \in Timers, to \in {"RUNNING", "VOTING"} :
        /\ Arm(t, h, to)
        /\ pc[t] \in {"schedulePrep", "committed"}
        /\ \/ /\ to = "RUNNING" /\ pc[t] = "schedulePrep"
              /\ prepTimers' = [prepTimers EXCEPT ![RoomOf(t)] = h]
              /\ debateTimers' = debateTimers
           \/ /\ to = "VOTING"
              /\ debateTimers' = [debateTimers EXCEPT ![RoomOf(t)] = h]
              /\ prepTimers' = prepTimers
  BY DEF SchedulePrepTimer, ScheduleDebateTimer
<1>2. RoomOf(t) \in Rooms /\ pc[t] \in Awaits /\ TypeOK /\ WorkOK
  BY <1>1, RoomKnown DEF TypeInv, LabelsOK, Work, Awaits
<1>3. /\ h # t /\ h \in Tasks /\ pc[h] = "unset"
      /\ work'[h] = [op |-> "transition", room |-> RoomOf(t), to |-> to]
  BY <1>1, <1>2, ArmType DEF Arm, Tasks
<1>4. /\ \A x \in Tasks : x # h => work'[x] = work[x]
      /\ \A x \in Tasks : pc'[x] = IF x = h THEN "armed"
                                   ELSE IF x = t THEN "done" ELSE pc[x]
  BY <1>1, <1>3 DEF Arm, TypeInv, TypeOK
<1>5. TimerMapsSound'
  <2>1. \A e \in Tasks : pc[e] = "armed" => pc'[e] = "armed" /\ work'[e] = work[e]
    BY <1>1, <1>3, <1>4
  <2>2. pc'[h] = "armed"
    BY <1>3, <1>4
  <2>3. ASSUME NEW r \in Rooms, prepTimers'[r] # None
        PROVE  (Armed(prepTimers[r], r, "RUNNING"))'
    <3>1. CASE prepTimers'[r] = prepTimers[r]
      BY <2>1, <2>3, <3>1, Entries DEF Armed
    <3>2. CASE prepTimers'[r] # prepTimers[r]
      BY <1>1, <1>2, <1>3, <2>2, <3>2 DEF TypeOK, Armed
    <3> QED
      BY <3>1, <3>2
  <2>4. ASSUME NEW r \in Rooms, debateTimers'[r] # None
        PROVE  (Armed(debateTimers[r], r, "VOTING"))'
    <3>1. CASE debateTimers'[r] = debateTimers[r]
      BY <2>1, <2>4, <3>1, Entries DEF Armed
    <3>2. CASE debateTimers'[r] # debateTimers[r]
      BY <1>1, <1>2, <1>3, <2>2, <3>2 DEF TypeOK, Armed
    <3> QED
      BY <3>1, <3>2
  <2> QED
    BY <2>3, <2>4 DEF TimerMapsSound, Armed
<1>6. PrepTimersCancellable'
  <2> SUFFICES ASSUME NEW g \in Timers, pc'[g] = "armed", work'[g].to = "RUNNING"
               PROVE  prepTimers'[work'[g].room] = g
    BY DEF PrepTimersCancellable, RoomOf
  <2>1. CASE g = h
    BY <1>1, <1>2, <1>3, <2>1 DEF TypeOK
  <2>2. CASE g # h
    <3>1. pc[g] = "armed" /\ work[g].to = "RUNNING" /\ work'[g] = work[g]
      BY <1>1, <1>4, <2>2 DEF Tasks
    <3>2. prepTimers[RoomOf(g)] = g
      BY <3>1 DEF PrepTimersCancellable
    <3>3. CASE to = "RUNNING"
      <4>1. Starter(t) /\ Starter(g) /\ g # t
        <5>1. g # t
          BY <1>1, <3>1
        <5>2. work[g] # None
          BY <3>1, ConstantsAssumption DEF TypeInv, WorkOK, Work
        <5>3. Starter(t)
          BY <1>1, <3>3 DEF Starter, Starting
        <5>4. Starter(g)
          BY <3>1, <5>2 DEF Starter, IsTimer
        <5> QED
          BY <5>1, <5>3, <5>4
      <4>2. RoomOf(g) # RoomOf(t)
        BY <4>1 DEF PrepInv, OneStarter, Tasks
      <4>3. RoomOf(g) \in Rooms
        BY <3>1 DEF TypeInv, WorkOK, TransitionWork, RoomOf
      <4>4. prepTimers' = [prepTimers EXCEPT ![RoomOf(t)] = h]
        BY <1>1, <3>3
      <4> QED
        BY <1>2, <3>1, <3>2, <4>2, <4>3, <4>4 DEF RoomOf, TypeOK
    <3> QED
      BY <1>1, <3>1, <3>2, <3>3 DEF RoomOf
  <2> QED
    BY <2>1, <2>2
<1> QED
  BY <1>5, <1>6

LEMMA FireTimers ==
    ASSUME TypeInv, PrepInv, TimerMapsSound, PrepTimersCancellable, NEW t \in Tasks,
           TimerFires(t)
    PROVE  TimerMapsSound' /\ PrepTimersCancellable'
<1>1. /\ t \in Timers /\ pc[t] = "armed" /\ work' = work
      /\ work[t] \in TransitionWork /\ RoomOf(t) \in Rooms
  BY DEF TimerFires, TypeInv, WorkOK, Tasks, RoomOf, TransitionWork
<1>2. \A x \in Tasks : pc'[x] = IF x = t THEN "findRoom" ELSE pc[x]
  BY DEF TimerFires, Goto, TypeInv, TypeOK
<1>3. /\ \A r \in Rooms : prepTimers'[r] \in {prepTimers[r], None}
      /\ \A r \in Rooms : debateTimers'[r] \in {debateTimers[r], None}
      /\ work[t].to = "RUNNING" => prepTimers'[RoomOf(t)] = None
      /\ work[t].to # "RUNNING" => debateTimers'[RoomOf(t)] = None
      /\ \A r \in Rooms : prepTimers'[r] # prepTimers[r]
                             => r = RoomOf(t) /\ work[t].to = "RUNNING"
  BY <1>1 DEF TimerFires, Deleted, TypeInv, TypeOK
<1>4. TimerMapsSound'
  <2>1. \A e \in Tasks : e # t /\ pc[e] = "armed" => pc'[e] = "armed" /\ work'[e] = work[e]
    BY <1>1, <1>2
  <2>2. ASSUME NEW r \in Rooms, prepTimers'[r] # None
        PROVE  (Armed(prepTimers[r], r, "RUNNING"))'
    <3>1. prepTimers'[r] = prepTimers[r] /\ prepTimers[r] # t
      BY <1>1, <1>3, <2>2, Entries
    <3> QED
      BY <2>1, <2>2, <3>1, Entries DEF Armed
  <2>3. ASSUME NEW r \in Rooms, debateTimers'[r] # None
        PROVE  (Armed(debateTimers[r], r, "VOTING"))'
    <3>1. debateTimers'[r] = debateTimers[r] /\ debateTimers[r] # t
      BY <1>1, <1>3, <2>3, Entries
    <3> QED
      BY <2>1, <2>3, <3>1, Entries DEF Armed
  <2> QED
    BY <2>2, <2>3 DEF TimerMapsSound, Armed
<1>5. PrepTimersCancellable'
  <2> SUFFICES ASSUME NEW g \in Timers, pc'[g] = "armed", work[g].to = "RUNNING"
               PROVE  prepTimers'[RoomOf(g)] = g
    BY <1>1 DEF PrepTimersCancellable, RoomOf
  <2>1. g # t /\ pc[g] = "armed" /\ prepTimers[RoomOf(g)] = g
    BY <1>2 DEF PrepTimersCancellable, Tasks
  <2>2. RoomOf(g) \in Rooms /\ Starter(g)
    BY <2>1, ConstantsAssumption DEF TypeInv, WorkOK, TransitionWork, Work, RoomOf, Starter, IsTimer
  <2>3. work[t].to = "RUNNING" => RoomOf(g) # RoomOf(t)
    BY <1>1, <2>1, <2>2, ConstantsAssumption
    DEF PrepInv, OneStarter, Starter, IsTimer, Tasks, Work
  <2> QED
    BY <1>3, <2>1, <2>2, <2>3
<1> QED
  BY <1>4, <1>5

\* Opening the vote and closing the room: the cleared handles lose their entries,
\* and no other entry names them.
LEMMA ClearTimers ==
    ASSUME TypeInv, TimerMapsSound, PrepTimersCancellable, NEW t \in Tasks,
           OpenVoting(t) \/ CloseRoom(t)
    PROVE  TimerMapsSound' /\ PrepTimersCancellable'
<1> DEFINE r == RoomOf(t)
<1>1. pc[t] = "committed" /\ r \in Rooms /\ work' = work
  BY RoomKnown DEF OpenVoting, CloseRoom, TypeInv, LabelsOK, Work
<1>2. PICK cleared, label :
        /\ label # "armed" /\ ClearAndGoto(cleared, t, label)
        /\ debateTimers' = Deleted(debateTimers, r)
        /\ \/ cleared = {debateTimers[r]} /\ prepTimers' = prepTimers
           \/ /\ cleared = {prepTimers[r], debateTimers[r]}
              /\ prepTimers' = Deleted(prepTimers, r)
  BY DEF OpenVoting, CloseRoom
<1>3. \A x \in Tasks : pc'[x] = "armed" <=> pc[x] = "armed" /\ x \notin cleared
  BY <1>1, <1>2 DEF ClearAndGoto
<1>4. TimerMapsSound'
  <2>1. \A e \in Tasks : e \notin cleared /\ pc[e] = "armed"
                            => pc'[e] = "armed" /\ work'[e] = work[e]
    BY <1>1, <1>3
  <2>2. ASSUME NEW q \in Rooms, prepTimers'[q] # None
        PROVE  (Armed(prepTimers[q], q, "RUNNING"))'
    <3>1. prepTimers'[q] = prepTimers[q]
      BY <1>1, <1>2, <2>2 DEF Deleted, TypeInv, TypeOK
    <3>2. cleared = {debateTimers[r]} \/ q # r
      BY <1>1, <1>2, <2>2 DEF Deleted, TypeInv, TypeOK
    <3>3. prepTimers[q] \notin cleared
      BY <1>1, <1>2, <2>2, <3>1, <3>2, Entries
    <3> QED
      BY <2>1, <2>2, <3>1, <3>3, Entries DEF Armed
  <2>3. ASSUME NEW q \in Rooms, debateTimers'[q] # None
        PROVE  (Armed(debateTimers[q], q, "VOTING"))'
    <3>1. debateTimers'[q] = debateTimers[q] /\ q # r
      BY <1>1, <1>2, <2>3 DEF Deleted, TypeInv, TypeOK
    <3>2. debateTimers[q] \notin cleared
      BY <1>1, <1>2, <2>3, <3>1, Entries
    <3> QED
      BY <2>1, <2>3, <3>1, <3>2, Entries DEF Armed
  <2> QED
    BY <2>2, <2>3 DEF TimerMapsSound, Armed
<1>5. PrepTimersCancellable'
  <2> SUFFICES ASSUME NEW g \in Timers, pc'[g] = "armed", work[g].to = "RUNNING"
               PROVE  prepTimers'[RoomOf(g)] = g
    BY <1>1 DEF PrepTimersCancellable, RoomOf
  <2>1. pc[g] = "armed" /\ g \notin cleared /\ prepTimers[RoomOf(g)] = g
    BY <1>3 DEF PrepTimersCancellable, Tasks
  <2>2. RoomOf(g) \in Rooms
    BY <2>1 DEF TypeInv, WorkOK, TransitionWork, RoomOf
  <2> QED
    BY <1>1, <1>2, <2>1, <2>2 DEF Deleted, TypeInv, TypeOK
<1> QED
  BY <1>4, <1>5

LEMMA NextTimers ==
    ASSUME TypeInv, PrepInv, TimerMapsSound, PrepTimersCancellable, [Next]_vars
    PROVE  TimerMapsSound' /\ PrepTimersCancellable'
<1>1. CASE UNCHANGED vars
  BY <1>1 DEF vars, timerMaps, TimerMapsSound, PrepTimersCancellable, RoomOf
<1>2. ASSUME NEW r \in Rooms, CreateRoom(r)
      PROVE  TimerMapsSound' /\ PrepTimersCancellable'
  BY <1>2 DEF CreateRoom, timerMaps, TimerMapsSound, PrepTimersCancellable, RoomOf
<1>3. ASSUME NEW t \in Tasks, RoomNotFound(t) \/ Send(t)
      PROVE  TimerMapsSound' /\ PrepTimersCancellable'
  BY <1>3, GotoTimers
  DEF RoomNotFound, Send, SendFindsRoom, SendReadsParticipants, SaveMessage, AtFindRoom,
      timerMaps
<1>4. ASSUME NEW t \in Tasks, Join(t)
      PROVE  TimerMapsSound' /\ PrepTimersCancellable'
  <2>1. CASE JoinFindsRoom(t) \/ RandomQuestion(t) \/ SetQuestion(t)
    BY <2>1, GotoTimers
    DEF JoinFindsRoom, RandomQuestion, AfterDraw, SetQuestion, AtFindRoom, timerMaps
  <2>2. CASE JoinReadsParticipants(t)
    BY <2>2, GotoTimers DEF JoinReadsParticipants, JoinDecision, timerMaps
  <2>3. CASE AddParticipant(t)
    <3>1. PICK label \in {"randomQuestion", "done", "failed"} : Goto(t, label)
      BY <2>3 DEF AddParticipant
    <3> QED
      BY <2>3, <3>1, GotoTimers DEF AddParticipant, timerMaps
  <2> QED
    BY <1>4, <2>1, <2>2, <2>3, ArmTimers DEF Join
<1>5. ASSUME NEW t \in Tasks, Transition(t)
      PROVE  TimerMapsSound' /\ PrepTimersCancellable'
  <2>1. CASE TransitionFindsRoom(t)
    <3>1. PICK label \in {"transitionState", "done", "failed"} : Goto(t, label)
      BY <2>1 DEF TransitionFindsRoom
    <3> QED
      BY <2>1, <3>1, GotoTimers DEF TransitionFindsRoom, AtFindRoom, timerMaps
  <2>2. CASE TransitionState(t)
    BY <2>2, GotoTimers DEF TransitionState, timerMaps
  <2>3. ASSUME NEW j \in JobKinds, EnqueueJob(t, j)
        PROVE  TimerMapsSound' /\ PrepTimersCancellable'
    BY <2>3, GotoTimers DEF EnqueueJob, timerMaps
  <2> QED
    BY <1>5, <2>1, <2>2, <2>3, ArmTimers, ClearTimers DEF Transition
<1>6. CASE Fault
  <2>1. ASSUME NEW t \in Tasks, AwaitRejects(t)
        PROVE  TimerMapsSound' /\ PrepTimersCancellable'
    BY <2>1, GotoTimers DEF AwaitRejects, Awaits, timerMaps
  <2>2. ASSUME NEW t \in Tasks, NEW j \in JobKinds, AddRejects(t, j)
        PROVE  TimerMapsSound' /\ PrepTimersCancellable'
    BY <2>2, GotoTimers DEF AddRejects, timerMaps
  <2>3. CASE Crash
    BY <2>3 DEF Crash, TimerMapsSound, PrepTimersCancellable, Tasks, Dormant, Settled
  <2> QED
    BY <1>6, <2>1, <2>2, <2>3 DEF Fault
<1> QED
  BY <1>1, <1>2, <1>3, <1>4, <1>5, <1>6, FireTimers DEF Next, Step, Quiescent

LEMMA TimersInvariant == Spec => [](TimerMapsSound /\ PrepTimersCancellable)
<1>1. Init => TimerMapsSound /\ PrepTimersCancellable
  BY InitTimers
<1>2. TypeInv /\ PrepInv /\ TimerMapsSound /\ PrepTimersCancellable /\ [Next]_vars
        => (TimerMapsSound /\ PrepTimersCancellable)'
  BY NextTimers
<1> QED
  BY <1>1, <1>2, TypeInvariant, PrepInvariant, PTL DEF Spec, Safety

\* clearTimeout always finds a live timer of the right room and kind in the map,
\* whatever callbacks, overwrites and crashes came before.
THEOREM TimerMapsStaySound == Spec => []TimerMapsSound
BY TimersInvariant, PTL

\* A preparation countdown that is running can always be cancelled.
THEOREM PrepTimerStaysInMap == Spec => []PrepTimersCancellable
BY TimersInvariant, PTL

-----------------------------------------------------------------------------
(* Without faults, a full room in PREPARATION is on its way to RUNNING: the *)
(* join that filled it goes on, and nothing cancels its countdown.          *)

\* The join that inserts the second seat counts two, since it had read the first;
\* and a room that left PREPARATION never comes back to it.
SeatsCounted ==
    /\ IsFiniteSet(participants)
    /\ \A t \in Tasks : pc[t] = "addParticipant" => Cardinality(seen[t]) < Cardinality(Sides)
    /\ \A t \in Tasks :
         /\ pc[t] = "transitionState" => work[t].to # "PREPARATION"
         /\ pc[t] = "committed" => state[RoomOf(t)] \notin {"ABSENT", "PREPARATION"}

Bringing(t, r) ==
    /\ RoomOf(t) = r
    /\ \/ pc[t] \in Starting
       \/ /\ pc[t] \in {"armed", "findRoom", "transitionState"}
          /\ Doing(t, "transition") /\ work[t].to = "RUNNING"

Brought(r) == \E t \in Tasks : Bringing(t, r)

FullRoomsBrought ==
    faults = 0 => \A r \in Rooms : state[r] = "PREPARATION" /\ BothSeated(r) => Brought(r)

LEMMA TwoSides == Cardinality(Sides) = 2
<1>1. IsFiniteSet({"POUR"}) /\ Cardinality({"POUR"}) = 1
  BY FS_Singleton
<1>2. Sides = {"POUR"} \cup {"CONTRE"} /\ "CONTRE" \notin {"POUR"}
  BY DEF Sides
<1> QED
  BY <1>1, <1>2, FS_AddElement

LEMMA InitCounted == ASSUME Init PROVE SeatsCounted
BY FS_EmptySet, ConstantsAssumption DEF Init, SeatsCounted, Tasks

\* Whoever takes CONTRE has read POUR and nobody else.
LEMMA ContreFills ==
    ASSUME TypeInv, PrepInv, SeatsCounted, NEW t \in Tasks, pc[t] = "addParticipant",
           FreeSide(t) = "CONTRE"
    PROVE  FillsRoom(t)
<1>1. seen[t] \subseteq participants /\ seen[t] # {}
  BY DEF PrepInv, SnapshotOK, FreeSide
<1>2. IsFiniteSet(seen[t])
  BY <1>1, FS_Subset DEF SeatsCounted
<1>3. Cardinality(seen[t]) \in Nat /\ Cardinality(seen[t]) # 0
  BY <1>1, <1>2, FS_CardinalityType, FS_EmptySet
<1> QED
  BY <1>3, TwoSides DEF SeatsCounted, FillsRoom

\* An allowed transition never leads back to PREPARATION.
LEMMA NeverBack ==
    ASSUME NEW s \in DebateStates, NEW to, isValidTransition(s, to)
    PROVE  to # "PREPARATION"
BY DEF isValidTransition, ALLOWED_TRANSITIONS, DebateStates

LEMMA NextCounted == ASSUME TypeInv, PrepInv, SeatsCounted, [Next]_vars PROVE SeatsCounted'
<1> USE DEF dbVars, locals
<1>1. IsFiniteSet(participants)'
  <2>1. \A x : IsFiniteSet(participants \cup {x})
    BY FS_AddElement DEF SeatsCounted
  <2> QED
    BY <2>1 DEF SeatsCounted, Next, vars, CreateRoom, Step, RoomNotFound, Join, JoinFindsRoom,
       JoinReadsParticipants, AddParticipant, RandomQuestion, SetQuestion,
       SchedulePrepTimer, Transition, TransitionFindsRoom, TransitionState,
       ScheduleDebateTimer, OpenVoting, EnqueueJob, CloseRoom, Send, SendFindsRoom,
       SendReadsParticipants, SaveMessage, TimerFires, Fault, AwaitRejects, AddRejects,
       Crash, Quiescent
\* Steps that change neither states, reads nor work, and bring no task to a query
\* of a transition or an insert.
<1>2. ASSUME state' = state, seen' = seen, work' = work,
             \A t \in Tasks : \/ pc'[t] = pc[t]
                              \/ pc'[t] \notin {"addParticipant", "transitionState", "committed"}
      PROVE  SeatsCounted'
  BY <1>1, <1>2 DEF SeatsCounted, RoomOf
<1>3. CASE UNCHANGED vars
  BY <1>2, <1>3 DEF vars
<1>4. ASSUME NEW r \in Rooms, CreateRoom(r) PROVE SeatsCounted'
  <2>1. \A t \in Tasks : pc[t] = "committed" => RoomOf(t) # r
    BY <1>4 DEF SeatsCounted, CreateRoom
  <2>2. \A q : q # r => state'[q] = state[q]
    BY <1>4 DEF CreateRoom, TypeInv, TypeOK
  <2> QED
    BY <1>1, <1>4, <2>1, <2>2 DEF CreateRoom, SeatsCounted, RoomOf
<1>5. ASSUME NEW t \in Tasks, RoomNotFound(t) \/ Send(t) \/ TimerFires(t)
      PROVE  SeatsCounted'
  BY <1>2, <1>5 DEF RoomNotFound, Send, SendFindsRoom, SendReadsParticipants, SaveMessage,
                    TimerFires, Goto, TypeInv, TypeOK
<1>6. ASSUME NEW t \in Tasks, Join(t) PROVE SeatsCounted'
  <2>1. CASE JoinReadsParticipants(t)
    <3>1. IsFiniteSet(Seated(RoomOf(t)))
      BY FS_Subset DEF SeatsCounted, Seated
    <3>2. Cardinality(Seated(RoomOf(t))) \in Nat
      BY <3>1, FS_CardinalityType
    <3>3. pc'[t] = "addParticipant" => Cardinality(seen'[t]) < Cardinality(Sides)
      BY <2>1, <3>2, TwoSides DEF JoinReadsParticipants, JoinDecision, Goto, TypeInv, TypeOK
    <3>4. pc'[t] \in {"addParticipant", "done", "failed"}
      BY <2>1 DEF JoinReadsParticipants, JoinDecision, Goto, TypeInv, TypeOK
    <3>5. \A x \in Tasks : x # t => pc'[x] = pc[x] /\ seen'[x] = seen[x]
      BY <2>1 DEF JoinReadsParticipants, Goto, TypeInv, TypeOK
    <3> QED
      BY <1>1, <2>1, <3>3, <3>4, <3>5 DEF JoinReadsParticipants, SeatsCounted, RoomOf
  <2>2. CASE AddParticipant(t)
    BY <1>2, <2>2 DEF AddParticipant, Goto, TypeInv, TypeOK
  <2>3. CASE JoinFindsRoom(t) \/ RandomQuestion(t) \/ SetQuestion(t)
    BY <1>2, <2>3 DEF JoinFindsRoom, RandomQuestion, AfterDraw, SetQuestion, Goto, TypeInv,
                      TypeOK
  <2>4. CASE SchedulePrepTimer(t)
    <3>1. PICK h \in Timers : Arm(t, h, "RUNNING")
      BY <2>4 DEF SchedulePrepTimer
    <3>2. \A x \in Tasks : pc'[x] \in {"addParticipant", "transitionState", "committed"}
             => pc'[x] = pc[x] /\ work'[x] = work[x]
      BY <3>1 DEF Arm, TypeInv, TypeOK
    <3> QED
      BY <1>1, <2>4, <3>2 DEF SchedulePrepTimer, SeatsCounted, RoomOf
  <2> QED
    BY <1>6, <2>1, <2>2, <2>3, <2>4 DEF Join
<1>7. ASSUME NEW t \in Tasks, Transition(t) PROVE SeatsCounted'
  <2>1. CASE TransitionFindsRoom(t)
    <3>1. work[t] \in TransitionWork
      BY <2>1 DEF TransitionFindsRoom, AtFindRoom, Doing, TypeInv, TypeOK, Work, JoinWork,
                  SendWork
    <3>2. state[RoomOf(t)] \in DebateStates
      BY <2>1, <3>1, RoomKnown DEF TransitionFindsRoom, TypeInv, TypeOK, Work
    <3>3. \/ pc'[t] \in {"done", "failed"}
          \/ pc'[t] = "transitionState" /\ work[t].to # "PREPARATION"
      BY <2>1, <3>2, NeverBack DEF TransitionFindsRoom, Goto, TypeInv, TypeOK
    <3>4. \A x \in Tasks : x # t => pc'[x] = pc[x]
      BY <2>1 DEF TransitionFindsRoom, Goto, TypeInv, TypeOK
    <3> QED
      BY <1>1, <2>1, <3>3, <3>4 DEF TransitionFindsRoom, SeatsCounted, RoomOf
  <2>2. CASE TransitionState(t)
    <3>1. /\ pc[t] = "transitionState" /\ work[t].to \in DebateStates
          /\ work[t].to # "PREPARATION" /\ RoomOf(t) \in Rooms
      BY <2>2, RoomKnown
      DEF TransitionState, TypeInv, LabelsOK, TransitionWork, SeatsCounted, Work
    <3>2. \A r \in Rooms : state'[r] = IF r = RoomOf(t) THEN work[t].to ELSE state[r]
      BY <2>2, <3>1 DEF TransitionState, TypeInv, TypeOK
    <3>3. \A x \in Tasks : pc'[x] = IF x = t THEN "committed" ELSE pc[x]
      BY <2>2 DEF TransitionState, Goto, TypeInv, TypeOK
    <3>4. \A x \in Tasks : pc[x] = "committed" => RoomOf(x) \in Rooms
      BY RoomKnown DEF TypeInv, LabelsOK, Work
    <3>5. work[t].to \notin {"ABSENT", "PREPARATION"}
      BY <3>1 DEF DebateStates
    <3> QED
      BY <1>1, <2>2, <3>1, <3>2, <3>3, <3>4, <3>5 DEF TransitionState, SeatsCounted, RoomOf
  <2>3. CASE ScheduleDebateTimer(t)
    <3>1. PICK h \in Timers : Arm(t, h, "VOTING")
      BY <2>3 DEF ScheduleDebateTimer
    <3>2. \A x \in Tasks : pc'[x] \in {"addParticipant", "transitionState", "committed"}
             => pc'[x] = pc[x] /\ work'[x] = work[x]
      BY <3>1 DEF Arm, TypeInv, TypeOK
    <3> QED
      BY <1>1, <2>3, <3>2 DEF ScheduleDebateTimer, SeatsCounted, RoomOf
  <2>4. CASE OpenVoting(t) \/ CloseRoom(t)
    BY <1>2, <2>4 DEF OpenVoting, CloseRoom, ClearAndGoto
  <2>5. ASSUME NEW j \in JobKinds, EnqueueJob(t, j) PROVE SeatsCounted'
    BY <1>2, <2>5 DEF EnqueueJob, Goto, TypeInv, TypeOK
  <2> QED
    BY <1>7, <2>1, <2>2, <2>3, <2>4, <2>5 DEF Transition
<1>8. CASE Fault
  BY <1>2, <1>8 DEF Fault, AwaitRejects, AddRejects, Crash, Goto, TypeInv, TypeOK
<1> QED
  BY <1>3, <1>4, <1>5, <1>6, <1>7, <1>8 DEF Next, Step, Quiescent

\* Rows of participants, and joins past their first query, are of rooms that exist.
RowsHaveRooms ==
    /\ \A p \in participants : state[p.room] # "ABSENT"
    /\ \A t \in Tasks : pc[t] \in {"getParticipants", "addParticipant"}
                            => state[RoomOf(t)] # "ABSENT"

LEMMA InitRows == ASSUME Init PROVE RowsHaveRooms
BY ConstantsAssumption DEF Init, RowsHaveRooms, Tasks

LEMMA NeverAbsent ==
    ASSUME TypeInv, [Next]_vars, NEW r \in Rooms, state[r] # "ABSENT"
    PROVE  state'[r] # "ABSENT"
<1>1. ASSUME NEW q \in Rooms, CreateRoom(q) PROVE state'[r] # "ABSENT"
  BY <1>1 DEF CreateRoom, DefaultState, TypeInv, TypeOK
<1>2. ASSUME NEW t \in Tasks, TransitionState(t) PROVE state'[r] # "ABSENT"
  <2>1. work[t].to # "ABSENT"
    BY <1>2 DEF TransitionState, TypeInv, LabelsOK, TransitionWork, DebateStates
  <2> QED
    BY <1>2, <2>1 DEF TransitionState, TypeInv, TypeOK
<1> QED
  BY <1>1, <1>2
  DEF Next, vars, dbVars, Step, RoomNotFound, Join, JoinFindsRoom, JoinReadsParticipants,
      AddParticipant, RandomQuestion, SetQuestion, SchedulePrepTimer, Transition,
      TransitionFindsRoom, ScheduleDebateTimer, OpenVoting, EnqueueJob, CloseRoom, Send,
      SendFindsRoom, SendReadsParticipants, SaveMessage, TimerFires, Fault, AwaitRejects,
      AddRejects, Crash, Quiescent

LEMMA NextRows ==
    ASSUME TypeInv, RowsHaveRooms, [Next]_vars
    PROVE  RowsHaveRooms'
<1> USE DEF dbVars, locals
<1>1. \A t \in Tasks : pc[t] \in {"getParticipants", "addParticipant"} => RoomOf(t) \in Rooms
  BY RoomKnown DEF TypeInv, LabelsOK, Work
<1>2. \A p \in participants : p.room \in Rooms
  BY DEF TypeInv, TypeOK, Participants
\* A step that adds no row and brings no task past its first query.
<1>3. ASSUME participants' = participants,
             \A t \in Tasks : pc'[t] \in {"getParticipants", "addParticipant"}
                => /\ pc[t] \in {"getParticipants", "addParticipant"}
                   /\ work'[t] = work[t]
      PROVE  RowsHaveRooms'
  BY <1>1, <1>2, <1>3, NeverAbsent DEF RowsHaveRooms, RoomOf
<1>4. CASE UNCHANGED vars
  BY <1>3, <1>4 DEF vars
<1>5. ASSUME NEW r \in Rooms, CreateRoom(r) PROVE RowsHaveRooms'
  BY <1>3, <1>5 DEF CreateRoom
<1>6. ASSUME NEW t \in Tasks, AddParticipant(t) PROVE RowsHaveRooms'
  <2>1. /\ \A p \in participants' : p \in participants \/ p.room = RoomOf(t)
        /\ pc[t] = "addParticipant" /\ work' = work
        /\ \A x \in Tasks : pc'[x] \in {"getParticipants", "addParticipant"} => pc'[x] = pc[x]
    BY <1>6 DEF AddParticipant, Goto, TypeInv, TypeOK
  <2> QED
    BY <1>1, <1>2, <2>1, NeverAbsent DEF RowsHaveRooms, RoomOf
<1>7. ASSUME NEW t \in Tasks, JoinFindsRoom(t) \/ SendFindsRoom(t) PROVE RowsHaveRooms'
  <2>1. /\ participants' = participants /\ work' = work /\ state' = state
        /\ state[RoomOf(t)] # "ABSENT"
        /\ \A x \in Tasks : x # t => pc'[x] = pc[x]
    BY <1>7 DEF JoinFindsRoom, SendFindsRoom, Goto, TypeInv, TypeOK
  <2> QED
    BY <2>1 DEF RowsHaveRooms, RoomOf
<1>8. ASSUME NEW t \in Tasks, SchedulePrepTimer(t) \/ ScheduleDebateTimer(t)
      PROVE  RowsHaveRooms'
  <2>1. PICK h \in Timers, to \in {"RUNNING", "VOTING"} : Arm(t, h, to)
    BY <1>8 DEF SchedulePrepTimer, ScheduleDebateTimer
  <2>2. \A x \in Tasks : pc'[x] \in {"getParticipants", "addParticipant"}
           => pc'[x] = pc[x] /\ work'[x] = work[x]
    BY <2>1 DEF Arm, TypeInv, TypeOK
  <2> QED
    BY <1>3, <1>8, <2>2 DEF SchedulePrepTimer, ScheduleDebateTimer
<1>9. ASSUME NEW t \in Tasks,
             \/ RoomNotFound(t) \/ JoinReadsParticipants(t) \/ RandomQuestion(t)
             \/ SetQuestion(t) \/ TransitionFindsRoom(t) \/ TransitionState(t)
             \/ OpenVoting(t) \/ CloseRoom(t) \/ SendReadsParticipants(t)
             \/ SaveMessage(t) \/ TimerFires(t)
             \/ \E j \in JobKinds : EnqueueJob(t, j)
      PROVE  RowsHaveRooms'
  BY <1>3, <1>9
  DEF RoomNotFound, JoinReadsParticipants, JoinDecision, RandomQuestion, AfterDraw,
      SetQuestion, TransitionFindsRoom, TransitionState, OpenVoting, CloseRoom, ClearAndGoto,
      EnqueueJob, SendReadsParticipants, SaveMessage, TimerFires, Goto, TypeInv, TypeOK
<1>10. CASE Fault
  BY <1>3, <1>10 DEF Fault, AwaitRejects, AddRejects, Crash, Goto, TypeInv, TypeOK
<1> QED
  BY <1>4, <1>5, <1>6, <1>7, <1>8, <1>9, <1>10
  DEF Next, Step, Join, Transition, Send, Quiescent

LEMMA InitBrought == ASSUME Init PROVE FullRoomsBrought
BY DEF Init, FullRoomsBrought

\* A step that seats nobody and leaves every task that brings a room that stays in
\* PREPARATION bringing it.
LEMMA StillBringing ==
    ASSUME FullRoomsBrought, participants' = participants, faults' = faults,
           \A r \in Rooms : state'[r] = "PREPARATION" => state[r] = "PREPARATION",
           \A r \in Rooms, t \in Tasks :
              /\ state[r] = "PREPARATION" /\ state'[r] = "PREPARATION" /\ Bringing(t, r)
              => (Bringing(t, r))'
    PROVE  FullRoomsBrought'
BY DEF FullRoomsBrought, Brought, BothSeated, Seated

\* A step of a task that brings no room, and stays what it is but for its label.
LEMMA OtherStep ==
    ASSUME TypeInv, FullRoomsBrought, participants' = participants, faults' = faults,
           state' = state, work' = work, NEW t \in Tasks, NEW label, Goto(t, label),
           \A r \in Rooms : state[r] = "PREPARATION" /\ Bringing(t, r)
                               => label \in {"armed", "findRoom", "transitionState"} \cup Starting
                                  /\ (label \in Starting \/ pc[t] \notin Starting)
    PROVE  FullRoomsBrought'
<1>1. \A r \in Rooms, x \in Tasks :
         state[r] = "PREPARATION" /\ Bringing(x, r) => (Bringing(x, r))'
  BY DEF Goto, TypeInv, TypeOK, Bringing, RoomOf, Doing
<1> QED
  BY <1>1, StillBringing

\* The join that takes the second seat goes on; one that takes the first fills no room.
LEMMA InsertBrings ==
    ASSUME TypeInv, PrepInv, SeatsCounted, FullRoomsBrought, NEW t \in Tasks,
           AddParticipant(t)
    PROVE  FullRoomsBrought'
<1> DEFINE row == [room |-> RoomOf(t), user |-> work[t].user, side |-> FreeSide(t)]
<1>1. /\ pc[t] = "addParticipant" /\ state' = state /\ work' = work /\ faults' = faults
      /\ \A x \in Tasks : x # t => pc'[x] = pc[x]
  BY DEF AddParticipant, dbVars, locals, Goto, TypeInv, TypeOK
<1>2. \A r \in Rooms, x \in Tasks : Bringing(x, r) => x # t /\ (Bringing(x, r))'
  BY <1>1 DEF Bringing, Starting, RoomOf, Doing
<1>3. CASE ~InsertAllowed(row)
  BY <1>1, <1>2, <1>3, StillBringing DEF AddParticipant
<1>4. CASE InsertAllowed(row)
  <2>1. /\ participants' = participants \cup {row}
        /\ Goto(t, IF FillsRoom(t) THEN "randomQuestion" ELSE "done")
    BY <1>4 DEF AddParticipant
  <2> SUFFICES ASSUME faults' = 0, NEW r \in Rooms, state[r] = "PREPARATION",
                      (BothSeated(r))'
               PROVE  (Brought(r))'
    BY <1>1 DEF FullRoomsBrought
  <2>2. CASE BothSeated(r)
    BY <1>1, <1>2, <2>2 DEF FullRoomsBrought, Brought
  <2>3. CASE ~BothSeated(r)
    <3>1. r = RoomOf(t)
      BY <2>1, <2>3 DEF BothSeated, Seated
    <3>2. FreeSide(t) = "CONTRE"
      <4>1. PICK p \in participants' : p.room = r /\ p.side = "CONTRE"
        BY DEF BothSeated, Seated, Sides
      <4>2. CASE p \in participants
        <5>1. Taken(r, "POUR")
          BY <4>1, <4>2 DEF PrepInv, SeatOrder
        <5> QED
          BY <1>4, <3>1, <5>1 DEF InsertAllowed, Seated, Taken, FreeSide
      <4> QED
        BY <2>1, <4>1, <4>2
    <3>3. FillsRoom(t)
      BY <1>1, <3>2, ContreFills
    <3>4. (Bringing(t, r))'
      BY <1>1, <2>1, <3>1, <3>3 DEF Bringing, Starting, RoomOf, Goto, TypeInv, TypeOK
    <3> QED
      BY <3>4 DEF Brought
  <2> QED
    BY <2>2, <2>3
<1> QED
  BY <1>3, <1>4

\* Arming the countdown hands the room over from the join to the timer.
LEMMA ArmBrings ==
    ASSUME TypeInv, FullRoomsBrought, NEW t \in Tasks,
           SchedulePrepTimer(t) \/ ScheduleDebateTimer(t)
    PROVE  FullRoomsBrought'
<1>1. PICK h \in Timers, to \in {"RUNNING", "VOTING"} :
        /\ Arm(t, h, to)
        /\ \/ pc[t] = "schedulePrep" /\ to = "RUNNING"
           \/ pc[t] = "committed"
  BY DEF SchedulePrepTimer, ScheduleDebateTimer
<1>2. UNCHANGED <<state, participants, faults>>
  BY DEF SchedulePrepTimer, ScheduleDebateTimer, dbVars, locals
<1>3. /\ h \in Tasks /\ h # t /\ pc[h] = "unset" /\ pc'[h] = "armed"
      /\ work'[h] = [op |-> "transition", room |-> RoomOf(t), to |-> to]
      /\ \A x \in Tasks : x # t /\ x # h => pc'[x] = pc[x] /\ work'[x] = work[x]
  BY <1>1 DEF Arm, TypeInv, TypeOK, Tasks
<1>4. work'[h] # None
  <2>1. RoomOf(t) \in Rooms
    BY <1>1, RoomKnown DEF TypeInv, LabelsOK, Work
  <2>2. work'[h] \in TransitionWork
    BY <1>3, <2>1 DEF TransitionWork, DebateStates
  <2> QED
    BY <2>2, ConstantsAssumption DEF Work
<1>5. ASSUME NEW r \in Rooms, Brought(r) PROVE (Brought(r))'
  <2>1. PICK x \in Tasks : Bringing(x, r)
    BY <1>5 DEF Brought
  <2>2. CASE x = t
    <3>1. RoomOf(t) = r /\ to = "RUNNING"
      BY <1>1, <2>1, <2>2 DEF Bringing, Starting
    <3>2. (Bringing(h, r))'
      BY <1>3, <1>4, <3>1 DEF Bringing, RoomOf, Doing
    <3> QED
      BY <1>3, <3>2 DEF Brought
  <2>3. CASE x # t
    <3>1. x # h
      BY <1>3, <2>1 DEF Bringing, Starting
    <3>2. (Bringing(x, r))'
      BY <1>3, <2>1, <2>3, <3>1 DEF Bringing, RoomOf, Doing
    <3> QED
      BY <3>2 DEF Brought
  <2> QED
    BY <2>2, <2>3
<1> QED
  BY <1>2, <1>5 DEF FullRoomsBrought, BothSeated, Seated

LEMMA TransitionBrings ==
    ASSUME TypeInv, TimerMapsSound, SeatsCounted, FullRoomsBrought, NEW t \in Tasks,
           Transition(t)
    PROVE  FullRoomsBrought'
<1> USE DEF dbVars, locals
<1>1. CASE TransitionFindsRoom(t)
  <2>1. PICK label : Goto(t, label)
    BY <1>1 DEF TransitionFindsRoom
  <2>2. \A r \in Rooms : state[r] = "PREPARATION" /\ Bringing(t, r) => Goto(t, "transitionState")
    BY <1>1 DEF TransitionFindsRoom, AtFindRoom, Bringing, Starting, isValidTransition,
                ALLOWED_TRANSITIONS
  <2>3. \A r \in Rooms, x \in Tasks :
           state[r] = "PREPARATION" /\ Bringing(x, r) => (Bringing(x, r))'
    BY <1>1, <2>1, <2>2
    DEF TransitionFindsRoom, AtFindRoom, Goto, TypeInv, TypeOK, Bringing, Starting, RoomOf, Doing
  <2> QED
    BY <1>1, <2>3, StillBringing DEF TransitionFindsRoom
<1>2. CASE TransitionState(t)
  <2>1. /\ pc[t] = "transitionState" /\ RoomOf(t) \in Rooms /\ work[t].to # "PREPARATION"
    BY <1>2, RoomKnown DEF TransitionState, TypeInv, LabelsOK, SeatsCounted, Work
  <2>2. /\ state'[RoomOf(t)] # "PREPARATION"
        /\ \A r \in Rooms : r # RoomOf(t) => state'[r] = state[r]
        /\ \A x \in Tasks : x # t => pc'[x] = pc[x]
    BY <1>2, <2>1 DEF TransitionState, Goto, TypeInv, TypeOK
  <2>3. \A r \in Rooms, x \in Tasks :
           state'[r] = "PREPARATION" /\ Bringing(x, r) => (Bringing(x, r))'
    BY <1>2, <2>2 DEF TransitionState, Bringing, RoomOf, Doing
  <2> QED
    BY <1>2, <2>2, <2>3, StillBringing DEF TransitionState
<1>3. CASE OpenVoting(t) \/ CloseRoom(t)
  <2>1. /\ pc[t] = "committed" /\ RoomOf(t) \in Rooms
        /\ state[RoomOf(t)] # "PREPARATION"
    BY <1>3, RoomKnown DEF OpenVoting, CloseRoom, TypeInv, LabelsOK, SeatsCounted, Work
  <2>2. PICK cleared \in SUBSET {prepTimers[RoomOf(t)], debateTimers[RoomOf(t)]},
             label \in {"enqueue", "done"} : ClearAndGoto(cleared, t, label)
    BY <1>3 DEF OpenVoting, CloseRoom
  <2>3. ASSUME NEW x \in Tasks, x \in cleared, pc[x] = "armed" PROVE RoomOf(x) = RoomOf(t)
    <3>1. x \in Timers /\ x # None
      BY <2>3, ConstantsAssumption DEF Tasks, TypeInv, WorkOK
    <3> QED
      BY <2>1, <2>2, <2>3, <3>1, Entries
  <2>4. \A r \in Rooms, x \in Tasks :
           state[r] = "PREPARATION" /\ Bringing(x, r)
              => x # t /\ (x \notin cleared \/ pc[x] # "armed")
    BY <2>1, <2>3 DEF Bringing, Starting
  <2>5. \A x \in Tasks : x # t /\ (x \notin cleared \/ pc[x] # "armed") => pc'[x] = pc[x]
    BY <2>2 DEF ClearAndGoto
  <2>6. \A r \in Rooms, x \in Tasks :
           state[r] = "PREPARATION" /\ Bringing(x, r) => (Bringing(x, r))'
    BY <1>3, <2>4, <2>5 DEF OpenVoting, CloseRoom, Bringing, RoomOf, Doing
  <2> QED
    BY <1>3, <2>6, StillBringing DEF OpenVoting, CloseRoom
<1>4. ASSUME NEW j \in JobKinds, EnqueueJob(t, j) PROVE FullRoomsBrought'
  BY <1>4, OtherStep DEF EnqueueJob, Bringing, Starting
<1> QED
  BY <1>1, <1>2, <1>3, <1>4, ArmBrings DEF Transition

LEMMA NextBrought ==
    ASSUME TypeInv, PrepInv, TimerMapsSound, SeatsCounted, RowsHaveRooms,
           FullRoomsBrought, [Next]_vars
    PROVE  FullRoomsBrought'
<1> USE DEF dbVars, locals
<1>1. CASE UNCHANGED vars
  BY <1>1 DEF vars, FullRoomsBrought, Brought, Bringing, BothSeated, Seated, RoomOf, Doing
<1>2. ASSUME NEW r \in Rooms, CreateRoom(r) PROVE FullRoomsBrought'
  <2>1. ~BothSeated(r)
    BY <1>2 DEF CreateRoom, RowsHaveRooms, BothSeated, Seated, Sides
  <2>2. UNCHANGED <<participants, pc, work, faults>>
    BY <1>2 DEF CreateRoom
  <2>3. \A q \in Rooms : q # r => state'[q] = state[q]
    BY <1>2 DEF CreateRoom, TypeInv, TypeOK
  <2> QED
    BY <2>1, <2>2, <2>3
    DEF FullRoomsBrought, Brought, Bringing, BothSeated, Seated, RoomOf, Doing
<1>3. ASSUME NEW t \in Tasks, RoomNotFound(t) PROVE FullRoomsBrought'
  BY <1>3, OtherStep DEF RoomNotFound, Bringing
<1>4. ASSUME NEW t \in Tasks, Send(t) PROVE FullRoomsBrought'
  <2>1. \A r \in Rooms : ~Bringing(t, r)
    BY <1>4 DEF Send, SendFindsRoom, SendReadsParticipants, SaveMessage, AtFindRoom,
                Bringing, Starting, Doing
  <2>2. \E label : Goto(t, label)
    BY <1>4 DEF Send, SendFindsRoom, SendReadsParticipants, SaveMessage
  <2>3. UNCHANGED <<state, participants, work, faults>>
    BY <1>4 DEF Send, SendFindsRoom, SendReadsParticipants, SaveMessage
  <2> QED
    BY <2>1, <2>2, <2>3, OtherStep
<1>5. ASSUME NEW t \in Tasks, Join(t) PROVE FullRoomsBrought'
  <2>1. CASE JoinFindsRoom(t) \/ JoinReadsParticipants(t)
    <3>1. \A r \in Rooms : ~Bringing(t, r)
      BY <2>1 DEF JoinFindsRoom, JoinReadsParticipants, AtFindRoom, Bringing, Starting, Doing
    <3>2. \E label : Goto(t, label)
      BY <2>1 DEF JoinFindsRoom, JoinReadsParticipants
    <3>3. UNCHANGED <<state, participants, work, faults>>
      BY <2>1 DEF JoinFindsRoom, JoinReadsParticipants
    <3> QED
      BY <3>1, <3>2, <3>3, OtherStep
  <2>2. CASE RandomQuestion(t) \/ SetQuestion(t)
    <3>1. PICK label \in Starting : Goto(t, label)
      BY <2>2 DEF RandomQuestion, AfterDraw, SetQuestion, Starting
    <3>2. UNCHANGED <<state, participants, work, faults>>
      BY <2>2 DEF RandomQuestion, SetQuestion
    <3> QED
      BY <3>1, <3>2, OtherStep
  <2> QED
    BY <1>5, <2>1, <2>2, InsertBrings, ArmBrings DEF Join
<1>6. ASSUME NEW t \in Tasks, TimerFires(t) PROVE FullRoomsBrought'
  BY <1>6, OtherStep DEF TimerFires, Starting
<1>7. CASE Fault
  <2>1. faults' # 0
    BY <1>7, ConstantsAssumption DEF Fault, AwaitRejects, AddRejects, Crash, TypeInv, TypeOK
  <2> QED
    BY <2>1 DEF FullRoomsBrought
<1> QED
  BY <1>1, <1>2, <1>3, <1>4, <1>5, <1>6, <1>7, TransitionBrings DEF Next, Step, Quiescent

\* The last of two seats taken always leads to a start: whatever requests race,
\* a full room in PREPARATION has someone on the way to RUNNING, unless a query
\* or a queue call was rejected or the process died.
THEOREM FullRoomsNotForgotten == Spec => []FullRoomNeverStranded
<1>1. Init => SeatsCounted /\ RowsHaveRooms /\ FullRoomsBrought
  BY InitCounted, InitRows, InitBrought
<1>2. /\ TypeInv /\ PrepInv /\ TimerMapsSound /\ [Next]_vars
      /\ SeatsCounted /\ RowsHaveRooms /\ FullRoomsBrought
      => (SeatsCounted /\ RowsHaveRooms /\ FullRoomsBrought)'
  BY NextCounted, NextRows, NextBrought
<1>3. FullRoomsBrought => FullRoomNeverStranded
  BY DEF FullRoomsBrought, FullRoomNeverStranded, Brought, Bringing, Heading, Starting
<1> QED
  BY <1>1, <1>2, <1>3, TypeInvariant, PrepInvariant, TimerMapsStaySound, PTL DEF Spec, Safety

-----------------------------------------------------------------------------
(* The jobs: every opened vote is followed by one of each kind, unless an  *)
(* add still waits or something went wrong.                                *)

Openings(r) == {i \in DOMAIN history[r] : history[r][i].to = "VOTING"}

PendingInv == \A t \in Tasks : pending[t] # {} => pc[t] = "enqueue"

Accounted(r, j) ==
    /\ IsFiniteSet(AboutToAdd(r, j)) /\ IsFiniteSet(Openings(r))
    /\ jobs[r][j] + Cardinality(AboutToAdd(r, j)) <= Cardinality(Openings(r))
    /\ faults = 0 =>
          jobs[r][j] + Cardinality(AboutToAdd(r, j)) = Cardinality(Openings(r))

AllAccounted == \A r \in Rooms, j \in JobKinds : Accounted(r, j)

LEMMA InitJobs == ASSUME Init PROVE PendingInv /\ AllAccounted
<1>1. \A r \in Rooms, j \in JobKinds : AboutToAdd(r, j) = {}
  BY DEF Init, AboutToAdd, Tasks
<1>2. ASSUME NEW r \in Rooms PROVE Openings(r) = {}
  <2>1. history[r] = << >>
    BY DEF Init
  <2> QED
    BY <2>1 DEF Openings
<1>3. /\ PendingInv
      /\ \A r \in Rooms, j \in JobKinds : jobs[r][j] = 0
  BY DEF Init, PendingInv
<1>4. ASSUME NEW r \in Rooms, NEW j \in JobKinds PROVE Accounted(r, j)
  <2>1. Cardinality(AboutToAdd(r, j)) = 0 /\ IsFiniteSet(AboutToAdd(r, j))
    BY <1>1, FS_EmptySet
  <2>2. Cardinality(Openings(r)) = 0 /\ IsFiniteSet(Openings(r))
    BY <1>2, FS_EmptySet
  <2> QED
    BY <1>3, <2>1, <2>2 DEF Accounted
<1> QED
  BY <1>3, <1>4 DEF AllAccounted

\* Task t is about to add nothing new, and no longer about to add something.
Keeps(t) ==
    \A r \in Rooms, j \in JobKinds : t \in AboutToAdd(r, j)' => t \in AboutToAdd(r, j)
Loses(t) ==
    \E r \in Rooms, j \in JobKinds : t \in AboutToAdd(r, j) /\ t \notin AboutToAdd(r, j)'

\* A step that neither opens a vote nor adds a job; only a fault loses an add.
LEMMA KeepAccounted ==
    ASSUME AllAccounted, TypeInv, history' = history, jobs' = jobs,
           \A t \in Tasks : Keeps(t),
           faults' = 0 => faults = 0 /\ \A t \in Tasks : ~Loses(t)
    PROVE  AllAccounted'
<1> SUFFICES ASSUME NEW r \in Rooms, NEW j \in JobKinds PROVE Accounted(r, j)'
  BY DEF AllAccounted
<1> DEFINE old == AboutToAdd(r, j)
           new == AboutToAdd(r, j)'
           opened == Openings(r)
<1>1. old \subseteq Tasks /\ new \subseteq Tasks
  BY DEF AboutToAdd
<1>2. new \subseteq old
  BY <1>1 DEF Keeps
<1>3. faults' = 0 => new = old
  BY <1>1, <1>2 DEF Loses
<1>4. Openings(r)' = opened
  BY DEF Openings
<1>5. Accounted(r, j) /\ jobs[r][j] \in Nat
  BY DEF AllAccounted, TypeInv, TypeOK
<1>6. IsFiniteSet(old) /\ IsFiniteSet(opened)
  BY <1>5 DEF Accounted
<1> HIDE DEF old, new, opened
<1>7. IsFiniteSet(new) /\ Cardinality(new) <= Cardinality(old)
  BY <1>2, <1>6, FS_Subset
<1>8. Cardinality(new) \in Nat /\ Cardinality(old) \in Nat /\ Cardinality(opened) \in Nat
  BY <1>6, <1>7, FS_CardinalityType
<1>9. /\ jobs[r][j] + Cardinality(old) <= Cardinality(opened)
      /\ faults = 0 => jobs[r][j] + Cardinality(old) = Cardinality(opened)
  BY <1>5 DEF Accounted, old, opened
<1>10. /\ jobs'[r][j] = jobs[r][j]
       /\ jobs[r][j] + Cardinality(new) <= Cardinality(opened)
       /\ faults' = 0 => jobs[r][j] + Cardinality(new) = Cardinality(opened)
  BY <1>3, <1>5, <1>7, <1>8, <1>9
<1> QED
  BY <1>4, <1>6, <1>7, <1>10 DEF Accounted, new, opened

\* The vote of a room is opened, and one task more is about to add its jobs.
LEMMA OpenAccounted ==
    ASSUME TypeInv, PendingInv, AllAccounted, NEW t \in Tasks, TransitionState(t)
    PROVE  AllAccounted'
<1>1. PICK q : q = RoomOf(t)
  OBVIOUS
<1>2. PICK entry : entry = [from |-> from[t], to |-> work[t].to]
  OBVIOUS
<1>3. /\ q \in Rooms /\ work[t] # None /\ work' = work /\ jobs' = jobs /\ pending' = pending
      /\ faults' = faults /\ pending[t] = {} /\ pc[t] = "transitionState"
      /\ pc' = [pc EXCEPT ![t] = "committed"]
      /\ history' = [history EXCEPT ![q] = Append(history[q], entry)]
      /\ entry \in [from : DebateStates, to : DebateStates] /\ entry.to = work[t].to
  <2>1. work[t] \in TransitionWork /\ work[t] # None
    BY ConstantsAssumption DEF TransitionState, TypeInv, LabelsOK, Work
  <2>2. work[t] \in Work
    BY <2>1 DEF Work
  <2>3. q \in Rooms
    BY <1>1, <2>2, RoomKnown
  <2>4. from[t] \in DebateStates /\ work[t].to \in DebateStates
    BY <2>1 DEF TypeInv, TypeOK, TransitionWork
  <2>5. pending[t] = {}
    BY DEF TransitionState, PendingInv
  <2> QED
    BY <1>1, <1>2, <2>1, <2>3, <2>4, <2>5 DEF TransitionState, Goto, locals
<1> SUFFICES ASSUME NEW r \in Rooms, NEW j \in JobKinds PROVE Accounted(r, j)'
  BY DEF AllAccounted
<1>4. \A x \in Tasks : pc'[x] = IF x = t THEN "committed" ELSE pc[x]
  BY <1>3 DEF TypeInv, TypeOK
<1>5. Accounted(r, j) /\ jobs[r][j] \in Nat
  BY DEF AllAccounted, TypeInv, TypeOK
<1>6. CASE r = q /\ entry.to = "VOTING"
  <2> DEFINE old == AboutToAdd(r, j)
             opened == Openings(r)
             i == Len(history[r]) + 1
  <2>1. t \notin old /\ AboutToAdd(r, j)' = old \cup {t}
    BY <1>1, <1>3, <1>4, <1>6 DEF AboutToAdd, RoomOf
  <2>2. /\ history[r] \in Seq([from : DebateStates, to : DebateStates])
        /\ history'[r] = Append(history[r], entry)
    BY <1>3, <1>6 DEF TypeInv, TypeOK
  <2>3. i \notin opened /\ Openings(r)' = opened \cup {i}
    BY <1>3, <1>6, <2>2 DEF Openings
  <2>4. IsFiniteSet(old) /\ IsFiniteSet(opened)
    BY <1>5 DEF Accounted
  <2>5. /\ jobs[r][j] + Cardinality(old) <= Cardinality(opened)
        /\ faults = 0 => jobs[r][j] + Cardinality(old) = Cardinality(opened)
    BY <1>5 DEF Accounted
  <2> HIDE DEF old, opened, i
  <2>6. /\ IsFiniteSet(old \cup {t}) /\ Cardinality(old \cup {t}) = Cardinality(old) + 1
        /\ IsFiniteSet(opened \cup {i}) /\ Cardinality(opened \cup {i}) = Cardinality(opened) + 1
    BY <2>1, <2>3, <2>4, FS_AddElement
  <2>7. Cardinality(old) \in Nat /\ Cardinality(opened) \in Nat
    BY <2>4, FS_CardinalityType
  <2>8. /\ jobs[r][j] + Cardinality(old \cup {t}) <= Cardinality(opened \cup {i})
        /\ faults = 0 => jobs[r][j] + Cardinality(old \cup {t}) = Cardinality(opened \cup {i})
    BY <1>5, <2>5, <2>6, <2>7
  <2> QED
    BY <1>3, <2>1, <2>3, <2>6, <2>8 DEF Accounted
<1>7. CASE r # q \/ entry.to # "VOTING"
  <2>1. AboutToAdd(r, j)' = AboutToAdd(r, j)
    BY <1>1, <1>3, <1>4, <1>7 DEF AboutToAdd, RoomOf
  <2>2. Openings(r)' = Openings(r)
    <3>1. CASE r # q
      BY <1>3, <3>1 DEF Openings, TypeInv, TypeOK
    <3>2. CASE r = q /\ entry.to # "VOTING"
      <4>1. /\ history[r] \in Seq([from : DebateStates, to : DebateStates])
            /\ history'[r] = Append(history[r], entry)
        BY <1>3, <3>2 DEF TypeInv, TypeOK
      <4> QED
        BY <1>3, <3>2, <4>1 DEF Openings
    <3> QED
      BY <1>7, <3>1, <3>2
  <2> QED
    BY <1>3, <1>5, <2>1, <2>2 DEF Accounted
<1> QED
  BY <1>6, <1>7

\* A job is added by a task that was about to; a rejected add is one less.
LEMMA AddAccounted ==
    ASSUME TypeInv, PendingInv, AllAccounted, NEW t \in Tasks, NEW k \in JobKinds,
           EnqueueJob(t, k) \/ AddRejects(t, k)
    PROVE  AllAccounted'
<1>1. PICK q : q = RoomOf(t)
  OBVIOUS
<1>2. /\ q \in Rooms /\ work[t] # None
  <2>1. pc[t] = "enqueue" /\ work[t] \in TransitionWork
    BY DEF EnqueueJob, AddRejects, TypeInv, LabelsOK
  <2>2. work[t] \in Work
    BY <2>1 DEF Work
  <2> QED
    BY <1>1, <2>2, RoomKnown, ConstantsAssumption
<1>3. /\ work' = work /\ history' = history /\ k \in pending[t] /\ pc[t] = "enqueue"
      /\ \A x \in Tasks : x # t => pc'[x] = pc[x] /\ pending'[x] = pending[x]
      /\ pending'[t] = pending[t] \ {k} /\ pc'[t] # "committed"
  BY DEF EnqueueJob, AddRejects, StillPending, Goto, TypeInv, TypeOK, dbVars
<1>4. \/ faults' = faults + 1 /\ jobs' = jobs
      \/ faults' = faults /\ jobs' = [jobs EXCEPT ![q][k] = jobs[q][k] + 1]
  BY <1>1 DEF EnqueueJob, AddRejects
<1>5. faults \in Nat
  BY ConstantsAssumption DEF TypeInv, TypeOK
<1> SUFFICES ASSUME NEW r \in Rooms, NEW j \in JobKinds PROVE Accounted(r, j)'
  BY DEF AllAccounted
<1> DEFINE old == AboutToAdd(r, j)
           opened == Openings(r)
<1>6. Accounted(r, j) /\ jobs[r][j] \in Nat
  BY DEF AllAccounted, TypeInv, TypeOK
<1>7. IsFiniteSet(old) /\ IsFiniteSet(opened) /\ Openings(r)' = opened
  BY <1>3, <1>6 DEF Accounted, Openings
<1>8. /\ jobs[r][j] + Cardinality(old) <= Cardinality(opened)
      /\ faults = 0 => jobs[r][j] + Cardinality(old) = Cardinality(opened)
  BY <1>6 DEF Accounted
<1>9. CASE r = q /\ j = k
  <2>1. t \in old /\ AboutToAdd(r, j)' = old \ {t}
    BY <1>1, <1>2, <1>3, <1>9 DEF AboutToAdd, RoomOf
  <2> HIDE DEF old, opened
  <2>2. /\ IsFiniteSet(old \ {t}) /\ Cardinality(old \ {t}) = Cardinality(old) - 1
        /\ Cardinality(old) \in Nat /\ Cardinality(opened) \in Nat
    BY <1>7, <2>1, FS_RemoveElement, FS_CardinalityType
  <2>3. \/ faults' # 0 /\ jobs'[r][j] = jobs[r][j]
        \/ faults' = faults /\ jobs'[r][j] = jobs[r][j] + 1
    BY <1>4, <1>5, <1>9 DEF TypeInv, TypeOK
  <2>4. /\ jobs'[r][j] + Cardinality(old \ {t}) <= Cardinality(opened)
        /\ faults' = 0 => jobs'[r][j] + Cardinality(old \ {t}) = Cardinality(opened)
    BY <1>6, <1>8, <2>2, <2>3
  <2> QED
    BY <1>7, <2>1, <2>2, <2>4 DEF Accounted
<1>10. CASE r # q \/ j # k
  <2>1. AboutToAdd(r, j)' = old
    BY <1>1, <1>2, <1>3, <1>10 DEF AboutToAdd, RoomOf
  <2>2. jobs'[r][j] = jobs[r][j]
    BY <1>2, <1>4, <1>10 DEF TypeInv, TypeOK
  <2>3. faults' = 0 => faults = 0
    BY <1>4, <1>5
  <2> QED
    BY <1>7, <1>8, <2>1, <2>2, <2>3 DEF Accounted
<1> QED
  BY <1>9, <1>10

LEMMA NextAccounted ==
    ASSUME TypeInv, PendingInv, AllAccounted, [Next]_vars
    PROVE  PendingInv' /\ AllAccounted'
<1> USE DEF dbVars, locals
\* One task moves on, and was not about to add anything.
<1>1. ASSUME UNCHANGED <<history, jobs, pending, faults, work>>,
             NEW t \in Tasks, NEW label, Goto(t, label),
             label # "committed", pc[t] \notin {"committed", "enqueue"}
      PROVE  PendingInv' /\ AllAccounted'
  <2>1. \A x \in Tasks : IF x = t THEN pc'[x] = label ELSE pc'[x] = pc[x]
    BY <1>1 DEF Goto, TypeInv, TypeOK
  <2>2. PendingInv'
    BY <1>1, <2>1 DEF PendingInv
  <2>3. \A x \in Tasks : Keeps(x) /\ ~Loses(x)
    BY <1>1, <2>1 DEF Keeps, Loses, AboutToAdd, RoomOf
  <2> QED
    BY <1>1, <2>2, <2>3, KeepAccounted
<1>2. CASE UNCHANGED vars
  <2>1. \A x \in Tasks : Keeps(x) /\ ~Loses(x)
    BY <1>2 DEF vars, Keeps, Loses, AboutToAdd, RoomOf
  <2> QED
    BY <1>2, <2>1, KeepAccounted DEF vars, PendingInv
<1>3. ASSUME NEW r \in Rooms, CreateRoom(r) PROVE PendingInv' /\ AllAccounted'
  <2>1. \A x \in Tasks : Keeps(x) /\ ~Loses(x)
    BY <1>3 DEF CreateRoom, Keeps, Loses, AboutToAdd, RoomOf
  <2> QED
    BY <1>3, <2>1, KeepAccounted DEF CreateRoom, PendingInv
<1>4. ASSUME NEW t \in Tasks,
             \/ RoomNotFound(t) \/ JoinFindsRoom(t) \/ JoinReadsParticipants(t)
             \/ AddParticipant(t) \/ RandomQuestion(t) \/ SetQuestion(t)
             \/ TransitionFindsRoom(t) \/ Send(t) \/ TimerFires(t)
      PROVE  PendingInv' /\ AllAccounted'
  <2>1. /\ UNCHANGED <<history, jobs, pending, faults, work>>
        /\ pc[t] \notin {"committed", "enqueue"}
    BY <1>4
    DEF RoomNotFound, JoinFindsRoom, JoinReadsParticipants, AddParticipant, RandomQuestion,
        SetQuestion, TransitionFindsRoom, Send, SendFindsRoom, SendReadsParticipants,
        SaveMessage, TimerFires, AtFindRoom
  <2>2. PICK label : Goto(t, label) /\ label # "committed"
    BY <1>4
    DEF RoomNotFound, JoinFindsRoom, JoinReadsParticipants, JoinDecision, AddParticipant,
        RandomQuestion, AfterDraw, SetQuestion, TransitionFindsRoom, Send, SendFindsRoom,
        SendReadsParticipants, SaveMessage, TimerFires
  <2> QED
    BY <1>1, <2>1, <2>2
<1>5. ASSUME NEW t \in Tasks, SchedulePrepTimer(t) \/ ScheduleDebateTimer(t)
      PROVE  PendingInv' /\ AllAccounted'
  <2>1. PICK h \in Timers, to \in {"RUNNING", "VOTING"} : Arm(t, h, to)
    BY <1>5 DEF SchedulePrepTimer, ScheduleDebateTimer
  <2>2. /\ UNCHANGED <<history, jobs, pending, faults>>
        /\ pc[t] = "schedulePrep" \/ (pc[t] = "committed" /\ work[t].to = "RUNNING")
    BY <1>5 DEF SchedulePrepTimer, ScheduleDebateTimer
  <2>3. /\ h \in Tasks /\ h # t /\ pc[h] = "unset" /\ pc'[h] = "armed" /\ pc'[t] = "done"
        /\ \A x \in Tasks : x # h => work'[x] = work[x]
        /\ \A x \in Tasks : x # h /\ x # t => pc'[x] = pc[x]
    BY <2>1, <2>2 DEF Arm, TypeInv, TypeOK, Tasks
  <2>4. pending[t] = {} /\ pending[h] = {}
    BY <2>2, <2>3 DEF PendingInv
  <2>5. PendingInv'
    BY <2>2, <2>3, <2>4 DEF PendingInv
  <2>6. \A x \in Tasks : Keeps(x) /\ ~Loses(x)
    BY <2>2, <2>3, <2>4 DEF Keeps, Loses, AboutToAdd, RoomOf
  <2> QED
    BY <2>2, <2>5, <2>6, KeepAccounted
<1>6. ASSUME NEW t \in Tasks, TransitionState(t) PROVE PendingInv' /\ AllAccounted'
  <2>1. PendingInv'
    BY <1>6 DEF TransitionState, Goto, PendingInv, TypeInv, TypeOK
  <2> QED
    BY <1>6, <2>1, OpenAccounted
<1>7. ASSUME NEW t \in Tasks, OpenVoting(t) PROVE PendingInv' /\ AllAccounted'
  <2>1. /\ UNCHANGED <<history, jobs, faults, work>>
        /\ pc[t] = "committed" /\ work[t].to = "VOTING" /\ pc'[t] = "enqueue"
        /\ pending'[t] = JobKinds
        /\ \A x \in Tasks : x # t =>
              /\ pending'[x] = pending[x]
              /\ pc'[x] = pc[x] \/ (pc[x] = "armed" /\ pc'[x] = "cleared")
    BY <1>7 DEF OpenVoting, ClearAndGoto, TypeInv, TypeOK
  <2>2. PendingInv'
    BY <2>1 DEF PendingInv
  <2>3. \A x \in Tasks : Keeps(x) /\ ~Loses(x)
    BY <2>1 DEF Keeps, Loses, AboutToAdd, RoomOf
  <2> QED
    BY <2>1, <2>2, <2>3, KeepAccounted
<1>8. ASSUME NEW t \in Tasks, CloseRoom(t) PROVE PendingInv' /\ AllAccounted'
  <2>1. /\ UNCHANGED <<history, jobs, faults, work, pending>>
        /\ pc[t] = "committed" /\ work[t].to = "CLOSED" /\ pc'[t] = "done"
        /\ \A x \in Tasks : x # t =>
              pc'[x] = pc[x] \/ (pc[x] = "armed" /\ pc'[x] = "cleared")
    BY <1>8 DEF CloseRoom, ClearAndGoto
  <2>2. PendingInv'
    BY <2>1 DEF PendingInv
  <2>3. \A x \in Tasks : Keeps(x) /\ ~Loses(x)
    BY <2>1 DEF Keeps, Loses, AboutToAdd, RoomOf
  <2> QED
    BY <2>1, <2>2, <2>3, KeepAccounted
<1>9. ASSUME NEW t \in Tasks, NEW j \in JobKinds, EnqueueJob(t, j) \/ AddRejects(t, j)
      PROVE  PendingInv' /\ AllAccounted'
  <2>1. PendingInv'
    BY <1>9 DEF EnqueueJob, AddRejects, Goto, PendingInv, TypeInv, TypeOK
  <2> QED
    BY <1>9, <2>1, AddAccounted
<1>10. CASE Crash \/ \E t \in Tasks : AwaitRejects(t)
  <2>1. /\ UNCHANGED <<history, jobs, work>> /\ faults' # 0
        /\ \A x \in Tasks :
              /\ pending'[x] = pending[x] \/ pending'[x] = {}
              /\ pc'[x] = pc[x] \/ (pc'[x] \in {"failed", "lost"} /\ pending'[x] = {})
    <3>1. faults \in Nat
      BY ConstantsAssumption DEF TypeInv, TypeOK
    <3>2. CASE Crash
      BY <3>1, <3>2 DEF Crash
    <3>3. ASSUME NEW t \in Tasks, AwaitRejects(t)
          PROVE  /\ UNCHANGED <<history, jobs, work, pending>> /\ faults' # 0
                 /\ \A x \in Tasks : pc'[x] = pc[x] \/ (x = t /\ pc'[x] = "failed")
                 /\ pending[t] = {}
      <4>1. UNCHANGED <<history, jobs, work, pending>> /\ faults' # 0
        BY <3>1, <3>3 DEF AwaitRejects
      <4>2. pc[t] # "enqueue" /\ pc' = [pc EXCEPT ![t] = "failed"]
        BY <3>3 DEF AwaitRejects, Awaits, Goto
      <4> QED
        BY <4>1, <4>2 DEF PendingInv, TypeInv, TypeOK
    <3>4. CASE \E t \in Tasks : AwaitRejects(t)
      <4>1. PICK t \in Tasks : AwaitRejects(t)
        BY <3>4
      <4>2. /\ UNCHANGED <<history, jobs, work, pending>> /\ faults' # 0
            /\ \A x \in Tasks : pc'[x] = pc[x] \/ (x = t /\ pc'[x] = "failed")
            /\ pending[t] = {}
        BY <3>3, <4>1
      <4> QED
        BY <4>2
    <3> QED
      BY <1>10, <3>2, <3>4
  <2>2. PendingInv'
    BY <2>1 DEF PendingInv
  <2>3. \A x \in Tasks : Keeps(x)
    BY <2>1 DEF Keeps, AboutToAdd, RoomOf
  <2> QED
    BY <2>1, <2>2, <2>3, KeepAccounted
<1> QED
  BY <1>2, <1>3, <1>4, <1>5, <1>6, <1>7, <1>8, <1>9, <1>10
  DEF Next, Step, Join, Transition, Fault, Quiescent

\* A vote opened is a job of each kind, added or about to be, and never two,
\* whatever requests open votes and close them again; only a rejected query or
\* add, or the end of the process, loses one.
THEOREM JobsStayAccounted == Spec => []JobsAccountedFor
<1>1. Init => PendingInv /\ AllAccounted
  BY InitJobs
<1>2. TypeInv /\ PendingInv /\ AllAccounted /\ [Next]_vars => (PendingInv /\ AllAccounted)'
  BY NextAccounted
<1>3. AllAccounted => JobsAccountedFor
  BY DEF AllAccounted, Accounted, JobsAccountedFor, VotingsOpened, Openings
<1> QED
  BY <1>1, <1>2, <1>3, TypeInvariant, PTL DEF Spec, Safety

====
