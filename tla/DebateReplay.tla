---- MODULE DebateReplay ----
(***************************************************************************)
(* Readers of a room, beside the handlers and timers of DebateRoom:        *)
(* getReplay and getRoom.  Each reads the row of the room first and then   *)
(* its lists, one query each and getReplay all at once, while the room     *)
(* moves on.  What a reader answers may be of several moments.             *)
(*                                                                         *)
(* A question never changes: reading its text is left out.                 *)
(***************************************************************************)
EXTENDS DebateRoom

CONSTANT Readers  \* getReplay or getRoom requests, each sent at most once

VARIABLES
    asked,    \* which of the two a reader asks for
    read,     \* the queries that have answered, or {"failed"}
    answer    \* what they have answered so far

readers == <<asked, read, answer>>
allVars == <<vars, readers>>

Lists(x) ==
    IF asked[x].op = "replay" THEN {"participants", "messages", "transitions"}
                              ELSE {"participants"}

ReadWork == [op : {"replay", "room"}, room : Rooms]
Nothing == [state |-> "ABSENT", participants |-> {}, messages |-> {}, transitions |-> << >>]

ReplayInit ==
    /\ Init
    /\ asked \in [Readers -> ReadWork]
    /\ read = [x \in Readers |-> {}]
    /\ answer = [x \in Readers |-> Nothing]

\* Mutant: the row of the room is one of the queries of the Promise.all.
AllAtOnce(x) == {"room"} \cup Lists(x)

\* The queries that are under way or have answered.
Issued(x) == IF "room" \in read[x] THEN {"room"} \cup Lists(x) ELSE {"room"}

Answers(x, query) == read' = [read EXCEPT ![x] = @ \cup {query}]
Outstanding(x, query) == query \in Issued(x) \ read[x] /\ "failed" \notin read[x]

ReadsRoom(x) ==
    LET found == state[asked[x].room] IN
    /\ Outstanding(x, "room")
    /\ IF found = "ABSENT"
       THEN read' = [read EXCEPT ![x] = {"failed"}] /\ UNCHANGED answer
       ELSE Answers(x, "room") /\ answer' = [answer EXCEPT ![x].state = found]
    /\ UNCHANGED <<vars, asked>>

ReadsParticipants(x) ==
    /\ Outstanding(x, "participants") /\ Answers(x, "participants")
    /\ answer' = [answer EXCEPT ![x].participants = Seated(asked[x].room)]
    /\ UNCHANGED <<vars, asked>>

ReadsMessages(x) ==
    /\ Outstanding(x, "messages") /\ Answers(x, "messages")
    /\ answer' = [answer EXCEPT ![x].messages = {m \in messages : m.room = asked[x].room}]
    /\ UNCHANGED <<vars, asked>>

ReadsTransitions(x) ==
    /\ Outstanding(x, "transitions") /\ Answers(x, "transitions")
    /\ answer' = [answer EXCEPT ![x].transitions = history[asked[x].room]]
    /\ UNCHANGED <<vars, asked>>

Answered(x) == read[x] = {"room"} \cup Lists(x)

\* A reader that has not answered dies with the process.
CrashWithReaders ==
    /\ Crash
    /\ read' = [x \in Readers |-> IF read[x] = {} \/ Answered(x) THEN read[x] ELSE {"failed"}]
    /\ UNCHANGED <<asked, answer>>

Read(x) ==
    \/ ReadsRoom(x)
    \/ ReadsParticipants(x)
    \/ ReadsMessages(x)
    \/ ReadsTransitions(x)

RoomMoves ==
    \/ \E r \in Rooms : CreateRoom(r)
    \/ \E t \in Tasks : Step(t) \/ AwaitRejects(t)
    \/ \E t \in Tasks, j \in JobKinds : AddRejects(t, j)
    \/ Quiescent

ReplayNext ==
    \/ RoomMoves /\ UNCHANGED readers
    \/ CrashWithReaders
    \/ \E x \in Readers : Read(x)

ReplaySafety == ReplayInit /\ [][ReplayNext]_allVars

-----------------------------------------------------------------------------
(* What a replay is good for, when the timers alone start a debate and end *)
(* it.                                                                     *)

Started(x) == answer[x].state # "PREPARATION"

\* sideByUser: the side shown with a message, empty for an unknown author.
SideShown(x, m) ==
    IF \E p \in answer[x].participants : p.user = m.user
    THEN (CHOOSE p \in answer[x].participants : p.user = m.user).side ELSE ""

\* A reader that is shown a room as started is shown both its debaters; its
\* replay has every message with the side of its author, although a message may
\* be read that was sent after the participants were read; and the transitions
\* of the replay lead to the state it shows, or further.
AnswersAreConsistent ==
    \A x \in Readers : Answered(x) /\ Started(x) =>
        /\ {p.side : p \in answer[x].participants} = Sides
        /\ \A m \in answer[x].messages : SideShown(x, m) \in Sides
        /\ asked[x].op = "replay" =>
               \E i \in DOMAIN answer[x].transitions :
                   answer[x].transitions[i].to = answer[x].state

\* Whoever has a message in a room is one of its debaters, and the room has
\* been RUNNING, even if the debate is over when the message is stored.
MessagesFromDebaters ==
    \A m \in messages :
        /\ \E p \in Seated(m.room) : p.user = m.user
        /\ \E i \in DOMAIN history[m.room] : history[m.room][i].to = "RUNNING"

====
