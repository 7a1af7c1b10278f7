---- MODULE MCDebateRoom ----
(***************************************************************************)
(* Small instances of DebateRoom: one room, up to three users, and a list  *)
(* of requests for each question.  A request is sent at most once, at any  *)
(* moment, so each list stands for all its subsets and interleavings.      *)
(***************************************************************************)
EXTENDS DebateRoom, TLC

CONSTANT q1, q2

MCRooms == {"room"}
MCUsers == {"ann", "bob", "cy"}
\* Handles are interchangeable: any unused one may be armed.
TimerSymmetry == Permutations(Timers)

MCQuestions == {q1, q2}

JoinBy(u) == [op |-> "join", room |-> "room", user |-> u]
SendBy(u) == [op |-> "send", room |-> "room", user |-> u]
MoveTo(s) == [op |-> "transition", room |-> "room", to |-> s]

\* Three clients race for two seats, one of them retrying; one closes the room.
UnattendedRequests ==
    <<JoinBy("ann"), JoinBy("bob"), JoinBy("cy"), JoinBy("ann"), MoveTo("CLOSED")>>
UnattendedCalls == DOMAIN UnattendedRequests

\* An operator drives the room while its timers do, and a debater speaks.
ManualRequests ==
    <<JoinBy("ann"), JoinBy("bob"), MoveTo("RUNNING"), MoveTo("VOTING"),
      MoveTo("CLOSED"), SendBy("ann")>>
ManualCalls == DOMAIN ManualRequests

====
