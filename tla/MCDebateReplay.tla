---- MODULE MCDebateReplay ----
(***************************************************************************)
(* A small instance of DebateReplay: a reader beside three clients who try *)
(* to join, of whom one speaks.  Nothing but the timers moves the room.     *)
(***************************************************************************)
EXTENDS DebateReplay, TLC

CONSTANT q1

MCRooms == {"room"}
MCUsers == {"ann", "bob", "cy"}
MCReaders == {"reader"}
TimerSymmetry == Permutations(Timers)

JoinBy(u) == [op |-> "join", room |-> "room", user |-> u]
SendBy(u) == [op |-> "send", room |-> "room", user |-> u]

QuietRequests == <<JoinBy("ann"), JoinBy("bob"), JoinBy("cy"), SendBy("ann")>>
QuietCalls == DOMAIN QuietRequests

====
