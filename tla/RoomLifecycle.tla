---- MODULE RoomLifecycle ----
(***************************************************************************)
(* What a debate room promises to whoever looks at its rows and at the     *)
(* finalization queue: people sit down while it is being prepared, it      *)
(* starts once both seats are taken, ends once, is closed at most once,    *)
(* and one finalization job is issued, after the debate has ended.         *)
(* There are no handlers, no timers and no stale reads here.               *)
(***************************************************************************)
EXTENDS DebateState, Naturals

CONSTANTS Rooms, Users

VARIABLES
    phase,   \* one of DebateStates, or "ABSENT"
    seats,   \* the users seated in the room
    issued   \* finalization jobs issued for it

lifecycle == <<phase, seats, issued>>

Init ==
    /\ phase = [r \in Rooms |-> "ABSENT"]
    /\ seats = [r \in Rooms |-> {}]
    /\ issued = [r \in Rooms |-> 0]

Move(r, old, new) ==
    /\ phase[r] = old
    /\ phase' = [phase EXCEPT ![r] = new]
    /\ UNCHANGED <<seats, issued>>

Open(r) == Move(r, "ABSENT", "PREPARATION")

\* Seats fill one by one, so two different users are all there is room for.
Full(r) == \E u, v \in seats[r] : u # v

Sit(r, u) ==
    /\ phase[r] = "PREPARATION"
    /\ u \notin seats[r] /\ ~Full(r)
    /\ seats' = [seats EXCEPT ![r] = @ \cup {u}]
    /\ UNCHANGED <<phase, issued>>

Start(r) == Full(r) /\ Move(r, "PREPARATION", "RUNNING")
End(r)   == Move(r, "RUNNING", "VOTING")
Close(r) == Move(r, "VOTING", "CLOSED")

Issue(r) ==
    /\ phase[r] \in {"VOTING", "CLOSED"} /\ issued[r] = 0
    /\ issued' = [issued EXCEPT ![r] = 1]
    /\ UNCHANGED <<phase, seats>>

Next ==
    \E r \in Rooms :
        \/ Open(r) \/ Start(r) \/ End(r) \/ Close(r) \/ Issue(r)
        \/ \E u \in Users : Sit(r, u)

Spec == Init /\ [][Next]_lifecycle

====
