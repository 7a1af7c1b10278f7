---- MODULE DebateState ----
(***************************************************************************)
(* The states of a debate room and the edges between them, as declared by  *)
(* services/debate/src/debate/debate-state.ts.  Every other module about   *)
(* rooms takes its states from here.                                       *)
(***************************************************************************)

DebateStates == {"PREPARATION", "RUNNING", "VOTING", "CLOSED"}

\* Mutant: a running debate may be closed without a vote.
VoteSkipped ==
    [PREPARATION |-> {"RUNNING"}, RUNNING |-> {"VOTING", "CLOSED"},
     VOTING |-> {"CLOSED"}, CLOSED |-> {}]

ALLOWED_TRANSITIONS ==
    [PREPARATION |-> {"RUNNING"}, RUNNING |-> {"VOTING"},
     VOTING |-> {"CLOSED"}, CLOSED |-> {}]

isValidTransition(from, to) == to \in ALLOWED_TRANSITIONS[from]

====
