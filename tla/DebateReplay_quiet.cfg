\* Only the timers move the room, and somebody reads it meanwhile.
SPECIFICATION ReplaySafety
CONSTANTS
    None = None
    q1 = q1
    Rooms <- MCRooms
    Users <- MCUsers
    Questions = {q1}
    Calls <- QuietCalls
    Request <- QuietRequests
    Readers <- MCReaders
    Timers = {t1, t2}
    MaxFaults = 1
SYMMETRY TimerSymmetry
INVARIANTS AnswersAreConsistent MessagesFromDebaters
