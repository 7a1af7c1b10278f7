\* An operator's transition requests race the timers.
SPECIFICATION Safety
CONSTANTS
    None = None
    q1 = q1
    q2 = q2
    Rooms <- MCRooms
    Users <- MCUsers
    Questions = {q1}
    Calls <- ManualCalls
    Request <- ManualRequests
    Timers = {t1, t2, t3}
    MaxFaults = 1
SYMMETRY TimerSymmetry
INVARIANTS TypeOK TimerMapsSound PrepTimersCancellable FullRoomNeverStranded JobsAccountedFor
