\* Only the timers start and end the debate, the tasks are fair: three clients race for two seats.
SPECIFICATION Spec
CONSTANTS
    None = None
    q1 = q1
    q2 = q2
    Rooms <- MCRooms
    Users <- MCUsers
    Questions <- MCQuestions
    Calls <- UnattendedCalls
    Request <- UnattendedRequests
    Timers = {t1, t2}
    MaxFaults = 1
INVARIANTS PrepTimerOnce NoOrphanTimer StartsWithQuestion
PROPERTIES ImplementsLifecycle QuestionDrawnOnce FullRoomIsFinalized
