\* The same requests: both jobs of the debate complete.
SPECIFICATION Safety
CONSTANTS
    None = None
    good = good
    bad = bad
    r1 = r1
    r2 = r2
    Debates <- MCDebates
    Users <- MCUsers
    Completed = {good}
    Failed = {bad}
    Calls <- ScoreCalls
    Request <- ScoreRequests
    RoomDebates <- MCDebates
    Runs <- MCRuns
    Concurrency = 1
    MaxFaults = 0
SYMMETRY RunSymmetry
INVARIANTS FinalizedAtMostOnce
