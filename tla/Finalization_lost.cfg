\* The same requests as for the ballots: one lost add, and a retry.
SPECIFICATION Safety
CONSTANTS
    None = None
    good = good
    bad = bad
    r1 = r1
    r2 = r2
    Debates <- MCDebates
    Users <- MCUsers
    Completed = {good}
    Failed = {bad}
    Calls <- BallotCalls
    Request <- BallotRequests
    RoomDebates = {}
    Runs = {r1}
    Concurrency = 1
    MaxFaults = 1
INVARIANTS SkippedOnlyIfRedundant
