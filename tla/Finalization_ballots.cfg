\* Upserts, votes and closing race; nothing is analysed, so every job fails.
SPECIFICATION Safety
CONSTANTS
    None = None
    good = good
    bad = bad
    r1 = r1
    r2 = r2
    Debates <- MCDebates
    Users <- MCUsers
    Completed = {good}
    Failed = {bad}
    Calls <- BallotCalls
    Request <- BallotRequests
    RoomDebates = {}
    Runs = {r1}
    Concurrency = 1
    MaxFaults = 1
INVARIANTS OneBallotEach VotingScheduled
