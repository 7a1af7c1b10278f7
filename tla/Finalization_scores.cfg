\* Votes and analyses race the two finalization jobs of a debate, the worker is fair.
SPECIFICATION Spec
CONSTANTS
    None = None
    good = good
    bad = bad
    r1 = r1
    r2 = r2
    Debates <- MCDebates
    Users <- MCUsers
    Completed = {good}
    Failed = {bad}
    Calls <- ScoreCalls
    Request <- ScoreRequests
    RoomDebates <- MCDebates
    Runs <- MCRuns
    Concurrency = 1
    MaxFaults = 1
INVARIANTS TypeOK CompletedMeansScored
PROPERTIES TallyOnlyGrows AnalysedDebateIsScored
