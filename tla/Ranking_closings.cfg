\* Closings of debates overlap and fail, statistics are overwritten, a leaderboard is read.
SPECIFICATION Spec
CONSTANTS
    None = None
    Users <- MCUsers
    Debates <- MCDebates
    Verdicts <- MCVerdicts
    FirstStats <- MCStats
    Calls <- MCCalls
    Plans <- MCPlans
    Limits = {1}
    MaxFaults = 1
INVARIANTS TypeOK EloAccounted HistoryBacked OneAward
PROPERTIES LeaderboardCatchesUp
