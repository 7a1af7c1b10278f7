\* Streams come and go while a vote is retried and the room reports events.
SPECIFICATION Safety
CONSTANTS
    None = None
    Users <- MCUsers
    Debates <- MCDebates
    Streams <- MCStreams
    Subscription <- MCSubscriptions
    Calls <- MCCalls
    Ballot <- MCBallots
    Hooks <- MCHooks
    MaxPings = 1
    MaxFaults = 1
INVARIANTS RegistryFollowsStreams StreamFollowsLog AnnouncedOnce
