\* Two tabs sign up, log in and out; pages load, reload and change their debate.
SPECIFICATION Spec
CONSTANTS
    None = None
    Calls <- MCCalls
    Typed <- MCTyped
    Normalized <- MCNormalized
    LocalPart <- MCLocalPart
    Known <- MCKnown
    Passwords = {"p", "q"}
    Avatars = {"photo"}
    Tabs = {"one", "two"}
    Debates = {"first", "second"}
    Votable = {"first"}
    Published <- MCPublished
    Plans <- MCPlans
    MaxFaults = 1
INVARIANTS TypeOK OneAccountPerEmail AnswersAreTrue SessionsFollowLogins ResultsShowTheirDebate PanelCountsOwnVote
PROPERTIES ProvisioningNeverOverwrites AccountsGetProfiles PagesSettle
