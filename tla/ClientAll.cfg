SPECIFICATION FairSpec
CONSTANTS
    None = None
    Me = "me"
    People = {"me", "ann", "new"}
    Passwords = {"old", "new"}
    Languages = {"en", "ja"}
    Names = {"a", "b"}
    ListLimit = 3
    MaxJobs = 2
    MaxProjects = 2
    MaxRows = 4
    MaxSources = 2
    Mixes <- AllMixes
INVARIANTS
    TypeOK
    SignedOutStaysOut
    ChoiceSurvives
    ReplaceIsExact
    ComparesOneEpisode
    ScreensInStep
PROPERTIES
    ValidCredentialsKept
    EveryWaitEnds
CHECK_DEADLOCK FALSE
