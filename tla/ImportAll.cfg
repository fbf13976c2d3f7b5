SPECIFICATION FairSpec
CONSTANTS
    Jobs = {"i1", "i2"}
    Base = "base"
    Numbers = {1, 2}
    Rejected = {}
    Files <- MCFiles
    Modes <- BothModes
    DiskFails = TRUE
    MaxAdds = 2
    MaxRestarts = 1
INVARIANTS
    TypeOK
    CountersAgree
    NoGhostUnlessOvertaken
PROPERTIES
    DoublesOnlyWhenOvertaken
    StatusIsFinal
    EveryJobEnds
\* All the jobs of the bounded behaviour may be over.
CHECK_DEADLOCK FALSE
