SPECIFICATION Spec
CONSTANTS
    Jobs = {"i1"}
    Base = "base"
    Numbers = {1, 2}
    Rejected = {}
    Files <- MCFiles
    Modes <- EpisodesOnly
    DiskFails = FALSE
    MaxAdds = 1
    MaxRestarts = 0
PROPERTIES
    ImportNeverDuplicates
\* All the jobs of the bounded behaviour may be over.
CHECK_DEADLOCK FALSE
