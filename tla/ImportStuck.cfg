SPECIFICATION Spec
CONSTANTS
    Jobs = {"i1"}
    Base = "base"
    Numbers = {1, 2}
    Rejected = {2}
    Files <- FilesWithLongTitle
    Modes <- EpisodesOnly
    DiskFails = FALSE
    MaxAdds = 0
    MaxRestarts = 0
INVARIANTS
    NoGhostJob
\* All the jobs of the bounded behaviour may be over.
CHECK_DEADLOCK FALSE
