SPECIFICATION Spec
CONSTANTS
    Users = {"ann", "bob"}
    Admins = {"ann", "bob"}
    Reqs = {"r1", "r2"}
    Kinds <- OnlyUpdates
    MaxCalls = 2
    MaxHash = 0
INVARIANTS
    SomeActiveAdmin
\* All the requests of the bounded behaviour may be over.
CHECK_DEADLOCK FALSE
