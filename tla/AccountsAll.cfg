SPECIFICATION Spec
CONSTANTS
    Users = {"ann", "bob"}
    Admins = {"ann"}
    Reqs = {r1, r2, r3}
    Kinds <- Everything
    MaxCalls = 3
    MaxHash = 3
SYMMETRY AnyRequest
INVARIANTS
    TypeOK
PROPERTIES
    AdminsLostInRacesOnly
    LinkWorksOnce
\* All the requests of the bounded behaviour may be over.
CHECK_DEADLOCK FALSE
