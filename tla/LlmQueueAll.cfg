SPECIFICATION FairSpec
CONSTANTS
    Groups <- MCGroups
    Limit <- MCLimit
    MaxJobs = 3
    RecentMax = 2
INVARIANTS
    TypeOK
    ConcurrencyLimit
    WorkConserving
    FifoOrder
    SlotsAreOwned
    VendorHoldsSlot
    NoLostWakeup
PROPERTIES
    ImplementsGate
    EventuallyReleased
\* Every call of the bounded behaviour may be over.
CHECK_DEADLOCK FALSE
