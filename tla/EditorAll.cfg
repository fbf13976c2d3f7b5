SPECIFICATION FairSpec
CONSTANTS
    None = None
    Eps = {1, 2}
    MaxDiffs = 2
    Gens = {1, 2, 3, 4, 5, 6, 7, 8, 9}
    Mixes <- AllMixes
INVARIANTS
    TypeOK
    StreamsAreOwned
    TypedStaysInItsEpisode
    ListInStep
    SavedTextIsUndoable
PROPERTIES
    NothingTypedVanishes
    DialogsEnd
\* The writer may leave, and after that nothing happens.
CHECK_DEADLOCK FALSE
