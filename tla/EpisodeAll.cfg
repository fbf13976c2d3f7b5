SPECIFICATION FairSpec
CONSTANTS
    None = None
    Eps = {1, 2}
    Texts = {"old", "new", "other"}
    First = "old"
    Rewrite <- MCRewrite
    Reqs = {"r1", "r2"}
    RevCap = 2
    Mixes <- AllMixes
INVARIANTS
    TypeOK
    CopiesInStep
PROPERTIES
    HistoryKeepsReplaced
    HistoryDropsOnlyOldest
    NoResurrection
    ReplaceUsesCurrentText
    EveryRequestAnswered
\* All the requests of the bounded behaviour may be over.
CHECK_DEADLOCK FALSE
