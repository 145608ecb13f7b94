\* Three overlapping calls of any kind, and a crash.
SPECIFICATION FairSpec
CONSTANTS
    Call = {t1, t2, t3}
    Request <- Requests
    Nodes0 <- TwoNodes
    MaxCrash = 1
INVARIANTS TypeOK LossNeedsRefusal NothingLingers RefsResolve
PROPERTIES SavedForGood CallsReturn
CHECK_DEADLOCK FALSE
