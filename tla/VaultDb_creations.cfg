\* Two creations, neither of which breaks any rule.
SPECIFICATION Spec
CONSTANTS
    Call = {t1, t2}
    Request <- Creations
    Nodes0 <- TwoNodes
    MaxCrash = 0
SYMMETRY Symmetry
INVARIANT AnsweredIsSaved
CHECK_DEADLOCK FALSE
