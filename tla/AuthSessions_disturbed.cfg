SPECIFICATION Spec
CONSTANTS
    Conn = {c1, c2, c3}
    KI = {k1, k2}
    Avatar = {k1}
    None = None
    KeepState = TRUE
    Disturbances = {"halfOpen", "kickedTalks", "kickMidMessage", "reset"}
SYMMETRY Symmetry
INVARIANTS TokenResolvesUsable
PROPERTIES DiscardedForGood
CHECK_DEADLOCK FALSE
