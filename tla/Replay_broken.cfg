\* A client that comes back twice while three messages are sent to it.
SPECIFICATION FairSpec
CONSTANTS
    Conn = {c1, c2, c3}
    None = None
    MaxSent = 3
    Errors = {"reset", "pipe"}
INVARIANTS TypeOK LossNeedsOverlap Conserved
PROPERTIES ReplayYields
CHECK_DEADLOCK FALSE
