\* One message, and a client that is gone again before it is replayed.
SPECIFICATION FairSpec
CONSTANTS
    Conn = {c1, c2}
    None = None
    MaxSent = 1
    Errors = {"reset"}
PROPERTIES ReplayEnds
CHECK_DEADLOCK FALSE
