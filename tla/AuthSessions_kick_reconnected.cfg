\* A client that reconnected is kicked.
SPECIFICATION FairSpec
CONSTANTS
    Conn = {c1, c2}
    KI = {k1}
    Avatar = {k1}
    None = None
    KeepState = TRUE
    Disturbances = {}
PROPERTIES KickedGetDisconnected
CHECK_DEADLOCK FALSE
