\* Clients reconnect after the server noticed the loss, and fall silent when kicked.
SPECIFICATION FairSpec
CONSTANTS
    Conn = {c1, c2, c3}
    KI = {k1, k2}
    Avatar = {k1}
    None = None
    KeepState = TRUE
    Disturbances = {}
INVARIANTS TypeOK RegistryConsistent TimersSound NoSessionLeaks
PROPERTIES ImplementsOwnership AvatarsGoOffline
CHECK_DEADLOCK FALSE
