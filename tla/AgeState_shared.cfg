\* Two clients of one age, two objects beside the AgeSDLHook, one crash.
SPECIFICATION Spec
CONSTANTS
    Conn = {c1, c2}
    Object = {1, 2}
    Hook = Hook
    v1 = v1
    v2 = v2
    Var = {v1, v2}
    Message <- AllMessages
    None = None
    MaxMessages = 3
    MaxCrashes = 1
SYMMETRY Symmetry
INVARIANTS TypeOK RequestComplete OrderlyClientsSurvive
PROPERTIES ChangesNeedCompany
CHECK_DEADLOCK FALSE
