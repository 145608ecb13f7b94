\* Two avatars of one name; two deletions of one; three age instances; restarts.
SPECIFICATION Spec
CONSTANTS
    t1 = t1
    t2 = t2
    t3 = t3
    b1 = b1
    b2 = b2
    Config = Config
    None = None
    Call <- Calls
    Boot <- Boots
    Static <- Statics
    AvatarName = {"Yeesha"}
    AgeName = {"Garden"}
    AutoUuid = {"aegura"}
    PlayerLists <- NoLists
    AgeLists <- NoLists
    InfoLists <- OwnersOnly
    Load <- Loads
INVARIANTS TypeOK SameNameMeansOverlap SameInstanceMeansOverlap ReportedIsWhole DeletionsFinish GhostsAreLate SetupEnsures
PROPERTIES AutoIsStable
CHECK_DEADLOCK FALSE
