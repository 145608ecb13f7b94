SPECIFICATION Spec
CONSTANTS
    LookAhead = 16
    Replaced = FALSE
    Simple = {0, 1}
    Nested = {0, 1}
    Change <- GuessableChanges
    MaxChanges = 3
INVARIANTS TypeOK SavedMeansTold LostNeedsBadLuck
CHECK_DEADLOCK FALSE
