\* Two changes of a node while two sessions come and go.
SPECIFICATION Spec
CONSTANTS
    Session = {s1, s2}
    Call = {t1, t2}
    Node = {n1}
    None = None
SYMMETRY Symmetry
INVARIANTS TypeOK AnsweredMeansTold KnowsOrTold
CHECK_DEADLOCK FALSE
