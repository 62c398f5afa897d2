SPECIFICATION Spec
CONSTANTS
    i1 = i1
    i2 = i2
    u1 = u1
    u2 = u2
    s1 = s1
    s2 = s2
    Ids = {i1}
    Users = {u1}
    Accounts <- OneAccount
    Sessions = {s1, s2}
    Ops = {"save_instance", "delete", "run_instance", "exempt", "unexempt", "policy", "enroll"}
    MaxRequests = 4
    Gone = Gone
    Unset = Unset
    Nothing = Nothing
INVARIANTS
    OnlyAsked
PROPERTIES
    PolicySticks
SYMMETRY Symmetry
CHECK_DEADLOCK FALSE
