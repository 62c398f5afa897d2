SPECIFICATION Spec
CONSTANTS
    i1 = i1
    i2 = i2
    u1 = u1
    u2 = u2
    s1 = s1
    s2 = s2
    Ids = {i1, i2}
    Users = {u1, u2}
    Accounts <- OneAccount
    Sessions = {s1}
    Ops = {"save_instance", "delete", "run_instance", "exempt", "unexempt", "policy", "enroll"}
    MaxRequests = 3
    Gone = Gone
    Unset = Unset
    Nothing = Nothing
INVARIANTS
    TypeOK
PROPERTIES
    EditsAreSerial
CHECK_DEADLOCK FALSE
