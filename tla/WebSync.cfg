SPECIFICATION Spec
CONSTANTS
    u1 = u1
    u2 = u2
    s1 = s1
    s2 = s2
    StrikeCount = 2
    AutoStop = TRUE
    NotifyEnabled = TRUE
    NoTime = NoTime
    Users <- TwoUsers
    Accounts <- TwoUsers
    Sessions = {s1, s2}
    Timer = Timer
    Jobs = {"run", "run_instance", "disable"}
    Action <- PolicyMixed
    StopDuration <- DurationMixed
    Entries <- OneEntry
    MaxStrikes = 3
    MaxFaults = 0
    MaxRequests = 2
    Free = Free
    NoUser = NoUser
INVARIANTS
    RecordMatchesAccount
