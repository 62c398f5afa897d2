SPECIFICATION FairSpec
CONSTANTS
    u1 = u1
    u2 = u2
    s1 = s1
    s2 = s2
    StrikeCount = 2
    AutoStop = TRUE
    NotifyEnabled = TRUE
    NoTime = NoTime
    Users <- OneUser
    Accounts <- OneUser
    Sessions = {s1}
    Timer = Timer
    Jobs = {"run"}
    Action <- StopOne
    StopDuration <- DurationOne
    Entries <- OneEntry
    MaxStrikes = 3
    MaxFaults = 1
    MaxRequests = 0
    Free = Free
    NoUser = NoUser
PROPERTIES
    StopIsLifted
