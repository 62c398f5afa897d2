SPECIFICATION FairSpec
CONSTANTS
    u1 = u1
    u2 = u2
    s1 = s1
    s2 = s2
    StrikeCount = 2
    AutoStop = TRUE
    NotifyEnabled = TRUE
    NoTime = NoTime
    Users <- TwoUsers
    Accounts <- OneUser
    Sessions = {s1}
    Timer = Timer
    Jobs = {"run", "disable", "enable"}
    Action <- PolicyMixed
    StopDuration <- DurationMixed
    Entries <- NoneOfU2
    MaxStrikes = 3
    MaxFaults = 2
    MaxRequests = 3
    Free = Free
    NoUser = NoUser
PROPERTIES
    TemporaryStopEnds
    LiftedUnlessLost
