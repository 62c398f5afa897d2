SPECIFICATION Spec
CONSTANTS
    u1 = u1
    u2 = u2
    s1 = s1
    s2 = s2
    StrikeCount = 2
    AutoStop = TRUE
    NotifyEnabled = TRUE
    NoTime = NoTime
    Users <- TwoUsers
    Accounts <- TwoUsers
    Sessions = {s1}
    Timer = Timer
    Jobs = {"run", "disable", "enable", "reset"}
    Action <- PolicyMixed
    StopDuration <- DurationMixed
    Entries <- TwoEntries
    MaxStrikes = 3
    MaxFaults = 1
    MaxRequests = 1
    Free = Free
    NoUser = NoUser
INVARIANTS
    SavedAsDone
    StopEarned
PROPERTIES
    FollowsRule
