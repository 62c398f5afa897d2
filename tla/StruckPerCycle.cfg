SPECIFICATION PollSpec
CONSTANTS
    me = me
    other = other
    Me = me
    Names = {me, other}
    NoName = NoName
    Blank = Blank
    NoList = NoList
    NoTime = NoTime
    StrikeCount = 2
    AutoStop = TRUE
    NotifyEnabled = TRUE
    MaxReadings = 4
    Documents <- Connections
    Pages <- SomePages
INVARIANTS
    FlaggedAfterCycles
