SPECIFICATION PollSpec
CONSTANTS
    me = me
    other = other
    Me = me
    Names = {me, other}
    NoName = NoName
    Blank = Blank
    NoList = NoList
    NoTime = NoTime
    StrikeCount = 3
    AutoStop = TRUE
    NotifyEnabled = TRUE
    MaxReadings = 6
    Documents <- SomeDocuments
    Pages <- SomePages
INVARIANTS
    TypeOK
    StreakIsExact
    VerdictIsExact
    AlertPerStreak
    PollTypeOK
    NobodyOverlooked
    EitherInterface
    TestedIsRead
PROPERTIES
    StrikeIsOwn
