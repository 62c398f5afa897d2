SPECIFICATION FairSpec
CONSTANTS
    a = a
    b = b
    p = p
    q = q
    u = u
    v = v
    Ids = {a, b}
    Initial <- SomeInstances
    Layouts <- SomeLayouts
    Watched = {u}
    Paths = {p, q}
    Users = {u, v}
    Sessions = {session}
    Timer = Timer
    Commanded = {v}
    MaxRequests = 1
    Free = Free
    NoId = NoId
    NoUser = NoUser
    Content <- SomeContent
INVARIANTS
    TypeOK
    SavedAsFiled
PROPERTIES
    OnlyTarget
    LinesKept
    MonitoredUnlessFailing
    StopEnds
