SPECIFICATION MCSpec
CONSTANTS
    Kinds = {"recorder", "catchup"}
    Duration = 2
    Shortest = 2
    Longest = 3
    Windows <- MCWindows
    Delay = 3
    LifeTime <- MCLifeTime
    PanicSec = 2
    Hundredth = 2
    MaxTime <- MCMaxTime
    MaxSessions <- MCMaxSessions
    Lists <- MCLists
    MaxPushed = 6
INVARIANTS
    FindsTheMoment
    PlayerNotStarved
    CatchupInOrder
PROPERTIES
    ChunksAreKept
    NeedDataReturns
CHECK_DEADLOCK FALSE
