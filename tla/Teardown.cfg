SPECIFICATION FairTeardown
CONSTANTS
    c1 = c1
    w1 = w1
    Chats <- OneChat
    Workers <- OneWorker
    Budget <- TheBudget
    PoolCapacity = 3
    Endless <- FirstTrack
    SpawnMayFail = TRUE
    JoinMayFail = FALSE
CHECK_DEADLOCK FALSE
INVARIANT
    NoCallAfterShutdown
PROPERTIES
    TeardownEnds
    IdleBotExits
