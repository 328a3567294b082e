SPECIFICATION Spec
CONSTANTS
    c1 = c1
    w1 = w1
    w2 = w2
    Chats <- OneChat
    Workers <- OneWorker
    Budget <- SkipBudget
    PoolCapacity = 20
    Endless <- AllThree
    SpawnMayFail = FALSE
    JoinMayFail = FALSE
INVARIANT
    SkipAdvancesOneTrack
