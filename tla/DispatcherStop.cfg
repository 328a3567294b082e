SPECIFICATION Spec
CONSTANTS
    c1 = c1
    w1 = w1
    w2 = w2
    Chats <- OneChat
    Workers <- TwoWorkers
    Budget <- StopBudget
    PoolCapacity = 20
    Endless <- NoTracks
    SpawnMayFail = FALSE
    JoinMayFail = FALSE
INVARIANT
    StopSilences
