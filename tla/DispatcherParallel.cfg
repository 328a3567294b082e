SPECIFICATION Spec
CONSTANTS
    c1 = c1
    w1 = w1
    w2 = w2
    Chats <- OneChat
    Workers <- TwoWorkers
    Budget <- ParallelBudget
    PoolCapacity = 2
    Endless <- NoTracks
    SpawnMayFail = TRUE
    JoinMayFail = FALSE
SYMMETRY Symmetric
CONSTRAINT ThreeCommands
CHECK_DEADLOCK FALSE
INVARIANTS
    ReadersOwnLiveObjects
    MemoryErrorsNeedARace
    NobodyWaitsInVain
PROPERTIES
    UsesPcmStream
    OnlyAFullPoolCrashes
