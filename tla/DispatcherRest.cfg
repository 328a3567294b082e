SPECIFICATION FairSpec
CONSTANTS
    c1 = c1
    w1 = w1
    w2 = w2
    Chats <- OneChat
    Workers <- OneWorker
    Budget <- RestBudget
    PoolCapacity = 3
    Endless <- NoTracks
    SpawnMayFail = FALSE
    JoinMayFail = FALSE
INVARIANTS
    NoStrandedTrack
    SessionTellsTruth
    InCallWhilePlaying
PROPERTIES
    ComesToRest
    OnlyAFullPoolCrashes
