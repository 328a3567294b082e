SPECIFICATION TurnsSpec
CONSTANTS
    c1 = c1
    w1 = w1
    w2 = w2
    Chats <- OneChat
    Workers <- TwoWorkers
    Budget <- TurnsBudget
    PoolCapacity = 20
    Endless <- SecondTrack
    SpawnMayFail = TRUE
    JoinMayFail = TRUE
SYMMETRY Symmetric
INVARIANTS
    SkipCanAdvance
    StopSilences
PROPERTY
    ImplementsPlaylist
