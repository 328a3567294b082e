SPECIFICATION Spec
CONSTANTS
    p1 = p1
    p2 = p2
    Pipelines <- TwoPipelines
    Fds <- FourFds
    Size <- Sizes23
    Capacity = 1
    Frame = 2
    SpawnMayFail = TRUE
    Pausable <- First
    Stoppable <- First
CHECK_DEADLOCK FALSE
INVARIANTS
    TypeOK
    StreamsApart
    NoDescriptorLeak
    ReapedUnlessStopped
    NothingElseBlocks
    OnlyInheritanceBlocks
    NothingSurvivesStop
PROPERTIES
    ImplementsPcmStream
