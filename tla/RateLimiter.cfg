SPECIFICATION Spec
CONSTANTS
    user = user
    glutton = glutton
    Entities <- MCEntities
    Price <- MCPrice
    Rate = 1
    Burst = 12
    MaxTime = 8
INVARIANTS
    EveryWindowBounded
PROPERTY
    ImplementsWindowLimiter
