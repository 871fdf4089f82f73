\* The DMA ioctls of an add may fail.
SPECIFICATION Spec
CONSTANTS
    T = 4
    E = 2
    r1 = r1
    r2 = r2
    r3 = r3
    NoRule = NoRule
    Rules <- ThreeRules
    DstHash <- DstBuckets
    SrcHash <- SrcBuckets
    DmaMayFail = TRUE
INVARIANTS
    HandlesDistinct
    HandlesParse
    EveryRuleHasHandle
PROPERTY ImplementsStore
