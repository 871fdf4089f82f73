\* The DMA ioctls of an add may fail.
SPECIFICATION Spec
CONSTANTS
    T = 2
    E = 4
    r1 = r1
    r2 = r2
    r3 = r3
    NoRule = NoRule
    Rules <- TwoRules
    DstHash <- SameBucket
    SrcHash <- SameBucket
    DmaMayFail = TRUE
INVARIANT NoSelfLink
