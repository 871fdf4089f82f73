\* One bucket, three expansion entries: chains of four in both tables.
SPECIFICATION FairSpec
CONSTANTS
    T = 2
    E = 4
    r1 = r1
    r2 = r2
    r3 = r3
    NoRule = NoRule
    Rules <- TwoRules
    DstHash <- SameBucket
    SrcHash <- SameBucket
    DmaMayFail = FALSE
INVARIANTS
    TypeOK
    LiveRulesReachable
    NoLeak
    ChainsAcyclic
PROPERTY CallsReturn
