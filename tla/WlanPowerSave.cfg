\* An access point with two clients, one of which sleeps.
SPECIFICATION Spec
CONSTANTS
    m1 = m1
    m2 = m2
    m3 = m3
    p1 = p1
    p2 = p2
    q1 = q1
    q2 = q2
    NoAddr = NoAddr
    NoHdr = NoHdr
    Kinds <- OnlyWlan
    Macs <- TwoMacs
    V4Addrs <- TwoV4
    V6Addrs <- TwoV6
    MaxClients = 2
    MaxV6 = 2
    LossyKinds = {}
    MaxFail = 4
    MaxCopies = 3
SYMMETRY ClientSymmetry
INVARIANT AsleepNotRouted
