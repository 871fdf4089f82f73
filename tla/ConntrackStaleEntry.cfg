\* The WAN comes back with another public address.
SPECIFICATION Spec
CONSTANTS
    p1 = p1
    p2 = p2
    t1 = t1
    t2 = t2
    t3 = t3
    x1 = x1
    c1 = c1
    c2 = c2
    c3 = c3
    c4 = c4
    NoConn = NoConn
    Conns <- TwoConns
    Clients <- OneClient
    PubIps <- TwoIps
    PrivateIp <- ThePrivateIp
    TargetIp <- TheTargetIp
    AlgConns = {}
    IncompleteConns = {}
    Unflagged = {c3}
    StaSubnet <- TheStaSubnet
    MaxEntries = 2
    MaxTemp = 1
    MaxPwrSave = 1
    MaxIfaces = 1
    MaxSta = 1
INVARIANT EnabledEntriesInstalled
