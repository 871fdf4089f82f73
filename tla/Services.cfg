\* The services of which safety is asked.
SPECIFICATION ServicesSafety
CONSTANTS
    Concerns = {"uplink", "downlink", "neighbours", "file transfer", "radio dispatch", "radio service", "ril events", "ril sap", "agps", "tasks", "session", "configuration", "soft ap", "soft ap driver"}
    usb0 = usb0
    rmnet0 = rmnet0
    m1 = m1
    m2 = m2
    m3 = m3
    NoMsg = NoMsg
    NoEvent = NoEvent
    Msgs <- ThreeMsgs
    Events <- AllEvents
    Ifaces <- LanAndWan
    Kind <- LanAndWanKinds
    MaxPosted = 2
    Scenarios <- UplinkScenarios
    MaxUplinkEvents = 4
    MaxWaiting = 2
    Pdns = {"p1", "p2"}
    FirewallFiles <- OffAndOn
    FilterScenarios <- DownlinkScenarios
    AlgPorts = 1
    QMI_IPA_MAX_FILTERS = 16
    IPACM_MAX_FIREWALL_ENTRIES = 4
    BuildFailures = {1}
    MaxFilterEvents = 5
    Macs = {"a", "b"}
    IPA_MAX_NUM_NEIGHBOR_CLIENTS = 1
    MaxNeighEvents = 3
    MaxIndex = 4
    NUM_LINK_RETRIES = 3
    MAX_STATUS_UP_CHECKS = 2
    MaxModemEvents = 3
    Blocks = 3
    NUM_PING_RETRIES = 2
    MAX_WRITE_RETRY = 3
    MaxLost = 2
    MaxLate = 2
    Versions = {12, 15}
    VendorErrors = {"GENERIC_FAILURE"}
    Services = {"radio", "oemhook"}
    Vendor = {"v1"}
    MaxGenerations = 2
    VendorThreads = {"v1", "v2"}
    WAKE_TIMEOUT = 2
    MaxTimers = 3
    Tokens = {1, 2}
    MaxPending = 2
    MaxClients = 2
    Ids = {1, 2}
    EsIds = {1}
    MAX_START_DATA_CALL_RETRIES = 1
    MaxInbox = 3
    MaxNiRequests = 2
    MaxNiResets = 1
    Clients = {"c1", "c2"}
    MaxTime = 3
    MaxStarts = 2
    MaxSent = 3
    MaxSessionCalls = 3
    MaxRestarts = 1
    MaxSessionQ = 3
    Changing = {"SUPL_VER"}
    Servers = {"SUPL_SERVER"}
    MaxUpdates = 2
    MaxForgets = 1
    SendNmea = TRUE
    MAX_ALLOWED_MAC = 3
    ConfFiles = {"hostapd", "dual2g"}
    DefaultConf <- HostapdConf
    DefaultIni <- DriverIni
    Asked <- AskedValues
    Scripts <- CommandLines
    MaxSets = 2
    MaxFileFaults = 1
    HasSdioIf = TRUE
    MaxDriverCalls = 3
    MaxDriverFaults = 4
INVARIANTS
    ServicesTypeOK
    UplinkRulesHeld
    DownlinkMatches
    NeighboursPlaced
    
    AnsweredInKind
    HeldHasTimer
    
    ModemAgrees
    TaskSafe
    
    
    SetTakesEffect
    
PROPERTIES
    LiveCallbackKept
CHECK_DEADLOCK FALSE
