SPECIFICATION Spec
CONSTANTS
    s1 = s1  s2 = s2  b = b
    a1 = a1  a2 = a2  a3 = a3  a4 = a4
    DhcpServers = {s1, s2}
    BootpServers = {b}
    Addresses = {a1, a2, a3, a4}
    NoIP = NoIP
    Pool <- Pools
    Siaddr = {s2}
    Broadcasts = {b}
    OtherIds = {0}
    NetRetries = {"yes", "no"}
    TIMEOUT_COUNT = 2
    MaxIds = 6
    MaxFaults = 2
INVARIANTS TypeOK BoundToLease BootFromBinder OffersOnly
PROPERTY Binds
CHECK_DEADLOCK FALSE
