SPECIFICATION Spec
CONSTANTS
    NumDevs = 2
    ethact = 0
    Unconfigured <- None
    NetRetries <- Any
    Protocols <- All
    ServerErrors = TRUE
    LinkMayFail = TRUE
    ARP_TIMEOUT_COUNT = 5
    TFTP_TIMEOUT_COUNT = 1
    DHCP_TIMEOUT_COUNT = 2
    MaxBlocks = 0
    MaxBurst = 1
    MaxCommands = 2
INVARIANT TypeOK
PROPERTY ArpOfThisCommand
CHECK_DEADLOCK FALSE
