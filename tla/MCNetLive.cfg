SPECIFICATION Spec
CONSTANTS
    NumDevs = 2
    ethact = 0
    Unconfigured <- Eth0
    NetRetries <- Any
    Protocols <- All
    ServerErrors = FALSE
    LinkMayFail = TRUE
    ARP_TIMEOUT_COUNT = 5
    TFTP_TIMEOUT_COUNT = 10
    DHCP_TIMEOUT_COUNT = 5
    MaxBlocks = 1
    MaxBurst = 1
    MaxCommands = 1
INVARIANT OnlyCurrentReceives
PROPERTIES Terminates PauseEnds
CHECK_DEADLOCK FALSE
