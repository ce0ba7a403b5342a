SPECIFICATION Spec
CONSTANTS
    NumDevs = 3
    ethact = 0
    Unconfigured <- Eth0
    NetRetries <- Once
    Protocols <- Tftp
    ServerErrors = FALSE
    LinkMayFail = TRUE
    ARP_TIMEOUT_COUNT = 5
    TFTP_TIMEOUT_COUNT = 10
    DHCP_TIMEOUT_COUNT = 5
    MaxBlocks = 1
    MaxBurst = 2
    MaxCommands = 1
INVARIANTS FailsOnlyAfterAll StartedOnce
CHECK_DEADLOCK FALSE
