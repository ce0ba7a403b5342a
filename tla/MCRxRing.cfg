SPECIFICATION Spec
CONSTANTS
    NO_OF_RX_FIFOS = 4
    MaxPackets = 12
INVARIANTS TypeOK NothingStuck HandlerOwnsBuffer
PROPERTIES HandedInOrder HandedOnce ImplementsPacketQueue
