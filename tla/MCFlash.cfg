SPECIFICATION Spec
CONSTANTS
    CFG_FLASH_BASE = 2
    SectorSize = 3
    SectorCount = 3
    PageSize = 3
    AddrSpace = 13
    Counts = {4}
INVARIANTS WriteExact RangeExact
