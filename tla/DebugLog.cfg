SPECIFICATION DebugLogSpec
CONSTANTS
    LogSize = 8
    MaxEntry = 3
    MaxRecords = 7
    LogReaders = {r1}
INVARIANT DlogViewKept
CHECK_DEADLOCK FALSE
