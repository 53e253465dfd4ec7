SPECIFICATION LiveSpec
CONSTANTS
    c1 = c1
    c2 = c2
    Chunk <- MCChunk
    Size <- MCSize
    NoChunk = NoChunk
    MaxBytes = 2
    QueueCap = 1
    MaxDebt = 0
    MaxFaults = 3
    MaxCrashes = 1
PROPERTIES
    ImplementsChunkStore
    EveryChunkDrains
    WriteUnblocks
    MountReturns
CHECK_DEADLOCK FALSE
