SPECIFICATION Spec
CONSTANTS
    c1 = c1
    c2 = c2
    Chunk <- MCChunk
    Size <- MCSize
    NoChunk = NoChunk
    MaxBytes = 2
    QueueCap = 2
    MaxDebt = 0
    MaxFaults = 0
    MaxCrashes = 0
INVARIANT
    AcceptedReadable
CHECK_DEADLOCK FALSE
