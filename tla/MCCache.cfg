SPECIFICATION Spec
CONSTANTS
    c1 = c1
    c2 = c2
    Chunk <- MCChunk
    Size <- MCSize
    NoChunk = NoChunk
    MaxBytes = 2
    QueueCap = 2
    MaxDebt = 0
    MaxFaults = 3
    MaxCrashes = 1
CONSTRAINT SomeUnexposed
INVARIANTS
    TypeOK
    AccountingExact
    WithinLimit
    SleeperHasDrain
    ReadableUnlessExposed
    CloseDrains
CHECK_DEADLOCK FALSE
