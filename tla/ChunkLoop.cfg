SPECIFICATION Spec
CONSTANTS
    Byte = {0, 1}
    ChunkSize = 3
    MaxLen = 7
INVARIANTS
    TypeOK
    LoopCutsData
    ReadsBackWhatWasWritten
