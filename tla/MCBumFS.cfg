SPECIFICATION Spec
CONSTANTS
    Byte = {0, 1}
    Zero = 0
    ChunkSize = 1
    Ino = {i1, i2}
    NoIno = NoIno
    Fh = {f1}
    Closed = Closed
    MaxLen = 2
    MaxLeak = 1
    MaxFaults = 1
    MaxCrashes = 1
SYMMETRY Symmetry
INVARIANTS
    TypeOK
    RefCountCovers
    FlushedDataInPlace
PROPERTY
    CollectionSparesMapped
