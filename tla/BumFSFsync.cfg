SPECIFICATION FSpec
CONSTANTS
    Byte = {0, 1}
    Zero = 0
    ChunkSize = 1
    Ino = {i1, i2}
    NoIno = NoIno
    Fh = {f1, f2}
    Closed = Closed
    Unknown = Unknown
    MaxLen = 1
    MaxLeak = 1
    MaxFaults = 0
    MaxCrashes = 0
INVARIANT
    FsyncPersists
