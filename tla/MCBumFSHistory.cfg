SPECIFICATION HSpec
CONSTANTS
    Byte = {0}
    Zero = 0
    ChunkSize = 2
    Ino = {i1, i2}
    NoIno = NoIno
    Fh = {f1, f2}
    Closed = Closed
    MaxLen = 3
    MaxLeak = 1
    MaxFaults = 0
    MaxCrashes = 0
SYMMETRY Symmetry
INVARIANTS
    LossOnlyBySharing
    LeakOnlyByRemoval
    SizeAgrees
