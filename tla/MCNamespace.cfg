SPECIFICATION Spec
CONSTANTS
    Root = Root
    Node = {n1, n2, n3, n4}
    Name = {a, b}
    Nowhere = Nowhere
    MaxFaults = 1
SYMMETRY Symmetry
INVARIANTS
    TypeOK
    NlinkDrift
    RenameKeepsSource
    NamesFormTree
PROPERTY
    ImplementsFileTree
