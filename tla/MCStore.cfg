SPECIFICATION Spec
CONSTANTS
    c1 = c1
    c2 = c2
    github = github
    wandb = wandb
    telegram = telegram
    local = local
    drain = drain
    handler = handler
    Router = Router
    NoRef = NoRef
    NoWork = NoWork
    Empty = Empty
    Garbled = Garbled
    NoBackend = NoBackend
    NoKey = NoKey
    Key <- MCKey
    Backend <- MCBackend
    Kind <- MCKind
    Ix <- MCIx
    Ref <- MCRef
    Limit <- MCLimit
    Caller <- MCCaller
    Does <- MCDoes
    MaxWrites = 2
    MaxFaults = 2
SYMMETRY Symmetry
INVARIANTS
    TypeOK
    FileHoldsIndex
    OneCopy
PROPERTY
    ImplementsBlobStore
CHECK_DEADLOCK FALSE
