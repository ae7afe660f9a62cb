SPECIFICATION Spec
CONSTANTS
    Caller = {c1}
    Workspace = {w1}
    Pool = {p1, p2}
    Quantity = {1}
    TTL = 1
    MaxVersion = 2
    MaxCount = 3
    HasStore = TRUE
    HasClient = TRUE
    StoreMayFail = TRUE
    MayRestart = TRUE
    Prompt = TRUE
    None = None
    Free = Free
INVARIANTS
    TypeOK
    CachedWasTrue
    BoundedStaleness
    FreshReads
PROPERTIES
    ImplementsCopies
