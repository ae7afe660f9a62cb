SPECIFICATION FairSpec
CONSTANTS
    Caller = {c1, c2}
    Workspace = {w1}
    Pool = {p1}
    Quantity = {1}
    TTL = 1
    MaxVersion = 2
    MaxCount = 3
    HasStore = TRUE
    HasClient = TRUE
    StoreMayFail = TRUE
    MayRestart = TRUE
    Prompt = FALSE
    None = None
    Free = Free
INVARIANTS
    CachedWasTrue
PROPERTIES
    CallsReturn
    EventuallyFresh
    ImplementsCopies
