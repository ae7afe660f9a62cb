SPECIFICATION Spec
CONSTANTS
    Caller = {c1, c2}
    Workspace = {w1}
    Pool = {p1}
    Quantity = {1}
    TTL = 1
    MaxVersion = 3
    MaxCount = 3
    HasStore = FALSE
    HasClient = TRUE
    StoreMayFail = FALSE
    MayRestart = FALSE
    Prompt = TRUE
    None = None
    Free = Free
INVARIANTS
    FreshReads
