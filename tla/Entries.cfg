SPECIFICATION Spec
CONSTANTS
    Caller = {c1}
    TTL = 1
    MaxVersion = 2
    MaxFaults = 2
    Prompt = TRUE
    None = None
    Free = Free
INVARIANTS
    TypeOK
    ListsAfterDrop
    NoneServedTooOld
