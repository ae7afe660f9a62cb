SPECIFICATION Spec
CONSTANTS
    Caller = {c1, c2}
    UUID = {u1}
    Numbered = {u1}
    Slug = {s1, s2}
    TTL = 1
    MaxVersion = 2
    MaxFaults = 1
    None = None
    Free = Free
INVARIANTS
    TypeOK
    NamesAgree
    DroppedStaysGone
    NamesDropped
SYMMETRY Symmetry
