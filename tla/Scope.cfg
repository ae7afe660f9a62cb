SPECIFICATION Spec
CONSTANTS
    u1 = u1
    u2 = u2
    s1 = s1
    s2 = s2
    h1 = h1
    UUID = {u1, u2}
    Slug = {s1, s2}
    Host = {h1}
    SlugIn <- MCSlugIn
    IdOf <- MCIdOf
    CountOf <- MCCountOf
    HeaderId = {1, 3, 9}
    Bogus = Bogus
    Body <- MCBody
    MaxId = 3
    MaxMoves = 2
    None = None
INVARIANTS
    TypeOK
    ServedAsNamed
    UnscopedOnlyByBlank
    HostBeatsQuery
    OutageIsNotAbsence
    CountsAreItsOwn
