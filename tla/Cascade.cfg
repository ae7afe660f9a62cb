\* Up to two packages and two boosts; the feature, the lists and the count may not load.
SPECIFICATION Spec
CONSTANTS
    Unlisted = Unlisted
    Nil = Nil
    MaxInt = 127
    Packages <- MCPackages
    Boosts <- MCBoosts
    MaxPackages = 2
    MaxBoosts = 2
    Types = {"boolean", "limit", "unlimited"}
    Counts = {0, 2}
    Quantities <- MCQuantities
    MayFail = {"feature", "packages", "boosts", "usage"}
INVARIANTS
    TypeOK
    CanFollowsCascade
    SummaryAgrees
    OrderIsIrrelevant
    MoreNeverDenies
    FailsClosed
CHECK_DEADLOCK FALSE
