SPECIFICATION Spec
CONSTANTS
    Goroutine = {g1}
    Feature = {f1}
    Quantity = {1, 3}
    Limits = {5}
    MaxUsed = 6
    MaxCycle = 2
    MaxHandlers = 0
    LoadMayFail = FALSE
    SharedCounter = FALSE
PROPERTIES
    NewlyCrossed
    NoMissedCrossing
