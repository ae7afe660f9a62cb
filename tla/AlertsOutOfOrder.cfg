SPECIFICATION Spec
CONSTANTS
    Goroutine = {g1, g2}
    Feature = {f1}
    Quantity = {1, 3}
    Limits = {5}
    MaxUsed = 6
    MaxCycle = 0
    MaxHandlers = 0
    LoadMayFail = FALSE
    SharedCounter = FALSE
PROPERTIES
    NewlyCrossed
