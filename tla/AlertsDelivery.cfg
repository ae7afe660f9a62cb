\* Two goroutines deliver while handlers register, limits change, others
\* consume, billing cycles end and loads fail.
SPECIFICATION FairSpec
CONSTANTS
    Goroutine = {g1, g2}
    Feature = {f1}
    Quantity = {4}
    Limits = {0, 5}
    MaxUsed = 8
    MaxCycle = 1
    MaxHandlers = 2
    LoadMayFail = TRUE
    SharedCounter = TRUE
INVARIANTS
    TypeOK
    RegistrationOrder
PROPERTIES
    EveryHandlerHears
