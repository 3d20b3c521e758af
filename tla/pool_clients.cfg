CONSTANTS
    Getters = {g1, g2, g3, g4, g5}
    WaitAllCallers = {a}
    InitRequests = 2
    MaxRequests = 3
SYMMETRY ThreadSymmetry
SPECIFICATION Spec
INVARIANTS
    TypeOK
    RequestsExclusive
    NoLostWakeup
PROPERTY WaitAllMeansIdle
