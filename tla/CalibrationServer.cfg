CONSTANTS
    Client = {a}
    PARAMETERS = {p, q}
    SUBTESTS = 2
    QUEUE = 1
    MANUAL_LEASE = 1
    PRESENCE_LEASE = 1
    TRIAL = 1
    BOARD_STOPS = TRUE
    MAX_ARMS = 2
    MAX_TRIALS = 2
    MAX_CALLS = 1
SYMMETRY Symmetry
SPECIFICATION Spec
INVARIANT TypeOK
INVARIANT StopIsLast
INVARIANT OrdersAreOfThisArm
INVARIANT CompleteIsOfOneSetting
PROPERTY ManualIsFresh
