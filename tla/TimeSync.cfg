CONSTANTS
    US_NS = 2
    MAX_RTT = 2
    TIMEOUT = 4
    PERIOD = 4
    HOST_TIMEOUT = 6
    MAX_ROS = 11
    INT_MAX = 16
    WALLS = {1}
    CLOCK_STEPS <- MCSteps
    STEP_GAP = 12
    MAX_LOCAL = 10
    MAX_WALL = 12
    MAX_IN_FLIGHT = 1
SPECIFICATION Spec
INVARIANT StampIsAccurate
INVARIANT StampsRecover
PROPERTY OneSyncPerProbe
CHECK_DEADLOCK FALSE
