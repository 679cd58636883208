CONSTANTS
    WHEEL_COUNT = 2
    LEFT = {0}
    TICK_PERIOD = 1
    PROFILE_MAX_DT = 1
    DURATIONS = {1, 2}
    MAX_LOOP = 2
SPECIFICATION Spec
INVARIANT RunsEnd
INVARIANT TurnsAsTold
INVARIANT OnlySelectedTurn
