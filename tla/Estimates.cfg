CONSTANTS
    METRICS_GAP = 2
    METRICS_SETTLE = 2
    METRICS_DEBOUNCE = 1
    ICR = 2
    ODOM_MAX_DT = 2
    TURN = 8
    COS <- MCCos
    SIN <- MCSin
    READINGS <- MCReadings
    REPORTS <- MCReports
    DELAYS = {1, 2, 3}
    MAX_CALLS = 4
SPECIFICATION EstimatesSpec
INVARIANT TotalsAreOfIntervals
INVARIANT SteadyIsSteady
INVARIANT GaplessIsComplete
INVARIANT PoseIsTheSum
