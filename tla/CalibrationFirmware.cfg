CONSTANTS
    WHEEL_COUNT = 1
    CONTROL_PERIOD = 1
    FEEDBACK_MAX_AGE = 1
    PROFILE_MAX_DT = 1
    GYRO_MAX_AGE = 1
    GYRO_WINDOW = 1
    GYRO_MIN_SAMPLES = 2
    GYRO_MAX_BIAS = 0
    GYRO_MAX_STDDEV = 0
    HEARTBEAT = 2
    OPERATOR = 1
    RELEASE = 2
    BOUNDS = {2}
    SLACK = 2
    MAX_LOOP = 2
    RATES = {0}
SPECIFICATION Spec
INVARIANT MotionIsLeased
INVARIANT LeasesInTime
INVARIANT WheelsMoveTogether
INVARIANT StoppedMeansBraked
PROPERTY SetpointsAreLeased
PROPERTY ImplementsDeadman
