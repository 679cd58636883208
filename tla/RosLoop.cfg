CONSTANTS
    WHEEL_COUNT = 2
    CONTROL_PERIOD = 1
    FEEDBACK_MAX_AGE = 2
    PROFILE_MAX_DT = 2
    GYRO_MAX_AGE = 1
    GYRO_WINDOW = 1
    GYRO_MIN_SAMPLES = 2
    GYRO_MAX_BIAS = 0
    GYRO_MAX_STDDEV = 0
    COMMAND_TIMEOUT = 3
    WATCHDOG_PERIOD = 2
    SAMPLE_PERIOD = 1
    HOST_TIMEOUT = 2
    MAX_LOOP = 3
    RATES = {0}
SPECIFICATION Spec
INVARIANT MotionWithinTimeout
INVARIANT MotionIsGated
INVARIANT WheelsMoveTogether
INVARIANT StoppedMeansBraked
PROPERTY ResumesFromBrake
PROPERTY ReleaseIsEarned
PROPERTY BiasIsFrozen
PROPERTY StallIsNoticed
PROPERTY ImplementsDeadman
