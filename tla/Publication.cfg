CONSTANTS
    GYRO_MAX_AGE = 1
    GYRO_WINDOW = 1
    GYRO_MIN_SAMPLES = 2
    GYRO_MAX_BIAS = 0
    GYRO_MAX_STDDEV = 0
    ODOM_MAX_DT = 2
    SAMPLE_PERIOD = 1
    IMU_PERIOD = 2
    ODOM_PERIOD = 2
    RETRY = 3
    SYNC_GAP = 3
    SYNC_TIMEOUT = 5
    MAX_LOOP = 1
    RATES = {0}
    TURN = 1
    COS <- MCTable
    SIN <- MCTable
    TWISTS <- MCTwists
SPECIFICATION FairSpec
PROPERTY SamplesSentOnce
PROPERTY RateIsOfThisCalibration
PROPERTY SensorComesOnline
PROPERTY PublicationResumes
