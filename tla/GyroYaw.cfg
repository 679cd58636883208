CONSTANTS
    GYRO_MAX_AGE = 2
    GYRO_WINDOW = 3
    GYRO_MIN_SAMPLES = 3
    GYRO_MAX_BIAS = 1
    GYRO_MAX_STDDEV = 1
    RAW_RATES <- MCRawRates
    MAX_LOG = 5
SPECIFICATION GyroYawSpec
PROPERTY CalibratesOnGoodWindow
PROPERTY GoodWindowCalibrates
