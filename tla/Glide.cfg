CONSTANTS
    CONFIGS <- MCConfigs
    MAX_STEPS = 2
    GAIN = 1
    REST_V = 2
    REST_A = 1
    BAD_MAX = 2
    REQUESTS <- MCRequests
    RATES <- MCRates
SPECIFICATION Spec
INVARIANT NeverRefused
PROPERTY ShapingIsSmooth
PROPERTY NoWindup
