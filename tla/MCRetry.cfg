SPECIFICATION RetrySpec
CHECK_DEADLOCK FALSE
CONSTANTS
    Configs <- MCConfigs
    MaxInt = 31
INVARIANTS
    SuccessIsTimely
    NoEarlySurrender
    WaitsInRange
PROPERTIES
    Returns
