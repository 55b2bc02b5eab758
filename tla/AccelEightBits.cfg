CONSTANTS
    Resolution = 12
    Accelerations = {17, 999}
    Temperatures = {30}
    MaxReads = 1
SPECIFICATION DataSpec
INVARIANT ReadingHonest
CHECK_DEADLOCK FALSE
