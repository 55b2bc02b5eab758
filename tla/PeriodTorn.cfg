CONSTANTS
    Modulus = 16
    Periods = {0, 2, 5}
    InitialPeriod = 4
    MaxWork = 6
    MaxSlip = 2
    MaxCommands = 2
SPECIFICATION Spec
INVARIANT SleepWithinPeriod
