CONSTANTS
    Registers <- TableRegisters
    Fields <- TableFields
    Triggers <- TableTriggers
    Status <- TableStatus
    Affects <- ChangedBy
    Arguments = {1, 12, 255}
    Contents <- Uniform
    MaxCalls = 2
    MaxMisses = 1
    Resolution = 12
    Accelerations <- TwoAccelerations
    Temperatures <- TwoTemperatures
    MaxReads = 1
    MagContents <- Uniform
    MagArguments = {0, 3, 255}
    MaxTransfers = 34
    MaxMagCalls = 3
    MaxMagMisses = 1
    MagneticXY <- TwoXY
    MagneticZ <- TwoZ
    Resistances = {0, 6001}
    MagTrims <- SomeTrims
    MaxMagReads = 1
    Threads <- TwoThreads
    Device <- Address
    MaxRequests = 3
    Osr = 5
    ConversionTime = 17
    MaxSamples = 3
    MaxFaults = 2
    ConversionTimes = {110, 130}
    MaxEnsSamples = 3
    MaxEnsFaults = 3
    FFT_SIZE = 3
    AVG_CNT = 0
    MaxMicSamples = 8
    Modulus = 8
    Periods = {0, 2, 5}
    InitialPeriod = 4
    MaxWork = 5
    MaxSlip = 2
    MaxCommands = 2
SPECIFICATION PartsSpec
INVARIANTS
    TypeOK
    OnTime
    AccelKept
    ModeKept
    AccelDecoded
    MagKept
    MagInState
    MagDecoded
    OwnDevice
    TransferWhole
    PressureSound
    PressureAnswers
    LowPowerRestored
PROPERTIES
    TrimWhole
    ValueFresh
    RequestAnswered
    WindowsAveraged
CHECK_DEADLOCK FALSE
