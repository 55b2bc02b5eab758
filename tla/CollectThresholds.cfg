CONSTANTS
    Sensors = {ens, ms}
    VoiceFft = voice_fft
    Off = off
    Thresholds = {off, low}
    Commands = {"U", "T"}
    MaxSamples = 0
    MaxCommands = 2
SPECIFICATION FairSpec
INVARIANT ThresholdPending
PROPERTY ThresholdApplied
