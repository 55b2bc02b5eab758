CONSTANTS
    Sensors = {ens, ms}
    VoiceFft = voice_fft
    Off = off
    Thresholds = {off}
    Commands = {"S", "Ug"}
    MaxSamples = 1
    MaxCommands = 1
SPECIFICATION FairSpec
PROPERTIES SampleDelivered DeadSensorReset
