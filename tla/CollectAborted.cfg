CONSTANTS
    Sensors = {ens, ms}
    VoiceFft = voice_fft
    Off = off
    Thresholds = {off}
    Commands = {"S"}
    MaxSamples = 2
    MaxCommands = 1
SPECIFICATION Spec
INVARIANT PublishedAfterReceived
