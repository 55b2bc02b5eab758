CONSTANTS
    Sensors = {ens, ms}
    VoiceFft = voice_fft
    Off = off
    Thresholds = {off}
    Commands = {"S", "U", "Ug"}
    MaxSamples = 2
    MaxCommands = 1
    Projects = {"P1", "P2"}
    ManualOwner = "P1"
    Devices = {"first", "second"}
    MaxCuts = 2
SPECIFICATION BoardSpec
SYMMETRY Symmetry
INVARIANTS
    TypeOK
    Handshake
    ExactlyOnce
    SnapshotWhole
    RecordLeftAlone
PROPERTIES
    SharedStable
    DeliverySpec
    EnrolledOnce
