CONSTANTS
    Threads = {filex, usb}
    Flusher = filex
    SectorsPerUnit = 2
    Units = 2
    Values = {a, b}
    Erased = erased
    Zero = zero
    MaxBlocks = 2
    Faults = {"read", "erase", "program", "power"}
    MaxCalls = 2
    MaxMishaps = 2
    Releases = {"v1", "v3"}
    MaxUpdateCommands = 2
    MaxFaults = 2
    MaxPowerCuts = 1
    Callers = {"net_thread", "system_thread"}
    MaxOpenFiles = 2
    Names <- Files
    UnknownDrive = {"B:log"}
    Modes = {"r", "w"}
    LineSizes = {2, 3}
    Offsets <- BackAndForth
    FirstContents <- OneLine
    Callable <- TheirCalls
    MaxLength = 2
SPECIFICATION MediaSpec
INVARIANTS
    TypeOK
    ResetFindsUpdate
    SlotsOwned
PROPERTIES
    DeviceSpec
    Flushed
    UpdateEnds
    HandleNamed
    FgetsReads
    SeekBounded
    CallsReturn
CHECK_DEADLOCK FALSE
