CONSTANTS
    Releases = {"v1", "v3"}
    MaxUpdateCommands = 2
    MaxFaults = 2
    MaxPowerCuts = 1
SPECIFICATION UpdateSpec
INVARIANT NoConcurrentMedia
CHECK_DEADLOCK FALSE
