CONSTANTS
    Projects = {"P1", "P2"}
    ManualOwner = "P1"
    Devices = {"first", "second", "third"}
    MaxCuts = 2
SPECIFICATION ProvSpec
INVARIANT FallsBackOnFlash
CHECK_DEADLOCK FALSE
