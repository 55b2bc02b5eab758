CONSTANTS
    Threads = {filex, usb}
    Flusher = filex
    SectorsPerUnit = 2
    Units = 2
    Values = {a, b}
    Erased = erased
    Zero = zero
    MaxBlocks = 1
    Faults = {"fill"}
    MaxCalls = 2
    MaxMishaps = 1
SPECIFICATION SerialSpec
PROPERTY OnlyWritesChange
