CONSTANTS
    Threads = {filex, usb}
    Flusher = filex
    SectorsPerUnit = 2
    Units = 2
    Values = {a, b}
    Erased = erased
    Zero = zero
    MaxBlocks = 1
    Faults = {}
    MaxCalls = 2
    MaxMishaps = 0
SPECIFICATION Spec
PROPERTY OnlyWritesChange
