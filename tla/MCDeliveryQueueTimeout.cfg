\* One strict delivery, whose send may time out.
CONSTANTS
    Ids = {1}
    Leftover = {}
    Parts = 2
    Options = {"strict"}
    MaxRetries = 2
    MaxStarts = 1
    MaxCrashes = 0
    MaxSendFaults = 1
    MaxDiskFaults = 0
    None = None
SPECIFICATION Spec
INVARIANTS RemovedAfterSuccess
