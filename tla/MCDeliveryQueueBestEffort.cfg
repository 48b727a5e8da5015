\* One bestEffort delivery fails, is kept, and is replayed by the next process.
CONSTANTS
    Ids = {1}
    Leftover = {}
    Parts = 2
    Options = {"watched"}
    MaxRetries = 2
    MaxStarts = 1
    MaxCrashes = 1
    MaxSendFaults = 2
    MaxDiskFaults = 0
    None = None
SPECIFICATION Spec
INVARIANTS PartialFailureKept
