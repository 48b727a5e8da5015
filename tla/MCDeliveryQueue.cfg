\* Two deliveries of two payloads, one left by an earlier process.
CONSTANTS
    Ids = {1, 2}
    Leftover = {1}
    Parts = 2
    Options = {"strict", "watched"}
    MaxRetries = 2
    MaxStarts = 1
    MaxCrashes = 1
    MaxSendFaults = 1
    MaxDiskFaults = 1
    None = None
SPECIFICATION Spec
INVARIANTS TypeOK AtLeastOnce NothingOverlooked
PROPERTIES PromiseKept
