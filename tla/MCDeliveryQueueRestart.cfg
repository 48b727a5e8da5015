\* One delivery, two starts in a process and two processes: recoveries side by side.
CONSTANTS
    Ids = {1}
    Leftover = {}
    Parts = 1
    Options = {"strict"}
    MaxRetries = 2
    MaxStarts = 2
    MaxCrashes = 1
    MaxSendFaults = 1
    MaxDiskFaults = 1
    None = None
SPECIFICATION FairSpec
INVARIANTS AckedIsFinal
PROPERTIES RecoveryFinishes
