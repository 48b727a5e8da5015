\* A one-shot and a recurring job, two manual runs, and two starts.
CONSTANTS
    once = once  often = often  s1 = s1  s2 = s2  c1 = c1  c2 = c2
    Jobs = {once, often}
    Services = {s1, s2}
    Calls = {c1}
    Initially <- MCInitially
    kind <- MCKind
    at <- MCAt
    Every = 2
    DeleteAfterRun = {once}
    Outcomes <- MCOutcomes
    Backoff = 1
    MaxAttempts = 1
    StuckRun = 1
    MaxConcurrent = 1
    MaxImmediate = 1
    Stagger = 1
    MaxNow = 2
    MaxEdits = 1
    MaxFaults = 1
    MaxStarts = 2
    MaxEvents = 3
    None = None
SPECIFICATION Spec
INVARIANTS TypeOK OneRunAtATime MarkersHaveOwners SchedulerStaysAwake
PROPERTIES MarkersStay NoSilentSkip
SYMMETRY ServiceSymmetry
CHECK_DEADLOCK FALSE
