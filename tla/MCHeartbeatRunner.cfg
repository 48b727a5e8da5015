\* Two agents, two runners.
CONSTANTS
    a1 = a1  a2 = a2  r1 = r1  r2 = r2  All = All  b1 = b1  b2 = b2
    Targets = {a1, a2, All}
    Agents = {a1, a2}
    Runners = {r1, r2}
    Configs <- MCConfigs
    Batches = {b1, b2}
    Coalesce = 0
    Retry = 1
    Asked = {"hook"}
    MaxNow = 2
    MaxEvents = 2
    None = None
SPECIFICATION Spec
INVARIANTS TypeOK NoWakeLost OneBatchAtATime
PROPERTIES KeepsBeating OncePerInterval
SYMMETRY BatchSymmetry
CHECK_DEADLOCK FALSE
