\* Two calls of a process, one of another, and a call and the sweep of a third
\* process that is given the pid of the first.
CONSTANTS
    p1 = p1  p2 = p2  p3 = p3  c1 = c1  c2 = c2  c3 = c3  c4 = c4  s3 = s3
    Procs = {p1, p2, p3}
    Late = {p3}
    Callers = {c1, c2, c3, c4, s3}
    proc <- MCProc
    pid <- MCPid
    Reentrant = {c1, c2, c4}
    Sweepers = {s3}
    StartTimes = TRUE
    MaxTroubles = 1
    None = None
SPECIFICATION Spec
INVARIANTS TypeOK ExclusiveIfUndisputed SharedUntilLast NothingLeaked
\* Processes end and nothing more happens.
CHECK_DEADLOCK FALSE
