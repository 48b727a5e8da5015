\* A queue of two overflows while its front is being run.
CONSTANTS
    m1 = m1  m2 = m2  m3 = m3  here = here  there = there
    Msgs = {m1, m2, m3}
    messageId <- MCMessageId
    route <- MCOneRoute
    Unroutable = {}
    Settings <- FollowupOld
    Queues = {1}
    MaxFailures = 0
    MaxClears = 0
    None = None
SPECIFICATION Spec
INVARIANTS NoSilentLoss
