\* The queue is cleared while a turn is under way, and a message comes in.
CONSTANTS
    m1 = m1  m2 = m2  m3 = m3  here = here  there = there
    Msgs = {m1, m2}
    messageId <- MCMessageId
    route <- MCOneRoute
    Unroutable = {}
    Settings <- BothModes
    Queues = {1, 2}
    MaxFailures = 0
    MaxClears = 1
    None = None
SPECIFICATION Spec
INVARIANTS NoSilentLoss
