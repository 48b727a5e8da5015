\* One message, and a run of the agent method it may be queued behind.
CONSTANTS
    m1 = m1  m2 = m2  m3 = m3  here = here  there = there
    Msgs = {m1}
    messageId <- MCMessageId
    route <- MCOneRoute
    Unroutable = {}
    Settings <- BothModes
    Queues = {1, 2}
    MaxFailures = 1
    MaxClears = 0
    None = None
SPECIFICATION FairSpec
PROPERTIES QueuedRunsNext
