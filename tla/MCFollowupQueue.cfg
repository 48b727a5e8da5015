\* Three messages of two destinations, one a redelivery, no overflow.
CONSTANTS
    m1 = m1  m2 = m2  m3 = m3  here = here  there = there
    Msgs = {m1, m2, m3}
    messageId <- MCRedelivery
    route <- MCTwoRoutes
    Unroutable = {there}
    Settings <- BothModes
    Queues = {1, 2, 3}
    MaxFailures = 1
    MaxClears = 0
    None = None
SPECIFICATION FairSpec
INVARIANTS TypeOK NoSilentLoss AnsweredInOrder OneDrain
PROPERTIES QueuedGetTurn
