\* A queue of two that overflows, under every drop policy, and one clear.
CONSTANTS
    m1 = m1  m2 = m2  m3 = m3  here = here  there = there
    Msgs = {m1, m2, m3}
    messageId <- MCMessageId
    route <- MCOneRoute
    Unroutable = {}
    Settings <- AnySettings
    Queues = {1, 2}
    MaxFailures = 0
    MaxClears = 1
    None = None
SYMMETRY Interchangeable
SPECIFICATION Spec
PROPERTIES ClearedNeverRun
