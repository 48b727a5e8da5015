\* Two messages to one session around a restart.
CONSTANTS
    r1 = r1  r2 = r2  c1 = c1  s1 = s1
    ChatRuns = {r1, r2}
    CronRuns = {}
    Sessions = {s1}
    sessionOf <- MCSessionOf
    MainCap = 2
    MaxAttempts = 1
    MaxRestarts = 1
    NoRun = NoRun
SPECIFICATION Spec
INVARIANTS OneRunPerSession
