\* A message and a cron run on one session, and two restarts, under fairness.
CONSTANTS
    r1 = r1  r2 = r2  c1 = c1  s1 = s1
    ChatRuns = {r1}
    CronRuns = {c1}
    Sessions = {s1}
    sessionOf <- MCSessionOf
    MainCap = 1
    MaxAttempts = 1
    MaxRestarts = 2
    NoRun = NoRun
SPECIFICATION FairSpec
INVARIANTS TypeOK OverlapOnlyAcrossRestarts
PROPERTIES RegisteredRunStaysVisible CleanDrainInterruptsNoRun LanesSpec AcceptedRequestsEnd RestartOfStartedGatewayEnds
