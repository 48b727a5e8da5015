\* Two lanes, three calls and two in-process restarts: a lane can hold two
\* running entries and a waiting one, or tasks of two generations.
CONSTANTS
    Lanes = {l1, l2}
    Entries = {e1, e2, e3}
    MaxConcurrency = 2
    MaxGeneration = 2
SPECIFICATION Spec
SYMMETRY Symmetry
INVARIANTS TypeOK BookkeepingExact WorkConserving NoOvertaking DrainedMeansSettled
PROPERTIES StartsWithinCap
