\* Two slots, two publishers, every fault, fair; a River that accepts the inserts.
SPECIFICATION FairSpec
CONSTANTS
    Jobs = {j1, j2}
    Publishers = {p1, p2}
    MaxAttempts = 2
    Schedule = "valid"
    AcceptsStates = TRUE
    Faults = {"crash", "db"}
INVARIANTS
    TypeOK
    OneLiveJob
    OneExecutionPerFire
    SkippedOnlyIfDeactivated
PROPERTY
    ScheduledJobsFire
