\* Nothing fails but what River refuses: a published workflow has no job.
SPECIFICATION Spec
CONSTANTS
    Jobs = {j1, j2}
    Publishers = {p1}
    MaxAttempts = 2
    Schedule = "valid"
    AcceptsStates = FALSE
    Faults = {}
INVARIANT
    ActiveIsScheduled
