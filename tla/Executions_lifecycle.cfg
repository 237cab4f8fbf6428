\* Two executions of a one-node workflow, two callers, every fault.
SPECIFICATION Spec
CONSTANTS
    a = a
    b = b
    c = c
    d = d
    NoExec = NoExec
    Nodes = {a}
    Edges <- Single
    Retry <- NoRetry
    Execs = {e1, e2}
    Requests = {r1, r2}
    MaxAttempts = 2
    Faults = {"crash", "db", "timeout"}
SYMMETRY ExecSymmetry
INVARIANTS
    TypeOK
    FinishedRowIsCoherent
    CompletedJobSucceeded
    OnlyTheQueueRuns
PROPERTIES
    SettledRowIsFrozen
    ImplementsLifecycle
