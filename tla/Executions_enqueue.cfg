\* A request that ends between the row and the job.
SPECIFICATION Spec
CONSTANTS
    a = a
    b = b
    c = c
    d = d
    NoExec = NoExec
    Nodes = {a}
    Edges <- Single
    Retry <- NoRetry
    Execs = {e1}
    Requests = {r1}
    MaxAttempts = 2
    Faults = {"crash", "db"}
INVARIANT
    EveryExecutionIsEnqueued
