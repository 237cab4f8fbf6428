\* Nothing but the node fails.
SPECIFICATION Spec
CONSTANTS
    a = a
    b = b
    c = c
    d = d
    NoExec = NoExec
    Nodes = {a}
    Edges <- Single
    Retry <- NoRetry
    Execs = {e1}
    Requests = {r1}
    MaxAttempts = 2
    Faults = {}
PROPERTY
    FinalStatesAreFinal
