\* One execution of a diamond whose node b is retried once; processes die, fair.
SPECIFICATION FairSpec
CONSTANTS
    a = a
    b = b
    c = c
    d = d
    NoExec = NoExec
    Nodes = {a, b, c, d}
    Edges <- Diamond
    Retry <- RetryB
    Execs = {e1}
    Requests = {r1}
    MaxAttempts = 3
    Faults = {"crash"}
INVARIANTS
    NodeSeesAllParents
    CallsAreBounded
PROPERTIES
    JobsSettle
    AcceptedExecutionsFinish
