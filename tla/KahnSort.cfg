\* Every definition of up to three ids and four edges.  The sort ends, so the spec may stop.
SPECIFICATION Spec
CHECK_DEADLOCK FALSE
CONSTANTS
    a = a
    b = b
    c = c
    unknown = unknown
    MaxEdges = 4
    Names <- AllNames
    NodeLists <- Lists
    EdgeLists <- EdgesUpTo
INVARIANTS
    TypeOK
    ResultIsTopological
    ErrorIsJustified
