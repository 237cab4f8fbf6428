\* Two requests at a time, two workspaces, two tables, and a full list.
SPECIFICATION Spec
CONSTANTS
    Callers = {c1, c2}
    Workspaces = {w1, w2}
    Tables = {t1, t2}
    Values = {v1, v2}
    NoData = NoData
    MaxRows = 2
    ListLimit = 1
    Faults = {"db"}
INVARIANTS
    TypeOK
    RowsBelongToTheirTable
PROPERTIES
    ChangesAreRequested
    RepliesAreTrue
    ErrorsAreRaces
SYMMETRY DataTablesSymmetry
