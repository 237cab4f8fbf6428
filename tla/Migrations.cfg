\* Two runs at a time, in both directions, every fault.
SPECIFICATION Spec
CONSTANTS
    Runners = {r1, r2}
    Faults = {"crash", "db"}
INVARIANTS
    TypeOK
    RecordIsTrue
    AppliedIsPrefix
PROPERTY
    SuccessIsComplete
SYMMETRY MigrationsSymmetry
