\* Two requests at a time on one workflow of every kind, every fault, fair.
SPECIFICATION FairSpec
CONSTANTS
    Callers = {c1, c2}
    Secrets = {s1, s2}
    NoSecret = NoSecret
    Definitions = {"webhook", "cron", "plain", "invalid"}
    MaxExecs = 2
    Faults = {"crash", "db"}
INVARIANTS
    TypeOK
    AnsweredSecretHolds
    DeletedLeavesNothing
    ActiveWebhookHasSecret
PROPERTIES
    RunsSawActive
    EveryCallEnds
