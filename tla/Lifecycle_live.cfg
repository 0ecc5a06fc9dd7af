SPECIFICATION FairSpec
CONSTANTS
    Clients = {c1, c2}
    Runs = {r1}
    NoRun = NoRun
    Free = Free
    Plans = {"before", "after"}
    Requests = {"start", "reconcile"}
    Faults = {"exit", "qmp", "spawn", "database"}
    SameSecond = FALSE
CHECK_DEADLOCK FALSE
PROPERTIES   RequestsReturn
