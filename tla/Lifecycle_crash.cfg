SPECIFICATION Spec
CONSTANTS
    Clients = {c1}
    Runs = {r1, r2}
    NoRun = NoRun
    Free = Free
    Plans = {"before", "after"}
    Requests = {"start", "restart", "stop", "pause", "resume", "reset", "display", "remove", "reconcile"}
    Faults = {"exit", "crash", "qmp", "spawn", "database", "cleanup", "hang"}
    SameSecond = FALSE
SYMMETRY Symmetry
CHECK_DEADLOCK FALSE
INVARIANTS TypeOK  AcceptedInFlight 
 
