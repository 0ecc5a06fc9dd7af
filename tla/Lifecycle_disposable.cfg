SPECIFICATION FairSpec
CONSTANTS
    Clients = {c1}
    Runs = {r1, r2}
    NoRun = NoRun
    Free = Free
    Plans = {"none"}
    Requests = {"start"}
    Faults = {"exit"}
    SameSecond = FALSE
CHECK_DEADLOCK FALSE
PROPERTIES DisposableRemoved
