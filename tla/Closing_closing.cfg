SPECIFICATION ClosingSpec
CONSTANTS
    Attempts = {a1, a2, a3}
    Groups = {g1}
    Runs = {r1, r2}
    NoRun = NoRun
    NoGroup = NoGroup
    NoSession = NoSession
    NoTicket = NoTicket
    Kinds = {"spice"}
    MaxTickets = 3
    MaxSessions = 1
    Permits = 3
    InnerTasks = {n1, n2}
    OuterTasks = {o1, o2}
    PlainTasks = {q1}
    NoTask = NoTask
CHECK_DEADLOCK FALSE
PROPERTIES StreamsEnd Served
