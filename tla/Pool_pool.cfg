SPECIFICATION PoolSpec
CONSTANTS
    Permits = 2
    InnerTasks = {n1, n2}
    OuterTasks = {o1}
    PlainTasks = {q1}
    NoTask = NoTask
CHECK_DEADLOCK FALSE
PROPERTIES StatusResponds
