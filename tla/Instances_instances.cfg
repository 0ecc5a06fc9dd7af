SPECIFICATION InstancesSpec
CONSTANTS
    Instances = {i1, i2}
    Snapshots = {s1}
    Data = {d0, d1}
    Image = d0
    None = None
    Partial = Partial
    Absent = Absent
    NoJob = NoJob
    Clones = TRUE
    Started = {i1}
    Faults = TRUE
    Torn = TRUE
    VMs = {m1, m2}
    Clients = {c1, c2}
    NoStream = NoStream
    NoCursor = NoCursor
    HistoryEvents = 2
    InstanceBytes = 3
    GlobalBytes = 4
    Sizes = {1, 2}
    QueueLimit = 1
    InstanceSubscribers = 1
    GlobalSubscribers = 2
    MaxRecords = 4
    MaxLives = 1
SYMMETRY Symmetry
CHECK_DEADLOCK FALSE
INVARIANTS Registered Complete Retention
PROPERTIES Atomic
