SPECIFICATION WorkspacePartsSpec
CONSTANTS
    Editors = {e1, e2}
    Bodies = {b1, b2}
    Tracks = {t1, t2, t3}
    Compatible = {t1, t2}
    NoDocument = NoDocument
    Procs = {p1, p2}
    Rows = {r1, r2}
    Docs = {d1, d2}
    Incomplete = {d2}
    Overlap = FALSE
    Jobs = {j1, j2}
    Watchers = {w1}
    Contents = {x, y}
    x = x
    y = y
    Sources <- MCSources
    EngineTracks = {k1}
    Payloads = {x}
    NoContent = NoContent
    EventHistory = 1
    EventChannel = 1
    MaxEvents = 3
    Kinds = {"image", "engine"}
    Instances = {i1, i2}
    Snapshots = {s1}
    Data = {d0}
    Image = d0
    None = None
    Partial = Partial
    Absent = Absent
    NoJob = NoJob
    Clones = FALSE
    Started = {}
    Faults = TRUE
    Torn = FALSE
    Unset = Unset
    Refused = Refused
    Requests <- MCRequests
    Ports <- MCPorts
    Builds = {"s2"}
SYMMETRY Symmetry
CHECK_DEADLOCK FALSE
INVARIANTS  OneHolder NothingLost ArtifactsKept OutcomeSeen
    Wired ScreenServed  RunsAsPinned Reusable
PROPERTIES NoLostUpdate Delivered
