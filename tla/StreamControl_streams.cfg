SPECIFICATION Spec
CONSTANTS
    Attempts = {a1, a2, a3}
    Groups = {g1}
    Runs = {r1, r2}
    NoRun = NoRun
    NoGroup = NoGroup
    NoSession = NoSession
    NoTicket = NoTicket
    Kinds = {"vnc", "serial", "spice"}
    MaxTickets = 2
    MaxSessions = 1
SYMMETRY Symmetry
CHECK_DEADLOCK FALSE
INVARIANTS OneController ControlsCurrentRun LastMessage
