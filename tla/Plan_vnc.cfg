SPECIFICATION PlanSpec
CONSTANTS
    Unset = Unset
    Refused = Refused
    Requests <- MCRequests
    Ports <- MCPorts
    Builds = {"s2"}
CHECK_DEADLOCK FALSE
PROPERTY PlannedVncStarts
