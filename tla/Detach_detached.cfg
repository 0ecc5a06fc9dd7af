SPECIFICATION DetachSpec
CONSTANTS
    DeviceKinds = {"network"}
    MaxId <- MCMaxId
    MaxFrames = 1
    EventLimit = 4
CHECK_DEADLOCK FALSE
PROPERTIES DetachedIsGone
