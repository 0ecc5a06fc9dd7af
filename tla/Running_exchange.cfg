SPECIFICATION Spec
CONSTANTS
    DeviceKinds = {"usb-host", "usb-image", "iso"}
    MaxId <- MCMaxId
    MaxFrames = 2
    EventLimit = 1
    Execs = {j1, j2}
    Readers = {q1}
    MaxRuns = 2
    MaxJobs = 2
    SyncReplies = 2
    MaxStamps = 3
    Nobody = Nobody
    Viewers = {v1}
    Sizes = {s1, s2}
    GopLimit = 1
    ViewerQueue = 2
    MaxKeys = 2
    MaxDeltas = 2
    InputLimit = 3
    MaxInputs = 5
    MaxSerial = 3
    Positions = {0, 1, 2}
    NoScreen = NoScreen
    HeldKeys = {k1}
    FrameKeys = 2
    FrameDeltas = 1
    WireLimit = 4
    InputBound = 2
CHECK_DEADLOCK FALSE
INVARIANTS OwnProcess  ClickLands  WakeUpComes NothingStuck
PROPERTIES AnswersTrue RolledBack Decodable FedInOrder
