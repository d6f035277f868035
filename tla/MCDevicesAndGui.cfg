SPECIFICATION MCFairSpec
CONSTANTS
    Users = {"u1", "u2"}
    \* Both add and remove devices, one uses them as well.
    Readers = {"u1"}
    Objects = {"d1", "d2", "d3"}
    Ids = {"i1", "i2"}
    IdOf <- MCIdOf
    Configured = {"d1", "d3"}
    Creatable = {"d1", "d2"}
    NoObject = NoObject
    \* The device whose data the application makes up, and another.
    Devices = {"own", "d"}
    OwnDevice = "own"
    MaxReconnectAttempts = 2
    MaxCalls = 4
    MaxLosses = 1
    PoolThreads = {"p1", "p2"}
    MaxHistory = 2
    MaxReadings = 3
    Values <- MCValues
    \* Limits below, at and above the number of points, and 0.
    Sizes = {0, 1, 2, 3}
    MaxPoints = 2
    MaxAppends = 4
    Settings = {"s0", "s1"}
    Themes = {"light", "dark"}
    Default = "s0"
    DefaultTheme = "light"
    MaxChanges = 3
CHECK_DEADLOCK FALSE
INVARIANT EventsTellTheRegistry
INVARIANT GuiHolds
PROPERTY StoppedStaysStopped
PROPERTY FailuresAreRepaired
PROPERTY EverythingSettles
