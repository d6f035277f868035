SPECIFICATION MCSpec
CONSTANTS
    Elem = {a, b}
    Blank = Blank
    Capacities = {0, 2, 3, 4}
    Counts = {0, 1, 2, 3}
    Bulks <- MCBulks
    Edits <- MCEdits
    MaxEdits = 3
    DeviceIds = {"d"}
    Texts = {"", "x"}
    Tags <- MCTags
    Severities = {0, 7}
    EventTimes = {0, 1500}
    Filters <- MCFilters
    Values <- MCMeasurements
    Measured = {1500}
    MaxPasses = 2
    Ids = {"d", "e"}
    Names = {"n"}
    Params <- MCParams
    SeenTimes = {1500}
    Types = {"SENSOR_IMU", "COMMUNICATION_CAN", "DISPLAY_LCD"}
    OwnTypes = {"SENSOR_IMU", "COMMUNICATION_CAN"}
    MaxChanges = 2
    RuleChoices <- MCRules
    Paths <- MCPaths
    Nodes <- MCNodes
    MaxRules = 2
    Matching <- MCMatching
    NumberRead <- MCNumberRead
    ValidateNested <- MCValidateNested
    KeysNested <- MCKeysNested
CHECK_DEADLOCK FALSE
INVARIANT TypeOK
INVARIANT PositionsAgree
INVARIANT SchemaHolds
INVARIANT FunctionsAgree
INVARIANT RecordsSurvive
PROPERTY ImplementsFifo
PROPERTY LoadBringsBack
