SPECIFICATION MCSpec
CONSTANTS
    Ids = {"d"}
    Names = {"n"}
    Params <- MCParams
    Times = {1500}
    Types = {"SENSOR_IMU", "COMMUNICATION_CAN"}
    OwnTypes = {"SENSOR_IMU", "COMMUNICATION_CAN"}
    MaxChanges = 2
INVARIANT SavedCanBeLoaded
CHECK_DEADLOCK FALSE
