------------------------------ MODULE DeviceEvents ------------------------------
(***************************************************************************)
(* The events of the device manager (DeviceManagerEvents) and of the       *)
(* sensor service (SensorEvents): their tables, their conversions to and   *)
(* from DeviceEvent and JSON, and the filters of subscriptions.            *)
(*                                                                         *)
(* A type is the number the compiler gives it, which is what JSON holds;   *)
(* any number may come back.  Time is in microseconds, in JSON in          *)
(* milliseconds.  source stands for every text an event just carries.      *)
(***************************************************************************)
EXTENDS Integers, Sequences, FiniteSets, SequencesExt

CONSTANTS DeviceIds, Texts,  \* texts, among them ""
          Tags,              \* the tags of an event: functions
          Severities, Times,
          Filters            \* the filters of subscriptions

EventsAssumption == Times \subseteq Nat

NoText == ""

VARIABLES origin,   \* the event as it was made
          event,    \* what has become of it
          way       \* how it came there: "made", "json" or "device"
eventVars == <<origin, event, way>>

-----------------------------------------------------------------------------
(* The tables.                                                             *)

\* EventType
EventTypes == <<
    "DEVICE_ADDED", "DEVICE_REMOVED", "DEVICE_UPDATED", "DEVICE_ENABLED",
    "DEVICE_DISABLED", "DEVICE_STARTED", "DEVICE_STOPPED", "DEVICE_RESET",
    "DEVICE_STATUS_CHANGED", "DEVICE_ERROR", "DEVICE_WARNING", "DEVICE_INFO",
    "DEVICE_ONLINE", "DEVICE_OFFLINE", "DEVICE_DATA_AVAILABLE",
    "DEVICE_DATA_STREAM_STARTED", "DEVICE_DATA_STREAM_STOPPED",
    "DEVICE_DATA_THRESHOLD_EXCEEDED", "DEVICE_DATA_TIMEOUT",
    "DEVICE_COMMAND_STARTED", "DEVICE_COMMAND_COMPLETED",
    "DEVICE_COMMAND_FAILED", "DEVICE_COMMAND_TIMEOUT", "DEVICE_CONFIG_CHANGED",
    "DEVICE_CONFIG_LOADED", "DEVICE_CONFIG_SAVED", "DEVICE_CONFIG_ERROR",
    "DEVICE_CALIBRATION_STARTED", "DEVICE_CALIBRATION_COMPLETE",
    "DEVICE_CALIBRATION_FAILED", "DEVICE_SELF_TEST_STARTED",
    "DEVICE_SELF_TEST_COMPLETE", "DEVICE_SELF_TEST_FAILED",
    "DEVICE_DISCOVERY_STARTED", "DEVICE_DISCOVERY_COMPLETE",
    "DEVICE_DISCOVERY_ERROR", "DEVICE_DISCOVERED", "MANAGER_STARTED",
    "MANAGER_STOPPED", "MANAGER_INITIALIZED", "MANAGER_SHUTDOWN",
    "MANAGER_ERROR", "MANAGER_WARNING", "MANAGER_INFO", "AUTH_SUCCESS",
    "AUTH_FAILURE", "PERMISSION_DENIED", "SECURITY_VIOLATION",
    "SYSTEM_LOAD_HIGH", "SYSTEM_MEMORY_LOW", "SYSTEM_TEMPERATURE_HIGH",
    "SYSTEM_UP_TIME", "CUSTOM_EVENT" >>

\* eventCategories, in the order of EventType
Categories == <<
    [name |-> "device", types |->
        <<"DEVICE_ADDED", "DEVICE_REMOVED", "DEVICE_UPDATED", "DEVICE_ENABLED",
          "DEVICE_DISABLED", "DEVICE_STARTED", "DEVICE_STOPPED", "DEVICE_RESET",
          "DEVICE_STATUS_CHANGED", "DEVICE_ERROR", "DEVICE_WARNING",
          "DEVICE_INFO", "DEVICE_ONLINE", "DEVICE_OFFLINE">>],
    [name |-> "data", types |->
        <<"DEVICE_DATA_AVAILABLE", "DEVICE_DATA_STREAM_STARTED",
          "DEVICE_DATA_STREAM_STOPPED", "DEVICE_DATA_THRESHOLD_EXCEEDED",
          "DEVICE_DATA_TIMEOUT">>],
    [name |-> "command", types |->
        <<"DEVICE_COMMAND_STARTED", "DEVICE_COMMAND_COMPLETED",
          "DEVICE_COMMAND_FAILED", "DEVICE_COMMAND_TIMEOUT">>],
    [name |-> "config", types |->
        <<"DEVICE_CONFIG_CHANGED", "DEVICE_CONFIG_LOADED", "DEVICE_CONFIG_SAVED",
          "DEVICE_CONFIG_ERROR">>],
    [name |-> "calibration", types |->
        <<"DEVICE_CALIBRATION_STARTED", "DEVICE_CALIBRATION_COMPLETE",
          "DEVICE_CALIBRATION_FAILED">>],
    [name |-> "test", types |->
        <<"DEVICE_SELF_TEST_STARTED", "DEVICE_SELF_TEST_COMPLETE",
          "DEVICE_SELF_TEST_FAILED">>],
    [name |-> "discovery", types |->
        <<"DEVICE_DISCOVERY_STARTED", "DEVICE_DISCOVERY_COMPLETE",
          "DEVICE_DISCOVERY_ERROR", "DEVICE_DISCOVERED">>],
    [name |-> "manager", types |->
        <<"MANAGER_STARTED", "MANAGER_STOPPED", "MANAGER_INITIALIZED",
          "MANAGER_SHUTDOWN", "MANAGER_ERROR", "MANAGER_WARNING", "MANAGER_INFO">>],
    [name |-> "security", types |->
        <<"AUTH_SUCCESS", "AUTH_FAILURE", "PERMISSION_DENIED",
          "SECURITY_VIOLATION">>],
    [name |-> "system", types |->
        <<"SYSTEM_LOAD_HIGH", "SYSTEM_MEMORY_LOW", "SYSTEM_TEMPERATURE_HIGH",
          "SYSTEM_UP_TIME">>],
    [name |-> "custom", types |-> <<"CUSTOM_EVENT">>] >>

TypeNumbers == 0 .. Len(EventTypes) - 1
NumberOf == [name \in ToSet(EventTypes) |->
                CHOOSE n \in TypeNumbers : EventTypes[n + 1] = name]

\* eventTypeToString() and stringToEventType()
TypeToString(n) == IF n \in TypeNumbers THEN EventTypes[n + 1] ELSE "UNKNOWN"
StringToType(s) == IF s \in ToSet(EventTypes) THEN NumberOf[s]
                                              ELSE NumberOf["MANAGER_INFO"]

GetEventCategory(n) ==
    IF n \in TypeNumbers
    THEN Categories[CHOOSE c \in DOMAIN Categories :
                        Contains(Categories[c].types, EventTypes[n + 1])].name
    ELSE "unknown"

\* eventPriorities, but for the types of priority 5, which is the default as well
Priorities == <<
    {"CUSTOM_EVENT"}, {"DEVICE_INFO", "MANAGER_INFO", "MANAGER_STOPPED"},
    {"DEVICE_DATA_AVAILABLE"},
    {"DEVICE_COMMAND_STARTED", "DEVICE_COMMAND_COMPLETED",
     "DEVICE_DATA_STREAM_STARTED", "DEVICE_DATA_STREAM_STOPPED"},
    {},
    {"DEVICE_STATUS_CHANGED", "DEVICE_STARTED", "DEVICE_STOPPED", "DEVICE_RESET",
     "DEVICE_ONLINE"},
    {"DEVICE_WARNING", "MANAGER_WARNING", "DEVICE_DATA_TIMEOUT",
     "DEVICE_DATA_THRESHOLD_EXCEEDED", "DEVICE_COMMAND_TIMEOUT", "AUTH_FAILURE",
     "PERMISSION_DENIED", "DEVICE_CONFIG_ERROR", "DEVICE_CALIBRATION_FAILED",
     "DEVICE_SELF_TEST_FAILED", "DEVICE_DISCOVERY_ERROR", "SYSTEM_LOAD_HIGH",
     "SYSTEM_MEMORY_LOW", "SYSTEM_TEMPERATURE_HIGH"},
    {"MANAGER_SHUTDOWN"}, {"DEVICE_COMMAND_FAILED", "DEVICE_OFFLINE"},
    {"DEVICE_ERROR", "MANAGER_ERROR", "SECURITY_VIOLATION"} >>
Rated(table, name) == IF \E p \in DOMAIN table : name \in table[p]
                      THEN CHOOSE p \in DOMAIN table : name \in table[p] ELSE 5
GetEventPriority(n) == Rated(Priorities, TypeToString(n))

IsErrorEvent(n) == TypeToString(n) \in
    {"DEVICE_ERROR", "MANAGER_ERROR", "SECURITY_VIOLATION",
     "DEVICE_COMMAND_FAILED", "DEVICE_CALIBRATION_FAILED",
     "DEVICE_SELF_TEST_FAILED", "DEVICE_DISCOVERY_ERROR", "DEVICE_CONFIG_ERROR",
     "AUTH_FAILURE", "PERMISSION_DENIED"}
IsWarningEvent(n) == TypeToString(n) \in
    {"DEVICE_WARNING", "MANAGER_WARNING", "DEVICE_DATA_THRESHOLD_EXCEEDED",
     "DEVICE_DATA_TIMEOUT", "DEVICE_COMMAND_TIMEOUT", "SYSTEM_LOAD_HIGH",
     "SYSTEM_MEMORY_LOW", "SYSTEM_TEMPERATURE_HIGH", "DEVICE_OFFLINE",
     "DEVICE_STATUS_CHANGED", "DEVICE_STOPPED"}
IsInfoEvent(n) == ~ IsErrorEvent(n) /\ ~ IsWarningEvent(n)

-----------------------------------------------------------------------------
(* DeviceEvent, and JSON.                                                  *)

\* The types of DeviceEvent, in their order, and what the manager calls them.
DeviceEventTypes == <<
    "DEVICE_ADDED", "DEVICE_REMOVED", "DEVICE_UPDATED", "DEVICE_STATUS_CHANGED",
    "DEVICE_DATA_AVAILABLE", "DEVICE_COMMAND_COMPLETED", "DEVICE_COMMAND_FAILED",
    "DEVICE_CALIBRATION_COMPLETE", "DEVICE_SELF_TEST_COMPLETE", "DEVICE_ERROR",
    "DEVICE_WARNING", "DEVICE_INFO", "DEVICE_DATA_STREAM_STARTED",
    "DEVICE_DATA_STREAM_STOPPED" >>
DeviceNumberOf(name) ==
    (CHOOSE i \in DOMAIN DeviceEventTypes : DeviceEventTypes[i] = name) - 1

ConvertFromDeviceEventType(d) ==
    NumberOf[IF d + 1 \in DOMAIN DeviceEventTypes THEN DeviceEventTypes[d + 1]
                                                  ELSE "DEVICE_INFO"]

\* Mutant of ConvertToDeviceEventType: what failed is reported as completed.
ConvertFailed(n) ==
    LET name == TypeToString(n) IN
    DeviceNumberOf(CASE name = "DEVICE_COMMAND_FAILED" -> "DEVICE_COMMAND_COMPLETED"
                     [] OTHER -> IF Contains(DeviceEventTypes, name) THEN name
                                                                     ELSE "DEVICE_ERROR")

\* What begins is reported as completed, and what has no counterpart as information.
ConvertToDeviceEventType(n) ==
    LET name == TypeToString(n) IN
    DeviceNumberOf(
        CASE name = "DEVICE_COMMAND_STARTED" -> "DEVICE_COMMAND_COMPLETED"
          [] name = "DEVICE_CALIBRATION_STARTED" -> "DEVICE_CALIBRATION_COMPLETE"
          [] name = "DEVICE_SELF_TEST_STARTED" -> "DEVICE_SELF_TEST_COMPLETE"
          [] name = "DEVICE_DISCOVERED" -> "DEVICE_ADDED"
          [] OTHER -> IF Contains(DeviceEventTypes, name) THEN name
                                                          ELSE "DEVICE_INFO")

CreateDeviceEvent(e) ==
    [type |-> ConvertToDeviceEventType(e.type), deviceId |-> e.deviceId,
     timestamp |-> e.timestamp, message |-> e.message]

CreateEvent(d) ==
    LET type == ConvertFromDeviceEventType(d.type) IN
    [type |-> type, deviceId |-> d.deviceId, timestamp |-> d.timestamp,
     message |-> d.message, category |-> GetEventCategory(type),
     severity |-> GetEventPriority(type),
     source |-> NoText, correlationId |-> NoText, tags |-> <<>>]

\* toJson() writes "tags" only if there are any.
ToJson(e) == [k \in DOMAIN e \ (IF e.tags = <<>> THEN {"tags"} ELSE {}) |->
                 IF k = "timestamp" THEN e.timestamp \div 1000 ELSE e[k]]

\* fromJson() leaves what is missing as the constructor has made it.
FromJson(j) == [k \in DOMAIN j \cup {"tags"} |->
                   CASE k = "timestamp" -> j.timestamp * 1000
                     [] k = "tags" -> IF "tags" \in DOMAIN j THEN j.tags ELSE <<>>
                     [] OTHER -> j[k]]

\* EventFilter::matches(); an empty set or text restricts nothing.
Matches(f, e) ==
    /\ f.types = {} \/ e.type \in f.types
    /\ f.deviceIds = {} \/ f.deviceIds \cap {e.deviceId, "*"} # {}
    /\ f.categories = {} \/ e.category \in f.categories
    /\ f.sources = {} \/ e.source \in f.sources
    /\ \A k \in DOMAIN f.tags : k \in DOMAIN e.tags /\ e.tags[k] = f.tags[k]
    /\ e.severity \in f.minSeverity .. f.maxSeverity
    /\ f.correlationId \in {NoText, e.correlationId}

-----------------------------------------------------------------------------
\* An event made from one of a device, or put together by the application with
\* any number for its type; 99 is none.
Made ==
    {CreateEvent([type |-> d, deviceId |-> id, timestamp |-> t, message |-> m]) :
        d \in 0 .. Len(DeviceEventTypes), id \in DeviceIds, t \in Times, m \in Texts}
    \cup
    [type : TypeNumbers \cup {99}, deviceId : DeviceIds, timestamp : Times,
     message : {NoText}, category : {"device", "custom"}, severity : Severities,
     source : Texts, correlationId : Texts, tags : Tags]

Init == origin \in Made /\ event = origin /\ way = "made"

\* It is written and read again, any number of times ...
PassJson == /\ event' = FromJson(ToJson(event)) /\ way' = "json"
            /\ way # "device" /\ UNCHANGED origin

\* ... or handed to who knows DeviceEvent only, and comes back.
PassDevice == /\ event' = CreateEvent(CreateDeviceEvent(event)) /\ way' = "device"
              /\ UNCHANGED origin

Next == PassJson \/ PassDevice

-----------------------------------------------------------------------------
(* SensorEvents                                                            *)

\* EVENT_CATEGORIES, in the order of SensorEventType
SensorCategories == <<
    [name |-> "lifecycle", types |-> <<"SENSOR_ADDED", "SENSOR_REMOVED",
        "SENSOR_STARTED", "SENSOR_STOPPED">>],
    [name |-> "status", types |-> <<"SENSOR_CONNECTED", "SENSOR_DISCONNECTED",
        "SENSOR_ERROR", "SENSOR_WARNING", "SENSOR_INFO">>],
    [name |-> "data", types |-> <<"SENSOR_DATA_AVAILABLE", "SENSOR_DATA_TIMEOUT",
        "SENSOR_DATA_THRESHOLD_EXCEEDED">>],
    [name |-> "calibration", types |-> <<"SENSOR_CALIBRATION_STARTED",
        "SENSOR_CALIBRATION_COMPLETE", "SENSOR_CALIBRATION_FAILED">>],
    [name |-> "test", types |-> <<"SENSOR_SELF_TEST_STARTED",
        "SENSOR_SELF_TEST_COMPLETE", "SENSOR_SELF_TEST_FAILED">>],
    [name |-> "config", types |-> <<"SENSOR_CONFIG_CHANGED",
        "SENSOR_CONFIG_LOADED", "SENSOR_CONFIG_SAVED", "SENSOR_CONFIG_ERROR">>],
    [name |-> "discovery", types |-> <<"SENSOR_DISCOVERY_STARTED",
        "SENSOR_DISCOVERY_COMPLETE", "SENSOR_DISCOVERY_ERROR",
        "SENSOR_DISCOVERED">>],
    [name |-> "manager", types |-> <<"MANAGER_STARTED", "MANAGER_STOPPED",
        "MANAGER_INITIALIZED", "MANAGER_ERROR", "MANAGER_WARNING",
        "MANAGER_INFO">>] >>

\* EVENT_SEVERITIES, but for severity 5
SensorSeverities == <<
    {}, {"SENSOR_INFO", "MANAGER_INFO", "MANAGER_STOPPED"},
    {"SENSOR_DATA_AVAILABLE", "SENSOR_CONFIG_CHANGED", "SENSOR_CONFIG_LOADED",
     "SENSOR_CONFIG_SAVED", "SENSOR_CALIBRATION_COMPLETE",
     "SENSOR_SELF_TEST_COMPLETE", "SENSOR_DISCOVERED"},
    {"SENSOR_CALIBRATION_STARTED", "SENSOR_SELF_TEST_STARTED",
     "SENSOR_DISCOVERY_STARTED", "SENSOR_DISCOVERY_COMPLETE"},
    {}, {"SENSOR_STOPPED", "SENSOR_REMOVED"},
    {"SENSOR_WARNING", "MANAGER_WARNING", "SENSOR_DATA_THRESHOLD_EXCEEDED",
     "SENSOR_CONFIG_ERROR", "SENSOR_DISCOVERY_ERROR"},
    {"SENSOR_DATA_TIMEOUT", "SENSOR_CALIBRATION_FAILED",
     "SENSOR_SELF_TEST_FAILED"},
    {"SENSOR_DISCONNECTED"}, {"SENSOR_ERROR", "MANAGER_ERROR"} >>

\* SensorEvent::getEventSeverity()
SensorSeverity(name) == Rated(SensorSeverities, name)

-----------------------------------------------------------------------------
\* An event written to JSON and read back is the same to the millisecond, however
\* often, and no filter tells the two apart.  One that went through DeviceEvent
\* has kept its device and time; it is an error only if it was one before, and
\* has the category and the priority of the type it has now.
EventsSurvive ==
    /\ way = "json" =>
           /\ event.timestamp = (origin.timestamp \div 1000) * 1000
           /\ [event EXCEPT !.timestamp = 0] = [origin EXCEPT !.timestamp = 0]
           /\ \A f \in Filters : Matches(f, event) <=> Matches(f, origin)
    /\ way = "device" =>
           /\ event.deviceId = origin.deviceId
           /\ IsErrorEvent(event.type) => IsErrorEvent(origin.type)
           /\ event.category = GetEventCategory(event.type)
           /\ event.severity = GetEventPriority(event.type)

\* The tables agree with one another.  No type is error and warning; an error has
\* priority 7 or more, a warning at least 6, and of the rest only the shutdown of
\* the manager is above 6: a filter for 7 and more passes every error.  A name
\* belongs to one type and a type to one category; in the sensor service too, where
\* errors rate 7 and more.
TablesAgree ==
    LET n == event.type IN
    /\ ~ (IsErrorEvent(n) /\ IsWarningEvent(n))
    /\ IsErrorEvent(n) => GetEventPriority(n) >= 7
    /\ IsWarningEvent(n) => GetEventPriority(n) >= 6
    /\ IsInfoEvent(n) /\ TypeToString(n) # "MANAGER_SHUTDOWN"
           => GetEventPriority(n) <= 6
    /\ n \in TypeNumbers =>
           /\ StringToType(TypeToString(n)) = n
           /\ \E c \in DOMAIN Categories : \A d \in DOMAIN Categories :
                  Contains(Categories[d].types, EventTypes[n + 1]) <=> d = c
    /\ \A c, d \in DOMAIN SensorCategories : c # d =>
           ToSet(SensorCategories[c].types) \cap ToSet(SensorCategories[d].types) = {}
    /\ \A p, q \in DOMAIN SensorSeverities :
           p # q => SensorSeverities[p] \cap SensorSeverities[q] = {}
    /\ \A name \in {"SENSOR_ERROR", "SENSOR_CALIBRATION_FAILED", "MANAGER_ERROR",
                   "SENSOR_SELF_TEST_FAILED", "SENSOR_CONFIG_ERROR",
                   "SENSOR_DISCOVERY_ERROR"} : SensorSeverity(name) >= 7
=============================================================================
