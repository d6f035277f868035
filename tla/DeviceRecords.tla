------------------------------ MODULE DeviceRecords -----------------------------
(***************************************************************************)
(* How devices outlive the program: the records of DeviceManager written   *)
(* to a file as JSON and made into devices again by DeviceFactory, over    *)
(* restarts.                                                               *)
(*                                                                         *)
(* Time is in milliseconds; the record of a device keeps seconds.  name    *)
(* stands for the texts and flags of a record, which are copied one by     *)
(* one; a map is left out of the JSON when it is empty.                    *)
(***************************************************************************)
EXTENDS Integers, Sequences, FiniteSets, SequencesExt

CONSTANTS Ids, Names, Params, Times,
          Types,         \* some types of devices
          OwnTypes,      \* those the application has a creator for
          MaxChanges     \* bound on the changes of the registry

RecordsAssumption ==
    OwnTypes \subseteq Types /\ Times \subseteq Nat /\ MaxChanges \in Nat

VARIABLES creators,    \* creators of DeviceFactory: "none", "empty" or "own"
          manager,     \* whether the manager, a singleton, has been made
          initialized, \* its flag of that name
          records,     \* the info of each device in the registry
          given,       \* every record a device has had in this run or an earlier
          saved,       \* the file: whether there is one, and the JSON in it
          threw,       \* whether the last loadConfig() threw
          changed
recordVars ==
    <<creators, manager, initialized, records, given, saved, threw, changed>>

NoFile == [written |-> FALSE, devices |-> <<>>]

-----------------------------------------------------------------------------
(* DeviceFactory                                                           *)

\* What registerBuiltInDevices() registers, family by family: creators that make
\* nothing.
RegisterSensorDevices ==
    {"SENSOR_IMU", "SENSOR_GPS", "SENSOR_TEMPERATURE", "SENSOR_PRESSURE",
     "SENSOR_HUMIDITY", "SENSOR_MAGNETOMETER", "SENSOR_GYROSCOPE",
     "SENSOR_ACCELEROMETER"}
RegisterActuatorDevices ==
    {"ACTUATOR_LED", "ACTUATOR_MOTOR", "ACTUATOR_RELAY", "ACTUATOR_BUZZER",
     "ACTUATOR_SERVO"}
RegisterCommunicationDevices ==
    {"COMMUNICATION_WIFI", "COMMUNICATION_BLUETOOTH", "COMMUNICATION_ETHERNET",
     "COMMUNICATION_SERIAL"}
RegisterStorageDevices == {"STORAGE_SD_CARD", "STORAGE_USB", "STORAGE_EMMC"}
RegisterDisplayDevices == {"DISPLAY_LCD", "DISPLAY_OLED", "DISPLAY_HDMI"}
RegisterInputDevices ==
    {"INPUT_BUTTON", "INPUT_KEYPAD", "INPUT_TOUCH", "INPUT_MICROPHONE"}
RegisterOutputDevices == {"OUTPUT_AUDIO", "OUTPUT_SPEAKER"}
BuiltIn == UNION {RegisterSensorDevices, RegisterActuatorDevices,
                  RegisterCommunicationDevices, RegisterStorageDevices,
                  RegisterDisplayDevices, RegisterInputDevices,
                  RegisterOutputDevices}

\* typeNames: a name for the built-in types and these.
TypeNames == BuiltIn \cup {"COMMUNICATION_CAN", "COMMUNICATION_I2C",
                           "COMMUNICATION_SPI", "UNKNOWN"}

\* The manager's constructor registers them, over the creators there are.
RegisterBuiltInDevices(c) ==
    [t \in Types |-> IF t \in BuiltIn THEN "empty" ELSE c[t]]

\* Mutant of CreateDevice: the record is made anew, with the time of the load.
CreateDeviceNow(c, info) ==
    IF c[info.type] = "own" THEN {[info EXCEPT !.seen = 0]} ELSE {}

\* createDevice(): a set, empty for nullptr.
CreateDevice(c, info) == IF c[info.type] = "own" THEN {info} ELSE {}

IsSupported(c, t) == c[t] # "none"

-----------------------------------------------------------------------------
(* JSON                                                                    *)

\* Members with an empty map are not written, and are empty when they are read.
WithoutEmpty(r, member) ==
    [k \in DOMAIN r \ (IF r[member] = <<>> THEN {member} ELSE {}) |-> r[k]]
Restored(j, member) == [k \in DOMAIN j \cup {member} |->
                           IF k \in DOMAIN j THEN j[k] ELSE <<>>]

\* DeviceAddress::toJson() and fromJson()
AddressToJson(a) == WithoutEmpty(a, "params")
AddressFromJson(j) == Restored(j, "params")

\* DeviceInfo::toJson() and fromJson()
InfoToJson(info) ==
    WithoutEmpty([info EXCEPT !.address = AddressToJson(@), !.seen = @ \div 1000],
                 "properties")
InfoFromJson(j) ==
    Restored([j EXCEPT !.address = AddressFromJson(@), !.seen = @ * 1000],
             "properties")

-----------------------------------------------------------------------------
(* DeviceManager                                                           *)

Infos == [id : Ids, type : Types, name : Names, seen : Times,
          properties : Params, address : [params : Params]]

Init ==
    /\ creators = [t \in Types |-> "none"] /\ manager = FALSE /\ initialized = FALSE
    /\ records = {} /\ given = {} /\ saved = NoFile /\ threw = FALSE
    /\ changed = 0

RegisterDevice(t) ==
    /\ t \in OwnTypes /\ creators' = [creators EXCEPT ![t] = "own"]
    /\ creators' # creators
    /\ UNCHANGED <<manager, initialized, records, given, saved, threw, changed>>

\* getInstance(), the first time.
MakeManager ==
    /\ ~ manager /\ manager' = TRUE
    /\ creators' = RegisterBuiltInDevices(creators)
    /\ UNCHANGED <<initialized, records, given, saved, threw, changed>>

\* The application adds a device, or changes one it has (setProperty()).
AddDevice(info) ==
    /\ manager /\ changed < MaxChanges /\ changed' = changed + 1
    /\ \A r \in records : r.id # info.id
    /\ records' = records \cup {info} /\ given' = given \cup {info}
    /\ UNCHANGED <<creators, manager, initialized, saved, threw>>

SetProperty(r, p) ==
    /\ changed < MaxChanges /\ changed' = changed + 1
    /\ r \in records
    /\ LET now == [r EXCEPT !.properties = p] IN
       records' = (records \ {r}) \cup {now} /\ given' = given \cup {now}
    /\ UNCHANGED <<creators, manager, initialized, saved, threw>>

\* saveConfig() writes the array of saveDevicesToConfig(), in some order.
SaveConfig ==
    /\ manager
    /\ saved' = [written |-> TRUE,
                 devices |-> SetToSeq({InfoToJson(r) : r \in records})]
    /\ UNCHANGED <<creators, manager, initialized, records, given, threw, changed>>

\* Mutant of LoadDevicesFromConfig: it returns after the first device.
LoadOnlyFirst(list) ==
    records \cup {d \in UNION {CreateDevice(creators, InfoFromJson(list[n])) :
                                   n \in DOMAIN list \cap {1}} :
                     \A r \in records : r.id # d.id}

\* loadDevicesFromConfig(): device by device, addDevice() refuses an id it has, so
\* that of several with one id the first that is made is added.
LoadDevicesFromConfig(list) ==
    LET made(n)  == CreateDevice(creators, InfoFromJson(list[n]))
        known(n) == \/ \E r \in records : r.id = list[n].id
                    \/ \E k \in 1 .. n - 1 : made(k) # {} /\ list[k].id = list[n].id
    IN  records \cup UNION {made(n) : n \in {k \in DOMAIN list : ~ known(k)}}

\* What loadConfig() does with a file of saveConfig(): isMember() throws on an array.
LoadThrows == saved.written

LoadConfig ==
    /\ manager /\ saved.written /\ threw' = LoadThrows
    /\ UNCHANGED <<creators, manager, initialized, records, given, saved, changed>>

\* initialize() with a configuration of the application's: list is its "devices", none
\* or those of the file, which it has read; path says whether its "config_path" is that
\* of the file.  If that throws, the devices of the list stay, and initialized is not set.
Initialize(list, path) ==
    /\ manager /\ ~ initialized
    /\ records' = LoadDevicesFromConfig(list)
    /\ threw' = (path /\ LoadThrows) /\ initialized' = ~ threw'
    /\ UNCHANGED <<creators, manager, given, saved, changed>>

\* The process ends, and begins again.
Restart ==
    /\ creators' = [t \in Types |-> "none"] /\ manager' = FALSE /\ initialized' = FALSE
    /\ records' = {} /\ threw' = FALSE /\ manager
    /\ UNCHANGED <<given, saved, changed>>

Next ==
    \/ MakeManager \/ SaveConfig \/ LoadConfig \/ Restart
    \/ \E list \in {<<>>, saved.devices}, path \in BOOLEAN : Initialize(list, path)
    \/ \E t \in Types : RegisterDevice(t)
    \/ \E info \in Infos : AddDevice(info)
    \/ \E r \in records, p \in Params : SetProperty(r, p)

-----------------------------------------------------------------------------
\* Over saves, loads and restarts a device is registered under one record, and that
\* is one it was given at some time, to the second: however often it is written and
\* read, no time wanders and no parameter is lost or made up.
RecordsPersist ==
    /\ \A r, s \in records : r.id = s.id => r = s
    /\ \A r \in records : \E g \in given :
           /\ [r EXCEPT !.seen = 0] = [g EXCEPT !.seen = 0]
           /\ r.seen \in {g.seen, (g.seen \div 1000) * 1000}

\* initialize() with the devices that saveConfig() wrote, in this run or an earlier one,
\* brings back every device whose type has a creator of the application, whatever the
\* file named besides makes it throw; the others were never built, though isSupported()
\* says yes of the built-in types: the manager's constructor gives those an empty creator
\* over the one they had.
BringsBack ==
    (\E path \in BOOLEAN : Initialize(saved.devices, path)) =>
        \A i \in DOMAIN saved.devices :
            LET j == saved.devices[i] IN
            IF creators[j.type] = "own"
            THEN \E r \in records' : r.id = j.id
            ELSE IsSupported(creators, j.type) = (j.type \in BuiltIn)
LoadBringsBack == [][BringsBack]_recordVars

\* DeviceManagerTest.cpp:325, of a file that saveConfig() has just written:
\* EXPECT_TRUE(manager->loadConfig(configPath)).  It throws instead.
SavedCanBeLoaded == ~ threw
=============================================================================
