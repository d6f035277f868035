----------------------------- MODULE SensorReadings -----------------------------
(***************************************************************************)
(* What the drivers measure as SensorReading, and its way through JSON.    *)
(*                                                                         *)
(* A value is {n}, or {} for a double that is no number.  Time is in       *)
(* microseconds, in JSON in milliseconds.                                  *)
(***************************************************************************)
EXTENDS Integers, FiniteSets

CONSTANTS Values, Measured,    \* values, and the timestamps of measurements
          MaxPasses            \* bound on the passes through JSON

ReadingsAssumption == Measured \subseteq Nat /\ MaxPasses \in Nat

VARIABLES measured,     \* the reading the driver made
          reading,      \* what it has become
          asText,       \* the JSON under way; {} for none
          passes
readingVars == <<measured, reading, asText, passes>>

-----------------------------------------------------------------------------
(* toReading()                                                             *)

\* IMUData::toReading() names the values of three sensors, under one type.
IMUKeys == {"accel_x", "accel_y", "accel_z", "accel_magnitude", "gyro_x", "gyro_y",
            "gyro_z", "gyro_magnitude", "mag_x", "mag_y", "mag_z",
            "mag_magnitude", "temperature"}
GPSKeys == {"latitude", "longitude", "altitude", "speed", "heading",
            "horizontal_accuracy", "vertical_accuracy", "satellites", "has_fix"}
TemperatureKeys == {"temperature", "humidity", "dew_point", "heat_index"}
PressureKeys == {"pressure", "altitude", "sea_level_pressure", "temperature"}
HumidityKeys == {"humidity", "temperature", "dew_point", "absolute_humidity"}

Keys == [IMU_ACCELEROMETER |-> IMUKeys, GPS |-> GPSKeys,
         TEMPERATURE |-> TemperatureKeys, PRESSURE |-> PressureKeys,
         HUMIDITY |-> HumidityKeys]

\* One value differs from the others.
ToReading(type, key, v, w, t) ==
    [type |-> type, timestamp |-> t, isValid |-> TRUE,
     values |-> [k \in Keys[type] |-> IF k = key THEN v ELSE w],
     metadata |-> IF type = "GPS" THEN {"gps_timestamp"} ELSE {}]

-----------------------------------------------------------------------------
(* JSON                                                                    *)

\* toJson() leaves out a map that is empty; the writer makes null of what is no
\* number.
ToJson(r) == [k \in DOMAIN r \ (IF r.metadata = {} THEN {"metadata"} ELSE {}) |->
                 IF k = "timestamp" THEN r.timestamp \div 1000 ELSE r[k]]

\* Mutant of FromJson: the maps of an earlier reading are kept.
FromJsonKeeps(j) == [k \in {"type", "timestamp", "isValid", "values", "metadata"} |->
    CASE k = "timestamp" -> j.timestamp * 1000
      [] k = "metadata" -> {"gps_timestamp"}
      [] OTHER -> j[k]]

\* asDouble() makes 0 of null; a missing map is empty.
FromJson(j) == [k \in {"type", "timestamp", "isValid", "values", "metadata"} |->
    CASE k = "timestamp" -> j.timestamp * 1000
      [] k = "values" -> [q \in DOMAIN j.values |->
                             IF j.values[q] = {} THEN {0} ELSE j.values[q]]
      [] k = "metadata" -> IF "metadata" \in DOMAIN j THEN j.metadata ELSE {}
      [] OTHER -> j[k]]

Init ==
    /\ measured \in {ToReading(type, key, v, w, t) : type \in DOMAIN Keys,
                        key \in UNION {Keys[k] : k \in DOMAIN Keys},
                        v \in Values, w \in Values, t \in Measured}
    /\ reading = measured /\ asText = {} /\ passes = 0

Write == /\ asText = {} /\ passes < MaxPasses /\ passes' = passes + 1
         /\ asText' = {ToJson(reading)} /\ UNCHANGED <<measured, reading>>
Read  == /\ asText # {} /\ asText' = {}
         /\ reading' = FromJson(CHOOSE j \in asText : TRUE)
         /\ UNCHANGED <<measured, passes>>
Next == Write \/ Read

-----------------------------------------------------------------------------
\* What comes out of JSON, once or often, is the reading that went in, to the
\* millisecond: but a value that was no number is 0, in a reading as valid as
\* before.
ReadingsSurvive ==
    LET hasBeenRead == passes > 1 \/ (passes = 1 /\ asText = {})
        Expected(v) == IF hasBeenRead /\ v = {} THEN {0} ELSE v
        millis      == (measured.timestamp \div 1000) * 1000
    IN  reading = [measured EXCEPT
            !.timestamp = IF hasBeenRead THEN millis ELSE @,
            !.values    = [k \in Keys[measured.type] |-> Expected(measured.values[k])]]
=============================================================================
