----------------------------- MODULE StoredRecords -----------------------------
(***************************************************************************)
(* What is kept or sent as JSON: the configuration of the device manager,  *)
(* its events, the readings of the sensors, the records of devices, and    *)
(* the documents that a configuration schema is for.                       *)
(*                                                                         *)
(* They share no state.  which says whose steps a behaviour takes; it may  *)
(* be the name of none of them, and then all of them stay as they are.     *)
(***************************************************************************)
EXTENDS Naturals

CONSTANTS Edits, MaxEdits,                                    \* DeviceManagerConfig
          DeviceIds, Texts, Tags, Severities, EventTimes,     \* DeviceEvents
          Filters,
          Values, Measured, MaxPasses,                        \* SensorReadings
          Ids, Names, Params, SeenTimes, Types, OwnTypes,     \* DeviceRecords
          MaxChanges,
          RuleChoices, Paths, Nodes, MaxRules,                \* ConfigSchema
          Matching, NumberRead, ValidateNested(_, _), KeysNested(_, _)

VARIABLES which,
          settings, file, refused, edits,          \* DeviceManagerConfig
          origin, event, way,                      \* DeviceEvents
          measured, reading, asText, passes,       \* SensorReadings
          creators, manager, initialized,          \* DeviceRecords
          records, given, saved, threw, changed,
          rules, config                            \* ConfigSchema

Configuration == INSTANCE DeviceManagerConfig
Events        == INSTANCE DeviceEvents WITH Times <- EventTimes
Sensed        == INSTANCE SensorReadings
Records       == INSTANCE DeviceRecords WITH Times <- SeenTimes
Schema        == INSTANCE ConfigSchema

StoredAssumption ==
    /\ Events!EventsAssumption /\ Sensed!ReadingsAssumption
    /\ Records!RecordsAssumption /\ Schema!SchemaAssumption

-----------------------------------------------------------------------------
StoredInit ==
    /\ which = "configuration" => Configuration!Init
    /\ which = "events"        => Events!Init
    /\ which = "readings"      => Sensed!Init
    /\ which = "records"       => Records!Init
    /\ which = "schema"        => Schema!Init

configVars  == <<settings, file, refused, edits>>
eventVars   == <<origin, event, way>>
readingVars == <<measured, reading, asText, passes>>
recordVars  ==
    <<creators, manager, initialized, records, given, saved, threw, changed>>
schemaVars  == <<rules, config>>

StoredNext ==
    /\ UNCHANGED which
    /\ \/ /\ which = "configuration" /\ Configuration!Next
          /\ UNCHANGED <<eventVars, readingVars, recordVars, schemaVars>>
       \/ /\ which = "events" /\ Events!Next
          /\ UNCHANGED <<configVars, readingVars, recordVars, schemaVars>>
       \/ /\ which = "readings" /\ Sensed!Next
          /\ UNCHANGED <<configVars, eventVars, recordVars, schemaVars>>
       \/ /\ which = "records" /\ Records!Next
          /\ UNCHANGED <<configVars, eventVars, readingVars, schemaVars>>
       \/ /\ which = "schema" /\ Schema!Next
          /\ UNCHANGED <<configVars, eventVars, readingVars, recordVars>>

storedVars == <<which, configVars, eventVars, readingVars, recordVars, schemaVars>>

StoredSpec == StoredInit /\ [][StoredNext]_storedVars

-----------------------------------------------------------------------------
\* Configurations, events, readings and records come back from JSON as they went
\* into it, but for what the code is known to lose.
RecordsSurvive ==
    /\ which = "configuration" => Configuration!OnlyRefusedIsInvalid
    /\ which = "events"        => Events!EventsSurvive /\ Events!TablesAgree
    /\ which = "readings"      => Sensed!ReadingsSurvive
    /\ which = "records"       => Records!RecordsPersist

\* ConfigSchema: defaults fill in what is missing, validate and change nothing else;
\* what is exported and loaded again accepts the same documents; and keys have the
\* rules last given to them.
SchemaHolds == which = "schema" =>
    /\ Schema!SchemaTypeOK
    /\ Schema!DefaultsFillIn /\ Schema!ExportedSchemaAgrees /\ Schema!KeysHaveRules

\* DeviceManager::initialize() brings back every device of the file that a creator can
\* make; loadConfig(), whose work it does, throws on what saveConfig() writes.
LoadBringsBack == [][which = "records" => Records!BringsBack]_storedVars
=============================================================================
