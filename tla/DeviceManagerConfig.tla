-------------------------- MODULE DeviceManagerConfig --------------------------
(***************************************************************************)
(* The configuration of the device manager and its file.                   *)
(*                                                                         *)
(* A configuration is a record of sections, each a record of its fields    *)
(* with the values that tell their uses apart: numbers that are validated  *)
(* keep their values (the threshold of health in percent), a map of the    *)
(* code is the set of its entries, a list a sequence, a text itself.       *)
(* A JSON object is a function from the names of its members to theirs.    *)
(***************************************************************************)
EXTENDS Integers, Sequences, TLC

CONSTANTS Edits,      \* what an administrator writes to the file: <<section, field, value>>
          MaxEdits    \* bound on the edits of the file

VARIABLES settings,   \* the configuration in force
          file,       \* the members of the file; "broken" if it does not parse
          refused,    \* whether the last load that read the file returned false
          edits
configVars == <<settings, file, refused, edits>>

EmptyMap == {}
EmptyList == <<>>
EmptyText == ""

\* The fields that are maps: toJson() creates their member with the first entry.
Maps == {"scanParams", "thresholds", "defaultParams", "typeParams", "authTokens",
         "devicePermissions", "custom"}

-----------------------------------------------------------------------------
(* The sections, with their defaults.                                      *)

DiscoveryConfig ==
    [enabled |-> TRUE, intervalSeconds |-> 30, timeoutMs |-> 5000, scanOnStart |-> TRUE,
     scanPaths |-> EmptyList, scanBuses |-> EmptyList, scanI2C |-> TRUE, scanSPI |-> TRUE,
     scanUSB |-> TRUE, scanPCI |-> TRUE, scanNetwork |-> TRUE, scanParams |-> EmptyMap,
     maxDevices |-> 100, filterDuplicates |-> TRUE, autoAddDiscovered |-> TRUE,
     deviceFilters |-> EmptyList, deviceExcludes |-> EmptyList]

MonitoringConfig ==
    [enabled |-> TRUE, intervalMs |-> 1000, monitorStatus |-> TRUE, monitorData |-> TRUE,
     monitorErrors |-> TRUE, maxSamples |-> 1000, aggregateStats |-> TRUE,
     statsWindowSeconds |-> 300, thresholds |-> EmptyMap, monitoredDevices |-> EmptyList,
     autoRecover |-> TRUE, recoveryAttempts |-> 3, recoveryDelayMs |-> 5000,
     logHealth |-> TRUE, healthCheckIntervalMs |-> 5000, healthThreshold |-> 80]

DeviceDefaults ==
    [autoStart |-> TRUE, autoConfigure |-> TRUE, enableHealthCheck |-> TRUE,
     timeoutMs |-> 5000, retryCount |-> 3, retryDelayMs |-> 1000, maxDataAgeMs |-> 60000,
     defaultParams |-> EmptyMap, typeParams |-> EmptyMap]

StorageConfig ==
    [enabled |-> TRUE, dataPath |-> "/var/lib/devices/", configPath |-> "/etc/devices/",
     logPath |-> "/var/log/devices/", autoSave |-> TRUE, saveIntervalMs |-> 60000,
     maxHistoryDays |-> 30, compressData |-> TRUE, encryptData |-> FALSE,
     encryptionKey |-> EmptyText, maxFileSizeMB |-> 100, enableBackup |-> TRUE,
     backupPath |-> "/backup/devices/", backupIntervalHours |-> 24, maxBackups |-> 7]

SecurityConfig ==
    [enabled |-> TRUE, requireAuthentication |-> FALSE, authMethod |-> "token",
     authTokens |-> EmptyMap, encryptCommunication |-> TRUE, verifyCertificates |-> TRUE,
     caCertificate |-> EmptyText, clientCertificate |-> EmptyText, clientKey |-> EmptyText,
     enableAuditLog |-> TRUE, auditLogPath |-> "/var/log/device-audit.log",
     restrictDeviceAccess |-> FALSE, devicePermissions |-> EmptyMap,
     adminUsers |-> EmptyList, enableFirewall |-> FALSE, firewallRules |-> EmptyList]

LoggingConfig ==
    [enabled |-> TRUE, level |-> "INFO", logToFile |-> TRUE,
     logFile |-> "/var/log/device-manager.log", logToSyslog |-> TRUE,
     syslogFacility |-> "local0", logToConsole |-> TRUE, logDeviceEvents |-> TRUE,
     logDeviceData |-> FALSE, logErrors |-> TRUE, logWarnings |-> TRUE, logInfo |-> TRUE,
     logDebug |-> FALSE, maxLogSizeMB |-> 100, maxLogFiles |-> 5, compressLogs |-> TRUE,
     includeTimestamp |-> TRUE, includeLevel |-> TRUE, includeSource |-> TRUE]

\* The settings outside the sections, with the id that fromJson() generates.
GeneralSettings ==
    [version |-> "1.0", instanceId |-> "generated", environment |-> "production",
     debugMode |-> FALSE, shutdownTimeoutMs |-> 10000, custom |-> EmptyMap]

-----------------------------------------------------------------------------
(* toJson() and fromJson() of the sections.                                *)

\* Every field of a section becomes a member, but for the maps without entries.
Members(section) ==
    LET without == {g \in Maps \cap DOMAIN section : section[g] = EmptyMap}
    IN  [f \in DOMAIN section \ without |-> section[f]]

\* A member that is there is taken, any other field keeps its default.
Taken(json, section) == [f \in DOMAIN section |-> IF f \in DOMAIN json THEN json[f] ELSE section[f]]

DiscoveryToJson(section)  == Members(section)
MonitoringToJson(section) == Members(section)
DefaultsToJson(section)   == Members(section)
StorageToJson(section)    == Members(section)
SecurityToJson(section)   == Members(section)
LoggingToJson(section)    == Members(section)

DiscoveryFromJson(json)  == Taken(json, DiscoveryConfig)
MonitoringFromJson(json) == Taken(json, MonitoringConfig)
DefaultsFromJson(json)   == Taken(json, DeviceDefaults)
StorageFromJson(json)    == Taken(json, StorageConfig)
SecurityFromJson(json)   == Taken(json, SecurityConfig)
LoggingFromJson(json)    == Taken(json, LoggingConfig)

\* toJson(): the general settings are members beside the sections; here they are a
\* section of their own.
ToJson(config) ==
    [discovery |-> DiscoveryToJson(config.discovery),
     monitoring |-> MonitoringToJson(config.monitoring),
     defaults |-> DefaultsToJson(config.defaults), storage |-> StorageToJson(config.storage),
     security |-> SecurityToJson(config.security), logging |-> LoggingToJson(config.logging),
     general |-> Members(config.general)]

\* fromJson(): a section that is not there has its defaults.
FromJson(json) ==
    LET section(name) == IF name \in DOMAIN json THEN json[name] ELSE <<>>
    IN  [discovery |-> DiscoveryFromJson(section("discovery")),
         monitoring |-> MonitoringFromJson(section("monitoring")),
         defaults |-> DefaultsFromJson(section("defaults")),
         storage |-> StorageFromJson(section("storage")),
         security |-> SecurityFromJson(section("security")),
         logging |-> LoggingFromJson(section("logging")),
         general |-> Taken(section("general"), GeneralSettings)]

\* validate()
Validate(config) ==
    /\ \A f \in {"maxDevices", "intervalSeconds", "timeoutMs"} : config.discovery[f] > 0
    /\ \A f \in {"intervalMs", "maxSamples", "statsWindowSeconds", "healthCheckIntervalMs"} :
           config.monitoring[f] > 0
    /\ config.monitoring.healthThreshold \in 0 .. 100
    /\ config.monitoring.recoveryAttempts >= 0
    /\ \A f \in {"timeoutMs", "retryDelayMs", "maxDataAgeMs"} : config.defaults[f] > 0
    /\ config.defaults.retryCount >= 0
    /\ \A f \in {"saveIntervalMs", "maxHistoryDays", "maxFileSizeMB", "backupIntervalHours",
                 "maxBackups"} : config.storage[f] > 0
    /\ config.security.enabled /\ config.security.requireAuthentication =>
           config.security.authTokens # EmptyMap
    /\ config.logging.maxLogSizeMB > 0 /\ config.logging.maxLogFiles > 0

\* Mutant of Merge: the security section is merged without its tokens.
MergeTokens(config, other) ==
    [config EXCEPT !.security = [other.security EXCEPT !.authTokens = config.security.authTokens]]

\* merge(): a section of the other that is disabled is left out, as are the other's
\* debug mode and time to shut down.
Merge(config, other) ==
    [s \in DOMAIN config |->
        IF s = "general"
        THEN [other.general EXCEPT !.debugMode = config.general.debugMode,
                                   !.shutdownTimeoutMs = config.general.shutdownTimeoutMs,
                                   !.custom = @ \cup config.general.custom]
        ELSE IF s = "defaults" \/ other[s].enabled THEN other[s] ELSE config[s]]

-----------------------------------------------------------------------------
Init == /\ settings = FromJson(<<>>) /\ file = <<>> /\ refused = FALSE /\ edits = 0

\* loadFromFile(): what was read is in force before it is validated, and stays when
\* validate() refuses it.
LoadFromFile ==
    /\ UNCHANGED <<file, edits>>
    /\ IF "broken" \in DOMAIN file
       THEN UNCHANGED <<settings, refused>>
       ELSE settings' = FromJson(file) /\ refused' = ~ Validate(settings')

\* saveToFile(), which validates nothing.
SaveToFile == file' = ToJson(settings) /\ UNCHANGED <<settings, refused, edits>>

\* The configuration read from the file is merged into the one in force.
MergeFile ==
    /\ "broken" \notin DOMAIN file /\ Validate(FromJson(file))
    /\ settings' = Merge(settings, FromJson(file)) /\ UNCHANGED <<file, refused, edits>>

\* An administrator changes, adds or breaks a member of the file.
EditFile ==
    /\ edits < MaxEdits /\ edits' = edits + 1 /\ UNCHANGED <<settings, refused>>
    /\ \/ file' = "broken" :> <<>>
       \/ /\ "broken" \notin DOMAIN file
          /\ \E e \in Edits :
                 LET section == IF e[1] \in DOMAIN file THEN file[e[1]] ELSE <<>>
                 IN  file' = (e[1] :> (e[2] :> e[3] @@ section)) @@ file

Next == LoadFromFile \/ SaveToFile \/ MergeFile \/ EditFile

-----------------------------------------------------------------------------
\* A configuration that validate() would refuse is in force only if the load that
\* brought it returned false: no sequence of loads, saves and merges of a valid
\* file into it makes an invalid configuration of valid ones; and whatever is in
\* force, saved and loaded again is the same.
OnlyRefusedIsInvalid ==
    /\ ~ refused => Validate(settings)
    /\ FromJson(ToJson(settings)) = settings
=============================================================================
