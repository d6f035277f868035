---------------------------- MODULE DeviceController ----------------------------
(***************************************************************************)
(* The GUI's DeviceController: the devices it shows, found by scans, and   *)
(* the registry of module DeviceManager behind them, where devices come,   *)
(* go and change their status without the controller being told.           *)
(***************************************************************************)
EXTENDS Naturals, FiniteSets

CONSTANTS Devices,
          MaxChanges     \* bound on the changes of the registry

ControllerAssumption == MaxChanges \in Nat

Statuses == {"OK", "ERROR", "WARNING", "DISCONNECTED", "INITIALIZING", "STOPPED"}
None == "none"

VARIABLES registry,      \* the status of each registered device
          shown,         \* m_devices: what the status of each is shown as
          isScanning, pending,   \* m_isScanning; the single shots to come
          changes
controllerVars == <<registry, shown, isScanning, pending, changes>>

\* deviceStatusToString(), and the switch of onDeviceStatusChanged()
StatusString == [s \in Statuses |->
    CASE s = "OK" -> "Online" [] s = "ERROR" -> "Error" [] s = "WARNING" -> "Warning"
      [] s = "DISCONNECTED" -> "Disconnected" [] s = "STOPPED" -> "Stopped"
      [] s = "INITIALIZING" -> "Initializing"]

Registered == {d \in Devices : registry[d] # None}
Shown == {d \in Devices : shown[d] # None}

Init ==
    /\ registry = [d \in Devices |-> None] /\ shown = [d \in Devices |-> None]
    /\ isScanning = FALSE /\ pending = 0 /\ changes = 0

-----------------------------------------------------------------------------
\* A device is registered, removed or found in another status.
RegistryChanges(d, s) ==
    /\ changes < MaxChanges /\ changes' = changes + 1
    /\ registry' = [registry EXCEPT ![d] = s]
    /\ UNCHANGED <<shown, isScanning, pending>>

\* updateDeviceInfo() shows a device as onDeviceStatusChanged(0) does: online.
UpdateDeviceInfo(d) ==
    shown' = IF shown[d] # None THEN [shown EXCEPT ![d] = StatusString["OK"]]
                                ELSE shown

\* enableDevice() and resetDevice(), if the device does as told.
EnableDevice(d) ==
    /\ d \in Registered
    /\ registry' = [registry EXCEPT ![d] = "OK"]
    /\ UpdateDeviceInfo(d)
    /\ UNCHANGED <<isScanning, pending, changes>>

\* disableDevice() shows the device it stopped as online, too.
DisableDevice(d) ==
    /\ d \in Registered
    /\ registry' = [registry EXCEPT ![d] = "STOPPED"]
    /\ UpdateDeviceInfo(d)
    /\ UNCHANGED <<isScanning, pending, changes>>

\* Mutant of ScanForDevices: a scan is started while one is under way.
ScanAnyway ==
    /\ pending < 2
    /\ isScanning' = TRUE /\ pending' = pending + 1
    /\ UNCHANGED <<registry, shown, changes>>

\* scanForDevices(), by the user: nothing starts the timer that would call it.
ScanForDevices ==
    /\ ~ isScanning
    /\ isScanning' = TRUE /\ pending' = pending + 1
    /\ UNCHANGED <<registry, shown, changes>>

\* A second later it adds the devices it has not shown before; it removes none
\* and leaves the others as they are.
ScanComplete ==
    /\ pending > 0 /\ pending' = pending - 1
    /\ shown' = [d \in Devices |->
                    IF d \in Registered \ Shown THEN StatusString[registry[d]]
                                                ELSE shown[d]]
    /\ isScanning' = FALSE
    /\ UNCHANGED <<registry, changes>>

Next == \/ \E d \in Devices, s \in Statuses \cup {None} : RegistryChanges(d, s)
        \/ \E d \in Devices : EnableDevice(d) \/ DisableDevice(d)
        \/ ScanForDevices \/ ScanComplete

\* The single shots of the event loop fire.
Fairness == WF_controllerVars(ScanComplete)

-----------------------------------------------------------------------------
\* getDeviceList(): the shown devices, as far as they are still registered.
GetDeviceList == Shown \cap Registered

\* One scan at a time: the flag tells of the one shot to come.
OneScan == pending = IF isScanning THEN 1 ELSE 0

\* A scan that is started ends, and shows every device registered until then,
\* whatever is shown of the devices that were there before.
ScanFinds ==
    \A d \in Devices :
        isScanning /\ d \in Registered ~>
            \/ ~ isScanning /\ d \in GetDeviceList
            \/ d \notin Registered
=============================================================================
