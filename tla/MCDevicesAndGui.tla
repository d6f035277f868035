--------------------------- MODULE MCDevicesAndGui ---------------------------
(***************************************************************************)
(* The device manager with two threads of an application, and what the     *)
(* graphical application keeps: the client of the data server, the         *)
(* readings, a chart, the devices shown and the settings.                  *)
(*                                                                         *)
(* Each has its own state, so that a behaviour is one of one of them,      *)
(* chosen at the start.                                                    *)
(***************************************************************************)
EXTENDS DeviceManager, Integers, TLC

CONSTANTS Devices,                                       \* what the others show
          MaxReconnectAttempts, MaxCalls, MaxLosses,     \* SensorClient
          OwnDevice, PoolThreads, MaxHistory, MaxReadings, \* DataManager
          Values, Sizes, MaxPoints, MaxAppends,          \* ChartModel
          Settings, Themes, Default, DefaultTheme,       \* GuiSettings
          MaxChanges                         \* and DeviceController

VARIABLES which,
          serverUrl, connected, reconnectAttempts, timer, subscriptions, lapsed,
          socket, inFlight, served, calls, losses,                       \* SensorClient
          updating, readings, tasks, task, history, dataPoints, file, \* DataManager
          points, maxPoints, autoRange, range, viewed, stuck,
          appended,                                              \* ChartModel
          known, shown, isScanning, pending, knownChanges,       \* DeviceController
          guiRunning, settings, dirty, timers, settingsFile, theme, themeFile,
          saveFailed, truncated, synced, changes                            \* GuiSettings

\* Two of the three objects have the same id.
MCIdOf == "d1" :> "i1" @@ "d2" :> "i1" @@ "d3" :> "i2"

\* Negative, zero and positive.
MCValues == {-1, 0, 2}

\* The constants of these have the names they have in the components' modules.
Client == INSTANCE SensorClient
Data == INSTANCE DataManager
Chart == INSTANCE ChartModel
Controller == INSTANCE DeviceController WITH
    registry <- known, changes <- knownChanges
Gui == INSTANCE GuiSettings WITH running <- guiRunning

ASSUME InstanceAssumption ==
    /\ Client!ClientAssumption /\ Data!DataAssumption /\ Chart!ChartAssumption
    /\ Controller!ControllerAssumption /\ Gui!SettingsAssumption

clientVars == <<serverUrl, connected, reconnectAttempts, timer, subscriptions,
                lapsed, socket, inFlight, served, calls, losses>>
dataVars == <<updating, readings, tasks, task, history, dataPoints, file>>
chartVars == <<points, maxPoints, autoRange, range, viewed, stuck, appended>>
controllerVars == <<known, shown, isScanning, pending, knownChanges>>
settingsVars == <<guiRunning, settings, dirty, timers, settingsFile, theme,
                  themeFile, saveFailed, truncated, synced, changes>>
allVars == <<which, vars, clientVars, dataVars, chartVars, controllerVars,
             settingsVars>>

MCInit ==
    /\ which \in {"manager", "client", "data", "chart", "controller", "settings"}
    /\ Init /\ Client!Init /\ Data!Init /\ Chart!Init /\ Controller!Init
    /\ Gui!Init /\ (which # "settings" => settingsFile = Default /\ themeFile = DefaultTheme)
    /\ (which # "chart" => ~ viewed)

\* A step of the part that runs is none of the others.
Only(part) ==
    /\ which = part /\ UNCHANGED which
    /\ IF part = "manager"    THEN TRUE ELSE UNCHANGED vars
    /\ IF part = "client"     THEN TRUE ELSE UNCHANGED clientVars
    /\ IF part = "data"       THEN TRUE ELSE UNCHANGED dataVars
    /\ IF part = "chart"      THEN TRUE ELSE UNCHANGED chartVars
    /\ IF part = "controller" THEN TRUE ELSE UNCHANGED controllerVars
    /\ IF part = "settings"   THEN TRUE ELSE UNCHANGED settingsVars

MCNext == \/ Only("manager") /\ Next
          \/ Only("client") /\ Client!Next
          \/ Only("data") /\ Data!Next
          \/ Only("chart") /\ Chart!Next
          \/ Only("controller") /\ Controller!Next
          \/ Only("settings") /\ Gui!Next

Runs(part) == which = part
ManagerFairness ==
    /\ WF_vars(Runs("manager") /\ OwnerStep)
    /\ SF_vars(Runs("manager") /\ StopDevices)
    /\ WF_vars(Runs("manager") /\ MonitorStep)
    /\ SF_vars(Runs("manager") /\ CheckDevices)
    /\ \A d \in Objects : SF_vars(Runs("manager") /\ Recover(d))

ClientFairness ==
    /\ WF_clientVars(Runs("client") /\ Client!OnReconnectTimeout)
    /\ WF_clientVars(/\ Runs("client") /\ socket # "on"
                     /\ (Client!OnConnected \/ Client!OnDisconnected))

DataFairness ==
    \A w \in PoolThreads :
        WF_dataVars(Runs("data") /\ (Data!TakeTask(w) \/ Data!StoreTask(w)))

EventLoopFairness ==
    /\ WF_controllerVars(Runs("controller") /\ Controller!ScanComplete)
    /\ WF_settingsVars(Runs("settings") /\ Gui!AutoSave)

MCFairSpec == /\ MCInit /\ [][MCNext]_allVars
              /\ ManagerFairness /\ ClientFairness /\ DataFairness
              /\ EventLoopFairness

-----------------------------------------------------------------------------
\* The graphical application: the server sends data of the devices subscribed to on
\* the present connection and of no others; no reading is kept twice; a chart shows
\* the youngest points, within its range, until it stops where the code stops; one
\* scan runs at a time; and clean settings are the file's unless it was truncated.
GuiHolds == /\ Client!ServerFollows /\ Data!HistoryKept /\ Chart!ChartShows
            /\ Controller!OneScan /\ Gui!CleanIsSaved

\* stop() returns; a client connects or gives up; the readings are stored, a scan
\* shows what it finds, and changed settings are saved.
EverythingSettles ==
    /\ StopReturns
    /\ Client!ConnectsOrGivesUp /\ Data!TasksDrain
    /\ Controller!ScanFinds /\ Gui!ChangesAreSaved
=============================================================================
