----------------------------- MODULE DeviceManager -----------------------------
(***************************************************************************)
(* device_manager::DeviceManager with the Device objects it owns: the      *)
(* owner that initializes, starts and stops it, users that add, remove and *)
(* read devices, the thread that monitors them, and the devices, which     *)
(* fail on their own.                                                      *)
(*                                                                         *)
(* devicesMutex guards the registry.  A critical section is one step; the  *)
(* monitor's pass, one step for a device, holds the mutex in between, and  *)
(* a callback that calls back into the manager holds it for good.          *)
(***************************************************************************)
EXTENDS Naturals, FiniteSets

CONSTANTS Users,       \* application threads ...
          Readers,     \* ... and those of them that use devices as well
          Objects,     \* Device objects, each given to addDevice() at most once
          Ids,         \* their ids ...
          IdOf,        \* ... and which object has which
          Configured,  \* the objects the configuration names ...
          Creatable,   \* ... and those of types whose creator makes a device
          NoObject

ASSUME DeviceAssumption ==
    /\ IdOf \in [Objects -> Ids] /\ Configured \subseteq Objects
    /\ Readers \subseteq Users
    /\ Creatable \subseteq Objects /\ NoObject \notin Objects

VARIABLES running,
          owner,       \* where initialize(), start() and stop() are
          monitor,     \* where monitorLoop() is ...
          left,        \* ... and the devices its pass has not looked at
          devices,     \* the objects in the registry
          fresh,       \* the objects that nobody has handed over yet
          status,      \* DeviceStatus of each object
          toLoad,      \* what initialize() has yet to load
          announced,   \* the ids announced by events as added, not as removed
          misannounced,\* an event added an id twice or removed it twice
          pc, object,  \* what each user is doing, and with which object
          calledBack   \* a callback has called into the manager under its mutex
vars == <<running, owner, monitor, left, devices, fresh, status, toLoad,
          announced, misannounced, pc, object, calledBack>>
lifecycle == <<running, owner, toLoad>>
monitoring == <<monitor, left>>
registry == <<devices, fresh, announced, misannounced>>
using == <<pc, object>>

Init ==
    /\ running = FALSE /\ owner = "new" /\ toLoad = Configured
    /\ monitor = "none" /\ left = {}
    /\ devices = {} /\ fresh = Objects
    /\ status = [d \in Objects |-> "initializing"]
    /\ announced = {} /\ misannounced = FALSE
    /\ pc = [u \in Users |-> "idle"]
    /\ object = [u \in Users |-> NoObject]
    /\ calledBack = FALSE

MutexFree == monitor # "pass" /\ ~ calledBack
IdsOf(s) == {IdOf[d] : d \in s}

-----------------------------------------------------------------------------
(* Events.  The user's callback runs wherever the event is emitted.        *)

\* emitEvent() under devicesMutex.
EmitsUnderMutex == calledBack' \in BOOLEAN

Announces(type, id) ==
    /\ announced' = IF type = "added" THEN announced \cup {id}
                                      ELSE announced \ {id}
    /\ misannounced' = (misannounced \/ (type = "added") = (id \in announced))
    /\ EmitsUnderMutex

\* setStatus(): an event only when the status changes.
SetsStatus(d, s) == status' = [status EXCEPT ![d] = s]

-----------------------------------------------------------------------------
(* addDevice() and removeDevice().                                         *)

\* The object is refused, because its id is taken or it does not initialize, ...
Refuses(d) ==
    /\ UNCHANGED <<devices, announced, misannounced, calledBack>>
    /\ \/ IdOf[d] \in IdsOf(devices) /\ UNCHANGED status
       \/ /\ IdOf[d] \notin IdsOf(devices)
          /\ SetsStatus(d, "error")

\* ... or it is initialized but does not start: its status event is forwarded.
FailsToStart(d) ==
    /\ IdOf[d] \notin IdsOf(devices)
    /\ SetsStatus(d, "error") /\ EmitsUnderMutex
    /\ UNCHANGED <<devices, announced, misannounced>>

Accepts(d) ==
    /\ IdOf[d] \notin IdsOf(devices)
    /\ SetsStatus(d, "ok")
    /\ devices' = devices \cup {d}
    /\ Announces("added", IdOf[d])

\* Mutant of Adds: an object whose id is taken replaces the one in the registry.
AddsOver(d) ==
    /\ MutexFree /\ d \in fresh /\ fresh' = fresh \ {d}
    /\ SetsStatus(d, "ok")
    /\ devices' = {e \in devices : IdOf[e] # IdOf[d]} \cup {d}
    /\ Announces("added", IdOf[d])

Adds(d) ==
    /\ MutexFree /\ d \in fresh /\ fresh' = fresh \ {d}
    /\ Refuses(d) \/ FailsToStart(d) \/ Accepts(d)

AddDevice(u, d) ==
    /\ pc[u] = "idle" /\ Adds(d)
    /\ UNCHANGED <<lifecycle, monitoring, using>>

\* The device is stopped, the event emitted and the object destroyed.
RemoveDevice(u, d) ==
    /\ pc[u] = "idle" /\ MutexFree /\ d \in devices
    /\ SetsStatus(d, "stopped")
    /\ Announces("removed", IdOf[d])
    /\ devices' = devices \ {d}
    /\ UNCHANGED <<lifecycle, monitoring, fresh, using>>

\* readData(), writeData(), executeCommand(), calibrateDevice(), selfTestDevice()
\* and configureDevice() take the pointer from getDevice() under the mutex ...
GetDevice(u, d) ==
    /\ u \in Readers /\ pc[u] = "idle" /\ MutexFree /\ d \in devices
    /\ pc' = [pc EXCEPT ![u] = "use"] /\ object' = [object EXCEPT ![u] = d]
    /\ UNCHANGED <<lifecycle, monitoring, registry, status, calledBack>>

\* ... and use it without; the object may have been destroyed by then.
UseDevice(u) ==
    /\ pc[u] = "use"
    /\ pc' = [pc EXCEPT ![u] = IF object[u] \in devices THEN "idle" ELSE "undefined"]
    /\ object' = [object EXCEPT ![u] = NoObject]
    /\ UNCHANGED <<lifecycle, monitoring, registry, status, calledBack>>

-----------------------------------------------------------------------------
(* The owner.                                                              *)

\* loadDevicesFromConfig() in initialize(): the factory makes no object for a
\* type without a creator, nor with one of the built-in creators.
Load(d) ==
    /\ owner = "new" /\ d \in toLoad
    /\ toLoad' = toLoad \ {d}
    /\ \/ d \in Creatable /\ Adds(d)
       \/ d \notin Creatable /\ UNCHANGED <<registry, status, calledBack>>
    /\ UNCHANGED <<running, owner, monitoring, using>>

Initialize ==
    /\ owner = "new" /\ toLoad = {}
    /\ owner' = "ready"
    /\ UNCHANGED <<running, toLoad, monitoring, registry, status, using, calledBack>>

Start ==
    /\ owner = "ready"
    /\ owner' = "up" /\ running' = TRUE /\ monitor' = "loop"
    /\ UNCHANGED <<toLoad, left, registry, status, using, calledBack>>

Stop ==
    /\ owner = "up"
    /\ owner' = "joining" /\ running' = FALSE
    /\ UNCHANGED <<toLoad, monitoring, registry, status, using, calledBack>>

\* Mutant of Join: the thread is not waited for.
JoinNobody ==
    /\ owner = "joining"
    /\ owner' = "stopping"
    /\ UNCHANGED <<running, toLoad, monitoring, registry, status, using,
                   calledBack>>

Join ==
    /\ owner = "joining" /\ monitor = "done"
    /\ owner' = "stopping"
    /\ UNCHANGED <<running, toLoad, monitoring, registry, status, using,
                   calledBack>>

\* Every device is stopped, its status event may call back; a device that cannot be
\* stopped is left as it is.
StopDevices ==
    /\ owner = "stopping" /\ MutexFree
    /\ owner' = "ready"
    /\ \E s \in SUBSET devices :
           status' = [d \in Objects |-> IF d \in s THEN "stopped" ELSE status[d]]
    /\ IF devices = {} THEN UNCHANGED calledBack ELSE EmitsUnderMutex
    /\ UNCHANGED <<running, toLoad, monitoring, registry, using>>

OwnerStep == Join \/ StopDevices
OwnerCall == (\E d \in Objects : Load(d)) \/ Initialize \/ Start \/ Stop

-----------------------------------------------------------------------------
(* The monitor: monitorLoop() and checkDevices().                          *)

MonitorUnchanged == UNCHANGED <<lifecycle, registry, using>>

MonitorLoop ==
    /\ monitor = "loop"
    /\ monitor' = IF running THEN "check" ELSE "done"
    /\ UNCHANGED <<left, status, calledBack>>
    /\ MonitorUnchanged

\* The pass begins, although stop() may have been called by now.
CheckDevices ==
    /\ monitor = "check" /\ MutexFree
    /\ monitor' = "pass" /\ left' = devices
    /\ UNCHANGED <<status, calledBack>>
    /\ MonitorUnchanged

\* A device that has failed is reset and started, which may fail in turn.
Recover(d) ==
    /\ monitor = "pass" /\ d \in left /\ ~ calledBack
    /\ status[d] \in {"error", "disconnected"}
    /\ left' = left \ {d}
    /\ SetsStatus(d, "ok") /\ EmitsUnderMutex
    /\ UNCHANGED monitor
    /\ MonitorUnchanged

RecoverFails(d) ==
    /\ monitor = "pass" /\ d \in left /\ ~ calledBack
    /\ status[d] \in {"error", "disconnected"}
    /\ left' = left \ {d}
    /\ UNCHANGED <<monitor, status, calledBack>>
    /\ MonitorUnchanged

PassOver(d) ==
    /\ monitor = "pass" /\ d \in left /\ ~ calledBack
    /\ status[d] \notin {"error", "disconnected"}
    /\ left' = left \ {d}
    /\ UNCHANGED <<monitor, status, calledBack>>
    /\ MonitorUnchanged

\* Mutant of EndPass: the thread ends after its first pass.
EndOfThread ==
    /\ monitor = "pass" /\ left = {} /\ ~ calledBack
    /\ monitor' = "done"
    /\ UNCHANGED <<left, status, calledBack>>
    /\ MonitorUnchanged

\* The mutex is released, and the thread sleeps.
EndPass ==
    /\ monitor = "pass" /\ left = {} /\ ~ calledBack
    /\ monitor' = "loop"
    /\ UNCHANGED <<left, status, calledBack>>
    /\ MonitorUnchanged

MonitorStep ==
    \/ MonitorLoop \/ CheckDevices \/ EndPass
    \/ \E d \in Objects : Recover(d) \/ RecoverFails(d) \/ PassOver(d)

-----------------------------------------------------------------------------
\* A device fails on a thread of its own, in a class outside the repository.
DeviceFails(d) ==
    /\ d \in devices /\ status[d] = "ok"
    /\ \E s \in {"error", "disconnected"} : SetsStatus(d, s)
    /\ UNCHANGED <<lifecycle, monitoring, registry, using, calledBack>>

Next ==
    \/ OwnerCall \/ OwnerStep \/ MonitorStep
    \/ \E u \in Users : UseDevice(u) \/ \E d \in Objects :
           AddDevice(u, d) \/ RemoveDevice(u, d) \/ GetDevice(u, d)
    \/ \E d \in Objects : DeviceFails(d)

Spec == Init /\ [][Next]_vars

\* The threads run; a device that can be recovered is, sooner or later.
FairSpec ==
    /\ Spec
    /\ WF_vars(OwnerStep) /\ SF_vars(StopDevices)
    /\ WF_vars(MonitorStep) /\ SF_vars(CheckDevices)
    /\ \A d \in Objects : SF_vars(Recover(d))

-----------------------------------------------------------------------------
TypeOK ==
    /\ running \in BOOLEAN /\ misannounced \in BOOLEAN /\ calledBack \in BOOLEAN
    /\ owner \in {"new", "ready", "up", "joining", "stopping"}
    /\ monitor \in {"none", "loop", "check", "pass", "done"}
    /\ left \subseteq devices /\ devices \subseteq Objects
    /\ fresh \subseteq Objects \ devices /\ toLoad \subseteq Configured
    /\ status \in [Objects -> {"initializing", "ok", "error", "disconnected",
                               "stopped"}]
    /\ announced \subseteq Ids
    /\ pc \in [Users -> {"idle", "use", "undefined"}]
    /\ object \in [Users -> Objects \cup {NoObject}]

\* Whoever follows the events DEVICE_ADDED and DEVICE_REMOVED knows the registry,
\* in which an id occurs once, although devices are loaded, added and removed by
\* several threads and some of them are refused half-way.
EventsTellTheRegistry ==
    /\ announced = IdsOf(devices) /\ ~ misannounced
    /\ \A d, e \in devices : IdOf[d] = IdOf[e] => d = e

\* Once stop() has returned, and until start() is called again, no registered device
\* is started, not even one that has failed and waits to be repaired.
StoppedStaysStopped ==
    [][\A d \in devices \cap devices' :
           owner = "ready" /\ status[d] # "ok" => status'[d] # "ok"]_vars

\* The monitor looks at every device that has failed, until the manager is stopped
\* or a callback has blocked it.
FailuresAreRepaired ==
    \A d \in Objects :
        d \in devices /\ status[d] = "error"
            ~> d \notin devices \/ status[d] # "error" \/ ~ running \/ calledBack

\* stop() returns unless a callback has called back into the manager.
StopReturns == owner = "joining" ~> (owner = "ready" \/ calledBack)
=============================================================================
