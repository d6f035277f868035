--------------------------- MODULE SensorManager ---------------------------
(***************************************************************************)
(* The sensor manager of the sensor service (sensor-service/src/           *)
(* SensorManager.cpp), from the moment initialize() has returned: the map  *)
(* of drivers under one non-recursive mutex, the data collection thread,   *)
(* the health check thread, and the threads that call the public           *)
(* operations while those two run.                                         *)
(*                                                                         *)
(* One thread, the controller, calls start() and stop(), as main() does;   *)
(* the callers use everything else.  A step is what a thread does between  *)
(* two points where another thread can see a difference: a critical        *)
(* section that neither blocks nor reads a driver is one step.  The values *)
(* of readings, the statistics and the events are left out: the callbacks  *)
(* main() installs hand them to the IPC manager and return.                *)
(***************************************************************************)
EXTENDS FiniteSets, Naturals

CONSTANTS Drivers,    \* the driver objects ever handed to registerSensor()
          Ids,        \* sensor identifiers
          IdOf,       \* the identifier each driver was constructed with
          Callers,    \* threads calling the public operations
          MaxCalls,   \* bound: calls made by all callers together
          NoThread    \* the owner of a free mutex

ASSUME IdsAssumption == Drivers # {} /\ IdOf \in [Drivers -> Ids]
ASSUME BoundAssumption == MaxCalls \in Nat

Controller == "controller"
Collector  == "collector"
Health     == "health"
Threads    == Callers \cup {Controller, Collector, Health}

ASSUME ThreadsAssumption ==
  /\ Controller \notin Callers /\ Collector \notin Callers /\ Health \notin Callers
  /\ NoThread \notin Threads

VARIABLES
  running,    \* m_running
  life,       \* per driver: "new", "held" in m_sensors, or "freed"
  connected,  \* drivers whose m_connected is set
  active,     \* drivers whose own m_running is set
  mutex,      \* owner of m_mutex
  pc,         \* where each thread is
  cur,        \* the driver a caller has a raw pointer to, or Health works on
  todo,       \* what a loop over m_sensors has still to visit
  calls,      \* calls made so far
  crashed     \* a freed driver was used and the process is gone

drivers == <<life, connected, active>>
locals  == <<cur, todo>>
vars    == <<running, drivers, mutex, pc, locals, calls, crashed>>

Held == {d \in Drivers : life[d] = "held"}

Goto(t, l) == pc' = [pc EXCEPT ![t] = l]

Init ==
  /\ running = FALSE
  /\ life = [d \in Drivers |-> "new"]
  /\ connected = Drivers
  /\ active = {}
  /\ mutex = NoThread
  /\ pc = [t \in Threads |->
             IF t \in {Collector, Health} THEN "done" ELSE "idle"]
  /\ cur = [t \in Threads |-> CHOOSE d \in Drivers : TRUE]
  /\ todo = [t \in Threads |-> {}]
  /\ calls = 0
  /\ crashed = FALSE

-----------------------------------------------------------------------------
(* start() and stop(), called by the controller.                            *)

StartCall ==
  /\ pc[Controller] = "idle"
  /\ ~running
  /\ Goto(Controller, "start")
  /\ UNCHANGED <<running, drivers, mutex, locals, calls, crashed>>

\* Mutant of StartBody: the threads are created before m_running is set.
StartBodyFlagLast ==
  /\ mutex = NoThread
  /\ \/ /\ pc[Controller] = "start"
        /\ pc' = [pc EXCEPT ![Controller] = "spawned", ![Collector] = "loop",
                           ![Health] = "loop"]
        /\ \E ok \in SUBSET (Held \cap connected) : active' = active \cup ok
        /\ UNCHANGED running
     \/ /\ pc[Controller] = "spawned"
        /\ running' = TRUE
        /\ Goto(Controller, "idle")
        /\ UNCHANGED active
  /\ UNCHANGED <<life, connected, mutex, locals, calls, crashed>>

\* One critical section: start the connected drivers, any of which may refuse,
\* then set the flag, and only then create the two threads that test it.
StartBody ==
  /\ pc[Controller] = "start"
  /\ mutex = NoThread
  /\ \E ok \in SUBSET (Held \cap connected) : active' = active \cup ok
  /\ running' = TRUE
  /\ pc' = [pc EXCEPT ![Controller] = "idle", ![Collector] = "loop",
                     ![Health] = "loop"]
  /\ UNCHANGED <<life, connected, mutex, locals, calls, crashed>>

\* Mutant of StopCall: stop() takes the mutex before it joins.
StopCallLocked ==
  /\ pc[Controller] = "idle"
  /\ running
  /\ mutex = NoThread
  /\ running' = FALSE
  /\ mutex' = Controller
  /\ Goto(Controller, "join")
  /\ UNCHANGED <<drivers, locals, calls, crashed>>

StopCall ==
  /\ pc[Controller] = "idle"
  /\ running
  /\ running' = FALSE
  /\ Goto(Controller, "join")
  /\ UNCHANGED <<drivers, mutex, locals, calls, crashed>>

\* Mutant of StopJoin: only the collection thread is joined.
StopJoinCollector ==
  /\ pc[Controller] = "join"
  /\ pc[Collector] = "done"
  /\ Goto(Controller, "halt")
  /\ UNCHANGED <<running, drivers, mutex, locals, calls, crashed>>

StopJoin ==
  /\ pc[Controller] = "join"
  /\ pc[Collector] = "done" /\ pc[Health] = "done"
  /\ Goto(Controller, "halt")
  /\ UNCHANGED <<running, drivers, mutex, locals, calls, crashed>>

StopDrivers ==
  /\ pc[Controller] = "halt"
  /\ mutex = NoThread
  /\ active' = active \ Held
  /\ Goto(Controller, "idle")
  /\ UNCHANGED <<running, life, connected, mutex, locals, calls, crashed>>

-----------------------------------------------------------------------------
(* The two background threads, and what a loop over m_sensors does.         *)

\* Both threads test m_running at the head of their loop, outside the mutex.
LoopTest(t) ==
  /\ pc[t] = "loop"
  /\ Goto(t, IF running THEN "lock" ELSE "done")
  /\ UNCHANGED <<running, drivers, mutex, locals, calls, crashed>>

Lock(t) ==
  /\ pc[t] = "lock"
  /\ mutex = NoThread
  /\ mutex' = t
  /\ todo' = [todo EXCEPT ![t] = Held]
  /\ Goto(t, "scan")
  /\ UNCHANGED <<running, drivers, cur, calls, crashed>>

\* readSample() gives no reading.  When it finds the device of a running driver
\* closed, it marks the driver disconnected.
FailedRead(d) ==
  \/ UNCHANGED connected
  \/ d \in active \cap connected /\ connected' = connected \ {d}

\* The next driver is passed over, or its readSample() fails.
SkipDriver(t) ==
  /\ t # Health
  /\ pc[t] = "scan"
  /\ \E d \in todo[t] :
       /\ todo' = [todo EXCEPT ![t] = @ \ {d}]
       /\ FailedRead(d)
  /\ UNCHANGED <<running, life, active, mutex, pc, cur, calls, crashed>>

\* A reading: processSensorData() locks m_mutex, which this thread holds.  The
\* mutex is not recursive, so no step leads out of "relock".
TakeReading(t) ==
  /\ t # Health
  /\ pc[t] = "scan"
  /\ \E d \in todo[t] :
       /\ d \in active \cap connected
       /\ todo' = [todo EXCEPT ![t] = @ \ {d}]
  /\ Goto(t, "relock")
  /\ UNCHANGED <<running, drivers, mutex, cur, calls, crashed>>

Unlock(t) ==
  /\ pc[t] = "scan"
  /\ todo[t] = {}
  /\ mutex' = NoThread
  /\ Goto(t, IF t \in Callers THEN "idle" ELSE "loop")
  /\ UNCHANGED <<running, drivers, locals, calls, crashed>>

HealthLook ==
  /\ pc[Health] = "scan"
  /\ \E d \in todo[Health] :
       /\ todo' = [todo EXCEPT ![Health] = @ \ {d}]
       /\ cur' = [cur EXCEPT ![Health] = d]
       /\ Goto(Health, IF d \in active \ connected THEN "reinit" ELSE "scan")
  /\ UNCHANGED <<running, drivers, mutex, calls, crashed>>

\* initialize() sets m_connected when it succeeds; start() then sets m_running.
Reinitialize ==
  /\ pc[Health] = "reinit"
  /\ Goto(Health, "scan")
  /\ \/ /\ connected' = connected \cup {cur[Health]}
        /\ active' = active \cup {cur[Health]}
     \/ UNCHANGED <<connected, active>>
  /\ UNCHANGED <<running, life, mutex, locals, calls, crashed>>

-----------------------------------------------------------------------------
(* The operations of the callers.                                           *)

Call(c) == pc[c] = "idle" /\ calls < MaxCalls /\ calls' = calls + 1

\* A driver whose identifier is taken is refused and destroyed with its owner.
Register(c, d) ==
  /\ Call(c)
  /\ mutex = NoThread
  /\ life[d] = "new"
  /\ LET taken == \E e \in Held : IdOf[e] = IdOf[d]
     IN  life' = [life EXCEPT ![d] = IF taken THEN "freed" ELSE "held"]
  /\ UNCHANGED <<running, connected, active, mutex, pc, locals, crashed>>

\* Mutant of Unregister: no lock.
UnregisterUnlocked(c, d) ==
  /\ Call(c)
  /\ d \in Held
  /\ active' = IF running THEN active \ {d} ELSE active
  /\ life' = [life EXCEPT ![d] = "freed"]
  /\ UNCHANGED <<running, connected, mutex, pc, locals, crashed>>

Unregister(c, d) ==
  /\ Call(c)
  /\ mutex = NoThread
  /\ d \in Held
  /\ active' = IF running THEN active \ {d} ELSE active
  /\ life' = [life EXCEPT ![d] = "freed"]
  /\ UNCHANGED <<running, connected, mutex, pc, locals, crashed>>

\* Mutant of GetSensor: the null pointer of an unknown identifier is not tested.
GetSensorNull(c, d) ==
  /\ Call(c)
  /\ mutex = NoThread
  /\ cur' = [cur EXCEPT ![c] = IF d \in Held THEN d ELSE NoThread]
  /\ Goto(c, "use")
  /\ UNCHANGED <<running, drivers, mutex, todo, crashed>>

\* getSensor() returns a raw pointer and releases the mutex.
GetSensor(c, d) ==
  /\ Call(c)
  /\ mutex = NoThread
  /\ d \in Held
  /\ cur' = [cur EXCEPT ![c] = d]
  /\ Goto(c, "use")
  /\ UNCHANGED <<running, drivers, mutex, todo, crashed>>

\* The pointer is used: a call that leaves no reading to process.
UseDriver(c) ==
  /\ pc[c] = "use"
  /\ life[cur[c]] = "held"
  /\ FailedRead(cur[c])
  /\ Goto(c, "idle")
  /\ UNCHANGED <<running, life, active, mutex, locals, calls, crashed>>

\* readSample() succeeds: its data callback processes the reading, and then
\* readSensor() processes the same reading again.
ReadSample(c) ==
  /\ pc[c] = "use"
  /\ cur[c] \in Held \cap active \cap connected
  /\ Goto(c, "emit")
  /\ UNCHANGED <<running, drivers, mutex, locals, calls, crashed>>

Process(c) ==
  /\ pc[c] \in {"emit", "process"}
  /\ mutex = NoThread
  /\ Goto(c, IF pc[c] = "emit" THEN "process" ELSE "idle")
  /\ UNCHANGED <<running, drivers, mutex, locals, calls, crashed>>

\* A pointer whose driver unregisterSensor() has destroyed: the call may return
\* what the memory still holds, with or without a reading, or end the process.
UseFreed(c) ==
  /\ pc[c] = "use"
  /\ life[cur[c]] = "freed"
  /\ \/ \E l \in {"idle", "emit"} : Goto(c, l) /\ UNCHANGED crashed
     \/ crashed' = TRUE /\ UNCHANGED pc
  /\ UNCHANGED <<running, drivers, mutex, locals, calls>>

\* readAllSensors() holds the mutex over the same loop as the collector's.
ReadAll(c) ==
  /\ Call(c)
  /\ Goto(c, "lock")
  /\ UNCHANGED <<running, drivers, mutex, locals, crashed>>

-----------------------------------------------------------------------------
ControllerStep == StartBody \/ StopJoin \/ StopDrivers

CollectorStep ==
  \/ LoopTest(Collector) \/ Lock(Collector) \/ SkipDriver(Collector)
  \/ TakeReading(Collector) \/ Unlock(Collector)

HealthStep ==
  \/ LoopTest(Health) \/ Lock(Health) \/ HealthLook
  \/ Reinitialize \/ Unlock(Health)

\* What a call does once it is under way.
CallerStep(c) ==
  \/ UseDriver(c) \/ ReadSample(c) \/ Process(c) \/ UseFreed(c)
  \/ Lock(c) \/ SkipDriver(c) \/ TakeReading(c) \/ Unlock(c)

NewCall(c) ==
  \/ \E d \in Drivers : Register(c, d) \/ Unregister(c, d) \/ GetSensor(c, d)
  \/ ReadAll(c)

Next ==
  /\ ~crashed
  /\ \/ StartCall \/ StopCall \/ ControllerStep
     \/ CollectorStep
     \/ HealthStep
     \/ \E c \in Callers : NewCall(c) \/ CallerStep(c)

Spec == Init /\ [][Next]_vars

\* Every thread that can run is scheduled in the end.  Nothing makes a caller
\* call, or the controller start or stop.
Fairness ==
  /\ WF_vars(~crashed /\ ControllerStep)
  /\ WF_vars(~crashed /\ CollectorStep)
  /\ WF_vars(~crashed /\ HealthStep)
  /\ \A c \in Callers : WF_vars(~crashed /\ CallerStep(c))

FairSpec == Spec /\ Fairness

-----------------------------------------------------------------------------
(* Properties.                                                              *)

TypeOK ==
  /\ running \in BOOLEAN /\ crashed \in BOOLEAN
  /\ life \in [Drivers -> {"new", "held", "freed"}]
  /\ connected \subseteq Drivers /\ active \subseteq Drivers
  /\ mutex \in Threads \cup {NoThread}
  /\ pc \in [Threads -> {"idle", "start", "join", "halt", "loop", "lock",
                         "scan", "relock", "reinit", "use", "emit", "process",
                         "done"}]
  /\ cur \in [Threads -> Drivers]
  /\ todo \in [Threads -> SUBSET Drivers]
  /\ calls \in 0..MaxCalls

\* A loop over m_sensors - the collection loop, the health check's and that of
\* readAllSensors() - visits live drivers only, and the driver the health check
\* re-initializes stays in the map meanwhile: drivers may come and go at any
\* time and only what uses a pointer of getSensor() can meet a freed one.
LoopsVisitLiveDrivers ==
  \A t \in Threads :
    /\ pc[t] = "scan" => todo[t] \subseteq Held
    /\ pc[t] = "reinit" => {cur[t]} \cup todo[t] \subseteq Held

\* Between start() and stop() both background threads are there: neither saw
\* m_running still FALSE and left at once.
RunningHasThreads ==
  running /\ pc[Controller] = "idle" =>
    pc[Collector] # "done" /\ pc[Health] # "done"

\* When the manager is stopped - stop() has returned and start() is not under
\* way - no driver of the map is running, whatever the health check restarted
\* while stop() waited, and no background thread is left that could start one.
StoppedIsQuiet ==
  ~running /\ pc[Controller] = "idle" =>
    /\ active \cap Held = {}
    /\ pc[Collector] = "done" /\ pc[Health] = "done"

\* The thread that holds the mutex waits for it.
SelfDeadlock == \E t \in Threads : pc[t] = "relock"

\* stop() returns, however the loops, the health check's restarts and the calls
\* of other threads fall, unless a thread has locked itself out or the process
\* is gone: there is no lock order or join that can hang by itself.
StopReturns ==
  pc[Controller] \in {"join", "halt"} ~>
    pc[Controller] = "idle" \/ SelfDeadlock \/ crashed

\* What the tests ReadAllSensors and PerformanceManySensors say: a reading taken
\* by a loop over the sensors is processed and the loop goes on.
LoopsSurviveReading == ~SelfDeadlock
=============================================================================
