------------------------------ MODULE MCSensors ------------------------------
(***************************************************************************)
(* The sensor service: its manager with three drivers, two of them with    *)
(* the same identifier, and what goes on below it, in a driver of each     *)
(* kind, in the parser of the GPS driver, and on the bus of an IMU; and    *)
(* the thread pool, for its liveness.                                      *)
(*                                                                         *)
(* To the manager a driver is connected or not, and it uses no pool, so    *)
(* that the five are looked at one at a time: a behaviour is one of one of *)
(* them, chosen at the start.                                              *)
(***************************************************************************)
EXTENDS SensorManager

CONSTANTS d1, d2, d3, a, b,
          Kinds, Ranges, MaxLost,
          MaxLines,
          Readers, MaxReads, MaxFailures

VARIABLES which,
          kind, chip, fd, lost, driverConnected, driverActive, setting, chipRange,
          initialized, writeFailed, sample,
          reported, hasFix, line, updated, cut, reading,
          at, slave, pointer, right, begun, failed, overlapped, misread, misplaced,
          lock, waiting, stopped, stopNowFlag, maxQueueSize, activeTasks, status,
          enqueueTime, clock, wpc, job, cpc, arg, opc

MCIdOf == [d \in {d1, d2, d3} |-> IF d = d3 THEN b ELSE a]

\* The constants of these have the names they have in the components' modules.
Driver == INSTANCE SensorDriver WITH
    connected <- driverConnected, active <- driverActive
Gps == INSTANCE GPSDriver
Imu == INSTANCE ImuBus

\* Two workers, a client that hands tasks over and one that waits for them.
PoolWorkers == {"w1", "w2"}
Pool == INSTANCE ThreadPool WITH
    Worker <- PoolWorkers, Submitter <- {"c1"}, Waiter <- {"c2"},
    Task <- {"t1", "t2"}, Prio <- [t \in {"t1", "t2"} |-> 0], Timed <- {},
    Limits <- {1}, None <- "none"

ASSUME InstanceAssumption ==
    Driver!DriverAssumption /\ Gps!LinesAssumption /\ Imu!BusAssumption

driverVars == <<kind, chip, fd, lost, driverConnected, driverActive, setting,
                chipRange, initialized, writeFailed, sample>>
gpsVars == <<reported, hasFix, line, updated, cut, reading>>
busVars == <<at, slave, pointer, right, begun, failed, overlapped, misread,
             misplaced>>
poolVars == <<lock, waiting, stopped, stopNowFlag, maxQueueSize, activeTasks,
              status, enqueueTime, clock, wpc, job, cpc, arg, opc>>
others == <<driverVars, gpsVars, busVars, poolVars>>
allVars == <<which, vars, others>>

MCInit == /\ which \in {"manager", "driver", "gps", "bus", "pool"}
          /\ Init /\ Gps!Init /\ Imu!Init /\ Pool!Init
          /\ Driver!Init /\ (which # "driver" => kind = "imu")

MCNext ==
    \/ which = "manager" /\ Next /\ UNCHANGED <<which, others>>
    \/ /\ which = "driver" /\ Driver!Next
       /\ UNCHANGED <<which, vars, gpsVars, busVars, poolVars>>
    \/ /\ which = "gps" /\ Gps!Next
       /\ UNCHANGED <<which, vars, driverVars, busVars, poolVars>>
    \/ /\ which = "bus" /\ Imu!Next
       /\ UNCHANGED <<which, vars, driverVars, gpsVars, poolVars>>
    \/ /\ which = "pool" /\ Pool!Next
       /\ UNCHANGED <<which, vars, driverVars, gpsVars, busVars>>

ManagerRuns == which = "manager" /\ ~ crashed
ManagerFairness ==
    /\ WF_vars(ManagerRuns /\ ControllerStep)
    /\ WF_vars(ManagerRuns /\ CollectorStep)
    /\ WF_vars(ManagerRuns /\ HealthStep)
    /\ \A c \in Callers : WF_vars(ManagerRuns /\ CallerStep(c))

PoolRuns == which = "pool"
PoolFairness ==
    /\ \A w \in PoolWorkers : /\ WF_poolVars(PoolRuns /\ Pool!Movers(w))
                               /\ SF_poolVars(PoolRuns /\ Pool!Lockers(w))
    /\ WF_poolVars(PoolRuns /\ Pool!ClientMoves("c1"))
    /\ WF_poolVars(PoolRuns /\ Pool!ClientMoves("c2"))
    /\ SF_poolVars(PoolRuns /\ Pool!ClientLocks("c2"))
    /\ WF_poolVars(PoolRuns /\ Pool!OwnerMoves)
    /\ SF_poolVars(PoolRuns /\ Pool!Drain)

MCFairSpec == MCInit /\ [][MCNext]_allVars /\ ManagerFairness /\ PoolFairness

-----------------------------------------------------------------------------
\* A driver holds a descriptor only if it is initialized, reads only through one,
\* and scales by the ranges its chip is in; a sentence cut at the end of a read()
\* yields no half of a position; and one reader of an IMU misreads no more than once
\* for each switch of the slave that fails.
DriversHold == /\ Driver!DriversHold /\ Gps!CutSentencesHarmless
               /\ Imu!OneReaderReadsRight

\* Accepted tasks are executed, skipped or cancelled in the end, unless the pool is
\* being stopped or a waitAll() caller may swallow the one notification of submit*().
AcceptedIsServed == Pool!AcceptedIsServed

\* stopNow() returns, because its drain takes the mutex between flag and notification.
StopNowReturns == Pool!StopNowReturns
=============================================================================
