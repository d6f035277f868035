------------------------- MODULE SensorManagerProofs -------------------------
(***************************************************************************)
(* The safety properties of SensorManager for every set of drivers and of  *)
(* callers and every number of calls.  Two facts make them inductive: who  *)
(* owns the mutex follows from the program counters, and the phase of the  *)
(* controller bounds what the two background threads can be doing.         *)
(*                                                                         *)
(* Below them, with the instances of MCSensors: a driver, the parser of    *)
(* the GPS driver and the bus of an IMU.                                   *)
(***************************************************************************)
EXTENDS MCSensors, Sequences, TLAPS

\* Inside a loop over m_sensors a thread owns the mutex.
Owner ==
  \A t \in Threads : pc[t] \in {"scan", "relock", "reinit"} => mutex = t

\* From the end of the join to the next start() both threads are gone; m_running
\* is set only while the controller is between its calls.
Phases ==
  /\ pc[Controller] \in {"idle", "start", "join", "halt"}
  /\ running => pc[Controller] = "idle"
  /\ pc[Controller] = "start" => active \cap Held = {}
  /\ pc[Controller] \in {"halt", "start"} =>
       pc[Collector] = "done" /\ pc[Health] = "done"

\* Only drivers that were registered have ever been started.
ActiveRegistered == \A d \in active : life[d] # "new"

IInv ==
  /\ TypeOK /\ Owner /\ Phases /\ ActiveRegistered
  /\ LoopsVisitLiveDrivers /\ RunningHasThreads /\ StoppedIsQuiet

-----------------------------------------------------------------------------

\* A manager that has just been made is in the invariant.
LEMMA InitInv == Init => IInv
<1> SUFFICES ASSUME Init PROVE IInv
  OBVIOUS
<1> USE IdsAssumption, BoundAssumption, ThreadsAssumption DEF Init
<1>1. TypeOK
  <2>1. (CHOOSE d \in Drivers : TRUE) \in Drivers
    OBVIOUS
  <2>2. pc \in [Threads -> {"idle", "done"}] /\ cur \in [Threads -> Drivers]
    BY <2>1
  <2>3. todo \in [Threads -> SUBSET Drivers] /\ calls \in 0..MaxCalls
    BY SMT
  <2> QED BY <2>2, <2>3 DEF TypeOK
<1>2. Owner /\ Phases /\ ActiveRegistered
  BY DEF Owner, Phases, ActiveRegistered, Threads, Controller, Collector, Health, Held
<1>3. LoopsVisitLiveDrivers /\ RunningHasThreads /\ StoppedIsQuiet
  BY DEF LoopsVisitLiveDrivers, RunningHasThreads, StoppedIsQuiet, Threads,
     Controller, Collector, Health
<1> QED BY <1>1, <1>2, <1>3 DEF IInv

\* Every step keeps the types.
LEMMA TypeStep == TypeOK /\ [Next]_vars => TypeOK'
<1> SUFFICES ASSUME TypeOK, [Next]_vars PROVE TypeOK'
  OBVIOUS
<1> USE IdsAssumption, BoundAssumption, ThreadsAssumption
     DEF TypeOK, drivers, locals, Goto, Held
<1>1. CASE StartCall \/ StartBody \/ StopCall \/ StopJoin \/ StopDrivers
  BY <1>1 DEF StartCall, StartBody, StopCall, StopJoin, StopDrivers, Threads
<1>2. CASE \E t \in Threads : LoopTest(t) \/ Lock(t) \/ Unlock(t)
  BY <1>2 DEF LoopTest, Lock, Unlock
<1>3. CASE \E t \in Threads : SkipDriver(t) \/ TakeReading(t)
  BY <1>3 DEF SkipDriver, TakeReading, FailedRead
<1>4. CASE HealthLook \/ Reinitialize
  BY <1>4 DEF HealthLook, Reinitialize, Threads
<1>5. CASE \E c \in Callers : NewCall(c)
  BY <1>5 DEF NewCall, Call, Register, Unregister, GetSensor, ReadAll, Threads
<1>6. CASE \E c \in Callers : UseDriver(c) \/ ReadSample(c)
  BY <1>6 DEF UseDriver, ReadSample, FailedRead, Threads
<1>9. CASE \E c \in Callers : UseFreed(c)
  <2>1. PICK c \in Callers : UseFreed(c)
    BY <1>9
  <2>2. crashed' \in BOOLEAN
    <3>1. CASE UNCHANGED crashed
      BY <3>1
    <3>2. CASE crashed' = TRUE
      BY <3>2
    <3> QED BY <2>1, <3>1, <3>2 DEF UseFreed
  <2>3. pc' = pc \/ \E l \in {"idle", "emit"} : pc' = [pc EXCEPT ![c] = l]
    BY <2>1 DEF UseFreed
  <2>4. pc' \in [Threads -> {"idle", "start", "join", "halt", "loop", "lock",
                "scan", "relock", "reinit", "use", "emit", "process", "done"}]
    BY <2>3
  <2> QED BY <2>1, <2>2, <2>4 DEF UseFreed
<1>8. CASE \E c \in Callers : Process(c)
  <2>1. PICK c \in Callers : Process(c)
    BY <1>8
  <2>2. pc' \in [Threads -> {"idle", "start", "join", "halt", "loop", "lock",
                "scan", "relock", "reinit", "use", "emit", "process", "done"}]
    BY <2>1 DEF Process
  <2> QED BY <2>1, <2>2 DEF Process
<1>7. CASE UNCHANGED vars
  BY <1>7 DEF vars
<1> QED
  BY <1>1, <1>2, <1>3, <1>4, <1>5, <1>6, <1>7, <1>8, <1>9
  DEF Next, ControllerStep, CollectorStep, HealthStep, CallerStep, Threads

\* The threads whose program counter a step leaves alone keep what the invariant
\* says of them; the three background names are no caller's.
LEMMA Names ==
  /\ Controller # Collector /\ Controller # Health /\ Collector # Health
  /\ \A c \in Callers : c # Controller /\ c # Collector /\ c # Health
  /\ {Controller, Collector, Health} \cup Callers \subseteq Threads
  /\ \A t \in Threads : t # NoThread
BY ThreadsAssumption DEF Threads, Controller, Collector, Health

\* Every step keeps the invariant.
LEMMA Step == IInv /\ [Next]_vars => IInv'
<1> SUFFICES ASSUME IInv, [Next]_vars PROVE IInv'
  OBVIOUS
<1>0. TypeOK'
  BY TypeStep DEF IInv
<1> USE <1>0, Names
    DEF IInv, Owner, Phases, ActiveRegistered, LoopsVisitLiveDrivers,
        RunningHasThreads, StoppedIsQuiet, Held, TypeOK, drivers, locals, Goto
<1>1. CASE StartCall
  BY <1>1 DEF StartCall
<1>2. CASE StartBody
  BY <1>2 DEF StartBody
<1>3. CASE StopCall
  BY <1>3 DEF StopCall
<1>4. CASE StopJoin
  BY <1>4 DEF StopJoin
<1>5. CASE StopDrivers
  BY <1>5 DEF StopDrivers
<1>6. ASSUME NEW t \in {Collector, Health}, LoopTest(t) PROVE IInv'
  BY <1>6 DEF LoopTest
<1>7. ASSUME NEW t \in Threads \ {Controller}, Lock(t) PROVE IInv'
  BY <1>7 DEF Lock
<1>8. ASSUME NEW t \in Threads \ {Controller}, SkipDriver(t) PROVE IInv'
  BY <1>8 DEF SkipDriver, FailedRead
<1>9. ASSUME NEW t \in Threads \ {Controller}, TakeReading(t) PROVE IInv'
  BY <1>9 DEF TakeReading
<1>10. ASSUME NEW t \in Threads \ {Controller}, Unlock(t) PROVE IInv'
  BY <1>10 DEF Unlock
<1>11. CASE HealthLook
  BY <1>11 DEF HealthLook
<1>12. CASE Reinitialize
  BY <1>12 DEF Reinitialize
<1>13. ASSUME NEW c \in Callers, NEW d \in Drivers, Register(c, d) PROVE IInv'
  BY <1>13 DEF Register, Call
<1>14. ASSUME NEW c \in Callers, NEW d \in Drivers, Unregister(c, d) PROVE IInv'
  BY <1>14 DEF Unregister, Call
<1>15. ASSUME NEW c \in Callers, NEW d \in Drivers, GetSensor(c, d) PROVE IInv'
  BY <1>15 DEF GetSensor, Call
<1>16. ASSUME NEW c \in Callers, ReadAll(c) PROVE IInv'
  BY <1>16 DEF ReadAll, Call
<1>17. ASSUME NEW c \in Callers, UseDriver(c) PROVE IInv'
  BY <1>17 DEF UseDriver, FailedRead
<1>18. ASSUME NEW c \in Callers, ReadSample(c) \/ Process(c) PROVE IInv'
  BY <1>18 DEF ReadSample, Process
<1>19. ASSUME NEW c \in Callers, UseFreed(c) PROVE IInv'
  BY <1>19 DEF UseFreed
<1>20. CASE UNCHANGED vars
  BY <1>20 DEF vars
<1> HIDE DEF IInv, Held, TypeOK
<1> QED
  BY <1>1, <1>2, <1>3, <1>4, <1>5, <1>6, <1>7, <1>8, <1>9, <1>10, <1>11, <1>12,
     <1>13, <1>14, <1>15, <1>16, <1>17, <1>18, <1>19, <1>20
  DEF Next, ControllerStep, CollectorStep, HealthStep, CallerStep, NewCall

\* The invariant holds of every behaviour.
LEMMA Invariance == Spec => []IInv
BY InitInv, Step, PTL DEF Spec

-----------------------------------------------------------------------------
\* Every state of the manager has the types of its variables.
THEOREM TypeCorrect == Spec => []TypeOK
BY Invariance, PTL DEF IInv

\* No loop over m_sensors meets a driver unregisterSensor() has destroyed, for
\* any number of callers: the erasure and the loops exclude each other.
THEOREM LoopsAreSafe == Spec => []LoopsVisitLiveDrivers
BY Invariance, PTL DEF IInv

\* The background threads never miss the start: m_running is set before either
\* exists and stays set until stop().
THEOREM ThreadsRun == Spec => []RunningHasThreads
BY Invariance, PTL DEF IInv

\* Whatever the health check restarts and the callers register while stop()
\* waits, no driver runs once it has returned.
THEOREM Quiet == Spec => []StoppedIsQuiet
BY Invariance, PTL DEF IInv

-----------------------------------------------------------------------------
(* The drivers below the manager, with which MCSensors runs: a driver of   *)
(* each kind, the parser of the GPS driver, and the bus of an IMU.         *)

\* A driver with a descriptor is initialized, and both ranges of an IMU's chip are those
\* of the last complete initialize(), or of a configure() that reached the chip.
DriverInv ==
  /\ fd => initialized
  /\ kind = "imu" /\ initialized /\ ~ writeFailed =>
       /\ chipRange["accel"] = Driver!AccelRange(setting["accel"])
       /\ chipRange["gyro"] = Driver!GyroRange(setting["gyro"])
  /\ setting \in [{"accel", "gyro"} -> Nat] /\ chipRange \in [{"accel", "gyro"} -> Nat]

\* How each quantity was read.
GpsInv ==
  /\ reported \in [Gps!Quantities -> {"none", "whole", "part", "undefined"}]
  /\ Gps!CutSentencesHarmless

Places == {"idle", "motion", "switch", "point", "field", "switch back"}
BusTypes ==
  /\ at \in [Readers -> Places]
  /\ slave \in {"motion", "magnetometer"}
  /\ pointer \in [{"motion", "magnetometer"} -> {"other", "acceleration", "field"}]
  /\ right \in [Readers -> BOOLEAN]
  /\ misread \in Nat /\ failed \in Nat
  /\ overlapped \in BOOLEAN /\ misplaced \in BOOLEAN

\* What a reader that is alone knows of the bus: the slave the descriptor talks to and
\* the register it will answer from.
Alone ==
  /\ \A r, o \in Readers : r = o \/ at[r] = "idle" \/ at[o] = "idle"
  /\ \A r \in Readers :
       /\ at[r] = "motion" /\ slave = "motion" => pointer["motion"] = "acceleration"
       /\ at[r] = "switch" => (right[r] <=> slave = "motion")
       /\ at[r] = "point" \/ at[r] = "field" \/ at[r] = "switch back" =>
            slave = "magnetometer"
       /\ at[r] = "field" => pointer["magnetometer"] = "field"

\* A bus left with the wrong slave, and a reading that has met it, stand for a switch
\* that failed and has not been paid for by a reading that was wrong.
Reading(r) == at[r] # "idle" /\ at[r] # "motion"
Debts ==
  /\ misread <= failed
  /\ \A r \in Readers : Reading(r) /\ ~ right[r] => misread < failed
  /\ (\A r \in Readers : ~ Reading(r)) /\ slave # "motion" => misread < failed
  /\ misplaced => failed > 0

BusInv == BusTypes /\ (~ overlapped => Alone /\ Debts)

-----------------------------------------------------------------------------
\* What start() asks for is what selfTest() asks for, and without a descriptor only a
\* chip on one wire or a pin is read.
LEMMA DriverChecks ==
  /\ Driver!SelfTest <=> Driver!Starts
  /\ Driver!Reads /\ ~ fd => chip \in Driver!Wireless
<1>1. Driver!SelfTest <=> Driver!Starts
  BY DEF Driver!SelfTest, Driver!Starts, Driver!ImuSelfTest, Driver!ImuStarts,
     Driver!GpsSelfTest, Driver!GpsStarts, Driver!PressureSelfTest,
     Driver!PressureStarts, Driver!TemperatureSelfTest, Driver!TemperatureStarts,
     Driver!HumiditySelfTest, Driver!HumidityStarts
<1>2. Driver!Reads /\ ~ fd => chip \in Driver!Wireless
  BY DEF Driver!Reads, Driver!ImuReads, Driver!GpsReads, Driver!PressureReads,
     Driver!TemperatureReads, Driver!HumidityReads, Driver!Wireless
<1> QED
  BY <1>1, <1>2

ImuStepNames == {"open", "address", "reset", "wake", "accel", "gyro", "rate", "switch",
                 "continuous", "switch back"}

\* An initialize() of an IMU that has gone through all of its steps has written both
\* ranges to the chip.
LEMMA ImuConfigured ==
  ASSUME kind = "imu", NEW c \in Driver!Chips
  PROVE  /\ Len(Driver!Steps(c)) \in Nat /\ Len(Driver!Steps(c)) >= 6
         /\ Driver!Steps(c)[5] = "accel" /\ Driver!Steps(c)[6] = "gyro"
<1> DEFINE own == IF c = "MPU6050" THEN Driver!InitMPU6050 ELSE Driver!InitMPU9250
<1>1. Driver!Steps(c) = <<"open", "address">> \o own
  BY DEF Driver!Steps, Driver!ImuSteps
<1>2. /\ Driver!InitMPU6050 \in Seq(ImuStepNames) /\ Len(Driver!InitMPU6050) >= 5
      /\ Driver!InitMPU6050[3] = "accel" /\ Driver!InitMPU6050[4] = "gyro"
  BY DEF Driver!InitMPU6050, ImuStepNames
<1>3. Driver!ConfigureMagnetometer \in Seq(ImuStepNames)
  BY DEF Driver!ConfigureMagnetometer, ImuStepNames
<1>4. /\ Driver!InitMPU9250 \in Seq(ImuStepNames) /\ Len(Driver!InitMPU9250) >= 5
      /\ Driver!InitMPU9250[3] = "accel" /\ Driver!InitMPU9250[4] = "gyro"
  BY <1>2, <1>3 DEF Driver!InitMPU9250
<1>5. own \in Seq(ImuStepNames) /\ Len(own) >= 5 /\ own[3] = "accel" /\ own[4] = "gyro"
  BY <1>2, <1>4
<1> HIDE DEF own
<1> QED
  BY <1>1, <1>5

\* DriverInv says more than DriversHold.
LEMMA DriverHolds == DriverInv => Driver!DriversHold
BY DriverChecks
DEF DriverInv, Driver!DriversHold, Driver!AccelScale, Driver!AccelRange,
    Driver!GyroScale, Driver!GyroRange

\* A driver that has just been made.
LEMMA DriverInit == Driver!Init => DriverInv
BY DEF Driver!Init, DriverInv

\* Every step of a driver.
LEMMA DriverStep == DriverInv /\ [Driver!Next]_(Driver!driverVars) => DriverInv'
<1> SUFFICES ASSUME DriverInv, [Driver!Next]_(Driver!driverVars) PROVE DriverInv'
  OBVIOUS
<1>0. Ranges \subseteq Nat
  BY InstanceAssumption DEF Driver!DriverAssumption
<1>1. ASSUME NEW c \in Driver!Chips, NEW accel \in Ranges, NEW gyro \in Ranges,
             NEW done \in 0 .. 10, Driver!Initialize(c, accel, gyro, done)
      PROVE  DriverInv'
  <2> DEFINE passed == {Driver!Steps(c)[i] : i \in 1 .. done}
  <2>1. /\ kind' = kind /\ setting' = [accel |-> accel, gyro |-> gyro]
        /\ initialized' = (done = Len(Driver!Steps(c)))
        /\ fd' = (initialized' /\ c \notin Driver!Wireless)
        /\ chipRange' = [accel |-> IF "accel" \in passed THEN Driver!AccelRange(accel)
                                   ELSE chipRange.accel,
                         gyro  |-> IF "gyro" \in passed THEN Driver!GyroRange(gyro)
                                   ELSE chipRange.gyro]
    BY <1>1 DEF Driver!Initialize
  <2>2. setting' \in [{"accel", "gyro"} -> Nat] /\ chipRange' \in [{"accel", "gyro"} -> Nat]
    BY <1>0, <2>1 DEF DriverInv, Driver!AccelRange, Driver!GyroRange
  <2>3. kind = "imu" /\ initialized' => "accel" \in passed /\ "gyro" \in passed
    <3> SUFFICES ASSUME kind = "imu", initialized'
                 PROVE  "accel" \in passed /\ "gyro" \in passed
      OBVIOUS
    <3>1. done >= 6 /\ Driver!Steps(c)[5] = "accel" /\ Driver!Steps(c)[6] = "gyro"
      BY <2>1, ImuConfigured
    <3> QED
      BY <3>1
  <2> QED
    BY <2>1, <2>2, <2>3 DEF DriverInv
<1>2. CASE Driver!Start \/ Driver!Stop \/ Driver!ReadSample
  BY <1>2 DEF DriverInv, Driver!Start, Driver!Stop, Driver!ReadSample
<1>3. ASSUME NEW w \in {"accel", "gyro"}, NEW s \in Ranges, Driver!Configure(w, s)
      PROVE  DriverInv'
  BY <1>0, <1>3 DEF DriverInv, Driver!Configure, Driver!AccelRange, Driver!GyroRange
<1>4. CASE UNCHANGED Driver!driverVars
  BY <1>4 DEF DriverInv, Driver!driverVars
<1> QED
  BY <1>1, <1>2, <1>3, <1>4 DEF Driver!Next

-----------------------------------------------------------------------------

\* No sentence has been read.
LEMMA GpsInit == Gps!Init => GpsInv
BY DEF Gps!Init, GpsInv, Gps!CutSentencesHarmless, Gps!Quantities

\* A line with the fields its parser asks for has those it uses, but GSA's last.
LEMMA FieldsFound ==
  ASSUME NEW t \in Gps!Types, NEW n \in Nat, n >= Gps!Needed[t], NEW whole \in BOOLEAN,
         NEW q \in DOMAIN Gps!Field[t]
  PROVE  /\ q \in {"position", "altitude", "speed", "heading"} =>
              Gps!Found(Gps!Field[t][q], n, whole) = "whole"
         /\ q \in {"horizontal", "satellites"} =>
              Gps!Found(Gps!Field[t][q], n, whole) \in {"whole", "part"}
<1>1. CASE t = "GGA"
  BY <1>1 DEF Gps!Needed, Gps!Field, Gps!ParseGGA, Gps!Found
<1>2. CASE t = "GLL"
  BY <1>2 DEF Gps!Needed, Gps!Field, Gps!ParseGLL, Gps!Found
<1>3. CASE t = "RMC"
  BY <1>3 DEF Gps!Needed, Gps!Field, Gps!ParseRMC, Gps!Found
<1>4. CASE t = "VTG"
  BY <1>4 DEF Gps!Needed, Gps!Field, Gps!ParseVTG, Gps!Found
<1>5. CASE t = "GSA"
  BY <1>5 DEF Gps!Needed, Gps!Field, Gps!ParseGSA, Gps!Found
<1>6. CASE t = "GSV"
  BY <1>6 DEF Gps!Needed, Gps!Field, Gps!ParseGSV, Gps!Found
<1> QED
  BY <1>1, <1>2, <1>3, <1>4, <1>5, <1>6 DEF Gps!Types

\* A sentence, whole or cut, leaves every quantity in order.
LEMMA ParseStep ==
  ASSUME GpsInv, NEW t \in Gps!Types, NEW n \in Nat, NEW whole \in BOOLEAN, NEW fix,
         Gps!ParseNMEA(t, n, whole, fix)
  PROVE  GpsInv'
<1>1. \A q \in Gps!Quantities :
        \/ reported'[q] = reported[q]
        \/ /\ n >= Gps!Needed[t] /\ q \in DOMAIN Gps!Field[t]
           /\ reported'[q] = Gps!Found(Gps!Field[t][q], n, whole)
  BY DEF Gps!ParseNMEA
<1>2. reported' \in [Gps!Quantities -> {"none", "whole", "part", "undefined"}]
  <2>1. \A i : Gps!Found(i, n, whole) \in {"whole", "part", "undefined"}
    BY DEF Gps!Found
  <2> QED
    BY <2>1 DEF Gps!ParseNMEA, GpsInv
<1>3. Gps!CutSentencesHarmless'
  BY <1>1, FieldsFound DEF GpsInv, Gps!CutSentencesHarmless, Gps!Quantities
<1> QED
  BY <1>2, <1>3 DEF GpsInv

\* Every step of the GPS driver.
LEMMA GpsStep == GpsInv /\ [Gps!Next]_(Gps!gpsVars) => GpsInv'
<1> SUFFICES ASSUME GpsInv, [Gps!Next]_(Gps!gpsVars) PROVE GpsInv'
  OBVIOUS
<1>1. ASSUME NEW t \in Gps!Types, NEW n \in 1 .. 18, NEW fix \in BOOLEAN,
             Gps!WholeLine(t, n, fix)
      PROVE  GpsInv'
  <2>1. Gps!ParseNMEA(t, n, TRUE, fix)
    BY <1>1, Zenon DEF Gps!WholeLine
  <2>2. n \in Nat
    OBVIOUS
  <2> QED
    BY <2>1, <2>2, ParseStep, Zenon
<1>2. ASSUME NEW t \in Gps!Types, NEW n \in 1 .. 18, NEW fix \in BOOLEAN,
             NEW whole \in BOOLEAN, Gps!CutLine(t, n, whole, fix)
      PROVE  GpsInv'
  BY <1>2, ParseStep DEF Gps!CutLine
<1>3. CASE Gps!RestOfLine \/ Gps!EndOfRead
  BY <1>3 DEF Gps!RestOfLine, Gps!EndOfRead, GpsInv, Gps!CutSentencesHarmless
<1>4. CASE Gps!ResetState
  BY <1>4 DEF Gps!ResetState, GpsInv, Gps!CutSentencesHarmless, Gps!Quantities
<1>5. CASE UNCHANGED Gps!gpsVars
  BY <1>5 DEF Gps!gpsVars, GpsInv, Gps!CutSentencesHarmless
<1> QED
  BY <1>1, <1>2, <1>3, <1>4, <1>5 DEF Gps!Next

-----------------------------------------------------------------------------

\* The bus is at the motion sensor and owes nothing.
LEMMA BusInit == Imu!Init => BusInv
<1> SUFFICES ASSUME Imu!Init PROVE BusInv
  OBVIOUS
<1>1. "idle" \in Places
  BY DEF Places
<1>2. BusTypes
  BY <1>1 DEF Imu!Init, BusTypes
<1>3. Alone
  BY DEF Imu!Init, Alone
<1>4. Debts
  BY DEF Imu!Init, Debts, Reading
<1> QED
  BY <1>2, <1>3, <1>4 DEF BusInv

\* The two steps that return a reading: it counts as wrong unless it is right, and the
\* bus is left with the motion sensor unless a switch has failed.
LEMMA Returned ==
  ASSUME BusTypes, NEW r \in Readers, Imu!SwitchFails(r) \/ Imu!SwitchBack(r)
  PROVE  /\ at' = [at EXCEPT ![r] = "idle"] /\ (at[r] = "switch" \/ at[r] = "switch back")
         /\ slave' = slave \/ slave' = "motion"
         /\ UNCHANGED <<pointer, right, overlapped, misplaced>>
BY DEF Imu!SwitchFails, Imu!SwitchBack, Imu!Returns, Imu!Goes

\* What giving the bus back does to the counters.
LEMMA Paid ==
  ASSUME BusTypes, NEW r \in Readers, Imu!SwitchFails(r) \/ Imu!SwitchBack(r)
  PROVE  /\ misread' \in Nat /\ failed' \in Nat
         /\ right[r] => misread' = misread
         /\ ~ right[r] => misread' = misread + 1
         /\ failed' = failed + 1 \/ (failed' = failed /\ slave' = "motion")
<1>1. misread' = misread + IF right[r] THEN 0 ELSE 1
  BY DEF Imu!SwitchFails, Imu!SwitchBack, Imu!Returns
<1>2. failed' = failed + 1 \/ (failed' = failed /\ slave' = "motion")
  BY DEF Imu!SwitchFails, Imu!SwitchBack
<1>3. misread \in Nat /\ failed \in Nat
  BY DEF BusTypes
<1>4. failed' \in Nat
  BY <1>2, <1>3
<1>5. misread' \in Nat
  BY <1>1, <1>3
<1>6. (right[r] => misread' = misread) /\ (~ right[r] => misread' = misread + 1)
  BY <1>1, <1>3
<1> QED
  BY <1>2, <1>4, <1>5, <1>6

\* Every step keeps the types.
LEMMA BusTypeStep == BusTypes /\ [Imu!Next]_(Imu!busVars) => BusTypes'
<1> SUFFICES ASSUME BusTypes, [Imu!Next]_(Imu!busVars) PROVE BusTypes'
  OBVIOUS
<1>0. /\ "idle" \in Places /\ "motion" \in Places /\ "switch" \in Places
      /\ "point" \in Places /\ "field" \in Places /\ "switch back" \in Places
  BY DEF Places
<1> USE <1>0 DEF BusTypes, Imu!Goes, Imu!Points, Imu!ReadOn
<1>1. ASSUME NEW r \in Readers, Imu!PointMotion(r) PROVE BusTypes'
  BY <1>1 DEF Imu!PointMotion
<1>2. ASSUME NEW r \in Readers, Imu!MotionFails(r) PROVE BusTypes'
  BY <1>2 DEF Imu!MotionFails
<1>3. ASSUME NEW r \in Readers, Imu!ReadMotion(r) PROVE BusTypes'
  BY <1>3 DEF Imu!ReadMotion, Imu!Answers
<1>4. ASSUME NEW r \in Readers, Imu!Switch(r) PROVE BusTypes'
  BY <1>4 DEF Imu!Switch
<1>5. ASSUME NEW r \in Readers, Imu!SwitchFails(r) \/ Imu!SwitchBack(r) PROVE BusTypes'
  <2>1. misread' \in Nat /\ failed' \in Nat
    BY <1>5, Paid
  <2> QED
    BY <1>5, <2>1, Returned
<1>6. ASSUME NEW r \in Readers, Imu!PointMagnetometer(r) PROVE BusTypes'
  BY <1>6 DEF Imu!PointMagnetometer
<1>7. ASSUME NEW r \in Readers, Imu!ReadMagnetometer(r) PROVE BusTypes'
  BY <1>7 DEF Imu!ReadMagnetometer, Imu!Answers
<1>8. ASSUME NEW r \in Readers, Imu!MagnetometerFails(r) PROVE BusTypes'
  BY <1>8 DEF Imu!MagnetometerFails
<1>9. ASSUME NEW r \in Readers, Imu!Configure(r) PROVE BusTypes'
  BY <1>9 DEF Imu!Configure
<1>10. CASE UNCHANGED Imu!busVars
  BY <1>10 DEF Imu!busVars
<1> QED
  BY <1>1, <1>2, <1>3, <1>4, <1>5, <1>6, <1>7, <1>8, <1>9, <1>10 DEF Imu!Next

\* Every step keeps the bus at what its holder has asked for.
LEMMA BusStep == BusInv /\ [Imu!Next]_(Imu!busVars) => BusInv'
<1> SUFFICES ASSUME BusInv, [Imu!Next]_(Imu!busVars), ~ overlapped'
             PROVE  Alone' /\ Debts'
  BY BusTypeStep DEF BusInv
<1>0. BusTypes /\ BusTypes' /\ Alone /\ Debts
  <2>1. ~ overlapped
    BY DEF Imu!Next, Imu!busVars, Imu!PointMotion, Imu!MotionFails, Imu!ReadMotion,
       Imu!Switch, Imu!SwitchFails, Imu!PointMagnetometer, Imu!ReadMagnetometer,
       Imu!MagnetometerFails, Imu!SwitchBack, Imu!Configure
  <2> QED
    BY <2>1, BusTypeStep DEF BusInv
<1>11. /\ misread \in Nat /\ failed \in Nat /\ misread <= failed
       /\ misplaced => failed > 0
  BY <1>0 DEF BusTypes, Debts
<1>1. ASSUME NEW r \in Readers, Imu!PointMotion(r) PROVE Alone' /\ Debts'
  BY <1>0, <1>1
  DEF BusTypes, Alone, Debts, Reading, Imu!PointMotion, Imu!Goes, Imu!Points
<1>2. ASSUME NEW r \in Readers, Imu!MotionFails(r) PROVE Alone' /\ Debts'
  BY <1>0, <1>2
  DEF BusTypes, Alone, Debts, Reading, Imu!MotionFails, Imu!Goes
<1>3. ASSUME NEW r \in Readers, Imu!ReadMotion(r) PROVE Alone' /\ Debts'
  BY <1>0, <1>3
  DEF BusTypes, Alone, Debts, Reading, Imu!ReadMotion, Imu!Goes, Imu!ReadOn, Imu!Answers
<1>4. ASSUME NEW r \in Readers, Imu!Switch(r) PROVE Alone' /\ Debts'
  BY <1>0, <1>4
  DEF BusTypes, Alone, Debts, Reading, Imu!Switch, Imu!Goes
<1>5. ASSUME NEW r \in Readers, Imu!SwitchFails(r) \/ Imu!SwitchBack(r)
      PROVE  Alone' /\ Debts'
  <2>1. \A o \in Readers : at'[o] = "idle"
    <3>1. at' = [at EXCEPT ![r] = "idle"] /\ at[r] # "idle"
      BY <1>0, <1>5, Returned
    <3>2. at \in [Readers -> Places] /\ \A o \in Readers : r = o \/ at[o] = "idle"
      BY <1>0, <3>1 DEF BusTypes, Alone
    <3> QED
      BY <3>1, <3>2
  <2>2. Alone'
    BY <2>1 DEF Alone
  <2>3. Reading(r)
    BY <1>0, <1>5, Returned DEF Reading
  <2>4. misread' <= failed' /\ (slave' # "motion" => misread' < failed')
    <3>1. /\ misread' \in Nat /\ failed' \in Nat
          /\ failed' = failed + 1 \/ (failed' = failed /\ slave' = "motion")
      BY <1>0, <1>5, Paid
    <3>2. CASE right[r]
      <4>1. misread' = misread
        BY <1>0, <1>5, <3>2, Paid
      <4> QED
        BY <1>11, <3>1, <4>1
    <3>3. CASE ~ right[r]
      <4>1. misread' = misread + 1
        BY <1>0, <1>5, <3>3, Paid
      <4>2. misread < failed
        BY <1>0, <2>3, <3>3 DEF Debts
      <4> QED
        BY <1>11, <3>1, <4>1, <4>2
    <3> QED
      BY <3>2, <3>3
  <2>5. misplaced' => failed' > 0
    <3>1. misplaced' = misplaced
      BY <1>0, <1>5, Returned
    <3>2. failed' = failed + 1 \/ failed' = failed
      BY <1>0, <1>5, Paid
    <3> QED
      BY <1>11, <3>1, <3>2
  <2> QED
    BY <2>1, <2>2, <2>4, <2>5 DEF Debts, Reading
<1>6. ASSUME NEW r \in Readers, Imu!PointMagnetometer(r) PROVE Alone' /\ Debts'
  BY <1>0, <1>6
  DEF BusTypes, Alone, Debts, Reading, Imu!PointMagnetometer, Imu!Goes, Imu!Points
<1>7. ASSUME NEW r \in Readers, Imu!ReadMagnetometer(r) PROVE Alone' /\ Debts'
  BY <1>0, <1>7
  DEF BusTypes, Alone, Debts, Reading, Imu!ReadMagnetometer, Imu!Goes, Imu!ReadOn, Imu!Answers
<1>8. ASSUME NEW r \in Readers, Imu!MagnetometerFails(r) PROVE Alone' /\ Debts'
  BY <1>0, <1>8
  DEF BusTypes, Alone, Debts, Reading, Imu!MagnetometerFails, Imu!Goes
<1>9. ASSUME NEW r \in Readers, Imu!Configure(r) PROVE Alone' /\ Debts'
  <2>1. \A o \in Readers : at'[o] = "idle" /\ at[o] = "idle"
    BY <1>9 DEF Imu!Configure
  <2>2. UNCHANGED <<misread, failed, slave>> /\ (misplaced' => misplaced \/ slave # "motion")
    BY <1>9 DEF Imu!Configure
  <2>3. slave # "motion" => misread < failed
    BY <1>0, <2>1 DEF Debts, Reading
  <2>4. Alone'
    BY <2>1 DEF Alone
  <2>5. misread' <= failed' /\ (slave' # "motion" => misread' < failed')
    BY <1>11, <2>2, <2>3
  <2>6. misplaced' => failed' > 0
    BY <1>11, <2>2, <2>3
  <2> QED
    BY <2>1, <2>4, <2>5, <2>6 DEF Debts, Reading
<1>10. CASE UNCHANGED Imu!busVars
  BY <1>0, <1>10 DEF Alone, Debts, Reading, Imu!busVars
<1> QED
  BY <1>1, <1>2, <1>3, <1>4, <1>5, <1>6, <1>7, <1>8, <1>9, <1>10 DEF Imu!Next

-----------------------------------------------------------------------------
\* In MCSensors a step is one of one component.
LEMMA HostSteps ==
  [MCNext]_allVars =>
    /\ [Driver!Next]_(Driver!driverVars) /\ [Gps!Next]_(Gps!gpsVars)
    /\ [Imu!Next]_(Imu!busVars)
BY DEF MCNext, allVars, others, driverVars, gpsVars, busVars, Driver!driverVars, Gps!gpsVars,
   Imu!busVars

\* A driver of any kind holds a descriptor only if it is initialized and scales by the
\* ranges its chip is in, a cut sentence yields no half of a position, and a reader
\* that is alone on an IMU misreads at most once for each failed switch: for any
\* settings, any number of readers, readings and failures.
THEOREM DriversKept == MCFairSpec => []DriversHold
<1>1. MCInit => DriverInv /\ GpsInv /\ BusInv
  BY DriverInit, GpsInit, BusInit DEF MCInit
<1>2. DriverInv /\ GpsInv /\ BusInv /\ [MCNext]_allVars =>
        DriverInv' /\ GpsInv' /\ BusInv'
  BY HostSteps, DriverStep, GpsStep, BusStep
<1>3. DriverInv /\ GpsInv /\ BusInv => DriversHold
  <2>1. BusInv => Imu!OneReaderReadsRight
    BY DEF BusInv, Debts, Imu!OneReaderReadsRight
  <2> QED
    BY <2>1, DriverHolds DEF GpsInv, DriversHold
<1> QED
  BY <1>1, <1>2, <1>3, PTL DEF MCFairSpec
=============================================================================
