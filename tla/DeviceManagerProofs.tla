-------------------------- MODULE DeviceManagerProofs --------------------------
(***************************************************************************)
(* The safety of DeviceManager for every set of users, objects and ids,    *)
(* and of what the graphical application keeps, in module MCDevicesAndGui. *)
(*                                                                         *)
(* What makes it inductive: the events tell the registry only because an   *)
(* id occurs once in it, and devices stay as stop() left them because the  *)
(* monitor is gone from the end of the join to the next start().           *)
(***************************************************************************)
EXTENDS MCDevicesAndGui, Sequences, SequenceTheorems, FiniteSetTheorems,
        WellFoundedInduction, TLAPS

\* The monitor runs between start() and the join, and a device is left to its pass
\* only during one.
MonitorPhases ==
    /\ owner \in {"new", "ready", "stopping"} => monitor \in {"none", "done"}
    /\ monitor # "pass" => left = {}

IInv == TypeOK /\ MonitorPhases /\ EventsTellTheRegistry

-----------------------------------------------------------------------------

\* A manager that has just been made is in the invariant.
LEMMA InitInv == Init => IInv
<1> SUFFICES ASSUME Init PROVE IInv
    OBVIOUS
<1> USE DeviceAssumption DEF Init
<1>1. TypeOK
    BY DEF TypeOK
<1>2. MonitorPhases /\ EventsTellTheRegistry
    BY DEF MonitorPhases, EventsTellTheRegistry, IdsOf
<1> QED BY <1>1, <1>2 DEF IInv

\* Whatever becomes of an object that addDevice() or the configuration hands over,
\* the events tell the registry afterwards.
LEMMA AddsKeeps ==
    ASSUME IInv, NEW d \in Objects, Adds(d), UNCHANGED monitoring
    PROVE  /\ EventsTellTheRegistry' /\ MutexFree
           /\ devices' \in {devices, devices \cup {d}} /\ d \notin devices
           /\ devices' \subseteq Objects /\ fresh' \subseteq Objects \ devices'
           /\ \E s \in {"error", "ok"} : status' \in {status, [status EXCEPT ![d] = s]}
           /\ announced' \subseteq Ids
           /\ misannounced' \in BOOLEAN /\ calledBack' \in BOOLEAN
<1> USE DeviceAssumption DEF IInv, TypeOK, EventsTellTheRegistry
<1>1. d \notin devices /\ MutexFree /\ fresh' = fresh \ {d} /\ IdOf[d] \in Ids
    BY DEF Adds
<1>2. CASE Refuses(d) \/ FailsToStart(d)
    <2>1. UNCHANGED <<devices, announced, misannounced>> /\ calledBack' \in BOOLEAN
        BY <1>2 DEF Refuses, FailsToStart, EmitsUnderMutex
    <2>2. status' \in {status, [status EXCEPT ![d] = "error"]}
        BY <1>2 DEF Refuses, FailsToStart, SetsStatus
    <2> QED BY <1>1, <2>1, <2>2 DEF IdsOf
<1>3. CASE Accepts(d)
    <2>1. /\ IdOf[d] \notin IdsOf(devices) /\ devices' = devices \cup {d}
          /\ announced' = announced \cup {IdOf[d]}
          /\ status' = [status EXCEPT ![d] = "ok"] /\ calledBack' \in BOOLEAN
        BY <1>3 DEF Accepts, Announces, SetsStatus, EmitsUnderMutex
    <2>2. ~ misannounced'
        BY <1>3 DEF Accepts, Announces
    <2>3. IdsOf(devices') = IdsOf(devices) \cup {IdOf[d]}
        BY <2>1 DEF IdsOf
    <2>4. \A e, f \in devices' : IdOf[e] = IdOf[f] => e = f
        BY <2>1 DEF IdsOf
    <2>5. EventsTellTheRegistry'
        BY <2>1, <2>2, <2>3, <2>4
    <2>6. devices' \subseteq Objects /\ fresh' \subseteq Objects \ devices'
        BY <1>1, <2>1
    <2>7. announced' \subseteq Ids
        BY <1>1, <2>1
    <2>8. misannounced' \in BOOLEAN
        BY <1>3, Zenon DEF Accepts, Announces
    <2> QED BY <1>1, <2>1, <2>5, <2>6, <2>7, <2>8
<1> QED BY <1>2, <1>3 DEF Adds

\* removeDevice() takes the device out and announces it afterwards, under the name it had.
LEMMA RemoveKeeps ==
    ASSUME IInv, NEW u \in Users, NEW d \in Objects, RemoveDevice(u, d)
    PROVE  EventsTellTheRegistry' /\ announced' \subseteq Ids /\ misannounced' \in BOOLEAN
<1> USE DeviceAssumption DEF IInv, TypeOK, EventsTellTheRegistry
<1>1. /\ d \in devices /\ devices' = devices \ {d}
      /\ announced' = announced \ {IdOf[d]}
    BY DEF RemoveDevice, Announces
<1>2. IdOf[d] \in announced
    BY <1>1 DEF IdsOf
<1>3. ~ misannounced'
    BY <1>2 DEF RemoveDevice, Announces
<1>4. IdsOf(devices)' = IdsOf(devices) \ {IdOf[d]}
    BY <1>1 DEF IdsOf
<1>5. EventsTellTheRegistry'
    BY <1>1, <1>3, <1>4
<1>6. announced' \subseteq Ids
    BY <1>1
<1>7. misannounced' \in BOOLEAN
    BY Zenon DEF RemoveDevice, Announces
<1> QED BY <1>5, <1>6, <1>7

-----------------------------------------------------------------------------

\* Every step of DeviceManager keeps the invariant.
LEMMA StepInv == IInv /\ [Next]_vars => IInv'
<1> SUFFICES ASSUME IInv, [Next]_vars PROVE IInv'
    OBVIOUS
<1> USE DeviceAssumption
     DEF IInv, lifecycle, monitoring, registry, using
<1>1. ASSUME NEW u \in Users, NEW d \in Objects, AddDevice(u, d) PROVE IInv'
    <2>1. Adds(d) /\ UNCHANGED <<lifecycle, monitoring, using>>
        BY <1>1 DEF AddDevice
    <2>2. TypeOK' BY <2>1, AddsKeeps DEF TypeOK
    <2>3. MonitorPhases' BY <2>1 DEF MonitorPhases
    <2> QED BY <2>1, <2>2, <2>3, AddsKeeps
<1>2. ASSUME NEW d \in Objects, Load(d) PROVE IInv'
    <2>1. CASE Adds(d)
        <3>1. /\ UNCHANGED <<running, owner, monitoring, using>>
              /\ toLoad' \subseteq Configured
            BY <1>2 DEF Load, TypeOK
        <3>2. TypeOK' BY <2>1, <3>1, AddsKeeps DEF TypeOK
        <3>3. MonitorPhases' BY <3>1 DEF MonitorPhases
        <3> QED BY <2>1, <3>1, <3>2, <3>3, AddsKeeps
    <2>2. CASE UNCHANGED <<registry, status, calledBack>>
        BY <1>2, <2>2 DEF Load, TypeOK, MonitorPhases, EventsTellTheRegistry, IdsOf
    <2> QED BY <1>2, <2>1, <2>2 DEF Load
<1>3. ASSUME NEW u \in Users, NEW d \in Objects, RemoveDevice(u, d) PROVE IInv'
    <2>1. /\ MutexFree /\ UNCHANGED <<lifecycle, monitoring, fresh, using>>
          /\ status' = [status EXCEPT ![d] = "stopped"] /\ calledBack' \in BOOLEAN
          /\ devices' = devices \ {d}
        BY <1>3 DEF RemoveDevice, SetsStatus, Announces, EmitsUnderMutex
    <2>2. left = {}
        BY <2>1 DEF MutexFree, MonitorPhases
    <2>3. TypeOK' BY <1>3, <2>1, <2>2, RemoveKeeps DEF TypeOK
    <2>4. MonitorPhases' BY <2>1 DEF MonitorPhases
    <2> QED BY <1>3, <2>3, <2>4, RemoveKeeps
<1>4. ASSUME NEW u \in Users, NEW d \in Objects, GetDevice(u, d) PROVE IInv'
    BY <1>4 DEF GetDevice, TypeOK, MonitorPhases, EventsTellTheRegistry, IdsOf
<1>5. ASSUME NEW u \in Users, UseDevice(u) PROVE IInv'
    BY <1>5 DEF UseDevice, TypeOK, MonitorPhases, EventsTellTheRegistry, IdsOf
<1>6. CASE Initialize \/ Start \/ Stop \/ Join
    <2>1. TypeOK' /\ UNCHANGED registry
        BY <1>6 DEF Initialize, Start, Stop, Join, TypeOK
    <2>2. MonitorPhases'
        BY <1>6 DEF Initialize, Start, Stop, Join, MonitorPhases
    <2> QED BY <2>1, <2>2 DEF EventsTellTheRegistry, IdsOf
<1>7. CASE StopDevices
    <2>1. calledBack' \in BOOLEAN
        BY <1>7 DEF StopDevices, EmitsUnderMutex, TypeOK
    <2> QED BY <1>7, <2>1 DEF StopDevices, TypeOK, MonitorPhases,
        EventsTellTheRegistry, IdsOf
<1>8. CASE MonitorLoop \/ CheckDevices \/ EndPass
    BY <1>8 DEF MonitorLoop, CheckDevices, EndPass, MonitorUnchanged, TypeOK,
       MonitorPhases, EventsTellTheRegistry, IdsOf
<1>9. ASSUME NEW d \in Objects, Recover(d) \/ RecoverFails(d) \/ PassOver(d)
      PROVE  IInv'
    <2>1. /\ monitor = "pass" /\ left' = left \ {d} /\ UNCHANGED monitor
          /\ status' \in {status, [status EXCEPT ![d] = "ok"]}
          /\ calledBack' \in BOOLEAN /\ UNCHANGED <<lifecycle, registry, using>>
        BY <1>9 DEF Recover, RecoverFails, PassOver, SetsStatus, EmitsUnderMutex,
           MonitorUnchanged, TypeOK
    <2> QED BY <2>1 DEF TypeOK, MonitorPhases, EventsTellTheRegistry, IdsOf
<1>10. ASSUME NEW d \in Objects, DeviceFails(d) PROVE IInv'
    <2>1. \E s \in {"error", "disconnected"} : status' = [status EXCEPT ![d] = s]
        BY <1>10 DEF DeviceFails, SetsStatus
    <2> QED BY <1>10, <2>1 DEF DeviceFails, TypeOK, MonitorPhases,
        EventsTellTheRegistry, IdsOf
<1>11. CASE UNCHANGED vars
    BY <1>11 DEF vars, TypeOK, MonitorPhases, EventsTellTheRegistry, IdsOf
<1> QED BY <1>1, <1>2, <1>3, <1>4, <1>5, <1>6, <1>7, <1>8, <1>9, <1>10, <1>11
    DEF Next, OwnerCall, OwnerStep, MonitorStep

\* The registry, the threads and the devices stay in the states the other theorems
\* count on: a device is left to the monitor only as long as it is registered.
THEOREM TypeCorrect == Spec => []TypeOK
<1>1. IInv => TypeOK
    BY DEF IInv
<1> QED BY InitInv, StepInv, <1>1, PTL DEF Spec

\* Whoever follows DEVICE_ADDED and DEVICE_REMOVED knows the registry of
\* DeviceManager, in which an id occurs once, whoever adds, loads and removes.
THEOREM EventsTell == Spec => []EventsTellTheRegistry
<1>1. IInv => EventsTellTheRegistry
    BY DEF IInv
<1> QED BY InitInv, StepInv, <1>1, PTL DEF Spec

-----------------------------------------------------------------------------
StoppedStays ==
    \A d \in devices \cap devices' :
        owner = "ready" /\ status[d] # "ok" => status'[d] # "ok"

\* Every step keeps the devices of a stopped manager stopped.
LEMMA StoppedStep == IInv /\ [Next]_vars => [StoppedStays]_vars
<1> SUFFICES ASSUME IInv, Next,
                    NEW e \in devices, e \in devices', owner = "ready",
                    status[e] # "ok"
             PROVE  status'[e] # "ok"
    BY DEF StoppedStays
<1> USE DeviceAssumption DEF IInv, TypeOK
<1>1. monitor \notin {"loop", "check", "pass"} /\ owner # "stopping"
    BY DEF MonitorPhases
<1>2. ASSUME NEW d \in Objects, Adds(d), UNCHANGED monitoring PROVE status'[e] # "ok"
    BY <1>2, AddsKeeps
<1>3. ASSUME NEW u \in Users, NEW d \in Objects, RemoveDevice(u, d)
      PROVE  status'[e] # "ok"
    BY <1>3 DEF RemoveDevice, SetsStatus
<1>4. ASSUME NEW d \in Objects, DeviceFails(d) PROVE status'[e] # "ok"
    BY <1>4 DEF DeviceFails, SetsStatus
<1>5. ASSUME NEW d \in Objects, Load(d) \/ \E u \in Users : AddDevice(u, d)
      PROVE  status'[e] # "ok"
    BY <1>2, <1>5 DEF Load, AddDevice
<1>6. CASE MonitorStep \/ OwnerStep
    BY <1>1, <1>6 DEF MonitorStep, MonitorLoop, CheckDevices, EndPass, Recover,
       RecoverFails, PassOver, OwnerStep, Join, StopDevices
<1>7. CASE \/ Initialize \/ Start \/ Stop
           \/ \E u \in Users : UseDevice(u) \/ \E d \in Objects : GetDevice(u, d)
    BY <1>7 DEF Initialize, Start, Stop, UseDevice, GetDevice
<1> QED BY <1>3, <1>4, <1>5, <1>6, <1>7 DEF Next, OwnerCall

\* Nothing starts a registered device while the manager is down: the monitor of
\* DeviceManager, which would, has been joined.
THEOREM StoppedStay == Spec => StoppedStaysStopped
<1>1. [StoppedStays]_vars => [\A d \in devices \cap devices' :
          owner = "ready" /\ status[d] # "ok" => status'[d] # "ok"]_vars
    BY DEF StoppedStays
<1> QED BY InitInv, StepInv, StoppedStep, <1>1, PTL DEF Spec, StoppedStaysStopped
-----------------------------------------------------------------------------
(* The client of the data server.                                          *)

Messages == [add : BOOLEAN, device : Devices]

\* What has lapsed is still subscribed to, until it is unsubscribed from.
ClientInv ==
    /\ inFlight \in Seq(Messages)
    /\ lapsed \subseteq subscriptions /\ Client!ServerFollows

\* A new SensorClient has asked for nothing.
LEMMA ClientInit == Client!Init => ClientInv
BY DEF Client!Init, ClientInv, Client!ServerFollows, Client!ServedInTheEnd

\* A message at the end decides about its device and about no other.
LEMMA Sent ==
  ASSUME ClientInv, NEW d \in Devices, NEW add \in BOOLEAN,
         inFlight' = Append(inFlight, [add |-> add, device |-> d]), served' = served
  PROVE  /\ inFlight' \in Seq(Messages)
         /\ Client!ServedInTheEnd' = IF add THEN Client!ServedInTheEnd \cup {d}
                                     ELSE Client!ServedInTheEnd \ {d}
<1> DEFINE m == [add |-> add, device |-> d]
           n == Len(inFlight)
<1>1. /\ inFlight \in Seq(Messages) /\ m \in Messages
      /\ n \in Nat /\ DOMAIN inFlight = 1 .. n
    BY LenProperties DEF ClientInv, Messages
<1>2. /\ inFlight' \in Seq(Messages) /\ DOMAIN inFlight' = 1 .. n + 1
      /\ \A i \in 1 .. n : inFlight'[i] = inFlight[i]
      /\ inFlight'[n + 1] = m
    <2> HIDE DEF m
    <2>1. inFlight' = Append(inFlight, m)
        BY DEF m
    <2> QED BY <1>1, <2>1, AppendProperties, LenProperties
<1>3. ASSUME NEW e, NEW i \in 0 .. n, Client!Stays(e, i)'
      PROVE  Client!Stays(e, i) /\ (e = d => add)
    <2>1. Client!Stays(e, i)
        <3> SUFFICES ASSUME NEW j \in 1 .. n, j > i
                     PROVE  inFlight[j] # [add |-> FALSE, device |-> e]
            BY <1>1 DEF Client!Stays
        <3>1. j \in DOMAIN inFlight' /\ inFlight'[j] = inFlight[j]
            BY <1>1, <1>2
        <3>2. inFlight'[j] # [add |-> FALSE, device |-> e]
            BY <1>3, <3>1 DEF Client!Stays
        <3> QED BY <3>1, <3>2
    <2>2. ASSUME e = d, ~ add PROVE FALSE
        <3>1. m = [add |-> FALSE, device |-> e]
            BY <2>2
        <3>2. n + 1 \in 1 .. n + 1 /\ n + 1 > i
            BY <1>1
        <3> HIDE DEF m
        <3> QED BY <1>2, <1>3, <3>1, <3>2 DEF Client!Stays
    <2> QED BY <2>1, <2>2
<1>4. ASSUME NEW e \in Client!ServedInTheEnd'
      PROVE  (e \in Client!ServedInTheEnd /\ (e = d => add)) \/ (add /\ e = d)
    <2>1. CASE e \in served /\ Client!Stays(e, 0)'
        BY <1>1, <1>3, <1>4, <2>1 DEF Client!ServedInTheEnd
    <2>2. ASSUME NEW i \in 1 .. n + 1, Client!Stays(e, i)',
                 inFlight'[i] = [add |-> TRUE, device |-> e]
          PROVE  (e \in Client!ServedInTheEnd /\ (e = d => add)) \/ (add /\ e = d)
        <3>1. CASE i = n + 1
            <4>1. [add |-> add, device |-> d] = [add |-> TRUE, device |-> e]
                BY <1>2, <2>2, <3>1
            <4> QED BY <4>1
        <3>2. CASE i \in 1 .. n
            <4>1. e \in Devices
                BY <1>4 DEF Client!ServedInTheEnd
            <4>2. inFlight[i] = [add |-> TRUE, device |-> e]
                BY <1>2, <2>2, <3>2
            <4>3. Client!Stays(e, i) /\ (e = d => add)
                BY <1>1, <1>3, <2>2, <3>2
            <4> QED BY <1>1, <3>2, <4>1, <4>2, <4>3 DEF Client!ServedInTheEnd
        <3> QED BY <1>1, <3>1, <3>2
    <2> QED BY <1>2, <1>4, <2>1, <2>2 DEF Client!ServedInTheEnd
<1>5. ASSUME NEW e, e # d \/ add, NEW i \in 0 .. n, Client!Stays(e, i)
      PROVE  Client!Stays(e, i)'
    <2> SUFFICES ASSUME NEW j \in 1 .. n + 1, j > i
                 PROVE  inFlight'[j] # [add |-> FALSE, device |-> e]
        BY <1>2 DEF Client!Stays
    <2>1. CASE j = n + 1
        <3>1. m # [add |-> FALSE, device |-> e]
            BY <1>5
        <3> HIDE DEF m
        <3> QED BY <1>2, <2>1, <3>1
    <2>2. CASE j \in 1 .. n
        <3>1. inFlight[j] # [add |-> FALSE, device |-> e]
            BY <1>1, <1>5, <2>2 DEF Client!Stays
        <3> QED BY <1>2, <2>2, <3>1
    <2> QED BY <1>1, <2>1, <2>2
<1>6. ASSUME NEW e \in Client!ServedInTheEnd, e # d \/ add
      PROVE  e \in Client!ServedInTheEnd'
    <2>0. e \in Devices
        BY <1>6 DEF Client!ServedInTheEnd
    <2>1. CASE e \in served /\ Client!Stays(e, 0)
        <3>1. Client!Stays(e, 0)'
            BY <1>1, <1>5, <1>6, <2>1
        <3> QED BY <2>0, <2>1, <3>1 DEF Client!ServedInTheEnd
    <2>2. ASSUME NEW i \in 1 .. n, Client!Stays(e, i),
                 inFlight[i] = [add |-> TRUE, device |-> e]
          PROVE  e \in Client!ServedInTheEnd'
        <3>1. i \in 0 .. n /\ i \in 1 .. n + 1
            BY <1>1
        <3>2. Client!Stays(e, i)'
            BY <1>5, <1>6, <2>2, <3>1
        <3>3. inFlight'[i] = [add |-> TRUE, device |-> e]
            BY <1>2, <2>2
        <3> QED BY <1>2, <2>0, <3>1, <3>2, <3>3 DEF Client!ServedInTheEnd
    <2> QED BY <1>1, <1>6, <2>1, <2>2 DEF Client!ServedInTheEnd
<1>7. ASSUME add PROVE d \in Client!ServedInTheEnd'
    <2>1. m = [add |-> TRUE, device |-> d]
        BY <1>7
    <2> HIDE DEF m
    <2>2. PICK i \in 1 .. n + 1 : i = n + 1
        BY <1>1
    <2>3. i \in DOMAIN inFlight' /\ inFlight'[i] = [add |-> TRUE, device |-> d]
        BY <1>2, <2>1, <2>2
    <2>4. Client!Stays(d, i)'
        BY <1>1, <1>2, <2>2 DEF Client!Stays
    <2> QED BY <2>3, <2>4 DEF Client!ServedInTheEnd
<1> QED BY <1>2, <1>4, <1>6, <1>7

\* What the server reads it need not read again.
LEMMA Read ==
  ASSUME ClientInv, Client!ServerReads
  PROVE  /\ inFlight' \in Seq(Messages)
         /\ Client!ServedInTheEnd' = Client!ServedInTheEnd
<1> DEFINE n == Len(inFlight)
           m == Head(inFlight)
<1>1. /\ inFlight \in Seq(Messages) /\ n \in Nat \ {0} /\ DOMAIN inFlight = 1 .. n
      /\ inFlight' = Tail(inFlight) /\ m = inFlight[1] /\ m \in Messages
      /\ served' = IF m.add THEN served \cup {m.device} ELSE served \ {m.device}
    BY LenProperties, EmptySeq, HeadTailProperties DEF ClientInv, Client!ServerReads
<1>2. /\ inFlight' \in Seq(Messages) /\ DOMAIN inFlight' = 1 .. n - 1
      /\ \A i \in 1 .. n - 1 : inFlight'[i] = inFlight[i + 1]
    BY <1>1, HeadTailProperties, LenProperties
<1> HIDE DEF m
<1>3. ASSUME NEW e, NEW i \in 0 .. n - 1, Client!Stays(e, i)' PROVE Client!Stays(e, i + 1)
    <2> SUFFICES ASSUME NEW j \in 1 .. n, j > i + 1
                 PROVE  inFlight[j] # [add |-> FALSE, device |-> e]
        BY <1>1 DEF Client!Stays
    <2>1. j - 1 \in 1 .. n - 1 /\ j - 1 > i /\ inFlight'[j - 1] = inFlight[(j - 1) + 1]
        BY <1>1, <1>2
    <2>2. inFlight'[j - 1] # [add |-> FALSE, device |-> e]
        BY <1>2, <1>3, <2>1 DEF Client!Stays
    <2>3. (j - 1) + 1 = j
        OBVIOUS
    <2> QED BY <2>1, <2>2, <2>3
<1>4. ASSUME NEW e \in Client!ServedInTheEnd' PROVE e \in Client!ServedInTheEnd
    <2>0. e \in Devices
        BY <1>4 DEF Client!ServedInTheEnd
    <2>1. CASE e \in served' /\ Client!Stays(e, 0)'
        <3>1. Client!Stays(e, 1)
            BY <1>1, <1>3, <2>1
        <3>2. CASE m = [add |-> TRUE, device |-> e]
            <4>1. 1 \in DOMAIN inFlight /\ inFlight[1] = [add |-> TRUE, device |-> e]
                BY <1>1, <3>2
            <4> QED BY <2>0, <3>1, <4>1 DEF Client!ServedInTheEnd
        <3>3. CASE m # [add |-> TRUE, device |-> e]
            <4>1. ~ (m.add /\ m.device = e)
                BY <1>1, <3>3 DEF Messages
            <4>2. e \in served /\ m # [add |-> FALSE, device |-> e]
                BY <1>1, <2>1, <4>1
            <4>3. Client!Stays(e, 0)
                <5> SUFFICES ASSUME NEW j \in 1 .. n
                             PROVE  inFlight[j] # [add |-> FALSE, device |-> e]
                    BY <1>1 DEF Client!Stays
                <5>1. CASE j = 1
                    BY <1>1, <4>2, <5>1
                <5>2. CASE j > 1
                    BY <1>1, <3>1, <5>2 DEF Client!Stays
                <5> QED BY <5>1, <5>2
            <4> QED BY <2>0, <4>2, <4>3 DEF Client!ServedInTheEnd
        <3> QED BY <3>2, <3>3
    <2>2. ASSUME NEW i \in 1 .. n - 1, Client!Stays(e, i)',
                 inFlight'[i] = [add |-> TRUE, device |-> e]
          PROVE  e \in Client!ServedInTheEnd
        <3>1. i + 1 \in 1 .. n /\ Client!Stays(e, i + 1)
            BY <1>1, <1>3, <2>2
        <3> QED BY <1>1, <1>2, <2>0, <2>2, <3>1 DEF Client!ServedInTheEnd
    <2> QED BY <1>2, <1>4, <2>1, <2>2 DEF Client!ServedInTheEnd
<1>5. ASSUME NEW e, NEW i \in 0 .. n - 1, Client!Stays(e, i + 1) PROVE Client!Stays(e, i)'
    <2> SUFFICES ASSUME NEW j \in 1 .. n - 1, j > i
                 PROVE  inFlight'[j] # [add |-> FALSE, device |-> e]
        BY <1>2 DEF Client!Stays
    <2>1. j + 1 \in 1 .. n /\ j + 1 > i + 1
        BY <1>1
    <2>2. inFlight[j + 1] # [add |-> FALSE, device |-> e]
        BY <1>1, <1>5, <2>1 DEF Client!Stays
    <2> QED BY <1>2, <2>2
<1>6. ASSUME NEW e, Client!Stays(e, 0) PROVE m # [add |-> FALSE, device |-> e] /\ Client!Stays(e, 1)
    <2>1. 1 \in 1 .. n /\ \A j \in 1 .. n : inFlight[j] # [add |-> FALSE, device |-> e]
        BY <1>1, <1>6 DEF Client!Stays
    <2> QED BY <1>1, <2>1 DEF Client!Stays
<1>7. ASSUME NEW e \in Client!ServedInTheEnd PROVE e \in Client!ServedInTheEnd'
    <2>0. e \in Devices
        BY <1>7 DEF Client!ServedInTheEnd
    <2>1. ASSUME e \in served', Client!Stays(e, 1) PROVE e \in Client!ServedInTheEnd'
        <3>1. 0 \in 0 .. n - 1 /\ 0 + 1 = 1
            BY <1>1
        <3>2. Client!Stays(e, 0)'
            BY <1>5, <2>1, <3>1
        <3> QED BY <2>0, <2>1, <3>2 DEF Client!ServedInTheEnd
    <2>2. CASE e \in served /\ Client!Stays(e, 0)
        <3>1. m # [add |-> FALSE, device |-> e] /\ Client!Stays(e, 1)
            BY <1>6, <2>2
        <3>2. m.add \/ m.device # e
            BY <1>1, <3>1 DEF Messages
        <3>3. e \in served'
            BY <1>1, <2>2, <3>2
        <3> QED BY <2>1, <3>1, <3>3
    <2>3. ASSUME NEW i \in 1 .. n, Client!Stays(e, i),
                 inFlight[i] = [add |-> TRUE, device |-> e]
          PROVE  e \in Client!ServedInTheEnd'
        <3>1. CASE i = 1
            <4>1. m.add /\ m.device = e
                BY <1>1, <2>3, <3>1
            <4>2. e \in served'
                BY <1>1, <4>1
            <4> QED BY <2>1, <2>3, <3>1, <4>2
        <3>2. CASE i > 1
            <4>1. i - 1 \in 1 .. n - 1 /\ i - 1 \in 0 .. n - 1 /\ (i - 1) + 1 = i
                BY <1>1, <3>2
            <4>2. Client!Stays(e, i - 1)'
                BY <1>5, <2>3, <4>1
            <4>3. inFlight'[i - 1] = [add |-> TRUE, device |-> e]
                BY <1>2, <2>3, <4>1
            <4> QED BY <1>2, <2>0, <4>1, <4>2, <4>3 DEF Client!ServedInTheEnd
        <3> QED BY <3>1, <3>2
    <2> QED BY <1>1, <1>7, <2>2, <2>3 DEF Client!ServedInTheEnd
<1> QED BY <1>2, <1>4, <1>7

\* Every step keeps the server, with what is on its way, at the subscriptions of the
\* connection.
LEMMA ClientStep == ClientInv /\ [Client!Next]_(Client!clientVars) => ClientInv'
<1> SUFFICES ASSUME ClientInv, [Client!Next]_(Client!clientVars) PROVE ClientInv'
    OBVIOUS
<1>0. ASSUME inFlight' = <<>>, served' = {}, lapsed' = subscriptions,
             UNCHANGED subscriptions
      PROVE  ClientInv'
    BY <1>0 DEF ClientInv, Client!ServerFollows, Client!ServedInTheEnd
<1>1. ASSUME UNCHANGED <<inFlight, served, subscriptions, lapsed>> PROVE ClientInv'
    BY <1>1 DEF ClientInv, Client!ServerFollows, Client!ServedInTheEnd, Client!Stays
<1>2. CASE \/ Client!ConnectToServer \/ Client!DisconnectFromServer
           \/ \E hasUrl \in BOOLEAN : Client!SetServerUrl(hasUrl)
    BY <1>0, <1>1, <1>2 DEF Client!ConnectToServer, Client!DisconnectFromServer,
       Client!SetServerUrl, Client!Open, Client!Dropped
<1>3. ASSUME NEW d \in Devices, Client!SubscribeToDevice(d) PROVE ClientInv'
    BY <1>3, Sent DEF Client!SubscribeToDevice, ClientInv, Client!ServerFollows
<1>4. ASSUME NEW d \in Devices, Client!UnsubscribeFromDevice(d) PROVE ClientInv'
    BY <1>4, Sent DEF Client!UnsubscribeFromDevice, ClientInv, Client!ServerFollows
<1>5. CASE Client!Slots
    BY <1>0, <1>1, <1>5 DEF Client!Slots, Client!OnConnected, Client!OnDisconnected,
       Client!OnReconnectTimeout, Client!Open, Client!Dropped
<1>6. CASE Client!ServerReads
    BY <1>6, Read DEF Client!ServerReads, ClientInv, Client!ServerFollows
<1>7. CASE UNCHANGED Client!clientVars
    BY <1>1, <1>7 DEF Client!clientVars
<1> QED BY <1>2, <1>3, <1>4, <1>5, <1>6, <1>7 DEF Client!Next, Client!User

-----------------------------------------------------------------------------
(* The readings' history.                                                  *)

\* Of the readings so far those that wait for the pool or its threads wait once.
Waiting ==
    /\ \A j \in 1 .. Len(tasks) : tasks[j] <= readings /\ tasks[j] > 0
    /\ \A j, k \in 1 .. Len(tasks) : tasks[j] = tasks[k] => j = k
    /\ \A w \in PoolThreads : task[w] <= readings
    /\ \A w \in PoolThreads, j \in 1 .. Len(tasks) : task[w] # tasks[j]
    /\ \A w, v \in PoolThreads : task[w] = task[v] /\ task[w] # 0 => w = v

\* Reading r is none that waits, and a history of such readings is within its limit and
\* has none twice.
Past(r) ==
    /\ r <= readings /\ r > 0
    /\ \A j \in 1 .. Len(tasks) : tasks[j] # r
    /\ \A w \in PoolThreads : task[w] # r
KeptBy(h, d) ==
    /\ Len(h[d]) <= MaxHistory
    /\ \A i, k \in 1 .. Len(h[d]) : h[d][i] = h[d][k] => i = k
    /\ \A i \in 1 .. Len(h[d]) : Past(h[d][i])

DataTypes ==
    /\ readings \in Nat /\ tasks \in Seq(Nat) /\ task \in [PoolThreads -> Nat]
    /\ history \in [Devices -> Seq(Nat)] /\ dataPoints \in Nat
    /\ file # <<>> => file[1] \in [Devices -> Seq(Nat)]
DataInv ==
    /\ DataTypes /\ Waiting
    /\ \A d \in Devices : KeptBy(history, d)
    /\ file # <<>> => \A d \in Devices : KeptBy(file[1], d)
    /\ dataPoints = 0 <=> history = Data!NoHistory

\* A new DataManager has no history.
LEMMA DataInit == Data!Init => DataInv
<1> SUFFICES ASSUME Data!Init PROVE DataInv
    OBVIOUS
<1>1. DataTypes
    BY DEF Data!Init, Data!NoHistory, DataTypes
<1>2. Waiting
    BY DEF Data!Init, Waiting
<1>3. \A d \in Devices : KeptBy(history, d)
    BY InstanceAssumption DEF Data!Init, Data!NoHistory, KeptBy, Data!DataAssumption
<1> QED BY <1>1, <1>2, <1>3 DEF Data!Init, DataInv

\* processSensorData() of a reading that waited or is new, and waits no more.
LEMMA Stored ==
  ASSUME DataInv, NEW d \in Devices, NEW r \in Nat, Data!ProcessSensorData(d, r),
         ~ Past(r), Past(r)', \A q \in Nat : Past(q) => Past(q)'
  PROVE  /\ history' \in [Devices -> Seq(Nat)] /\ dataPoints' \in Nat
         /\ \A e \in Devices : KeptBy(history, e)'
         /\ dataPoints' # 0 /\ history' # Data!NoHistory
<1> DEFINE n == Len(history[d])
           over == IF n + 1 > MaxHistory THEN (n + 1) - MaxHistory ELSE 0
<1>0. MaxHistory \in Nat \ {0}
    BY InstanceAssumption DEF Data!DataAssumption
<1>1. /\ history[d] \in Seq(Nat) /\ n \in Nat /\ n <= MaxHistory
      /\ \A i, k \in 1 .. n : history[d][i] = history[d][k] => i = k
      /\ \A i \in 1 .. n : Past(history[d][i])
    BY LenProperties DEF DataInv, DataTypes, KeptBy
<1>2. PICK all \in Seq(Nat) :
          /\ all = Append(history[d], r) /\ Len(all) = n + 1 /\ all[n + 1] = r
          /\ \A i \in 1 .. n : all[i] = history[d][i]
    <2> DEFINE s == Append(history[d], r)
    <2>1. /\ s \in Seq(Nat) /\ Len(s) = n + 1 /\ s[n + 1] = r
          /\ \A i \in 1 .. n : s[i] = history[d][i]
        BY <1>1, AppendProperties
    <2> HIDE DEF s, n
    <2>2. s = Append(history[d], r)
        BY DEF s
    <2> QED BY <2>1, <2>2
<1>4. /\ over \in 0 .. n /\ (n + 1) - over <= MaxHistory /\ over + 1 \in Int
    BY <1>0, <1>1, <1>2
<1> HIDE DEF n, over
<1>5. \A i \in over + 1 .. n + 1 : all[i] \in Nat
    BY <1>1, <1>2, <1>4, ElementOfSeq
<1>6. PICK kept \in Seq(Nat) :
          /\ history' = [history EXCEPT ![d] = kept]
          /\ dataPoints' = Len(history'[d])
          /\ Len(kept) = (n + 1) - over
          /\ \A i \in 1 .. Len(kept) : kept[i] = all[over + i]
    <2> DEFINE s == SubSeq(all, over + 1, n + 1)
    <2>1. /\ s \in Seq(Nat)
          /\ Len(s) = IF over + 1 <= n + 1 THEN (n + 1) - (over + 1) + 1 ELSE 0
          /\ \A i \in 1 .. (n + 1) - (over + 1) + 1 : s[i] = all[(over + 1) + i - 1]
        <3>1. over + 1 \in Int /\ n + 1 \in Int
            BY <1>1, <1>4
        <3> QED BY <1>5, <3>1, SubSeqProperties
    <2>2. history' = [history EXCEPT ![d] = s] /\ dataPoints' = Len(history'[d])
        BY <1>2 DEF Data!ProcessSensorData, over, n
    <2> HIDE DEF s
    <2>3. /\ Len(s) = (n + 1) - over
          /\ \A i \in 1 .. Len(s) : s[i] = all[over + i]
        BY <1>1, <1>4, <2>1
    <2> QED BY <2>1, <2>2, <2>3
<1>7. \A i, k \in 1 .. n + 1 : all[i] = all[k] => i = k
    <2> SUFFICES ASSUME NEW i \in 1 .. n + 1, NEW k \in 1 .. n + 1, all[i] = all[k]
                 PROVE  i = k
        OBVIOUS
    <2>1. CASE i \in 1 .. n /\ k \in 1 .. n
        <3>1. history[d][i] = all[i] /\ history[d][k] = all[k]
            BY <1>2, <2>1
        <3>2. history[d][i] = history[d][k] => i = k
            BY <1>1, <2>1
        <3> QED BY <3>1, <3>2
    <2>2. ASSUME NEW j \in 1 .. n PROVE all[j] # r
        <3>1. all[j] = history[d][j] /\ Past(history[d][j])
            BY <1>1, <1>2
        <3> QED BY <3>1
    <2>3. CASE i = n + 1
        BY <1>1, <1>2, <2>2, <2>3
    <2>4. CASE k = n + 1
        BY <1>1, <1>2, <2>2, <2>4
    <2>5. i \in (1 .. n) \cup {n + 1} /\ k \in (1 .. n) \cup {n + 1}
        BY <1>1
    <2> QED BY <2>1, <2>3, <2>4, <2>5
<1>8. \A i \in 1 .. n + 1 : Past(all[i])'
    <2> SUFFICES ASSUME NEW i \in 1 .. n + 1 PROVE Past(all[i])'
        OBVIOUS
    <2>1. CASE i = n + 1
        BY <1>2, <2>1
    <2>2. CASE i \in 1 .. n
        <3>1. all[i] \in Nat /\ Past(all[i])
            BY <1>1, <1>2, <2>2, ElementOfSeq
        <3> QED BY <3>1
    <2> QED BY <1>1, <2>1, <2>2
<1>9. history' \in [Devices -> Seq(Nat)] /\ history'[d] = kept
    <2>1. history \in [Devices -> Seq(Nat)]
        BY DEF DataInv, DataTypes
    <2>2. history' = [history EXCEPT ![d] = kept]
        BY <1>6
    <2>3. \A e \in Devices : history'[e] = IF e = d THEN kept ELSE history[e]
        BY <2>1, <2>2
    <2>4. \A e \in Devices : history'[e] \in Seq(Nat)
        BY <2>1, <2>3
    <2>5. history' = [e \in Devices |-> history'[e]]
        BY <2>1, <2>2
    <2>6. history' \in [Devices -> Seq(Nat)]
        BY <2>4, <2>5
    <2>7. history'[d] = kept
        BY <2>3
    <2> QED BY <2>6, <2>7
<1>10. KeptBy(history, d)'
    <2>1. \A i \in 1 .. Len(kept) : over + i \in 1 .. n + 1
        BY <1>1, <1>4, <1>6
    <2>2. \A i, k \in 1 .. Len(kept) : kept[i] = kept[k] => i = k
        <3> SUFFICES ASSUME NEW i \in 1 .. Len(kept), NEW k \in 1 .. Len(kept),
                            kept[i] = kept[k]
                     PROVE  i = k
            OBVIOUS
        <3>1. over + i \in 1 .. n + 1 /\ over + k \in 1 .. n + 1 /\ over \in Nat
            BY <1>1, <1>4, <2>1
        <3>2. all[over + i] = all[over + k]
            BY <1>6
        <3>3. over + i = over + k
            BY <1>7, <3>1, <3>2
        <3> QED BY <3>1, <3>3
    <2>3. \A i \in 1 .. Len(kept) : Past(kept[i])'
        BY <1>6, <1>8, <2>1
    <2>4. Len(kept) <= MaxHistory
        BY <1>4, <1>6
    <2> QED BY <1>9, <2>2, <2>3, <2>4 DEF KeptBy
<1>11. ASSUME NEW e \in Devices, e # d PROVE KeptBy(history, e)'
    <2>1. PICK s \in Seq(Nat) : s = history[e] /\ s = history'[e]
        BY <1>6, <1>11 DEF DataInv, DataTypes
    <2>2. /\ Len(s) <= MaxHistory
          /\ \A i, k \in 1 .. Len(s) : s[i] = s[k] => i = k
          /\ \A i \in 1 .. Len(s) : Past(s[i])
        BY <2>1 DEF DataInv, KeptBy
    <2>3. \A i \in 1 .. Len(s) : Past(s[i])'
        BY <2>2, ElementOfSeq
    <2> QED BY <2>1, <2>2, <2>3 DEF KeptBy
<1>12. dataPoints' \in Nat /\ dataPoints' # 0
    BY <1>1, <1>4, <1>6, <1>9
<1>13. history' # Data!NoHistory
    BY <1>6, <1>9, <1>12 DEF Data!NoHistory
<1> QED BY <1>9, <1>10, <1>11, <1>12, <1>13

\* A history stays one of readings that came, when more of them come.
LEMMA KeptOn ==
  ASSUME NEW h \in [Devices -> Seq(Nat)], \A d \in Devices : KeptBy(h, d),
         \A q \in Nat : Past(q) => Past(q)'
  PROVE  \A d \in Devices : KeptBy(h, d)'
<1> SUFFICES ASSUME NEW d \in Devices PROVE KeptBy(h, d)'
    OBVIOUS
<1>1. \A i \in 1 .. Len(h[d]) : h[d][i] \in Nat /\ Past(h[d][i])
    BY ElementOfSeq DEF KeptBy
<1>2. \A i \in 1 .. Len(h[d]) : Past(h[d][i])'
    BY <1>1
<1> QED BY <1>2 DEF KeptBy

\* What a step does to the waiting readings, and that those before it stay past.
LEMMA WaitingStep ==
  ASSUME DataInv, [Data!Next]_(Data!dataVars)
  PROVE  /\ readings' \in Nat /\ tasks' \in Seq(Nat) /\ task' \in [PoolThreads -> Nat]
         /\ Waiting'
         /\ \A q \in Nat : Past(q) => Past(q)'
<1> USE DEF DataInv, DataTypes
<1>0. /\ readings \in Nat /\ tasks \in Seq(Nat) /\ task \in [PoolThreads -> Nat]
      /\ Len(tasks) \in Nat /\ \A j \in 1 .. Len(tasks) : tasks[j] \in Nat
      /\ \A w \in PoolThreads : task[w] \in Nat
    BY LenProperties, ElementOfSeq
<1>1. CASE UNCHANGED <<readings, tasks, task>>
    BY <1>1 DEF Waiting, Past
<1>2. CASE Data!UpdateData
    <2>1. /\ readings' = readings + 1 /\ UNCHANGED task
          /\ tasks' = Append(tasks, readings + 1)
        BY <1>2 DEF Data!UpdateData
    <2>2. /\ tasks' \in Seq(Nat) /\ Len(tasks') = Len(tasks) + 1
          /\ tasks'[Len(tasks) + 1] = readings + 1
          /\ \A j \in 1 .. Len(tasks) : tasks'[j] = tasks[j]
        BY <1>0, <2>1, AppendProperties
    <2>3. Waiting'
        BY <1>0, <2>1, <2>2 DEF Waiting
    <2>4. \A q \in Nat : Past(q) => Past(q)'
        BY <1>0, <2>1, <2>2 DEF Past
    <2> QED BY <1>0, <2>1, <2>2, <2>3, <2>4
<1>3. ASSUME NEW w \in PoolThreads, Data!TakeTask(w)
      PROVE  /\ readings' \in Nat /\ tasks' \in Seq(Nat) /\ task' \in [PoolThreads -> Nat]
             /\ Waiting'
             /\ \A q \in Nat : Past(q) => Past(q)'
    <2>1. /\ tasks # <<>> /\ task[w] = 0 /\ UNCHANGED readings
          /\ task' = [task EXCEPT ![w] = Head(tasks)] /\ tasks' = Tail(tasks)
        BY <1>3 DEF Data!TakeTask
    <2>2. /\ Len(tasks) >= 1 /\ Head(tasks) = tasks[1] /\ tasks' \in Seq(Nat)
          /\ Len(tasks') = Len(tasks) - 1
          /\ \A j \in 1 .. Len(tasks) - 1 : tasks'[j] = tasks[j + 1]
        BY <1>0, <2>1, EmptySeq, HeadTailProperties
    <2>3. /\ task' \in [PoolThreads -> Nat] /\ task'[w] = tasks[1]
          /\ \A v \in PoolThreads \ {w} : task'[v] = task[v]
        BY <1>0, <2>1, <2>2
    <2>4. \A j \in 1 .. Len(tasks) - 1 : j + 1 \in 1 .. Len(tasks) /\ j + 1 # 1
        BY <1>0
    <2>5. 1 \in 1 .. Len(tasks)
        BY <1>0, <2>2
    <2>6. Waiting'
        BY <1>0, <2>1, <2>2, <2>3, <2>4, <2>5 DEF Waiting
    <2>7. \A q \in Nat : Past(q) => Past(q)'
        BY <1>0, <2>1, <2>2, <2>3, <2>4, <2>5 DEF Past
    <2> QED BY <1>0, <2>1, <2>2, <2>3, <2>6, <2>7
<1>4. ASSUME NEW w \in PoolThreads, Data!StoreTask(w)
      PROVE  /\ readings' \in Nat /\ tasks' \in Seq(Nat) /\ task' \in [PoolThreads -> Nat]
             /\ Waiting'
             /\ \A q \in Nat : Past(q) => Past(q)'
    <2>1. task' = [task EXCEPT ![w] = 0] /\ UNCHANGED <<readings, tasks>>
        BY <1>4 DEF Data!StoreTask
    <2> QED BY <1>0, <2>1 DEF Waiting, Past
<1>5. ASSUME NEW d \in Devices, Data!HandleDeviceData(d)
      PROVE  /\ readings' \in Nat /\ tasks' \in Seq(Nat) /\ task' \in [PoolThreads -> Nat]
             /\ Waiting'
             /\ \A q \in Nat : Past(q) => Past(q)'
    <2>1. readings' = readings + 1 /\ UNCHANGED <<tasks, task>>
        BY <1>5 DEF Data!HandleDeviceData, Data!pool
    <2> QED BY <1>0, <2>1 DEF Waiting, Past
<1>6. CASE \/ Data!StartUpdates \/ Data!StopUpdates \/ Data!ClearHistory
           \/ Data!SaveData \/ Data!LoadData \/ UNCHANGED Data!dataVars
    BY <1>1, <1>6 DEF Data!StartUpdates, Data!StopUpdates, Data!ClearHistory,
       Data!SaveData, Data!LoadData, Data!dataVars, Data!pool
<1> QED BY <1>2, <1>3, <1>4, <1>5, <1>6 DEF Data!Next

\* The counting of module DataManager is that of the theorems about finite sets.
LEMMA Counting ==
  \A S : /\ Data!Cardinality(S) = Cardinality(S)
         /\ Data!IsFiniteSet(S) <=> IsFiniteSet(S)
BY DEF Data!Cardinality, Cardinality, Data!IsFiniteSet, IsFiniteSet

\* A reading comes, the history is cut to its limit, or cleared.
LEMMA DataStep == DataInv /\ [Data!Next]_(Data!dataVars) => DataInv'
<1> SUFFICES ASSUME DataInv, [Data!Next]_(Data!dataVars) PROVE DataInv'
    OBVIOUS
<1>0. /\ DataTypes /\ \A d \in Devices : KeptBy(history, d)
      /\ file # <<>> => \A d \in Devices : KeptBy(file[1], d)
      /\ dataPoints = 0 <=> history = Data!NoHistory
    BY DEF DataInv
<1>1. /\ readings' \in Nat /\ tasks' \in Seq(Nat) /\ task' \in [PoolThreads -> Nat]
      /\ Waiting'
      /\ \A q \in Nat : Past(q) => Past(q)'
    BY WaitingStep
<1>2. ASSUME UNCHANGED file
      PROVE  /\ file' # <<>> => file'[1] \in [Devices -> Seq(Nat)]
             /\ file' # <<>> => \A d \in Devices : KeptBy(file[1], d)'
    <2> SUFFICES ASSUME file # <<>>
                 PROVE  /\ file[1] \in [Devices -> Seq(Nat)]
                        /\ \A d \in Devices : KeptBy(file[1], d)'
        BY <1>2
    <2>1. PICK h \in [Devices -> Seq(Nat)] : h = file[1] /\ h = file'[1]
        BY <1>0, <1>2 DEF DataTypes
    <2>2. \A d \in Devices : KeptBy(h, d)
        BY <1>0, <2>1
    <2>3. \A d \in Devices : KeptBy(h, d)'
        BY <1>1, <2>2, KeptOn
    <2> QED BY <2>1, <2>3 DEF KeptBy
<1>3. ASSUME UNCHANGED history
      PROVE  \A d \in Devices : KeptBy(history, d)'
    <2>1. PICK h \in [Devices -> Seq(Nat)] : h = history /\ h = history'
        BY <1>0, <1>3 DEF DataTypes
    <2>2. \A d \in Devices : KeptBy(h, d)
        BY <1>0, <2>1
    <2>3. \A d \in Devices : KeptBy(h, d)'
        BY <1>1, <2>2, KeptOn
    <2> QED BY <2>1, <2>3 DEF KeptBy
<1>4. ASSUME UNCHANGED <<history, dataPoints, file>> PROVE DataInv'
    BY <1>0, <1>1, <1>2, <1>3, <1>4 DEF DataInv, DataTypes, Data!NoHistory
<1>5. CASE \/ Data!StartUpdates \/ Data!StopUpdates \/ Data!UpdateData
           \/ (\E w \in PoolThreads : Data!TakeTask(w)) \/ UNCHANGED Data!dataVars
    BY <1>4, <1>5 DEF Data!StartUpdates, Data!StopUpdates, Data!UpdateData,
       Data!TakeTask, Data!dataVars, Data!store
<1>6. ASSUME NEW d \in Devices, NEW r \in Nat, Data!ProcessSensorData(d, r),
             ~ Past(r), Past(r)', UNCHANGED file
      PROVE  DataInv'
    <2>1. /\ history' \in [Devices -> Seq(Nat)] /\ dataPoints' \in Nat
          /\ \A e \in Devices : KeptBy(history, e)'
          /\ dataPoints' # 0 /\ history' # Data!NoHistory
        BY <1>1, <1>6, Stored
    <2> QED BY <1>1, <1>2, <1>6, <2>1 DEF DataInv, DataTypes, Data!NoHistory
<1>7. ASSUME NEW w \in PoolThreads, Data!StoreTask(w) PROVE DataInv'
    <2>1. PICK r \in Nat : r = task[w]
        BY <1>0 DEF DataTypes
    <2>2. /\ r # 0 /\ Data!ProcessSensorData(OwnDevice, r) /\ UNCHANGED file
          /\ task' = [task EXCEPT ![w] = 0] /\ UNCHANGED <<readings, tasks>>
        BY <1>7, <2>1 DEF Data!StoreTask
    <2>3. ~ Past(r)
        BY <2>1 DEF Past
    <2>4. Past(r)'
        BY <1>0, <2>1, <2>2 DEF DataInv, DataTypes, Waiting, Past
    <2>5. OwnDevice \in Devices
        BY InstanceAssumption DEF Data!DataAssumption
    <2> QED BY <1>6, <2>2, <2>3, <2>4, <2>5
<1>8. ASSUME NEW d \in Devices, Data!HandleDeviceData(d) PROVE DataInv'
    <2>1. PICK r \in Nat : r = readings + 1
        BY <1>0 DEF DataTypes
    <2>2. /\ readings' = r /\ UNCHANGED <<tasks, task, file>>
          /\ Data!ProcessSensorData(d, r)
        BY <1>8, <2>1 DEF Data!HandleDeviceData, Data!pool, Data!ProcessSensorData
    <2>3. ~ Past(r)
        BY <1>0, <2>1 DEF DataTypes, Past
    <2>4. Past(r)'
        BY <1>0, <2>1, <2>2 DEF DataInv, DataTypes, Waiting, Past
    <2> QED BY <1>6, <2>2, <2>3, <2>4
<1>9. CASE Data!ClearHistory
    <2>1. history' = Data!NoHistory /\ dataPoints' = 0 /\ UNCHANGED file
        BY <1>9 DEF Data!ClearHistory
    <2>2. \A d \in Devices : history'[d] = <<>>
        BY <2>1 DEF Data!NoHistory
    <2>3. \A d \in Devices : KeptBy(history, d)'
        BY <2>2, InstanceAssumption DEF KeptBy, Data!DataAssumption
    <2>4. history' \in [Devices -> Seq(Nat)]
        BY <2>1 DEF Data!NoHistory
    <2> QED BY <1>1, <1>2, <2>1, <2>3, <2>4 DEF DataInv, DataTypes, Data!NoHistory
<1>10. CASE Data!SaveData
    <2>1. file' = <<history>> /\ UNCHANGED <<history, dataPoints>>
        BY <1>10 DEF Data!SaveData, Data!store
    <2>2. file'[1] = history'
        BY <2>1
    <2>3. file'[1] \in [Devices -> Seq(Nat)] /\ history' \in [Devices -> Seq(Nat)]
        BY <1>0, <2>1, <2>2 DEF DataTypes
    <2>4. \A d \in Devices : KeptBy(file[1], d)' /\ KeptBy(history, d)'
        BY <1>3, <2>1, <2>2 DEF KeptBy
    <2> QED BY <1>0, <1>1, <2>1, <2>3, <2>4 DEF DataInv, DataTypes, Data!NoHistory
<1>11. CASE Data!LoadData
    <2>1. /\ file # <<>> /\ history' = file[1] /\ UNCHANGED file
          /\ dataPoints' = Cardinality({d \in Devices : history'[d] # <<>>})
        BY <1>11, Counting DEF Data!LoadData
    <2>2. /\ history' \in [Devices -> Seq(Nat)]
          /\ \A d \in Devices : KeptBy(file[1], d)'
        BY <1>0, <1>2, <2>1 DEF DataTypes
    <2>3. \A d \in Devices : KeptBy(history, d)'
        BY <2>1, <2>2 DEF KeptBy
    <2>4. dataPoints' \in Nat /\ (dataPoints' = 0 <=> history' = Data!NoHistory)
        <3> DEFINE D == {d \in Devices : history'[d] # <<>>}
        <3>1. IsFiniteSet(D)
            BY FS_Subset, InstanceAssumption, Counting DEF Data!DataAssumption
        <3>2. Cardinality(D) \in Nat /\ (Cardinality(D) = 0 <=> D = {})
            BY <3>1, FS_CardinalityType, FS_EmptySet
        <3>3. D = {} <=> history' = Data!NoHistory
            BY <2>2 DEF Data!NoHistory
        <3> QED BY <2>1, <3>2, <3>3
    <2> QED BY <1>1, <1>2, <2>1, <2>2, <2>3, <2>4 DEF DataInv, DataTypes, Data!NoHistory
<1> QED BY <1>5, <1>7, <1>8, <1>9, <1>10, <1>11 DEF Data!Next

\* DataInv says more than HistoryKept.
LEMMA DataHolds == DataInv => Data!HistoryKept
<1> SUFFICES ASSUME DataInv PROVE Data!HistoryKept
    OBVIOUS
<1>0. /\ tasks \in Seq(Nat) /\ task \in [PoolThreads -> Nat] /\ MaxHistory \in Nat
      /\ dataPoints = 0 <=> history = Data!NoHistory
    BY InstanceAssumption DEF DataInv, DataTypes, Data!DataAssumption
<1>1. ASSUME NEW d \in Devices
      PROVE  /\ Data!IsInjective(history[d]) /\ Len(history[d]) <= MaxHistory
             /\ Data!ToSet(history[d]) \cap
                    (Data!ToSet(tasks) \cup {task[w] : w \in PoolThreads}) = {}
             /\ Data!GetHistory(d, MaxHistory) = history[d]
    <2>1. history[d] \in Seq(Nat) /\ KeptBy(history, d)
        BY <1>1 DEF DataInv, DataTypes
    <2>2. /\ Len(history[d]) \in Nat /\ DOMAIN history[d] = 1 .. Len(history[d])
          /\ DOMAIN tasks = 1 .. Len(tasks)
        BY <1>0, <2>1, LenProperties
    <2>3. Data!IsInjective(history[d]) /\ Len(history[d]) <= MaxHistory
        BY <2>1, <2>2 DEF KeptBy, Data!IsInjective
    <2>4. Data!ToSet(history[d]) \cap
              (Data!ToSet(tasks) \cup {task[w] : w \in PoolThreads}) = {}
        BY <2>1, <2>2 DEF KeptBy, Past, Data!ToSet
    <2>5. Data!GetHistory(d, MaxHistory) = history[d]
        <3>1. Data!GetHistory(d, MaxHistory) = SubSeq(history[d], 1, Len(history[d]))
            <4> DEFINE n == Len(history[d])
            <4>1. (IF n > MaxHistory THEN n - MaxHistory ELSE 0) + 1 = 1
                BY <1>0, <2>2, <2>3
            <4> QED BY <4>1, Zenon DEF Data!GetHistory
        <3> QED BY <2>1, <3>1, SubSeqFull
    <2> QED BY <2>3, <2>4, <2>5
<1> QED BY <1>0, <1>1 DEF Data!HistoryKept

-----------------------------------------------------------------------------
(* The chart.                                                              *)

\* A set of natural numbers has a least one.
LEMMA Least ==
  ASSUME NEW T \in SUBSET Nat, T # {}
  PROVE  \E n \in T : \A m \in T : n <= m
<1> DEFINE R == {ss \in Nat \X Nat : ss[1] < ss[2]}
<1>1. OpToRel(<, Nat) = R
    BY Zenon DEF OpToRel
<1>2. IsWellFoundedOn(R, Nat)
    BY <1>1, NatLessThanWellFounded, Zenon
<1> HIDE DEF R
<1>3. PICK x \in T : \A y \in T : ~ (<<y, x>> \in R)
    BY <1>2, WFMin
<1>4. ASSUME NEW y \in T PROVE x <= y
    <2>1. x \in Nat /\ y \in Nat
        OBVIOUS
    <2>2. y < x => <<y, x>> \in R
        BY <2>1 DEF R
    <2> QED BY <1>3, <2>1, <2>2
<1> QED BY <1>4

\* A sequence of integers has a least element: the last k after which some element is
\* at most every other can be moved to the front.
LEMMA LeastElement ==
  ASSUME NEW n \in Nat \ {0}, NEW s \in [1 .. n -> Int]
  PROVE  \E i \in 1 .. n : \A j \in 1 .. n : s[i] <= s[j]
<1> DEFINE Leads(k) == \E i \in 1 .. n : \A j \in 1 .. n : j > k => s[i] <= s[j]
           T == {k \in 0 .. n : Leads(k)}
<1>1. n \in T
    <2>1. n \in 1 .. n /\ n \in 0 .. n /\ \A j \in 1 .. n : ~ (j > n)
        OBVIOUS
    <2> QED BY <2>1
<1>2. T \in SUBSET Nat /\ \A k \in T : k \in 0 .. n /\ Leads(k)
    OBVIOUS
<1>3. ASSUME NEW k \in 0 .. n, Leads(k) PROVE k \in T
    BY <1>3
<1> HIDE DEF T
<1>4. PICK k \in T : \A m \in T : k <= m
    BY <1>1, <1>2, Least
<1>5. k \in 0 .. n
    BY <1>2
<1>6. PICK i \in 1 .. n : \A j \in 1 .. n : j > k => s[i] <= s[j]
    BY <1>2
<1> HIDE DEF Leads
<1>7. k = 0
    <2> SUFFICES ASSUME k # 0 PROVE FALSE
        OBVIOUS
    <2>1. k \in 1 .. n /\ k - 1 \in 0 .. n /\ k - 1 < k
        BY <1>5
    <2>2. \A j \in 1 .. n : j > k - 1 => j = k \/ j > k
        BY <2>1
    <2>3. s[i] \in Int /\ s[k] \in Int /\ \A j \in 1 .. n : s[j] \in Int
        BY <2>1
    <2>4. ASSUME s[i] <= s[k] PROVE Leads(k - 1)
        BY <1>6, <2>2, <2>4 DEF Leads
    <2>5. ASSUME s[k] < s[i] PROVE Leads(k - 1)
        <3>1. \A j \in 1 .. n : j > k - 1 => s[k] <= s[j]
            BY <1>6, <2>2, <2>3, <2>5
        <3> QED BY <2>1, <3>1 DEF Leads
    <2>6. Leads(k - 1)
        BY <2>3, <2>4, <2>5
    <2>7. k - 1 \in T
        BY <1>3, <2>1, <2>6
    <2> QED BY <1>4, <2>1, <2>7
<1> QED BY <1>6, <1>7

\* The least and the greatest element of a sequence are in order.
LEMMA Extremes ==
  ASSUME NEW s \in Seq(Int), s # <<>>
  PROVE  /\ Chart!Min(Chart!ToSet(s)) \in Int /\ Chart!Max(Chart!ToSet(s)) \in Int
         /\ \A i \in 1 .. Len(s) :
                Chart!Min(Chart!ToSet(s)) <= s[i] /\ s[i] <= Chart!Max(Chart!ToSet(s))
<1> DEFINE n == Len(s)
           S == Chart!ToSet(s)
           t == [i \in 1 .. n |-> - s[i]]
<1>1. n \in Nat \ {0} /\ s \in [1 .. n -> Int] /\ S = {s[i] : i \in 1 .. n}
    BY LenProperties, EmptySeq DEF Chart!ToSet
<1> HIDE DEF n, S
<1>2. \E x \in S : \A y \in S : x <= y
    <2>1. PICK i \in 1 .. n : \A j \in 1 .. n : s[i] <= s[j]
        BY <1>1, LeastElement
    <2> QED BY <1>1, <2>1
<1>3. \E x \in S : \A y \in S : x >= y
    <2>1. t \in [1 .. n -> Int]
        BY <1>1
    <2>2. \A i \in 1 .. n : t[i] = - s[i] /\ s[i] \in Int
        BY <1>1
    <2> HIDE DEF t
    <2>3. PICK i \in 1 .. n : \A j \in 1 .. n : t[i] <= t[j]
        BY <1>1, <2>1, LeastElement
    <2>4. \A j \in 1 .. n : s[i] >= s[j]
        BY <2>2, <2>3
    <2> QED BY <1>1, <2>4
<1>4. Chart!Min(S) \in S /\ \A y \in S : Chart!Min(S) <= y
    BY <1>2 DEF Chart!Min
<1>5. Chart!Max(S) \in S /\ \A y \in S : Chart!Max(S) >= y
    BY <1>3 DEF Chart!Max
<1>6. \A y \in S : y \in Int
    BY <1>1
<1>7. \A i \in 1 .. n : Chart!Min(S) <= s[i] /\ s[i] <= Chart!Max(S)
    BY <1>1, <1>4, <1>5, <1>6
<1> QED BY <1>4, <1>5, <1>6, <1>7 DEF n, S

\* The larger and the smaller of two numbers.
LEMMA OfTwo ==
  ASSUME NEW a \in Int, NEW b \in Int
  PROVE  /\ Chart!Max({a, b}) = IF a >= b THEN a ELSE b
         /\ Chart!Min({a, b}) = IF a <= b THEN a ELSE b
<1>1. Chart!Max({a, b}) \in {a, b} /\ \A y \in {a, b} : Chart!Max({a, b}) >= y
    <2>1. \E x \in {a, b} : \A y \in {a, b} : x >= y
        OBVIOUS
    <2> QED BY <2>1 DEF Chart!Max
<1>2. Chart!Min({a, b}) \in {a, b} /\ \A y \in {a, b} : Chart!Min({a, b}) <= y
    <2>1. \E x \in {a, b} : \A y \in {a, b} : x <= y
        OBVIOUS
    <2> QED BY <2>1 DEF Chart!Min
<1> QED BY <1>1, <1>2

\* qBound(): a number moved into 0 .. D.
LEMMA Clamped ==
  ASSUME NEW D \in Nat, NEW x \in Int
  PROVE  Chart!Max({0, Chart!Min({D, x})}) = IF x <= 0 THEN 0 ELSE IF x >= D THEN D ELSE x
<1>1. Chart!Min({D, x}) = IF D <= x THEN D ELSE x
    BY OfTwo
<1> DEFINE m == Chart!Min({D, x})
<1>2. m \in Int
    BY <1>1
<1>3. m = IF D <= x THEN D ELSE x
    BY <1>1
<1> HIDE DEF m
<1>4. Chart!Max({0, m}) = IF 0 >= m THEN 0 ELSE m
    BY <1>2, OfTwo
<1>5. Chart!Max({0, m}) = IF x <= 0 THEN 0 ELSE IF x >= D THEN D ELSE x
    BY <1>3, <1>4
<1> QED BY <1>5 DEF m

\* updateRange() leaves every point between its bounds.
LEMMA RangeContains ==
  ASSUME NEW s \in Seq(Int), s # <<>>
  PROVE  /\ Chart!RangeOf(s).min \in Int /\ Chart!RangeOf(s).max \in Int
         /\ \A i \in 1 .. Len(s) :
               Chart!RangeOf(s).min < 10 * s[i] /\ 10 * s[i] < Chart!RangeOf(s).max
<1> DEFINE lo == Chart!Min(Chart!ToSet(s))
           hi == Chart!Max(Chart!ToSet(s))
           pad == Chart!Max({hi - lo, 1})
<1>1. /\ lo \in Int /\ hi \in Int
      /\ \A i \in 1 .. Len(s) : s[i] \in Int /\ lo <= s[i] /\ s[i] <= hi
    BY Extremes, ElementOfSeq
<1>2. Chart!RangeOf(s) = [min |-> 10 * lo - pad, max |-> 10 * hi + pad]
    BY DEF Chart!RangeOf
<1> HIDE DEF lo, hi
<1>3. pad \in Int /\ pad >= 1
    BY <1>1, OfTwo
<1> HIDE DEF pad
<1> QED BY <1>1, <1>2, <1>3

\* The quotient of the hue is between 0 and 120, and grows with the value.
LEMMA Quotient ==
  ASSUME NEW D \in Nat \ {0}, NEW a \in 0 .. D, NEW b \in 0 .. D, a <= b
  PROVE  /\ (a * 120) \div D \in 0 .. 120 /\ (b * 120) \div D \in 0 .. 120
         /\ (a * 120) \div D <= (b * 120) \div D
<1>1. ASSUME NEW x \in Nat
      PROVE  x \div D \in Int /\ D * (x \div D) <= x /\ x < D * ((x \div D) + 1)
    OBVIOUS
<1>2. ASSUME NEW x \in Nat, NEW y \in Nat, x <= y PROVE x \div D <= y \div D
    <2> DEFINE p == x \div D
               q == y \div D
    <2>1. p \in Int /\ q \in Int /\ D * p <= x /\ y < D * (q + 1)
        BY <1>1
    <2> HIDE DEF p, q
    <2>2. CASE q + 1 <= p
        <3>1. D * (q + 1) <= D * p
            BY <2>1, <2>2
        <3>2. D * (q + 1) \in Int /\ D * p \in Int
            BY <2>1
        <3> QED BY <1>2, <2>1, <3>1, <3>2
    <2>3. p <= q \/ q + 1 <= p
        BY <2>1
    <2> QED BY <2>2, <2>3 DEF p, q
<1>3. /\ a * 120 \in Nat /\ b * 120 \in Nat /\ D * 120 \in Nat
      /\ 0 <= a * 120 /\ a * 120 <= b * 120 /\ b * 120 <= D * 120
    OBVIOUS
<1>4. 0 \div D = 0 /\ (D * 120) \div D = 120
    OBVIOUS
<1>5. /\ 0 \div D <= (a * 120) \div D /\ (a * 120) \div D <= (b * 120) \div D
      /\ (b * 120) \div D <= (D * 120) \div D
    BY <1>2, <1>3
<1>6. (a * 120) \div D \in Int /\ (b * 120) \div D \in Int
    BY <1>1, <1>3
<1> QED BY <1>4, <1>5, <1>6

\* generateColor(): for any points, from green to red, and never back.
LEMMA HuesInOrder ==
  ASSUME NEW s \in Seq(Int), NEW v \in Int, NEW w \in Int, v <= w
  PROVE  /\ Chart!Hue(v, s) \in 0 .. 120 /\ Chart!Hue(w, s) \in 0 .. 120
         /\ Chart!Hue(v, s) >= Chart!Hue(w, s)
<1> DEFINE lo == Chart!Min(Chart!ToSet(s))
           hi == Chart!Max(Chart!ToSet(s))
           Above(x) == Chart!Max({0, Chart!Min({hi - lo, x - lo})})
<1>1. CASE s = <<>> \/ hi = lo
    <2>1. \A x : Chart!Hue(x, s) = 60
        BY <1>1, Zenon DEF Chart!Hue
    <2> QED BY <2>1
<1>2. CASE s # <<>> /\ hi # lo
    <2>1. /\ Chart!Hue(v, s) = 120 - (Above(v) * 120) \div (hi - lo)
          /\ Chart!Hue(w, s) = 120 - (Above(w) * 120) \div (hi - lo)
        BY <1>2, Zenon DEF Chart!Hue
    <2>2. lo \in Int /\ hi \in Int /\ lo <= hi
        <3>1. 1 \in 1 .. Len(s) /\ s[1] \in Int
            BY <1>2, LenProperties, EmptySeq, ElementOfSeq
        <3> QED BY <1>2, <3>1, Extremes
    <2> HIDE DEF lo, hi
    <2>3. hi - lo \in Nat \ {0}
        BY <1>2, <2>2
    <2>4. Above(v) \in 0 .. hi - lo /\ Above(w) \in 0 .. hi - lo /\ Above(v) <= Above(w)
        <3> DEFINE D == hi - lo
        <3>1. D \in Nat /\ v - lo \in Int /\ w - lo \in Int /\ v - lo <= w - lo
            BY <2>2, <2>3
        <3> HIDE DEF D
        <3>2. /\ Chart!Max({0, Chart!Min({D, v - lo})}) =
                     IF v - lo <= 0 THEN 0 ELSE IF v - lo >= D THEN D ELSE v - lo
              /\ Chart!Max({0, Chart!Min({D, w - lo})}) =
                     IF w - lo <= 0 THEN 0 ELSE IF w - lo >= D THEN D ELSE w - lo
            BY <3>1, Clamped
        <3>3. /\ Above(v) = IF v - lo <= 0 THEN 0 ELSE IF v - lo >= D THEN D ELSE v - lo
              /\ Above(w) = IF w - lo <= 0 THEN 0 ELSE IF w - lo >= D THEN D ELSE w - lo
            BY <3>2, Zenon DEF D
        <3> HIDE DEF Above
        <3>4. Above(v) \in 0 .. D /\ Above(w) \in 0 .. D /\ Above(v) <= Above(w)
            BY <3>1, <3>3
        <3> QED BY <3>4 DEF D
    <2> HIDE DEF Above
    <2>5. /\ (Above(v) * 120) \div (hi - lo) \in 0 .. 120
          /\ (Above(w) * 120) \div (hi - lo) \in 0 .. 120
          /\ (Above(v) * 120) \div (hi - lo) <= (Above(w) * 120) \div (hi - lo)
        <3> DEFINE D == hi - lo
                   p == Above(v)
                   q == Above(w)
        <3>1. D \in Nat \ {0} /\ p \in 0 .. D /\ q \in 0 .. D /\ p <= q
            BY <2>3, <2>4
        <3> HIDE DEF D, p, q
        <3>2. /\ (p * 120) \div D \in 0 .. 120 /\ (q * 120) \div D \in 0 .. 120
              /\ (p * 120) \div D <= (q * 120) \div D
            BY <3>1, Quotient
        <3> QED BY <3>2 DEF D, p, q
    <2> DEFINE p == (Above(v) * 120) \div (hi - lo)
               q == (Above(w) * 120) \div (hi - lo)
    <2>6. p \in 0 .. 120 /\ q \in 0 .. 120 /\ p <= q
        BY <2>5, Zenon
    <2>7. Chart!Hue(v, s) = 120 - p /\ Chart!Hue(w, s) = 120 - q
        BY <2>1, Zenon
    <2> HIDE DEF p, q
    <2> QED BY <2>6, <2>7
<1> QED BY <1>1, <1>2

-----------------------------------------------------------------------------
\* Sequence s is the end of sequence t.
Ends(s, t) ==
    /\ Len(s) <= Len(t)
    /\ \A i \in 1 .. Len(s) : s[i] = t[Len(t) - Len(s) + i]

\* A sequence that agrees with the end of another one is a suffix of it.
LEMMA EndsIsSuffix ==
  ASSUME NEW s \in Seq(Values), NEW t \in Seq(Values), Ends(s, t)
  PROVE  Chart!IsSuffix(s, t)
<1> DEFINE m == Len(s)
           n == Len(t)
           p == Chart!Reverse(s)
           q == Chart!Reverse(t)
           r == SubSeq(q, 1, m)
<1>1. /\ m \in Nat /\ n \in Nat /\ m <= n /\ \A i \in 1 .. m : s[i] \in Values
      /\ \A i \in 1 .. n : t[i] \in Values
      /\ \A i \in 1 .. m : s[i] = t[n - m + i]
    BY LenProperties, ElementOfSeq DEF Ends
<1>2. p = [i \in 1 .. m |-> s[(m - i) + 1]] /\ q = [i \in 1 .. n |-> t[(n - i) + 1]]
    BY DEF Chart!Reverse
<1> HIDE DEF m, n, p, q
<1>3. p \in Seq(Values) /\ Len(p) = m /\ \A i \in 1 .. m : p[i] = s[(m - i) + 1]
    <2>1. \A i \in 1 .. m : (m - i) + 1 \in 1 .. m
        BY <1>1
    <2>2. p \in [1 .. m -> Values]
        BY <1>1, <1>2, <2>1
    <2> QED BY <1>1, <1>2, <2>2
<1>4. q \in Seq(Values) /\ Len(q) = n /\ \A i \in 1 .. n : q[i] = t[(n - i) + 1]
    <2>1. \A i \in 1 .. n : (n - i) + 1 \in 1 .. n
        BY <1>1
    <2>2. q \in [1 .. n -> Values]
        BY <1>1, <1>2, <2>1
    <2> QED BY <1>1, <1>2, <2>2
<1>5. r \in Seq(Values) /\ Len(r) = m /\ \A i \in 1 .. m : r[i] = q[i]
    <2>1. \A i \in 1 .. m : q[i] \in Values
        BY <1>1, <1>4, ElementOfSeq
    <2>2. /\ r \in Seq(Values) /\ Len(r) = IF 1 <= m THEN m - 1 + 1 ELSE 0
          /\ \A i \in 1 .. m - 1 + 1 : r[i] = q[1 + i - 1]
        BY <1>1, <2>1, SubSeqProperties
    <2> HIDE DEF r
    <2> QED BY <1>1, <2>2
<1> HIDE DEF r
<1>6. \A i \in 1 .. m : p[i] = r[i]
    <2> SUFFICES ASSUME NEW i \in 1 .. m PROVE p[i] = r[i]
        OBVIOUS
    <2>1. (m - i) + 1 \in 1 .. m /\ n - m + ((m - i) + 1) = (n - i) + 1 /\ i \in 1 .. n
        BY <1>1
    <2>2. s[(m - i) + 1] = t[n - m + ((m - i) + 1)]
        BY <1>1, <2>1
    <2> QED BY <1>3, <1>4, <1>5, <2>1, <2>2
<1>7. p = r
    BY <1>3, <1>5, <1>6, SeqEqual
<1>8. SubSeq(p, 1, m) = p
    BY <1>3, SubSeqFull
<1>9. Len(p) <= Len(q) /\ SubSeq(p, 1, Len(p)) = SubSeq(q, 1, Len(p))
    BY <1>1, <1>3, <1>4, <1>7, <1>8 DEF r
<1> QED BY <1>9 DEF Chart!IsSuffix, Chart!IsPrefix, p, q

\* The points a limit leaves are the last ones.
LEMMA LimitedEnds ==
  ASSUME NEW s \in Seq(Values), NEW n \in Nat \ {0}
  PROVE  /\ Chart!Limited(s, n) \in Seq(Values) /\ Len(Chart!Limited(s, n)) <= n
         /\ Ends(Chart!Limited(s, n), s)
<1> DEFINE k == Len(s)
           l == SubSeq(s, k - n + 1, k)
<1>1. k \in Nat /\ \A i \in 1 .. k : s[i] \in Values
    BY LenProperties, ElementOfSeq
<1>2. CASE k > n
    <2>1. \A i \in k - n + 1 .. k : s[i] \in Values
        BY <1>1, <1>2
    <2>2. k - n + 1 \in Int /\ k \in Int
        BY <1>1
    <2> HIDE DEF k
    <2>3. /\ l \in Seq(Values)
          /\ Len(l) = IF k - n + 1 <= k THEN k - (k - n + 1) + 1 ELSE 0
          /\ \A i \in 1 .. k - (k - n + 1) + 1 : l[i] = s[(k - n + 1) + i - 1]
        BY <2>1, <2>2, SubSeqProperties
    <2> HIDE DEF l
    <2>4. Len(l) = n /\ \A i \in 1 .. n : l[i] = s[k - n + i]
        BY <1>1, <1>2, <2>3
    <2>5. Chart!Limited(s, n) = l
        BY <1>2 DEF Chart!Limited, k, l
    <2>6. l \in Seq(Values) /\ Len(l) <= n /\ Ends(l, s)
        <3>1. Len(l) <= n /\ Len(l) <= k /\ k - Len(l) = k - n
            BY <1>1, <1>2, <2>4
        <3>2. \A i \in 1 .. Len(l) : l[i] = s[k - Len(l) + i]
            BY <2>4, <3>1
        <3> QED BY <2>3, <3>1, <3>2 DEF Ends, k
    <2> QED BY <2>5, <2>6
<1>3. CASE ~ (k > n)
    <2>1. Chart!Limited(s, n) = s
        BY <1>3 DEF Chart!Limited
    <2>2. \A i \in 1 .. Len(s) : Len(s) - Len(s) + i = i
        BY <1>1
    <2> QED BY <1>1, <1>3, <2>1, <2>2 DEF Ends
<1> QED BY <1>2, <1>3

\* All of a sequence but its last element.
LEMMA FrontIs ==
  ASSUME NEW s \in Seq(Values), Len(s) >= 1
  PROVE  /\ SubSeq(s, 1, Len(s) - 1) \in Seq(Values)
         /\ Len(SubSeq(s, 1, Len(s) - 1)) = Len(s) - 1
         /\ \A i \in 1 .. Len(s) - 1 : SubSeq(s, 1, Len(s) - 1)[i] = s[i]
<1> DEFINE n == Len(s) - 1
           f == SubSeq(s, 1, n)
<1>1. n \in Nat /\ \A i \in 1 .. n : s[i] \in Values
    BY LenProperties, ElementOfSeq
<1> HIDE DEF n
<1>2. /\ f \in Seq(Values) /\ Len(f) = IF 1 <= n THEN n - 1 + 1 ELSE 0
      /\ \A i \in 1 .. n - 1 + 1 : f[i] = s[1 + i - 1]
    BY <1>1, SubSeqProperties
<1> HIDE DEF f
<1>3. f \in Seq(Values) /\ Len(f) = n /\ \A i \in 1 .. n : f[i] = s[i]
    BY <1>1, <1>2
<1> QED BY <1>3 DEF f, n

ChartTypes ==
    points \in Seq(Values) /\ appended \in Seq(Values) /\ maxPoints \in Nat \ {0}

\* The thread stops only for a view or an automatic range, and with a view at the
\* first call.
Stops ==
    /\ stuck => viewed \/ (autoRange /\ points # <<>>)
    /\ viewed /\ ~ stuck => points = <<>> /\ maxPoints = MaxPoints

\* Every point lies in an automatic range.
Within == ~ stuck /\ autoRange => \A i \in 1 .. Len(points) :
              range.min < 10 * points[i] /\ 10 * points[i] < range.max
ChartInv ==
    /\ ChartTypes /\ Len(points) <= maxPoints /\ Ends(points, appended)
    /\ Stops /\ Within

\* A new chart has no points.
LEMMA ChartInit == Chart!Init => ChartInv
<1> SUFFICES ASSUME Chart!Init PROVE ChartInv
    OBVIOUS
<1>1. MaxPoints \in Nat \ {0}
    BY InstanceAssumption DEF Chart!ChartAssumption
<1> QED BY <1>1 DEF Chart!Init, ChartInv, ChartTypes, Stops, Within, Ends

\* Points come and go, the oldest first, and an automatic range follows them.
LEMMA ChartStep == ChartInv /\ [Chart!Next]_(Chart!chartVars) => ChartInv'
<1> SUFFICES ASSUME ChartInv, [Chart!Next]_(Chart!chartVars) PROVE ChartInv'
    OBVIOUS
<1>0. /\ points \in Seq(Values) /\ appended \in Seq(Values) /\ maxPoints \in Nat \ {0}
      /\ Len(points) <= maxPoints /\ Ends(points, appended) /\ Stops /\ Within
      /\ Len(points) \in Nat /\ Len(appended) \in Nat
    BY LenProperties DEF ChartInv, ChartTypes
<1>1. ASSUME NEW before \in Seq(Values), NEW new \in Seq(Values),
             Chart!Append_(before, new)
      PROVE  ChartInv'
    <2>1. before \o new \in Seq(Values)
        BY ConcatProperties
    <2>2. /\ appended' = before \o new /\ UNCHANGED maxPoints
          /\ points' = Chart!Limited(before \o new, maxPoints)
          /\ stuck' = (viewed' \/ (autoRange' /\ points' # <<>>))
        BY <1>1 DEF Chart!Append_, Chart!Hangs
    <2>3. /\ points' \in Seq(Values) /\ Len(points') <= maxPoints'
          /\ Ends(points, appended)'
        BY <1>0, <2>1, <2>2, LimitedEnds DEF Ends
    <2>4. autoRange' /\ ~ stuck' => points' = <<>>
        BY <2>2
    <2>5. Stops' /\ Within'
        <3>1. (viewed' => stuck') /\ (stuck' => viewed' \/ (autoRange' /\ points' # <<>>))
            BY <2>2
        <3>2. Stops'
            BY <3>1 DEF Stops
        <3>3. Within'
            BY <2>4 DEF Within
        <3> QED BY <3>2, <3>3
    <2> QED BY <1>0, <2>1, <2>2, <2>3, <2>5 DEF ChartInv, ChartTypes
<1>2. CASE Chart!Clear
    BY <1>0, <1>2 DEF Chart!Clear, ChartInv, ChartTypes, Stops, Within, Ends
<1>3. ASSUME NEW new \in UNION {[1 .. n -> Values] : n \in 1 .. 2},
             Chart!AppendDataPoints(new) \/ Chart!SetData(new)
      PROVE  ChartInv'
    <2>1. new \in Seq(Values) /\ <<>> \in Seq(Values)
        <3>1. PICK n \in 1 .. 2 : new \in [1 .. n -> Values]
            BY <1>2
        <3>2. n \in Nat
            OBVIOUS
        <3> QED BY <3>1, <3>2, EmptySeq
    <2> QED BY <1>0, <1>1, <1>3, <1>2, <2>1 DEF Chart!AppendDataPoints, Chart!SetData
<1>4. CASE Chart!RemoveLast
    <2>1. /\ points # <<>> /\ UNCHANGED maxPoints
          /\ points' = SubSeq(points, 1, Len(points) - 1)
          /\ appended' = SubSeq(appended, 1, Len(appended) - 1)
          /\ stuck' = (viewed' \/ (autoRange' /\ points' # <<>>))
        BY <1>4 DEF Chart!RemoveLast, Chart!Front, Chart!Hangs
    <2>2. Len(points) >= 1 /\ Len(appended) >= 1
        BY <1>0, <2>1, EmptySeq DEF Ends
    <2>3. /\ points' \in Seq(Values) /\ Len(points') = Len(points) - 1
          /\ \A i \in 1 .. Len(points) - 1 : points'[i] = points[i]
        BY <1>0, <2>1, <2>2, FrontIs
    <2>4. /\ appended' \in Seq(Values) /\ Len(appended') = Len(appended) - 1
          /\ \A i \in 1 .. Len(appended) - 1 : appended'[i] = appended[i]
        BY <1>0, <2>1, <2>2, FrontIs
    <2>5. Ends(points, appended)'
        <3>1. Len(points') <= Len(appended')
            BY <1>0, <2>3, <2>4 DEF Ends
        <3>2. ASSUME NEW i \in 1 .. Len(points')
              PROVE  points'[i] = appended'[Len(appended') - Len(points') + i]
            <4>1. /\ i \in 1 .. Len(points) /\ points'[i] = points[i]
                  /\ points[i] = appended[Len(appended) - Len(points) + i]
                BY <1>0, <2>2, <2>3 DEF Ends
            <4>2. /\ Len(appended') - Len(points') + i = Len(appended) - Len(points) + i
                  /\ Len(appended) - Len(points) + i \in 1 .. Len(appended) - 1
                BY <1>0, <2>2, <2>3, <2>4 DEF Ends
            <4> QED BY <2>4, <4>1, <4>2
        <3> QED BY <3>1, <3>2 DEF Ends
    <2>6. Stops' /\ Within'
        <3>1. autoRange' /\ ~ stuck' => points' = <<>>
            BY <2>1
        <3>2. (viewed' => stuck') /\ (stuck' => viewed' \/ (autoRange' /\ points' # <<>>))
            BY <2>1
        <3>3. Stops'
            BY <3>2 DEF Stops
        <3>4. Within'
            BY <3>1 DEF Within
        <3> QED BY <3>3, <3>4
    <2> QED BY <1>0, <2>1, <2>3, <2>4, <2>5, <2>6 DEF ChartInv, ChartTypes
<1>5. ASSUME ~ stuck, NEW n \in Sizes, Chart!SetMaxPoints(n) PROVE ChartInv'
    <2>1. /\ n \in Nat \ {0} /\ maxPoints' = n /\ points' = Chart!Limited(points, n)
          /\ stuck' = viewed /\ UNCHANGED <<autoRange, range, viewed, appended>>
        BY <1>5, InstanceAssumption DEF Chart!SetMaxPoints, Chart!ChartAssumption
    <2>2. /\ points' \in Seq(Values) /\ Len(points') <= n /\ Len(points') \in Nat
          /\ Ends(points', points)
        BY <1>0, <2>1, LimitedEnds, LenProperties
    <2>3. \A i \in 1 .. Len(points') : /\ Len(points) - Len(points') + i \in 1 .. Len(points)
                                       /\ points'[i] = points[Len(points) - Len(points') + i]
        <3> SUFFICES ASSUME NEW i \in 1 .. Len(points')
                     PROVE  /\ Len(points) - Len(points') + i \in 1 .. Len(points)
                            /\ points'[i] = points[Len(points) - Len(points') + i]
            OBVIOUS
        <3>1. Len(points') <= Len(points) /\ Len(points) \in Nat
            BY <1>0, <2>2 DEF Ends
        <3>2. Len(points) - Len(points') + i \in 1 .. Len(points)
            BY <2>2, <3>1
        <3>3. points'[i] = points[Len(points) - Len(points') + i]
            BY <2>2 DEF Ends
        <3> QED BY <3>2, <3>3
    <2>4. Ends(points, appended)'
        <3>1. Len(points') <= Len(appended)
            BY <1>0, <2>2 DEF Ends
        <3>2. ASSUME NEW i \in 1 .. Len(points')
              PROVE  points'[i] = appended[Len(appended) - Len(points') + i]
            <4>1. PICK k \in 1 .. Len(points) :
                      k = Len(points) - Len(points') + i /\ points'[i] = points[k]
                BY <2>3
            <4>2. points[k] = appended[Len(appended) - Len(points) + k]
                BY <1>0 DEF Ends
            <4>3. Len(appended) - Len(points) + k = Len(appended) - Len(points') + i
                BY <1>0, <2>2, <4>1
            <4> QED BY <4>1, <4>2, <4>3
        <3> QED BY <2>1, <3>1, <3>2 DEF Ends
    <2>5. Stops' /\ Within'
        <3>1. Stops'
            BY <2>1 DEF Stops
        <3> QED BY <1>0, <1>5, <2>1, <2>3, <3>1 DEF Within
    <2> QED BY <1>0, <2>1, <2>2, <2>4, <2>5 DEF ChartInv, ChartTypes
<1>6. ASSUME ~ stuck, NEW auto \in BOOLEAN, Chart!SetAutoRange(auto) PROVE ChartInv'
    <2>1. /\ autoRange' = auto /\ UNCHANGED <<points, maxPoints, viewed, stuck, appended>>
          /\ auto /\ points # <<>> => range' = Chart!RangeOf(points)
        BY <1>6 DEF Chart!SetAutoRange
    <2>2. points \in Seq(Int)
        BY <1>0, SeqMonotonic, InstanceAssumption DEF Chart!ChartAssumption
    <2>3. Within'
        <3>1. CASE points = <<>>
            BY <2>1, <3>1 DEF Within
        <3>2. CASE points # <<>> /\ auto
            BY <2>1, <2>2, <3>2, RangeContains DEF Within
        <3>3. CASE ~ auto
            BY <2>1, <3>3 DEF Within
        <3> QED BY <3>1, <3>2, <3>3
    <2>4. Stops'
        BY <1>0, <1>6, <2>1 DEF Stops
    <2> QED BY <1>0, <2>1, <2>3, <2>4 DEF ChartInv, ChartTypes, Ends
<1>7. CASE UNCHANGED Chart!chartVars
    BY <1>7 DEF Chart!chartVars, ChartInv, ChartTypes, Stops, Within, Ends
<1> QED BY <1>3, <1>2, <1>4, <1>5, <1>6, <1>7 DEF Chart!Next

\* ChartInv says more than ChartShows.
LEMMA ChartHolds == ChartInv => Chart!ChartShows
<1> SUFFICES ASSUME ChartInv PROVE Chart!ChartShows
    OBVIOUS
<1>1. /\ points \in Seq(Values) /\ Values \subseteq Int
      /\ DOMAIN points = 1 .. Len(points) /\ Len(points) <= maxPoints
    BY LenProperties, InstanceAssumption DEF ChartInv, ChartTypes, Chart!ChartAssumption
<1>2. Chart!IsSuffix(points, appended)
    BY EndsIsSuffix DEF ChartInv, ChartTypes
<1>3. points \in Seq(Int)
    BY <1>1, SeqMonotonic
<1>4. ASSUME NEW v \in Values, NEW w \in Values
      PROVE  /\ Chart!Hue(v, points) \in 0 .. 120
             /\ v < w => Chart!Hue(v, points) >= Chart!Hue(w, points)
    <2>1. v \in Int /\ w \in Int
        BY <1>1
    <2> QED BY <1>3, <2>1, HuesInOrder
<1>5. ~ stuck /\ autoRange => \A i \in DOMAIN points :
          range.min < 10 * points[i] /\ 10 * points[i] < range.max
    BY <1>1 DEF ChartInv, Within
<1>6. /\ stuck => viewed \/ (autoRange /\ points # <<>>)
      /\ viewed /\ ~ stuck => points = <<>> /\ maxPoints = MaxPoints
    BY DEF ChartInv, Stops
<1> QED BY <1>1, <1>2, <1>4, <1>5, <1>6 DEF Chart!ChartShows

-----------------------------------------------------------------------------
(* The scans, the settings, and the whole.                                 *)

\* DeviceController: one scan at a time, from the start and over every step.
LEMMA OneScanKept ==
  /\ Controller!Init => Controller!OneScan
  /\ Controller!OneScan /\ [Controller!Next]_(Controller!controllerVars)
        => Controller!OneScan'
<1>1. Controller!Init => Controller!OneScan
    BY DEF Controller!Init, Controller!OneScan
<1>2. ASSUME Controller!OneScan, [Controller!Next]_(Controller!controllerVars)
      PROVE  Controller!OneScan'
    <2>1. CASE Controller!ScanForDevices \/ Controller!ScanComplete
        BY <1>2, <2>1 DEF Controller!OneScan, Controller!ScanForDevices,
           Controller!ScanComplete
    <2>2. CASE UNCHANGED <<isScanning, pending>>
        BY <1>2, <2>2 DEF Controller!OneScan
    <2> QED BY <1>2, <2>1, <2>2 DEF Controller!Next, Controller!controllerVars,
        Controller!RegistryChanges, Controller!EnableDevice, Controller!DisableDevice
<1> QED BY <1>1, <1>2

\* GuiSettings: what is not marked dirty is what the file has, unless the file was
\* truncated, from the start and over every step.
LEMMA CleanKept ==
  /\ Gui!Init => Gui!CleanIsSaved
  /\ Gui!CleanIsSaved /\ [Gui!Next]_(Gui!settingsVars) => Gui!CleanIsSaved'
<1>1. Gui!Init => Gui!CleanIsSaved
    BY DEF Gui!Init, Gui!CleanIsSaved
<1>2. ASSUME Gui!CleanIsSaved, [Gui!Next]_(Gui!settingsVars) PROVE Gui!CleanIsSaved'
    <2>1. CASE Gui!StartUp \/ Gui!Crash
        BY <2>1 DEF Gui!CleanIsSaved, Gui!StartUp, Gui!Crash
    <2>2. CASE Gui!AutoSave \/ Gui!SaveNow \/ Gui!ShutDown
        <3>1. UNCHANGED settings /\ (guiRunning' => guiRunning) /\ Gui!Save
            BY <2>2 DEF Gui!AutoSave, Gui!SaveNow, Gui!ShutDown
        <3>2. CASE dirty
            BY <3>1, <3>2 DEF Gui!Save, Gui!Write, Gui!Unwritten, Gui!CleanIsSaved
        <3>3. CASE ~ dirty
            BY <1>2, <3>1, <3>3 DEF Gui!Save, Gui!CleanIsSaved
        <3> QED BY <3>2, <3>3
    <2>3. CASE Gui!ResetToDefaults \/ \E v \in Settings : Gui!SetSetting(v)
        BY <2>3 DEF Gui!CleanIsSaved, Gui!ResetToDefaults, Gui!Write, Gui!Unwritten,
           Gui!SetSetting, Gui!SetDirty
    <2>4. CASE UNCHANGED <<guiRunning, settings, dirty, settingsFile, truncated, synced>>
        BY <1>2, <2>4 DEF Gui!CleanIsSaved
    <2> QED BY <1>2, <2>1, <2>2, <2>3, <2>4 DEF Gui!Next, Gui!settingsVars, Gui!SetTheme
<1> QED BY <1>1, <1>2

\* In MCDevicesAndGui a step is one of one component.
LEMMA HostSteps ==
  [MCNext]_allVars =>
    /\ [Client!Next]_(Client!clientVars) /\ [Data!Next]_(Data!dataVars)
    /\ [Chart!Next]_(Chart!chartVars) /\ [Controller!Next]_(Controller!controllerVars)
    /\ [Gui!Next]_(Gui!settingsVars)
<1> USE DEF clientVars, dataVars, chartVars, controllerVars, settingsVars,
            Client!clientVars, Data!dataVars, Chart!chartVars,
            Controller!controllerVars, Gui!settingsVars
<1>1. CASE UNCHANGED allVars
    BY <1>1 DEF allVars
<1>2. CASE Only("manager") /\ Next
    BY <1>2 DEF Only
<1>3. CASE Only("client") /\ Client!Next
    BY <1>3 DEF Only
<1>4. CASE Only("data") /\ Data!Next
    BY <1>4 DEF Only
<1>5. CASE Only("chart") /\ Chart!Next
    BY <1>5 DEF Only
<1>6. CASE Only("controller") /\ Controller!Next
    BY <1>6 DEF Only
<1>7. CASE Only("settings") /\ Gui!Next
    BY <1>7 DEF Only
<1> QED BY <1>1, <1>2, <1>3, <1>4, <1>5, <1>6, <1>7 DEF MCNext

\* What the graphical application keeps, for any devices, values and settings and any
\* number of readings, points, calls and failures: SensorClient's server sends data of
\* the devices subscribed to on this connection and of no others, DataManager keeps no
\* reading twice, ChartModel shows the youngest points within its range until a view
\* or an automatic range stops its thread, DeviceController scans once at a time, and
\* settings that SettingsManager holds clean are the file's, or the file is truncated.
THEOREM GuiKept == MCFairSpec => []GuiHolds
<1> DEFINE GInv == /\ ClientInv /\ DataInv /\ ChartInv
                   /\ Controller!OneScan /\ Gui!CleanIsSaved
<1>1. MCInit => GInv
    BY ClientInit, DataInit, ChartInit, OneScanKept, CleanKept DEF MCInit
<1>2. GInv /\ [MCNext]_allVars => GInv'
    BY HostSteps, ClientStep, DataStep, ChartStep, OneScanKept, CleanKept
<1>3. GInv => GuiHolds
    BY DataHolds, ChartHolds DEF ClientInv, GuiHolds
<1> QED BY <1>1, <1>2, <1>3, PTL DEF MCFairSpec
=============================================================================
