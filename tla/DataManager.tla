------------------------------ MODULE DataManager ------------------------------
(***************************************************************************)
(* The GUI's DataManager: the history of each device, kept by the event    *)
(* loop and by the two threads of its pool, and the file it is saved to.   *)
(*                                                                         *)
(* A reading is a number, counted as the event loop makes them.  The pool  *)
(* hands out its tasks in order (module ThreadPool); m_mutex serialises    *)
(* what its threads and the event loop do with the history.                *)
(***************************************************************************)
EXTENDS Naturals, Sequences, SequencesExt

CONSTANTS Devices, OwnDevice,     \* "sensor-001", whose data the manager makes up
          PoolThreads,            \* the threads of m_threadPool
          MaxHistory,             \* MAX_HISTORY_SIZE
          MaxReadings             \* bound on the readings

DataAssumption ==
    /\ IsFiniteSet(Devices) /\ OwnDevice \in Devices
    /\ MaxHistory \in Nat \ {0} /\ MaxReadings \in Nat

VARIABLES updating,      \* whether m_updateTimer runs
          readings,      \* the readings so far
          tasks, task,   \* the pool's tasks, and the one of each thread; 0 is none
          history, dataPoints,
          file           \* what the file holds; <<>> if there is none
dataVars == <<updating, readings, tasks, task, history, dataPoints, file>>
pool == <<tasks, task>>
store == <<history, dataPoints>>

NoHistory == [d \in Devices |-> <<>>]

Init ==
    /\ updating = FALSE /\ readings = 0
    /\ tasks = <<>> /\ task = [w \in PoolThreads |-> 0]
    /\ history = NoHistory /\ dataPoints = 0 /\ file = <<>>

-----------------------------------------------------------------------------
\* Mutant of ProcessSensorData: one reading too many is kept.
ProcessKeepsMore(d, r) ==
    LET all == Append(history[d], r) IN
    /\ history' = [history EXCEPT ![d] =
           SubSeq(all, IF Len(all) > MaxHistory + 1 THEN 2 ELSE 1, Len(all))]
    /\ dataPoints' = Len(history'[d])

\* The reading goes to the end; at most MAX_HISTORY_SIZE stay.
ProcessSensorData(d, r) ==
    LET all  == Append(history[d], r)
        over == IF Len(all) > MaxHistory THEN Len(all) - MaxHistory ELSE 0 IN
    /\ history' = [history EXCEPT ![d] = SubSeq(all, over + 1, Len(all))]
    /\ dataPoints' = Len(history'[d])

StartUpdates == ~ updating /\ updating' = TRUE
                /\ UNCHANGED <<readings, pool, store, file>>
StopUpdates  == updating /\ updating' = FALSE
                /\ UNCHANGED <<readings, pool, store, file>>

\* updateData(), by the timer or by a view: a reading for the pool to store.
UpdateData ==
    /\ readings < MaxReadings /\ readings' = readings + 1
    /\ tasks' = Append(tasks, readings')
    /\ UNCHANGED <<updating, task, store, file>>

TakeTask(w) ==
    /\ task[w] = 0 /\ tasks # <<>>
    /\ task' = [task EXCEPT ![w] = Head(tasks)] /\ tasks' = Tail(tasks)
    /\ UNCHANGED <<updating, readings, store, file>>

\* A pool thread has the mutex; another may have overtaken it.
StoreTask(w) ==
    /\ task[w] # 0
    /\ ProcessSensorData(OwnDevice, task[w])
    /\ task' = [task EXCEPT ![w] = 0]
    /\ UNCHANGED <<updating, readings, tasks, file>>

\* handleDeviceData(): the event loop stores a device's reading itself.
HandleDeviceData(d) ==
    /\ readings < MaxReadings /\ readings' = readings + 1
    /\ ProcessSensorData(d, readings')
    /\ UNCHANGED <<updating, pool, file>>

ClearHistory ==
    /\ history # NoHistory
    /\ history' = NoHistory /\ dataPoints' = 0
    /\ UNCHANGED <<updating, readings, pool, file>>

\* saveData(), when the file opens; there is nothing to see when it does not.
SaveData ==
    /\ file' = <<history>>
    /\ UNCHANGED <<updating, readings, pool, store>>

\* loadData() replaces the history and counts the devices, not their readings.
LoadData ==
    /\ file # <<>>
    /\ history' = file[1]
    /\ dataPoints' = Cardinality({d \in Devices : history'[d] # <<>>})
    /\ UNCHANGED <<updating, readings, pool, file>>

Next == \/ StartUpdates \/ StopUpdates \/ UpdateData
        \/ \E w \in PoolThreads : TakeTask(w) \/ StoreTask(w)
        \/ \E d \in Devices : HandleDeviceData(d)
        \/ ClearHistory \/ SaveData \/ LoadData

Fairness == \A w \in PoolThreads : WF_dataVars(TakeTask(w) \/ StoreTask(w))

-----------------------------------------------------------------------------
\* getHistory(deviceId, count): the last count readings.
GetHistory(d, count) ==
    LET n == Len(history[d]) IN
    SubSeq(history[d], (IF n > count THEN n - count ELSE 0) + 1, n)

\* Whatever is cleared, saved, loaded and stored by the pool meanwhile, no reading
\* is in a history twice, none is in a history and still to be stored, no history
\* exceeds its limit, and the count of data points is 0 only when there is no data.
HistoryKept ==
    LET pending == ToSet(tasks) \cup {task[w] : w \in PoolThreads} IN
    /\ \A d \in Devices : /\ IsInjective(history[d])
                          /\ Len(history[d]) <= MaxHistory
                          /\ ToSet(history[d]) \cap pending = {}
                          /\ GetHistory(d, MaxHistory) = history[d]
    /\ dataPoints = 0 <=> history = NoHistory

\* The pool stores every reading it was given.
TasksDrain == \A r \in 1 .. MaxReadings : r \in ToSet(tasks) ~>
                  r \notin ToSet(tasks) /\ \A w \in PoolThreads : task[w] # r
=============================================================================
