------------------------------ MODULE ThreadPool ------------------------------
(***************************************************************************)
(* common::utils::ThreadPool: a fixed set of worker threads that take      *)
(* tasks from one priority queue.  One mutex, queueMutex, protects the     *)
(* queue; one condition variable, condition, is shared by the workers that *)
(* wait for a task and by the callers of waitAll() that wait for an idle   *)
(* pool.  stopped, stopNowFlag, activeTasks and maxQueueSize are atomics   *)
(* that are also written without the mutex.                                *)
(*                                                                         *)
(* A step is what a thread does between two points where another thread    *)
(* can interfere.  A stretch under queueMutex is one step when no unlocked *)
(* write of an atomic can come between its parts and change the outcome;   *)
(* where one can (a condition evaluated, then acted on) there are two.     *)
(***************************************************************************)
EXTENDS Naturals, FiniteSets

CONSTANTS
    Worker,   \* the threads the constructor starts
    Submitter, \* the threads that call submit(), submitPriority(), ...
    Waiter,   \* the threads that call waitAll(); one may do both
    Task,     \* the tasks the clients will hand over, each at most once
    Prio,     \* the priority of each task (0 unless submitPriority())
    Timed,    \* the tasks handed over with submitWithTimeout()
    Limits,   \* the values maxQueueSize takes
    None      \* no thread, no task

\* The threads that use the pool without owning it.
Client == Submitter \cup Waiter

ASSUME ThreadPoolAssumption ==
    /\ Worker \cap Client = {}
    /\ None \notin Worker \cup Client \cup Task
    /\ Prio \in [Task -> Nat]
    /\ Timed \subseteq Task
    /\ Limits \subseteq Nat
    /\ Limits # {}
    /\ IsFiniteSet(Worker)

VARIABLES
    lock, waiting,        \* queueMutex's holder, the threads in condition.wait()
    stopped, stopNowFlag, maxQueueSize, activeTasks,
    status,               \* what became of each task
    enqueueTime, clock,   \* steady_clock as read under the mutex; 0: not yet
    wpc, job,             \* per worker: where it is, the task it holds
    cpc, arg,             \* per client: where it is, the task it hands over
    opc                   \* where the owner is in stop() or stopNow()

flags      == <<stopped, stopNowFlag, maxQueueSize>>
taskVars   == <<status, enqueueTime, clock>>
workerVars == <<wpc, job, activeTasks>>
clientVars == <<cpc, arg>>
vars == <<lock, waiting, flags, taskVars, workerVars, clientVars, opc>>

\* The contents of std::priority_queue<Task> tasks.
Queued == {t \in Task : status[t] = "queued"}

\* Mutant of Precedes: the comparison of enqueueTime the wrong way round.
YoungerFirst(s, t) ==
    \/ Prio[s] > Prio[t]
    \/ Prio[s] = Prio[t] /\ enqueueTime[s] > enqueueTime[t]

\* Task::operator<, seen from the winner: a higher priority first, among
\* equals the older one.
Precedes(s, t) ==
    \/ Prio[s] > Prio[t]
    \/ Prio[s] = Prio[t] /\ enqueueTime[s] < enqueueTime[t]

\* tasks.top(); among tasks that compare equal it is any of them.
Top == {t \in Queued : \A s \in Queued : ~ Precedes(s, t)}

Init ==
    /\ lock = None /\ waiting = {}
    /\ stopped = FALSE /\ stopNowFlag = FALSE
    /\ maxQueueSize \in Limits /\ activeTasks = 0
    /\ status = [t \in Task |-> "new"]
    /\ enqueueTime = [t \in Task |-> 0] /\ clock = 1
    /\ wpc = [w \in Worker |-> "loop"] /\ job = [w \in Worker |-> None]
    /\ cpc = [c \in Client |-> "idle"] /\ arg = [c \in Client |-> None]
    /\ opc = "running"

-----------------------------------------------------------------------------
(* The mutex and the condition variable.                                   *)

\* t, notified if it had been waiting, may take the mutex.
Free(t) == lock = None /\ t \notin waiting

\* condition.wait() releases the mutex and blocks t in one step.
BlockThread(t) == lock' = None /\ waiting' = waiting \cup {t}

\* condition.notify_one(): any one waiter, worker or waitAll() caller.
NotifyOne ==
    \/ waiting = {} /\ UNCHANGED waiting
    \/ \E t \in waiting : waiting' = waiting \ {t}

\* condition.wait() may return without a notification.
SpuriousWakeup ==
    /\ \E t \in waiting : waiting' = waiting \ {t}
    /\ UNCHANGED <<lock, flags, taskVars, workerVars, clientVars, opc>>

-----------------------------------------------------------------------------
(* Workers: workerLoop(), popTask(), processTask().                        *)

WorkerStep(w, from, to) ==
    /\ wpc[w] = from
    /\ wpc' = [wpc EXCEPT ![w] = to]
    /\ UNCHANGED <<flags, clientVars, opc>>

\* while (!stopped || !tasks.empty()), evaluated without the mutex.
LoopTest(w) ==
    /\ WorkerStep(w, "loop", IF stopped /\ Queued = {} THEN "exited" ELSE "get")
    /\ UNCHANGED <<lock, waiting, taskVars, job, activeTasks>>

\* Mutant of TakeTask: top() without pop().
TakeWithoutPop(w) ==
    /\ WorkerStep(w, "get", "start")
    /\ Free(w) /\ ~stopNowFlag
    /\ \E t \in Top : job' = [job EXCEPT ![w] = t]
    /\ UNCHANGED <<lock, waiting, taskVars, activeTasks>>

\* popTask() takes the top of the queue.
TakeTask(w) ==
    /\ WorkerStep(w, "get", "start")
    /\ Free(w) /\ ~stopNowFlag
    /\ \E t \in Top : /\ status' = [status EXCEPT ![t] = "popped"]
                      /\ job' = [job EXCEPT ![w] = t]
    /\ UNCHANGED <<lock, waiting, enqueueTime, clock, activeTasks>>

\* popTask() returns false: the pool is being stopped.
GiveUp(w) ==
    /\ WorkerStep(w, "get", "loop")
    /\ Free(w)
    /\ stopNowFlag \/ (stopped /\ Queued = {})
    /\ UNCHANGED <<lock, waiting, taskVars, job, activeTasks>>

\* popTask() evaluates the wait predicate to false, under the mutex ...
FindNothing(w) ==
    /\ WorkerStep(w, "get", "block")
    /\ Free(w) /\ lock' = w
    /\ Queued = {} /\ ~stopped /\ ~stopNowFlag
    /\ UNCHANGED <<waiting, taskVars, job, activeTasks>>

\* ... and blocks.
Block(w) ==
    /\ WorkerStep(w, "block", "get")
    /\ BlockThread(w)
    /\ UNCHANGED <<taskVars, job, activeTasks>>

\* processTask() counts the task as active only after the mutex is released.
Start(w) ==
    /\ WorkerStep(w, "start", "run")
    /\ activeTasks' = activeTasks + 1
    /\ status' = [status EXCEPT ![job[w]] = "running"]
    /\ UNCHANGED <<lock, waiting, enqueueTime, clock, job>>

\* Mutant of Process: the early return of a timed-out task counts down, and
\* so does the end of processTask().
ProcessCountsTwice(w) ==
    /\ WorkerStep(w, "run", "finish")
    /\ \/ /\ status' = [status EXCEPT ![job[w]] = "done"]
          /\ UNCHANGED activeTasks
       \/ /\ job[w] \in Timed
          /\ status' = [status EXCEPT ![job[w]] = "skipped"]
          /\ activeTasks' = activeTasks - 1
    /\ UNCHANGED <<lock, waiting, enqueueTime, clock, job>>

\* The task ends, or throws: both are caught and counted alike.  A task with a
\* timeout is skipped when it waited too long in the queue.
Process(w) ==
    /\ WorkerStep(w, "run", "finish")
    /\ \/ status' = [status EXCEPT ![job[w]] = "done"]
       \/ job[w] \in Timed /\ status' = [status EXCEPT ![job[w]] = "skipped"]
    /\ UNCHANGED <<lock, waiting, enqueueTime, clock, job, activeTasks>>

\* activeTasks--, and nobody is notified.
Finish(w) ==
    /\ WorkerStep(w, "finish", "loop")
    /\ activeTasks' = activeTasks - 1
    /\ job' = [job EXCEPT ![w] = None]
    /\ UNCHANGED <<lock, waiting, taskVars>>

-----------------------------------------------------------------------------
(* Clients: submit(), submitPriority(), submitWithTimeout(), waitAll().    *)

ClientStep(c, from, to) ==
    /\ cpc[c] = from
    /\ cpc' = [cpc EXCEPT ![c] = to]
    /\ UNCHANGED <<flags, workerVars, opc>>

\* The two throws of submit*(): stopped, or the queue full.
Refuse(c, t) ==
    /\ ClientStep(c, "idle", "idle")
    /\ lock = None /\ status[t] = "new"
    /\ stopped \/ stopNowFlag \/ Cardinality(Queued) >= maxQueueSize
    /\ status' = [status EXCEPT ![t] = "refused"]
    /\ UNCHANGED <<lock, waiting, enqueueTime, clock, arg>>

\* submit*() between its checks and its push.
Accept(c, t) ==
    /\ ClientStep(c, "idle", "push")
    /\ lock = None /\ lock' = c
    /\ status[t] = "new"
    /\ arg' = [arg EXCEPT ![c] = t]
    /\ UNCHANGED <<waiting, taskVars>>

\* Mutant of Submit: the bound is off by one.
SubmitOneMore(c, t) ==
    ~stopped /\ ~stopNowFlag /\ Cardinality(Queued) <= maxQueueSize /\ Accept(c, t)

\* Mutant of Submit: only stopped is tested, not stopNowFlag.
SubmitAfterStopNow(c, t) ==
    ~stopped /\ Cardinality(Queued) < maxQueueSize /\ Accept(c, t)

\* Both checks pass, under the mutex ...
Submit(c, t) ==
    /\ ~stopped /\ ~stopNowFlag
    /\ Cardinality(Queued) < maxQueueSize
    /\ Accept(c, t)

\* ... then the task is pushed whatever became of stopped in between; the
\* clock may or may not have moved on when the next one reads it ...
Push(c) ==
    /\ ClientStep(c, "push", "notify")
    /\ status' = [status EXCEPT ![arg[c]] = "queued"]
    /\ enqueueTime' = [enqueueTime EXCEPT ![arg[c]] = clock]
    /\ clock' \in {clock, clock + 1}
    /\ lock' = None
    /\ UNCHANGED <<waiting, arg>>

\* Mutant of Notify: notify_one() forgotten.
NotifyNobody(c) ==
    /\ ClientStep(c, "notify", "idle")
    /\ arg' = [arg EXCEPT ![c] = None]
    /\ UNCHANGED <<lock, waiting, taskVars>>

\* ... and one waiter is notified, after the mutex is released.
Notify(c) ==
    /\ ClientStep(c, "notify", "idle")
    /\ NotifyOne
    /\ arg' = [arg EXCEPT ![c] = None]
    /\ UNCHANGED <<lock, taskVars>>

\* waitAll() is called.
WaitAll(c) ==
    /\ ClientStep(c, "idle", "await")
    /\ UNCHANGED <<lock, waiting, taskVars, arg>>

\* Mutant of WaitAllReturn: an empty queue is taken for an idle pool.
WaitAllIgnoresActive(c) ==
    /\ ClientStep(c, "await", "idle")
    /\ Free(c) /\ Queued = {}
    /\ UNCHANGED <<lock, waiting, taskVars, arg>>

\* Its predicate holds: it returns.
WaitAllReturn(c) ==
    /\ ClientStep(c, "await", "idle")
    /\ Free(c) /\ Queued = {} /\ activeTasks = 0
    /\ UNCHANGED <<lock, waiting, taskVars, arg>>

\* Its predicate is false under the mutex ...
WaitAllCheck(c) ==
    /\ ClientStep(c, "await", "awaitBlock")
    /\ Free(c) /\ ~(Queued = {} /\ activeTasks = 0)
    /\ lock' = c
    /\ UNCHANGED <<waiting, taskVars, arg>>

\* ... and it blocks.
WaitAllBlock(c) ==
    /\ ClientStep(c, "awaitBlock", "await")
    /\ BlockThread(c)
    /\ UNCHANGED <<taskVars, arg>>

-----------------------------------------------------------------------------
(* The owner: setMaxQueueSize(), stop(), stopNow(), the destructor.        *)

OwnerStep(from, to) ==
    /\ opc \in from /\ opc' = to
    /\ UNCHANGED <<lock, enqueueTime, clock, workerVars, clientVars>>

SetMaxQueueSize(n) ==
    /\ OwnerStep({"running"}, "running")
    /\ maxQueueSize' = n
    /\ UNCHANGED <<waiting, stopped, stopNowFlag, status>>

\* stopNow() raises its flag, without the mutex ...
StopNow ==
    /\ OwnerStep({"running"}, "draining")
    /\ stopNowFlag' = TRUE
    /\ UNCHANGED <<waiting, stopped, maxQueueSize, status>>

\* Mutant of Drain: without the mutex.
DrainUnlocked ==
    /\ OwnerStep({"draining"}, "drained")
    /\ status' = [t \in Task |-> IF t \in Queued THEN "cancelled" ELSE status[t]]
    /\ UNCHANGED <<waiting, flags>>

\* ... empties the queue under it ...
Drain ==
    /\ OwnerStep({"draining"}, "drained")
    /\ lock = None
    /\ status' = [t \in Task |-> IF t \in Queued THEN "cancelled" ELSE status[t]]
    /\ UNCHANGED <<waiting, flags>>

\* ... and notifies everyone, before it calls stop().
WakeDrained ==
    /\ OwnerStep({"drained"}, "stop")
    /\ waiting' = {}
    /\ UNCHANGED <<flags, status>>

\* stop() raises its flag without taking the mutex ...
Stop ==
    /\ OwnerStep({"running", "stop"}, "stopping")
    /\ stopped' = TRUE
    /\ UNCHANGED <<waiting, stopNowFlag, maxQueueSize, status>>

\* ... notifies everyone ...
StopNotify ==
    /\ OwnerStep({"stopping"}, "joining")
    /\ waiting' = {}
    /\ UNCHANGED <<flags, status>>

\* Mutant of Join: one worker has exited, not all.
JoinOne ==
    /\ OwnerStep({"joining"}, "joined")
    /\ \E w \in Worker : wpc[w] = "exited"
    /\ UNCHANGED <<waiting, flags, status>>

\* ... and joins the workers.
Join ==
    /\ OwnerStep({"joining"}, "joined")
    /\ \A w \in Worker : wpc[w] = "exited"
    /\ UNCHANGED <<waiting, flags, status>>

-----------------------------------------------------------------------------
Lockers(w) == TakeTask(w) \/ GiveUp(w) \/ FindNothing(w)
Movers(w)  == LoopTest(w) \/ Block(w) \/ Start(w) \/ Process(w) \/ Finish(w)

ClientLocks(c) == WaitAllReturn(c) \/ WaitAllCheck(c)
ClientMoves(c) == Push(c) \/ Notify(c) \/ WaitAllBlock(c)

OwnerMoves == WakeDrained \/ (opc = "stop" /\ Stop) \/ StopNotify \/ Join

Next ==
    \/ \E w \in Worker : Lockers(w) \/ Movers(w)
    \/ \E c \in Client : ClientLocks(c) \/ ClientMoves(c)
    \/ \E c \in Waiter : WaitAll(c)
    \/ \E c \in Submitter, t \in Task : Submit(c, t) \/ Refuse(c, t)
    \/ \E n \in Limits : SetMaxQueueSize(n)
    \/ StopNow \/ Drain \/ WakeDrained \/ Stop \/ StopNotify \/ Join
    \/ SpuriousWakeup

Spec == Init /\ [][Next]_vars

\* Threads that run keep running (and every task ends); a thread that wants
\* the mutex again and again when it is free gets it at last.  Nobody has to
\* call an operation, and no spurious wake-up has to happen.
Fairness ==
    /\ \A w \in Worker : WF_vars(Movers(w)) /\ SF_vars(Lockers(w))
    /\ \A c \in Client : WF_vars(ClientMoves(c)) /\ SF_vars(ClientLocks(c))
    /\ WF_vars(OwnerMoves) /\ SF_vars(Drain)

FairSpec == Spec /\ Fairness

-----------------------------------------------------------------------------
(* What the pool promises.                                                 *)

TypeOK ==
    /\ lock \in Worker \cup Client \cup {None}
    /\ waiting \subseteq Worker \cup Client
    /\ stopped \in BOOLEAN /\ stopNowFlag \in BOOLEAN
    /\ activeTasks \in Nat
    /\ maxQueueSize \in Limits
    /\ status \in [Task -> {"new", "queued", "popped", "running", "done",
                           "skipped", "cancelled", "refused"}]
    /\ enqueueTime \in [Task -> Nat]
    /\ clock \in Nat \ {0}
    /\ wpc \in [Worker -> {"loop", "get", "block", "start", "run", "finish",
                           "exited"}]
    /\ job \in [Worker -> Task \cup {None}]
    /\ cpc \in [Client -> {"idle", "push", "notify", "await", "awaitBlock"}]
    /\ arg \in [Client -> Task \cup {None}]
    /\ opc \in {"running", "draining", "drained", "stop", "stopping",
                "joining", "joined"}

\* Every task taken from the queue and not yet ended is held by a worker, and
\* no task is held by two: popTask() hands each task to exactly one worker.
TaskHeldOnce ==
    /\ \A t \in Task : status[t] \in {"popped", "running"} =>
          \E w \in Worker : job[w] = t /\ wpc[w] \in {"start", "run"}
    /\ \A v, w \in Worker : job[v] = job[w] /\ job[v] # None => v = w

\* Tasks of one priority leave the queue in the order they entered it, however
\* many clients and workers there are (Task::operator<, "Older tasks first");
\* only tasks that read the same time may change places.
FifoAmongEquals ==
    \A s, t \in Task :
       /\ Prio[s] = Prio[t]
       /\ 0 < enqueueTime[s] /\ enqueueTime[s] < enqueueTime[t]
       /\ status[t] \in {"popped", "running", "done", "skipped"}
       => status[s] # "queued"

\* submit*() never lets the queue grow past the largest limit that was ever
\* set, with any number of clients between their check and their push.
QueueBounded ==
    \E n \in Limits : Cardinality(Queued) <= n

\* Once stopNow() has emptied the queue it stays empty: a submit() that saw
\* the flag down pushed before the drain, any later one is refused.
DrainedForGood ==
    opc # "running" /\ opc # "draining" /\ stopNowFlag => Queued = {}

\* When stop() has joined the workers no task is being executed and none is
\* counted as active.
QuietAfterJoin ==
    opc = "joined" =>
       /\ activeTasks = 0
       /\ \A t \in Task : status[t] \notin {"popped", "running"}

\* "Wait for all tasks to complete" (ThreadPool.h:60) holds of all tasks but some:
\* when waitAll() returns, a task that has been accepted and has not ended is in the
\* hands of a worker that has popped it under the mutex and not counted it yet, so
\* that waitAll() misses at most one task per worker, and none that was queued or
\* being executed.
WaitAllMissesPopped ==
    [][ \A c \in Client : cpc[c] = "await" /\ cpc'[c] = "idle" =>
          \A t \in Task : status[t] \in {"queued", "popped", "running"} =>
             \E w \in Worker : job[w] = t /\ wpc[w] = "start" ]_vars

\* Accepted tasks are eventually all executed, skipped or cancelled, unless
\* the pool is being stopped or a waitAll() caller sits on the shared condition
\* variable, where it can swallow the one notification of submit*().
AcceptedIsServed ==
    []<>(\/ \A t \in Task : status[t] \notin {"queued", "popped", "running"}
         \/ stopped
         \/ waiting \cap Client # {})

\* stopNow() returns: taking the mutex to drain the queue makes every worker
\* that saw the flag down block before the notification.
StopNowReturns == stopNowFlag ~> opc = "joined"

\* "Stop the thread pool (waits for all tasks)" (ThreadPool.h): stop() returns.
StopReturns == stopped ~> opc = "joined"

\* "Wait for all tasks to complete" (ThreadPool.h): a waitAll() caller returns
\* once every task has ended.
WaitAllReturns ==
    \A c \in Waiter :
       /\ cpc[c] = "await"
       /\ \A t \in Task : status[t] \in {"done", "skipped", "cancelled", "refused"}
       ~> cpc[c] = "idle"
=============================================================================
