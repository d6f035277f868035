--------------------------- MODULE ThreadPoolProofs ---------------------------
(***************************************************************************)
(* The safety properties of ThreadPool hold for every number of workers,   *)
(* clients and tasks and every queue bound.  None of them is inductive by  *)
(* itself: what a worker holds, what a client is about to push and who has *)
(* the mutex tie them together in IInv.                                    *)
(***************************************************************************)
EXTENDS ThreadPool, FiniteSetTheorems, TLAPS

\* The workers processTask() has counted.
Active == {w \in Worker : wpc[w] \in {"run", "finish"}}

\* A worker holds a task exactly from popTask() to the end of processTask().
Held ==
    /\ \A w \in Worker :
          /\ job[w] # None <=> wpc[w] \in {"start", "run", "finish"}
          /\ wpc[w] = "start" => status[job[w]] = "popped"
          /\ wpc[w] = "run" => status[job[w]] = "running"
          /\ wpc[w] = "finish" => status[job[w]] \in {"done", "skipped"}
    /\ TaskHeldOnce

Counted == activeTasks = Cardinality(Active)

\* The mutex is held exactly where the code is under it.
Locked ==
    /\ \A w \in Worker : wpc[w] = "block" <=> lock = w
    /\ \A c \in Client : cpc[c] \in {"push", "awaitBlock"} <=> lock = c

\* A client about to push has passed both checks, and the queue has not grown
\* since.
Pushing ==
    \A c \in Client : cpc[c] = "push" =>
       /\ arg[c] \in Task /\ status[arg[c]] = "new"
       /\ \E n \in Limits : Cardinality(Queued) < n
       /\ stopNowFlag => opc = "draining"

\* enqueueTime follows the order of the pushes.
Ordered ==
    /\ \A t \in Task : /\ enqueueTime[t] <= clock
                       /\ enqueueTime[t] = 0 <=> status[t] \in {"new", "refused"}
    /\ FifoAmongEquals

Stopping ==
    /\ opc = "running" => ~stopNowFlag
    /\ DrainedForGood
    /\ opc = "joined" => \A w \in Worker : wpc[w] = "exited"

Bounded == IsFiniteSet(Queued) /\ QueueBounded

IInv == TypeOK /\ Held /\ Counted /\ Locked /\ Pushing /\ Ordered
           /\ Stopping /\ Bounded

-----------------------------------------------------------------------------
\* How each step changes the queue: a push adds one task, popTask() and the
\* drain take tasks away, nothing else touches it.
LEMMA QueueChange ==
  ASSUME IInv, [Next]_vars
  PROVE  \/ Queued' \subseteq Queued
         \/ \E c \in Client : /\ cpc[c] = "push" /\ lock' = None
                              /\ Queued' = Queued \cup {arg[c]}
                              /\ arg[c] \notin Queued
<1> USE ThreadPoolAssumption DEF IInv, TypeOK, Held, Pushing, Queued,
           flags, taskVars, workerVars, clientVars
<1>1. ASSUME NEW w \in Worker, Lockers(w) \/ Movers(w)
      PROVE  Queued' \subseteq Queued
  BY <1>1 DEF Lockers, Movers, LoopTest, TakeTask, GiveUp, FindNothing, Block,
              Start, Process, Finish, WorkerStep, Free, BlockThread, Top
<1>2. ASSUME NEW c \in Client, Push(c)
      PROVE  /\ cpc[c] = "push" /\ lock' = None
             /\ Queued' = Queued \cup {arg[c]}
             /\ arg[c] \notin Queued
  BY <1>2 DEF Push, ClientStep
<1>3. ASSUME NEW c \in Client, \/ ClientLocks(c) \/ Notify(c) \/ WaitAllBlock(c)
                              \/ WaitAll(c)
      PROVE  Queued' \subseteq Queued
  BY <1>3 DEF ClientLocks, Notify, WaitAllReturn, WaitAllCheck, WaitAllBlock,
              WaitAll, ClientStep, Free, BlockThread
<1>4. ASSUME NEW c \in Submitter, NEW t \in Task, Submit(c, t) \/ Refuse(c, t)
      PROVE  Queued' \subseteq Queued
  BY <1>4 DEF Submit, Accept, Refuse, ClientStep, Client
<1>5. ASSUME \/ \E n \in Limits : SetMaxQueueSize(n)
             \/ StopNow \/ Drain \/ WakeDrained \/ Stop \/ StopNotify \/ Join
             \/ SpuriousWakeup \/ UNCHANGED vars
      PROVE  Queued' \subseteq Queued
  BY <1>5 DEF SetMaxQueueSize, StopNow, Drain, WakeDrained, Stop, StopNotify,
              Join, OwnerStep, SpuriousWakeup, vars
<1>6. QED
  BY <1>1, <1>2, <1>3, <1>4, <1>5 DEF Next, ClientMoves, Client

\* A task changes hands only between the queue and one worker.
LEMMA HeldStep == IInv /\ [Next]_vars => Held'
<1> SUFFICES ASSUME IInv, [Next]_vars PROVE Held'
  OBVIOUS
<1> USE ThreadPoolAssumption DEF IInv, TypeOK, Held, TaskHeldOnce, Pushing, Queued,
           flags, taskVars, workerVars, clientVars
<1>1. ASSUME NEW w \in Worker, Lockers(w) \/ Movers(w)
      PROVE  Held'
  BY <1>1 DEF Lockers, Movers, LoopTest, TakeTask, GiveUp, FindNothing, Block,
              Start, Process, Finish, WorkerStep, Free, BlockThread, Top
<1>2. ASSUME NEW c \in Client, ClientLocks(c) \/ ClientMoves(c)
      PROVE  Held'
  BY <1>2 DEF ClientLocks, ClientMoves, Push, Notify, NotifyOne, WaitAllReturn,
              WaitAllCheck, WaitAllBlock, ClientStep, Free, BlockThread
<1>3. ASSUME NEW c \in Submitter, NEW t \in Task, Submit(c, t) \/ Refuse(c, t)
      PROVE  Held'
  BY <1>3 DEF Submit, Accept, Refuse, ClientStep, Client
<1>4. ASSUME \/ \E n \in Limits : SetMaxQueueSize(n)
             \/ StopNow \/ Drain \/ WakeDrained \/ Stop \/ StopNotify \/ Join
      PROVE  Held'
  BY <1>4 DEF SetMaxQueueSize, StopNow, Drain, WakeDrained, Stop, StopNotify,
              Join, OwnerStep
<1>5. ASSUME (\E c \in Waiter : WaitAll(c)) \/ SpuriousWakeup \/ UNCHANGED vars
      PROVE  Held'
  BY <1>5 DEF WaitAll, ClientStep, Client, SpuriousWakeup, vars
<1>6. QED
  BY <1>1, <1>2, <1>3, <1>4, <1>5 DEF Next

\* Each thread takes and gives back the mutex where its program counter says.
LEMMA LockedStep == IInv /\ [Next]_vars => Locked'
<1> SUFFICES ASSUME IInv, [Next]_vars PROVE Locked'
  OBVIOUS
<1> USE ThreadPoolAssumption DEF IInv, TypeOK, Locked,
           flags, taskVars, workerVars, clientVars
<1>1. ASSUME NEW w \in Worker, Lockers(w) \/ Movers(w)
      PROVE  Locked'
  BY <1>1 DEF Lockers, Movers, LoopTest, TakeTask, GiveUp, FindNothing, Block,
              Start, Process, Finish, WorkerStep, Free, BlockThread, Top
<1>2. ASSUME NEW c \in Client, ClientLocks(c) \/ ClientMoves(c)
      PROVE  Locked'
  BY <1>2 DEF ClientLocks, ClientMoves, Push, Notify, NotifyOne, WaitAllReturn,
              WaitAllCheck, WaitAllBlock, ClientStep, Free, BlockThread
<1>3. ASSUME NEW c \in Submitter, NEW t \in Task, Submit(c, t) \/ Refuse(c, t)
      PROVE  Locked'
  BY <1>3 DEF Submit, Accept, Refuse, ClientStep, Client
<1>4. ASSUME \/ \E n \in Limits : SetMaxQueueSize(n)
             \/ StopNow \/ Drain \/ WakeDrained \/ Stop \/ StopNotify \/ Join
      PROVE  Locked'
  BY <1>4 DEF SetMaxQueueSize, StopNow, Drain, WakeDrained, Stop, StopNotify,
              Join, OwnerStep
<1>5. ASSUME (\E c \in Waiter : WaitAll(c)) \/ SpuriousWakeup \/ UNCHANGED vars
      PROVE  Locked'
  BY <1>5 DEF WaitAll, ClientStep, Client, SpuriousWakeup, vars
<1>6. QED
  BY <1>1, <1>2, <1>3, <1>4, <1>5 DEF Next

\* A push gets the latest enqueueTime; popTask() takes the oldest of a priority.
LEMMA OrderedStep == IInv /\ [Next]_vars => Ordered'
<1> SUFFICES ASSUME IInv, [Next]_vars PROVE Ordered'
  OBVIOUS
<1> USE ThreadPoolAssumption DEF IInv, TypeOK, Ordered, FifoAmongEquals, Held, Pushing, Precedes, Queued,
           flags, taskVars, workerVars, clientVars
<1>1. ASSUME NEW w \in Worker, Lockers(w) \/ Movers(w)
      PROVE  Ordered'
  BY <1>1 DEF Lockers, Movers, LoopTest, TakeTask, GiveUp, FindNothing, Block,
              Start, Process, Finish, WorkerStep, Free, BlockThread, Top
<1>2. ASSUME NEW c \in Client, ClientLocks(c) \/ ClientMoves(c)
      PROVE  Ordered'
  BY <1>2 DEF ClientLocks, ClientMoves, Push, Notify, NotifyOne, WaitAllReturn,
              WaitAllCheck, WaitAllBlock, ClientStep, Free, BlockThread
<1>3. ASSUME NEW c \in Submitter, NEW t \in Task, Submit(c, t) \/ Refuse(c, t)
      PROVE  Ordered'
  BY <1>3 DEF Submit, Accept, Refuse, ClientStep, Client
<1>4. ASSUME \/ \E n \in Limits : SetMaxQueueSize(n)
             \/ StopNow \/ Drain \/ WakeDrained \/ Stop \/ StopNotify \/ Join
      PROVE  Ordered'
  BY <1>4 DEF SetMaxQueueSize, StopNow, Drain, WakeDrained, Stop, StopNotify,
              Join, OwnerStep
<1>5. ASSUME (\E c \in Waiter : WaitAll(c)) \/ SpuriousWakeup \/ UNCHANGED vars
      PROVE  Ordered'
  BY <1>5 DEF WaitAll, ClientStep, Client, SpuriousWakeup, vars
<1>6. QED
  BY <1>1, <1>2, <1>3, <1>4, <1>5 DEF Next

\* After the drain nobody is on the way to a push, so the queue stays empty.
LEMMA StoppingStep == IInv /\ [Next]_vars => Stopping'
<1> SUFFICES ASSUME IInv, [Next]_vars PROVE Stopping'
  OBVIOUS
<1> USE ThreadPoolAssumption DEF IInv, TypeOK, Stopping, DrainedForGood, Held, Pushing, Queued, Locked,
           flags, taskVars, workerVars, clientVars
<1>1. ASSUME NEW w \in Worker, Lockers(w) \/ Movers(w)
      PROVE  Stopping'
  BY <1>1 DEF Lockers, Movers, LoopTest, TakeTask, GiveUp, FindNothing, Block,
              Start, Process, Finish, WorkerStep, Free, BlockThread, Top
<1>2. ASSUME NEW c \in Client, ClientLocks(c) \/ ClientMoves(c)
      PROVE  Stopping'
  BY <1>2 DEF ClientLocks, ClientMoves, Push, Notify, NotifyOne, WaitAllReturn,
              WaitAllCheck, WaitAllBlock, ClientStep, Free, BlockThread
<1>3. ASSUME NEW c \in Submitter, NEW t \in Task, Submit(c, t) \/ Refuse(c, t)
      PROVE  Stopping'
  BY <1>3 DEF Submit, Accept, Refuse, ClientStep, Client
<1>4. ASSUME \/ \E n \in Limits : SetMaxQueueSize(n)
             \/ StopNow \/ Drain \/ WakeDrained \/ Stop \/ StopNotify \/ Join
      PROVE  Stopping'
  BY <1>4 DEF SetMaxQueueSize, StopNow, Drain, WakeDrained, Stop, StopNotify,
              Join, OwnerStep
<1>5. ASSUME (\E c \in Waiter : WaitAll(c)) \/ SpuriousWakeup \/ UNCHANGED vars
      PROVE  Stopping'
  BY <1>5 DEF WaitAll, ClientStep, Client, SpuriousWakeup, vars
<1>6. QED
  BY <1>1, <1>2, <1>3, <1>4, <1>5 DEF Next

\* What a client saw before its push stays true: the mutex keeps others out.
LEMMA PushingStep == IInv /\ [Next]_vars => Pushing'
<1> SUFFICES ASSUME IInv, [Next]_vars PROVE Pushing'
  OBVIOUS
<1> USE ThreadPoolAssumption DEF IInv, TypeOK, Held, Locked, Pushing, Stopping, Queued,
           flags, taskVars, workerVars, clientVars
<1>1. ASSUME NEW w \in Worker, Lockers(w) \/ Movers(w)
      PROVE  Pushing'
  BY <1>1 DEF Lockers, Movers, LoopTest, TakeTask, GiveUp, FindNothing, Block,
              Start, Process, Finish, WorkerStep, Free, BlockThread, Top
<1>2. ASSUME NEW c \in Client, ClientLocks(c) \/ ClientMoves(c)
      PROVE  Pushing'
  BY <1>2 DEF ClientLocks, ClientMoves, Push, Notify, NotifyOne, WaitAllReturn,
              WaitAllCheck, WaitAllBlock, ClientStep, Free, BlockThread
<1>3. ASSUME NEW c \in Submitter, NEW t \in Task, Submit(c, t) \/ Refuse(c, t)
      PROVE  Pushing'
  <2>1. CASE Submit(c, t)
    <3>1. /\ \A d \in Client : cpc'[d] = "push" => d = c
          /\ arg'[c] = t /\ status' = status /\ status[t] = "new"
          /\ ~stopNowFlag'
      BY <2>1 DEF Submit, Accept, ClientStep, Client
    <3>2. Queued' = Queued /\ Cardinality(Queued) < maxQueueSize
      BY <2>1, <3>1 DEF Submit
    <3>3. QED
      BY <3>1, <3>2
  <2>2. CASE Refuse(c, t)
    BY <2>2 DEF Refuse, ClientStep, Client
  <2>3. QED
    BY <1>3, <2>1, <2>2
<1>4. ASSUME \/ \E n \in Limits : SetMaxQueueSize(n)
             \/ StopNow \/ Drain \/ WakeDrained \/ Stop \/ StopNotify \/ Join
      PROVE  Pushing'
  BY <1>4 DEF SetMaxQueueSize, StopNow, Drain, WakeDrained, Stop, StopNotify,
              Join, OwnerStep
<1>5. ASSUME (\E c \in Waiter : WaitAll(c)) \/ SpuriousWakeup \/ UNCHANGED vars
      PROVE  Pushing'
  BY <1>5 DEF WaitAll, ClientStep, Client, SpuriousWakeup, vars
<1>6. QED
  BY <1>1, <1>2, <1>3, <1>4, <1>5 DEF Next

\* The queue is finite and within the bound: the only step that adds a task is
\* the push of a client that saw room for it.
LEMMA BoundedStep == IInv /\ [Next]_vars => Bounded'
<1> SUFFICES ASSUME IInv, [Next]_vars PROVE Bounded'
  OBVIOUS
<1> USE ThreadPoolAssumption DEF IInv, Bounded, QueueBounded
<1>1. CASE Queued' \subseteq Queued
  <2>1. IsFiniteSet(Queued') /\ Cardinality(Queued') <= Cardinality(Queued)
    BY <1>1, FS_Subset
  <2>2. PICK n \in Limits : Cardinality(Queued) <= n
    OBVIOUS
  <2>3. Cardinality(Queued') \in Nat /\ Cardinality(Queued) \in Nat /\ n \in Nat
    BY <2>1, FS_CardinalityType
  <2>4. Cardinality(Queued') <= n
    BY <2>1, <2>2, <2>3
  <2>5. QED
    BY <2>1, <2>4
<1>2. ASSUME NEW c \in Client, cpc[c] = "push",
             Queued' = Queued \cup {arg[c]}, arg[c] \notin Queued
      PROVE  Bounded'
  <2>1. PICK n \in Limits : Cardinality(Queued) < n
    BY <1>2 DEF Pushing
  <2>2. IsFiniteSet(Queued') /\ Cardinality(Queued') = Cardinality(Queued) + 1
    BY <1>2, FS_AddElement
  <2>3. Cardinality(Queued) \in Nat /\ n \in Nat
    BY FS_CardinalityType
  <2>4. Cardinality(Queued') <= n
    BY <2>1, <2>2, <2>3
  <2>5. QED
    BY <2>2, <2>4
<1>3. QED
  BY <1>1, <1>2, QueueChange

\* activeTasks counts the workers between activeTasks++ and activeTasks--.
LEMMA CountedStep == IInv /\ [Next]_vars => Counted'
<1> SUFFICES ASSUME IInv, [Next]_vars PROVE Counted'
  OBVIOUS
<1> USE ThreadPoolAssumption DEF IInv, Counted
<1>1. IsFiniteSet(Active)
  BY FS_Subset DEF Active
<1>2. ASSUME NEW w \in Worker, Start(w)
      PROVE  Counted'
  <2>1. Active' = Active \cup {w} /\ w \notin Active
    BY <1>2 DEF Start, WorkerStep, Active, TypeOK
  <2>2. activeTasks' = activeTasks + 1
    BY <1>2 DEF Start
  <2>3. QED
    BY <1>1, <2>1, <2>2, FS_AddElement
<1>3. ASSUME NEW w \in Worker, Finish(w)
      PROVE  Counted'
  <2>1. Active' = Active \ {w} /\ w \in Active
    BY <1>3 DEF Finish, WorkerStep, Active, TypeOK
  <2>2. activeTasks' = activeTasks - 1
    BY <1>3 DEF Finish
  <2>3. QED
    BY <1>1, <2>1, <2>2, FS_RemoveElement
<1>4. ASSUME NEW w \in Worker,
             \/ LoopTest(w) \/ Lockers(w) \/ Block(w) \/ Process(w)
      PROVE  UNCHANGED <<Active, activeTasks>>
  BY <1>4 DEF Lockers, LoopTest, TakeTask, GiveUp, FindNothing, Block, Process,
              WorkerStep, Active, TypeOK
<1>5. ASSUME \/ \E c \in Client : ClientLocks(c) \/ ClientMoves(c) \/ WaitAll(c)
             \/ \E c \in Submitter, t \in Task : Submit(c, t) \/ Refuse(c, t)
             \/ \E n \in Limits : SetMaxQueueSize(n)
             \/ StopNow \/ Drain \/ WakeDrained \/ Stop \/ StopNotify \/ Join
             \/ SpuriousWakeup \/ UNCHANGED vars
      PROVE  UNCHANGED <<Active, activeTasks>>
  BY <1>5 DEF ClientLocks, ClientMoves, Push, Notify, WaitAllReturn, WaitAll,
              WaitAllCheck, WaitAllBlock, ClientStep, Submit, Accept, Refuse,
              SetMaxQueueSize, StopNow, Drain, WakeDrained, Stop, StopNotify,
              Join, OwnerStep, SpuriousWakeup, vars, workerVars, Active
<1>6. QED
  BY <1>2, <1>3, <1>4, <1>5 DEF Next, Movers, Client

\* activeTasks-- never goes below zero: the finishing worker is counted.
LEMMA TypeStep == IInv /\ [Next]_vars => TypeOK'
<1> SUFFICES ASSUME IInv, [Next]_vars PROVE TypeOK'
  OBVIOUS
<1>0. activeTasks' \in Nat
  <2>1. Counted'
    BY CountedStep
  <2>2. IsFiniteSet(Active') /\ Active' \subseteq Worker
    BY ThreadPoolAssumption, FS_Subset DEF Active
  <2>3. Cardinality(Active') \in Nat
    BY <2>2, FS_CardinalityType
  <2>4. QED
    BY <2>1, <2>3 DEF Counted
<1> USE ThreadPoolAssumption DEF IInv, TypeOK, Held, Pushing, Queued,
           flags, taskVars, workerVars, clientVars
<1>1. ASSUME NEW w \in Worker, Lockers(w) \/ Movers(w)
      PROVE  TypeOK'
  <2>1. activeTasks' \in Nat
    BY <1>0
  <2>2. QED
    BY <1>1, <2>1 DEF Lockers, Movers, LoopTest, TakeTask, GiveUp, FindNothing, Block,
              Start, Process, Finish, WorkerStep, Free, BlockThread, Top
<1>2. ASSUME NEW c \in Client, ClientLocks(c) \/ ClientMoves(c)
      PROVE  TypeOK'
  BY <1>2 DEF ClientLocks, ClientMoves, Push, Notify, NotifyOne, WaitAllReturn,
              WaitAllCheck, WaitAllBlock, ClientStep, Free, BlockThread
<1>3. ASSUME NEW c \in Submitter, NEW t \in Task, Submit(c, t) \/ Refuse(c, t)
      PROVE  TypeOK'
  BY <1>3 DEF Submit, Accept, Refuse, ClientStep, Client
<1>4. ASSUME \/ \E n \in Limits : SetMaxQueueSize(n)
             \/ StopNow \/ Drain \/ WakeDrained \/ Stop \/ StopNotify \/ Join
      PROVE  TypeOK'
  <2>1. CASE Drain
    BY <2>1 DEF Drain, OwnerStep
  <2>2. CASE \E n \in Limits : SetMaxQueueSize(n)
    BY <2>2 DEF SetMaxQueueSize, OwnerStep
  <2>3. CASE StopNow
    BY <2>3 DEF StopNow, OwnerStep
  <2>4. CASE WakeDrained \/ StopNotify
    <3> HIDE DEF Held, Pushing, Queued
    <3> QED BY <2>4 DEF WakeDrained, StopNotify, OwnerStep
  <2>5. CASE Stop \/ Join
    <3> HIDE DEF Held, Pushing, Queued
    <3> QED BY <2>5 DEF Stop, Join, OwnerStep
  <2>6. QED
    BY <1>4, <2>1, <2>2, <2>3, <2>4, <2>5
<1>5. ASSUME (\E c \in Waiter : WaitAll(c)) \/ SpuriousWakeup \/ UNCHANGED vars
      PROVE  TypeOK'
  BY <1>5 DEF WaitAll, ClientStep, Client, SpuriousWakeup, vars
<1>6. QED
  BY <1>1, <1>2, <1>3, <1>4, <1>5 DEF Next

-----------------------------------------------------------------------------
\* The constructor's state satisfies IInv.
LEMMA InitIInv == Init => IInv
<1> SUFFICES ASSUME Init PROVE IInv
  OBVIOUS
<1> USE ThreadPoolAssumption DEF Init
<1>1. Queued = {} /\ Active = {}
  BY DEF Queued, Active
<1>2. IsFiniteSet({}) /\ Cardinality({}) = 0
  BY FS_EmptySet
<1>3. Bounded /\ Counted
  BY <1>1, <1>2 DEF Bounded, QueueBounded, Counted
<1>4. TypeOK /\ Held /\ Locked /\ Pushing /\ Ordered /\ Stopping
  <2>1. TypeOK
    <3>1. /\ lock \in Worker \cup Client \cup {None}
          /\ waiting \subseteq Worker \cup Client
          /\ activeTasks \in Nat /\ clock \in Nat \ {0}
      OBVIOUS
    <3>2. /\ status \in [Task -> {"new", "queued", "popped", "running", "done",
                                  "skipped", "cancelled", "refused"}]
          /\ enqueueTime \in [Task -> Nat]
      OBVIOUS
    <3>3. /\ wpc \in [Worker -> {"loop", "get", "block", "start", "run",
                                 "finish", "exited"}]
          /\ job \in [Worker -> Task \cup {None}]
      OBVIOUS
    <3>4. /\ cpc \in [Client -> {"idle", "push", "notify", "await", "awaitBlock"}]
          /\ arg \in [Client -> Task \cup {None}]
      OBVIOUS
    <3>5. QED
      BY <3>1, <3>2, <3>3, <3>4 DEF TypeOK
  <2>2. Held /\ Locked /\ Pushing
    BY DEF Held, TaskHeldOnce, Locked, Pushing
  <2>3. Ordered /\ Stopping
    BY DEF Ordered, FifoAmongEquals, Stopping, DrainedForGood
  <2>4. QED
    BY <2>1, <2>2, <2>3
<1>5. QED
  BY <1>3, <1>4 DEF IInv

\* IInv is inductive.
THEOREM Invariance == Spec => []IInv
<1>1. IInv /\ [Next]_vars => IInv'
  BY TypeStep, HeldStep, CountedStep, LockedStep, PushingStep, OrderedStep,
     StoppingStep, BoundedStep DEF IInv
<1>2. QED
  BY InitIInv, <1>1, PTL DEF Spec

\* Type correctness; activeTasks, an unsigned counter in the code, never wraps.
THEOREM TypeCorrect == Spec => []TypeOK
BY Invariance, PTL DEF IInv

\* popTask() hands every task to exactly one worker.
THEOREM HeldOnce == Spec => []TaskHeldOnce
<1>1. IInv => TaskHeldOnce
  BY DEF IInv, Held
<1>2. QED
  BY <1>1, Invariance, PTL

\* Tasks of one priority are executed in the order they were submitted.
THEOREM Fifo == Spec => []FifoAmongEquals
<1>1. IInv => FifoAmongEquals
  BY DEF IInv, Ordered
<1>2. QED
  BY <1>1, Invariance, PTL

\* The queue never outgrows the largest limit.
THEOREM QueueStaysBounded == Spec => []QueueBounded
<1>1. IInv => QueueBounded
  BY DEF IInv, Bounded
<1>2. QED
  BY <1>1, Invariance, PTL

\* stopNow() leaves an empty queue for good.
THEOREM StaysDrained == Spec => []DrainedForGood
<1>1. IInv => DrainedForGood
  BY DEF IInv, Stopping
<1>2. QED
  BY <1>1, Invariance, PTL

\* After the join nothing is executed and nothing is counted as active.
THEOREM QuietWhenJoined == Spec => []QuietAfterJoin
<1>1. IInv => QuietAfterJoin
  <2> SUFFICES ASSUME IInv, opc = "joined" PROVE QuietAfterJoin
    BY DEF QuietAfterJoin
  <2>1. Active = {} /\ \A w \in Worker : wpc[w] = "exited"
    BY DEF IInv, Stopping, Active
  <2>2. activeTasks = 0
    BY <2>1, FS_EmptySet DEF IInv, Counted
  <2>3. QED
    BY <2>1, <2>2 DEF QuietAfterJoin, IInv, Held, TaskHeldOnce
<1>2. QED
  BY <1>1, Invariance, PTL

\* What waitAll() misses is popped and not counted, one task for a worker: activeTasks
\* = 0 leaves no worker between activeTasks++ and activeTasks--, but popTask() has
\* released the mutex before the first of these.
THEOREM WaitAllMisses == Spec => WaitAllMissesPopped
<1>1. IInv /\ [Next]_vars =>
        [\A c \in Client : cpc[c] = "await" /\ cpc'[c] = "idle" =>
           \A t \in Task : status[t] \in {"queued", "popped", "running"} =>
              \E w \in Worker : job[w] = t /\ wpc[w] = "start"]_vars
  <2> SUFFICES ASSUME IInv, [Next]_vars, NEW c \in Client, NEW t \in Task,
                      cpc[c] = "await", cpc'[c] = "idle",
                      status[t] \in {"queued", "popped", "running"}
               PROVE  \E w \in Worker : job[w] = t /\ wpc[w] = "start"
    OBVIOUS
  <2>1. WaitAllReturn(c)
    BY DEF IInv, TypeOK, Next, Lockers, Movers, LoopTest, TakeTask, GiveUp,
       FindNothing, Block, Start, Process, Finish, WorkerStep, ClientLocks,
       ClientMoves, Push, Notify, WaitAllReturn, WaitAllCheck, WaitAllBlock,
       WaitAll, ClientStep, Submit, Accept, Refuse, SetMaxQueueSize, StopNow,
       Drain, WakeDrained, Stop, StopNotify, Join, OwnerStep, SpuriousWakeup,
       vars, clientVars, Client
  <2>2. Queued = {} /\ activeTasks = 0
    BY <2>1 DEF WaitAllReturn
  <2>3. Active = {}
    BY <2>2, ThreadPoolAssumption, FS_Subset, FS_EmptySet DEF IInv, Counted, Active
  <2>4. \E w \in Worker : job[w] = t /\ wpc[w] \in {"start", "run"}
    BY <2>2 DEF Queued, IInv, Held, TaskHeldOnce
  <2>5. QED
    BY <2>3, <2>4 DEF Active
<1>2. QED
  BY <1>1, Invariance, PTL DEF Spec, WaitAllMissesPopped
=============================================================================
