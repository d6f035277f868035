------------------------------ MODULE IpcManager ------------------------------
(***************************************************************************)
(* common::IpcManager once initialize() has succeeded: application threads *)
(* that send messages and requests, the worker that empties the queue, the *)
(* thread that expires asynchronous requests, and the owner that stops and *)
(* restarts both.                                                          *)
(*                                                                         *)
(* queueMutex guards handlers and messageQueue, pendingMutex guards        *)
(* pendingRequests.  A critical section is one step, with two exceptions   *)
(* that hold a mutex from step to step: the expiry pass (pendingMutex) and *)
(* a broadcast whose handler calls sendMessage() and blocks on the mutex   *)
(* its own thread holds (queueMutex, for good).                            *)
(***************************************************************************)
EXTENDS Naturals, Sequences

CONSTANTS Clients,       \* application threads
          Requests,      \* request ids; generateRequestId() never repeats one
          NoRequest,
          MaxQueueSize,  \* maxQueueSize
          MaxBegun,      \* bound on the messages the clients begin to send
          MaxToggles,    \* bound on the calls of setQueueing()
          MaxStarts      \* bound on the calls of start()

ASSUME IpcAssumption ==
    /\ NoRequest \notin Requests
    /\ MaxQueueSize \in Nat /\ MaxBegun \in Nat
    /\ MaxToggles \in Nat /\ MaxStarts \in Nat

VARIABLES running, queueingEnabled,
          messageQueue,  \* the queued messages, oldest first
          handlers,      \* the handlers of the topics "response/<id>"
          replier,       \* a handler for "#" that answers requests is registered
          pending,       \* the keys of pendingRequests
          expired,       \* the requests whose deadline has passed
          worker,        \* where processMessages() is ...
          current,       \* ... and the message it has taken
          timer, due,    \* where checkTimeout() is, and what it has left to erase
          owner,         \* where stop() is
          pc, job,       \* where each client is, and what it is sending
          used,          \* the request ids given out
          promise,       \* the promises on the stacks of sendRequest()
          begun,         \* number of messages begun ...
          accepted,      \* ... and of those accepted (messagesQueued)
          delivered,     \* numbers of the messages the transport was given
          dropped,       \* numbers of the messages clearQueue() threw away
          seen,          \* the requests broadcast to the handlers
          dangling,      \* a handler has written to a promise that is gone
          toggles, starts
vars == <<running, queueingEnabled, messageQueue, handlers, replier, pending,
          expired, worker, current, timer, due, owner, pc, job, used, promise,
          begun, accepted, delivered, dropped, seen, dangling, toggles, starts>>

\* Variables that mostly change together.
settings == <<queueingEnabled, replier, toggles>>
queue == <<messageQueue, accepted, dropped>>
call == <<job, used, begun>>

Jobs == [kind : {"data", "response", "sync", "async"},
         req : Requests \cup {NoRequest}]
NoJob == [kind |-> "data", req |-> NoRequest]

\* A message keeps what decides its topic and type, and the number of its
\* acceptance.
Messages == [kind : {"data", "request", "response"},
             req : Requests \cup {NoRequest}, n : Nat]
NoMessage == [kind |-> "data", req |-> NoRequest, n |-> 0]

Init ==
    /\ running = TRUE /\ queueingEnabled = TRUE
    /\ messageQueue = <<>> /\ handlers = {} /\ replier = FALSE
    /\ pending = {} /\ expired = {}
    /\ worker = "loop" /\ current = NoMessage
    /\ timer = "loop" /\ due = {} /\ owner = "up"
    /\ pc = [c \in Clients |-> "idle"] /\ job = [c \in Clients |-> NoJob]
    /\ used = {} /\ promise = [r \in Requests |-> "none"]
    /\ begun = 0 /\ accepted = 0 /\ delivered = <<>> /\ dropped = {}
    /\ seen = {} /\ dangling = FALSE /\ toggles = 0 /\ starts = 0

QueueMutexFree == worker # "stuck"
PendingMutexFree == timer # "scan"

-----------------------------------------------------------------------------
(* Handlers.                                                               *)

\* registerHandler()
Registered(r, type) == handlers \cup {[req |-> r, type |-> type]}

\* What the comment in the code describes: the handlers of the topic go, whatever
\* their type.  With this definition NoDanglingPromise holds.
UnregisteredAll(r, type) == {h \in handlers : h.req # r}

\* unregisterHandler() erases the handlers whose function object has the type
\* of its argument; every caller passes nullptr, whose type is void.
Unregistered(r, type) == {h \in handlers : ~ (h.req = r /\ h.type = type)}

-----------------------------------------------------------------------------
(* The clients.                                                            *)

ClientUnchanged ==
    UNCHANGED <<running, expired, worker, current, timer, due, owner, delivered,
                seen, dangling, starts>>

Goto(c, label) == pc' = [pc EXCEPT ![c] = label]
Begin(c, label, kind, r) ==
    /\ pc[c] = "idle" /\ begun < MaxBegun
    /\ begun' = begun + 1
    /\ Goto(c, label)
    /\ job' = [job EXCEPT ![c] = [kind |-> kind, req |-> r]]

\* sendMessage() of data, or of the response to a request seen by a handler.
\* Nothing keeps a peer from answering twice, or after the deadline.
Send(c) ==
    /\ \/ Begin(c, "send", "data", NoRequest)
       \/ \E r \in seen : Begin(c, "send", "response", r)
    /\ UNCHANGED <<queue, settings, handlers, pending, used, promise>>
    /\ ClientUnchanged

\* sendRequest(): the promise lives on the caller's stack and the handler has a
\* reference to it.
SendRequest(c, r) ==
    /\ QueueMutexFree
    /\ r \notin used /\ used' = used \cup {r}
    /\ Begin(c, "send", "sync", r)
    /\ promise' = [promise EXCEPT ![r] = "empty"]
    /\ handlers' = Registered(r, "promise")
    /\ UNCHANGED <<queue, settings, pending>>
    /\ ClientUnchanged

\* sendAsyncRequest(): the pending entry first, then the handler.
SendAsyncRequest(c, r) ==
    /\ PendingMutexFree
    /\ r \notin used /\ used' = used \cup {r}
    /\ Begin(c, "register", "async", r)
    /\ pending' = pending \cup {r}
    /\ UNCHANGED <<queue, settings, handlers, promise>>
    /\ ClientUnchanged

Register(c) ==
    /\ pc[c] = "register" /\ QueueMutexFree
    /\ handlers' = Registered(job[c].req, "callback")
    /\ Goto(c, "send")
    /\ UNCHANGED <<call, queue, settings, pending, promise>>
    /\ ClientUnchanged

\* Where a client is after sendMessage(): sendRequest() waits, or gives up;
\* sendAsyncRequest() undoes what it has registered.
AfterSuccess(c) == IF job[c].kind = "sync" THEN "wait" ELSE "idle"
AfterFailure(c) == CASE job[c].kind = "sync" -> "return"
                     [] job[c].kind = "async" -> "unregister"
                     [] OTHER -> "idle"

\* sendMessage() reads queueingEnabled without the mutex.  Without queueing the
\* caller hands the message to the transport, and no handler sees it.
TestQueueing(c) ==
    /\ pc[c] = "send"
    /\ Goto(c, IF queueingEnabled THEN "push" ELSE AfterSuccess(c))
    /\ UNCHANGED <<call, queue, settings, handlers, pending, promise>>
    /\ ClientUnchanged

MessageOf(c) == [kind |-> IF job[c].kind \in {"sync", "async"} THEN "request"
                                                               ELSE job[c].kind,
                 req  |-> job[c].req,
                 n    |-> accepted + 1]

\* Mutant of Push: the bound is off by one.
PushOneMore(c) ==
    /\ pc[c] = "push" /\ QueueMutexFree
    /\ Len(messageQueue) <= MaxQueueSize
    /\ messageQueue' = Append(messageQueue, MessageOf(c))
    /\ accepted' = accepted + 1
    /\ Goto(c, AfterSuccess(c))
    /\ UNCHANGED <<call, settings, handlers, pending, promise, dropped>>
    /\ ClientUnchanged

Push(c) ==
    /\ pc[c] = "push" /\ QueueMutexFree
    /\ \/ /\ Len(messageQueue) < MaxQueueSize
          /\ messageQueue' = Append(messageQueue, MessageOf(c))
          /\ accepted' = accepted + 1
          /\ Goto(c, AfterSuccess(c))
       \/ /\ Len(messageQueue) >= MaxQueueSize
          /\ Goto(c, AfterFailure(c))
          /\ UNCHANGED <<messageQueue, accepted>>
    /\ UNCHANGED <<call, settings, handlers, pending, promise, dropped>>
    /\ ClientUnchanged

\* wait_for() ends with the response, or with the timeout while there is none.
Wait(c) ==
    /\ pc[c] = "wait"
    /\ Goto(c, "return")
    /\ UNCHANGED <<call, queue, settings, handlers, pending, promise>>
    /\ ClientUnchanged

\* sendRequest() unregisters and returns; its promise is gone.
Return(c) ==
    /\ pc[c] = "return" /\ QueueMutexFree
    /\ handlers' = Unregistered(job[c].req, "void")
    /\ promise' = [promise EXCEPT ![job[c].req] = "gone"]
    /\ Goto(c, "idle")
    /\ UNCHANGED <<call, queue, settings, pending>>
    /\ ClientUnchanged

\* sendAsyncRequest() after a refused message: the handler, then the entry.
Unregister(c) ==
    /\ pc[c] = "unregister" /\ QueueMutexFree
    /\ handlers' = Unregistered(job[c].req, "void")
    /\ Goto(c, "forget")
    /\ UNCHANGED <<call, queue, settings, pending, promise>>
    /\ ClientUnchanged

Forget(c) ==
    /\ pc[c] = "forget" /\ PendingMutexFree
    /\ pending' = pending \ {job[c].req}
    /\ Goto(c, "idle")
    /\ UNCHANGED <<call, queue, settings, handlers, promise>>
    /\ ClientUnchanged

\* Mutant of ClearQueue: only the oldest message goes.
ClearQueueOldest(c) ==
    /\ pc[c] = "idle" /\ QueueMutexFree /\ messageQueue # <<>>
    /\ dropped' = dropped \cup {Head(messageQueue).n}
    /\ messageQueue' = Tail(messageQueue)
    /\ UNCHANGED <<call, settings, handlers, pending, pc, promise, accepted>>
    /\ ClientUnchanged

ClearQueue(c) ==
    /\ pc[c] = "idle" /\ QueueMutexFree /\ messageQueue # <<>>
    /\ dropped' = dropped \cup {messageQueue[i].n : i \in 1 .. Len(messageQueue)}
    /\ messageQueue' = <<>>
    /\ UNCHANGED <<call, settings, handlers, pending, pc, promise, accepted>>
    /\ ClientUnchanged

\* setQueueing(), with the same maxQueueSize.
SetQueueing(c) ==
    /\ pc[c] = "idle" /\ toggles < MaxToggles
    /\ toggles' = toggles + 1
    /\ queueingEnabled' = ~ queueingEnabled
    /\ UNCHANGED <<call, queue, replier, handlers, pending, pc, promise>>
    /\ ClientUnchanged

\* A handler for every topic that answers requests, as in IpcServer.cpp.
RegisterReplier(c) ==
    /\ pc[c] = "idle" /\ QueueMutexFree /\ ~ replier
    /\ replier' = TRUE
    /\ UNCHANGED <<call, queue, queueingEnabled, handlers, pending, pc, promise,
                   toggles>>
    /\ ClientUnchanged

ClientStep(c) ==
    \/ Register(c) \/ TestQueueing(c) \/ Push(c)
    \/ Wait(c) \/ Return(c) \/ Unregister(c) \/ Forget(c)
ClientCall(c) ==
    \/ Send(c) \/ ClearQueue(c) \/ SetQueueing(c) \/ RegisterReplier(c)
    \/ \E r \in Requests : SendRequest(c, r) \/ SendAsyncRequest(c, r)

-----------------------------------------------------------------------------
(* The worker: processMessages().                                          *)

WorkerUnchanged ==
    UNCHANGED <<call, settings, running, handlers, pending, expired, timer, due,
                owner, pc, accepted, dropped, starts>>

\* Mutant of WorkerLoop: the loop has no end.
WorkerLoopForever ==
    /\ worker = "loop"
    /\ worker' = "drain"
    /\ UNCHANGED <<messageQueue, current, promise, delivered, seen, dangling>>
    /\ WorkerUnchanged

WorkerLoop ==
    /\ worker = "loop"
    /\ worker' = IF running THEN "drain" ELSE "done"
    /\ UNCHANGED <<messageQueue, current, promise, delivered, seen, dangling>>
    /\ WorkerUnchanged

\* Mutant of Drain: the message is copied and stays in the queue.
DrainKeeps ==
    /\ worker = "drain"
    /\ \/ messageQueue # <<>> /\ current' = Head(messageQueue) /\ worker' = "send"
       \/ messageQueue = <<>> /\ worker' = "loop" /\ UNCHANGED current
    /\ UNCHANGED <<messageQueue, promise, delivered, seen, dangling>>
    /\ WorkerUnchanged

\* Mutant of Drain: the last message is left in the queue.
DrainAllButOne ==
    /\ worker = "drain"
    /\ \/ /\ Len(messageQueue) > 1
          /\ current' = Head(messageQueue)
          /\ messageQueue' = Tail(messageQueue)
          /\ worker' = "send"
       \/ /\ Len(messageQueue) <= 1
          /\ worker' = "loop"
          /\ UNCHANGED <<messageQueue, current>>
    /\ UNCHANGED <<promise, delivered, seen, dangling>>
    /\ WorkerUnchanged

\* The wait is timed, so it may end at any time; the inner loop goes on as long
\* as there are messages, whatever running says.
Drain ==
    /\ worker = "drain"
    /\ \/ /\ messageQueue # <<>>
          /\ current' = Head(messageQueue)
          /\ messageQueue' = Tail(messageQueue)
          /\ worker' = "send"
       \/ /\ messageQueue = <<>>
          /\ worker' = "loop"
          /\ UNCHANGED <<messageQueue, current>>
    /\ UNCHANGED <<promise, delivered, seen, dangling>>
    /\ WorkerUnchanged

\* Without the mutex, to the transport.
Transmit ==
    /\ worker = "send"
    /\ delivered' = Append(delivered, current.n)
    /\ worker' = "broadcast"
    /\ UNCHANGED <<messageQueue, current, promise, seen, dangling>>
    /\ WorkerUnchanged

\* broadcast() runs the handlers of the message's topic under queueMutex.  A
\* second set_value() on a promise throws, and the exception is caught.  The
\* replier calls sendMessage() for a request, which locks the mutex again when
\* queueing is enabled.
Broadcast ==
    LET r == current.req
        fires(type) == /\ current.kind = "response"
                       /\ [req |-> r, type |-> type] \in handlers IN
    /\ worker = "broadcast"
    /\ seen' = IF current.kind = "request" THEN seen \cup {r} ELSE seen
    /\ promise' = IF fires("promise") /\ promise[r] = "empty"
                  THEN [promise EXCEPT ![r] = "set"] ELSE promise
    /\ dangling' = (dangling \/ (fires("promise") /\ promise[r] = "gone"))
    /\ worker' = IF current.kind = "request" /\ replier /\ queueingEnabled
                 THEN "stuck" ELSE "drain"
    /\ current' = NoMessage
    /\ UNCHANGED <<messageQueue, delivered>>
    /\ WorkerUnchanged

WorkerStep == WorkerLoop \/ Drain \/ Transmit \/ Broadcast

-----------------------------------------------------------------------------
(* The expiry of asynchronous requests: checkTimeout().                    *)

TimerUnchanged ==
    UNCHANGED <<call, queue, settings, running, worker, current, owner, pc,
                promise, delivered, seen, dangling, starts>>

\* The deadline of an entry passes.
Expire(r) ==
    /\ r \in pending /\ r \notin expired
    /\ expired' = expired \cup {r}
    /\ UNCHANGED <<handlers, pending, timer, due>>
    /\ TimerUnchanged

\* The loop's test, before the sleep.
TimerLoop ==
    /\ timer = "loop"
    /\ timer' = IF running THEN "sleep" ELSE "done"
    /\ UNCHANGED <<handlers, pending, expired, due>>
    /\ TimerUnchanged

\* After the sleep: pendingMutex is taken, and the time.
TimerLock ==
    /\ timer = "sleep"
    /\ timer' = "scan"
    /\ due' = pending \cap expired
    /\ UNCHANGED <<handlers, pending, expired>>
    /\ TimerUnchanged

\* Mutant of TimerErase: the handler goes, the entry stays.
TimerKeepsEntry(r) ==
    /\ timer = "scan" /\ r \in due /\ QueueMutexFree
    /\ handlers' = Unregistered(r, "void")
    /\ due' = due \ {r}
    /\ UNCHANGED <<expired, pending, timer>>
    /\ TimerUnchanged

\* One entry after the other, each under queueMutex as well.
TimerErase(r) ==
    /\ timer = "scan" /\ r \in due /\ QueueMutexFree
    /\ handlers' = Unregistered(r, "void")
    /\ pending' = pending \ {r}
    /\ due' = due \ {r}
    /\ UNCHANGED <<expired, timer>>
    /\ TimerUnchanged

\* Mutant of TimerUnlock: the pass waits for the table to empty, mutex in hand.
TimerUnlockEmpty ==
    /\ timer = "scan" /\ due = {} /\ pending = {}
    /\ timer' = "loop"
    /\ UNCHANGED <<handlers, pending, expired, due>>
    /\ TimerUnchanged

TimerUnlock ==
    /\ timer = "scan" /\ due = {}
    /\ timer' = "loop"
    /\ UNCHANGED <<handlers, pending, expired, due>>
    /\ TimerUnchanged

TimerStep ==
    \/ TimerLoop \/ TimerLock \/ TimerUnlock
    \/ \E r \in Requests : TimerErase(r)

-----------------------------------------------------------------------------
(* The owner: stop() and start().                                          *)

OwnerUnchanged ==
    UNCHANGED <<call, queue, settings, handlers, pending, expired, current, due,
                pc, promise, delivered, seen, dangling>>

Stop ==
    /\ owner = "up"
    /\ owner' = "joining"
    /\ running' = FALSE
    /\ UNCHANGED <<worker, timer, starts>>
    /\ OwnerUnchanged

Join ==
    /\ owner = "joining" /\ worker = "done" /\ timer = "done"
    /\ owner' = "down"
    /\ UNCHANGED <<running, worker, timer, starts>>
    /\ OwnerUnchanged

Start ==
    /\ owner = "down" /\ starts < MaxStarts
    /\ owner' = "up" /\ running' = TRUE
    /\ worker' = "loop" /\ timer' = "loop"
    /\ starts' = starts + 1
    /\ OwnerUnchanged

-----------------------------------------------------------------------------
Next ==
    \/ \E c \in Clients : ClientCall(c) \/ ClientStep(c)
    \/ WorkerStep \/ TimerStep
    \/ \E r \in Requests : Expire(r)
    \/ Stop \/ Join \/ Start

Spec == Init /\ [][Next]_vars

\* The scheduler runs every thread that can go on and time passes; nobody has
\* to call anything.  A client that waits for pendingMutex gets it in one of
\* the seconds the expiry thread sleeps without it: strong fairness.
FairSpec ==
    /\ Spec
    /\ \A c \in Clients : WF_vars(ClientStep(c)) /\ SF_vars(Forget(c))
    /\ WF_vars(WorkerStep) /\ WF_vars(TimerStep)
    /\ \A r \in Requests : WF_vars(Expire(r))
    /\ WF_vars(Join)

-----------------------------------------------------------------------------
TypeOK ==
    /\ running \in BOOLEAN /\ queueingEnabled \in BOOLEAN /\ replier \in BOOLEAN
    /\ messageQueue \in Seq(Messages) /\ Len(messageQueue) <= MaxQueueSize
    /\ handlers \subseteq [req : Requests, type : {"promise", "callback"}]
    /\ pending \subseteq Requests /\ expired \subseteq Requests
    /\ due \subseteq pending
    /\ worker \in {"loop", "drain", "send", "broadcast", "stuck", "done"}
    /\ current \in Messages
    /\ timer \in {"loop", "sleep", "scan", "done"}
    /\ owner \in {"up", "joining", "down"}
    /\ pc \in [Clients -> {"idle", "register", "send", "push", "wait", "return",
                           "unregister", "forget"}]
    /\ job \in [Clients -> Jobs]
    /\ used \subseteq Requests /\ seen \subseteq Requests
    /\ promise \in [Requests -> {"none", "empty", "set", "gone"}]
    /\ begun \in 0 .. MaxBegun /\ accepted \in 0 .. begun
    /\ delivered \in Seq(Nat) /\ dropped \subseteq Nat
    /\ dangling \in BOOLEAN
    /\ toggles \in 0 .. MaxToggles /\ starts \in 0 .. MaxStarts

\* The accepted messages that have not been cleared, from the transport's end:
\* what was transmitted, what the worker holds, what is queued.
Held == IF worker = "send" THEN <<current.n>> ELSE <<>>
Pipeline == delivered \o Held \o [i \in 1 .. Len(messageQueue) |-> messageQueue[i].n]

\* Every accepted message is, exactly once, in the pipeline or among the cleared
\* ones, and the pipeline is in the order of acceptance: whatever clients, worker,
\* clearQueue() and a restart do, none is lost, sent twice or overtaken.
EachOnceInOrder ==
    /\ \A i, j \in 1 .. Len(Pipeline) : i < j => Pipeline[i] < Pipeline[j]
    /\ {Pipeline[i] : i \in 1 .. Len(Pipeline)} = (1 .. accepted) \ dropped

Channel == INSTANCE MessageChannel

\* Step by step: a queued message is transmitted when every older one has been
\* transmitted or cleared, none is taken back or given out again, and clearQueue()
\* throws away the youngest, up to what the worker has taken.
ImplementsChannel == Channel!Spec

Stuck == worker = "stuck"

\* An accepted message leaves the queue, as long as nobody stops the manager
\* and no handler calls back into it.
AcceptedIsSent ==
    \A n \in 1 .. MaxBegun :
        (\E i \in 1 .. Len(messageQueue) : messageQueue[i].n = n)
            ~> \/ ~ running \/ Stuck
               \/ \A i \in 1 .. Len(messageQueue) : messageQueue[i].n # n

\* Every call returns, although three threads use two mutexes, unless a handler
\* calls back into the manager.
CallsReturn == \A c \in Clients : pc[c] # "idle" ~> (pc[c] = "idle" \/ Stuck)

\* stop() returns.
StopReturns == owner = "joining" ~> (owner = "down" \/ Stuck)

\* An asynchronous request does not stay in the table for ever, answered or not.
PendingExpires ==
    \A r \in Requests : r \in pending ~> (r \notin pending \/ ~ running \/ Stuck)

\* What the comment in unregisterHandler() promises ("clear all handlers for
\* topic"): once sendRequest() has returned, an answer that is late or a repeated
\* one reaches no promise that has left the stack.
NoDanglingPromise == ~ dangling
=============================================================================
