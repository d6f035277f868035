------------------------------- MODULE IpcClient -------------------------------
(***************************************************************************)
(* common::IpcClient: an owner that connects, disconnects and destroys the *)
(* client, threads that send requests, the worker that receives, and the   *)
(* thread that reconnects.                                                 *)
(*                                                                         *)
(* mutex guards pendingRequests and subscriptions, but the worker looks a  *)
(* request up, calls its handler and erases it without it.  Assigning to a *)
(* std::thread that is joinable, or destroying one, ends the process.      *)
(***************************************************************************)
EXTENDS Integers, Sequences, FiniteSets

CONSTANTS Callers,       \* threads that call request(); each does so once
          MaxRetries,    \* maxRetries; negative: no limit
          MaxSockets,    \* bound on the sockets that reach the server
          MaxMessages    \* bound on the messages on their way to the client

ClientAssumption ==
    MaxRetries \in Int /\ MaxSockets \in Nat /\ MaxMessages \in Nat

VARIABLES connected, running, autoReconnect, retryCount,
          connection,    \* the socket, 0 for nullptr
          open,          \* the sockets not closed
          sockets,       \* sockets opened so far
          server,        \* whether the server listens and answers
          inbox,         \* what it has sent to the present socket
          insync,        \* the worker reads lengths where lengths are
          pending,       \* the keys of pendingRequests: the calls that wait
          requested,     \* the requests the server has received
          pc,            \* where each caller is
          promise,       \* its promise
          worker, workerJoinable, current,
          reconnector, reconnectJoinable,
          owner,         \* where the owner is
          destroying,    \* its disconnect() is the destructor's
          ended          \* how the process has ended, if it has
flags == <<connected, running>>
socket == <<connection, open, sockets>>
peer == <<server, inbox, insync, requested>>
calls == <<pending, pc, promise>>
reading == <<worker, workerJoinable, current>>
retrying == <<reconnector, reconnectJoinable, retryCount>>
owning == <<owner, destroying, autoReconnect>>
vars == <<flags, socket, peer, calls, reading, retrying, owning, ended>>

Publication == "publication"
Replies == {"publication"} \cup Callers

Init ==
    /\ connected = FALSE /\ running = FALSE /\ autoReconnect = TRUE
    /\ retryCount = 0 /\ connection = 0 /\ open = {} /\ sockets = 0
    /\ server \in BOOLEAN /\ inbox = <<>> /\ insync = TRUE
    /\ pending = {} /\ requested = {}
    /\ pc = [c \in Callers |-> "idle"]
    /\ promise = [c \in Callers |-> "none"]
    /\ worker = "none" /\ workerJoinable = FALSE /\ current = Publication
    /\ reconnector = "none" /\ reconnectJoinable = FALSE
    /\ owner = "idle" /\ destroying = FALSE
    /\ ended = "no"

\* A callback that locks the mutex its own thread holds never returns.
MutexFree == worker # "stuck"

-----------------------------------------------------------------------------
(* connectInternal() and the threads.                                      *)

\* A new socket overwrites the old one, which stays open.
Opens ==
    /\ server /\ sockets < MaxSockets
    /\ sockets' = sockets + 1
    /\ connection' = sockets' /\ open' = open \cup {sockets'}
    /\ inbox' = <<>> /\ insync' = TRUE

\* The server does not answer: the new socket is closed.
OpenFails ==
    /\ ~ server \/ sockets = MaxSockets
    /\ connection' = 0
    /\ UNCHANGED <<open, sockets, inbox, insync>>

\* start()
Starts ==
    \/ running /\ UNCHANGED <<running, worker, workerJoinable, ended>>
    \/ /\ ~ running
       /\ running' = TRUE /\ worker' = "loop" /\ workerJoinable' = TRUE
       /\ ended' = IF workerJoinable THEN "terminate" ELSE "no"

\* handleReconnect(): the former thread is waited for.
HandlesReconnect ==
    /\ reconnectJoinable => reconnector = "done"
    /\ reconnector' = "test" /\ reconnectJoinable' = TRUE

-----------------------------------------------------------------------------
(* The owner.                                                              *)

OwnerUnchanged ==
    UNCHANGED <<calls, current, server, requested>>

\* setAutoReconnect(), before the first connect().
Configure ==
    /\ owner = "idle" /\ sockets = 0 /\ reconnector = "none"
    /\ autoReconnect' = ~ autoReconnect
    /\ UNCHANGED <<flags, socket, inbox, insync, reading, retrying, owner,
                   destroying, ended, calls, server, requested>>

ConnectSucceeds ==
    /\ owner = "idle" /\ ~ connected /\ Opens
    /\ connected' = TRUE /\ retryCount' = 0
    /\ owner' = "start"
    /\ UNCHANGED <<running, reconnector, reconnectJoinable, worker,
                   workerJoinable, destroying, autoReconnect,
                   ended>>
    /\ OwnerUnchanged

ConnectFails ==
    /\ owner = "idle" /\ ~ connected /\ OpenFails
    /\ owner' = IF autoReconnect THEN "reconnect" ELSE "idle"
    /\ UNCHANGED <<flags, retrying, worker, workerJoinable, destroying,
                   autoReconnect, ended>>
    /\ OwnerUnchanged

OwnerStarts ==
    /\ owner = "start" /\ Starts
    /\ owner' = "idle"
    /\ UNCHANGED <<connected, socket, inbox, insync, retrying, destroying,
                   autoReconnect>>
    /\ OwnerUnchanged

OwnerReconnects ==
    /\ owner = "reconnect" /\ HandlesReconnect
    /\ owner' = "idle"
    /\ UNCHANGED <<flags, socket, inbox, insync, retryCount, worker,
                   workerJoinable, destroying, autoReconnect,
                   ended>>
    /\ OwnerUnchanged

\* disconnect(), alone or from the destructor.
Disconnect ==
    /\ owner = "idle"
    /\ \/ connected /\ connected' = FALSE /\ owner' = "stop"
          /\ destroying' \in BOOLEAN
       \/ ~ connected /\ owner' = "destroy" /\ destroying' = TRUE
          /\ UNCHANGED connected
    /\ UNCHANGED <<running, socket, inbox, insync, retrying, worker,
                   workerJoinable, autoReconnect, ended>>
    /\ OwnerUnchanged

\* The threads are told to stop, and joined when they are joinable.
OwnerStops ==
    /\ \/ /\ owner = "stop"
          /\ running' = FALSE /\ owner' = "joinWorker"
          /\ UNCHANGED <<worker, workerJoinable, reconnector, reconnectJoinable>>
       \/ /\ owner = "joinWorker" /\ (workerJoinable => worker = "done")
          /\ workerJoinable' = FALSE /\ owner' = "joinReconnect"
          /\ UNCHANGED <<running, worker, reconnector, reconnectJoinable>>
       \/ /\ owner = "joinReconnect"
          /\ (reconnectJoinable => reconnector = "done")
          /\ reconnectJoinable' = FALSE /\ owner' = "cleanup"
          /\ UNCHANGED <<running, worker, workerJoinable, reconnector>>
    /\ UNCHANGED <<connected, socket, inbox, insync, retryCount, destroying,
                   autoReconnect, ended>>
    /\ OwnerUnchanged

\* Mutant of Cleanup: the pointer is cleared, the socket stays open.
CleanupLeaks ==
    /\ owner = "cleanup"
    /\ connection' = 0
    /\ owner' = IF destroying THEN "destroy" ELSE "idle"
    /\ UNCHANGED <<flags, sockets, open, inbox, insync, retrying, worker,
                   workerJoinable, destroying, autoReconnect,
                   ended>>
    /\ OwnerUnchanged

\* cleanupConnection()
Cleanup ==
    /\ owner = "cleanup"
    /\ open' = open \ {connection} /\ connection' = 0
    /\ owner' = IF destroying THEN "destroy" ELSE "idle"
    /\ UNCHANGED <<flags, sockets, inbox, insync, retrying, worker,
                   workerJoinable, destroying, autoReconnect,
                   ended>>
    /\ OwnerUnchanged

\* The members go, and with them the threads; nobody is in a call any more.
Destroy ==
    /\ owner = "destroy" /\ \A c \in Callers : pc[c] = "idle"
    /\ owner' = "destroyed"
    /\ ended' = IF workerJoinable \/ reconnectJoinable THEN "terminate" ELSE "no"
    /\ UNCHANGED <<flags, socket, inbox, insync, retrying, worker,
                   workerJoinable, destroying, autoReconnect>>
    /\ OwnerUnchanged

OwnerStep ==
    OwnerStarts \/ OwnerReconnects \/ OwnerStops \/ Cleanup \/ Destroy
OwnerCall == Configure \/ ConnectSucceeds \/ ConnectFails \/ Disconnect

-----------------------------------------------------------------------------
(* request().                                                              *)

CallerUnchanged ==
    UNCHANGED <<flags, socket, server, inbox, insync, reading,
                retrying, owning, ended>>
Goto(c, label) == pc' = [pc EXCEPT ![c] = label]

Request(c) ==
    /\ pc[c] = "idle" /\ promise[c] = "none" /\ connected
    /\ owner \notin {"destroy", "destroyed"} /\ ~ destroying
    /\ promise' = [promise EXCEPT ![c] = "empty"]
    /\ Goto(c, "insert")
    /\ UNCHANGED <<pending, requested>>
    /\ CallerUnchanged

Insert(c) ==
    /\ pc[c] = "insert" /\ MutexFree
    /\ pending' = pending \cup {c}
    /\ Goto(c, "send")
    /\ UNCHANGED <<promise, requested>>
    /\ CallerUnchanged

\* send() tests connected again; a socket that is closed, or whose peer has gone,
\* takes nothing.
SendRequest(c) ==
    /\ pc[c] = "send"
    /\ \/ /\ connected /\ connection \in open /\ server
          /\ requested' = requested \cup {c}
          /\ Goto(c, "wait")
       \/ /\ ~ (connected /\ connection \in open /\ server)
          /\ Goto(c, "erase")
          /\ UNCHANGED requested
    /\ UNCHANGED <<pending, promise>>
    /\ CallerUnchanged

\* wait_for() ends with the answer, or with the timeout while there is none.
Wait(c) ==
    /\ pc[c] = "wait"
    /\ \/ promise[c] = "set" /\ Goto(c, "idle")
          /\ promise' = [promise EXCEPT ![c] = "gone"]
       \/ promise[c] # "set" /\ Goto(c, "erase") /\ UNCHANGED promise
    /\ UNCHANGED <<pending, requested>>
    /\ CallerUnchanged

\* Mutant of Erase: the entry of a request that failed stays.
EraseNothing(c) ==
    /\ pc[c] = "erase" /\ MutexFree
    /\ promise' = [promise EXCEPT ![c] = "gone"]
    /\ Goto(c, "idle")
    /\ UNCHANGED <<pending, requested>>
    /\ CallerUnchanged

\* Mutant of Erase: the wait for the mutex has no end while another waits.
EraseAlone(c) ==
    /\ pc[c] = "erase" /\ MutexFree /\ pending = {c}
    /\ pending' = pending \ {c}
    /\ promise' = [promise EXCEPT ![c] = "gone"]
    /\ Goto(c, "idle")
    /\ UNCHANGED requested
    /\ CallerUnchanged

\* A request that was not sent or has timed out is forgotten.
Erase(c) ==
    /\ pc[c] = "erase" /\ MutexFree
    /\ pending' = pending \ {c}
    /\ promise' = [promise EXCEPT ![c] = "gone"]
    /\ Goto(c, "idle")
    /\ UNCHANGED requested
    /\ CallerUnchanged

CallerStep(c) == Insert(c) \/ SendRequest(c) \/ Wait(c) \/ Erase(c)

-----------------------------------------------------------------------------
(* The worker: processIncoming().                                          *)

WorkerUnchanged ==
    UNCHANGED <<socket, server, requested, pc, workerJoinable,
                retryCount, owning, flags>>

WorkerLoop ==
    /\ worker = "loop"
    /\ worker' = IF running /\ connected THEN "receive" ELSE "done"
    /\ UNCHANGED <<ended, inbox, insync, pending, promise, current,
                   reconnector, reconnectJoinable>>
    /\ WorkerUnchanged

\* receiveInternal() and the look-up, which runs without the mutex and may miss
\* an entry while a caller changes the map.
ReceiveMessage ==
    /\ worker = "receive" /\ connection \in open /\ insync /\ inbox # <<>>
    /\ current' = Head(inbox) /\ inbox' = Tail(inbox)
    /\ \/ current' \in pending /\ worker' = "call"
       \/ /\ \/ current' \notin pending
             \/ \E c \in Callers \ {current'} : pc[c] \in {"insert", "erase"}
          /\ worker' = "subscribers"
    /\ UNCHANGED <<ended, insync, pending, promise, reconnector,
                   reconnectJoinable>>
    /\ WorkerUnchanged

\* Nothing arrives within 100 ms; or a length arrives and its message does not,
\* and from then on what comes is taken for lengths.
ReceiveNothing ==
    /\ worker = "receive"
    /\ \/ UNCHANGED <<insync, inbox>>
       \/ connection \in open /\ inbox # <<>> /\ insync' = FALSE /\ inbox' = <<>>
    /\ worker' = "check"
    /\ UNCHANGED <<ended, pending, promise, current, reconnector,
                   reconnectJoinable>>
    /\ WorkerUnchanged

\* The handler of the entry found: it sets the promise of the caller.  Once the
\* caller has erased the entry the iterator points to nothing.
CallHandler ==
    /\ worker = "call"
    /\ \/ /\ current \in pending
          /\ promise' = [promise EXCEPT ![current] = "set"]
          /\ UNCHANGED ended
       \/ current \notin pending /\ ended' = "undefined" /\ UNCHANGED promise
    /\ worker' = "forget"
    /\ UNCHANGED <<inbox, insync, pending, current, reconnector,
                   reconnectJoinable>>
    /\ WorkerUnchanged

\* Mutant of ForgetRequest: the entry stays until a timeout that never comes.
ForgetNothing ==
    /\ worker = "forget"
    /\ worker' = "loop"
    /\ UNCHANGED <<ended, inbox, insync, pending, promise, current,
                   reconnector, reconnectJoinable>>
    /\ WorkerUnchanged

ForgetRequest ==
    /\ worker = "forget"
    /\ pending' = pending \ {current}
    /\ ended' = IF current \in pending THEN "no" ELSE "undefined"
    /\ worker' = "loop"
    /\ UNCHANGED <<inbox, insync, promise, current, reconnector,
                   reconnectJoinable>>
    /\ WorkerUnchanged

\* The callbacks of the subscriptions run under the mutex; one that calls
\* subscribe() or request() locks it again.
CallSubscribers ==
    /\ worker = "subscribers"
    /\ worker' \in {"check", "stuck"}
    /\ UNCHANGED <<ended, inbox, insync, pending, promise, current,
                   reconnector, reconnectJoinable>>
    /\ WorkerUnchanged

\* connected && !isConnected(): one atomic, read twice.
CheckConnection ==
    /\ \/ worker = "check" /\ worker' = IF connected THEN "recheck" ELSE "loop"
       \/ worker = "recheck"
          /\ worker' = IF ~ connected /\ autoReconnect THEN "reconnect" ELSE "loop"
    /\ UNCHANGED <<ended, inbox, insync, pending, promise, current,
                   reconnector, reconnectJoinable>>
    /\ WorkerUnchanged

WorkerReconnects ==
    /\ worker = "reconnect" /\ HandlesReconnect
    /\ worker' = "loop"
    /\ UNCHANGED <<ended, inbox, insync, pending, promise, current>>
    /\ WorkerUnchanged

WorkerStep ==
    \/ WorkerLoop \/ ReceiveMessage \/ ReceiveNothing \/ CallHandler
    \/ ForgetRequest \/ CallSubscribers \/ CheckConnection \/ WorkerReconnects

-----------------------------------------------------------------------------
(* The thread of handleReconnect().                                        *)

ReconnectUnchanged ==
    UNCHANGED <<calls, server, requested, current, owning,
                reconnectJoinable>>

RetryTest ==
    /\ reconnector = "test"
    /\ reconnector' = IF ~ connected /\ running THEN "sleep" ELSE "done"
    /\ UNCHANGED <<flags, socket, inbox, insync, retryCount, worker,
                   workerJoinable, ended>>
    /\ ReconnectUnchanged

\* After the delay; retryCount counts the failures.
RetryFails ==
    /\ reconnector = "sleep" /\ OpenFails
    /\ retryCount' = retryCount + 1
    /\ reconnector' = IF MaxRetries >= 0 /\ retryCount' >= MaxRetries
                      THEN "done" ELSE "test"
    /\ UNCHANGED <<flags, worker, workerJoinable, ended>>
    /\ ReconnectUnchanged

RetrySucceeds ==
    /\ reconnector = "sleep" /\ Opens
    /\ connected' = TRUE /\ retryCount' = 0
    /\ reconnector' = "start"
    /\ UNCHANGED <<running, worker, workerJoinable, ended>>
    /\ ReconnectUnchanged

RetryStarts ==
    /\ reconnector = "start" /\ Starts
    /\ reconnector' = "done"
    /\ UNCHANGED <<connected, socket, inbox, insync, retryCount>>
    /\ ReconnectUnchanged

ReconnectStep == RetryTest \/ RetryFails \/ RetrySucceeds \/ RetryStarts

-----------------------------------------------------------------------------
(* The server, outside the client: it answers a request, once or more      *)
(* often, publishes, goes and comes back.                                  *)

PeerUnchanged ==
    UNCHANGED <<flags, socket, insync, requested, calls, reading, retrying,
                owning, ended>>

Answer ==
    /\ server /\ connection \in open /\ Len(inbox) < MaxMessages
    /\ \E m \in requested \cup {Publication} : inbox' = Append(inbox, m)
    /\ UNCHANGED server
    /\ PeerUnchanged

ServerChanges ==
    /\ server' = ~ server
    /\ UNCHANGED <<inbox>>
    /\ PeerUnchanged

-----------------------------------------------------------------------------
Next ==
    /\ ended = "no"
    /\ \/ OwnerCall \/ OwnerStep
       \/ \E c \in Callers : Request(c) \/ CallerStep(c)
       \/ WorkerStep \/ ReconnectStep \/ Answer \/ ServerChanges

Spec == Init /\ [][Next]_vars

\* Every thread that can go on does, and time passes.
FairSpec ==
    /\ Spec
    /\ WF_vars(ended = "no" /\ OwnerStep)
    /\ \A c \in Callers : WF_vars(ended = "no" /\ CallerStep(c))
    /\ WF_vars(ended = "no" /\ WorkerStep)
    /\ WF_vars(ended = "no" /\ ReconnectStep)

-----------------------------------------------------------------------------
TypeOK ==
    /\ \A f \in {connected, running, autoReconnect, server, insync,
                 workerJoinable, reconnectJoinable, destroying} : f \in BOOLEAN
    /\ sockets \in 0 .. MaxSockets /\ retryCount \in Nat
    /\ ended \in {"no", "terminate", "undefined"}
    /\ connection \in 0 .. sockets /\ open \subseteq 1 .. sockets
    /\ inbox \in Seq(Replies) /\ Len(inbox) <= MaxMessages
    /\ current \in Replies /\ requested \subseteq Callers
    /\ pending \subseteq Callers
    /\ pc \in [Callers -> {"idle", "insert", "send", "wait", "erase"}]
    /\ promise \in [Callers -> {"none", "empty", "set", "gone"}]
    /\ worker \in {"none", "loop", "receive", "call", "forget", "subscribers",
                   "stuck", "check", "recheck", "reconnect", "done"}
    /\ reconnector \in {"none", "test", "sleep", "start", "done"}
    /\ owner \in {"idle", "start", "reconnect", "stop", "joinWorker",
                  "joinReconnect", "cleanup", "destroy", "destroyed"}

\* The table of requests does not grow: an entry belongs to a call that has not
\* returned, or to the request whose answer the worker is about to erase.
EntriesHaveCallers ==
    \A c \in pending :
        ended # "no" \/ pc[c] \in {"send", "wait", "erase"} \/ (worker = "forget" /\ current = c)

\* Without automatic reconnection disconnect() leaves nothing behind: no thread,
\* no socket, and nothing the destructor would trip over.
DisconnectIsClean ==
    ~ autoReconnect =>
        /\ ended # "terminate"
        /\ owner = "idle" /\ ~ connected =>
               open = {} /\ ~ running /\ worker \in {"none", "done"}

\* Requests, connect() and disconnect() return, unless a callback has locked
\* the mutex twice or the process has ended.
CallsReturn ==
    /\ \A c \in Callers :
           pc[c] # "idle" ~> (pc[c] = "idle" \/ worker = "stuck" \/ ended # "no")
    /\ owner \notin {"idle", "destroy", "destroyed"}
           ~> \/ owner \in {"idle", "destroy", "destroyed"}
              \/ worker = "stuck" \/ ended # "no"

\* "automatic reconnection": the thread begun by a failed connect() tries until
\* it is connected or has used up its attempts.
ReconnectionGoesOn ==
    reconnectJoinable /\ reconnector = "done" =>
        connected \/ (MaxRetries >= 0 /\ retryCount >= MaxRetries)
=============================================================================
