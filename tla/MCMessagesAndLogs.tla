-------------------------- MODULE MCMessagesAndLogs --------------------------
(***************************************************************************)
(* The concurrent parts of the common library that hand things on: the     *)
(* rotating log files, the sink that sends events to a server, the message *)
(* manager and the client of a server, for their safety.                   *)
(*                                                                         *)
(* They share no state: a behaviour is one of one of them, chosen at the   *)
(* start, so that TLC explores the sum of their states.                    *)
(***************************************************************************)
EXTENDS RotatingFileSink, TLC

CONSTANTS
    Clients, Requests, NoRequest, MaxQueueSize, MaxBegun, MaxToggles, MaxStarts,
    Callers, MaxRetries, MaxSockets, MaxMessages,
    Loggers, BatchSize, RetryAttempts, MaxEvents, MaxFlushes

VARIABLES
    which,
    running, queueingEnabled, messageQueue, handlers, replier, pending, expired,
    worker, current, timer, due, owner, ipcPc, job, used, promise, begun,
    accepted, delivered, dropped, seen, dangling, toggles, starts,
    connected, clientRunning, autoReconnect, retryCount, connection, clientOpen,
    sockets, server, inbox, insync, clientPending, requested, clientPc,
    clientPromise, clientWorker, workerJoinable, clientCurrent, reconnector,
    reconnectJoinable, clientOwner, destroying, ended,
    batching, totalLogs, sinkBegun, flushes, logPc, event, holder, queued,
    sending, tries, linked, sinkWorker, sink, sinkWritten, sinkDelivered, lost

-----------------------------------------------------------------------------
(* The constants have the names they have in the components' modules.      *)

Manager == INSTANCE IpcManager WITH pc <- ipcPc

Client == INSTANCE IpcClient WITH
    running <- clientRunning, open <- clientOpen, pending <- clientPending,
    pc <- clientPc, promise <- clientPromise, worker <- clientWorker,
    current <- clientCurrent, owner <- clientOwner

Sink == INSTANCE NetworkSink WITH
    begun <- sinkBegun, written <- sinkWritten, delivered <- sinkDelivered

ASSUME InstanceAssumption ==
    Manager!IpcAssumption /\ Client!ClientAssumption /\ Sink!SinkAssumption

MCSize == <<3, 2, 4, 1>>

\* No property names a client or a logging thread.
MCSymmetry == Permutations(Clients) \cup Permutations(Loggers)

managerVars == <<running, queueingEnabled, messageQueue, handlers, replier,
               pending, expired, worker, current, timer, due, owner, ipcPc,
               job, used, promise, begun, accepted, delivered, dropped, seen,
               dangling, toggles, starts>>
clientVars == <<connected, clientRunning, autoReconnect, retryCount,
               connection, clientOpen, sockets, server, inbox, insync,
               clientPending, requested, clientPc, clientPromise, clientWorker,
               workerJoinable, clientCurrent, reconnector, reconnectJoinable,
               clientOwner, destroying, ended>>
sinkVars == <<batching, totalLogs, sinkBegun, flushes, logPc, event,
               holder, queued, sending, tries, linked, sinkWorker, sink,
               sinkWritten, sinkDelivered, lost>>
allVars == <<which, vars, managerVars, clientVars, sinkVars>>

MCInit == /\ which \in {"files", "manager", "client", "sink"}
          /\ Init /\ (which # "files" => limit = CHOOSE l \in Limits : TRUE)
          /\ Manager!Init
          /\ Client!Init /\ (which # "client" => server)
          /\ Sink!Init /\ (which # "sink" => batching /\ linked)

MCNext ==
    \/ /\ which = "files" /\ Next
       /\ UNCHANGED <<which, managerVars, clientVars, sinkVars>>
    \/ /\ which = "manager" /\ Manager!Next
       /\ UNCHANGED <<which, vars, clientVars, sinkVars>>
    \/ /\ which = "client" /\ Client!Next
       /\ UNCHANGED <<which, vars, managerVars, sinkVars>>
    \/ /\ which = "sink" /\ Sink!Next
       /\ UNCHANGED <<which, vars, managerVars, clientVars>>

MCSpec == MCInit /\ [][MCNext]_allVars

-----------------------------------------------------------------------------
\* The manager's queue keeps to its bound, and every accepted message is delivered
\* or dropped once, in order; the client's table of requests has no entry without
\* a call, and its disconnect() leaves neither thread nor socket behind.
MessagesHold ==
    /\ Manager!TypeOK /\ Manager!EachOnceInOrder
    /\ Client!TypeOK /\ Client!EntriesHaveCallers /\ Client!DisconnectIsClean

\* NetworkSink: every event written is queued, under way, delivered or lost, once;
\* only a flush() overtakes the worker.
SinkHolds == Sink!TypeOK /\ Sink!EachEventOnce /\ Sink!OnlyFlushOvertakes

\* What no step may do: a log line goes only when it has seen max_files rotations;
\* the manager delivers and drops messages as a channel does; and so does the sink
\* with its batches of events.
StepsHold == /\ OnlyAgedLinesGo
             /\ Manager!ImplementsChannel /\ Sink!ImplementsChannel
=============================================================================
