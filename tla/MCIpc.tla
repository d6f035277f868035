-------------------------------- MODULE MCIpc --------------------------------
(***************************************************************************)
(* What keeps threads of its own to hand things on, under its fairness:    *)
(* the message manager of a process, the client of a server, and the sink  *)
(* that sends log events to one.  They share no state: a behaviour is one  *)
(* of one of them, chosen at the start.                                    *)
(***************************************************************************)
EXTENDS IpcManager

VARIABLES which,
          connected, clientRunning, autoReconnect, retryCount, connection, open,
          sockets, server, inbox, insync, clientPending, requested, clientPc,
          clientPromise, clientWorker, workerJoinable, clientCurrent, reconnector,
          reconnectJoinable, clientOwner, destroying, ended,
          batching, totalLogs, sinkBegun, flushes, logPc, event, holder, queued,
          sending, tries, linked, sinkWorker, sink, written, sinkDelivered, lost

Client == INSTANCE IpcClient WITH
    Callers <- {"a"}, MaxRetries <- 1, MaxSockets <- 1, MaxMessages <- 1,
    running <- clientRunning, pending <- clientPending, pc <- clientPc,
    promise <- clientPromise, worker <- clientWorker, current <- clientCurrent,
    owner <- clientOwner

Sink == INSTANCE NetworkSink WITH
    Loggers <- {"t1", "t2"}, BatchSize <- 1, RetryAttempts <- 2,
    MaxEvents <- 2, MaxFlushes <- 1,
    begun <- sinkBegun, delivered <- sinkDelivered

ASSUME InstanceAssumption == Client!ClientAssumption /\ Sink!SinkAssumption

clientVars == <<connected, clientRunning, autoReconnect, retryCount, connection,
                open, sockets, server, inbox, insync, clientPending, requested,
                clientPc, clientPromise, clientWorker, workerJoinable,
                clientCurrent, reconnector, reconnectJoinable, clientOwner,
                destroying, ended>>
sinkVars == <<batching, totalLogs, sinkBegun, flushes, logPc, event, holder,
              queued, sending, tries, linked, sinkWorker, sink, written,
              sinkDelivered, lost>>
allVars == <<which, vars, clientVars, sinkVars>>

MCInit == /\ which \in {"manager", "client", "sink"} /\ Init
          /\ Client!Init /\ (which # "client" => server)
          /\ Sink!Init /\ (which # "sink" => batching /\ linked)

MCNext ==
    \/ which = "manager" /\ Next /\ UNCHANGED <<which, clientVars, sinkVars>>
    \/ which = "client" /\ Client!Next /\ UNCHANGED <<which, vars, sinkVars>>
    \/ which = "sink" /\ Sink!Next /\ UNCHANGED <<which, vars, clientVars>>

ManagerFairness ==
    /\ \A c \in Clients : /\ WF_vars(which = "manager" /\ ClientStep(c))
                          /\ SF_vars(which = "manager" /\ Forget(c))
    /\ WF_vars(which = "manager" /\ WorkerStep)
    /\ WF_vars(which = "manager" /\ TimerStep)
    /\ \A r \in Requests : WF_vars(which = "manager" /\ Expire(r))
    /\ WF_vars(which = "manager" /\ Join)

ClientRuns == which = "client" /\ ended = "no"
ClientFairness ==
    /\ WF_clientVars(ClientRuns /\ Client!OwnerStep)
    /\ WF_clientVars(ClientRuns /\ Client!CallerStep("a"))
    /\ WF_clientVars(ClientRuns /\ Client!WorkerStep)
    /\ WF_clientVars(ClientRuns /\ Client!ReconnectStep)

SinkFairness ==
    /\ WF_sinkVars(which = "sink" /\ Sink!WorkerStep)
    /\ SF_sinkVars(which = "sink" /\ Sink!TakeBatch)
    /\ WF_sinkVars(which = "sink" /\ Sink!HolderStep)

MCFairSpec == /\ MCInit /\ [][MCNext]_allVars
              /\ ManagerFairness /\ ClientFairness /\ SinkFairness

-----------------------------------------------------------------------------
\* IpcClient: request(), connect() and disconnect() return, unless a callback has
\* locked the mutex twice or the process has ended.  NetworkSink: a queued event
\* leaves the queue, delivered or given up, unless the sink began without a server:
\* then it has no worker, and the event stays until somebody flushes or removes it.
OthersSettle == Client!CallsReturn /\ Sink!QueueDrains
=============================================================================
