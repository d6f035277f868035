------------------------------ MODULE NetworkSink ------------------------------
(***************************************************************************)
(* common::Logger with one NetworkSink: threads that log and flush, the    *)
(* worker that sends batches, the server behind the socket, and the owner  *)
(* that removes the sink.                                                  *)
(*                                                                         *)
(* Logger::sinksMutex lets one thread at a time into the sink; the sink's  *)
(* own mutex guards its queue.  sendData(), with the socket it opens and   *)
(* closes, runs in the worker without any mutex and in the thread that     *)
(* holds sinksMutex with both: a send that fails may be the other's doing. *)
(***************************************************************************)
EXTENDS Naturals, Sequences, FiniteSets, SequencesExt

CONSTANTS Loggers,        \* application threads
          BatchSize, RetryAttempts,
          MaxEvents,      \* bound on the events logged
          MaxFlushes      \* bound on the calls of flush()

SinkAssumption ==
    /\ BatchSize \in Nat /\ RetryAttempts \in Nat
    /\ MaxEvents \in Nat /\ MaxFlushes \in Nat

VARIABLES batching,       \* batch
          totalLogs,      \* stats.totalLogs, and the source of LogEvent.sequence
          begun, flushes,
          logPc, event,   \* where each thread is, and the sequence of its event
          holder,         \* what the thread that holds sinksMutex does
          queued,         \* the sink's queue
          sending,        \* what each of the two senders is sending ...
          tries,          \* ... and its attempts so far
          linked,         \* connected
          sinkWorker,     \* where processQueue() is
          sink,           \* whether the sink exists, and its process
          written,        \* the events write() has seen, in that order
          delivered,      \* the events the server has got, and from which sender
          lost            \* the events given up, or gone with the sink
vars == <<batching, totalLogs, begun, flushes, logPc, event, holder, queued,
          sending, tries, linked, sinkWorker, sink, written, delivered, lost>>
logging == <<totalLogs, begun, logPc, event>>
outcome == <<delivered, lost>>

Senders == {"worker", "holder"}

\* init() connects, and creates the worker only when that succeeds; the sink is used
\* whatever it returns (Logger.cpp:542).
Init ==
    /\ batching \in BOOLEAN /\ totalLogs = 0 /\ begun = 0 /\ flushes = 0
    /\ logPc = [t \in Loggers |-> "idle"] /\ event = [t \in Loggers |-> 0]
    /\ holder = "none" /\ queued = <<>>
    /\ sending = [s \in Senders |-> <<>>] /\ tries = [s \in Senders |-> 0]
    /\ linked \in BOOLEAN /\ sink = "open"
    /\ sinkWorker = IF batching /\ linked THEN "sleep" ELSE "done"
    /\ written = <<>> /\ delivered = <<>> /\ lost = {}

-----------------------------------------------------------------------------
(* Logger::log()                                                           *)

\* Mutant of Log: the sequence is read before the counter moves.
LogStale(t) ==
    /\ logPc[t] = "idle" /\ begun < MaxEvents /\ begun' = begun + 1
    /\ UNCHANGED totalLogs
    /\ event' = [event EXCEPT ![t] = totalLogs + 1]
    /\ logPc' = [logPc EXCEPT ![t] = "count"]
    /\ UNCHANGED <<batching, flushes, holder, queued, sending, tries, linked,
                   sinkWorker, sink, written, outcome>>

\* The event takes its sequence from the counter ...
Log(t) ==
    /\ logPc[t] = "idle" /\ begun < MaxEvents /\ begun' = begun + 1
    /\ totalLogs' = totalLogs + 1
    /\ event' = [event EXCEPT ![t] = totalLogs']
    /\ logPc' = [logPc EXCEPT ![t] = "count"]
    /\ UNCHANGED <<batching, flushes, holder, queued, sending, tries, linked,
                   sinkWorker, sink, written, outcome>>

\* ... which incrementStats() increments once more.
Count(t) ==
    /\ logPc[t] = "count"
    /\ totalLogs' = totalLogs + 1
    /\ logPc' = [logPc EXCEPT ![t] = "write"]
    /\ UNCHANGED <<batching, begun, event, flushes, holder, queued, sending,
                   tries, linked, sinkWorker, sink, written, outcome>>

\* logEvent() takes sinksMutex.  write() queues the event or, when the queue holds
\* two batches, drops it; without batching it sends it here and now.
Write(t) ==
    /\ logPc[t] = "write" /\ holder = "none"
    /\ logPc' = [logPc EXCEPT ![t] = "idle"]
    /\ written' = IF sink = "open" THEN Append(written, event[t]) ELSE written
    /\ IF sink = "open" /\ batching /\ Len(queued) < BatchSize * 2
       THEN queued' = Append(queued, event[t]) ELSE UNCHANGED queued
    /\ IF sink = "open" /\ batching /\ Len(queued) >= BatchSize * 2
       THEN lost' = lost \cup {event[t]} ELSE UNCHANGED lost
    /\ IF sink = "open" /\ ~ batching
       THEN /\ holder' = "write"
            /\ sending' = [sending EXCEPT !["holder"] = <<event[t]>>]
       ELSE UNCHANGED <<holder, sending>>
    /\ UNCHANGED <<batching, totalLogs, begun, event, flushes, tries, linked,
                   sinkWorker, sink, delivered>>

\* Logger::flush() takes sinksMutex and NetworkSink::flush() the sink's.
Flush ==
    /\ holder = "none" /\ flushes < MaxFlushes /\ batching /\ sink = "open"
    /\ flushes' = flushes + 1 /\ holder' = "flush"
    /\ UNCHANGED <<batching, logging, queued, sending, tries, linked, sinkWorker,
                   sink, written, outcome>>

\* It sends the queue, message by message, and then releases both.
FlushNext ==
    /\ holder = "flush" /\ sending["holder"] = <<>> /\ queued # <<>>
    /\ sending' = [sending EXCEPT !["holder"] = <<Head(queued)>>]
    /\ queued' = Tail(queued)
    /\ UNCHANGED <<batching, logging, flushes, holder, tries, linked, sinkWorker,
                   sink, written, outcome>>

Leave ==
    /\ \/ holder = "flush" /\ queued = <<>>
       \/ holder = "write"
    /\ sending["holder"] = <<>>
    /\ holder' = "none"
    /\ UNCHANGED <<batching, logging, flushes, queued, sending, tries, linked,
                   sinkWorker, sink, written, outcome>>

-----------------------------------------------------------------------------
(* sendData()                                                              *)

Ends(s) == /\ sending' = [sending EXCEPT ![s] = <<>>]
           /\ tries' = [tries EXCEPT ![s] = 0]
SendUnchanged == UNCHANGED <<batching, logging, flushes, holder, queued,
                             sinkWorker, sink, written>>

Delivers(s) ==
    delivered' = delivered \o [i \in DOMAIN sending[s] |->
                                  [seq |-> sending[s][i], by |-> s]]

\* Mutant of SendSucceeds: the data is sent once more.
SendRepeats(s) ==
    /\ sending[s] # <<>> /\ Delivers(s) /\ linked' = TRUE
    /\ tries' = [tries EXCEPT ![s] = @ + 1]
    /\ IF tries'[s] >= RetryAttempts THEN sending' = [sending EXCEPT ![s] = <<>>]
                                     ELSE UNCHANGED sending
    /\ UNCHANGED lost
    /\ SendUnchanged

SendSucceeds(s) ==
    /\ sending[s] # <<>> /\ tries[s] < RetryAttempts
    /\ Delivers(s) /\ linked' = TRUE /\ Ends(s)
    /\ UNCHANGED lost
    /\ SendUnchanged

\* An attempt fails; the socket is closed and, perhaps, connected again.
SendFails(s) ==
    /\ sending[s] # <<>> /\ tries[s] < RetryAttempts
    /\ tries' = [tries EXCEPT ![s] = @ + 1]
    /\ linked' \in BOOLEAN
    /\ UNCHANGED <<sending, outcome>>
    /\ SendUnchanged

\* Mutant of GiveUp: the sender keeps trying.
GiveUpNever(s) ==
    /\ sending[s] # <<>> /\ tries[s] >= RetryAttempts
    /\ UNCHANGED vars

\* There is no connection to begin with, or no attempt is left.
GiveUp(s) ==
    /\ sending[s] # <<>>
    /\ (tries[s] = 0 /\ ~ linked) \/ tries[s] >= RetryAttempts
    /\ lost' = lost \cup ToSet(sending[s])
    /\ Ends(s)
    /\ UNCHANGED <<linked, delivered>>
    /\ SendUnchanged

Send(s) == SendSucceeds(s) \/ SendFails(s) \/ GiveUp(s)

\* The server has closed the connection: send() without MSG_NOSIGNAL raises SIGPIPE,
\* which ends the process with all its events.
BrokenPipe(s) ==
    /\ sending[s] # <<>> /\ tries[s] < RetryAttempts
    /\ linked \/ tries[s] = 0
    /\ sink' = "killed" /\ holder' = "none" /\ sinkWorker' = "done"
    /\ lost' = lost \cup ToSet(queued) \cup UNION {ToSet(sending[r]) : r \in Senders}
    /\ queued' = <<>> /\ sending' = [r \in Senders |-> <<>>]
    /\ UNCHANGED <<batching, logging, flushes, tries, linked, written, delivered>>

-----------------------------------------------------------------------------
(* The worker and the owner.                                               *)

\* processQueue(): running is tested, then the thread sleeps; the batch is
\* taken under the mutex.
WorkerTest ==
    /\ sinkWorker = "test"
    /\ sinkWorker' = IF sink = "open" THEN "sleep" ELSE "done"
    /\ UNCHANGED <<batching, logging, flushes, holder, queued, sending, tries,
                   linked, sink, written, outcome>>

\* Mutant of TakeBatch: the messages are copied and stay in the queue.
CopyBatch ==
    /\ sinkWorker = "sleep" /\ holder # "flush"
    /\ LET n == IF Len(queued) < BatchSize THEN Len(queued) ELSE BatchSize IN
           sending' = [sending EXCEPT !["worker"] = SubSeq(queued, 1, n)]
    /\ sinkWorker' = "send"
    /\ UNCHANGED <<batching, logging, flushes, holder, queued, tries, linked,
                   sink, written, outcome>>

\* Mutant of TakeBatch: the youngest messages are taken.
TakeYoungest ==
    /\ sinkWorker = "sleep" /\ holder # "flush"
    /\ LET n == IF Len(queued) < BatchSize THEN Len(queued) ELSE BatchSize IN
           /\ sending' = [sending EXCEPT !["worker"] =
                             SubSeq(queued, Len(queued) - n + 1, Len(queued))]
           /\ queued' = SubSeq(queued, 1, Len(queued) - n)
    /\ sinkWorker' = "send"
    /\ UNCHANGED <<batching, logging, flushes, holder, tries, linked, sink,
                   written, outcome>>

TakeBatch ==
    /\ sinkWorker = "sleep" /\ holder # "flush"
    /\ LET n == IF Len(queued) < BatchSize THEN Len(queued) ELSE BatchSize IN
           /\ sending' = [sending EXCEPT !["worker"] = SubSeq(queued, 1, n)]
           /\ queued' = SubSeq(queued, n + 1, Len(queued))
    /\ sinkWorker' = "send"
    /\ UNCHANGED <<batching, logging, flushes, holder, tries, linked, sink,
                   written, outcome>>

WorkerSent ==
    /\ sinkWorker = "send" /\ sending["worker"] = <<>>
    /\ sinkWorker' = "test"
    /\ UNCHANGED <<batching, logging, flushes, holder, queued, sending, tries,
                   linked, sink, written, outcome>>

\* removeSinks() or clearSinks() under sinksMutex: the destructor clears running,
\* waits for the worker and disconnects; what is queued goes with the sink.
RemoveSink ==
    /\ holder = "none" /\ sink = "open"
    /\ sink' = "closing" /\ holder' = "remove"
    /\ UNCHANGED <<batching, logging, flushes, queued, sending, tries, linked,
                   sinkWorker, written, outcome>>

SinkRemoved ==
    /\ holder = "remove" /\ sinkWorker = "done"
    /\ sink' = "gone" /\ holder' = "none" /\ linked' = FALSE
    /\ lost' = lost \cup ToSet(queued) /\ queued' = <<>>
    /\ UNCHANGED <<batching, logging, flushes, sending, tries, sinkWorker,
                   written, delivered>>

WorkerStep == WorkerTest \/ TakeBatch \/ WorkerSent \/ Send("worker")
HolderStep == FlushNext \/ Leave \/ Send("holder") \/ SinkRemoved

Next ==
    /\ sink # "killed"
    /\ \/ \E t \in Loggers : Log(t) \/ Count(t) \/ Write(t)
       \/ Flush \/ RemoveSink \/ WorkerStep \/ HolderStep
       \/ \E s \in Senders : BrokenPipe(s)

Spec == Init /\ [][Next]_vars

\* Threads run, and the worker gets the mutex flush() releases.
Fairness == WF_vars(WorkerStep) /\ SF_vars(TakeBatch) /\ WF_vars(HolderStep)
FairSpec == Spec /\ Fairness

-----------------------------------------------------------------------------
TypeOK ==
    /\ batching \in BOOLEAN /\ linked \in BOOLEAN
    /\ begun \in 0 .. MaxEvents /\ totalLogs \in 0 .. 2 * begun
    /\ flushes \in 0 .. MaxFlushes
    /\ logPc \in [Loggers -> {"idle", "count", "write"}]
    /\ event \in [Loggers -> 0 .. totalLogs]
    /\ holder \in {"none", "write", "flush", "remove"}
    /\ Len(queued) <= 2 * BatchSize
    /\ Len(sending["worker"]) <= BatchSize /\ Len(sending["holder"]) <= 1
    /\ tries \in [Senders -> 0 .. RetryAttempts]
    /\ sinkWorker \in {"sleep", "send", "test", "done"}
    /\ sink \in {"open", "closing", "gone", "killed"}

\* Every event that reached the sink is in one place: the queue, one of the two
\* senders, the server, or given up.  None is sent twice, by a retry or by worker
\* and flush() both, and no two events have the same sequence.
EachEventOnce ==
    LET held == queued \o sending["worker"] \o sending["holder"]
                \o [i \in DOMAIN delivered |-> delivered[i].seq] IN
    /\ IsInjective(held) /\ IsInjective(written)
    /\ ToSet(held) \cap lost = {}
    /\ ToSet(held) \cup lost = ToSet(written)

\* The server gets the events in the order of write(), except that flush()
\* overtakes the batch the worker took before and has not sent yet.
OnlyFlushOvertakes ==
    LET At(e) == CHOOSE k \in DOMAIN written : written[k] = e IN
    \A i, j \in DOMAIN delivered :
        i < j /\ At(delivered[i].seq) > At(delivered[j].seq)
            => delivered[i].by = "holder" /\ delivered[j].by = "worker"

-----------------------------------------------------------------------------
\* What waits, the oldest first: the worker's batch, the message of a flush, and
\* the queue.
Channel == INSTANCE EventChannel WITH
    channel <- sending["worker"] \o sending["holder"] \o queued,
    open <- sink \notin {"gone", "killed"}

\* Step by step the sink does what a channel of events would: it delivers or gives
\* up whole batches of the oldest, overtakes no more than one batch, refuses an
\* event only when two batches wait, and keeps nothing when it is removed.
ImplementsChannel == Channel!Spec

\* init() failed with batching on: the sink queues, and nobody takes from the queue
\* but a flush() or the end of the sink.
Unserved == batching /\ sink = "open" /\ sinkWorker = "done"

\* A queued event leaves the queue, delivered or given up, but for the sink that init()
\* left without a worker.
QueueDrains ==
    \A e \in 1 .. 2 * MaxEvents :
        e \in ToSet(queued) /\ ~ Unserved ~> e \notin ToSet(queued)
=============================================================================
