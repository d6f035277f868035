---------------------------- MODULE IpcClientProofs ----------------------------
(***************************************************************************)
(* Proofs about the client of a server: its types, that the table of       *)
(* requests has no entry without a call, and that disconnect() is clean.   *)
(*                                                                         *)
(* The invariant says of the worker's std::thread when it may be joinable, *)
(* and of a client without automatic reconnection what each point of its   *)
(* owner knows of the connection, the thread and the socket.               *)
(***************************************************************************)
EXTENDS IpcClient, TLAPS

\* A worker that nobody can join has not begun or has returned; the same holds of
\* the thread that reconnects before its first start.
Joinable ==
    /\ ~ workerJoinable => worker \in {"none", "done"}
    /\ reconnector = "none" => ~ reconnectJoinable

\* The promise of a call that has not entered itself is empty; one that is set
\* leaves the table before the worker looks anything else up.
Promises ==
    /\ \A c \in Callers : pc[c] = "insert" => promise[c] = "empty"
    /\ \A c \in pending :
           ended = "no" /\ promise[c] = "set" => worker = "forget" /\ current = c

\* Nothing runs before the first socket.
Unused ==
    sockets = 0 =>
        /\ ~ connected /\ ~ running /\ ~ workerJoinable /\ worker = "none"
        /\ owner # "start" /\ reconnector # "start"

\* Without automatic reconnection no thread reconnects.
NoReconnection ==
    ~ autoReconnect =>
        /\ reconnector = "none" /\ ~ reconnectJoinable
        /\ owner # "reconnect" /\ worker # "reconnect"
        /\ ended # "terminate"

\* Without automatic reconnection: the owner has a connection with its thread and
\* its socket, or none of the three, or is between the two.
Stopped == ~ running /\ ~ workerJoinable
Owned ==
    ~ autoReconnect =>
        /\ open \subseteq {connection}
        /\ owner = "idle" =>
               IF connected THEN running ELSE Stopped /\ open = {}
        /\ owner = "start" => connected /\ Stopped
        /\ owner \in {"stop", "joinWorker", "joinReconnect", "cleanup"} => ~ connected
        /\ owner = "joinWorker" => ~ running
        /\ owner \in {"joinReconnect", "cleanup"} => Stopped
        /\ owner \in {"destroy", "destroyed"} => ~ connected /\ Stopped /\ open = {}

OwnerInv == Joinable /\ Unused /\ NoReconnection /\ Owned
TableInv == Promises /\ EntriesHaveCallers

IInv == TypeOK /\ OwnerInv /\ TableInv

-----------------------------------------------------------------------------
\* The types: connected, running and the rest change by assignment, the sockets by
\* counting, the table by the calls that enter it.
LEMMA TypeStep ==
    ASSUME ClientAssumption, TypeOK, [Next]_vars PROVE  TypeOK'
<1>1. ASSUME ended = "no", Configure PROVE  TypeOK'
    BY <1>1 DEF TypeOK, Replies, Configure, flags, socket, calls, reading,
        retrying
<1>2. ASSUME ended = "no", ConnectSucceeds PROVE  TypeOK'
    BY <1>2 DEF TypeOK, ClientAssumption, Replies, ConnectSucceeds, Opens,
        OwnerUnchanged, calls
<1>3. ASSUME ended = "no", ConnectFails PROVE  TypeOK'
    BY <1>3 DEF TypeOK, Replies, ConnectFails, OpenFails, OwnerUnchanged, flags,
        calls, retrying
<1>4. ASSUME ended = "no", Disconnect PROVE  TypeOK'
    BY <1>4 DEF TypeOK, Replies, Disconnect, OwnerUnchanged, socket, calls,
        retrying
<1>5. ASSUME ended = "no", OwnerStarts PROVE  TypeOK'
    BY <1>5 DEF TypeOK, Replies, OwnerStarts, Starts, OwnerUnchanged, socket,
        calls, retrying
<1>6. ASSUME ended = "no", OwnerReconnects PROVE  TypeOK'
    BY <1>6 DEF TypeOK, Replies, OwnerReconnects, HandlesReconnect,
        OwnerUnchanged, flags, socket, calls
<1>7. ASSUME ended = "no", OwnerStops PROVE  TypeOK'
    BY <1>7 DEF TypeOK, Replies, OwnerStops, OwnerUnchanged, socket, calls
<1>8. ASSUME ended = "no", Cleanup PROVE  TypeOK'
    BY <1>8 DEF TypeOK, Replies, Cleanup, OwnerUnchanged, flags, calls, retrying
<1>9. ASSUME ended = "no", Destroy PROVE  TypeOK'
    BY <1>9 DEF TypeOK, Replies, Destroy, OwnerUnchanged, flags, socket, calls,
        retrying
<1>10. ASSUME NEW c \in Callers, ended = "no", Request(c) PROVE  TypeOK'
    BY <1>10 DEF TypeOK, Request, Goto, CallerUnchanged, flags, socket, reading,
        retrying, owning
<1>11. ASSUME NEW c \in Callers, ended = "no", Insert(c) PROVE  TypeOK'
    BY <1>11 DEF TypeOK, Insert, MutexFree, Goto, CallerUnchanged, flags,
        socket, reading, retrying, owning
<1>12. ASSUME NEW c \in Callers, ended = "no", SendRequest(c) PROVE  TypeOK'
    BY <1>12 DEF TypeOK, SendRequest, Goto, CallerUnchanged, flags, socket,
        reading, retrying, owning
<1>13. ASSUME NEW c \in Callers, ended = "no", Wait(c) PROVE  TypeOK'
    BY <1>13 DEF TypeOK, Wait, Goto, CallerUnchanged, flags, socket, reading,
        retrying, owning
<1>14. ASSUME NEW c \in Callers, ended = "no", Erase(c) PROVE  TypeOK'
    BY <1>14 DEF TypeOK, Erase, MutexFree, Goto, CallerUnchanged, flags, socket,
        reading, retrying, owning
<1>15. ASSUME ended = "no", WorkerLoop PROVE  TypeOK'
    BY <1>15 DEF TypeOK, Replies, WorkerLoop, WorkerUnchanged, flags, socket,
        owning
<1>16. ASSUME ended = "no", ReceiveMessage PROVE  TypeOK'
    BY <1>16 DEF TypeOK, ClientAssumption, Replies, ReceiveMessage,
        WorkerUnchanged, flags, socket, owning
<1>17. ASSUME ended = "no", ReceiveNothing PROVE  TypeOK'
    <2>1. inbox' \in Seq(Replies) /\ Len(inbox') <= MaxMessages
        <3>1. CASE UNCHANGED inbox
            BY <3>1 DEF TypeOK
        <3>2. CASE inbox' = <<>>
            BY <3>2 DEF TypeOK, ClientAssumption
        <3>3. QED
            BY <1>17, <3>1, <3>2 DEF ReceiveNothing
    <2>2. insync' \in BOOLEAN
        BY <1>17 DEF TypeOK, ReceiveNothing
    <2>3. QED
        BY <1>17, <2>1, <2>2 DEF TypeOK, ReceiveNothing, WorkerUnchanged, flags,
            socket, owning
<1>18. ASSUME ended = "no", CallHandler PROVE  TypeOK'
    BY <1>18 DEF TypeOK, Replies, CallHandler, WorkerUnchanged, flags, socket,
        owning
<1>19. ASSUME ended = "no", ForgetRequest PROVE  TypeOK'
    BY <1>19 DEF TypeOK, Replies, ForgetRequest, WorkerUnchanged, flags, socket,
        owning
<1>20. ASSUME ended = "no", CallSubscribers PROVE  TypeOK'
    BY <1>20 DEF TypeOK, Replies, CallSubscribers, WorkerUnchanged, flags,
        socket, owning
<1>21. ASSUME ended = "no", CheckConnection PROVE  TypeOK'
    BY <1>21 DEF TypeOK, Replies, CheckConnection, WorkerUnchanged, flags,
        socket, owning
<1>22. ASSUME ended = "no", WorkerReconnects PROVE  TypeOK'
    BY <1>22 DEF TypeOK, Replies, WorkerReconnects, HandlesReconnect,
        WorkerUnchanged, flags, socket, owning
<1>23. ASSUME ended = "no", RetryTest PROVE  TypeOK'
    BY <1>23 DEF TypeOK, Replies, RetryTest, ReconnectUnchanged, flags, socket,
        calls, owning
<1>24. ASSUME ended = "no", RetryFails PROVE  TypeOK'
    BY <1>24 DEF TypeOK, Replies, RetryFails, OpenFails, ReconnectUnchanged,
        flags, calls, owning
<1>25. ASSUME ended = "no", RetrySucceeds PROVE  TypeOK'
    BY <1>25 DEF TypeOK, ClientAssumption, Replies, RetrySucceeds, Opens,
        ReconnectUnchanged, calls, owning
<1>26. ASSUME ended = "no", RetryStarts PROVE  TypeOK'
    BY <1>26 DEF TypeOK, Replies, RetryStarts, Starts, ReconnectUnchanged,
        socket, calls, owning
<1>27. ASSUME ended = "no", Answer PROVE  TypeOK'
    BY <1>27 DEF TypeOK, ClientAssumption, Replies, Answer, Publication,
        PeerUnchanged, flags, socket, calls, reading, retrying, owning
<1>28. ASSUME ended = "no", ServerChanges PROVE  TypeOK'
    BY <1>28 DEF TypeOK, Replies, ServerChanges, PeerUnchanged, flags, socket,
        calls, reading, retrying, owning
<1>29. CASE UNCHANGED vars
    BY <1>29 DEF TypeOK, ClientAssumption, Replies, vars, flags, socket, peer,
        calls, reading, retrying, owning
<1>30. QED
    BY <1>1, <1>2, <1>3, <1>4, <1>5, <1>6, <1>7, <1>8, <1>9, <1>10, <1>11,
        <1>12, <1>13, <1>14, <1>15, <1>16, <1>17, <1>18, <1>19, <1>20, <1>21,
        <1>22, <1>23, <1>24, <1>25, <1>26, <1>27, <1>28, <1>29
      DEF Next, OwnerCall, OwnerStep, CallerStep, WorkerStep, ReconnectStep

-----------------------------------------------------------------------------
\* The owner, the worker's std::thread and the thread that reconnects.
LEMMA OwnerStepKeeps ==
    ASSUME TypeOK, OwnerInv, [Next]_vars PROVE  OwnerInv'
<1>1. ASSUME ended = "no", Configure PROVE  OwnerInv'
    BY <1>1 DEF TypeOK, OwnerInv, Joinable, Unused, NoReconnection, Owned,
        Stopped, Configure, flags, socket, calls, reading, retrying
<1>2. ASSUME ended = "no", ConnectSucceeds PROVE  OwnerInv'
    BY <1>2 DEF TypeOK, OwnerInv, Joinable, Unused, NoReconnection, Owned,
        Stopped, ConnectSucceeds, Opens, OwnerUnchanged, calls
<1>3. ASSUME ended = "no", ConnectFails PROVE  OwnerInv'
    BY <1>3 DEF TypeOK, OwnerInv, Joinable, Unused, NoReconnection, Owned,
        Stopped, ConnectFails, OpenFails, OwnerUnchanged, flags, calls, retrying
<1>4. ASSUME ended = "no", Disconnect PROVE  OwnerInv'
    BY <1>4 DEF TypeOK, OwnerInv, Joinable, Unused, NoReconnection, Owned,
        Stopped, Disconnect, OwnerUnchanged, socket, calls, retrying
<1>5. ASSUME ended = "no", OwnerStarts PROVE  OwnerInv'
    BY <1>5 DEF TypeOK, OwnerInv, Joinable, Unused, NoReconnection, Owned,
        Stopped, OwnerStarts, Starts, OwnerUnchanged, socket, calls, retrying
<1>6. ASSUME ended = "no", OwnerReconnects PROVE  OwnerInv'
    BY <1>6 DEF TypeOK, OwnerInv, Joinable, Unused, NoReconnection, Owned,
        Stopped, OwnerReconnects, HandlesReconnect, OwnerUnchanged, flags,
        socket, calls
<1>7. ASSUME ended = "no", OwnerStops PROVE  OwnerInv'
    BY <1>7 DEF TypeOK, OwnerInv, Joinable, Unused, NoReconnection, Owned,
        Stopped, OwnerStops, OwnerUnchanged, socket, calls
<1>8. ASSUME ended = "no", Cleanup PROVE  OwnerInv'
    BY <1>8 DEF TypeOK, OwnerInv, Joinable, Unused, NoReconnection, Owned,
        Stopped, Cleanup, OwnerUnchanged, flags, calls, retrying
<1>9. ASSUME ended = "no", Destroy PROVE  OwnerInv'
    BY <1>9 DEF TypeOK, OwnerInv, Joinable, Unused, NoReconnection, Owned,
        Stopped, Destroy, OwnerUnchanged, flags, socket, calls, retrying
<1>10. ASSUME NEW c \in Callers, ended = "no", Request(c) PROVE  OwnerInv'
    BY <1>10 DEF TypeOK, OwnerInv, Joinable, Unused, NoReconnection, Owned,
        Stopped, Request, Goto, CallerUnchanged, flags, socket, reading,
        retrying, owning
<1>11. ASSUME NEW c \in Callers, ended = "no", Insert(c) PROVE  OwnerInv'
    BY <1>11 DEF TypeOK, OwnerInv, Joinable, Unused, NoReconnection, Owned,
        Stopped, Insert, MutexFree, Goto, CallerUnchanged, flags, socket,
        reading, retrying, owning
<1>12. ASSUME NEW c \in Callers, ended = "no", SendRequest(c) PROVE  OwnerInv'
    BY <1>12 DEF TypeOK, OwnerInv, Joinable, Unused, NoReconnection, Owned,
        Stopped, SendRequest, Goto, CallerUnchanged, flags, socket, reading,
        retrying, owning
<1>13. ASSUME NEW c \in Callers, ended = "no", Wait(c) PROVE  OwnerInv'
    BY <1>13 DEF TypeOK, OwnerInv, Joinable, Unused, NoReconnection, Owned,
        Stopped, Wait, Goto, CallerUnchanged, flags, socket, reading, retrying,
        owning
<1>14. ASSUME NEW c \in Callers, ended = "no", Erase(c) PROVE  OwnerInv'
    BY <1>14 DEF TypeOK, OwnerInv, Joinable, Unused, NoReconnection, Owned,
        Stopped, Erase, MutexFree, Goto, CallerUnchanged, flags, socket,
        reading, retrying, owning
<1>15. ASSUME ended = "no", WorkerLoop PROVE  OwnerInv'
    BY <1>15 DEF TypeOK, OwnerInv, Joinable, Unused, NoReconnection, Owned,
        Stopped, WorkerLoop, WorkerUnchanged, flags, socket, owning
<1>16. ASSUME ended = "no", ReceiveMessage PROVE  OwnerInv'
    BY <1>16 DEF TypeOK, OwnerInv, Joinable, Unused, NoReconnection, Owned,
        Stopped, ReceiveMessage, WorkerUnchanged, flags, socket, owning
<1>17. ASSUME ended = "no", ReceiveNothing PROVE  OwnerInv'
    BY <1>17 DEF TypeOK, OwnerInv, Joinable, Unused, NoReconnection, Owned,
        Stopped, ReceiveNothing, WorkerUnchanged, flags, socket, owning
<1>18. ASSUME ended = "no", CallHandler PROVE  OwnerInv'
    BY <1>18 DEF TypeOK, OwnerInv, Joinable, Unused, NoReconnection, Owned,
        Stopped, CallHandler, WorkerUnchanged, flags, socket, owning
<1>19. ASSUME ended = "no", ForgetRequest PROVE  OwnerInv'
    BY <1>19 DEF TypeOK, OwnerInv, Joinable, Unused, NoReconnection, Owned,
        Stopped, ForgetRequest, WorkerUnchanged, flags, socket, owning
<1>20. ASSUME ended = "no", CallSubscribers PROVE  OwnerInv'
    BY <1>20 DEF TypeOK, OwnerInv, Joinable, Unused, NoReconnection, Owned,
        Stopped, CallSubscribers, WorkerUnchanged, flags, socket, owning
<1>21. ASSUME ended = "no", CheckConnection PROVE  OwnerInv'
    BY <1>21 DEF TypeOK, OwnerInv, Joinable, Unused, NoReconnection, Owned,
        Stopped, CheckConnection, WorkerUnchanged, flags, socket, owning
<1>22. ASSUME ended = "no", WorkerReconnects PROVE  OwnerInv'
    BY <1>22 DEF TypeOK, OwnerInv, Joinable, Unused, NoReconnection, Owned,
        Stopped, WorkerReconnects, HandlesReconnect, WorkerUnchanged, flags,
        socket, owning
<1>23. ASSUME ended = "no", RetryTest PROVE  OwnerInv'
    BY <1>23 DEF TypeOK, OwnerInv, Joinable, Unused, NoReconnection, Owned,
        Stopped, RetryTest, ReconnectUnchanged, flags, socket, calls, owning
<1>24. ASSUME ended = "no", RetryFails PROVE  OwnerInv'
    BY <1>24 DEF TypeOK, OwnerInv, Joinable, Unused, NoReconnection, Owned,
        Stopped, RetryFails, OpenFails, ReconnectUnchanged, flags, calls, owning
<1>25. ASSUME ended = "no", RetrySucceeds PROVE  OwnerInv'
    BY <1>25 DEF TypeOK, OwnerInv, Joinable, Unused, NoReconnection, Owned,
        Stopped, RetrySucceeds, Opens, ReconnectUnchanged, calls, owning
<1>26. ASSUME ended = "no", RetryStarts PROVE  OwnerInv'
    BY <1>26 DEF TypeOK, OwnerInv, Joinable, Unused, NoReconnection, Owned,
        Stopped, RetryStarts, Starts, ReconnectUnchanged, socket, calls, owning
<1>27. ASSUME ended = "no", Answer PROVE  OwnerInv'
    BY <1>27 DEF TypeOK, OwnerInv, Joinable, Unused, NoReconnection, Owned,
        Stopped, Answer, PeerUnchanged, flags, socket, calls, reading, retrying,
        owning
<1>28. ASSUME ended = "no", ServerChanges PROVE  OwnerInv'
    BY <1>28 DEF TypeOK, OwnerInv, Joinable, Unused, NoReconnection, Owned,
        Stopped, ServerChanges, PeerUnchanged, flags, socket, calls, reading,
        retrying, owning
<1>29. CASE UNCHANGED vars
    BY <1>29 DEF TypeOK, OwnerInv, Joinable, Unused, NoReconnection, Owned,
        Stopped, vars, flags, socket, peer, calls, reading, retrying, owning
<1>30. QED
    BY <1>1, <1>2, <1>3, <1>4, <1>5, <1>6, <1>7, <1>8, <1>9, <1>10, <1>11,
        <1>12, <1>13, <1>14, <1>15, <1>16, <1>17, <1>18, <1>19, <1>20, <1>21,
        <1>22, <1>23, <1>24, <1>25, <1>26, <1>27, <1>28, <1>29
      DEF Next, OwnerCall, OwnerStep, CallerStep, WorkerStep, ReconnectStep

-----------------------------------------------------------------------------
\* The table of requests and the promises of the calls in it.
LEMMA TableStep ==
    ASSUME TypeOK, Joinable, TableInv, [Next]_vars PROVE  TableInv'
<1>1. ASSUME ended = "no", Configure PROVE  TableInv'
    BY <1>1 DEF TypeOK, Joinable, TableInv, Promises, EntriesHaveCallers,
        Configure, flags, socket, calls, reading, retrying
<1>2. ASSUME ended = "no", ConnectSucceeds PROVE  TableInv'
    BY <1>2 DEF TypeOK, Joinable, TableInv, Promises, EntriesHaveCallers,
        ConnectSucceeds, Opens, OwnerUnchanged, calls
<1>3. ASSUME ended = "no", ConnectFails PROVE  TableInv'
    BY <1>3 DEF TypeOK, Joinable, TableInv, Promises, EntriesHaveCallers,
        ConnectFails, OpenFails, OwnerUnchanged, flags, calls, retrying
<1>4. ASSUME ended = "no", Disconnect PROVE  TableInv'
    BY <1>4 DEF TypeOK, Joinable, TableInv, Promises, EntriesHaveCallers,
        Disconnect, OwnerUnchanged, socket, calls, retrying
<1>5. ASSUME ended = "no", OwnerStarts PROVE  TableInv'
    BY <1>5 DEF TypeOK, Joinable, TableInv, Promises, EntriesHaveCallers,
        OwnerStarts, Starts, OwnerUnchanged, socket, calls, retrying
<1>6. ASSUME ended = "no", OwnerReconnects PROVE  TableInv'
    BY <1>6 DEF TypeOK, Joinable, TableInv, Promises, EntriesHaveCallers,
        OwnerReconnects, HandlesReconnect, OwnerUnchanged, flags, socket, calls
<1>7. ASSUME ended = "no", OwnerStops PROVE  TableInv'
    BY <1>7 DEF TypeOK, Joinable, TableInv, Promises, EntriesHaveCallers,
        OwnerStops, OwnerUnchanged, socket, calls
<1>8. ASSUME ended = "no", Cleanup PROVE  TableInv'
    BY <1>8 DEF TypeOK, Joinable, TableInv, Promises, EntriesHaveCallers,
        Cleanup, OwnerUnchanged, flags, calls, retrying
<1>9. ASSUME ended = "no", Destroy PROVE  TableInv'
    BY <1>9 DEF TypeOK, Joinable, TableInv, Promises, EntriesHaveCallers,
        Destroy, OwnerUnchanged, flags, socket, calls, retrying
<1>10. ASSUME NEW c \in Callers, ended = "no", Request(c) PROVE  TableInv'
    BY <1>10 DEF TypeOK, Joinable, TableInv, Promises, EntriesHaveCallers,
        Request, Goto, CallerUnchanged, flags, socket, reading, retrying, owning
<1>11. ASSUME NEW c \in Callers, ended = "no", Insert(c) PROVE  TableInv'
    BY <1>11 DEF TypeOK, Joinable, TableInv, Promises, EntriesHaveCallers,
        Insert, MutexFree, Goto, CallerUnchanged, flags, socket, reading,
        retrying, owning
<1>12. ASSUME NEW c \in Callers, ended = "no", SendRequest(c) PROVE  TableInv'
    BY <1>12 DEF TypeOK, Joinable, TableInv, Promises, EntriesHaveCallers,
        SendRequest, Goto, CallerUnchanged, flags, socket, reading, retrying,
        owning
<1>13. ASSUME NEW c \in Callers, ended = "no", Wait(c) PROVE  TableInv'
    BY <1>13 DEF TypeOK, Joinable, TableInv, Promises, EntriesHaveCallers, Wait,
        Goto, CallerUnchanged, flags, socket, reading, retrying, owning
<1>14. ASSUME NEW c \in Callers, ended = "no", Erase(c) PROVE  TableInv'
    BY <1>14 DEF TypeOK, Joinable, TableInv, Promises, EntriesHaveCallers,
        Erase, MutexFree, Goto, CallerUnchanged, flags, socket, reading,
        retrying, owning
<1>15. ASSUME ended = "no", WorkerLoop PROVE  TableInv'
    BY <1>15 DEF TypeOK, Joinable, TableInv, Promises, EntriesHaveCallers,
        WorkerLoop, WorkerUnchanged, flags, socket, owning
<1>16. ASSUME ended = "no", ReceiveMessage PROVE  TableInv'
    BY <1>16 DEF TypeOK, Joinable, TableInv, Promises, EntriesHaveCallers,
        ReceiveMessage, WorkerUnchanged, flags, socket, owning
<1>17. ASSUME ended = "no", ReceiveNothing PROVE  TableInv'
    BY <1>17 DEF TypeOK, Joinable, TableInv, Promises, EntriesHaveCallers,
        ReceiveNothing, WorkerUnchanged, flags, socket, owning
<1>18. ASSUME ended = "no", CallHandler PROVE  TableInv'
    BY <1>18 DEF TypeOK, Joinable, TableInv, Promises, EntriesHaveCallers,
        CallHandler, WorkerUnchanged, flags, socket, owning
<1>19. ASSUME ended = "no", ForgetRequest PROVE  TableInv'
    BY <1>19 DEF TypeOK, Joinable, TableInv, Promises, EntriesHaveCallers,
        ForgetRequest, WorkerUnchanged, flags, socket, owning
<1>20. ASSUME ended = "no", CallSubscribers PROVE  TableInv'
    BY <1>20 DEF TypeOK, Joinable, TableInv, Promises, EntriesHaveCallers,
        CallSubscribers, WorkerUnchanged, flags, socket, owning
<1>21. ASSUME ended = "no", CheckConnection PROVE  TableInv'
    BY <1>21 DEF TypeOK, Joinable, TableInv, Promises, EntriesHaveCallers,
        CheckConnection, WorkerUnchanged, flags, socket, owning
<1>22. ASSUME ended = "no", WorkerReconnects PROVE  TableInv'
    BY <1>22 DEF TypeOK, Joinable, TableInv, Promises, EntriesHaveCallers,
        WorkerReconnects, HandlesReconnect, WorkerUnchanged, flags, socket,
        owning
<1>23. ASSUME ended = "no", RetryTest PROVE  TableInv'
    BY <1>23 DEF TypeOK, Joinable, TableInv, Promises, EntriesHaveCallers,
        RetryTest, ReconnectUnchanged, flags, socket, calls, owning
<1>24. ASSUME ended = "no", RetryFails PROVE  TableInv'
    BY <1>24 DEF TypeOK, Joinable, TableInv, Promises, EntriesHaveCallers,
        RetryFails, OpenFails, ReconnectUnchanged, flags, calls, owning
<1>25. ASSUME ended = "no", RetrySucceeds PROVE  TableInv'
    BY <1>25 DEF TypeOK, Joinable, TableInv, Promises, EntriesHaveCallers,
        RetrySucceeds, Opens, ReconnectUnchanged, calls, owning
<1>26. ASSUME ended = "no", RetryStarts PROVE  TableInv'
    BY <1>26 DEF TypeOK, Joinable, TableInv, Promises, EntriesHaveCallers,
        RetryStarts, Starts, ReconnectUnchanged, socket, calls, owning
<1>27. ASSUME ended = "no", Answer PROVE  TableInv'
    BY <1>27 DEF TypeOK, Joinable, TableInv, Promises, EntriesHaveCallers,
        Answer, PeerUnchanged, flags, socket, calls, reading, retrying, owning
<1>28. ASSUME ended = "no", ServerChanges PROVE  TableInv'
    BY <1>28 DEF TypeOK, Joinable, TableInv, Promises, EntriesHaveCallers,
        ServerChanges, PeerUnchanged, flags, socket, calls, reading, retrying,
        owning
<1>29. CASE UNCHANGED vars
    BY <1>29 DEF TypeOK, Joinable, TableInv, Promises, EntriesHaveCallers, vars,
        flags, socket, peer, calls, reading, retrying, owning
<1>30. QED
    BY <1>1, <1>2, <1>3, <1>4, <1>5, <1>6, <1>7, <1>8, <1>9, <1>10, <1>11,
        <1>12, <1>13, <1>14, <1>15, <1>16, <1>17, <1>18, <1>19, <1>20, <1>21,
        <1>22, <1>23, <1>24, <1>25, <1>26, <1>27, <1>28, <1>29
      DEF Next, OwnerCall, OwnerStep, CallerStep, WorkerStep, ReconnectStep

-----------------------------------------------------------------------------

\* A client that has just been made is in the invariant.
LEMMA InitHolds == ASSUME ClientAssumption, Init PROVE  IInv
<1>1. TypeOK
    <2>1. pc \in [Callers -> {"idle", "insert", "send", "wait", "erase"}]
        BY DEF Init
    <2>2. promise \in [Callers -> {"none", "empty", "set", "gone"}]
        BY DEF Init
    <2>3. inbox \in Seq(Replies) /\ Len(inbox) <= MaxMessages
        BY DEF Init, ClientAssumption
    <2>4. sockets \in 0 .. MaxSockets /\ connection \in 0 .. sockets
        BY DEF Init, ClientAssumption
    <2>5. current \in Replies
        BY DEF Init, Replies, Publication
    <2>6. \A f \in {connected, running, autoReconnect, server, insync,
                    workerJoinable, reconnectJoinable, destroying} :
              f \in BOOLEAN
        BY DEF Init
    <2>7. QED
        BY <2>1, <2>2, <2>3, <2>4, <2>5, <2>6 DEF Init, TypeOK
<1>2. OwnerInv
    BY DEF Init, OwnerInv, Joinable, Unused, NoReconnection, Owned, Stopped
<1>3. TableInv
    BY DEF Init, TableInv, Promises, EntriesHaveCallers
<1>4. QED
    BY <1>1, <1>2, <1>3 DEF IInv

\* Every step keeps it.
LEMMA Inductive == ASSUME ClientAssumption, IInv, [Next]_vars PROVE  IInv'
<1>1. TypeOK'
    BY TypeStep DEF IInv
<1>2. OwnerInv'
    BY OwnerStepKeeps DEF IInv
<1>3. TableInv'
    BY TableStep DEF IInv, OwnerInv
<1>4. QED
    BY <1>1, <1>2, <1>3 DEF IInv

\* The invariant holds of every behaviour.
LEMMA Invariant == ASSUME ClientAssumption PROVE  Spec => []IInv
<1>1. Init => IInv
    BY InitHolds
<1>2. IInv /\ [Next]_vars => IInv'
    BY Inductive
<1>3. QED
    BY <1>1, <1>2, PTL DEF Spec

\* Every flag, socket, thread and call of the client stays within its type: a
\* socket that is open is one that was opened, and only calls wait for answers.
THEOREM TypeCorrect == ASSUME ClientAssumption PROVE  Spec => []TypeOK
<1>1. IInv => TypeOK
    BY DEF IInv
<1>2. QED
    BY <1>1, Invariant, PTL

\* The table pendingRequests does not grow: an entry belongs to a call that has
\* not returned, or to the request whose answer the worker is about to erase.
THEOREM EntriesBelong ==
    ASSUME ClientAssumption PROVE  Spec => []EntriesHaveCallers
<1>1. IInv => EntriesHaveCallers
    BY DEF IInv, TableInv
<1>2. QED
    BY <1>1, Invariant, PTL

\* Without automatic reconnection disconnect() leaves neither a thread nor a
\* socket, and nothing the destructor would trip over, for any number of callers
\* and connections.
THEOREM CleanDisconnect ==
    ASSUME ClientAssumption PROVE  Spec => []DisconnectIsClean
<1>1. IInv => DisconnectIsClean
    BY DEF IInv, OwnerInv, Joinable, NoReconnection, Owned, Stopped,
        DisconnectIsClean
<1>2. QED
    BY <1>1, Invariant, PTL
=============================================================================
