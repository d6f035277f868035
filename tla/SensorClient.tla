------------------------------ MODULE SensorClient ------------------------------
(***************************************************************************)
(* The GUI's SensorClient: a web socket that the event loop opens, loses   *)
(* and opens again, and the devices subscribed to over it.                 *)
(*                                                                         *)
(* Every slot runs in the event loop, one at a time.  QWebSocket and the   *)
(* server are external: a socket that is opening connects or fails, one    *)
(* that is open may go at any time, and open() drops the old connection.   *)
(***************************************************************************)
EXTENDS Naturals, Sequences

CONSTANTS Devices,
          MaxReconnectAttempts,   \* m_maxReconnectAttempts
          MaxCalls,               \* bound on the calls of the user interface
          MaxLosses               \* bound on the connections the network breaks

ClientAssumption ==
    MaxReconnectAttempts \in Nat /\ MaxCalls \in Nat /\ MaxLosses \in Nat

VARIABLES serverUrl,         \* whether m_serverUrl is set
          connected, reconnectAttempts,
          timer,             \* whether m_reconnectTimer runs
          subscriptions,
          lapsed,            \* those made on a connection that is gone
          socket,            \* state() of m_webSocket
          inFlight,          \* the messages the server has not read yet
          served,            \* the devices the server sends data of
          calls, losses
clientVars == <<serverUrl, connected, reconnectAttempts, timer, subscriptions,
                lapsed, socket, inFlight, served, calls, losses>>

Init ==
    /\ serverUrl = FALSE /\ connected = FALSE /\ reconnectAttempts = 0
    /\ timer = FALSE /\ subscriptions = {} /\ lapsed = {}
    /\ socket = "off" /\ inFlight = <<>> /\ served = {}
    /\ calls = 0 /\ losses = 0

Called == calls < MaxCalls /\ calls' = calls + 1

\* The connection the server knew is gone, and the subscriptions are kept.
Dropped == inFlight' = <<>> /\ served' = {} /\ lapsed' = subscriptions

-----------------------------------------------------------------------------
(* What the user interface calls.                                          *)

\* connectToServer() of a client that is not connected.
Open(hasUrl) ==
    IF hasUrl THEN socket' = "opening" /\ Dropped
              ELSE UNCHANGED <<socket, inFlight, served, lapsed>>

ConnectToServer ==
    /\ Called /\ ~ connected
    /\ Open(serverUrl)
    /\ UNCHANGED <<serverUrl, connected, reconnectAttempts, timer, subscriptions,
                   losses>>

DisconnectFromServer ==
    /\ Called
    /\ socket' = IF socket = "on" THEN "closing" ELSE socket
    /\ connected' = FALSE
    /\ UNCHANGED <<serverUrl, reconnectAttempts, timer, subscriptions, lapsed,
                   inFlight, served, losses>>

\* Another address: a connected client disconnects, and connects if it is not
\* the empty one.
SetServerUrl(hasUrl) ==
    /\ Called /\ serverUrl' = hasUrl
    /\ serverUrl \/ hasUrl
    /\ connected' = FALSE
    /\ IF connected /\ hasUrl
       THEN Open(TRUE)
       ELSE /\ socket' = IF connected THEN "closing" ELSE socket
            /\ UNCHANGED <<inFlight, served, lapsed>>
    /\ UNCHANGED <<reconnectAttempts, timer, subscriptions, losses>>

\* Mutant of SubscribeToDevice: the device is not remembered.
SubscribeForgotten(d) ==
    /\ Called /\ connected /\ d \notin subscriptions
    /\ inFlight' = Append(inFlight, [add |-> TRUE, device |-> d])
    /\ UNCHANGED <<serverUrl, connected, reconnectAttempts, timer, subscriptions,
                   lapsed, socket, served, losses>>

SubscribeToDevice(d) ==
    /\ Called /\ connected /\ d \notin subscriptions
    /\ inFlight' = Append(inFlight, [add |-> TRUE, device |-> d])
    /\ subscriptions' = subscriptions \cup {d}
    /\ UNCHANGED <<serverUrl, connected, reconnectAttempts, timer, lapsed, socket,
                   served, losses>>

UnsubscribeFromDevice(d) ==
    /\ Called /\ connected /\ d \in subscriptions
    /\ inFlight' = Append(inFlight, [add |-> FALSE, device |-> d])
    /\ subscriptions' = subscriptions \ {d} /\ lapsed' = lapsed \ {d}
    /\ UNCHANGED <<serverUrl, connected, reconnectAttempts, timer, socket, served,
                   losses>>

-----------------------------------------------------------------------------
(* The slots.                                                              *)

\* Mutant of Reconnect: the last attempt is counted and not made.
ReconnectOnceLess ==
    IF reconnectAttempts < MaxReconnectAttempts
    THEN /\ reconnectAttempts' = reconnectAttempts + 1
         /\ timer' = (reconnectAttempts + 2 < MaxReconnectAttempts)
    ELSE UNCHANGED <<reconnectAttempts, timer>>

\* reconnect() starts the timer while it has attempts left.
Reconnect ==
    IF reconnectAttempts < MaxReconnectAttempts
    THEN reconnectAttempts' = reconnectAttempts + 1 /\ timer' = TRUE
    ELSE UNCHANGED <<reconnectAttempts, timer>>

OnConnected ==
    /\ socket = "opening"
    /\ socket' = "on" /\ connected' = TRUE /\ reconnectAttempts' = 0
    /\ UNCHANGED <<serverUrl, timer, subscriptions, lapsed, inFlight, served,
                   calls, losses>>

\* The socket fails to open, breaks, or has closed: onError(), where there is an
\* error, and onDisconnected(), which reconnects whoever closed it.
OnDisconnected ==
    /\ socket # "off"
    /\ IF socket = "on" THEN losses < MaxLosses /\ losses' = losses + 1
                        ELSE UNCHANGED losses
    /\ socket' = "off" /\ connected' = FALSE /\ Dropped
    /\ Reconnect
    /\ UNCHANGED <<serverUrl, subscriptions, calls>>

OnReconnectTimeout ==
    /\ timer /\ timer' = FALSE
    /\ IF connected THEN UNCHANGED <<socket, inFlight, served, lapsed>>
                    ELSE Open(serverUrl)
    /\ UNCHANGED <<serverUrl, connected, reconnectAttempts, subscriptions, calls,
                   losses>>

\* The server reads a message; the data it sends is passed on for the devices
\* in m_subscriptions only, and changes nothing here.
ServerReads ==
    /\ inFlight # <<>> /\ inFlight' = Tail(inFlight)
    /\ LET m == Head(inFlight) IN
       served' = IF m.add THEN served \cup {m.device} ELSE served \ {m.device}
    /\ UNCHANGED <<serverUrl, connected, reconnectAttempts, timer, subscriptions,
                   lapsed, socket, calls, losses>>

User == \/ ConnectToServer \/ DisconnectFromServer
        \/ \E hasUrl \in BOOLEAN : SetServerUrl(hasUrl)
        \/ \E d \in Devices : SubscribeToDevice(d) \/ UnsubscribeFromDevice(d)
Slots == OnConnected \/ OnDisconnected \/ OnReconnectTimeout
Next == User \/ Slots \/ ServerReads

\* The event loop runs, and a socket that opens or closes ends doing so.
Fairness == /\ WF_clientVars(OnReconnectTimeout)
            /\ WF_clientVars(socket # "on" /\ (OnConnected \/ OnDisconnected))

-----------------------------------------------------------------------------
\* No message under way after the i-th removes d.
Stays(d, i) ==
    \A j \in DOMAIN inFlight : j > i => inFlight[j] # [add |-> FALSE, device |-> d]

\* The devices the server sends data of once it has read what is under way.
ServedInTheEnd ==
    {d \in Devices : \/ d \in served /\ Stays(d, 0)
                     \/ \E i \in DOMAIN inFlight :
                            /\ inFlight[i] = [add |-> TRUE, device |-> d]
                            /\ Stays(d, i)}

\* Once it has read what is under way, the server sends data of exactly the devices
\* subscribed to since the present connection was made.  It sends none the client
\* would throw away, over every loss of the connection; and none of a device the
\* client remembers from an earlier one, although isSubscribed() says TRUE of it:
\* onConnected() sends no subscription again, and subscribeToDevice() sends none
\* for a remembered device until it is unsubscribed from.
ServerFollows == ServedInTheEnd = subscriptions \ lapsed

\* A client that tries to connect is connected in the end, or has used up its
\* attempts; an empty address ends the attempts as well.
ConnectsOrGivesUp ==
    socket = "opening" ~>
        \/ connected \/ ~ serverUrl
        \/ reconnectAttempts = MaxReconnectAttempts /\ ~ timer /\ socket = "off"
=============================================================================
