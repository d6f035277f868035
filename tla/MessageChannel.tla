---------------------------- MODULE MessageChannel ----------------------------
(***************************************************************************)
(* What common::IpcManager promises of the messages it has queued: a       *)
(* channel that delivers them one by one, the oldest first, or drops them  *)
(* from some message on, on request.  A message is the number of its       *)
(* acceptance.                                                             *)
(***************************************************************************)
EXTENDS Naturals, Sequences

VARIABLES accepted,     \* how many messages the channel has taken
          delivered,    \* what it has given out, in this order
          dropped       \* what it never will
channelVars == <<accepted, delivered, dropped>>

Waiting == {n \in 1 .. accepted : /\ n \notin dropped
                                  /\ \A i \in 1 .. Len(delivered) : delivered[i] # n}

Init == accepted = 0 /\ delivered = <<>> /\ dropped = {}

Accept == accepted' = accepted + 1 /\ UNCHANGED <<delivered, dropped>>

\* Nothing that waits is older.
Deliver(n) ==
    /\ \A m \in Waiting : n <= m
    /\ delivered' = Append(delivered, n)
    /\ UNCHANGED <<accepted, dropped>>

\* The messages before n still have their turn.
Drop(n) ==
    /\ dropped' = dropped \cup {m \in Waiting : n <= m}
    /\ UNCHANGED <<accepted, delivered>>

Next == Accept \/ \E n \in Waiting : Deliver(n) \/ Drop(n)

Spec == Init /\ [][Next]_channelVars
=============================================================================
