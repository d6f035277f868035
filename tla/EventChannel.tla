------------------------------ MODULE EventChannel ------------------------------
(***************************************************************************)
(* What the NetworkSink promises of the events written to it: a channel of *)
(* bounded length that gives its oldest events out in batches, except that *)
(* a flush may take one event past the single batch that is under way.     *)
(* Whoever takes events out delivers them or gives them up, all of them,   *)
(* and a new event is refused only by a channel two batches long.          *)
(***************************************************************************)
EXTENDS Naturals, Sequences

CONSTANT BatchSize

VARIABLES channel,     \* the events that wait, the oldest first
          delivered,   \* those the server has got, and from which sender
          lost,        \* those it never will get
          open         \* whether the channel takes events
channelVars == <<channel, delivered, lost, open>>

Elements(s) == {s[i] : i \in DOMAIN s}
Known == Elements(channel) \cup lost \cup {delivered[i].seq : i \in DOMAIN delivered}

Init == channel = <<>> /\ delivered = <<>> /\ lost = {} /\ open = TRUE

\* Batches wait in the queue (two) and with the worker (one).
Accept(e) ==
    /\ open /\ e \notin Known
    /\ channel = <<>> \/ Len(channel) < 3 * BatchSize
    /\ channel' = Append(channel, e)
    /\ UNCHANGED <<delivered, lost, open>>

Refuse(e) ==
    /\ open /\ e \notin Known
    /\ Len(channel) >= 2 * BatchSize
    /\ lost' = lost \cup {e}
    /\ UNCHANGED <<channel, delivered, open>>

\* What becomes of the events s that a sender takes out.
Outcome(s, by) ==
    /\ \/ /\ delivered' = delivered \o [i \in DOMAIN s |-> [seq |-> s[i], by |-> by]]
          /\ UNCHANGED lost
       \/ /\ lost' = lost \cup Elements(s)
          /\ UNCHANGED delivered
    /\ UNCHANGED open

\* The n oldest go.
Batch(n) ==
    /\ n <= BatchSize
    /\ channel' = SubSeq(channel, n + 1, Len(channel))
    /\ Outcome(SubSeq(channel, 1, n), "worker")

\* The event at k goes; no more than a batch is older.
Overtake(k) ==
    /\ k <= BatchSize + 1
    /\ channel' = SubSeq(channel, 1, k - 1) \o SubSeq(channel, k + 1, Len(channel))
    /\ Outcome(<<channel[k]>>, "holder")

\* What waits is lost, and nothing more comes.
Close ==
    /\ open /\ open' = FALSE
    /\ channel' = <<>> /\ lost' = lost \cup Elements(channel)
    /\ UNCHANGED delivered

\* An event may be anything that is new.
Next == \/ \E e \in Elements(channel') : Accept(e)
        \/ \E e \in lost' : Refuse(e)
        \/ \E n \in DOMAIN channel : Batch(n) \/ Overtake(n)
        \/ Close

Spec == Init /\ [][Next]_channelVars
=============================================================================
