--------------------------- MODULE NetworkSinkProofs ---------------------------
(***************************************************************************)
(* The events of NetworkSink for any number of threads, any size of batch, *)
(* any number of attempts, events and calls of flush(): each is in one     *)
(* place, and only a flush overtakes the worker's batch.                   *)
(*                                                                         *)
(* The invariant orders the places by the calls of write(): what is queued *)
(* is younger than what is being sent or has been delivered, the message   *)
(* of a flush is younger than the worker's batch, and the batch is younger *)
(* than what the worker has delivered.  Only a batch and what a flush has  *)
(* delivered are in no order, and these are the ones the flush overtakes.  *)
(***************************************************************************)
EXTENDS NetworkSink, FiniteSetTheorems, SequenceTheorems, TLAPS

InWorker == sending["worker"]
InHolder == sending["holder"]
Deliveries == [seq : Nat, by : Senders]
DataOK ==
  /\ queued \in Seq(Nat) /\ written \in Seq(Nat) /\ lost \subseteq Nat
  /\ sending \in [Senders -> Seq(Nat)] /\ delivered \in Seq(Deliveries)

\* A sender has something to send only where the code sends: the worker between
\* the two locks of its loop, the holder of sinksMutex in write() and flush().
Control ==
  /\ sinkWorker # "send" => InWorker = <<>>
  /\ holder \notin {"write", "flush"} => InHolder = <<>>
  /\ holder = "write" => ~ batching
  /\ ~ batching => sinkWorker = "done" /\ queued = <<>>

\* Every event counts twice in totalLogs, but for those between the two.
Counting == {t \in Loggers : logPc[t] = "count"}
Counted == IsFiniteSet(Counting) /\ totalLogs + Cardinality(Counting) <= 2 * begun

TypeInv == TypeOK /\ DataOK /\ Control /\ Counted

\* The events on their way to write() have sequences nobody else has.
Fresh ==
  /\ \A t \in Loggers : logPc[t] # "idle" => event[t] \notin ToSet(written)
  /\ \A t, u \in Loggers :
         logPc[t] # "idle" /\ logPc[u] # "idle" /\ event[t] = event[u] => t = u
  /\ \A x \in ToSet(written) : x <= totalLogs

\* The places of the events written (w): queued (q), with the worker (a), with the
\* holder of sinksMutex (b), delivered (d), and lost (l).
Before(w, x, y) == \E m, n \in DOMAIN w : m < n /\ w[m] = x /\ w[n] = y
AllBefore(w, A, B) == \A x \in A, y \in B : Before(w, x, y)
Sorted(w, s) == \A i, j \in DOMAIN s : i < j => Before(w, s[i], s[j])

Seqs(d) == {d[i].seq : i \in DOMAIN d}
SeqsBy(d, s) == {d[i].seq : i \in {k \in DOMAIN d : d[k].by = s}}

Order(w, q, a, b, d) ==
  /\ Sorted(w, q) /\ Sorted(w, a)
  /\ AllBefore(w, ToSet(a) \cup ToSet(b) \cup Seqs(d), ToSet(q))
  /\ AllBefore(w, ToSet(a) \cup Seqs(d), ToSet(b))
  /\ AllBefore(w, SeqsBy(d, "worker"), ToSet(a))
  /\ \A i, j \in DOMAIN d : i < j =>
         \/ Before(w, d[i].seq, d[j].seq)
         \/ d[i].by = "holder" /\ d[j].by = "worker"

Places(w, q, a, b, d, l) ==
  /\ IsInjective(w)
  /\ \A i, j \in DOMAIN d : d[i].seq = d[j].seq => i = j
  /\ ToSet(a) \cap Seqs(d) = {}
  /\ l \cap (ToSet(q) \cup ToSet(a) \cup ToSet(b) \cup Seqs(d)) = {}
  /\ l \cup ToSet(q) \cup ToSet(a) \cup ToSet(b) \cup Seqs(d) = ToSet(w)

Placed(w, q, a, b, d, l) == Order(w, q, a, b, d) /\ Places(w, q, a, b, d, l)

DataInv == Placed(written, queued, InWorker, InHolder, delivered, lost)
IInv == TypeInv /\ Fresh /\ DataInv

-----------------------------------------------------------------------------
(* Sequences and the sets of their elements.                               *)

\* A sequence and the set of its elements.
LEMMA SetOf ==
  ASSUME NEW S, NEW s \in Seq(S)
  PROVE  /\ Len(s) \in Nat /\ DOMAIN s = 1 .. Len(s)
         /\ ToSet(s) = {s[i] : i \in 1 .. Len(s)} /\ ToSet(s) \subseteq S
<1>1. Len(s) \in Nat /\ DOMAIN s = 1 .. Len(s) /\ \A i \in 1 .. Len(s) : s[i] \in S
  BY LenProperties, ElementOfSeq
<1> QED BY <1>1 DEF ToSet

\* The empty sequence.
LEMMA EmptySet == <<>> \in Seq(Nat) /\ ToSet(<<>>) = {} /\ Len(<<>>) = 0 /\ DOMAIN <<>> = {}
<1>1. <<>> \in Seq(Nat) /\ Len(<<>>) = 0 /\ DOMAIN <<>> = {}
  BY EmptySeq
<1> QED BY <1>1 DEF ToSet

\* A sequence of one element.
LEMMA SingleSet ==
  ASSUME NEW x \in Nat
  PROVE  /\ <<x>> \in Seq(Nat) /\ Len(<<x>>) = 1 /\ <<x>>[1] = x /\ <<x>> # <<>>
         /\ DOMAIN <<x>> = {1} /\ ToSet(<<x>>) = {x}
<1> DEFINE s == <<x>>
<1>1. s \in Seq(Nat) /\ Len(s) = 1 /\ s[1] = x /\ DOMAIN s = 1 .. 1 /\ s # <<>>
  OBVIOUS
<1>2. 1 .. 1 = {1}
  OBVIOUS
<1> HIDE DEF s
<1>3. ToSet(s) = {x}
  BY <1>1, <1>2 DEF ToSet
<1> QED BY <1>1, <1>2, <1>3 DEF s

\* An element at the end.
LEMMA AppendSet ==
  ASSUME NEW s \in Seq(Nat), NEW x \in Nat
  PROVE  /\ Append(s, x) \in Seq(Nat) /\ Len(Append(s, x)) = Len(s) + 1
         /\ DOMAIN Append(s, x) = 1 .. Len(s) + 1
         /\ \A i \in 1 .. Len(s) : Append(s, x)[i] = s[i]
         /\ Append(s, x)[Len(s) + 1] = x
         /\ ToSet(Append(s, x)) = ToSet(s) \cup {x}
<1> DEFINE r == Append(s, x)
<1>1. /\ r \in Seq(Nat) /\ Len(r) = Len(s) + 1 /\ Len(s) \in Nat
      /\ \A i \in 1 .. Len(s) : r[i] = s[i]
      /\ r[Len(s) + 1] = x
  BY AppendProperties, LenProperties
<1> HIDE DEF r
<1>2. ToSet(r) = {r[i] : i \in 1 .. Len(s) + 1} /\ DOMAIN r = 1 .. Len(s) + 1
  BY <1>1, SetOf
<1>3. ToSet(s) = {s[i] : i \in 1 .. Len(s)}
  BY SetOf
<1>4. 1 .. Len(s) + 1 = 1 .. Len(s) \cup {Len(s) + 1}
  BY <1>1
<1>5. ToSet(r) = ToSet(s) \cup {x}
  <2>1. ASSUME NEW i \in 1 .. Len(s) + 1 PROVE r[i] \in ToSet(s) \cup {x}
    BY <1>1, <1>3, <1>4
  <2>2. ASSUME NEW i \in 1 .. Len(s) PROVE s[i] \in ToSet(r)
    <3>1. i \in 1 .. Len(s) + 1 /\ r[i] = s[i]
      BY <1>1, <1>4
    <3> QED BY <1>2, <3>1
  <2>3. x \in ToSet(r)
    <3>1. Len(s) + 1 \in 1 .. Len(s) + 1
      BY <1>1
    <3> QED BY <1>1, <1>2, <3>1
  <2> QED BY <1>2, <1>3, <2>1, <2>2, <2>3
<1> QED BY <1>1, <1>2, <1>5 DEF r

\* The two ends of a cut.
LEMMA CutSet ==
  ASSUME NEW s \in Seq(Nat), NEW n \in 0 .. Len(s)
  PROVE  LET a == SubSeq(s, 1, n)
             b == SubSeq(s, n + 1, Len(s))
         IN  /\ a \in Seq(Nat) /\ Len(a) = n /\ \A i \in 1 .. n : a[i] = s[i]
             /\ b \in Seq(Nat) /\ Len(b) = Len(s) - n
             /\ \A i \in 1 .. Len(s) - n : b[i] = s[n + i]
             /\ ToSet(s) = ToSet(a) \cup ToSet(b)
<1> DEFINE a == SubSeq(s, 1, n)
           b == SubSeq(s, n + 1, Len(s))
<1>0. Len(s) \in Nat /\ n \in Nat /\ n <= Len(s)
  BY LenProperties
<1>1. a \in Seq(Nat) /\ Len(a) = n /\ \A i \in 1 .. n : a[i] = s[i]
  <2>1. \A i \in 1 .. n : s[i] \in Nat
    BY <1>0, ElementOfSeq
  <2>2. a \in Seq(Nat) /\ Len(a) = (IF 1 <= n THEN n - 1 + 1 ELSE 0)
        /\ \A i \in 1 .. n - 1 + 1 : a[i] = s[1 + i - 1]
    BY <1>0, <2>1, SubSeqProperties
  <2> HIDE DEF a
  <2> QED BY <1>0, <2>2
<1>2. /\ b \in Seq(Nat) /\ Len(b) = Len(s) - n
      /\ \A i \in 1 .. Len(s) - n : b[i] = s[n + i]
  <2>1. \A i \in n + 1 .. Len(s) : s[i] \in Nat
    BY <1>0, ElementOfSeq
  <2>2. b \in Seq(Nat) /\ Len(b) = (IF n + 1 <= Len(s) THEN Len(s) - (n + 1) + 1 ELSE 0)
        /\ \A i \in 1 .. Len(s) - (n + 1) + 1 : b[i] = s[n + 1 + i - 1]
    BY <1>0, <2>1, SubSeqProperties
  <2> HIDE DEF b
  <2> QED BY <1>0, <2>2
<1> HIDE DEF a, b
<1>3. /\ ToSet(s) = {s[i] : i \in 1 .. Len(s)}
      /\ ToSet(a) = {a[i] : i \in 1 .. n} /\ ToSet(b) = {b[i] : i \in 1 .. Len(s) - n}
  BY <1>1, <1>2, SetOf
<1>4. ToSet(a) \subseteq ToSet(s) /\ ToSet(b) \subseteq ToSet(s)
  <2>1. \A i \in 1 .. n : i \in 1 .. Len(s)
    BY <1>0
  <2>2. \A i \in 1 .. Len(s) - n : n + i \in 1 .. Len(s)
    BY <1>0
  <2> QED BY <1>1, <1>2, <1>3, <2>1, <2>2
<1>5. ASSUME NEW i \in 1 .. Len(s) PROVE s[i] \in ToSet(a) \cup ToSet(b)
  <2>1. CASE i <= n
    BY <1>0, <1>1, <1>3, <2>1
  <2>2. CASE ~(i <= n)
    <3>1. i - n \in 1 .. Len(s) - n /\ n + (i - n) = i
      BY <1>0, <2>2
    <3> QED BY <1>2, <1>3, <3>1
  <2> QED BY <2>1, <2>2
<1>6. ToSet(s) = ToSet(a) \cup ToSet(b)
  BY <1>3, <1>4, <1>5
<1> QED BY <1>1, <1>2, <1>6 DEF a, b

\* An element taken from the front.
LEMMA HeadSet ==
  ASSUME NEW s \in Seq(Nat), s # <<>>
  PROVE  /\ Head(s) \in Nat /\ Head(s) = s[1] /\ Len(s) \in Nat /\ Len(s) >= 1
         /\ Tail(s) \in Seq(Nat) /\ Len(Tail(s)) = Len(s) - 1
         /\ \A i \in 1 .. Len(s) - 1 : Tail(s)[i] = s[i + 1]
         /\ ToSet(s) = {Head(s)} \cup ToSet(Tail(s))
<1> DEFINE t == Tail(s)
           h == Head(s)
<1>1. /\ h \in Nat /\ h = s[1] /\ Len(s) \in Nat /\ Len(s) >= 1
      /\ t \in Seq(Nat) /\ Len(t) = Len(s) - 1
      /\ \A i \in 1 .. Len(s) - 1 : t[i] = s[i + 1]
  BY HeadTailProperties, LenProperties, EmptySeq
<1> HIDE DEF t, h
<1>2. ToSet(s) = {s[i] : i \in 1 .. Len(s)} /\ ToSet(t) = {t[i] : i \in 1 .. Len(s) - 1}
  BY <1>1, SetOf
<1>3. \A i \in 1 .. Len(s) - 1 : i + 1 \in 1 .. Len(s)
  BY <1>1
<1>4. ASSUME NEW i \in 1 .. Len(s) PROVE s[i] \in {h} \cup ToSet(t)
  <2>1. CASE i = 1
    BY <1>1, <2>1
  <2>2. CASE i # 1
    <3>1. i - 1 \in 1 .. Len(s) - 1 /\ (i - 1) + 1 = i
      BY <1>1, <2>2
    <3> QED BY <1>1, <1>2, <3>1
  <2> QED BY <2>1, <2>2
<1>5. {h} \cup ToSet(t) \subseteq ToSet(s)
  <2>1. h \in ToSet(s)
    BY <1>1, <1>2
  <2>2. ASSUME NEW i \in 1 .. Len(s) - 1 PROVE t[i] \in ToSet(s)
    BY <1>1, <1>2, <1>3
  <2> QED BY <1>2, <2>1, <2>2
<1>6. ToSet(s) = {h} \cup ToSet(t)
  BY <1>2, <1>4, <1>5
<1> QED BY <1>1, <1>6 DEF t, h

\* A delivery puts what was sent at the end, with the sender's name.
Stamped(q, s) == [i \in DOMAIN q |-> [seq |-> q[i], by |-> s]]

\* A batch that was sent is at the end of what was delivered.
LEMMA Stamping ==
  ASSUME NEW d \in Seq(Deliveries), NEW q \in Seq(Nat), NEW s \in Senders
  PROVE  LET r == d \o Stamped(q, s)
         IN  /\ r \in Seq(Deliveries) /\ Len(r) = Len(d) + Len(q)
             /\ \A i \in 1 .. Len(d) : r[i] = d[i]
             /\ \A i \in 1 .. Len(q) : r[Len(d) + i].seq = q[i] /\ r[Len(d) + i].by = s
<1> DEFINE e == Stamped(q, s)
           r == d \o e
<1>0. Len(d) \in Nat /\ Len(q) \in Nat /\ DOMAIN q = 1 .. Len(q)
      /\ \A i \in 1 .. Len(q) : q[i] \in Nat
  BY LenProperties, ElementOfSeq
<1>1. e \in Seq(Deliveries) /\ Len(e) = Len(q)
      /\ \A i \in 1 .. Len(q) : e[i] = [seq |-> q[i], by |-> s]
  <2> DEFINE f(i) == [seq |-> q[i], by |-> s]
  <2>1. \A i \in 1 .. Len(q) : f(i) \in Deliveries
    BY <1>0 DEF Deliveries
  <2>2. e = [i \in 1 .. Len(q) |-> f(i)]
    BY <1>0 DEF Stamped
  <2> HIDE DEF f
  <2>3. e \in Seq(Deliveries)
    BY <1>0, <2>1, <2>2, IsASeq
  <2>4. Len(e) = Len(q)
    BY <1>0, <2>2, <2>3, LenProperties
  <2>5. \A i \in 1 .. Len(q) : e[i] = f(i)
    BY <2>2
  <2> QED BY <2>3, <2>4, <2>5 DEF f
<1> HIDE DEF e
<1>2. /\ r \in Seq(Deliveries) /\ Len(r) = Len(d) + Len(e)
      /\ \A i \in 1 .. Len(d) + Len(e) : r[i] = IF i <= Len(d) THEN d[i] ELSE e[i - Len(d)]
  <2>1. e \in Seq(Deliveries)
    BY <1>1
  <2> QED BY <2>1, ConcatProperties
<1> HIDE DEF r
<1>3. \A i \in 1 .. Len(d) : r[i] = d[i]
  BY <1>0, <1>1, <1>2
<1>4. ASSUME NEW i \in 1 .. Len(q) PROVE r[Len(d) + i].seq = q[i] /\ r[Len(d) + i].by = s
  <2>1. Len(d) + i \in 1 .. Len(d) + Len(e) /\ ~(Len(d) + i <= Len(d)) /\ (Len(d) + i) - Len(d) = i
    BY <1>0, <1>1
  <2>2. r[Len(d) + i] = e[i]
    BY <1>2, <2>1
  <2>3. e[i] = [seq |-> q[i], by |-> s]
    BY <1>1
  <2> QED BY <2>2, <2>3
<1> QED BY <1>1, <1>2, <1>3, <1>4 DEF r, e

-----------------------------------------------------------------------------
(* The order of write().                                                   *)

\* In a sequence without repetition nothing comes before itself, or both before and after.
LEMMA StrictOrder ==
  ASSUME NEW w \in Seq(Nat), IsInjective(w)
  PROVE  \A x, y : Before(w, x, y) => x # y /\ ~ Before(w, y, x)
<1>1. DOMAIN w \subseteq Nat
  BY SetOf
<1> QED BY <1>1 DEF Before, IsInjective

\* An element at the end comes after all the others, whose order it leaves alone.
LEMMA LaterOrder ==
  ASSUME NEW w \in Seq(Nat), NEW e \in Nat
  PROVE  /\ \A x, y : Before(w, x, y) => Before(Append(w, e), x, y)
         /\ \A x \in ToSet(w) : Before(Append(w, e), x, e)
<1> DEFINE r == Append(w, e)
           n == Len(w)
<1>1. /\ n \in Nat /\ DOMAIN r = 1 .. n + 1 /\ DOMAIN w = 1 .. n
      /\ \A i \in 1 .. n : r[i] = w[i]
      /\ r[n + 1] = e
  BY AppendSet, SetOf
<1> HIDE DEF r, n
<1>2. ASSUME NEW x, NEW y, Before(w, x, y) PROVE Before(r, x, y)
  <2>1. PICK i, j \in 1 .. n : i < j /\ w[i] = x /\ w[j] = y
    BY <1>1, <1>2 DEF Before
  <2>2. i \in DOMAIN r /\ j \in DOMAIN r /\ r[i] = x /\ r[j] = y
    BY <1>1, <2>1
  <2> QED BY <2>1, <2>2 DEF Before
<1>3. ASSUME NEW x \in ToSet(w) PROVE Before(r, x, e)
  <2>1. PICK i \in 1 .. n : w[i] = x
    BY <1>1 DEF ToSet
  <2>2. i \in DOMAIN r /\ n + 1 \in DOMAIN r /\ i < n + 1 /\ r[i] = x
    BY <1>1, <2>1
  <2> QED BY <1>1, <2>2 DEF Before
<1> QED BY <1>2, <1>3 DEF r

\* A new element at the end repeats nothing.
LEMMA LaterInjective ==
  ASSUME NEW w \in Seq(Nat), NEW e \in Nat, e \notin ToSet(w), IsInjective(w)
  PROVE  IsInjective(Append(w, e))
<1> DEFINE r == Append(w, e)
           n == Len(w)
<1>1. /\ n \in Nat /\ DOMAIN r = 1 .. n + 1 /\ DOMAIN w = 1 .. n
      /\ \A i \in 1 .. n : r[i] = w[i] /\ w[i] # e
      /\ r[n + 1] = e
  BY AppendSet, SetOf
<1> HIDE DEF r, n
<1>2. ASSUME NEW i \in DOMAIN r, NEW j \in DOMAIN r, r[i] = r[j] PROVE i = j
  <2>1. \A k \in DOMAIN r : k = n + 1 \/ k \in 1 .. n
    BY <1>1
  <2>2. CASE i = n + 1 \/ j = n + 1
    BY <1>1, <1>2, <2>1, <2>2
  <2>3. CASE i \in 1 .. n /\ j \in 1 .. n
    BY <1>1, <1>2, <2>3 DEF IsInjective
  <2> QED BY <2>1, <2>2, <2>3
<1> QED BY <1>2 DEF IsInjective, r

-----------------------------------------------------------------------------
(* The types.                                                              *)

\* Nothing has been logged.
LEMMA InitInv == ASSUME SinkAssumption, Init PROVE IInv
<1>1. /\ InWorker = <<>> /\ InHolder = <<>> /\ queued = <<>> /\ written = <<>>
      /\ delivered = <<>> /\ lost = {} /\ holder = "none"
  BY DEF Init, InWorker, InHolder, Senders
<1>2. TypeOK
  BY <1>1, EmptySet DEF Init, TypeOK, SinkAssumption, InWorker, InHolder, Senders
<1>3. DataOK
  <2>1. <<>> \in Seq(Nat) /\ <<>> \in Seq(Deliveries)
    BY EmptySeq
  <2> QED BY <1>1, <2>1 DEF Init, DataOK
<1>4. Control
  BY <1>1 DEF Init, Control
<1>5. Counted
  <2>1. Counting = {}
    BY DEF Init, Counting
  <2>2. IsFiniteSet({}) /\ Cardinality({}) = 0
    BY FS_EmptySet
  <2> QED BY <2>1, <2>2 DEF Init, Counted
<1>6. Fresh
  BY <1>1, EmptySet DEF Init, Fresh
<1>7. DOMAIN delivered = {} /\ DOMAIN queued = {} /\ DOMAIN InWorker = {} /\ DOMAIN written = {}
  BY <1>1, EmptySet
<1>8. Seqs(delivered) = {} /\ ToSet(InWorker) = {} /\ ToSet(InHolder) = {}
      /\ ToSet(queued) = {} /\ ToSet(written) = {} /\ SeqsBy(delivered, "worker") = {}
  BY <1>1, <1>7, EmptySet DEF Seqs, SeqsBy
<1>9. Order(written, queued, InWorker, InHolder, delivered)
  BY <1>7, <1>8 DEF Order, Sorted, AllBefore
<1>10. Places(written, queued, InWorker, InHolder, delivered, lost)
  BY <1>1, <1>7, <1>8 DEF Places, IsInjective
<1> QED BY <1>2, <1>3, <1>4, <1>5, <1>6, <1>9, <1>10 DEF IInv, TypeInv, DataInv, Placed

\* The pieces an event can be in, and their limits.
LEMMA Parts ==
  ASSUME TypeInv
  PROVE  /\ InWorker \in Seq(Nat) /\ InHolder \in Seq(Nat) /\ queued \in Seq(Nat)
         /\ written \in Seq(Nat) /\ delivered \in Seq(Deliveries) /\ lost \subseteq Nat
         /\ Len(InWorker) <= BatchSize /\ Len(InHolder) <= 1
         /\ Len(queued) <= 2 * BatchSize
  BY DEF TypeInv, TypeOK, DataOK, InWorker, InHolder, Senders

\* Who touches neither the counters nor the loggers leaves them agreeing.
LEMMA CountedStays ==
  ASSUME Counted, UNCHANGED <<logPc, totalLogs, begun>>
  PROVE  Counted'
BY DEF Counted, Counting

\* Entering Logger::log() and counting keep the types.
LEMMA LoggerTypes ==
  ASSUME SinkAssumption, TypeInv, NEW t \in Loggers, Log(t) \/ Count(t)
  PROVE  TypeInv'
<1> USE DEF outcome
<1>0. /\ TypeOK /\ DataOK /\ Control /\ Counted
      /\ UNCHANGED <<batching, flushes, holder, queued, sending, tries, linked, sinkWorker, sink,
                     written, delivered, lost>>
  BY DEF TypeInv, Log, Count
<1>1. DataOK' /\ Control' /\ InWorker' = InWorker /\ InHolder' = InHolder
  BY <1>0 DEF DataOK, Control, InWorker, InHolder
<1>2. /\ totalLogs \in 0 .. 2 * begun /\ begun \in 0 .. MaxEvents /\ MaxEvents \in Nat
      /\ logPc \in [Loggers -> {"idle", "count", "write"}] /\ event \in [Loggers -> 0 .. totalLogs]
      /\ IsFiniteSet(Counting) /\ Cardinality(Counting) \in Nat
      /\ totalLogs + Cardinality(Counting) <= 2 * begun
  BY <1>0, FS_CardinalityType DEF TypeOK, SinkAssumption, Counted
<1>3. CASE Log(t)
  <2>1. /\ logPc[t] = "idle" /\ begun < MaxEvents /\ begun' = begun + 1
        /\ totalLogs' = totalLogs + 1 /\ event' = [event EXCEPT ![t] = totalLogs + 1]
        /\ logPc' = [logPc EXCEPT ![t] = "count"]
    BY <1>3 DEF Log
  <2>2. Counting' = Counting \cup {t} /\ t \notin Counting
    BY <1>2, <2>1 DEF Counting
  <2>3. IsFiniteSet(Counting') /\ Cardinality(Counting') = Cardinality(Counting) + 1
    BY <1>2, <2>2, FS_AddElement
  <2>4. event' \in [Loggers -> 0 .. totalLogs']
    BY <1>2, <2>1
  <2>5. begun' \in 0 .. MaxEvents /\ totalLogs' \in 0 .. 2 * begun' /\ Counted'
    BY <1>2, <2>1, <2>3 DEF Counted
  <2>6. logPc' \in [Loggers -> {"idle", "count", "write"}]
    BY <1>2, <2>1
  <2> QED BY <1>0, <1>1, <2>4, <2>5, <2>6 DEF TypeInv, TypeOK
<1>4. CASE Count(t)
  <2>1. /\ logPc[t] = "count" /\ begun' = begun /\ event' = event
        /\ totalLogs' = totalLogs + 1
        /\ logPc' = [logPc EXCEPT ![t] = "write"]
    BY <1>4 DEF Count
  <2>2. Counting' = Counting \ {t} /\ t \in Counting
    BY <1>2, <2>1 DEF Counting
  <2>3. /\ IsFiniteSet(Counting') /\ Cardinality(Counting') = Cardinality(Counting) - 1
        /\ Cardinality(Counting') \in Nat
    BY <1>2, <2>2, FS_RemoveElement, FS_CardinalityType
  <2>4. event' \in [Loggers -> 0 .. totalLogs']
    BY <1>2, <2>1
  <2>5. begun' \in 0 .. MaxEvents /\ totalLogs' \in 0 .. 2 * begun' /\ Counted'
    BY <1>2, <2>1, <2>3 DEF Counted
  <2>6. logPc' \in [Loggers -> {"idle", "count", "write"}]
    BY <1>2, <2>1
  <2> QED BY <1>0, <1>1, <2>4, <2>5, <2>6 DEF TypeInv, TypeOK
<1> QED BY <1>3, <1>4

\* So does write(), which loses the event if the queue is full, ...
LEMMA WriteTypes ==
  ASSUME SinkAssumption, TypeInv, NEW t \in Loggers, Write(t)
  PROVE  TypeInv'
<1> USE DEF outcome
<1>0. /\ TypeOK /\ DataOK /\ Control /\ Counted
      /\ logPc[t] = "write" /\ holder = "none" /\ logPc' = [logPc EXCEPT ![t] = "idle"]
      /\ UNCHANGED <<batching, totalLogs, begun, event, flushes, tries, linked, sinkWorker, sink,
                     delivered>>
  BY DEF TypeInv, Write
<1>1. event[t] \in Nat /\ BatchSize \in Nat /\ InHolder = <<>>
  BY <1>0 DEF TypeOK, SinkAssumption, Control
<1>2. logPc' \in [Loggers -> {"idle", "count", "write"}] /\ Counted'
  <2>1. logPc' \in [Loggers -> {"idle", "count", "write"}]
    BY <1>0 DEF TypeOK
  <2>2. Counting' = Counting
    BY <1>0 DEF Counting, TypeOK
  <2> QED BY <1>0, <2>1, <2>2 DEF Counted
<1>3. written' \in Seq(Nat)
  BY <1>0, <1>1, AppendSet DEF Write, DataOK
<1>4. queued' \in Seq(Nat) /\ Len(queued') <= 2 * BatchSize /\ (~ batching => queued' = queued)
  <2>1. CASE sink = "open" /\ batching /\ Len(queued) < BatchSize * 2
    <3>1. queued' = Append(queued, event[t])
      BY <2>1 DEF Write
    <3>2. queued' \in Seq(Nat) /\ Len(queued') = Len(queued) + 1 /\ Len(queued) \in Nat
      BY <1>0, <1>1, <3>1, AppendSet, LenProperties DEF DataOK
    <3> QED BY <1>1, <2>1, <3>2
  <2>2. CASE ~ (sink = "open" /\ batching /\ Len(queued) < BatchSize * 2)
    BY <1>0, <2>2 DEF Write, DataOK, TypeOK
  <2> QED BY <2>1, <2>2
<1>5. lost' \subseteq Nat
  BY <1>0, <1>1 DEF Write, DataOK
<1>6. /\ sending' \in [Senders -> Seq(Nat)] /\ InWorker' = InWorker /\ Len(InHolder') <= 1
      /\ holder' \in {"none", "write"} /\ (holder' = "write" => ~ batching)
      /\ (holder' = "none" => InHolder' = <<>>)
  <2>1. CASE sink = "open" /\ ~ batching
    <3>1. /\ holder' = "write" /\ sending' = [sending EXCEPT !["holder"] = <<event[t]>>]
      BY <2>1 DEF Write
    <3>2. <<event[t]>> \in Seq(Nat) /\ Len(<<event[t]>>) = 1
      BY <1>1, SingleSet
    <3> HIDE DEF Write
    <3> QED BY <1>0, <2>1, <3>1, <3>2 DEF DataOK, Senders, InWorker, InHolder
  <2>2. CASE ~ (sink = "open" /\ ~ batching)
    BY <1>0, <1>1, <2>2, EmptySet DEF Write, DataOK, InWorker, InHolder
  <2> QED BY <2>1, <2>2
<1>7. Control' /\ DataOK'
  BY <1>0, <1>3, <1>4, <1>5, <1>6 DEF Control, DataOK
<1>8. Len(InWorker') <= BatchSize
  BY <1>0, <1>6 DEF TypeOK, InWorker
<1> QED BY <1>0, <1>2, <1>4, <1>6, <1>7, <1>8 DEF TypeInv, TypeOK, InWorker, InHolder

\* The steps that move messages between the sink's places, by what they leave in each.
LEMMA Moves ==
  ASSUME TypeInv,
         UNCHANGED <<batching, totalLogs, begun, logPc, event>>,
         queued' \in Seq(Nat), Len(queued') <= Len(queued),
         sending' \in [Senders -> Seq(Nat)],
         Len(InWorker') <= BatchSize, Len(InHolder') <= 1,
         delivered' \in Seq(Deliveries), written' = written, lost' \subseteq Nat,
         flushes' \in 0 .. MaxFlushes, tries' \in [Senders -> 0 .. RetryAttempts],
         linked' \in BOOLEAN, holder' \in {"none", "write", "flush", "remove"},
         sinkWorker' \in {"sleep", "send", "test", "done"},
         sink' \in {"open", "closing", "gone", "killed"}, Control', BatchSize \in Nat
  PROVE  TypeInv'
<1>1. Len(queued) \in Nat /\ Len(queued') \in Nat /\ Len(queued) <= 2 * BatchSize
  BY Parts, LenProperties
<1>2. Len(queued') <= 2 * BatchSize
  BY <1>1
<1>3. Counted'
  BY CountedStays DEF TypeInv
<1>4. DataOK'
  BY DEF TypeInv, DataOK
<1> QED BY <1>2, <1>3, <1>4 DEF TypeInv, TypeOK, InWorker, InHolder

\* ... sending, ...
LEMMA SendTypes ==
  ASSUME SinkAssumption, TypeInv, NEW s \in Senders, Send(s)
  PROVE  TypeInv'
<1> USE DEF logging, outcome, SendUnchanged
<1>0. /\ TypeOK /\ DataOK /\ Control /\ BatchSize \in Nat
      /\ UNCHANGED <<batching, logging, flushes, holder, queued, sinkWorker, sink, written>>
  BY DEF TypeInv, Send, SendSucceeds, SendFails, GiveUp, SinkAssumption
<1>1. /\ tries' \in [Senders -> 0 .. RetryAttempts] /\ linked' \in BOOLEAN
  <2>1. CASE SendFails(s)
    <3>1. /\ tries' = [tries EXCEPT ![s] = tries[s] + 1] /\ linked' \in BOOLEAN
          /\ tries[s] < RetryAttempts
      BY <2>1 DEF SendFails
    <3>2. tries \in [Senders -> 0 .. RetryAttempts] /\ RetryAttempts \in Nat
      BY <1>0 DEF TypeOK, SinkAssumption
    <3>3. tries[s] + 1 \in 0 .. RetryAttempts
      BY <3>1, <3>2
    <3> QED BY <3>1, <3>2, <3>3
  <2>2. CASE SendSucceeds(s) \/ GiveUp(s)
    <3>1. tries' = [tries EXCEPT ![s] = 0] /\ linked' \in {linked, TRUE}
      BY <2>2 DEF SendSucceeds, GiveUp, Ends
    <3>2. 0 \in 0 .. RetryAttempts
      BY DEF SinkAssumption
    <3> QED BY <1>0, <3>1, <3>2 DEF TypeOK
  <2> QED BY <2>1, <2>2 DEF Send
<1>2. \/ sending' = [sending EXCEPT ![s] = <<>>]
      \/ sending' = sending
  BY DEF Send, SendSucceeds, SendFails, GiveUp, Ends
<1>3. /\ sending' \in [Senders -> Seq(Nat)]
      /\ InWorker' \in {InWorker, <<>>} /\ InHolder' \in {InHolder, <<>>}
  BY <1>0, <1>2, EmptySet DEF DataOK, Senders, InWorker, InHolder
<1>4. delivered' \in Seq(Deliveries)
  <2>1. CASE SendSucceeds(s)
    <3>1. delivered' = delivered \o Stamped(sending[s], s)
      BY <2>1 DEF SendSucceeds, Delivers, Stamped
    <3> QED BY <1>0, <3>1, Stamping DEF DataOK
  <2>2. CASE SendFails(s) \/ GiveUp(s)
    BY <1>0, <2>2 DEF SendFails, GiveUp, DataOK
  <2> QED BY <2>1, <2>2 DEF Send
<1>5. lost' \subseteq Nat
  <2>1. ToSet(sending[s]) \subseteq Nat
    BY <1>0, SetOf DEF DataOK
  <2> QED BY <1>0, <2>1 DEF Send, SendSucceeds, SendFails, GiveUp, DataOK
<1>6. Control'
  BY <1>0, <1>3 DEF Control
<1>7. Len(InWorker') <= BatchSize /\ Len(InHolder') <= 1
  BY <1>0, <1>3, Parts, EmptySet
<1>8. Len(queued) <= Len(queued) /\ queued \in Seq(Nat)
  BY <1>0, LenProperties DEF DataOK
<1> QED BY <1>0, <1>1, <1>3, <1>4, <1>5, <1>6, <1>7, <1>8, Moves DEF TypeOK

\* ... flush(), ...
LEMMA FlushTypes ==
  ASSUME SinkAssumption, TypeInv, Flush \/ FlushNext \/ Leave
  PROVE  TypeInv'
<1> USE DEF logging, outcome
<1>0. /\ TypeOK /\ DataOK /\ Control /\ BatchSize \in Nat /\ MaxFlushes \in Nat
      /\ UNCHANGED <<batching, logging, tries, linked, sinkWorker, sink, written, outcome>>
  BY DEF TypeInv, Flush, FlushNext, Leave, SinkAssumption
<1>1. Len(queued) \in Nat /\ queued \in Seq(Nat)
  BY <1>0, LenProperties DEF DataOK
<1>2. CASE Flush
  BY <1>0, <1>1, <1>2, Moves, Parts DEF Flush, TypeOK, Control, DataOK, InWorker, InHolder
<1>3. CASE Leave
  BY <1>0, <1>1, <1>3, Moves, Parts DEF Leave, TypeOK, Control, DataOK, InWorker, InHolder
<1>4. CASE FlushNext
  <2>1. /\ holder = "flush" /\ queued # <<>> /\ holder' = holder /\ flushes' = flushes
        /\ sending' = [sending EXCEPT !["holder"] = <<Head(queued)>>]
        /\ queued' = Tail(queued)
    BY <1>4 DEF FlushNext
  <2>2. /\ Head(queued) \in Nat /\ queued' \in Seq(Nat) /\ Len(queued') = Len(queued) - 1
    BY <1>1, <2>1, HeadSet
  <2>3. <<Head(queued)>> \in Seq(Nat) /\ Len(<<Head(queued)>>) = 1
    BY <2>2, SingleSet
  <2> DEFINE x == <<Head(queued)>>
  <2> HIDE DEF x
  <2>4. sending' \in [Senders -> Seq(Nat)] /\ InWorker' = InWorker /\ InHolder' = x
    BY <1>0, <2>1, <2>3 DEF DataOK, Senders, InWorker, InHolder, x
  <2>5. Len(InHolder') <= 1
    BY <2>3, <2>4 DEF x
  <2>6. Control'
    BY <1>0, <2>1, <2>4 DEF Control
  <2>7. /\ Len(queued') <= Len(queued) /\ Len(InWorker') <= BatchSize
        /\ delivered' \in Seq(Deliveries) /\ lost' \subseteq Nat
    BY <1>0, <1>1, <2>2, <2>4, Parts
  <2>8. /\ flushes' \in 0 .. MaxFlushes /\ tries' \in [Senders -> 0 .. RetryAttempts]
        /\ linked' \in BOOLEAN /\ holder' \in {"none", "write", "flush", "remove"}
        /\ sinkWorker' \in {"sleep", "send", "test", "done"}
        /\ sink' \in {"open", "closing", "gone", "killed"}
    BY <1>0, <2>1 DEF TypeOK
  <2> QED BY <1>0, <2>2, <2>4, <2>5, <2>6, <2>7, <2>8, Moves
<1> QED BY <1>2, <1>3, <1>4

\* How many messages the worker takes.
Batch == IF Len(queued) < BatchSize THEN Len(queued) ELSE BatchSize

\* What taking a batch does: the front of the queue is in the hands of the worker.
LEMMA Taking ==
  ASSUME SinkAssumption, TypeInv, TakeBatch
  PROVE  /\ Batch \in 0 .. Len(queued) /\ Batch <= BatchSize /\ InHolder = <<>> /\ InWorker = <<>>
         /\ sinkWorker = "sleep" /\ sinkWorker' = "send" /\ queued \in Seq(Nat)
         /\ sending' = [sending EXCEPT !["worker"] = SubSeq(queued, 1, Batch)]
         /\ InWorker' = SubSeq(queued, 1, Batch) /\ InHolder' = <<>>
         /\ queued' = SubSeq(queued, Batch + 1, Len(queued))
<1>1. /\ queued \in Seq(Nat) /\ Len(queued) \in Nat /\ BatchSize \in Nat
      /\ sinkWorker = "sleep" /\ holder # "flush" /\ sinkWorker' = "send"
      /\ sending' = [sending EXCEPT !["worker"] = SubSeq(queued, 1, Batch)]
      /\ queued' = SubSeq(queued, Batch + 1, Len(queued))
  BY LenProperties DEF TypeInv, DataOK, SinkAssumption, TakeBatch, Batch
<1>2. Batch \in 0 .. Len(queued) /\ Batch <= BatchSize
  BY <1>1 DEF Batch
<1>3. InHolder = <<>> /\ InWorker = <<>>
  BY <1>1 DEF TypeInv, Control
<1> DEFINE x == SubSeq(queued, 1, Batch)
<1> HIDE DEF x
<1>4. InWorker' = x /\ InHolder' = InHolder
  BY <1>1 DEF TypeInv, DataOK, Senders, InWorker, InHolder, x
<1> QED BY <1>1, <1>2, <1>3, <1>4 DEF x

\* ... the worker, ...
LEMMA WorkerTypes ==
  ASSUME SinkAssumption, TypeInv, WorkerTest \/ TakeBatch \/ WorkerSent
  PROVE  TypeInv'
<1> USE DEF logging, outcome
<1>0. /\ TypeOK /\ DataOK /\ Control /\ BatchSize \in Nat
      /\ UNCHANGED <<batching, logging, flushes, holder, tries, linked, sink, written, outcome>>
      /\ Len(queued) \in Nat
  BY LenProperties DEF TypeInv, DataOK, WorkerTest, TakeBatch, WorkerSent, SinkAssumption
<1>1. CASE WorkerTest \/ WorkerSent
  <2>1. UNCHANGED <<queued, sending>> /\ sinkWorker' \in {"sleep", "send", "test", "done"}
        /\ Control'
    BY <1>0, <1>1 DEF WorkerTest, WorkerSent, Control, InWorker, InHolder
  <2> QED BY <1>0, <2>1, Moves, Parts DEF TypeOK, DataOK, InWorker, InHolder
<1>2. CASE TakeBatch
  <2> DEFINE x == SubSeq(queued, 1, Batch)
             y == SubSeq(queued, Batch + 1, Len(queued))
  <2>1. /\ x \in Seq(Nat) /\ Len(x) = Batch /\ y \in Seq(Nat) /\ Len(y) = Len(queued) - Batch
        /\ Batch \in 0 .. Len(queued) /\ Batch <= BatchSize
    BY <1>2, Taking, CutSet
  <2>2. /\ InHolder = <<>> /\ InWorker' = x /\ InHolder' = <<>> /\ queued' = y
        /\ sending' = [sending EXCEPT !["worker"] = x]
        /\ sinkWorker = "sleep" /\ sinkWorker' = "send"
    BY <1>2, Taking
  <2> HIDE DEF x, y
  <2>3. sending' \in [Senders -> Seq(Nat)]
    BY <1>0, <2>1, <2>2 DEF DataOK
  <2>4. Len(queued') <= Len(queued) /\ Len(InWorker') <= BatchSize /\ Len(InHolder') <= 1
    BY <1>0, <2>1, <2>2, EmptySet
  <2>5. Control'
    BY <1>0, <2>2 DEF Control
  <2> QED BY <1>0, <2>1, <2>2, <2>3, <2>4, <2>5, Moves DEF TypeOK, DataOK
<1> QED BY <1>1, <1>2

\* ... and removing the sink.
LEMMA RemoveTypes ==
  ASSUME SinkAssumption, TypeInv, RemoveSink \/ SinkRemoved
  PROVE  TypeInv'
<1> USE DEF logging, outcome
<1>0. /\ TypeOK /\ DataOK /\ Control /\ BatchSize \in Nat /\ queued \in Seq(Nat)
      /\ UNCHANGED <<batching, logging, flushes, sending, tries, sinkWorker, written, delivered>>
      /\ Len(queued) \in Nat /\ ToSet(queued) \subseteq Nat
  BY SetOf DEF TypeInv, DataOK, RemoveSink, SinkRemoved, SinkAssumption
<1>1. InWorker' = InWorker /\ InHolder' = InHolder
  BY <1>0 DEF InWorker, InHolder
<1>2. /\ queued' \in {queued, <<>>} /\ lost' \subseteq Nat /\ linked' \in BOOLEAN
      /\ holder \in {"none", "remove"} /\ holder' \in {"none", "remove"}
      /\ sink' \in {"closing", "gone"}
  BY <1>0 DEF RemoveSink, SinkRemoved, TypeOK, DataOK
<1>3. queued' \in Seq(Nat) /\ Len(queued') <= Len(queued)
  <2>1. CASE queued' = queued
    BY <1>0, <2>1
  <2>2. CASE queued' = <<>>
    BY <1>0, <2>2, EmptySet
  <2> QED BY <1>2, <2>1, <2>2
<1>4. Control'
  BY <1>0, <1>1, <1>2 DEF Control
<1> QED BY <1>0, <1>1, <1>2, <1>3, <1>4, Moves, Parts DEF TypeOK, DataOK

\* A broken connection ends the process, and leaves nothing in any place.
LEMMA BrokenTypes ==
  ASSUME SinkAssumption, TypeInv, NEW s \in Senders, BrokenPipe(s)
  PROVE  TypeInv'
<1> USE DEF logging
<1>0. /\ TypeOK /\ DataOK /\ Control /\ BatchSize \in Nat /\ Len(queued) \in Nat
      /\ UNCHANGED <<batching, totalLogs, begun, logPc, event, flushes, tries, linked, written,
                     delivered>>
      /\ holder' = "none" /\ sinkWorker' = "done" /\ sink' = "killed"
      /\ queued' = <<>> /\ sending' = [r \in Senders |-> <<>>]
  BY SetOf DEF TypeInv, DataOK, BrokenPipe, SinkAssumption
<1>1. InWorker' = <<>> /\ InHolder' = <<>>
  BY <1>0 DEF InWorker, InHolder, Senders
<1>2. lost' \subseteq Nat
  <2>1. ToSet(queued) \subseteq Nat /\ \A r \in Senders : ToSet(sending[r]) \subseteq Nat
    BY <1>0, SetOf DEF DataOK
  <2> QED BY <1>0, <2>1 DEF BrokenPipe, DataOK
<1>3. queued' \in Seq(Nat) /\ Len(queued') = 0 /\ sending' \in [Senders -> Seq(Nat)]
  BY <1>0, EmptySet
<1>4. Control'
  BY <1>0, <1>1 DEF Control
<1>5. Counted'
  BY <1>0, CountedStays DEF TypeInv
<1>6. DataOK'
  BY <1>0, <1>2, <1>3 DEF DataOK
<1>7. Len(sending["worker"])' = 0 /\ Len(sending["holder"])' = 0
  BY <1>1, EmptySet DEF InWorker, InHolder
<1>8. TypeOK'
  BY <1>0, <1>3, <1>7 DEF TypeOK
<1> QED BY <1>4, <1>5, <1>6, <1>8 DEF TypeInv

\* Every step keeps the types.
LEMMA TypeStep ==
  ASSUME SinkAssumption, TypeInv, [Next]_vars
  PROVE  TypeInv'
<1>1. ASSUME NEW t \in Loggers, Log(t) \/ Count(t) \/ Write(t) PROVE TypeInv'
  BY <1>1, LoggerTypes, WriteTypes
<1>2. CASE Flush \/ FlushNext \/ Leave
  BY <1>2, FlushTypes
<1>3. CASE RemoveSink \/ SinkRemoved
  BY <1>3, RemoveTypes
<1>4. CASE WorkerTest \/ TakeBatch \/ WorkerSent
  BY <1>4, WorkerTypes
<1>5. CASE Send("worker") \/ Send("holder")
  BY <1>5, SendTypes DEF Senders
<1>6. CASE UNCHANGED vars
  BY <1>6 DEF vars, logging, outcome, TypeInv, TypeOK, DataOK, Control, Counted, Counting, InWorker, InHolder
<1>7. ASSUME NEW s \in Senders, BrokenPipe(s) PROVE TypeInv'
  BY <1>7, BrokenTypes
<1> QED BY <1>1, <1>2, <1>3, <1>4, <1>5, <1>6, <1>7 DEF Next, WorkerStep, HolderStep

-----------------------------------------------------------------------------
(* What each step does to the places.                                      *)

\* An event that write() accepts is the youngest: it goes to the end of the queue, ...
LEMMA PutQueue ==
  ASSUME NEW w \in Seq(Nat), NEW q \in Seq(Nat), NEW a \in Seq(Nat), NEW b \in Seq(Nat),
         NEW d \in Seq(Deliveries), NEW l, Placed(w, q, a, b, d, l),
         NEW e \in Nat, e \notin ToSet(w)
  PROVE  Placed(Append(w, e), Append(q, e), a, b, d, l)
<1> DEFINE v == Append(w, e)
           r == Append(q, e)
<1>1. ToSet(v) = ToSet(w) \cup {e} /\ ToSet(r) = ToSet(q) \cup {e} /\ IsInjective(v)
  BY AppendSet, LaterInjective DEF Placed, Places
<1>2. /\ \A x, y : Before(w, x, y) => Before(v, x, y)
      /\ \A x \in ToSet(w) : Before(v, x, e)
  BY LaterOrder
<1>3. /\ DOMAIN r = 1 .. Len(q) + 1 /\ DOMAIN q = 1 .. Len(q) /\ Len(q) \in Nat
      /\ \A i \in 1 .. Len(q) : r[i] = q[i] /\ q[i] \in ToSet(q)
      /\ r[Len(q) + 1] = e
  BY AppendSet, SetOf
<1> HIDE DEF v, r
<1>4. Places(v, r, a, b, d, l)
  BY <1>1 DEF Placed, Places
<1>5. Sorted(v, r)
  <2> SUFFICES ASSUME NEW i \in DOMAIN r, NEW j \in DOMAIN r, i < j PROVE Before(v, r[i], r[j])
    BY DEF Sorted
  <2>1. i \in 1 .. Len(q) /\ r[i] = q[i] /\ q[i] \in ToSet(w)
    BY <1>3 DEF Placed, Places
  <2>2. CASE j = Len(q) + 1
    BY <1>2, <1>3, <2>1, <2>2
  <2>3. CASE j \in 1 .. Len(q)
    BY <1>2, <1>3, <2>1, <2>3 DEF Placed, Order, Sorted
  <2> QED BY <1>3, <2>2, <2>3
<1>6. Order(v, r, a, b, d)
  BY <1>1, <1>2, <1>5 DEF Placed, Places, Order, Sorted, AllBefore
<1> QED BY <1>4, <1>6 DEF Placed, v, r

\* ... is lost, because the queue is full, ...
LEMMA PutLost ==
  ASSUME NEW w \in Seq(Nat), NEW q \in Seq(Nat), NEW a \in Seq(Nat), NEW b \in Seq(Nat),
         NEW d \in Seq(Deliveries), NEW l, Placed(w, q, a, b, d, l),
         NEW e \in Nat, e \notin ToSet(w)
  PROVE  Placed(Append(w, e), q, a, b, d, l \cup {e})
<1> DEFINE v == Append(w, e)
<1>1. ToSet(v) = ToSet(w) \cup {e} /\ IsInjective(v)
  BY AppendSet, LaterInjective DEF Placed, Places
<1>2. \A x, y : Before(w, x, y) => Before(v, x, y)
  BY LaterOrder
<1> HIDE DEF v
<1>3. Places(v, q, a, b, d, l \cup {e})
  BY <1>1 DEF Placed, Places
<1>4. Order(v, q, a, b, d)
  BY <1>2 DEF Placed, Order, Sorted, AllBefore
<1> QED BY <1>3, <1>4 DEF Placed, v

\* ... or is sent at once, without batching.
LEMMA PutHolder ==
  ASSUME NEW w \in Seq(Nat), NEW d \in Seq(Deliveries), NEW l,
         Placed(w, <<>>, <<>>, <<>>, d, l),
         NEW e \in Nat, e \notin ToSet(w)
  PROVE  Placed(Append(w, e), <<>>, <<>>, <<e>>, d, l)
<1> DEFINE v == Append(w, e)
           r == <<e>>
           z == <<>>
<1>1. ToSet(v) = ToSet(w) \cup {e} /\ ToSet(r) = {e} /\ IsInjective(v) /\ ToSet(z) = {}
      /\ DOMAIN z = {}
  BY AppendSet, SingleSet, EmptySet, LaterInjective DEF Placed, Places
<1>2. /\ \A x, y : Before(w, x, y) => Before(v, x, y)
      /\ \A x \in ToSet(w) : Before(v, x, e)
  BY LaterOrder
<1>3. Placed(w, z, z, z, d, l)
  OBVIOUS
<1> HIDE DEF v, r, z
<1>4. Places(v, z, z, r, d, l)
  BY <1>1, <1>3 DEF Placed, Places
<1>5. Order(v, z, z, r, d)
  BY <1>1, <1>2, <1>3 DEF Placed, Places, Order, Sorted, AllBefore
<1> QED BY <1>4, <1>5 DEF Placed, v, r, z

\* flush() takes the oldest message of the queue.
LEMMA FlushOne ==
  ASSUME NEW w \in Seq(Nat), NEW q \in Seq(Nat), NEW a \in Seq(Nat),
         NEW d \in Seq(Deliveries), NEW l, Placed(w, q, a, <<>>, d, l), q # <<>>
  PROVE  Placed(w, Tail(q), a, <<Head(q)>>, d, l)
<1> DEFINE h == Head(q)
           t == Tail(q)
           b == <<h>>
           z == <<>>
<1>1. /\ h \in Nat /\ h = q[1] /\ Len(q) \in Nat /\ Len(q) >= 1 /\ DOMAIN q = 1 .. Len(q)
      /\ t \in Seq(Nat) /\ Len(t) = Len(q) - 1 /\ DOMAIN t = 1 .. Len(q) - 1
      /\ \A i \in 1 .. Len(q) - 1 : t[i] = q[i + 1]
      /\ ToSet(q) = {h} \cup ToSet(t) /\ ToSet(t) = {t[i] : i \in 1 .. Len(q) - 1}
  BY HeadSet, SetOf
<1>2. ToSet(b) = {h} /\ ToSet(z) = {}
  BY <1>1, SingleSet, EmptySet
<1>3. Placed(w, q, a, z, d, l)
  OBVIOUS
<1> HIDE DEF h, t, b, z
<1>4. Places(w, t, a, b, d, l)
  BY <1>1, <1>2, <1>3 DEF Placed, Places
<1>5. Sorted(w, t) /\ AllBefore(w, {h}, ToSet(t))
  <2>1. \A i, j \in 1 .. Len(q) : i < j => Before(w, q[i], q[j])
    BY <1>1, <1>3 DEF Placed, Order, Sorted
  <2>2. ASSUME NEW i \in 1 .. Len(q) - 1, NEW j \in 1 .. Len(q) - 1, i < j
        PROVE  Before(w, t[i], t[j])
    <3>1. i + 1 \in 1 .. Len(q) /\ j + 1 \in 1 .. Len(q) /\ i + 1 < j + 1
      BY <1>1, <2>2
    <3> QED BY <1>1, <2>1, <3>1
  <2>3. ASSUME NEW i \in 1 .. Len(q) - 1 PROVE Before(w, h, t[i])
    <3>1. i + 1 \in 1 .. Len(q) /\ 1 \in 1 .. Len(q) /\ 1 < i + 1
      BY <1>1
    <3> QED BY <1>1, <2>1, <3>1
  <2>4. Sorted(w, t)
    BY <1>1, <2>2 DEF Sorted
  <2>5. AllBefore(w, {h}, ToSet(t))
    BY <1>1, <2>3 DEF AllBefore
  <2> QED BY <2>4, <2>5
<1>6. Order(w, t, a, b, d)
  BY <1>1, <1>2, <1>3, <1>5 DEF Placed, Order, AllBefore
<1> QED BY <1>4, <1>6 DEF Placed, h, t, b, z

\* The worker takes some of the oldest while nothing is being sent.
LEMMA TakeSome ==
  ASSUME NEW w \in Seq(Nat), NEW q \in Seq(Nat), NEW d \in Seq(Deliveries), NEW l,
         Placed(w, q, <<>>, <<>>, d, l), NEW n \in 0 .. Len(q)
  PROVE  Placed(w, SubSeq(q, n + 1, Len(q)), SubSeq(q, 1, n), <<>>, d, l)
<1> DEFINE a == SubSeq(q, 1, n)
           r == SubSeq(q, n + 1, Len(q))
           z == <<>>
<1>1. /\ a \in Seq(Nat) /\ Len(a) = n /\ \A i \in 1 .. n : a[i] = q[i]
      /\ r \in Seq(Nat) /\ Len(r) = Len(q) - n
      /\ \A i \in 1 .. Len(q) - n : r[i] = q[n + i]
      /\ ToSet(q) = ToSet(a) \cup ToSet(r)
  BY CutSet
<1>2. /\ DOMAIN a = 1 .. n /\ DOMAIN r = 1 .. Len(q) - n /\ DOMAIN q = 1 .. Len(q)
      /\ ToSet(a) = {a[i] : i \in 1 .. n} /\ ToSet(r) = {r[i] : i \in 1 .. Len(q) - n}
      /\ Len(q) \in Nat /\ n \in Nat /\ n <= Len(q) /\ ToSet(z) = {}
  <2>1. Len(q) \in Nat /\ n \in Nat /\ n <= Len(q) /\ DOMAIN q = 1 .. Len(q)
    BY LenProperties
  <2> HIDE DEF a, r
  <2>2. DOMAIN a = 1 .. n /\ ToSet(a) = {a[i] : i \in 1 .. n}
    BY <1>1, SetOf
  <2>3. DOMAIN r = 1 .. Len(q) - n /\ ToSet(r) = {r[i] : i \in 1 .. Len(q) - n}
    BY <1>1, SetOf
  <2> QED BY <2>1, <2>2, <2>3, EmptySet
<1>3. Placed(w, q, z, z, d, l)
  OBVIOUS
<1> HIDE DEF a, r, z
<1>4. \A i, j \in 1 .. Len(q) : i < j => Before(w, q[i], q[j])
  BY <1>2, <1>3 DEF Placed, Order, Sorted
<1>5. \A i \in 1 .. n, j \in 1 .. Len(q) - n :
          i \in 1 .. Len(q) /\ n + j \in 1 .. Len(q) /\ i < n + j
  <2> SUFFICES ASSUME NEW i \in 1 .. n, NEW j \in 1 .. Len(q) - n
               PROVE  i \in 1 .. Len(q) /\ n + j \in 1 .. Len(q) /\ i < n + j
    OBVIOUS
  <2>1. Len(q) \in Nat /\ n \in Nat /\ n <= Len(q)
    BY <1>2
  <2> QED BY <2>1
<1>6. AllBefore(w, ToSet(a), ToSet(r))
  <2>1. ASSUME NEW i \in 1 .. n, NEW j \in 1 .. Len(q) - n PROVE Before(w, a[i], r[j])
    <3>1. i \in 1 .. Len(q) /\ n + j \in 1 .. Len(q) /\ i < n + j
      BY <1>5
    <3> QED BY <1>1, <1>4, <3>1
  <2> QED BY <1>2, <2>1 DEF AllBefore
<1>7. Sorted(w, a)
  <2>1. ASSUME NEW i \in 1 .. n, NEW j \in 1 .. n, i < j PROVE Before(w, a[i], a[j])
    <3>1. i \in 1 .. Len(q) /\ j \in 1 .. Len(q)
      BY <1>2
    <3> QED BY <1>1, <1>4, <2>1, <3>1
  <2> QED BY <1>2, <2>1 DEF Sorted
<1>8. Sorted(w, r)
  <2>1. ASSUME NEW i \in 1 .. Len(q) - n, NEW j \in 1 .. Len(q) - n, i < j
        PROVE  Before(w, r[i], r[j])
    <3>1. n + i \in 1 .. Len(q) /\ n + j \in 1 .. Len(q) /\ n + i < n + j
      BY <1>2, <2>1
    <3> QED BY <1>1, <1>4, <3>1
  <2> QED BY <1>2, <2>1 DEF Sorted
<1>9. AllBefore(w, Seqs(d), ToSet(q)) /\ SeqsBy(d, "worker") \subseteq Seqs(d)
  <2>1. SeqsBy(d, "worker") \subseteq Seqs(d)
    BY DEF Seqs, SeqsBy
  <2>2. AllBefore(w, Seqs(d), ToSet(q))
    BY <1>3 DEF Placed, Order, AllBefore
  <2> QED BY <2>1, <2>2
<1>10. Order(w, r, a, z, d)
  BY <1>1, <1>2, <1>3, <1>6, <1>7, <1>8, <1>9 DEF Placed, Order, AllBefore
<1>11. ToSet(a) \cap Seqs(d) = {}
  <2>1. \A x, y : Before(w, x, y) => x # y
    BY <1>3, StrictOrder DEF Placed, Places
  <2> QED BY <1>1, <1>9, <2>1 DEF AllBefore
<1>12. Places(w, r, a, z, d, l)
  BY <1>1, <1>2, <1>3, <1>11 DEF Placed, Places
<1> QED BY <1>10, <1>12 DEF Placed, a, r, z

\* What is given up is lost.
LEMMA LoseSome ==
  ASSUME NEW w \in Seq(Nat), NEW q \in Seq(Nat), NEW a \in Seq(Nat), NEW b \in Seq(Nat),
         NEW d \in Seq(Deliveries), NEW l, Placed(w, q, a, b, d, l)
  PROVE  /\ Placed(w, q, <<>>, b, d, l \cup ToSet(a))
         /\ Placed(w, q, a, <<>>, d, l \cup ToSet(b))
         /\ Placed(w, <<>>, a, b, d, l \cup ToSet(q))
<1> DEFINE z == <<>>
<1>1. ToSet(z) = {} /\ DOMAIN z = {}
  BY EmptySet
<1>2. \A x, y : Before(w, x, y) => x # y
  BY StrictOrder DEF Placed, Places
<1> HIDE DEF z
<1>3. ToSet(a) \cap ToSet(q) = {} /\ ToSet(b) \cap ToSet(q) = {} /\ Seqs(d) \cap ToSet(q) = {}
      /\ ToSet(a) \cap ToSet(b) = {} /\ Seqs(d) \cap ToSet(b) = {} /\ ToSet(a) \cap Seqs(d) = {}
  BY <1>2 DEF Placed, Places, Order, AllBefore
<1>4. Placed(w, q, z, b, d, l \cup ToSet(a))
  <2>1. Order(w, q, z, b, d)
    BY <1>1 DEF Placed, Order, AllBefore, Sorted
  <2>2. Places(w, q, z, b, d, l \cup ToSet(a))
    BY <1>1, <1>3 DEF Placed, Places
  <2> QED BY <2>1, <2>2 DEF Placed
<1>5. Placed(w, q, a, z, d, l \cup ToSet(b))
  <2>1. Order(w, q, a, z, d)
    BY <1>1 DEF Placed, Order, AllBefore, Sorted
  <2>2. Places(w, q, a, z, d, l \cup ToSet(b))
    BY <1>1, <1>3 DEF Placed, Places
  <2> QED BY <2>1, <2>2 DEF Placed
<1>6. Placed(w, z, a, b, d, l \cup ToSet(q))
  <2>1. Order(w, z, a, b, d)
    BY <1>1 DEF Placed, Order, AllBefore, Sorted
  <2>2. Places(w, z, a, b, d, l \cup ToSet(q))
    BY <1>1, <1>3 DEF Placed, Places
  <2> QED BY <2>1, <2>2 DEF Placed
<1> QED BY <1>4, <1>5, <1>6 DEF z

\* What a batch adds to the numbers that were delivered, by all and by each sender.
LEMMA DeliveredSets ==
  ASSUME NEW d \in Seq(Deliveries), NEW q \in Seq(Nat), NEW s \in Senders
  PROVE  LET r == d \o Stamped(q, s)
         IN  /\ Seqs(r) = Seqs(d) \cup ToSet(q)
             /\ \A u : u # s => SeqsBy(r, u) = SeqsBy(d, u)
             /\ r \in Seq(Deliveries) /\ Len(d) \in Nat /\ Len(q) \in Nat
             /\ DOMAIN r = 1 .. Len(d) + Len(q) /\ DOMAIN d = 1 .. Len(d)
             /\ \A i \in 1 .. Len(d) : r[i] = d[i] /\ d[i].seq \in Seqs(d)
             /\ \A i \in 1 .. Len(d) + Len(q) : ~(i <= Len(d)) =>
                    /\ i - Len(d) \in 1 .. Len(q) /\ r[i].by = s
                    /\ r[i].seq = q[i - Len(d)] /\ r[i].seq \in ToSet(q)
<1> DEFINE r == d \o Stamped(q, s)
<1>1. /\ r \in Seq(Deliveries) /\ Len(r) = Len(d) + Len(q)
      /\ \A i \in 1 .. Len(d) : r[i] = d[i]
      /\ \A i \in 1 .. Len(q) : r[Len(d) + i].seq = q[i] /\ r[Len(d) + i].by = s
  BY Stamping
<1> HIDE DEF r
<1>2. Len(d) \in Nat /\ Len(q) \in Nat /\ DOMAIN d = 1 .. Len(d) /\ DOMAIN r = 1 .. Len(d) + Len(q)
      /\ ToSet(q) = {q[i] : i \in 1 .. Len(q)}
  BY <1>1, SetOf
<1>3. \A i \in 1 .. Len(d) : r[i] = d[i] /\ d[i].seq \in Seqs(d)
  BY <1>1, <1>2 DEF Seqs
<1>4. ASSUME NEW i \in 1 .. Len(d) + Len(q), ~(i <= Len(d))
      PROVE  /\ i - Len(d) \in 1 .. Len(q) /\ r[i].by = s
             /\ r[i].seq = q[i - Len(d)] /\ r[i].seq \in ToSet(q)
  <2> DEFINE k == i - Len(d)
  <2>1. k \in 1 .. Len(q) /\ Len(d) + k = i
    BY <1>2, <1>4
  <2> HIDE DEF k
  <2>2. r[Len(d) + k].seq = q[k] /\ r[Len(d) + k].by = s
    BY <1>1, <2>1
  <2>3. r[i].seq = q[k] /\ r[i].by = s
    BY <2>1, <2>2
  <2>4. q[k] \in ToSet(q)
    BY <1>2, <2>1
  <2> QED BY <2>1, <2>3, <2>4 DEF k
<1>5. \A i \in 1 .. Len(d) : i \in 1 .. Len(d) + Len(q)
  BY <1>2
<1>6. \A i \in 1 .. Len(d) + Len(q) : i <= Len(d) => i \in 1 .. Len(d)
  BY <1>2
<1>7. Seqs(r) = Seqs(d) \cup ToSet(q)
  <2>1. ASSUME NEW i \in 1 .. Len(d) + Len(q) PROVE r[i].seq \in Seqs(d) \cup ToSet(q)
    BY <1>3, <1>4, <1>6
  <2>2. ASSUME NEW i \in 1 .. Len(d) PROVE d[i].seq \in Seqs(r)
    BY <1>2, <1>3, <1>5 DEF Seqs
  <2>3. ASSUME NEW i \in 1 .. Len(q) PROVE q[i] \in Seqs(r)
    <3>1. Len(d) + i \in 1 .. Len(d) + Len(q)
      BY <1>2
    <3> QED BY <1>1, <1>2, <3>1 DEF Seqs
  <2>4. Seqs(r) \subseteq Seqs(d) \cup ToSet(q)
    BY <1>2, <2>1 DEF Seqs
  <2>5. Seqs(d) \subseteq Seqs(r)
    BY <1>2, <2>2 DEF Seqs
  <2>6. ToSet(q) \subseteq Seqs(r)
    BY <1>2, <2>3
  <2> QED BY <2>4, <2>5, <2>6
<1>8. ASSUME NEW u, u # s PROVE SeqsBy(r, u) = SeqsBy(d, u)
  <2>1. ASSUME NEW i \in DOMAIN r, r[i].by = u PROVE i \in DOMAIN d /\ r[i] = d[i]
    BY <1>2, <1>3, <1>4, <1>6, <1>8, <2>1
  <2>2. ASSUME NEW i \in DOMAIN d PROVE i \in DOMAIN r /\ r[i] = d[i]
    BY <1>2, <1>3, <1>5
  <2> QED BY <2>1, <2>2 DEF SeqsBy
<1> QED BY <1>1, <1>2, <1>3, <1>4, <1>7, <1>8 DEF r

\* A delivery of the worker's batch, ...
LEMMA DeliverBatch ==
  ASSUME NEW w \in Seq(Nat), NEW q \in Seq(Nat), NEW a \in Seq(Nat), NEW b \in Seq(Nat),
         NEW d \in Seq(Deliveries), NEW l, Placed(w, q, a, b, d, l)
  PROVE  Placed(w, q, <<>>, b, d \o Stamped(a, "worker"), l)
<1> DEFINE r == d \o Stamped(a, "worker")
           z == <<>>
           m == Len(d)
           n == Len(a)
<1>0. ToSet(z) = {} /\ DOMAIN z = {}
  BY EmptySet
<1>1. /\ Seqs(r) = Seqs(d) \cup ToSet(a)
      /\ m \in Nat /\ n \in Nat /\ DOMAIN r = 1 .. m + n /\ DOMAIN d = 1 .. m
      /\ \A i \in 1 .. m : r[i] = d[i] /\ d[i].seq \in Seqs(d)
      /\ \A i \in 1 .. m + n : ~(i <= m) =>
             /\ i - m \in 1 .. n /\ r[i].by = "worker"
             /\ r[i].seq = a[i - m] /\ r[i].seq \in ToSet(a)
  <2>1. "worker" \in Senders /\ "worker" # "holder"
    BY DEF Senders
  <2> QED BY <2>1, DeliveredSets, ZenonT(40)
<1>2. DOMAIN a = 1 .. n
  BY SetOf
<1>3. \A x, y : Before(w, x, y) => x # y
  BY StrictOrder DEF Placed, Places
<1> HIDE DEF r, z, m, n
<1>4. \A i \in 1 .. m + n : i <= m => i \in 1 .. m
  BY <1>1
<1>5. ASSUME NEW i \in 1 .. m + n, NEW j \in 1 .. m + n, i < j
      PROVE  \/ Before(w, r[i].seq, r[j].seq)
             \/ r[i].by = "holder" /\ r[j].by = "worker"
  <2>1. CASE j <= m
    <3>1. i <= m
      BY <1>1, <1>5, <2>1
    <3> QED BY <1>1, <1>4, <1>5, <2>1, <3>1 DEF Placed, Order
  <2>2. CASE i <= m /\ ~(j <= m)
    <3>1. r[i] = d[i] /\ i \in 1 .. m /\ r[j].by = "worker" /\ r[j].seq \in ToSet(a)
      BY <1>1, <1>4, <2>2
    <3>2. d[i] \in Deliveries
      BY <3>1, ElementOfSeq DEF m
    <3>3. d[i].by \in {"worker", "holder"}
      BY <3>2 DEF Deliveries, Senders
    <3>4. CASE d[i].by = "worker"
      <4>1. d[i].seq \in SeqsBy(d, "worker")
        BY <1>1, <3>1, <3>4 DEF SeqsBy
      <4> QED BY <3>1, <4>1 DEF Placed, Order, AllBefore
    <3> QED BY <3>1, <3>3, <3>4
  <2>3. CASE ~(i <= m)
    <3>1. ~(j <= m)
      BY <1>1, <1>5, <2>3
    <3>2. /\ i - m \in 1 .. n /\ r[i].seq = a[i - m]
          /\ j - m \in 1 .. n /\ r[j].seq = a[j - m]
      BY <1>1, <2>3, <3>1
    <3>3. i - m < j - m
      BY <1>1, <1>5
    <3> QED BY <1>2, <3>2, <3>3 DEF Placed, Order, Sorted
  <2> QED BY <2>1, <2>2, <2>3
<1>6. ASSUME NEW i \in 1 .. m + n, NEW j \in 1 .. m + n, i < j
      PROVE  r[i].seq # r[j].seq
  <2>1. CASE j <= m
    <3>1. i <= m
      BY <1>1, <1>6, <2>1
    <3>2. i \in 1 .. m /\ j \in 1 .. m /\ i # j /\ r[i] = d[i] /\ r[j] = d[j]
      BY <1>1, <1>4, <1>6, <2>1, <3>1
    <3> QED BY <1>1, <3>2 DEF Placed, Places
  <2>2. CASE i <= m /\ ~(j <= m)
    <3>1. r[i].seq \in Seqs(d) /\ r[j].seq \in ToSet(a)
      BY <1>1, <1>4, <2>2
    <3> QED BY <3>1 DEF Placed, Places
  <2>3. CASE ~(i <= m)
    <3>1. ~(j <= m)
      BY <1>1, <1>6, <2>3
    <3>2. /\ i - m \in 1 .. n /\ r[i].seq = a[i - m]
          /\ j - m \in 1 .. n /\ r[j].seq = a[j - m]
      BY <1>1, <2>3, <3>1
    <3>3. i - m < j - m
      BY <1>1, <1>6
    <3> QED BY <1>2, <1>3, <3>2, <3>3 DEF Placed, Order, Sorted
  <2> QED BY <2>1, <2>2, <2>3
<1>7. \A i, j \in DOMAIN r : r[i].seq = r[j].seq => i = j
  <2>1. \A i, j \in 1 .. m + n : i < j \/ j < i \/ i = j
    BY <1>1
  <2> QED BY <1>1, <1>6, <2>1
<1>8. Places(w, q, z, b, r, l)
  BY <1>0, <1>1, <1>7 DEF Placed, Places
<1>9. \A i, j \in DOMAIN r : i < j =>
          \/ Before(w, r[i].seq, r[j].seq)
          \/ r[i].by = "holder" /\ r[j].by = "worker"
  <2> SUFFICES ASSUME NEW i \in DOMAIN r, NEW j \in DOMAIN r, i < j
               PROVE  \/ Before(w, r[i].seq, r[j].seq)
                      \/ r[i].by = "holder" /\ r[j].by = "worker"
    OBVIOUS
  <2>1. i \in 1 .. m + n /\ j \in 1 .. m + n
    BY <1>1
  <2> QED BY <1>5, <2>1
<1>10. Order(w, q, z, b, r)
  <2>1. Sorted(w, q) /\ Sorted(w, z)
    BY <1>0 DEF Placed, Order, Sorted
  <2>2. /\ AllBefore(w, ToSet(z) \cup ToSet(b) \cup Seqs(r), ToSet(q))
        /\ AllBefore(w, ToSet(z) \cup Seqs(r), ToSet(b))
        /\ AllBefore(w, SeqsBy(r, "worker"), ToSet(z))
    BY <1>0, <1>1 DEF Placed, Order, AllBefore
  <2> QED BY <1>9, <2>1, <2>2 DEF Order
<1> QED BY <1>8, <1>10 DEF Placed, r, z

\* ... which is in order behind what the worker has delivered, and of the one message
\* of a flush or of an unbatched write().
LEMMA DeliverOne ==
  ASSUME NEW w \in Seq(Nat), NEW q \in Seq(Nat), NEW a \in Seq(Nat), NEW b \in Seq(Nat),
         NEW d \in Seq(Deliveries), NEW l, Placed(w, q, a, b, d, l), Len(b) <= 1
  PROVE  Placed(w, q, a, <<>>, d \o Stamped(b, "holder"), l)
<1> DEFINE r == d \o Stamped(b, "holder")
           z == <<>>
           m == Len(d)
           n == Len(b)
<1>0. ToSet(z) = {} /\ DOMAIN z = {}
  BY EmptySet
<1>1. /\ Seqs(r) = Seqs(d) \cup ToSet(b)
      /\ m \in Nat /\ n \in Nat /\ DOMAIN r = 1 .. m + n /\ DOMAIN d = 1 .. m
      /\ \A i \in 1 .. m : r[i] = d[i] /\ d[i].seq \in Seqs(d)
      /\ \A i \in 1 .. m + n : ~(i <= m) =>
             /\ i - m \in 1 .. n /\ r[i].by = "holder"
             /\ r[i].seq = b[i - m] /\ r[i].seq \in ToSet(b)
  <2>1. "holder" \in Senders /\ "worker" # "holder"
    BY DEF Senders
  <2> QED BY <2>1, DeliveredSets, Zenon
<1>2. SeqsBy(r, "worker") = SeqsBy(d, "worker")
  <2>1. "holder" \in Senders /\ "worker" # "holder"
    BY DEF Senders
  <2>2. \A u : u # "holder" => SeqsBy(r, u) = SeqsBy(d, u)
    BY <2>1, DeliveredSets, Zenon
  <2> QED BY <2>1, <2>2
<1>3. \A x, y : Before(w, x, y) => x # y
  BY StrictOrder DEF Placed, Places
<1>m. n <= 1
  OBVIOUS
<1> HIDE DEF r, z, m, n
<1>4. \A i \in 1 .. m + n : i <= m => i \in 1 .. m
  BY <1>1
<1>5. ASSUME NEW i \in 1 .. m + n, NEW j \in 1 .. m + n, i < j
      PROVE  /\ \/ Before(w, r[i].seq, r[j].seq)
                \/ r[i].by = "holder" /\ r[j].by = "worker"
             /\ r[i].seq # r[j].seq
  <2>1. i <= m
    BY <1>1, <1>5, <1>m
  <2>2. CASE j <= m
    <3>1. i \in 1 .. m /\ j \in 1 .. m /\ i # j /\ r[i] = d[i] /\ r[j] = d[j]
      BY <1>1, <1>4, <1>5, <2>1, <2>2
    <3>2. d[i].seq # d[j].seq
      BY <1>1, <3>1 DEF Placed, Places
    <3>3. Before(w, d[i].seq, d[j].seq) \/ (d[i].by = "holder" /\ d[j].by = "worker")
      <4>1. \A x, y \in DOMAIN d : x < y =>
                \/ Before(w, d[x].seq, d[y].seq)
                \/ d[x].by = "holder" /\ d[y].by = "worker"
        BY DEF Placed, Order
      <4>2. i \in DOMAIN d /\ j \in DOMAIN d
        BY <1>1, <3>1
      <4> QED BY <1>5, <4>1, <4>2
    <3> QED BY <3>1, <3>2, <3>3
  <2>3. CASE ~(j <= m)
    <3>1. r[i].seq \in Seqs(d) /\ r[j].seq \in ToSet(b)
      BY <1>1, <1>4, <2>1, <2>3
    <3>2. Before(w, r[i].seq, r[j].seq)
      BY <3>1 DEF Placed, Order, AllBefore
    <3> QED BY <1>3, <3>2
  <2> QED BY <2>2, <2>3
<1>6. \A i, j \in DOMAIN r : r[i].seq = r[j].seq => i = j
  <2>1. \A i, j \in 1 .. m + n : i < j \/ j < i \/ i = j
    BY <1>1
  <2> QED BY <1>1, <1>5, <2>1
<1>7. ToSet(a) \cap Seqs(r) = {}
  <2>1. ToSet(a) \cap ToSet(b) = {}
    BY <1>3 DEF Placed, Order, AllBefore
  <2> QED BY <1>1, <2>1 DEF Placed, Places
<1>8. Places(w, q, a, z, r, l)
  BY <1>0, <1>1, <1>6, <1>7 DEF Placed, Places
<1>9. \A i, j \in DOMAIN r : i < j =>
          \/ Before(w, r[i].seq, r[j].seq)
          \/ r[i].by = "holder" /\ r[j].by = "worker"
  <2> SUFFICES ASSUME NEW i \in DOMAIN r, NEW j \in DOMAIN r, i < j
               PROVE  \/ Before(w, r[i].seq, r[j].seq)
                      \/ r[i].by = "holder" /\ r[j].by = "worker"
    OBVIOUS
  <2>1. i \in 1 .. m + n /\ j \in 1 .. m + n
    BY <1>1
  <2> QED BY <1>5, <2>1
<1>10. Order(w, q, a, z, r)
  <2>1. Sorted(w, q) /\ Sorted(w, a)
    BY DEF Placed, Order
  <2>2. /\ AllBefore(w, ToSet(a) \cup ToSet(z) \cup Seqs(r), ToSet(q))
        /\ AllBefore(w, ToSet(a) \cup Seqs(r), ToSet(z))
        /\ AllBefore(w, SeqsBy(r, "worker"), ToSet(a))
    BY <1>0, <1>1, <1>2 DEF Placed, Order, AllBefore
  <2> QED BY <1>9, <2>1, <2>2 DEF Order
<1> QED BY <1>8, <1>10 DEF Placed, r, z

-----------------------------------------------------------------------------
(* The steps.                                                              *)

\* A number is written once: every event that is still to be written is a new one.
LEMMA FreshStep ==
  ASSUME TypeInv, Fresh, [Next]_vars
  PROVE  Fresh'
<1> USE DEF logging, outcome, SendUnchanged
<1>0. /\ event \in [Loggers -> 0 .. totalLogs] /\ totalLogs \in Nat /\ written \in Seq(Nat)
      /\ logPc \in [Loggers -> {"idle", "count", "write"}]
      /\ \A x \in ToSet(written) : x \in Nat /\ x <= totalLogs
  <2>1. totalLogs \in 0 .. 2 * begun /\ begun \in 0 .. MaxEvents
    BY DEF TypeInv, TypeOK
  <2>2. ToSet(written) \subseteq Nat
    BY SetOf DEF TypeInv, DataOK
  <2> QED BY <2>1, <2>2 DEF TypeInv, TypeOK, DataOK, Fresh
<1>1. ASSUME NEW t \in Loggers, Log(t) PROVE Fresh'
  <2>1. /\ totalLogs' = totalLogs + 1 /\ event' = [event EXCEPT ![t] = totalLogs + 1]
        /\ logPc' = [logPc EXCEPT ![t] = "count"] /\ written' = written /\ logPc[t] = "idle"
    BY <1>1 DEF Log
  <2>2. /\ event'[t] = totalLogs + 1 /\ \A u \in Loggers : event[u] <= totalLogs /\ event[u] \in Nat
        /\ \A u \in Loggers \ {t} : event'[u] = event[u] /\ logPc'[u] = logPc[u]
    BY <1>0, <2>1
  <2>3. ToSet(written)' = ToSet(written)
    BY <2>1
  <2> HIDE DEF ToSet
  <2>4. \A x \in ToSet(written)' : x <= totalLogs'
    BY <1>0, <2>1, <2>3
  <2>5. \A u \in Loggers : logPc'[u] # "idle" => event'[u] \notin ToSet(written)'
    BY <1>0, <2>2, <2>3 DEF Fresh
  <2>6. \A u, v \in Loggers :
            logPc'[u] # "idle" /\ logPc'[v] # "idle" /\ event'[u] = event'[v] => u = v
    <3> SUFFICES ASSUME NEW u \in Loggers, NEW v \in Loggers, logPc'[u] # "idle",
                        logPc'[v] # "idle", event'[u] = event'[v]
                 PROVE  u = v
      OBVIOUS
    <3>1. CASE u = t \/ v = t
      BY <1>0, <2>2, <3>1
    <3>2. CASE u # t /\ v # t
      BY <2>2, <3>2 DEF Fresh
    <3> QED BY <3>1, <3>2
  <2> QED BY <2>4, <2>5, <2>6 DEF Fresh
<1>2. ASSUME NEW t \in Loggers, Count(t) PROVE Fresh'
  <2>1. /\ totalLogs' = totalLogs + 1 /\ event' = event
        /\ logPc' = [logPc EXCEPT ![t] = "write"] /\ written' = written /\ logPc[t] = "count"
    BY <1>2 DEF Count
  <2>2. \A u \in Loggers : logPc'[u] # "idle" => logPc[u] # "idle"
    BY <1>0, <2>1
  <2> QED BY <1>0, <2>1, <2>2 DEF Fresh
<1>3. ASSUME NEW t \in Loggers, Write(t) PROVE Fresh'
  <2>1. /\ totalLogs' = totalLogs /\ event' = event
        /\ logPc' = [logPc EXCEPT ![t] = "idle"] /\ logPc[t] = "write"
        /\ written' = Append(written, event[t]) \/ written' = written
    BY <1>3 DEF Write
  <2>2. \A u \in Loggers : logPc'[u] # "idle" => logPc[u] # "idle" /\ u # t
    BY <1>0, <2>1
  <2>3. event[t] \in Nat /\ event[t] <= totalLogs
    BY <1>0
  <2>4. ToSet(written)' \subseteq ToSet(written) \cup {event[t]}
    <3>1. CASE written' = Append(written, event[t])
      <4>1. ToSet(Append(written, event[t])) = ToSet(written) \cup {event[t]}
        BY <1>0, <2>3, AppendSet
      <4> QED BY <3>1, <4>1
    <3>2. CASE written' = written
      BY <3>2
    <3> QED BY <2>1, <3>1, <3>2
  <2>5. \A x \in ToSet(written)' : x <= totalLogs'
    BY <1>0, <2>1, <2>3, <2>4
  <2>6. \A u \in Loggers : logPc'[u] # "idle" => event'[u] \notin ToSet(written)'
    BY <2>1, <2>2, <2>4 DEF Fresh
  <2>7. \A u, v \in Loggers :
            logPc'[u] # "idle" /\ logPc'[v] # "idle" /\ event'[u] = event'[v] => u = v
    BY <2>1, <2>2 DEF Fresh
  <2> QED BY <2>5, <2>6, <2>7 DEF Fresh
<1>4. ASSUME UNCHANGED <<totalLogs, event, logPc, written>> PROVE Fresh'
  BY <1>4 DEF Fresh
<1>5. CASE Flush \/ FlushNext \/ Leave \/ RemoveSink \/ SinkRemoved \/ WorkerTest \/ TakeBatch
           \/ WorkerSent \/ Send("worker") \/ Send("holder") \/ UNCHANGED vars
  <2>1. UNCHANGED <<totalLogs, event, logPc, written>>
    BY <1>5 DEF Flush, FlushNext, Leave, RemoveSink, SinkRemoved, WorkerTest, TakeBatch,
       WorkerSent, Send, SendSucceeds, SendFails, GiveUp, vars
  <2> QED BY <1>4, <2>1
<1>6. ASSUME NEW s \in Senders, BrokenPipe(s) PROVE Fresh'
  BY <1>4, <1>6 DEF BrokenPipe
<1> QED BY <1>1, <1>2, <1>3, <1>5, <1>6 DEF Next, WorkerStep, HolderStep

\* Who touches none of the pieces leaves the events where they are.
LEMMA SameData ==
  ASSUME DataInv, UNCHANGED <<written, queued, sending, delivered, lost>>
  PROVE  DataInv'
<1>1. InWorker' = InWorker /\ InHolder' = InHolder
  BY DEF InWorker, InHolder
<1> QED BY <1>1 DEF DataInv

\* write() puts a new event into the queue, or loses it.
LEMMA WriteData ==
  ASSUME SinkAssumption, TypeInv, Fresh, DataInv, NEW t \in Loggers, Write(t)
  PROVE  DataInv'
<1> DEFINE e == event[t]
<1>0. /\ InWorker \in Seq(Nat) /\ InHolder \in Seq(Nat) /\ queued \in Seq(Nat)
      /\ written \in Seq(Nat) /\ delivered \in Seq(Deliveries)
      /\ e \in Nat /\ e \notin ToSet(written)
      /\ Placed(written, queued, InWorker, InHolder, delivered, lost)
      /\ holder = "none" /\ delivered' = delivered /\ sending \in [Senders -> Seq(Nat)]
      /\ BatchSize \in Nat /\ Len(queued) \in Nat
  <2>1. e \notin ToSet(written) /\ BatchSize \in Nat
    BY DEF Write, Fresh, SinkAssumption
  <2> QED BY <2>1, Parts, LenProperties DEF Write, TypeInv, TypeOK, DataOK, DataInv
<1> HIDE DEF e
<1>1. CASE sink # "open"
  <2>1. UNCHANGED <<written, queued, sending, delivered, lost>>
    BY <1>0, <1>1 DEF Write
  <2> QED BY <2>1, SameData
<1>2. CASE sink = "open" /\ batching /\ Len(queued) < BatchSize * 2
  <2>1. /\ written' = Append(written, e) /\ queued' = Append(queued, e)
        /\ UNCHANGED <<sending, lost>>
    <3>1. ~ (Len(queued) >= BatchSize * 2)
      BY <1>0, <1>2
    <3> QED BY <1>2, <3>1 DEF Write, e
  <2>2. InWorker' = InWorker /\ InHolder' = InHolder
    BY <2>1 DEF InWorker, InHolder
  <2>3. Placed(Append(written, e), Append(queued, e), InWorker, InHolder, delivered, lost)
    BY <1>0, PutQueue
  <2> QED BY <1>0, <2>1, <2>2, <2>3 DEF DataInv
<1>3. CASE sink = "open" /\ batching /\ ~ (Len(queued) < BatchSize * 2)
  <2>1. /\ written' = Append(written, e) /\ queued' = queued
        /\ UNCHANGED sending /\ lost' = lost \cup {e}
    <3>1. Len(queued) >= BatchSize * 2
      BY <1>0, <1>3
    <3> QED BY <1>3, <3>1 DEF Write, e
  <2>2. InWorker' = InWorker /\ InHolder' = InHolder
    BY <2>1 DEF InWorker, InHolder
  <2>3. Placed(Append(written, e), queued, InWorker, InHolder, delivered, lost \cup {e})
    BY <1>0, PutLost
  <2> QED BY <1>0, <2>1, <2>2, <2>3 DEF DataInv
<1>4. CASE sink = "open" /\ ~ batching
  <2>1. /\ written' = Append(written, e) /\ queued' = queued /\ lost' = lost
        /\ sending' = [sending EXCEPT !["holder"] = <<e>>]
    BY <1>4 DEF Write, e
  <2>2. queued = <<>> /\ InWorker = <<>> /\ InHolder = <<>>
    BY <1>0, <1>4 DEF TypeInv, Control
  <2> DEFINE x == <<e>>
  <2> HIDE DEF x
  <2>3. sending' = [sending EXCEPT !["holder"] = x]
    BY <2>1 DEF x
  <2>4. InWorker' = InWorker /\ InHolder' = x
    BY <1>0, <2>3 DEF InWorker, InHolder, Senders
  <2>5. Placed(written, <<>>, <<>>, <<>>, delivered, lost)
    BY <1>0, <2>2
  <2>6. Placed(Append(written, e), <<>>, <<>>, x, delivered, lost)
    BY <1>0, <2>5, PutHolder DEF x
  <2> QED BY <1>0, <2>1, <2>2, <2>4, <2>6 DEF DataInv
<1> QED BY <1>1, <1>2, <1>3, <1>4 DEF TypeInv, TypeOK

\* Sending moves the events of a batch to the delivered ones.
LEMMA SendData ==
  ASSUME TypeInv, DataInv, NEW s \in Senders, Send(s)
  PROVE  DataInv'
<1> USE DEF logging, outcome, SendUnchanged
<1>0. /\ InWorker \in Seq(Nat) /\ InHolder \in Seq(Nat) /\ queued \in Seq(Nat)
      /\ written \in Seq(Nat) /\ delivered \in Seq(Deliveries) /\ Len(InHolder) <= 1
      /\ Placed(written, queued, InWorker, InHolder, delivered, lost)
      /\ sending \in [Senders -> Seq(Nat)] /\ written' = written /\ queued' = queued
      /\ s \in {"worker", "holder"}
  BY Parts DEF Send, SendSucceeds, SendFails, GiveUp, TypeInv, DataOK, DataInv, Senders
<1> DEFINE z == <<>>
<1> HIDE DEF z
<1>1. CASE SendFails(s)
  BY <1>1, SameData DEF SendFails
<1>2. ASSUME sending' = [sending EXCEPT ![s] = z]
      PROVE  /\ s = "worker" => InWorker' = z /\ InHolder' = InHolder
             /\ s = "holder" => InHolder' = z /\ InWorker' = InWorker
  BY <1>0, <1>2 DEF InWorker, InHolder, Senders
<1>3. CASE SendSucceeds(s)
  <2>1. /\ sending' = [sending EXCEPT ![s] = z] /\ lost' = lost
        /\ delivered' = delivered \o Stamped(sending[s], s)
    BY <1>3 DEF SendSucceeds, Delivers, Stamped, Ends, z
  <2>2. CASE s = "worker"
    <3>1. Placed(written, queued, z, InHolder, delivered \o Stamped(InWorker, "worker"), lost)
      BY <1>0, DeliverBatch DEF z
    <3>2. delivered' = delivered \o Stamped(InWorker, "worker")
      BY <2>1, <2>2 DEF InWorker
    <3> DEFINE r == delivered \o Stamped(InWorker, "worker")
    <3> HIDE DEF r
    <3>3. Placed(written, queued, z, InHolder, r, lost) /\ delivered' = r
      BY <3>1, <3>2 DEF r
    <3> QED BY <1>0, <1>2, <2>1, <2>2, <3>3 DEF DataInv
  <2>3. CASE s = "holder"
    <3>1. Placed(written, queued, InWorker, z, delivered \o Stamped(InHolder, "holder"), lost)
      BY <1>0, DeliverOne DEF z
    <3>2. delivered' = delivered \o Stamped(InHolder, "holder")
      BY <2>1, <2>3 DEF InHolder
    <3> DEFINE r == delivered \o Stamped(InHolder, "holder")
    <3> HIDE DEF r
    <3>3. Placed(written, queued, InWorker, z, r, lost) /\ delivered' = r
      BY <3>1, <3>2 DEF r
    <3> QED BY <1>0, <1>2, <2>1, <2>3, <3>3 DEF DataInv
  <2> QED BY <1>0, <2>2, <2>3
<1>4. CASE GiveUp(s)
  <2>1. /\ sending' = [sending EXCEPT ![s] = z] /\ delivered' = delivered
        /\ lost' = lost \cup ToSet(sending[s])
    BY <1>4 DEF GiveUp, Ends, z
  <2>2. /\ Placed(written, queued, z, InHolder, delivered, lost \cup ToSet(InWorker))
        /\ Placed(written, queued, InWorker, z, delivered, lost \cup ToSet(InHolder))
    BY <1>0, LoseSome DEF z
  <2>3. CASE s = "worker"
    <3>1. lost' = lost \cup ToSet(InWorker)
      BY <2>1, <2>3 DEF InWorker
    <3> QED BY <1>0, <1>2, <2>1, <2>2, <2>3, <3>1 DEF DataInv
  <2>4. CASE s = "holder"
    <3>1. lost' = lost \cup ToSet(InHolder)
      BY <2>1, <2>4 DEF InHolder
    <3> QED BY <1>0, <1>2, <2>1, <2>2, <2>4, <3>1 DEF DataInv
  <2> QED BY <1>0, <2>3, <2>4
<1> QED BY <1>1, <1>3, <1>4 DEF Send

\* The worker moves the front of the queue into its hands.
LEMMA TakeData ==
  ASSUME SinkAssumption, TypeInv, DataInv, TakeBatch
  PROVE  DataInv'
<1>0. /\ queued \in Seq(Nat) /\ written \in Seq(Nat) /\ delivered \in Seq(Deliveries)
      /\ Placed(written, queued, InWorker, InHolder, delivered, lost)
      /\ UNCHANGED <<written, delivered, lost>>
  BY Parts DEF DataInv, TakeBatch, outcome
<1>1. /\ Batch \in 0 .. Len(queued) /\ InWorker = <<>> /\ InHolder = <<>>
      /\ InWorker' = SubSeq(queued, 1, Batch) /\ InHolder' = <<>>
      /\ queued' = SubSeq(queued, Batch + 1, Len(queued))
  BY Taking
<1>3. Placed(written, queued, <<>>, <<>>, delivered, lost)
  BY <1>0, <1>1
<1> DEFINE x == SubSeq(queued, 1, Batch)
           y == SubSeq(queued, Batch + 1, Len(queued))
<1>4. Placed(written, y, x, <<>>, delivered, lost)
  BY <1>0, <1>1, <1>3, TakeSome
<1>5. InWorker' = x /\ queued' = y
  BY <1>1
<1> HIDE DEF x, y
<1> QED BY <1>0, <1>1, <1>4, <1>5 DEF DataInv

\* flush() takes one event after the other past what the worker holds.
LEMMA FlushData ==
  ASSUME TypeInv, DataInv, FlushNext
  PROVE  DataInv'
<1>0. /\ queued \in Seq(Nat) /\ written \in Seq(Nat) /\ delivered \in Seq(Deliveries)
      /\ InWorker \in Seq(Nat) /\ Placed(written, queued, InWorker, InHolder, delivered, lost)
      /\ UNCHANGED <<written, delivered, lost>> /\ sending \in [Senders -> Seq(Nat)]
      /\ InHolder = <<>> /\ queued # <<>> /\ queued' = Tail(queued)
      /\ sending' = [sending EXCEPT !["holder"] = <<Head(queued)>>]
  BY Parts DEF TypeInv, DataOK, DataInv, FlushNext, outcome, InHolder
<1> DEFINE x == <<Head(queued)>>
<1>1. Placed(written, queued, InWorker, <<>>, delivered, lost)
  BY <1>0
<1>2. Placed(written, Tail(queued), InWorker, x, delivered, lost)
  BY <1>0, <1>1, FlushOne
<1>3. sending' = [sending EXCEPT !["holder"] = x]
  BY <1>0
<1> HIDE DEF x
<1>4. InWorker' = InWorker /\ InHolder' = x
  BY <1>0, <1>3 DEF InWorker, InHolder, Senders
<1> QED BY <1>0, <1>2, <1>4 DEF DataInv

\* The sink is removed with what is queued.
LEMMA RemoveData ==
  ASSUME TypeInv, DataInv, SinkRemoved
  PROVE  DataInv'
<1>0. /\ queued \in Seq(Nat) /\ written \in Seq(Nat) /\ delivered \in Seq(Deliveries)
      /\ InWorker \in Seq(Nat) /\ InHolder \in Seq(Nat)
      /\ Placed(written, queued, InWorker, InHolder, delivered, lost)
      /\ UNCHANGED <<written, delivered, sending>>
      /\ lost' = lost \cup ToSet(queued) /\ queued' = <<>>
  BY Parts DEF DataInv, SinkRemoved
<1>1. InWorker' = InWorker /\ InHolder' = InHolder
  BY <1>0 DEF InWorker, InHolder
<1>2. Placed(written, <<>>, InWorker, InHolder, delivered, lost \cup ToSet(queued))
  BY <1>0, LoseSome
<1> QED BY <1>0, <1>1, <1>2 DEF DataInv

\* A broken connection takes everything that is on its way.
LEMMA BrokenData ==
  ASSUME TypeInv, DataInv, NEW s \in Senders, BrokenPipe(s)
  PROVE  DataInv'
<1> DEFINE z == <<>>
           l1 == lost \cup ToSet(queued)
           l2 == l1 \cup ToSet(InWorker)
           l3 == l2 \cup ToSet(InHolder)
<1>0. /\ queued \in Seq(Nat) /\ written \in Seq(Nat) /\ delivered \in Seq(Deliveries)
      /\ InWorker \in Seq(Nat) /\ InHolder \in Seq(Nat) /\ z \in Seq(Nat)
      /\ Placed(written, queued, InWorker, InHolder, delivered, lost)
      /\ UNCHANGED <<written, delivered>> /\ queued' = z
  BY Parts, EmptySet DEF DataInv, BrokenPipe
<1>1. InWorker' = z /\ InHolder' = z
  BY DEF InWorker, InHolder, BrokenPipe, Senders
<1>2. lost' = l3
  BY DEF BrokenPipe, Senders, InWorker, InHolder
<1> HIDE DEF z, l1, l2, l3
<1>3. Placed(written, z, InWorker, InHolder, delivered, l1)
  BY <1>0, LoseSome DEF z, l1
<1>4. Placed(written, z, z, InHolder, delivered, l2)
  BY <1>0, <1>3, LoseSome DEF z, l2
<1>5. Placed(written, z, z, z, delivered, l3)
  BY <1>0, <1>4, LoseSome DEF z, l3
<1> QED BY <1>0, <1>1, <1>2, <1>5 DEF DataInv

\* Every step keeps each event in one place, and the order but for flush().
LEMMA DataStep ==
  ASSUME SinkAssumption, TypeInv, Fresh, DataInv, [Next]_vars
  PROVE  DataInv'
<1>1. ASSUME NEW t \in Loggers, Log(t) \/ Count(t) \/ Write(t) PROVE DataInv'
  <2>1. CASE Write(t)
    BY <2>1, WriteData
  <2>2. CASE Log(t) \/ Count(t)
    BY <2>2, SameData DEF Log, Count, outcome
  <2> QED BY <1>1, <2>1, <2>2
<1>2. CASE Flush \/ Leave \/ RemoveSink \/ WorkerTest \/ WorkerSent \/ UNCHANGED vars
  BY <1>2, SameData DEF Flush, Leave, RemoveSink, WorkerTest, WorkerSent, vars, logging, outcome
<1>3. CASE FlushNext
  BY <1>3, FlushData
<1>4. CASE SinkRemoved
  BY <1>4, RemoveData
<1>5. CASE TakeBatch
  BY <1>5, TakeData
<1>6. CASE Send("worker") \/ Send("holder")
  BY <1>6, SendData DEF Senders
<1>7. ASSUME NEW s \in Senders, BrokenPipe(s) PROVE DataInv'
  BY <1>7, BrokenData
<1> QED BY <1>1, <1>2, <1>3, <1>4, <1>5, <1>6, <1>7 DEF Next, WorkerStep, HolderStep

\* The invariant holds of every behaviour.
LEMMA Invariance == ASSUME SinkAssumption PROVE Spec => []IInv
<1>1. Init => IInv
  BY InitInv
<1>2. IInv /\ [Next]_vars => IInv'
  BY TypeStep, FreshStep, DataStep DEF IInv
<1> QED BY <1>1, <1>2, PTL DEF Spec

-----------------------------------------------------------------------------
(* What the invariant says.                                                *)

\* Two sequences without repetition and without a common element, one after the other.
LEMMA Joining ==
  ASSUME NEW s \in Seq(Nat), NEW t \in Seq(Nat), IsInjective(s), IsInjective(t),
         ToSet(s) \cap ToSet(t) = {}
  PROVE  s \o t \in Seq(Nat) /\ IsInjective(s \o t) /\ ToSet(s \o t) = ToSet(s) \cup ToSet(t)
<1> DEFINE r == s \o t
           m == Len(s)
           n == Len(t)
<1>1. /\ r \in Seq(Nat) /\ Len(r) = m + n
      /\ \A i \in 1 .. m + n : r[i] = IF i <= m THEN s[i] ELSE t[i - m]
  BY ConcatProperties
<1>2. /\ m \in Nat /\ n \in Nat /\ DOMAIN s = 1 .. m /\ DOMAIN t = 1 .. n
      /\ ToSet(s) = {s[i] : i \in 1 .. m} /\ ToSet(t) = {t[i] : i \in 1 .. n}
  BY SetOf
<1> HIDE DEF r, m, n
<1>3. DOMAIN r = 1 .. m + n /\ ToSet(r) = {r[i] : i \in 1 .. m + n}
  BY <1>1, SetOf
<1>4. ASSUME NEW i \in 1 .. m + n
      PROVE  \/ i \in 1 .. m /\ r[i] = s[i] /\ r[i] \in ToSet(s)
             \/ i - m \in 1 .. n /\ r[i] = t[i - m] /\ r[i] \in ToSet(t) /\ ~(i <= m)
  <2>1. CASE i <= m
    <3>1. i \in 1 .. m
      BY <1>2, <2>1
    <3> QED BY <1>1, <1>2, <2>1, <3>1
  <2>2. CASE ~(i <= m)
    <3>1. i - m \in 1 .. n
      BY <1>2, <2>2
    <3> QED BY <1>1, <1>2, <2>2, <3>1
  <2> QED BY <2>1, <2>2
<1>5. ASSUME NEW i \in 1 .. m + n, NEW j \in 1 .. m + n, r[i] = r[j] PROVE i = j
  <2>1. CASE r[i] \in ToSet(s)
    <3>1. i \in 1 .. m /\ j \in 1 .. m /\ s[i] = s[j]
      BY <1>4, <1>5, <2>1
    <3> QED BY <1>2, <3>1 DEF IsInjective
  <2>2. CASE r[i] \in ToSet(t)
    <3>1. i - m \in 1 .. n /\ j - m \in 1 .. n /\ t[i - m] = t[j - m]
      BY <1>4, <1>5, <2>2
    <3>2. i - m = j - m
      BY <1>2, <3>1 DEF IsInjective
    <3> QED BY <1>2, <3>2
  <2> QED BY <1>4, <2>1, <2>2
<1>6. IsInjective(r)
  BY <1>3, <1>5 DEF IsInjective
<1>7. ToSet(r) = ToSet(s) \cup ToSet(t)
  <2>1. ToSet(r) \subseteq ToSet(s) \cup ToSet(t)
    BY <1>3, <1>4
  <2>2. ASSUME NEW i \in 1 .. m PROVE s[i] \in ToSet(r)
    <3>1. i \in 1 .. m + n /\ i <= m
      BY <1>2
    <3> QED BY <1>1, <1>3, <3>1
  <2>3. ASSUME NEW i \in 1 .. n PROVE t[i] \in ToSet(r)
    <3>1. m + i \in 1 .. m + n /\ ~(m + i <= m) /\ (m + i) - m = i
      BY <1>2
    <3>2. r[m + i] = t[i]
      BY <1>1, <3>1
    <3> QED BY <1>3, <3>1, <3>2
  <2> QED BY <1>2, <2>1, <2>2, <2>3
<1> QED BY <1>1, <1>6, <1>7 DEF r

\* The numbers that were delivered, as a sequence.
LEMMA SequencesOf ==
  ASSUME NEW d \in Seq(Deliveries)
  PROVE  LET t == [i \in DOMAIN d |-> d[i].seq]
         IN  t \in Seq(Nat) /\ DOMAIN t = DOMAIN d /\ ToSet(t) = Seqs(d)
<1> DEFINE t == [i \in DOMAIN d |-> d[i].seq]
<1>1. Len(d) \in Nat /\ DOMAIN d = 1 .. Len(d) /\ \A i \in 1 .. Len(d) : d[i].seq \in Nat
  <2>1. Len(d) \in Nat /\ DOMAIN d = 1 .. Len(d) /\ \A i \in 1 .. Len(d) : d[i] \in Deliveries
    BY LenProperties, ElementOfSeq
  <2> QED BY <2>1 DEF Deliveries
<1>2. [i \in 1 .. Len(d) |-> d[i].seq] \in Seq(Nat)
  BY <1>1, IsASeq
<1>3. t \in Seq(Nat)
  BY <1>1, <1>2
<1>4. DOMAIN t = DOMAIN d /\ ToSet(t) = Seqs(d)
  BY DEF ToSet, Seqs
<1> QED BY <1>3, <1>4

\* Events in one place each are delivered once.
LEMMA OnceEach == TypeInv /\ DataInv => EachEventOnce
<1> SUFFICES ASSUME TypeInv, DataInv PROVE EachEventOnce
  OBVIOUS
<1> DEFINE w == written
           q == queued
           a == InWorker
           b == InHolder
           d == delivered
           l == lost
           t == [i \in DOMAIN d |-> d[i].seq]
<1>1. /\ w \in Seq(Nat) /\ q \in Seq(Nat) /\ a \in Seq(Nat) /\ b \in Seq(Nat)
      /\ d \in Seq(Deliveries) /\ Len(b) <= 1
      /\ Placed(w, q, a, b, d, l)
  BY Parts DEF DataInv
<1>2. t \in Seq(Nat) /\ DOMAIN t = DOMAIN d /\ ToSet(t) = Seqs(d)
  BY <1>1, SequencesOf
<1>3. IsInjective(t)
  <2>1. \A i, j \in DOMAIN d : d[i].seq = d[j].seq => i = j
    BY <1>1 DEF Placed, Places
  <2> QED BY <2>1 DEF IsInjective
<1> HIDE DEF w, q, a, b, d, l, t
<1>4. \A x, y : Before(w, x, y) => x # y
  BY <1>1, StrictOrder DEF Placed, Places
<1>5. IsInjective(q) /\ IsInjective(a) /\ IsInjective(b)
  <2>1. ASSUME NEW s \in Seq(Nat), Sorted(w, s) PROVE IsInjective(s)
    <3>1. DOMAIN s = 1 .. Len(s) /\ Len(s) \in Nat
      BY SetOf
    <3>2. \A i, j \in DOMAIN s : i < j \/ j < i \/ i = j
      BY <3>1
    <3> QED BY <1>4, <2>1, <3>2 DEF Sorted, IsInjective
  <2>2. IsInjective(b)
    <3>1. DOMAIN b = 1 .. Len(b) /\ Len(b) \in Nat
      BY <1>1, SetOf
    <3>2. \A i, j \in DOMAIN b : i = j
      BY <1>1, <3>1
    <3> QED BY <3>2 DEF IsInjective
  <2> QED BY <1>1, <2>1, <2>2 DEF Placed, Order
<1>6. /\ ToSet(q) \cap ToSet(a) = {} /\ ToSet(q) \cap ToSet(b) = {} /\ ToSet(q) \cap ToSet(t) = {}
      /\ ToSet(a) \cap ToSet(b) = {} /\ ToSet(a) \cap ToSet(t) = {} /\ ToSet(b) \cap ToSet(t) = {}
  BY <1>1, <1>2, <1>4 DEF Placed, Places, Order, AllBefore
<1> DEFINE r1 == q \o a
           r2 == r1 \o b
           r3 == r2 \o t
<1>7. r1 \in Seq(Nat) /\ IsInjective(r1) /\ ToSet(r1) = ToSet(q) \cup ToSet(a)
  BY <1>1, <1>5, <1>6, Joining
<1> HIDE DEF r1
<1>8. r2 \in Seq(Nat) /\ IsInjective(r2) /\ ToSet(r2) = ToSet(q) \cup ToSet(a) \cup ToSet(b)
  <2>1. ToSet(r1) \cap ToSet(b) = {}
    BY <1>6, <1>7
  <2>2. r2 \in Seq(Nat) /\ IsInjective(r2) /\ ToSet(r2) = ToSet(r1) \cup ToSet(b)
    BY <1>1, <1>5, <1>7, <2>1, Joining
  <2> HIDE DEF r2
  <2> QED BY <1>7, <2>2
<1> HIDE DEF r2
<1>9. /\ IsInjective(r3) /\ ToSet(r3) = ToSet(q) \cup ToSet(a) \cup ToSet(b) \cup ToSet(t)
  <2>1. ToSet(r2) \cap ToSet(t) = {}
    BY <1>6, <1>8
  <2>2. r3 \in Seq(Nat) /\ IsInjective(r3) /\ ToSet(r3) = ToSet(r2) \cup ToSet(t)
    BY <1>2, <1>3, <1>8, <2>1, Joining
  <2> HIDE DEF r3
  <2> QED BY <1>8, <2>2
<1> HIDE DEF r3
<1>10. /\ IsInjective(w) /\ ToSet(r3) \cap l = {} /\ ToSet(r3) \cup l = ToSet(w)
  BY <1>1, <1>2, <1>9 DEF Placed, Places
<1>11. EachEventOnce <=> /\ IsInjective(r3) /\ IsInjective(w)
                         /\ ToSet(r3) \cap l = {} /\ ToSet(r3) \cup l = ToSet(w)
  BY DEF EachEventOnce, r3, r2, r1, w, q, a, b, d, l, t, InWorker, InHolder
<1> QED BY <1>9, <1>10, <1>11

\* The order of the pieces says who may overtake whom.
LEMMA FlushOnly == TypeInv /\ DataInv => OnlyFlushOvertakes
<1> SUFFICES ASSUME TypeInv, DataInv PROVE OnlyFlushOvertakes
  OBVIOUS
<1> DEFINE At(e) == CHOOSE k \in DOMAIN written : written[k] = e
<1>1. /\ written \in Seq(Nat) /\ delivered \in Seq(Deliveries)
      /\ Placed(written, queued, InWorker, InHolder, delivered, lost)
  BY Parts DEF DataInv
<1>2. \A e \in ToSet(written) : At(e) \in DOMAIN written /\ written[At(e)] = e
  BY DEF ToSet
<1>3. ASSUME NEW x \in ToSet(written), NEW y \in ToSet(written), Before(written, x, y)
      PROVE  At(x) < At(y)
  <2>1. PICK m \in DOMAIN written, n \in DOMAIN written :
            m < n /\ written[m] = x /\ written[n] = y
    BY <1>3 DEF Before
  <2>2. IsInjective(written)
    BY <1>1 DEF Placed, Places
  <2> HIDE DEF At
  <2>3. At(x) = m /\ At(y) = n
    BY <1>2, <2>1, <2>2 DEF IsInjective
  <2> QED BY <2>1, <2>3
<1>4. \A e \in ToSet(written) : At(e) \in Nat
  <2>1. DOMAIN written \subseteq Nat
    BY <1>1, SetOf
  <2> HIDE DEF At
  <2> QED BY <1>2, <2>1
<1> SUFFICES ASSUME NEW i \in DOMAIN delivered, NEW j \in DOMAIN delivered, i < j,
                    At(delivered[i].seq) > At(delivered[j].seq)
             PROVE  delivered[i].by = "holder" /\ delivered[j].by = "worker"
  BY DEF OnlyFlushOvertakes
<1> HIDE DEF At
<1>5. delivered[i].seq \in ToSet(written) /\ delivered[j].seq \in ToSet(written)
  BY <1>1 DEF Placed, Places, Seqs
<1>6. ~ Before(written, delivered[i].seq, delivered[j].seq)
  BY <1>3, <1>4, <1>5
<1>7. \A x, y \in DOMAIN delivered : x < y =>
          \/ Before(written, delivered[x].seq, delivered[y].seq)
          \/ delivered[x].by = "holder" /\ delivered[y].by = "worker"
  BY <1>1 DEF Placed, Order
<1> QED BY <1>6, <1>7

-----------------------------------------------------------------------------
(* The channel of events.                                                  *)

\* What waits, as EventChannel sees it.
W == sending["worker"] \o sending["holder"] \o queued

\* A sink is on its way out while its thread holds sinksMutex, and gone when the worker is.
Removing ==
  /\ holder = "remove" <=> sink = "closing"
  /\ sink = "gone" => sinkWorker = "done" /\ holder = "none"

\* Concatenation is associative, for sequences of numbers.
LEMMA Regroup ==
  ASSUME NEW s \in Seq(Nat), NEW t \in Seq(Nat), NEW u \in Seq(Nat)
  PROVE  (s \o t) \o u = s \o (t \o u)
BY ConcatAssociative, SMTT(30)

\* The two parts of a concatenation.
LEMMA Halves ==
  ASSUME NEW s \in Seq(Nat), NEW t \in Seq(Nat)
  PROVE  LET r == s \o t
         IN  /\ r \in Seq(Nat) /\ Len(r) = Len(s) + Len(t) /\ Len(s) \in Nat /\ Len(t) \in Nat
             /\ SubSeq(r, 1, Len(s)) = s /\ SubSeq(r, Len(s) + 1, Len(r)) = t
             /\ ToSet(r) = ToSet(s) \cup ToSet(t)
<1> DEFINE r == s \o t
           m == Len(s)
           n == Len(t)
           x == SubSeq(r, 1, m)
           y == SubSeq(r, m + 1, Len(r))
<1>1. /\ r \in Seq(Nat) /\ Len(r) = m + n /\ m \in Nat /\ n \in Nat
      /\ \A i \in 1 .. m + n : r[i] = IF i <= m THEN s[i] ELSE t[i - m]
  BY ConcatProperties, LenProperties
<1> HIDE DEF r
<1>2. m \in 0 .. Len(r)
  BY <1>1
<1>3. /\ x \in Seq(Nat) /\ Len(x) = m /\ \A i \in 1 .. m : x[i] = r[i]
      /\ y \in Seq(Nat) /\ Len(y) = Len(r) - m /\ \A i \in 1 .. Len(r) - m : y[i] = r[m + i]
      /\ ToSet(r) = ToSet(x) \cup ToSet(y)
  BY <1>1, <1>2, CutSet
<1> HIDE DEF x, y
<1>4. x = s
  <2>1. Len(x) = Len(s) /\ \A i \in 1 .. Len(x) : x[i] = s[i]
    <3> SUFFICES ASSUME NEW i \in 1 .. m PROVE r[i] = s[i]
      BY <1>3
    <3> HIDE DEF m, n
    <3>1. i \in 1 .. m + n /\ i <= m
      BY <1>1
    <3> QED BY <1>1, <3>1
  <2> QED BY <1>3, <2>1, SeqEqual
<1>5. y = t
  <2>1. Len(y) = Len(t)
    BY <1>1, <1>3
  <2>2. ASSUME NEW i \in 1 .. n PROVE y[i] = t[i]
    <3> HIDE DEF m, n
    <3>1. i \in 1 .. Len(r) - m /\ m + i \in 1 .. m + n /\ ~ (m + i <= m) /\ (m + i) - m = i
      BY <1>1
    <3> QED BY <1>1, <1>3, <3>1
  <2> QED BY <1>3, <2>1, <2>2, SeqEqual
<1> QED BY <1>1, <1>3, <1>4, <1>5 DEF r, x, y

\* A sequence of at most one element that is not empty.
LEMMA OneOf ==
  ASSUME NEW s \in Seq(Nat), s # <<>>, Len(s) <= 1
  PROVE  Len(s) = 1 /\ s = <<s[1]>>
<1> DEFINE x == s[1]
           y == <<x>>
<1>1. Len(s) = 1
  <2> DEFINE n == Len(s)
  <2>1. n \in Nat \ {0} /\ n <= 1
    BY EmptySeq
  <2> HIDE DEF n
  <2>2. n = 1
    BY <2>1
  <2> QED BY <2>2 DEF n
<1>2. x \in Nat
  BY <1>1, ElementOfSeq
<1> HIDE DEF x
<1>3. y \in Seq(Nat) /\ Len(y) = 1 /\ y[1] = x
  BY <1>2, SingleSet
<1> HIDE DEF y
<1>4. Len(s) = Len(y) /\ \A i \in 1 .. Len(s) : s[i] = y[i]
  BY <1>1, <1>3 DEF x
<1>5. s = y
  BY <1>3, <1>4, SeqEqual
<1> QED BY <1>1, <1>5 DEF x, y

\* The element between two parts, and what is left without it.
LEMMA Middle ==
  ASSUME NEW s \in Seq(Nat), NEW e \in Seq(Nat), Len(e) = 1, NEW t \in Seq(Nat)
  PROVE  LET r == (s \o e) \o t
         IN  /\ Len(s) + 1 \in DOMAIN r /\ r[Len(s) + 1] = e[1]
             /\ SubSeq(r, 1, Len(s)) \o SubSeq(r, Len(s) + 2, Len(r)) = s \o t
<1> DEFINE p == s \o e
           r == p \o t
           k == Len(s) + 1
<1>1. /\ p \in Seq(Nat) /\ Len(p) = Len(s) + 1 /\ Len(s) \in Nat
      /\ r \in Seq(Nat) /\ Len(r) = Len(p) + Len(t) /\ Len(t) \in Nat
      /\ SubSeq(r, Len(p) + 1, Len(r)) = t
  <2>1. p \in Seq(Nat) /\ Len(p) = Len(s) + 1 /\ Len(s) \in Nat
    BY Halves
  <2>2. Len(t) \in Nat
    BY Halves
  <2> HIDE DEF p
  <2>3. r \in Seq(Nat) /\ Len(r) = Len(p) + Len(t) /\ SubSeq(r, Len(p) + 1, Len(r)) = t
    BY <2>1, Halves
  <2> HIDE DEF r
  <2> QED BY <2>1, <2>2, <2>3
<1>2. r = s \o (e \o t)
  BY Regroup
<1>3. SubSeq(r, 1, Len(s)) = s
  <2>1. e \o t \in Seq(Nat)
    BY Halves
  <2> QED BY <1>2, <2>1, Halves
<1>4. p[k] = e[1]
  <2>1. \A i \in 1 .. Len(s) + Len(e) : p[i] = IF i <= Len(s) THEN s[i] ELSE e[i - Len(s)]
    BY ConcatProperties
  <2> HIDE DEF p
  <2>2. k \in 1 .. Len(s) + Len(e) /\ ~ (k <= Len(s)) /\ k - Len(s) = 1
    BY <1>1
  <2> QED BY <2>1, <2>2
<1>5. k \in DOMAIN r /\ r[k] = e[1]
  <2>1. \A i \in 1 .. Len(p) + Len(t) : r[i] = IF i <= Len(p) THEN p[i] ELSE t[i - Len(p)]
    BY <1>1, ConcatProperties
  <2>2. DOMAIN r = 1 .. Len(r)
    BY <1>1, LenProperties
  <2> HIDE DEF p, r
  <2>3. k \in 1 .. Len(p) + Len(t) /\ k <= Len(p)
    BY <1>1
  <2> QED BY <1>1, <1>4, <2>1, <2>2, <2>3
<1> HIDE DEF p, r
<1>6. Len(s) + 2 = Len(p) + 1
  BY <1>1
<1>7. SubSeq(r, 1, Len(s)) \o SubSeq(r, Len(s) + 2, Len(r)) = s \o t
  BY <1>1, <1>3, <1>6
<1> QED BY <1>5, <1>7 DEF r, p

\* The pieces of what waits.
LEMMA Waits ==
  ASSUME TypeInv
  PROVE  /\ InWorker \in Seq(Nat) /\ InHolder \in Seq(Nat) /\ queued \in Seq(Nat)
         /\ W = (InWorker \o InHolder) \o queued /\ W = InWorker \o (InHolder \o queued)
         /\ W \in Seq(Nat) /\ Len(W) = Len(InWorker) + Len(InHolder) + Len(queued)
         /\ ToSet(W) = ToSet(InWorker) \cup ToSet(InHolder) \cup ToSet(queued)
         /\ InHolder \o queued \in Seq(Nat)
         /\ Len(InWorker) \in Nat /\ Len(InHolder) \in Nat /\ Len(queued) \in Nat
<1> DEFINE a == InWorker
           b == InHolder
           q == queued
           p == a \o b
<1>1. a \in Seq(Nat) /\ b \in Seq(Nat) /\ q \in Seq(Nat)
  BY Parts
<1>2. W = p \o q
  BY DEF W, InWorker, InHolder
<1> HIDE DEF a, b, q
<1>3. /\ p \in Seq(Nat) /\ Len(p) = Len(a) + Len(b) /\ Len(a) \in Nat /\ Len(b) \in Nat
      /\ ToSet(p) = ToSet(a) \cup ToSet(b) /\ b \o q \in Seq(Nat) /\ p \o q = a \o (b \o q)
  <2>1. /\ p \in Seq(Nat) /\ Len(p) = Len(a) + Len(b) /\ Len(a) \in Nat /\ Len(b) \in Nat
        /\ ToSet(p) = ToSet(a) \cup ToSet(b)
    BY <1>1, Halves
  <2>2. b \o q \in Seq(Nat)
    BY <1>1, Halves
  <2>3. p \o q = a \o (b \o q)
    BY <1>1, Regroup, ZenonT(30)
  <2> QED BY <2>1, <2>2, <2>3
<1>4. /\ p \o q \in Seq(Nat) /\ Len(p \o q) = Len(p) + Len(q) /\ Len(q) \in Nat
      /\ ToSet(p \o q) = ToSet(p) \cup ToSet(q)
  <2> HIDE DEF p
  <2> QED BY <1>1, <1>3, Halves
<1> QED BY <1>1, <1>2, <1>3, <1>4 DEF a, b, q

\* The words of EventChannel for the sink's.
LEMMA ChannelWords ==
  /\ Channel!Known = ToSet(W) \cup lost \cup Seqs(delivered)
  /\ Channel!channelVars = <<W, delivered, lost, sink \notin {"gone", "killed"}>>
  /\ \A s : Channel!Elements(s) = ToSet(s)
BY DEF Channel!Known, Channel!Elements, Channel!channelVars, ToSet, Seqs, W


\* Nothing that has not been written is known to the channel.
LEMMA NewEvents ==
  ASSUME TypeInv, Fresh, DataInv, NEW t \in Loggers, Write(t)
  PROVE  event[t] \in Nat /\ event[t] \notin Channel!Known
<1>1. event[t] \notin ToSet(written) /\ event[t] \in Nat
  BY DEF Write, Fresh, TypeInv, TypeOK
<1>2. Channel!Known \subseteq ToSet(written)
  BY Waits, ChannelWords DEF DataInv, Placed, Places
<1> QED BY <1>1, <1>2

\* write() puts the event at the end of the channel, or the channel refuses it.
LEMMA WriteAccepts ==
  ASSUME SinkAssumption, TypeInv, Fresh, DataInv, NEW t \in Loggers, Write(t)
  PROVE  [Channel!Next]_(Channel!channelVars)
<1> DEFINE e == event[t]
           p == InWorker \o InHolder
<1>0. /\ e \in Nat /\ e \notin Channel!Known /\ InHolder = <<>> /\ Len(InWorker) <= BatchSize
      /\ delivered' = delivered /\ sink' = sink /\ BatchSize \in Nat
      /\ sending \in [Senders -> Seq(Nat)]
  BY NewEvents, Parts DEF Write, TypeInv, Control, DataOK, SinkAssumption
<1>1. /\ p \in Seq(Nat) /\ queued \in Seq(Nat) /\ W = p \o queued /\ W \in Seq(Nat)
      /\ Len(W) = Len(InWorker) + Len(queued) /\ Len(InWorker) \in Nat /\ Len(queued) \in Nat
  BY <1>0, Waits, Halves, EmptySet
<1>2. W' = (sending'["worker"] \o sending'["holder"]) \o queued'
  BY DEF W
<1>3. ASSUME sink = "open", W' = Append(W, e), lost' = lost,
             W = <<>> \/ Len(W) < 3 * BatchSize
      PROVE  Channel!Next
  <2> HIDE DEF e, p
  <2>1. ToSet(Append(W, e)) = ToSet(W) \cup {e}
    BY <1>0, <1>1, AppendSet
  <2>2. Channel!Elements(W') = ToSet(W')
    BY ChannelWords
  <2>3. Channel!Accept(e)
    BY <1>0, <1>3 DEF Channel!Accept, W
  <2>4. e \in Channel!Elements(W')
    BY <1>3, <2>1, <2>2
  <2> QED BY <2>3, <2>4 DEF Channel!Next, W
<1>4. CASE sink # "open"
  <2>1. UNCHANGED <<sending, queued, delivered, lost, sink>>
    BY <1>0, <1>4 DEF Write
  <2> QED BY <2>1 DEF Channel!channelVars
<1>5. CASE sink = "open" /\ batching /\ Len(queued) < BatchSize * 2
  <2>1. queued' = Append(queued, e) /\ sending' = sending /\ lost' = lost
    <3>1. ~ (Len(queued) >= BatchSize * 2)
      BY <1>0, <1>1, <1>5
    <3> QED BY <1>5, <3>1 DEF Write, e
  <2>2. W' = p \o Append(queued, e)
    BY <1>2, <2>1 DEF InWorker, InHolder
  <2> HIDE DEF p, e
  <2>3. p \o Append(queued, e) = Append(p \o queued, e)
    <3> DEFINE x == <<e>>
    <3>1. x \in Seq(Nat) /\ Append(queued, e) = queued \o x
          /\ Append(p \o queued, e) = (p \o queued) \o x
      BY <1>0, <1>1, AppendIsConcat, SingleSet
    <3> HIDE DEF x
    <3>2. (p \o queued) \o x = p \o (queued \o x)
      <4>1. p \in Seq(Nat) /\ queued \in Seq(Nat)
        BY <1>1
      <4> QED BY <3>1, <4>1, Regroup, ZenonT(30)
    <3> QED BY <3>1, <3>2
  <2>4. Len(W) < 3 * BatchSize
    BY <1>0, <1>1, <1>5
  <2> QED BY <1>1, <1>3, <1>5, <2>1, <2>2, <2>3, <2>4
<1>6. CASE sink = "open" /\ batching /\ ~ (Len(queued) < BatchSize * 2)
  <2>1. queued' = queued /\ sending' = sending /\ lost' = lost \cup {e}
    <3>1. Len(queued) >= BatchSize * 2
      BY <1>0, <1>1, <1>6
    <3> QED BY <1>6, <3>1 DEF Write, e
  <2>2. Len(W) >= 2 * BatchSize
    BY <1>0, <1>1, <1>6
  <2>3. Channel!Refuse(e)
    BY <1>0, <1>6, <2>1, <2>2 DEF Channel!Refuse, W
  <2>4. e \in lost'
    BY <2>1
  <2> QED BY <2>3, <2>4 DEF Channel!Next
<1>7. CASE sink = "open" /\ ~ batching
  <2>1. /\ queued' = queued /\ lost' = lost
        /\ sending' = [sending EXCEPT !["holder"] = <<e>>]
    BY <1>7 DEF Write, e
  <2>2. queued = <<>> /\ InWorker = <<>>
    BY <1>7 DEF TypeInv, Control
  <2> HIDE DEF e
  <2>3. W = <<>>
    BY <1>1, <2>2, EmptySeq, ConcatEmptySeq DEF p
  <2>4. W' = Append(W, e)
    <3> DEFINE x == <<e>>
    <3>1. x \in Seq(Nat) /\ Append(<<>>, e) = x
      BY <1>0, SingleSet
    <3>2. sending' = [sending EXCEPT !["holder"] = x]
      BY <2>1
    <3> HIDE DEF x
    <3>3. sending'["worker"] = <<>> /\ sending'["holder"] = x
      BY <1>0, <2>2, <3>2 DEF InWorker, Senders
    <3>4. (<<>> \o x) \o <<>> = x
      BY <3>1, EmptySet, ConcatEmptySeq
    <3> QED BY <1>2, <2>1, <2>2, <2>3, <3>1, <3>3, <3>4
  <2> QED BY <1>3, <1>7, <2>1, <2>3, <2>4
<1> QED BY <1>4, <1>5, <1>6, <1>7 DEF TypeInv, TypeOK

\* A sender that is done with its events has delivered or lost them all.
LEMMA SendTakesOut ==
  ASSUME SinkAssumption, TypeInv, NEW s \in Senders, Send(s)
  PROVE  [Channel!Next]_(Channel!channelVars)
<1> DEFINE x == sending[s]
<1>0. /\ x # <<>> /\ queued' = queued /\ sink' = sink /\ sending \in [Senders -> Seq(Nat)]
      /\ x \in Seq(Nat)
  BY DEF Send, SendSucceeds, SendFails, GiveUp, SendUnchanged, TypeInv, DataOK
<1>1. CASE SendFails(s)
  BY <1>1 DEF SendFails, SendUnchanged, outcome, Channel!channelVars
<1>2. ASSUME SendSucceeds(s) \/ GiveUp(s)
      PROVE  /\ sending' = [sending EXCEPT ![s] = <<>>]
             /\ Channel!Outcome(x, s)
  <2>1. CASE SendSucceeds(s)
    BY <1>0, <2>1 DEF SendSucceeds, Ends, Delivers, Channel!Outcome
  <2>2. CASE GiveUp(s)
    <3>1. lost' = lost \cup Channel!Elements(x) /\ delivered' = delivered
      BY <2>2, ChannelWords DEF GiveUp
    <3> QED BY <1>0, <2>2, <3>1 DEF GiveUp, Ends, Channel!Outcome
  <2> QED BY <1>2, <2>1, <2>2
<1>3. /\ InWorker \in Seq(Nat) /\ InHolder \in Seq(Nat) /\ queued \in Seq(Nat)
      /\ W \in Seq(Nat) /\ InHolder \o queued \in Seq(Nat) /\ BatchSize \in Nat
      /\ Len(InWorker) <= BatchSize /\ Len(InHolder) <= 1
      /\ Len(InWorker) \in Nat /\ Len(InHolder) \in Nat
  BY Waits, Parts DEF SinkAssumption
<1>4. W' = (sending'["worker"] \o sending'["holder"]) \o queued
  BY <1>0 DEF W
<1>5. W = (InWorker \o InHolder) \o queued
  BY Waits
<1>6. W = InWorker \o (InHolder \o queued)
  BY Waits
<1>7. CASE s = "worker" /\ (SendSucceeds(s) \/ GiveUp(s))
  <2> DEFINE n == Len(InWorker)
  <2>1. SubSeq(W, 1, n) = InWorker /\ SubSeq(W, n + 1, Len(W)) = InHolder \o queued
    <3> DEFINE y == InHolder \o queued
               r == InWorker \o y
    <3>1. y \in Seq(Nat) /\ W = r
      BY <1>3, <1>6
    <3> HIDE DEF y
    <3>2. SubSeq(r, 1, n) = InWorker /\ SubSeq(r, n + 1, Len(r)) = y
      BY <1>3, <3>1, Halves
    <3> QED BY <3>1, <3>2 DEF y
  <2>2. n \in DOMAIN W /\ n <= BatchSize
    <3>1. n # 0 /\ Len(W) >= n /\ Len(W) \in Nat
      BY <1>0, <1>3, <1>7, <1>6, EmptySeq, Halves DEF InWorker
    <3> QED BY <1>3, <3>1, LenProperties
  <2>3. W' = InHolder \o queued
    <3>1. sending'["worker"] = <<>> /\ sending'["holder"] = InHolder
      BY <1>0, <1>2, <1>7 DEF InHolder, Senders
    <3> QED BY <1>3, <1>4, <3>1, ConcatEmptySeq
  <2>4. Channel!Outcome(SubSeq(W, 1, n), "worker")
    BY <1>2, <1>7, <2>1 DEF InWorker
  <2> HIDE DEF n
  <2>5. Channel!Batch(n)
    BY <2>1, <2>2, <2>3, <2>4 DEF Channel!Batch, W
  <2> QED BY <2>2, <2>5 DEF Channel!Next, W
<1>8. CASE s = "holder" /\ (SendSucceeds(s) \/ GiveUp(s))
  <2>1. InHolder # <<>>
    BY <1>0, <1>8 DEF InHolder
  <2>2. Len(InHolder) = 1
    BY <1>3, <2>1, OneOf
  <2>3. InHolder = <<InHolder[1]>>
    BY <1>3, <2>1, OneOf
  <2> DEFINE k == Len(InWorker) + 1
  <2>4. k = Len(InWorker) + 1
    OBVIOUS
  <2> HIDE DEF k
  <2>5. /\ k \in DOMAIN W /\ W[k] = InHolder[1]
        /\ SubSeq(W, 1, k - 1) \o SubSeq(W, k + 1, Len(W)) = InWorker \o queued
    <3> DEFINE r == (InWorker \o InHolder) \o queued
    <3>1. /\ Len(InWorker) + 1 \in DOMAIN r /\ r[Len(InWorker) + 1] = InHolder[1]
          /\ SubSeq(r, 1, Len(InWorker)) \o SubSeq(r, Len(InWorker) + 2, Len(r))
                = InWorker \o queued
      <4>1. InWorker \in Seq(Nat) /\ InHolder \in Seq(Nat) /\ queued \in Seq(Nat)
        BY <1>3
      <4> QED BY <2>2, <4>1, Middle, ZenonT(60)
    <3>2. W = r
      BY <1>5
    <3> HIDE DEF r
    <3>3. k - 1 = Len(InWorker) /\ k + 1 = Len(InWorker) + 2
      BY <1>3, <2>4
    <3> QED BY <2>4, <3>1, <3>2, <3>3
  <2>6. k <= BatchSize + 1
    BY <1>3, <2>4
  <2>7. W' = InWorker \o queued
    <3>1. sending'["worker"] = InWorker /\ sending'["holder"] = <<>>
      BY <1>0, <1>2, <1>8 DEF InWorker, Senders
    <3> QED BY <1>3, <1>4, <3>1, ConcatEmptySeq
  <2>8. Channel!Outcome(<<W[k]>>, "holder")
    BY <1>2, <1>8, <2>3, <2>5 DEF InHolder
  <2>9. W' = SubSeq(W, 1, k - 1) \o SubSeq(W, k + 1, Len(W))
    BY <2>5, <2>7
  <2>10. Channel!Overtake(k)
    BY <2>6, <2>8, <2>9 DEF Channel!Overtake, W
  <2> QED BY <2>5, <2>10 DEF Channel!Next, W
<1> QED BY <1>1, <1>7, <1>8 DEF Send, Senders

\* Taking a batch moves nothing in the channel.
LEMMA TakeStutters ==
  ASSUME SinkAssumption, TypeInv, TakeBatch
  PROVE  UNCHANGED Channel!channelVars
<1> DEFINE x == SubSeq(queued, 1, Batch)
           y == SubSeq(queued, Batch + 1, Len(queued))
<1>1. /\ Batch \in 0 .. Len(queued) /\ InWorker = <<>> /\ InHolder = <<>> /\ queued \in Seq(Nat)
      /\ InWorker' = x /\ InHolder' = <<>> /\ queued' = y
  BY Taking
<1>2. x \in Seq(Nat) /\ y \in Seq(Nat)
  BY <1>1, CutSet
<1>3. x \o y = queued
  <2>1. /\ 1 \in 1 .. Len(queued) + 1 /\ Batch \in 1 - 1 .. Len(queued)
        /\ Len(queued) \in Batch .. Len(queued) /\ Len(queued) \in Nat
    BY <1>1, LenProperties
  <2>2. SubSeq(queued, 1, Batch) \o SubSeq(queued, Batch + 1, Len(queued))
            = SubSeq(queued, 1, Len(queued))
    BY <1>1, <2>1, ConcatAdjacentSubSeq
  <2> QED BY <1>1, <2>2, SubSeqFull
<1> HIDE DEF x, y
<1>4. W' = (x \o <<>>) \o y
  BY <1>1 DEF W, InWorker, InHolder
<1>5. W = (<<>> \o <<>>) \o queued
  BY <1>1 DEF W, InWorker, InHolder
<1>6. W' = W
  BY <1>1, <1>2, <1>3, <1>4, <1>5, EmptySet, ConcatEmptySeq
<1> QED BY <1>6, ChannelWords DEF TakeBatch, outcome, Channel!channelVars, W

\* Nor does taking a message out of the queue.
LEMMA FlushStutters ==
  ASSUME TypeInv, FlushNext
  PROVE  UNCHANGED Channel!channelVars
<1> DEFINE h == Head(queued)
           y == Tail(queued)
           x == <<h>>
<1>1. /\ InWorker \in Seq(Nat) /\ queued \in Seq(Nat) /\ queued # <<>> /\ InHolder = <<>>
      /\ sending \in [Senders -> Seq(Nat)] /\ queued' = y
      /\ sending' = [sending EXCEPT !["holder"] = x]
  BY Parts DEF FlushNext, TypeInv, DataOK, InHolder
<1>2. /\ h \in Nat /\ y \in Seq(Nat) /\ h = queued[1] /\ Len(y) = Len(queued) - 1
      /\ \A i \in 1 .. Len(queued) - 1 : y[i] = queued[i + 1] /\ Len(queued) \in Nat
  BY <1>1, HeadSet
<1> HIDE DEF h, y
<1>3. x \in Seq(Nat)
  BY <1>2, SingleSet
<1>4. x \o y = queued
  <2>1. queued = SubSeq(queued, 1, Len(queued))
    BY <1>1, SubSeqFull
  <2>2. 1 \in 1 .. Len(queued) /\ Len(queued) \in 1 .. Len(queued)
    BY <1>1, HeadSet
  <2>3. SubSeq(queued, 1, Len(queued)) = <<queued[1]>> \o SubSeq(queued, 1 + 1, Len(queued))
    BY <1>1, <2>2, SubSeqRecursiveFirst
  <2>4. y = SubSeq(queued, 2, Len(queued))
    BY <1>1, TailIsSubSeq DEF y
  <2> QED BY <1>2, <2>1, <2>3, <2>4
<1> HIDE DEF x
<1>5. InWorker' = InWorker /\ InHolder' = x
  BY <1>1 DEF InWorker, InHolder, Senders
<1>6. W' = (InWorker \o x) \o y
  BY <1>1, <1>5 DEF W, InWorker, InHolder
<1>7. W = InWorker \o queued
  BY <1>1, Waits, ConcatEmptySeq
<1>8. W' = W
  <2>1. (InWorker \o x) \o y = InWorker \o (x \o y)
    BY <1>1, <1>2, <1>3, Regroup
  <2> QED BY <1>4, <1>6, <1>7, <2>1
<1> QED BY <1>8 DEF FlushNext, outcome, Channel!channelVars, W

\* The sink goes with what waits.
LEMMA RemoveCloses ==
  ASSUME TypeInv, Removing, SinkRemoved
  PROVE  Channel!Close
<1>1. /\ InWorker = <<>> /\ InHolder = <<>> /\ sending' = sending /\ queued' = <<>>
      /\ lost' = lost \cup ToSet(queued) /\ delivered' = delivered
      /\ sink = "closing" /\ sink' = "gone"
  BY DEF SinkRemoved, TypeInv, Control, Removing
<1>2. W' = <<>>
  <2>1. W' = (<<>> \o <<>>) \o <<>>
    BY <1>1 DEF W, InWorker, InHolder
  <2> QED BY <2>1, EmptySet, ConcatEmptySeq
<1>3. ToSet(W) = ToSet(queued)
  BY <1>1, Waits, EmptySet
<1>4. Channel!Elements(W) = ToSet(queued)
  BY <1>3, ChannelWords
<1> QED BY <1>1, <1>2, <1>4 DEF Channel!Close, W

\* So it does with its process.
LEMMA BrokenCloses ==
  ASSUME TypeInv, NEW s \in Senders, BrokenPipe(s), sink \in {"open", "closing"}
  PROVE  Channel!Close
<1>1. /\ queued' = <<>> /\ delivered' = delivered /\ sink' = "killed"
      /\ sending' = [r \in Senders |-> <<>>]
      /\ lost' = lost \cup ToSet(queued) \cup UNION {ToSet(sending[r]) : r \in Senders}
  BY DEF BrokenPipe
<1>2. W' = <<>>
  <2>1. W' = (<<>> \o <<>>) \o <<>>
    BY <1>1 DEF W, Senders
  <2> QED BY <2>1, EmptySet, ConcatEmptySeq
<1>3. ToSet(W) = ToSet(InWorker) \cup ToSet(InHolder) \cup ToSet(queued)
  BY Waits
<1>4. Channel!Elements(W) = ToSet(W)
  BY ChannelWords
<1>5. lost' = lost \cup Channel!Elements(W)
  BY <1>1, <1>3, <1>4 DEF Senders, InWorker, InHolder
<1> QED BY <1>1, <1>2, <1>5 DEF Channel!Close, W

\* What else the threads do is no business of the channel.
LEMMA ChannelStep ==
  ASSUME SinkAssumption, IInv, Removing, [Next]_vars
  PROVE  [Channel!Next]_(Channel!channelVars)
<1>1. TypeInv /\ Fresh /\ DataInv
  BY DEF IInv
<1>2. ASSUME NEW t \in Loggers, Write(t) PROVE [Channel!Next]_(Channel!channelVars)
  BY <1>1, <1>2, WriteAccepts
<1>3. CASE \/ \E t \in Loggers : Log(t) \/ Count(t)
           \/ Flush \/ Leave \/ WorkerTest \/ WorkerSent \/ UNCHANGED vars
  <2>1. UNCHANGED <<sending, queued, delivered, lost, sink>>
    BY <1>3 DEF Log, Count, Flush, Leave, WorkerTest, WorkerSent, vars, outcome
  <2> QED BY <2>1 DEF Channel!channelVars
<1>4. CASE RemoveSink
  <2>1. UNCHANGED <<sending, queued, delivered, lost>> /\ sink = "open" /\ sink' = "closing"
    BY <1>4 DEF RemoveSink, outcome
  <2>2. (sink \notin {"gone", "killed"})' = (sink \notin {"gone", "killed"})
    BY <2>1
  <2> QED BY <2>1, <2>2 DEF Channel!channelVars
<1>5. CASE TakeBatch
  BY <1>1, <1>5, TakeStutters
<1>6. CASE FlushNext
  BY <1>1, <1>6, FlushStutters
<1>7. CASE SinkRemoved
  BY <1>1, <1>7, RemoveCloses DEF Channel!Next
<1>8. CASE Send("worker") \/ Send("holder")
  BY <1>1, <1>8, SendTakesOut DEF Senders
<1>9. ASSUME Next, NEW s \in Senders, BrokenPipe(s) PROVE [Channel!Next]_(Channel!channelVars)
  <2>1. sending[s] # <<>> /\ sink # "killed"
    BY <1>9 DEF BrokenPipe, Next, vars
  <2>2. sink # "gone"
    BY <1>1, <2>1 DEF Removing, TypeInv, Control, InWorker, InHolder, Senders
  <2>3. sink \in {"open", "closing"}
    BY <1>1, <2>1, <2>2 DEF TypeInv, TypeOK
  <2> QED BY <1>1, <1>9, <2>3, BrokenCloses DEF Channel!Next
<1> QED BY <1>2, <1>3, <1>4, <1>5, <1>6, <1>7, <1>8, <1>9 DEF Next, WorkerStep, HolderStep

\* Only RemoveSink begins a removal, and only SinkRemoved ends it.
LEMMA RemovingStep == Removing /\ [Next]_vars => Removing'
<1> SUFFICES ASSUME Removing, [Next]_vars PROVE Removing'
  OBVIOUS
<1>1. CASE RemoveSink \/ SinkRemoved
  BY <1>1 DEF RemoveSink, SinkRemoved, Removing
<1>2. CASE \/ \E t \in Loggers : Log(t) \/ Count(t)
           \/ Send("worker") \/ Send("holder") \/ FlushNext \/ UNCHANGED vars
  <2>1. UNCHANGED <<sink, holder, sinkWorker>>
    BY <1>2 DEF Log, Count, Send, SendSucceeds, SendFails, GiveUp, SendUnchanged, FlushNext, vars
  <2> QED BY <2>1 DEF Removing
<1>3. CASE Flush \/ Leave
  BY <1>3 DEF Flush, Leave, Removing
<1>4. ASSUME NEW t \in Loggers, Write(t) PROVE Removing'
  <2>1. sink' = sink /\ holder = "none" /\ sinkWorker' = sinkWorker
    BY <1>4 DEF Write
  <2>2. holder' = "none" \/ (sink = "open" /\ holder' = "write")
    BY <1>4 DEF Write
  <2> QED BY <2>1, <2>2 DEF Removing
<1>5. CASE WorkerTest \/ TakeBatch \/ WorkerSent
  BY <1>5 DEF WorkerTest, TakeBatch, WorkerSent, Removing
<1>6. ASSUME NEW s \in Senders, BrokenPipe(s) PROVE Removing'
  BY <1>6 DEF BrokenPipe, Removing
<1> QED BY <1>1, <1>2, <1>3, <1>4, <1>5, <1>6 DEF Next, WorkerStep, HolderStep

-----------------------------------------------------------------------------
(* The theorems.                                                           *)

\* The queue holds at most two batches, a sender never more than a batch and the
\* thread in sinksMutex one message, and a message is tried RetryAttempts times.
THEOREM TypeCorrect == ASSUME SinkAssumption PROVE Spec => []TypeOK
<1>1. IInv => TypeOK
  BY DEF IInv, TypeInv
<1> QED BY <1>1, Invariance, PTL

\* Every event write() has seen is queued, with one of the two senders, delivered
\* or given up, and never in two of these places or twice in one.
THEOREM EventsOnce == ASSUME SinkAssumption PROVE Spec => []EachEventOnce
<1>1. IInv => EachEventOnce
  BY OnceEach DEF IInv
<1> QED BY <1>1, Invariance, PTL

\* The server gets the events in the order of write(), but for those a flush sends
\* before the batch the worker had taken.
THEOREM FlushAlone == ASSUME SinkAssumption PROVE Spec => []OnlyFlushOvertakes
<1>1. IInv => OnlyFlushOvertakes
  BY FlushOnly DEF IInv
<1> QED BY <1>1, Invariance, PTL

\* The sink is a channel of events: it delivers or gives up whole batches of the
\* oldest, a flush takes one event past no more than one batch, an event is refused
\* only when two batches wait, and what waits is lost only with the sink.
THEOREM Refinement == ASSUME SinkAssumption PROVE Spec => ImplementsChannel
<1>1. Init => Channel!Init /\ Removing
  <2> SUFFICES ASSUME Init PROVE Channel!Init /\ Removing
    OBVIOUS
  <2>1. W = (<<>> \o <<>>) \o <<>>
    BY DEF Init, W, Senders
  <2>2. W = <<>>
    BY <2>1, EmptySet, ConcatEmptySeq
  <2>3. sink = "open" /\ holder = "none" /\ delivered = <<>> /\ lost = {}
    BY DEF Init
  <2> QED BY <2>2, <2>3 DEF Channel!Init, W, Removing
<1>2. IInv /\ Removing /\ [Next]_vars => [Channel!Next]_(Channel!channelVars)
  BY ChannelStep
<1> QED BY <1>1, <1>2, RemovingStep, Invariance, PTL DEF Spec, ImplementsChannel, Channel!Spec
====
