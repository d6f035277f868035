--------------------------- MODULE IpcManagerProofs ---------------------------
(***************************************************************************)
(* Messages of IpcManager for any number of clients, requests, messages,   *)
(* calls of clearQueue() and restarts: an accepted message is transmitted  *)
(* or cleared, once, and in the order of acceptance.                       *)
(*                                                                         *)
(* The worker's steps leave the pipeline as it is (they move a message     *)
(* from the queue to the worker's hand and on to the transport), a push    *)
(* puts the next number at its end, and clearQueue() cuts its end off.     *)
(***************************************************************************)
EXTENDS IpcManager, FiniteSetTheorems, SequenceTheorems, TLAPS

\* A request that is being sent has an id; sendAsyncRequest() alone registers a
\* handler after its entry.
JobsFit == \A c \in Clients :
    /\ job[c].kind \in {"sync", "async"} => job[c].req \in Requests
    /\ pc[c] = "register" => job[c].kind = "async"

\* And so has a request on its way to the transport.
RequestsFit ==
    /\ \A i \in 1 .. Len(messageQueue) :
           messageQueue[i].kind = "request" => messageQueue[i].req \in Requests
    /\ current.kind = "request" => current.req \in Requests

\* The clients whose message has been begun and may still be accepted.
Sending == {c \in Clients : pc[c] \in {"register", "send", "push"}}
Counted == IsFiniteSet(Sending) /\ accepted + Cardinality(Sending) <= begun

\* The expiry thread has entries to erase only in its pass, and start() finds both
\* threads gone.
Threads ==
    /\ timer # "scan" => due = {}
    /\ owner = "down" => worker = "done" /\ timer = "done"

TypeInv == TypeOK /\ JobsFit /\ RequestsFit /\ Counted /\ Threads

\* A message that has been dropped was accepted.
OrderInv == EachOnceInOrder /\ dropped \subseteq 1 .. accepted

IInv == TypeInv /\ OrderInv

-----------------------------------------------------------------------------
(* Where the messages are.                                                 *)

Numbers(q) == [i \in 1 .. Len(q) |-> q[i].n]
InHand(w, m) == IF w = "send" THEN <<m.n>> ELSE <<>>

\* What EachOnceInOrder says, of any sequence of numbers.
Once(p, a, d) ==
    /\ \A i, j \in 1 .. Len(p) : i < j => p[i] < p[j]
    /\ {p[i] : i \in 1 .. Len(p)} = (1 .. a) \ d

\* The library's facts on concatenation, in the form used below.
LEMMA Concat ==
  ASSUME NEW s \in Seq(Nat), NEW t \in Seq(Nat)
  PROVE  /\ s \o t \in Seq(Nat) /\ Len(s) \in Nat /\ Len(t) \in Nat
         /\ Len(s \o t) = Len(s) + Len(t)
         /\ \A i \in 1 .. Len(s) : (s \o t)[i] = s[i]
         /\ \A j \in 1 .. Len(t) : (s \o t)[Len(s) + j] = t[j]
         /\ \A i \in 1 .. Len(s \o t) : i > Len(s) => (s \o t)[i] = t[i - Len(s)]
<1>1. /\ s \o t \in Seq(Nat) /\ Len(s \o t) = Len(s) + Len(t)
      /\ \A i \in 1 .. Len(s) + Len(t) :
            (s \o t)[i] = IF i <= Len(s) THEN s[i] ELSE t[i - Len(s)]
  BY ConcatProperties
<1>2. Len(s) \in Nat /\ Len(t) \in Nat
  BY LenProperties
<1> DEFINE r == s \o t
<1> HIDE DEF r
<1>3. \A i \in 1 .. Len(s) : r[i] = s[i]
  BY <1>1, <1>2 DEF r
<1>4. ASSUME NEW j \in 1 .. Len(t) PROVE r[Len(s) + j] = t[j]
  <2>1. Len(s) + j \in 1 .. Len(s) + Len(t) /\ ~(Len(s) + j <= Len(s)) /\ (Len(s) + j) - Len(s) = j
    BY <1>2
  <2> QED BY <1>1, <2>1 DEF r
<1> QED BY <1>1, <1>2, <1>3, <1>4 DEF r

\* Concatenation, grouped the other way.
LEMMA Regroup ==
  ASSUME NEW s \in Seq(Nat), NEW t \in Seq(Nat), NEW u \in Seq(Nat)
  PROVE  (s \o t) \o u = s \o (t \o u)
BY ConcatAssociative, SMTT(30)

\* The numbers of a sequence of messages are a sequence of numbers of the same length.
LEMMA NumbersType ==
  ASSUME NEW q \in Seq(Messages)
  PROVE  Numbers(q) \in Seq(Nat) /\ Len(Numbers(q)) = Len(q)
<1>1. Len(q) \in Nat /\ \A i \in 1 .. Len(q) : q[i].n \in Nat
  <2>1. Len(q) \in Nat /\ \A i \in 1 .. Len(q) : q[i] \in Messages
    BY LenProperties, ElementOfSeq
  <2> QED BY <2>1 DEF Messages
<1>2. [i \in 1 .. Len(q) |-> q[i].n] \in Seq(Nat)
  BY <1>1, IsASeq
<1> QED BY <1>1, <1>2, LenProperties DEF Numbers

\* What the worker holds is a sequence of numbers: empty, or of one.
LEMMA HandType ==
  ASSUME NEW w, NEW m \in Messages
  PROVE  InHand(w, m) \in Seq(Nat)
<1>1. m.n \in Nat
  BY DEF Messages
<1> QED BY <1>1 DEF InHand

\* Taking the head of the queue and transmitting it leave the pipeline alone.
LEMMA Moving ==
  ASSUME NEW q \in Seq(Messages), q # <<>>
  PROVE  <<Head(q).n>> \o Numbers(Tail(q)) = Numbers(q)
<1>1. /\ Head(q) \in Messages /\ Tail(q) \in Seq(Messages) /\ Head(q) = q[1]
      /\ Len(Tail(q)) = Len(q) - 1 /\ Len(q) \in Nat /\ Len(q) # 0
      /\ \A i \in 1 .. Len(Tail(q)) : Tail(q)[i] = q[i + 1]
  BY HeadTailProperties, EmptySeq, LenProperties
<1>2. Head(q).n \in Nat
  BY <1>1 DEF Messages
<1> DEFINE s == <<Head(q).n>>
           t == Numbers(Tail(q))
<1>3. s \in Seq(Nat) /\ Len(s) = 1 /\ s[1] = q[1].n
  BY <1>1, <1>2
<1>4. t \in Seq(Nat) /\ Len(t) = Len(q) - 1 /\ \A i \in 1 .. Len(q) - 1 : t[i] = q[i + 1].n
  BY <1>1, NumbersType DEF Numbers
<1>5. Numbers(q) \in Seq(Nat) /\ Len(Numbers(q)) = Len(q)
      /\ \A i \in 1 .. Len(q) : Numbers(q)[i] = q[i].n
  BY NumbersType DEF Numbers
<1> HIDE DEF s, t
<1> DEFINE r == s \o t
<1>6. /\ r \in Seq(Nat) /\ Len(r) = Len(s) + Len(t)
      /\ \A i \in 1 .. Len(s) : r[i] = s[i]
      /\ \A i \in 1 .. Len(r) : i > Len(s) => r[i] = t[i - Len(s)]
  BY <1>3, <1>4, Concat
<1> HIDE DEF r
<1>7. ASSUME NEW i \in 1 .. Len(q) PROVE r[i] = Numbers(q)[i]
  <2>0. Len(q) \in Nat
    BY <1>1
  <2>1. CASE i = 1
    BY <1>3, <1>5, <1>6, <2>1
  <2>2. CASE i # 1
    <3>1. i - 1 \in 1 .. Len(q) - 1 /\ (i - 1) + 1 = i /\ i > 1
      BY <2>0, <2>2
    <3>2. r[i] = t[i - 1] /\ t[i - 1] = q[(i - 1) + 1].n
      BY <1>3, <1>4, <1>6, <2>0, <3>1
    <3> QED BY <1>5, <3>1, <3>2
  <2> QED BY <2>1, <2>2
<1>8. Len(r) = Len(q)
  BY <1>1, <1>3, <1>4, <1>6
<1>9. r = Numbers(q)
  BY <1>5, <1>6, <1>7, <1>8, SeqEqual
<1> QED BY <1>9 DEF r, s, t

\* Pushing a message puts its number at the end.
LEMMA Pushing ==
  ASSUME NEW q \in Seq(Messages), NEW m \in Messages
  PROVE  Numbers(Append(q, m)) = Numbers(q) \o <<m.n>>
<1> DEFINE qm == Append(q, m)
           s == Numbers(q)
           t == <<m.n>>
<1>1. /\ qm \in Seq(Messages) /\ Len(qm) = Len(q) + 1 /\ Len(q) \in Nat
      /\ \A i \in 1 .. Len(q) : qm[i] = q[i]
      /\ qm[Len(q) + 1] = m
  BY AppendProperties, LenProperties
<1>2. m.n \in Nat
  BY DEF Messages
<1>3. t \in Seq(Nat) /\ Len(t) = 1 /\ t[1] = m.n
  BY <1>2
<1>4. s \in Seq(Nat) /\ Len(s) = Len(q) /\ \A i \in 1 .. Len(q) : s[i] = q[i].n
  BY NumbersType DEF Numbers
<1> HIDE DEF qm, t, s
<1>5. /\ Numbers(qm) \in Seq(Nat) /\ Len(Numbers(qm)) = Len(q) + 1
      /\ \A i \in 1 .. Len(q) + 1 : Numbers(qm)[i] = qm[i].n
  BY <1>1, NumbersType DEF Numbers
<1> DEFINE r == s \o t
<1>6. /\ r \in Seq(Nat) /\ Len(r) = Len(s) + Len(t)
      /\ \A i \in 1 .. Len(s) : r[i] = s[i]
      /\ \A j \in 1 .. Len(t) : r[Len(s) + j] = t[j]
  BY <1>3, <1>4, Concat
<1> HIDE DEF r
<1>7. ASSUME NEW i \in 1 .. Len(q) + 1 PROVE r[i] = Numbers(qm)[i]
  <2>0. Len(q) \in Nat
    BY <1>1
  <2>1. CASE i = Len(q) + 1
    <3>1. r[Len(s) + 1] = t[1]
      BY <1>3, <1>6
    <3> QED BY <1>1, <1>3, <1>4, <1>5, <2>1, <3>1
  <2>2. CASE i \in 1 .. Len(q)
    <3>1. r[i] = s[i] /\ s[i] = q[i].n
      BY <1>4, <1>6, <2>2
    <3>2. Numbers(qm)[i] = qm[i].n /\ qm[i] = q[i]
      BY <1>1, <1>5, <2>2
    <3> QED BY <3>1, <3>2
  <2> QED BY <2>0, <2>1, <2>2
<1>8. Len(r) = Len(q) + 1
  BY <1>1, <1>3, <1>4, <1>6
<1>9. r = Numbers(qm)
  BY <1>5, <1>6, <1>7, <1>8, SeqEqual
<1> QED BY <1>9 DEF r, qm, t, s

\* A sequence with every number in order keeps that when the next comes to its end ...
LEMMA OnceAppend ==
  ASSUME NEW p \in Seq(Nat), NEW a \in Nat, NEW d, d \subseteq 1 .. a, Once(p, a, d)
  PROVE  Once(p \o <<a + 1>>, a + 1, d)
<1> DEFINE t == <<a + 1>>
           r == p \o t
<1>1. t \in Seq(Nat) /\ Len(t) = 1 /\ t[1] = a + 1
  OBVIOUS
<1> HIDE DEF t
<1>2. /\ Len(p) \in Nat /\ Len(r) = Len(p) + 1 /\ r[Len(p) + 1] = a + 1
      /\ \A i \in 1 .. Len(p) : r[i] = p[i]
  <2>1. /\ Len(p) \in Nat /\ Len(r) = Len(p) + Len(t)
        /\ \A i \in 1 .. Len(p) : r[i] = p[i]
        /\ \A j \in 1 .. Len(t) : r[Len(p) + j] = t[j]
    BY <1>1, Concat
  <2> HIDE DEF r
  <2>2. r[Len(p) + 1] = t[1]
    BY <1>1, <2>1
  <2> QED BY <1>1, <2>1, <2>2
<1> HIDE DEF r
<1>3. \A i \in 1 .. Len(p) : p[i] \in Nat /\ p[i] <= a /\ p[i] \in (1 .. a) \ d
  BY ElementOfSeq DEF Once
<1>4. ASSUME NEW i \in 1 .. Len(r), NEW j \in 1 .. Len(r), i < j PROVE r[i] < r[j]
  <2>1. i \in 1 .. Len(p) /\ r[i] = p[i] /\ p[i] \in Nat /\ p[i] <= a
    BY <1>2, <1>3, <1>4
  <2>2. CASE j = Len(p) + 1
    BY <1>2, <2>1, <2>2
  <2>3. CASE j \in 1 .. Len(p)
    BY <1>2, <1>4, <2>1, <2>3 DEF Once
  <2> QED BY <1>2, <2>2, <2>3
<1>5. ASSUME NEW x \in (1 .. a + 1) \ d PROVE \E i \in 1 .. Len(r) : r[i] = x
  <2>1. CASE x = a + 1
    BY <1>2, <2>1
  <2>2. CASE x # a + 1
    <3>1. x \in (1 .. a) \ d
      BY <1>5, <2>2
    <3>2. PICK i \in 1 .. Len(p) : p[i] = x
      BY <3>1 DEF Once
    <3> QED BY <1>2, <3>2
  <2> QED BY <2>1, <2>2
<1>6. ASSUME NEW i \in 1 .. Len(r) PROVE r[i] \in (1 .. a + 1) \ d
  <2>1. CASE i = Len(p) + 1
    BY <1>2, <2>1
  <2>2. CASE i \in 1 .. Len(p)
    BY <1>2, <1>3, <2>2
  <2> QED BY <1>2, <2>1, <2>2
<1>7. {r[i] : i \in 1 .. Len(r)} = (1 .. a + 1) \ d
  BY <1>5, <1>6
<1>8. Once(r, a + 1, d)
  BY <1>4, <1>7 DEF Once
<1> QED BY <1>8 DEF r, t

\* ... and when its end goes to the dropped ones.
LEMMA OnceCut ==
  ASSUME NEW p \in Seq(Nat), NEW t \in Seq(Nat), NEW a \in Nat, NEW d, Once(p \o t, a, d)
  PROVE  Once(p, a, d \cup {t[i] : i \in 1 .. Len(t)})
<1> DEFINE r == p \o t
           e == d \cup {t[i] : i \in 1 .. Len(t)}
<1>1. /\ Len(p) \in Nat /\ Len(t) \in Nat /\ Len(r) = Len(p) + Len(t)
      /\ \A i \in 1 .. Len(p) : r[i] = p[i]
      /\ \A i \in 1 .. Len(t) : r[Len(p) + i] = t[i]
  BY Concat
<1>2. \A i, j \in 1 .. Len(r) : i < j => r[i] < r[j]
  BY DEF Once
<1>3. {r[i] : i \in 1 .. Len(r)} = (1 .. a) \ d
  BY DEF Once
<1> HIDE DEF r
<1>4. \A i, j \in 1 .. Len(p) : i < j => p[i] < p[j]
  BY <1>1, <1>2
<1>5. ASSUME NEW i \in 1 .. Len(p) PROVE p[i] \in (1 .. a) \ e
  <2>1. i \in 1 .. Len(r) /\ r[i] = p[i]
    BY <1>1
  <2>2. p[i] \in (1 .. a) \ d
    BY <1>3, <2>1
  <2>3. \A j \in 1 .. Len(t) : p[i] # t[j]
    <3> SUFFICES ASSUME NEW j \in 1 .. Len(t) PROVE p[i] # t[j]
      OBVIOUS
    <3>1. Len(p) + j \in 1 .. Len(r) /\ i < Len(p) + j
      BY <1>1
    <3>2. p[i] < t[j]
      BY <1>1, <1>2, <2>1, <3>1
    <3>3. p[i] \in Nat /\ t[j] \in Nat
      BY ElementOfSeq
    <3> QED BY <3>2, <3>3
  <2> QED BY <2>2, <2>3
<1>6. ASSUME NEW x \in (1 .. a) \ e PROVE \E i \in 1 .. Len(p) : p[i] = x
  <2>1. PICK k \in 1 .. Len(r) : r[k] = x
    BY <1>3
  <2>2. CASE k <= Len(p)
    <3>1. k \in 1 .. Len(p)
      BY <1>1, <2>2
    <3> QED BY <1>1, <2>1, <3>1
  <2>3. CASE ~(k <= Len(p))
    <3>1. k - Len(p) \in 1 .. Len(t) /\ Len(p) + (k - Len(p)) = k
      BY <1>1, <2>3
    <3>2. x = t[k - Len(p)]
      BY <1>1, <2>1, <3>1
    <3> QED BY <3>1, <3>2
  <2> QED BY <2>2, <2>3
<1>7. {p[i] : i \in 1 .. Len(p)} = (1 .. a) \ e
  BY <1>5, <1>6
<1> QED BY <1>4, <1>7 DEF Once

-----------------------------------------------------------------------------
(* The types.                                                              *)

\* Before the first call the pipeline is empty.
LEMMA InitInv == Init => IInv
<1> SUFFICES ASSUME Init PROVE IInv
  OBVIOUS
<1>1. TypeOK
  <2>1. NoJob \in Jobs /\ NoMessage \in Messages
    BY DEF NoJob, Jobs, NoMessage, Messages
  <2>2. <<>> \in Seq(Messages) /\ Len(<<>>) = 0 /\ <<>> \in Seq(Nat)
    BY EmptySeq
  <2>3. job \in [Clients -> Jobs] /\ current \in Messages
    BY <2>1 DEF Init
  <2>4. /\ messageQueue \in Seq(Messages) /\ delivered \in Seq(Nat)
        /\ Len(messageQueue) <= MaxQueueSize
    BY <2>2, IpcAssumption DEF Init
  <2>5. /\ pc \in [Clients -> {"idle", "register", "send", "push", "wait", "return",
                              "unregister", "forget"}]
        /\ promise \in [Requests -> {"none", "empty", "set", "gone"}]
    BY DEF Init
  <2>6. /\ begun \in 0 .. MaxBegun /\ accepted \in 0 .. begun
        /\ toggles \in 0 .. MaxToggles /\ starts \in 0 .. MaxStarts
    BY IpcAssumption DEF Init
  <2> QED BY <2>3, <2>4, <2>5, <2>6 DEF Init, TypeOK
<1>2. JobsFit /\ RequestsFit
  BY DEF Init, JobsFit, RequestsFit, NoJob, NoMessage
<1>3. Counted
  <2>1. Sending = {}
    BY DEF Init, Sending
  <2> QED BY <2>1, FS_EmptySet DEF Init, Counted
<1>4. OrderInv
  <2> DEFINE p == Pipeline
  <2>1. delivered = <<>> /\ Held = <<>> /\ messageQueue = <<>> /\ accepted = 0 /\ dropped = {}
    BY DEF Init, Held
  <2>2. [i \in 1 .. Len(messageQueue) |-> messageQueue[i].n] = <<>>
    BY <2>1
  <2>3. p = <<>>
    BY <2>1, <2>2, EmptySeq, ConcatEmptySeq DEF Pipeline
  <2>4. Len(p) = 0
    BY <2>3
  <2> HIDE DEF p
  <2>5. 1 .. Len(p) = {} /\ (1 .. accepted) \ dropped = {}
    BY <2>1, <2>4
  <2>6. EachOnceInOrder
    BY <2>5 DEF EachOnceInOrder, p
  <2> QED BY <2>1, <2>6 DEF OrderInv
<1>5. Threads
  BY DEF Init, Threads
<1> QED BY <1>1, <1>2, <1>3, <1>4, <1>5 DEF IInv, TypeInv

\* A client that goes on leaves the count of those that are sending alone, or
\* leaves them, or comes to them when its message has been begun.
LEMMA Leaving ==
  ASSUME TypeOK, Counted, NEW c \in Clients, NEW l,
         pc' = [pc EXCEPT ![c] = l], l \in {"register", "send", "push"} => c \in Sending
  PROVE  /\ IsFiniteSet(Sending') /\ Cardinality(Sending') <= Cardinality(Sending)
         /\ Cardinality(Sending') \in Nat /\ Cardinality(Sending) \in Nat
         /\ (c \in Sending /\ l \notin {"register", "send", "push"})
                => Cardinality(Sending') = Cardinality(Sending) - 1
<1>1. \A o \in Clients : pc'[o] = IF o = c THEN l ELSE pc[o]
  BY DEF TypeOK
<1>2. Sending' \subseteq Sending
  BY <1>1 DEF Sending
<1>3. IsFiniteSet(Sending) /\ Cardinality(Sending) \in Nat
  BY FS_CardinalityType DEF Counted
<1>4. IsFiniteSet(Sending') /\ Cardinality(Sending') <= Cardinality(Sending)
      /\ Cardinality(Sending') \in Nat
  BY <1>2, <1>3, FS_Subset, FS_CardinalityType
<1>5. ASSUME c \in Sending, l \notin {"register", "send", "push"}
      PROVE  Cardinality(Sending') = Cardinality(Sending) - 1
  <2>1. Sending' = Sending \ {c}
    BY <1>1, <1>5 DEF Sending
  <2> QED BY <1>3, <1>5, <2>1, FS_RemoveElement
<1> QED BY <1>3, <1>4, <1>5

\* A call begins: it is counted, and has accepted nothing yet.
LEMMA Beginning ==
  ASSUME TypeInv, NEW c \in Clients, NEW l \in {"send", "register"}, NEW k, NEW r,
         Begin(c, l, k, r), UNCHANGED accepted
  PROVE  Counted' /\ begun' \in 0 .. MaxBegun /\ accepted' \in 0 .. begun'
<1>1. pc[c] = "idle" /\ begun < MaxBegun /\ begun' = begun + 1
      /\ pc' = [pc EXCEPT ![c] = l]
  BY DEF Begin, Goto
<1>2. Sending' = Sending \cup {c} /\ c \notin Sending
  BY <1>1 DEF Sending, TypeInv, TypeOK, Threads
<1>3. IsFiniteSet(Sending) /\ Cardinality(Sending) \in Nat
      /\ accepted + Cardinality(Sending) <= begun
  BY FS_CardinalityType DEF Counted, TypeInv
<1>4. IsFiniteSet(Sending') /\ Cardinality(Sending') = Cardinality(Sending) + 1
  BY <1>2, <1>3, FS_AddElement
<1>5. begun \in Nat /\ accepted \in Nat /\ accepted <= begun /\ MaxBegun \in Nat
  BY IpcAssumption DEF TypeInv, TypeOK, Threads
<1> QED BY <1>1, <1>3, <1>4, <1>5 DEF Counted

\* A step of a client that has begun keeps what is said of counters and places.
LEMMA Going ==
  ASSUME TypeInv, NEW c \in Clients,
         NEW l \in {"idle", "send", "push", "wait", "return", "unregister", "forget"},
         Goto(c, l), UNCHANGED <<job, begun, accepted>>,
         l \in {"send", "push"} => pc[c] \in {"register", "send", "push"}
  PROVE  /\ Counted' /\ JobsFit' /\ accepted' \in 0 .. begun'
         /\ pc' \in [Clients -> {"idle", "register", "send", "push", "wait", "return",
                                 "unregister", "forget"}]
<1>1. pc' = [pc EXCEPT ![c] = l]
  BY DEF Goto
<1>2. (l \in {"register", "send", "push"} => c \in Sending) /\ TypeOK /\ Counted
  BY DEF Sending, TypeInv
<1>3. IsFiniteSet(Sending') /\ Cardinality(Sending') <= Cardinality(Sending)
      /\ Cardinality(Sending') \in Nat /\ Cardinality(Sending) \in Nat
  BY <1>1, <1>2, Leaving
<1>4. Counted'
  BY <1>2, <1>3 DEF Counted, TypeOK
<1>5. \A o \in Clients : pc'[o] = "register" => pc[o] = "register"
  BY <1>1, <1>2 DEF TypeOK
<1>6. JobsFit'
  BY <1>5 DEF TypeInv, JobsFit
<1> QED BY <1>1, <1>2, <1>4, <1>6 DEF TypeOK

\* A step that touches neither clients nor counters keeps what is said of them.
LEMMA Aside ==
  ASSUME TypeInv, UNCHANGED <<pc, job, begun, accepted>>
  PROVE  Counted' /\ JobsFit' /\ accepted' \in 0 .. begun'
BY DEF TypeInv, TypeOK, Counted, Sending, JobsFit

\* What registering and removing a handler makes of the table.
LEMMA HandlersType ==
  ASSUME TypeOK
  PROVE  /\ \A r \in Requests, t \in {"promise", "callback"} :
               Registered(r, t) \subseteq [req : Requests, type : {"promise", "callback"}]
         /\ \A r, t : Unregistered(r, t) \subseteq [req : Requests, type : {"promise", "callback"}]
BY DEF TypeOK, Registered, Unregistered

\* Taking the first message of a queue, or adding one at its end.
LEMMA QueueType ==
  ASSUME NEW q \in Seq(Messages), NEW m \in Messages
  PROVE  /\ Append(q, m) \in Seq(Messages) /\ Len(Append(q, m)) = Len(q) + 1 /\ Len(q) \in Nat
         /\ \A i \in 1 .. Len(q) : Append(q, m)[i] = q[i]
         /\ Append(q, m)[Len(q) + 1] = m
         /\ q # <<>> => /\ Head(q) \in Messages /\ Head(q) = q[1] /\ Tail(q) \in Seq(Messages)
                        /\ Len(Tail(q)) = Len(q) - 1 /\ Len(q) # 0
                        /\ \A i \in 1 .. Len(q) - 1 : Tail(q)[i] = q[i + 1]
BY AppendProperties, HeadTailProperties, EmptySeq, LenProperties

-----------------------------------------------------------------------------

\* The calls of the clients and their steps keep the types.
LEMMA ClientTypes ==
  ASSUME TypeInv, NEW c \in Clients, ClientCall(c) \/ ClientStep(c)
  PROVE  TypeInv'
<1> USE DEF ClientUnchanged, queue, settings, call
<1>0. /\ TypeOK /\ JobsFit /\ RequestsFit /\ Threads
      /\ job[c] \in Jobs /\ accepted \in Nat /\ begun \in Nat /\ Len(messageQueue) \in Nat
      /\ pc[c] \in {"idle", "register", "send", "push", "wait", "return", "unregister", "forget"}
  BY LenProperties DEF TypeInv, TypeOK, Threads
<1>1. CASE Send(c)
  <2>1. PICK k \in {"data", "response"}, r \in Requests \cup {NoRequest} : Begin(c, "send", k, r)
    BY <1>0, <1>1 DEF Send, TypeOK
  <2>2. UNCHANGED accepted
    BY <1>1 DEF Send
  <2>3. Counted' /\ begun' \in 0 .. MaxBegun /\ accepted' \in 0 .. begun'
    BY <2>1, <2>2, Beginning
  <2>4. /\ pc' = [pc EXCEPT ![c] = "send"]
        /\ job' = [job EXCEPT ![c] = [kind |-> k, req |-> r]]
    BY <2>1 DEF Begin, Goto
  <2>5. job' \in [Clients -> Jobs]
    BY <1>0, <2>4 DEF TypeOK, Jobs
  <2>6. JobsFit'
    BY <1>0, <2>4 DEF JobsFit, TypeOK
  <2> QED BY <1>0, <1>1, <2>3, <2>4, <2>5, <2>6 DEF Send, TypeInv, TypeOK, RequestsFit, Threads
<1>2. ASSUME NEW r \in Requests, SendRequest(c, r) PROVE TypeInv'
  <2>1. Begin(c, "send", "sync", r) /\ UNCHANGED accepted
    BY <1>2 DEF SendRequest
  <2>2. Counted' /\ begun' \in 0 .. MaxBegun /\ accepted' \in 0 .. begun'
    BY <2>1, Beginning
  <2>3. /\ pc' = [pc EXCEPT ![c] = "send"]
        /\ job' = [job EXCEPT ![c] = [kind |-> "sync", req |-> r]]
    BY <2>1 DEF Begin, Goto
  <2>4. job' \in [Clients -> Jobs] /\ JobsFit'
    BY <1>0, <2>3 DEF TypeOK, Jobs, JobsFit
  <2>5. handlers' \subseteq [req : Requests, type : {"promise", "callback"}]
    BY <1>0, <1>2, HandlersType DEF SendRequest
  <2>6. used' \subseteq Requests
        /\ promise' \in [Requests -> {"none", "empty", "set", "gone"}]
    BY <1>0, <1>2 DEF SendRequest, TypeOK
  <2> QED BY <1>0, <1>2, <2>2, <2>3, <2>4, <2>5, <2>6 DEF SendRequest, TypeInv, TypeOK, RequestsFit, Threads
<1>3. ASSUME NEW r \in Requests, SendAsyncRequest(c, r) PROVE TypeInv'
  <2>1. Begin(c, "register", "async", r) /\ UNCHANGED accepted
    BY <1>3 DEF SendAsyncRequest
  <2>2. Counted' /\ begun' \in 0 .. MaxBegun /\ accepted' \in 0 .. begun'
    BY <2>1, Beginning
  <2>3. /\ pc' = [pc EXCEPT ![c] = "register"]
        /\ job' = [job EXCEPT ![c] = [kind |-> "async", req |-> r]]
    BY <2>1 DEF Begin, Goto
  <2>4. job' \in [Clients -> Jobs] /\ JobsFit'
    BY <1>0, <2>3 DEF TypeOK, Jobs, JobsFit
  <2>5. used' \subseteq Requests /\ pending' = pending \cup {r}
    BY <1>0, <1>3 DEF SendAsyncRequest, TypeOK
  <2> QED BY <1>0, <1>3, <2>2, <2>3, <2>4, <2>5 DEF SendAsyncRequest, TypeInv, TypeOK, RequestsFit, Threads
<1>4. CASE Register(c)
  <2>1. job[c].req \in Requests
    BY <1>0, <1>4 DEF Register, JobsFit
  <2>2. handlers' \subseteq [req : Requests, type : {"promise", "callback"}]
    BY <1>0, <1>4, <2>1, HandlersType DEF Register
  <2>3. Goto(c, "send") /\ pc[c] = "register" /\ UNCHANGED <<job, begun, accepted>>
    BY <1>4 DEF Register
  <2>4. /\ Counted' /\ JobsFit' /\ accepted' \in 0 .. begun'
        /\ pc' \in [Clients -> {"idle", "register", "send", "push", "wait", "return",
                                "unregister", "forget"}]
    BY <2>3, Going
  <2> QED BY <1>0, <1>4, <2>2, <2>4 DEF Register, TypeInv, TypeOK, RequestsFit, Threads
<1>5. CASE TestQueueing(c)
  <2>1. PICK l \in {"push", "wait", "idle"} : Goto(c, l)
    BY <1>5 DEF TestQueueing, AfterSuccess
  <2>2. pc[c] = "send" /\ UNCHANGED <<job, begun, accepted>>
    BY <1>5 DEF TestQueueing
  <2>3. /\ Counted' /\ JobsFit' /\ accepted' \in 0 .. begun'
        /\ pc' \in [Clients -> {"idle", "register", "send", "push", "wait", "return",
                                "unregister", "forget"}]
    BY <2>1, <2>2, Going
  <2> QED BY <1>0, <1>5, <2>3 DEF TestQueueing, TypeInv, TypeOK, RequestsFit, Threads
<1>6. CASE Push(c)
  <2>0. pc[c] = "push" /\ UNCHANGED <<job, begun>>
    BY <1>6 DEF Push
  <2>1. CASE Len(messageQueue) < MaxQueueSize
    <3> DEFINE m == MessageOf(c)
    <3>1. m \in Messages /\ m.n = accepted + 1 /\ (m.kind = "request" => m.req \in Requests)
      BY <1>0 DEF MessageOf, Messages, Jobs, JobsFit
    <3>2. messageQueue' = Append(messageQueue, m) /\ accepted' = accepted + 1
          /\ Goto(c, AfterSuccess(c))
      BY <1>0, <1>6, <2>1, IpcAssumption DEF Push
    <3> HIDE DEF m
    <3>3. /\ messageQueue' \in Seq(Messages) /\ Len(messageQueue') = Len(messageQueue) + 1
          /\ \A i \in 1 .. Len(messageQueue) : messageQueue'[i] = messageQueue[i]
          /\ messageQueue'[Len(messageQueue) + 1] = m
      BY <1>0, <3>1, <3>2, QueueType DEF TypeOK
    <3>4. Len(messageQueue') <= MaxQueueSize
      BY <1>0, <2>1, <3>3, IpcAssumption
    <3>5. \A i \in 1 .. Len(messageQueue') :
              messageQueue'[i].kind = "request" => messageQueue'[i].req \in Requests
      <4> SUFFICES ASSUME NEW i \in 1 .. Len(messageQueue'), messageQueue'[i].kind = "request"
                   PROVE  messageQueue'[i].req \in Requests
        OBVIOUS
      <4>1. CASE i = Len(messageQueue) + 1
        BY <3>1, <3>3, <4>1
      <4>2. CASE i \in 1 .. Len(messageQueue)
        BY <1>0, <3>3, <4>2 DEF RequestsFit
      <4> QED BY <1>0, <3>3, <4>1, <4>2
    <3>6. AfterSuccess(c) \in {"wait", "idle"} /\ pc' = [pc EXCEPT ![c] = AfterSuccess(c)]
      BY <3>2 DEF AfterSuccess, Goto
    <3>7. /\ IsFiniteSet(Sending') /\ Cardinality(Sending') = Cardinality(Sending) - 1
          /\ Cardinality(Sending') \in Nat /\ Cardinality(Sending) \in Nat
      BY <2>0, <3>6, Leaving DEF TypeInv, Sending
    <3>8. Counted' /\ accepted' \in 0 .. begun'
      BY <1>0, <2>0, <3>2, <3>7 DEF TypeInv, Counted
    <3>9. /\ pc' \in [Clients -> {"idle", "register", "send", "push", "wait", "return",
                                  "unregister", "forget"}]
          /\ JobsFit'
      BY <1>0, <2>0, <3>6 DEF TypeOK, JobsFit
    <3> QED BY <1>0, <1>6, <3>3, <3>4, <3>5, <3>8, <3>9 DEF Push, TypeInv, TypeOK, RequestsFit, Threads
  <2>2. CASE ~(Len(messageQueue) < MaxQueueSize)
    <3>1. Goto(c, AfterFailure(c)) /\ UNCHANGED <<messageQueue, accepted>>
      BY <2>2, <1>6 DEF Push
    <3>2. AfterFailure(c) \in {"return", "unregister", "idle"}
      BY DEF AfterFailure
    <3>3. /\ Counted' /\ JobsFit' /\ accepted' \in 0 .. begun'
          /\ pc' \in [Clients -> {"idle", "register", "send", "push", "wait", "return",
                                  "unregister", "forget"}]
      BY <2>0, <3>1, <3>2, Going
    <3> QED BY <1>0, <1>6, <3>1, <3>3 DEF Push, TypeInv, TypeOK, RequestsFit, Threads
  <2> QED BY <2>1, <2>2
<1>7. CASE Wait(c) \/ Return(c) \/ Unregister(c) \/ Forget(c)
  <2>1. PICK l \in {"return", "idle", "forget"} : Goto(c, l)
    BY <1>7 DEF Wait, Return, Unregister, Forget
  <2>2. UNCHANGED <<job, begun, accepted>>
    BY <1>7 DEF Wait, Return, Unregister, Forget
  <2>3. /\ Counted' /\ JobsFit' /\ accepted' \in 0 .. begun'
        /\ pc' \in [Clients -> {"idle", "register", "send", "push", "wait", "return",
                                "unregister", "forget"}]
    BY <2>1, <2>2, Going
  <2>4. handlers' \subseteq [req : Requests, type : {"promise", "callback"}]
    BY <1>0, <1>7, HandlersType DEF Wait, Return, Unregister, Forget, TypeOK
  <2>5. promise' \in [Requests -> {"none", "empty", "set", "gone"}]
    BY <1>0, <1>7 DEF Wait, Return, Unregister, Forget, TypeOK
  <2>6. pending' \subseteq Requests /\ due \subseteq pending'
    BY <1>0, <1>7 DEF Wait, Return, Unregister, Forget, TypeOK, PendingMutexFree, Threads
  <2>7. UNCHANGED <<running, queueingEnabled, replier, messageQueue, expired, due, worker,
                    current, timer, owner, used, seen, begun, delivered, dropped, dangling,
                    toggles, starts>>
    BY <1>7 DEF Wait, Return, Unregister, Forget
  <2> QED BY <1>0, <2>2, <2>3, <2>4, <2>5, <2>6, <2>7 DEF TypeInv, TypeOK, RequestsFit, Threads
<1>8. CASE ClearQueue(c)
  <2>1. UNCHANGED <<pc, job, begun, accepted>>
    BY <1>8 DEF ClearQueue
  <2>2. Counted' /\ JobsFit' /\ accepted' \in 0 .. begun'
    BY <2>1, Aside
  <2>3. messageQueue' = <<>> /\ <<>> \in Seq(Messages) /\ Len(<<>>) = 0
    BY <1>8, EmptySeq DEF ClearQueue
  <2>4. \A i \in 1 .. Len(messageQueue) : messageQueue[i].n \in Nat
    <3> SUFFICES ASSUME NEW i \in 1 .. Len(messageQueue) PROVE messageQueue[i].n \in Nat
      OBVIOUS
    <3>1. messageQueue[i] \in Messages
      BY <1>0, ElementOfSeq DEF TypeOK
    <3> QED BY <3>1 DEF Messages
  <2>5. dropped' \subseteq Nat
    BY <1>0, <1>8, <2>4 DEF ClearQueue, TypeOK
  <2> QED BY <1>0, <1>8, <2>2, <2>3, <2>5, IpcAssumption DEF ClearQueue, TypeInv, TypeOK, RequestsFit, Threads
<1>9. CASE SetQueueing(c) \/ RegisterReplier(c)
  <2>1. UNCHANGED <<pc, job, begun, accepted>>
    BY <1>9 DEF SetQueueing, RegisterReplier
  <2>2. Counted' /\ JobsFit' /\ accepted' \in 0 .. begun'
    BY <2>1, Aside
  <2>3. toggles' \in 0 .. MaxToggles /\ queueingEnabled' \in BOOLEAN /\ replier' \in BOOLEAN
    <3>1. CASE SetQueueing(c)
      BY <1>0, <3>1, IpcAssumption DEF SetQueueing, TypeOK
    <3>2. CASE RegisterReplier(c)
      BY <1>0, <3>2 DEF RegisterReplier, TypeOK
    <3> QED BY <1>9, <3>1, <3>2
  <2>4. UNCHANGED <<running, messageQueue, handlers, pending, expired, due, worker, current,
                    timer, owner, pc, job, used, seen, promise, begun, delivered, dropped,
                    dangling, starts>>
    BY <1>9 DEF SetQueueing, RegisterReplier
  <2> QED BY <1>0, <2>2, <2>3, <2>4 DEF TypeInv, TypeOK, RequestsFit, Threads
<1> QED BY <1>1, <1>2, <1>3, <1>4, <1>5, <1>6, <1>7, <1>8, <1>9 DEF ClientCall, ClientStep

\* So do the steps of the worker, ...
LEMMA WorkerTypes == TypeInv /\ WorkerStep => TypeInv'
<1> SUFFICES ASSUME TypeInv, WorkerStep PROVE TypeInv'
  OBVIOUS
<1> USE DEF WorkerUnchanged, settings, call
<1>0. TypeOK /\ RequestsFit /\ Threads
      /\ messageQueue \in Seq(Messages) /\ Len(messageQueue) \in Nat
      /\ UNCHANGED <<pc, job, begun, accepted>>
  BY LenProperties DEF TypeInv, TypeOK, WorkerStep, WorkerLoop, Drain, Transmit, Broadcast
<1>a. Counted' /\ JobsFit' /\ accepted' \in 0 .. begun'
  BY <1>0, Aside
<1>1. CASE WorkerLoop
  BY <1>0, <1>1, <1>a DEF WorkerLoop, TypeInv, TypeOK, RequestsFit, Threads
<1>2. CASE Drain
  <2>1. CASE messageQueue # <<>>
    <3>1. /\ current' = Head(messageQueue) /\ messageQueue' = Tail(messageQueue)
          /\ worker' = "send"
      BY <1>2, <2>1 DEF Drain
    <3>2. NoMessage \in Messages
      BY DEF NoMessage, Messages
    <3>3. /\ current' \in Messages /\ current' = messageQueue[1] /\ messageQueue' \in Seq(Messages)
          /\ Len(messageQueue') = Len(messageQueue) - 1 /\ Len(messageQueue) # 0
          /\ \A i \in 1 .. Len(messageQueue) - 1 : messageQueue'[i] = messageQueue[i + 1]
      BY <1>0, <2>1, <3>1, <3>2, QueueType
    <3>4. RequestsFit'
      BY <1>0, <3>3 DEF RequestsFit
    <3>5. Len(messageQueue') <= MaxQueueSize
      BY <1>0, <3>3, IpcAssumption DEF TypeOK
    <3> QED BY <1>0, <1>2, <1>a, <3>1, <3>3, <3>4, <3>5 DEF Drain, TypeInv, TypeOK, Threads
  <2>2. CASE messageQueue = <<>>
    BY <1>0, <1>2, <1>a, <2>2 DEF Drain, TypeInv, TypeOK, RequestsFit, Threads
  <2> QED BY <2>1, <2>2
<1>3. CASE Transmit
  <2>1. current.n \in Nat
    BY <1>0 DEF TypeOK, Messages
  <2>2. delivered' \in Seq(Nat)
    BY <1>0, <1>3, <2>1, AppendProperties DEF Transmit, TypeOK
  <2> QED BY <1>0, <1>3, <1>a, <2>2 DEF Transmit, TypeInv, TypeOK, RequestsFit, Threads
<1>4. CASE Broadcast
  <2>1. NoMessage \in Messages /\ NoMessage.kind = "data"
    BY DEF NoMessage, Messages
  <2>2. seen' \subseteq Requests
    BY <1>0, <1>4 DEF Broadcast, RequestsFit, TypeOK
  <2>3. promise' \in [Requests -> {"none", "empty", "set", "gone"}]
    BY <1>0, <1>4 DEF Broadcast, TypeOK
  <2>4. /\ dangling' \in BOOLEAN /\ current' = NoMessage
        /\ worker' \in {"stuck", "drain"} /\ worker = "broadcast"
    BY <1>0, <1>4 DEF Broadcast, TypeOK
  <2>5. UNCHANGED <<running, queueingEnabled, replier, messageQueue, handlers, pending,
                    expired, due, timer, owner, pc, job, used, begun, accepted, delivered,
                    dropped, toggles, starts>>
    BY <1>4 DEF Broadcast
  <2> QED BY <1>0, <1>a, <2>1, <2>2, <2>3, <2>4, <2>5 DEF TypeInv, TypeOK, RequestsFit, Threads
<1> QED BY <1>1, <1>2, <1>3, <1>4 DEF WorkerStep

\* ... and the timers, stop() and start().
LEMMA OtherTypes ==
  ASSUME TypeInv, TimerStep \/ (\E r \in Requests : Expire(r)) \/ Stop \/ Join \/ Start
  PROVE  TypeInv'
<1> USE DEF TimerUnchanged, OwnerUnchanged, settings, call, queue
<1>0. /\ TypeOK /\ RequestsFit /\ Threads
      /\ UNCHANGED <<pc, job, begun, accepted, current, messageQueue, used, seen, promise, delivered,
                     dropped, dangling, queueingEnabled, replier, toggles>>
  BY DEF TypeInv, TimerStep, TimerLoop, TimerLock, TimerUnlock, TimerErase, Expire, Stop, Join, Start
<1>a. Counted' /\ JobsFit' /\ accepted' \in 0 .. begun'
  BY <1>0, Aside
<1> DEFINE Fine ==
      /\ running' \in BOOLEAN /\ starts' \in 0 .. MaxStarts
      /\ worker' \in {"loop", "drain", "send", "broadcast", "stuck", "done"}
      /\ timer' \in {"loop", "sleep", "scan", "done"}
      /\ owner' \in {"up", "joining", "down"}
      /\ handlers' \subseteq [req : Requests, type : {"promise", "callback"}]
      /\ pending' \subseteq Requests /\ expired' \subseteq Requests /\ due' \subseteq pending'
      /\ Threads'
<1>1. ASSUME TimerLoop \/ TimerLock \/ TimerUnlock PROVE Fine
  BY <1>0, <1>1 DEF TimerLoop, TimerLock, TimerUnlock, TypeOK, Threads
<1>2. ASSUME NEW r \in Requests, TimerErase(r) PROVE Fine
  BY <1>0, <1>2, HandlersType DEF TimerErase, TypeOK, Threads
<1>3. ASSUME NEW r \in Requests, Expire(r) PROVE Fine
  BY <1>0, <1>3 DEF Expire, TypeOK, Threads
<1>4. ASSUME Stop \/ Join PROVE Fine
  BY <1>0, <1>4 DEF Stop, Join, TypeOK, Threads
<1>5. ASSUME Start PROVE Fine
  BY <1>0, <1>5, IpcAssumption DEF Start, TypeOK, Threads
<1>6. Fine
  BY <1>1, <1>2, <1>3, <1>4, <1>5 DEF TimerStep
<1> QED BY <1>0, <1>6, <1>a DEF TypeInv, TypeOK, RequestsFit

\* Every step keeps the types.
LEMMA TypeStep == TypeInv /\ [Next]_vars => TypeInv'
<1> SUFFICES ASSUME TypeInv, [Next]_vars PROVE TypeInv'
  OBVIOUS
<1>1. ASSUME NEW c \in Clients, ClientCall(c) \/ ClientStep(c) PROVE TypeInv'
  BY <1>1, ClientTypes
<1>2. CASE WorkerStep
  BY <1>2, WorkerTypes
<1>3. CASE TimerStep \/ (\E r \in Requests : Expire(r)) \/ Stop \/ Join \/ Start
  BY <1>3, OtherTypes
<1>4. CASE UNCHANGED vars
  BY <1>4 DEF vars, TypeInv, TypeOK, JobsFit, RequestsFit, Counted, Sending, Threads
<1> QED BY <1>1, <1>2, <1>3, <1>4 DEF Next

-----------------------------------------------------------------------------
(* The order.                                                              *)

\* The names of the specification for what the lemmas above are about.
LEMMA Names ==
  /\ EachOnceInOrder <=> Once(Pipeline, accepted, dropped)
  /\ Pipeline = (delivered \o InHand(worker, current)) \o Numbers(messageQueue)
BY DEF EachOnceInOrder, Once, Pipeline, Held, InHand, Numbers

\* The pieces of the pipeline are sequences of numbers.
LEMMA PipelineType ==
  ASSUME TypeInv
  PROVE  /\ delivered \in Seq(Nat) /\ InHand(worker, current) \in Seq(Nat)
         /\ delivered \o InHand(worker, current) \in Seq(Nat)
         /\ Numbers(messageQueue) \in Seq(Nat) /\ Pipeline \in Seq(Nat)
         /\ messageQueue \in Seq(Messages) /\ current \in Messages /\ accepted \in Nat
<1>1. /\ delivered \in Seq(Nat) /\ messageQueue \in Seq(Messages) /\ current \in Messages
      /\ accepted \in 0 .. begun /\ begun \in 0 .. MaxBegun
  BY DEF TypeInv, TypeOK
<1>2. InHand(worker, current) \in Seq(Nat) /\ Numbers(messageQueue) \in Seq(Nat)
  BY <1>1, HandType, NumbersType
<1> DEFINE s == InHand(worker, current)
           t == Numbers(messageQueue)
<1> HIDE DEF s, t
<1>3. delivered \o s \in Seq(Nat)
  BY <1>1, <1>2, Concat DEF s
<1>4. (delivered \o s) \o t \in Seq(Nat)
  BY <1>2, <1>3, Concat DEF t
<1> QED BY <1>1, <1>2, <1>3, <1>4, Names DEF s, t

\* What moves no message, or moves one along, keeps every number in its place.
LEMMA SamePlaces ==
  ASSUME OrderInv, UNCHANGED <<accepted, dropped>>, Pipeline' = Pipeline
  PROVE  OrderInv'
<1> DEFINE p == Pipeline
<1>1. Once(p, accepted, dropped)
  BY Names DEF OrderInv
<1>2. EachOnceInOrder'
  <2> HIDE DEF p
  <2>1. Pipeline' = p
    BY DEF p
  <2> QED BY <1>1, <2>1 DEF EachOnceInOrder, Once
<1> QED BY <1>2 DEF OrderInv

\* Who touches none of the pieces leaves the order as it is.
LEMMA Still ==
  ASSUME OrderInv, UNCHANGED <<accepted, dropped, delivered, messageQueue>>,
         InHand(worker, current)' = InHand(worker, current)
  PROVE  OrderInv'
<1>1. Pipeline' = Pipeline
  BY Names DEF Pipeline, Held, InHand
<1> QED BY <1>1, SamePlaces

\* A push accepts the next number and puts it behind all the others.
LEMMA PushOrder ==
  ASSUME TypeInv, OrderInv, NEW c \in Clients, Push(c)
  PROVE  OrderInv'
<1> USE DEF ClientUnchanged, settings, call
<1> DEFINE h == delivered \o InHand(worker, current)
           n == Numbers(messageQueue)
<1>0. /\ UNCHANGED <<worker, current, delivered, dropped>>
      /\ h \in Seq(Nat) /\ n \in Seq(Nat) /\ Pipeline = h \o n /\ Pipeline \in Seq(Nat)
      /\ messageQueue \in Seq(Messages) /\ accepted \in Nat
  BY PipelineType, Names DEF Push
<1>1. CASE UNCHANGED <<messageQueue, accepted>>
  BY <1>0, <1>1, Still DEF InHand
<1>2. CASE messageQueue' = Append(messageQueue, MessageOf(c)) /\ accepted' = accepted + 1
  <2>1. MessageOf(c) \in Messages /\ MessageOf(c).n = accepted + 1
    <3>1. job[c] \in Jobs
      BY DEF TypeInv, TypeOK
    <3>2. job[c].kind \in {"data", "response", "sync", "async"}
          /\ job[c].req \in Requests \cup {NoRequest}
      BY <3>1 DEF Jobs
    <3> QED BY <1>0, <3>2 DEF MessageOf, Messages
  <2> DEFINE t == <<accepted + 1>>
             m == MessageOf(c)
  <2>2. Numbers(messageQueue)' = n \o t
    <3> HIDE DEF m
    <3>1. Numbers(Append(messageQueue, m)) = n \o <<m.n>>
      BY <1>0, <2>1, Pushing DEF m
    <3> QED BY <1>2, <2>1, <3>1 DEF m
  <2>3. Pipeline' = h \o (n \o t)
    <3>1. Pipeline' = (delivered' \o InHand(worker, current)') \o Numbers(messageQueue)'
      BY DEF Pipeline, Held, InHand, Numbers
    <3>2. (delivered' \o InHand(worker, current)') = h
      BY <1>0 DEF InHand
    <3> QED BY <2>2, <3>1, <3>2
  <2>4. t \in Seq(Nat)
    BY <1>0
  <2> HIDE DEF h, n, t
  <2>5. Pipeline' = Pipeline \o t
    <3>1. (h \o n) \o t = h \o (n \o t)
      <4>1. h \in Seq(Nat) /\ n \in Seq(Nat)
        BY <1>0
      <4> QED BY <2>4, <4>1, Regroup, ZenonT(30)
    <3> QED BY <1>0, <2>3, <3>1
  <2> DEFINE p == Pipeline
  <2>6. Once(p, accepted, dropped) /\ dropped \subseteq 1 .. accepted
    BY Names DEF OrderInv
  <2> HIDE DEF p
  <2>7. p \in Seq(Nat)
    BY <1>0 DEF p
  <2>8. Once(p \o t, accepted + 1, dropped)
    BY <1>0, <2>6, <2>7, OnceAppend DEF t
  <2>9. Once(p \o t, accepted + 1, dropped) => EachOnceInOrder'
    <3> DEFINE r == p \o t
    <3>1. Pipeline' = r
      BY <2>5 DEF p
    <3> HIDE DEF r
    <3> QED BY <1>0, <1>2, <3>1 DEF EachOnceInOrder, Once, r
  <2> QED BY <1>0, <1>2, <2>6, <2>8, <2>9 DEF OrderInv
<1> QED BY <1>1, <1>2 DEF Push

\* clearQueue() cuts the end of the pipeline and counts it as dropped.
LEMMA ClearOrder ==
  ASSUME TypeInv, OrderInv, NEW c \in Clients, ClearQueue(c)
  PROVE  OrderInv'
<1> USE DEF ClientUnchanged, settings, call
<1> DEFINE h == delivered \o InHand(worker, current)
           n == Numbers(messageQueue)
           cut == {n[i] : i \in 1 .. Len(n)}
<1>0. /\ UNCHANGED <<worker, current, delivered, accepted>>
      /\ h \in Seq(Nat) /\ n \in Seq(Nat) /\ Pipeline = h \o n
      /\ messageQueue \in Seq(Messages) /\ accepted \in Nat /\ messageQueue' = <<>>
  BY PipelineType, Names DEF ClearQueue
<1>1. dropped' = dropped \cup cut
  BY <1>0, NumbersType DEF ClearQueue, Numbers
<1>2. Once(h \o n, accepted, dropped) /\ dropped \subseteq 1 .. accepted
  BY <1>0, Names DEF OrderInv
<1>3. Pipeline' = h
  <2>1. Pipeline' = (delivered' \o InHand(worker, current)') \o Numbers(messageQueue)'
    BY DEF Pipeline, Held, InHand, Numbers
  <2>2. (delivered' \o InHand(worker, current)') = h
    BY <1>0 DEF InHand
  <2>3. Numbers(messageQueue)' = <<>>
    BY <1>0, EmptySeq DEF Numbers
  <2> HIDE DEF h
  <2> QED BY <1>0, <2>1, <2>2, <2>3, ConcatEmptySeq
<1>4. cut \subseteq 1 .. accepted
  <2> DEFINE r == h \o n
  <2>1. {r[i] : i \in 1 .. Len(r)} = (1 .. accepted) \ dropped
    BY <1>2 DEF Once
  <2> HIDE DEF h, n
  <2>2. /\ Len(h) \in Nat /\ Len(n) \in Nat /\ Len(r) = Len(h) + Len(n)
        /\ \A j \in 1 .. Len(n) : r[Len(h) + j] = n[j]
    BY <1>0, Concat
  <2> HIDE DEF r
  <2>3. ASSUME NEW j \in 1 .. Len(n) PROVE n[j] \in 1 .. accepted
    <3>1. Len(h) + j \in 1 .. Len(r)
      BY <2>2
    <3> QED BY <2>1, <2>2, <3>1
  <2> QED BY <2>3
<1> HIDE DEF h, n
<1>5. Once(h, accepted, dropped \cup cut)
  BY <1>0, <1>2, OnceCut
<1>6. EachOnceInOrder'
  BY <1>0, <1>1, <1>3, <1>5 DEF EachOnceInOrder, Once
<1> QED BY <1>0, <1>1, <1>2, <1>4, <1>6 DEF OrderInv

\* The worker moves a message from the queue into its hand and from there to the peer.
LEMMA WorkerOrder ==
  ASSUME TypeInv, OrderInv, WorkerStep
  PROVE  OrderInv'
<1> USE DEF WorkerUnchanged, settings, call
<1> DEFINE n == Numbers(messageQueue)
<1>0. /\ UNCHANGED <<accepted, dropped>>
      /\ delivered \in Seq(Nat) /\ n \in Seq(Nat)
      /\ messageQueue \in Seq(Messages) /\ current \in Messages
      /\ Pipeline = (delivered \o InHand(worker, current)) \o n
      /\ Pipeline' = (delivered' \o InHand(worker, current)') \o Numbers(messageQueue)'
  <2>1. UNCHANGED <<accepted, dropped>>
    BY DEF WorkerStep, WorkerLoop, Drain, Transmit, Broadcast
  <2>2. Pipeline' = (delivered' \o InHand(worker, current)') \o Numbers(messageQueue)'
    BY DEF Pipeline, Held, InHand, Numbers
  <2> QED BY <2>1, <2>2, PipelineType, Names
<1>1. CASE WorkerLoop
  BY <1>0, <1>1, Still DEF WorkerLoop, InHand
<1>2. CASE Broadcast
  BY <1>0, <1>2, Still DEF Broadcast, InHand
<1>3. CASE Drain /\ messageQueue = <<>>
  BY <1>0, <1>3, Still DEF Drain, InHand
<1>4. CASE Drain /\ messageQueue # <<>>
  <2>1. /\ InHand(worker, current) = <<>> /\ InHand(worker, current)' = <<Head(messageQueue).n>>
        /\ messageQueue' = Tail(messageQueue) /\ delivered' = delivered
    BY <1>4 DEF Drain, InHand
  <2> DEFINE s == <<Head(messageQueue).n>>
             t == Numbers(Tail(messageQueue))
  <2>2. s \in Seq(Nat) /\ t \in Seq(Nat)
    <3>1. Head(messageQueue) \in Messages /\ Tail(messageQueue) \in Seq(Messages)
      BY <1>0, <1>4, HeadTailProperties
    <3>2. Head(messageQueue).n \in Nat
      BY <3>1 DEF Messages
    <3>3. t \in Seq(Nat)
      BY <3>1, NumbersType
    <3> QED BY <3>2, <3>3
  <2>3. s \o t = n
    BY <1>0, <1>4, Moving
  <2>4. delivered \o <<>> = delivered
    BY <1>0, ConcatEmptySeq
  <2>5. Pipeline = delivered \o n /\ Pipeline' = (delivered \o s) \o t
    BY <1>0, <2>1, <2>4
  <2> HIDE DEF s, t, n
  <2>6. (delivered \o s) \o t = delivered \o (s \o t)
    BY <1>0, <2>2, Regroup
  <2>7. Pipeline' = Pipeline
    BY <2>3, <2>5, <2>6
  <2> QED BY <1>0, <2>7, SamePlaces
<1>5. CASE Transmit
  <2> DEFINE s == <<current.n>>
  <2>1. /\ InHand(worker, current) = s /\ InHand(worker, current)' = <<>>
        /\ messageQueue' = messageQueue /\ delivered' = Append(delivered, current.n)
    BY <1>5 DEF Transmit, InHand
  <2>2. current.n \in Nat
    BY <1>0 DEF Messages
  <2>3. delivered' \in Seq(Nat) /\ delivered' = delivered \o s
    BY <1>0, <2>1, <2>2, AppendProperties, AppendIsConcat
  <2>4. delivered' \o <<>> = delivered'
    BY <2>3, ConcatEmptySeq
  <2>5. Numbers(messageQueue)' = n
    BY <2>1 DEF Numbers
  <2> HIDE DEF s, n
  <2>6. Pipeline' = Pipeline
    BY <1>0, <2>1, <2>3, <2>4, <2>5
  <2> QED BY <1>0, <2>6, SamePlaces
<1> QED BY <1>1, <1>2, <1>3, <1>4, <1>5 DEF WorkerStep, Drain

\* Every step keeps the order.
LEMMA OrderStep == IInv /\ [Next]_vars => OrderInv'
<1> SUFFICES ASSUME TypeInv, OrderInv, [Next]_vars PROVE OrderInv'
  BY DEF IInv
<1> USE DEF ClientUnchanged, TimerUnchanged, OwnerUnchanged, settings, call, queue
<1>1. ASSUME NEW c \in Clients, ClientCall(c) \/ ClientStep(c) PROVE OrderInv'
  <2>1. CASE Push(c)
    BY <2>1, PushOrder
  <2>2. CASE ClearQueue(c)
    BY <2>2, ClearOrder
  <2>3. CASE ~ Push(c) /\ ~ ClearQueue(c)
    <3>1. UNCHANGED <<accepted, dropped, delivered, messageQueue, worker, current>>
      BY <1>1, <2>3 DEF ClientCall, ClientStep, Send, SendRequest, SendAsyncRequest, Register,
         TestQueueing, Wait, Return, Unregister, Forget, SetQueueing, RegisterReplier
    <3> QED BY <3>1, Still DEF InHand
  <2> QED BY <2>1, <2>2, <2>3
<1>2. CASE WorkerStep
  BY <1>2, WorkerOrder
<1>3. CASE TimerStep \/ (\E r \in Requests : Expire(r)) \/ Stop \/ Join \/ UNCHANGED vars
  <2>1. UNCHANGED <<accepted, dropped, delivered, messageQueue, worker, current>>
    BY <1>3 DEF TimerStep, TimerLoop, TimerLock, TimerUnlock, TimerErase, Expire, Stop, Join, vars
  <2> QED BY <2>1, Still DEF InHand
<1>4. CASE Start
  <2>1. UNCHANGED <<accepted, dropped, delivered, messageQueue>>
        /\ InHand(worker, current)' = InHand(worker, current)
    BY <1>4 DEF Start, TypeInv, Threads, InHand
  <2> QED BY <2>1, Still
<1> QED BY <1>1, <1>2, <1>3, <1>4 DEF Next

\* The invariant holds of every behaviour.
LEMMA Invariance == Spec => []IInv
<1>1. IInv /\ [Next]_vars => IInv'
  BY TypeStep, OrderStep DEF IInv
<1> QED BY <1>1, InitInv, PTL DEF Spec

-----------------------------------------------------------------------------
(* The channel.                                                            *)

\* What is neither dropped nor at the front of the pipeline is the rest of it, and
\* the rest is in order.
LEMMA Splits ==
  ASSUME NEW s \in Seq(Nat), NEW t \in Seq(Nat), NEW a \in Nat, NEW d, Once(s \o t, a, d)
  PROVE  /\ {n \in 1 .. a : n \notin d /\ \A i \in 1 .. Len(s) : s[i] # n}
                = {t[i] : i \in 1 .. Len(t)}
         /\ \A i, j \in 1 .. Len(t) : i < j => t[i] < t[j]
<1> DEFINE r == s \o t
<1>1. /\ Len(s) \in Nat /\ Len(t) \in Nat /\ Len(r) = Len(s) + Len(t)
      /\ \A i \in 1 .. Len(s) : r[i] = s[i]
      /\ \A i \in 1 .. Len(t) : r[Len(s) + i] = t[i]
  BY Concat
<1>2. \A i, j \in 1 .. Len(r) : i < j => r[i] < r[j]
  BY DEF Once
<1>3. {r[i] : i \in 1 .. Len(r)} = (1 .. a) \ d
  BY DEF Once
<1> HIDE DEF r
<1>4. ASSUME NEW i \in 1 .. Len(t), NEW j \in 1 .. Len(t), i < j PROVE t[i] < t[j]
  <2>1. /\ Len(s) + i \in 1 .. Len(r) /\ Len(s) + j \in 1 .. Len(r)
        /\ Len(s) + i < Len(s) + j
    BY <1>1, <1>4
  <2> QED BY <1>1, <1>2, <2>1
<1>5. ASSUME NEW i \in 1 .. Len(t)
      PROVE  t[i] \in (1 .. a) \ d /\ \A j \in 1 .. Len(s) : s[j] # t[i]
  <2>1. Len(s) + i \in 1 .. Len(r) /\ r[Len(s) + i] = t[i]
    BY <1>1
  <2>2. t[i] \in (1 .. a) \ d
    BY <1>3, <2>1
  <2>3. ASSUME NEW j \in 1 .. Len(s) PROVE s[j] # t[i]
    <3>1. j \in 1 .. Len(r) /\ j < Len(s) + i /\ r[j] = s[j]
      BY <1>1
    <3>2. s[j] < t[i] /\ s[j] \in Nat /\ t[i] \in Nat
      BY <1>2, <2>1, <2>2, <3>1, ElementOfSeq
    <3> QED BY <3>2
  <2> QED BY <2>2, <2>3
<1>6. ASSUME NEW n \in (1 .. a) \ d, \A i \in 1 .. Len(s) : s[i] # n
      PROVE  \E i \in 1 .. Len(t) : t[i] = n
  <2>1. PICK k \in 1 .. Len(r) : r[k] = n
    BY <1>3
  <2>2. ~ (k <= Len(s))
    <3> SUFFICES ASSUME k <= Len(s) PROVE FALSE
      OBVIOUS
    <3>1. k \in 1 .. Len(s)
      BY <1>1
    <3>2. s[k] = n
      BY <1>1, <2>1, <3>1
    <3> QED BY <1>6, <3>1, <3>2
  <2>3. k - Len(s) \in 1 .. Len(t) /\ Len(s) + (k - Len(s)) = k
    BY <1>1, <2>2
  <2> QED BY <1>1, <2>1, <2>3
<1>7. {n \in 1 .. a : n \notin d /\ \A i \in 1 .. Len(s) : s[i] # n}
          = {t[i] : i \in 1 .. Len(t)}
  <2> DEFINE A == {n \in 1 .. a : n \notin d /\ \A i \in 1 .. Len(s) : s[i] # n}
             B == {t[i] : i \in 1 .. Len(t)}
  <2>1. ASSUME NEW x \in A PROVE x \in B
    <3>1. x \in (1 .. a) \ d /\ \A i \in 1 .. Len(s) : s[i] # x
      OBVIOUS
    <3>2. PICK i \in 1 .. Len(t) : t[i] = x
      BY <1>6, <3>1
    <3> QED BY <3>2
  <2>2. ASSUME NEW x \in B PROVE x \in A
    <3>1. PICK i \in 1 .. Len(t) : t[i] = x
      OBVIOUS
    <3> QED BY <1>5, <3>1
  <2> QED BY <2>1, <2>2
<1> QED BY <1>4, <1>7

\* What waits in the channel is what the worker holds and what is queued.
Rest == InHand(worker, current) \o Numbers(messageQueue)

LEMMA WaitingIs ==
  ASSUME IInv
  PROVE  /\ Channel!Waiting = {Rest[i] : i \in 1 .. Len(Rest)}
         /\ \A i, j \in 1 .. Len(Rest) : i < j => Rest[i] < Rest[j]
         /\ Rest \in Seq(Nat)
<1> DEFINE h == InHand(worker, current)
           q == Numbers(messageQueue)
           r == h \o q
<1>1. /\ delivered \in Seq(Nat) /\ h \in Seq(Nat) /\ q \in Seq(Nat) /\ accepted \in Nat
      /\ Pipeline = (delivered \o h) \o q /\ Once(Pipeline, accepted, dropped)
  BY PipelineType, Names DEF IInv, OrderInv
<1>2. Rest = r
  BY DEF Rest
<1> HIDE DEF h, q
<1>3. (delivered \o h) \o q = delivered \o r
  BY <1>1, Regroup
<1>4. r \in Seq(Nat)
  BY <1>1, Concat
<1> HIDE DEF r
<1>5. Once(delivered \o r, accepted, dropped)
  BY <1>1, <1>3
<1>6. /\ {n \in 1 .. accepted : n \notin dropped /\ \A i \in 1 .. Len(delivered) : delivered[i] # n}
             = {r[i] : i \in 1 .. Len(r)}
      /\ \A i, j \in 1 .. Len(r) : i < j => r[i] < r[j]
  BY <1>1, <1>4, <1>5, Splits
<1> QED BY <1>2, <1>4, <1>6 DEF Channel!Waiting

\* The worker transmits the oldest message that waits.
LEMMA TransmitDelivers ==
  ASSUME IInv, Transmit
  PROVE  \E n \in Channel!Waiting : Channel!Deliver(n)
<1> DEFINE h == InHand(worker, current)
           q == Numbers(messageQueue)
           n == current.n
<1>1. h = <<n>> /\ n \in Nat /\ h \in Seq(Nat) /\ q \in Seq(Nat)
  BY PipelineType DEF Transmit, InHand, IInv, Messages
<1>2. Len(h) = 1 /\ h[1] = n
  BY <1>1
<1>3. Rest = h \o q
  BY DEF Rest
<1> HIDE DEF h, q
<1>4. Len(Rest) \in Nat /\ 1 \in 1 .. Len(Rest) /\ Rest[1] = n
  BY <1>1, <1>2, <1>3, Concat
<1>5. \A i \in 1 .. Len(Rest) : n <= Rest[i]
  <2> SUFFICES ASSUME NEW i \in 1 .. Len(Rest) PROVE n <= Rest[i]
    OBVIOUS
  <2>1. Rest[i] \in Nat
    BY WaitingIs, ElementOfSeq
  <2>2. CASE i = 1
    BY <1>1, <1>4, <2>2
  <2>3. CASE i # 1
    <3>1. 1 < i
      BY <1>4, <2>3
    <3> QED BY <1>1, <1>4, <2>1, <3>1, WaitingIs
  <2> QED BY <2>2, <2>3
<1>6. n \in Channel!Waiting /\ \A m \in Channel!Waiting : n <= m
  BY <1>4, <1>5, WaitingIs
<1>7. delivered' = Append(delivered, n) /\ UNCHANGED <<accepted, dropped>>
  BY DEF Transmit, WorkerUnchanged
<1> QED BY <1>6, <1>7 DEF Channel!Deliver

\* clearQueue() drops what waits but for the message the worker holds.
LEMMA ClearDrops ==
  ASSUME IInv, NEW c \in Clients, ClearQueue(c)
  PROVE  \E n \in Channel!Waiting : Channel!Drop(n)
<1> DEFINE h == InHand(worker, current)
           q == Numbers(messageQueue)
           n == q[1]
<1>1. /\ h \in Seq(Nat) /\ q \in Seq(Nat) /\ Len(q) = Len(messageQueue)
      /\ Len(q) \in Nat /\ Len(q) # 0
  <2>1. messageQueue \in Seq(Messages) /\ h \in Seq(Nat) /\ messageQueue # <<>>
    BY PipelineType DEF IInv, ClearQueue
  <2> QED BY <2>1, NumbersType, EmptySeq, LenProperties
<1>2. dropped' = dropped \cup {q[i] : i \in 1 .. Len(q)} /\ UNCHANGED <<accepted, delivered>>
  BY <1>1 DEF ClearQueue, ClientUnchanged, Numbers
<1>3. Rest = h \o q
  BY DEF Rest
<1> HIDE DEF h, q
<1>4. /\ Len(h) \in Nat /\ Len(Rest) = Len(h) + Len(q)
      /\ \A i \in 1 .. Len(q) : Len(h) + i \in 1 .. Len(Rest) /\ Rest[Len(h) + i] = q[i]
      /\ \A i \in 1 .. Len(Rest) : Rest[i] \in Nat
  <2>1. /\ Len(h) \in Nat /\ Len(Rest) = Len(h) + Len(q)
        /\ \A i \in 1 .. Len(q) : Rest[Len(h) + i] = q[i]
    BY <1>1, <1>3, Concat
  <2>2. \A i \in 1 .. Len(q) : Len(h) + i \in 1 .. Len(Rest)
    BY <1>1, <2>1
  <2>3. Rest \in Seq(Nat)
    BY WaitingIs
  <2>4. \A i \in 1 .. Len(Rest) : Rest[i] \in Nat
    BY <2>3, ElementOfSeq
  <2> QED BY <2>1, <2>2, <2>4
<1>5. 1 \in 1 .. Len(q) /\ n = Rest[Len(h) + 1] /\ Len(h) + 1 \in 1 .. Len(Rest)
  BY <1>1, <1>4
<1>6. ASSUME NEW i \in 1 .. Len(q) PROVE q[i] \in Channel!Waiting /\ n <= q[i]
  <2>1. CASE i = 1
    <3>1. q[i] = n /\ n \in Nat
      BY <1>4, <1>5, <2>1
    <3>2. n \in Channel!Waiting
      BY <1>5, WaitingIs
    <3> QED BY <3>1, <3>2
  <2>2. CASE i # 1
    <3>1. Len(h) + 1 < Len(h) + i /\ Len(h) + i \in 1 .. Len(Rest) /\ Rest[Len(h) + i] = q[i]
      BY <1>1, <1>4, <2>2
    <3>2. n < q[i] /\ q[i] \in Channel!Waiting /\ q[i] \in Nat /\ n \in Nat
      BY <1>4, <1>5, <3>1, WaitingIs
    <3> QED BY <3>2
  <2> QED BY <2>1, <2>2
<1>7. ASSUME NEW m \in Channel!Waiting, n <= m PROVE \E i \in 1 .. Len(q) : q[i] = m
  <2>1. PICK k \in 1 .. Len(Rest) : Rest[k] = m
    BY WaitingIs
  <2>2. ~ (k <= Len(h))
    <3> SUFFICES ASSUME k <= Len(h) PROVE FALSE
      OBVIOUS
    <3>1. k < Len(h) + 1
      BY <1>4
    <3>2. m < n /\ m \in Nat /\ n \in Nat
      BY <1>4, <1>5, <2>1, <3>1, WaitingIs
    <3> QED BY <1>7, <3>2
  <2>3. k - Len(h) \in 1 .. Len(q) /\ Len(h) + (k - Len(h)) = k
    BY <1>1, <1>4, <2>2
  <2> QED BY <1>4, <2>1, <2>3
<1>8. {q[i] : i \in 1 .. Len(q)} = {m \in Channel!Waiting : n <= m}
  BY <1>6, <1>7
<1>9. n \in Channel!Waiting
  BY <1>5, <1>6
<1> QED BY <1>2, <1>8, <1>9 DEF Channel!Drop

\* A step that moves messages at neither end of the channel changes nothing there.
LEMMA ChannelStep == IInv /\ [Next]_vars => [Channel!Next]_(Channel!channelVars)
<1> SUFFICES ASSUME IInv, [Next]_vars PROVE [Channel!Next]_(Channel!channelVars)
  OBVIOUS
<1> USE DEF Channel!channelVars
<1>1. ASSUME NEW c \in Clients, Push(c) PROVE Channel!Accept \/ UNCHANGED Channel!channelVars
  BY <1>1 DEF Push, ClientUnchanged, Channel!Accept
<1>2. ASSUME NEW c \in Clients, ClearQueue(c) PROVE Channel!Next
  BY <1>2, ClearDrops DEF Channel!Next
<1>3. ASSUME NEW c \in Clients,
             \/ Send(c) \/ SetQueueing(c) \/ RegisterReplier(c)
             \/ \E r \in Requests : SendRequest(c, r) \/ SendAsyncRequest(c, r)
             \/ Register(c) \/ TestQueueing(c) \/ Wait(c) \/ Return(c)
             \/ Unregister(c) \/ Forget(c)
      PROVE  UNCHANGED Channel!channelVars
  BY <1>3 DEF ClientUnchanged, queue, Send, SetQueueing, RegisterReplier, SendRequest,
     SendAsyncRequest, Register, TestQueueing, Wait, Return, Unregister, Forget
<1>4. CASE Transmit
  BY <1>4, TransmitDelivers DEF Channel!Next
<1>5. CASE WorkerLoop \/ Drain \/ Broadcast
  BY <1>5 DEF WorkerLoop, Drain, Broadcast, WorkerUnchanged
<1>6. CASE TimerStep \/ (\E r \in Requests : Expire(r)) \/ Stop \/ Join \/ Start \/ UNCHANGED vars
  BY <1>6 DEF TimerStep, TimerLoop, TimerLock, TimerUnlock, TimerErase, Expire, Stop, Join,
     Start, TimerUnchanged, OwnerUnchanged, queue, vars
<1> QED BY <1>1, <1>2, <1>3, <1>4, <1>5, <1>6
  DEF Next, ClientCall, ClientStep, WorkerStep, Channel!Next

-----------------------------------------------------------------------------
(* The theorems.                                                           *)

\* The queue never exceeds its bound, every number accepted was begun, and the
\* threads, clients and promises stay in the states the code knows.
THEOREM TypeCorrect == Spec => []TypeOK
<1>1. IInv => TypeOK
  BY DEF IInv, TypeInv
<1> QED BY <1>1, Invariance, PTL

\* The promise of the queue of IpcManager: each message sendMessage() accepted is
\* transmitted, held, queued or thrown away by clearQueue(), exactly once, and
\* no message overtakes another, across every stop() and start().
THEOREM EachOnce == Spec => []EachOnceInOrder
<1>1. IInv => EachOnceInOrder
  BY DEF IInv, OrderInv
<1> QED BY <1>1, Invariance, PTL

\* The manager is a channel for the messages it has queued: they are delivered one by
\* one, the oldest first, and clearQueue() drops all from some message on, never one
\* the worker has taken.
THEOREM Refinement == Spec => ImplementsChannel
<1>1. Init => Channel!Init
  BY DEF Init, Channel!Init
<1> QED BY <1>1, ChannelStep, Invariance, PTL DEF Spec, ImplementsChannel, Channel!Spec
=============================================================================
