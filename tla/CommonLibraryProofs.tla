-------------------------- MODULE CommonLibraryProofs --------------------------
(***************************************************************************)
(* The circular buffer: for every element type, every capacity and every   *)
(* vector, the positions of the ring always agree, and the ring implements *)
(* the bounded queue.  All positions stay below twice the capacity, so     *)
(* that % is one subtraction at most; the rest is linear arithmetic.       *)
(*                                                                         *)
(* What is kept as JSON: for every configuration file, event, reading and  *)
(* device record, RecordsSurvive and LoadBringsBack of StoredRecords.      *)
(* toJson() and fromJson() are undone by each other but for the time,      *)
(* which is rounded once; each part has an invariant of its own that says  *)
(* what has become of what was there first.                                *)
(*                                                                         *)
(* The configuration schema: for every rule, document and default,         *)
(* SchemaHolds.  Its invariant is the type; the rest is about one document *)
(* and one list of rules, and goes rule by rule along the recursive        *)
(* function that is the loop of applyDefaults().                           *)
(*                                                                         *)
(* What the drivers make of their chips' bytes: for every three bytes,     *)
(* setting and sample rate, BytesDecoded of SensorDecoding.                *)
(***************************************************************************)
EXTENDS CircularBuffer, StoredRecords, Integers, FiniteSets, SequenceTheorems,
        FiniteSetTheorems, WellFoundedInduction, TLAPS

-----------------------------------------------------------------------------
(* The circular buffer.                                                    *)

\* What holds of the ring between two calls.
Ring ==
    /\ capacity \in Nat \ {0}
    /\ buffer \in [0 .. capacity - 1 -> Elem \cup {Blank}]
    /\ head \in 0 .. capacity - 1
    /\ tail \in 0 .. capacity - 1
    /\ size \in 0 .. capacity
    /\ PositionsAgree
    /\ \A i \in 0 .. size - 1 : buffer[Pos(i)] \in Elem

\* The elements in the ring, oldest first: the refinement mapping.
Contents == [i \in 1 .. size |-> buffer[Pos(i - 1)]]

\* Where the i-th slot from the front is.
LEMMA PosIs ==
  ASSUME Ring, NEW i \in 0 .. capacity
  PROVE  /\ Pos(i) = IF head + i < capacity THEN head + i ELSE head + i - capacity
         /\ Pos(i) \in 0 .. capacity - 1
<1>1. capacity \in Nat \ {0} /\ head \in 0 .. capacity - 1
  BY DEF Ring
<1>2. head + i \in Nat /\ head + i < 2 * capacity
  BY <1>1
<1>3. (head + i) % capacity = IF head + i < capacity THEN head + i
                                                 ELSE head + i - capacity
  <2>1. CASE head + i < capacity
    BY <1>1, <1>2, <2>1
  <2>2. CASE capacity <= head + i
    BY <1>1, <1>2, <2>2
  <2>3. QED
    BY <1>1, <1>2, <2>1, <2>2
<1>4. QED
  BY <1>1, <1>2, <1>3 DEF Pos

\* Different slots are different.
LEMMA PosDiffer ==
  ASSUME Ring, NEW i \in 0 .. capacity - 1, NEW j \in 0 .. capacity - 1, i # j
  PROVE  Pos(i) # Pos(j)
<1>1. /\ Pos(i) = IF head + i < capacity THEN head + i ELSE head + i - capacity
      /\ Pos(j) = IF head + j < capacity THEN head + j ELSE head + j - capacity
  BY PosIs DEF Ring
<1>2. QED
  BY <1>1 DEF Ring

\* The i-th slot behind the write position is a slot from the front.
LEMMA SlotIs ==
  ASSUME Ring, NEW i \in Nat, size + i <= capacity
  PROVE  (tail + i) % capacity = Pos(size + i)
<1>1. /\ size + i \in 0 .. capacity /\ size \in 0 .. capacity
      /\ head \in 0 .. capacity - 1 /\ capacity \in Nat \ {0}
  BY DEF Ring
<1>0. tail = Pos(size)
  BY DEF Ring, PositionsAgree
<1>2. /\ tail = IF head + size < capacity THEN head + size ELSE head + size - capacity
      /\ Pos(size + i) = IF head + (size + i) < capacity THEN head + (size + i)
                                          ELSE head + (size + i) - capacity
  BY <1>0, <1>1, PosIs
<1>3. tail + i \in Nat /\ tail + i < 2 * capacity
  BY <1>1, <1>2
<1>4. (tail + i) % capacity = IF tail + i < capacity THEN tail + i
                                                 ELSE tail + i - capacity
  <2>1. CASE tail + i < capacity
    BY <1>1, <1>3, <2>1
  <2>2. CASE capacity <= tail + i
    BY <1>1, <1>2, <1>3, <2>2
  <2>3. QED
    BY <1>1, <1>2, <1>3, <2>1, <2>2
<1>5. QED
  BY <1>1, <1>2, <1>4

\* The contents are a sequence of elements.
LEMMA ContentsSeq == Ring => Contents \in Seq(Elem) /\ Len(Contents) = size
<1> SUFFICES ASSUME Ring PROVE Contents \in Seq(Elem) /\ Len(Contents) = size
  OBVIOUS
<1>1. \A i \in 1 .. size : buffer[Pos(i - 1)] \in Elem
  BY DEF Ring
<1>2. Contents \in [1 .. size -> Elem] /\ size \in Nat
  BY <1>1 DEF Contents, Ring
<1>3. QED
  BY <1>2

\* The same after a step.
LEMMA ContentsSeqNext == Ring' => (Contents \in Seq(Elem) /\ Len(Contents) = size)'
BY ContentsSeq, PTL

-----------------------------------------------------------------------------
\* Elements written behind the newest one: pushBulk(), and push() for n = 1.
LEMMA Grow ==
  ASSUME Ring, NEW es \in Seq(Elem), NEW n \in 0 .. Len(es), size + n <= capacity,
         buffer' \in [0 .. capacity - 1 -> Elem \cup {Blank}],
         \A i \in 0 .. size - 1 : buffer'[Pos(i)] = buffer[Pos(i)],
         \A i \in 1 .. n : buffer'[Pos(size + (i - 1))] = es[i],
         tail' = Pos(size + n), size' = size + n, UNCHANGED <<capacity, head>>
  PROVE  Ring' /\ Contents' = Contents \o SubSeq(es, 1, n)
<1>1. \A i \in Nat : Pos(i)' = Pos(i)
  BY DEF Pos
<1>2. /\ capacity \in Nat \ {0} /\ head \in 0 .. capacity - 1
      /\ size \in 0 .. capacity /\ n \in Nat
  BY DEF Ring
<1>3. size + n \in 0 .. capacity
  BY <1>2
<1>4. tail' \in 0 .. capacity - 1
  BY <1>3, PosIs
<1>5. PositionsAgree'
  BY <1>1, <1>3 DEF PositionsAgree
<1>6. \A i \in 1 .. n : es[i] \in Elem
  OBVIOUS
<1>7. \A i \in 0 .. size' - 1 : (buffer[Pos(i)])' \in Elem
  <2> SUFFICES ASSUME NEW i \in 0 .. size' - 1 PROVE buffer'[Pos(i)'] \in Elem
    OBVIOUS
  <2>1. CASE i < size
    BY <1>1, <1>2, <2>1 DEF Ring
  <2>2. CASE size <= i
    <3> DEFINE j == i - size + 1
    <3>1. j \in 1 .. n /\ size + (j - 1) = i /\ i \in Nat
      BY <1>2, <2>2
    <3> HIDE DEF j
    <3>2. buffer'[Pos(size + (j - 1))] = es[j]
      BY <3>1
    <3>3. es[j] \in Elem /\ Pos(i)' = Pos(i)
      BY <1>1, <1>6, <3>1
    <3>4. QED
      BY <3>1, <3>2, <3>3
  <2>3. QED
    BY <1>2, <2>1, <2>2
<1>8. Ring'
  BY <1>2, <1>3, <1>4, <1>5, <1>7 DEF Ring
<1>9. Contents' = Contents \o SubSeq(es, 1, n)
  <2>1. Contents \in Seq(Elem) /\ Len(Contents) = size
    BY ContentsSeq
  <2>2. Contents' \in Seq(Elem) /\ Len(Contents') = size + n
    BY <1>8, ContentsSeqNext
  <2> DEFINE added == SubSeq(es, 1, n)
  <2>3. added \in Seq(Elem) /\ Len(added) = n /\ \A i \in 1 .. n : added[i] = es[i]
    BY <1>2
  <2> HIDE DEF added
  <2>4. ASSUME NEW i \in 1 .. size + n PROVE Contents'[i] = (Contents \o added)[i]
    <3>1. Contents'[i] = buffer'[Pos(i - 1)]
      BY <1>1, <1>2 DEF Contents
    <3>2. CASE i <= size
      <4>1. Contents[i] = buffer[Pos(i - 1)] /\ i - 1 \in 0 .. size - 1
        BY <1>2, <3>2 DEF Contents
      <4>2. (Contents \o added)[i] = Contents[i]
        BY <1>2, <2>1, <2>3, <3>2, ConcatProperties
      <4>3. QED
        BY <1>2, <3>1, <4>1, <4>2
    <3>3. CASE size < i
      <4>1. i - size \in 1 .. n /\ size + ((i - size) - 1) = i - 1
        BY <1>2, <3>3
      <4>2. Contents'[i] = es[i - size]
        BY <3>1, <4>1
      <4>3. (Contents \o added)[i] = added[i - size]
        <5>1. i \in 1 .. Len(Contents) + Len(added) /\ ~ (i <= Len(Contents))
          BY <1>2, <2>1, <2>3, <3>3
        <5>2. (Contents \o added)[i] = added[i - Len(Contents)]
          <6>1. \A j \in 1 .. Len(Contents) + Len(added) : (Contents \o added)[j] =
                   IF j <= Len(Contents) THEN Contents[j] ELSE added[j - Len(Contents)]
            BY <2>1, <2>3, ConcatProperties
          <6> QED BY <5>1, <6>1
        <5> QED BY <2>1, <5>2
      <4>4. QED
        BY <2>3, <4>1, <4>2, <4>3
    <3>4. i <= size \/ size < i
      BY <1>2
    <3>5. QED
      BY <3>2, <3>3, <3>4
  <2>5. Contents \o added \in Seq(Elem) /\ Len(Contents \o added) = size + n
    BY <2>1, <2>3, ConcatProperties
  <2>6. Contents' = Contents \o added
    BY <2>2, <2>4, <2>5, SeqEqual
  <2>7. QED
    BY <2>6 DEF added
<1>10. QED
  BY <1>8, <1>9

\* Elements taken from the front: popBulk(), and pop() for n = 1.
LEMMA Shrink ==
  ASSUME Ring, NEW n \in 0 .. size,
         head' = Pos(n), size' = size - n, UNCHANGED <<buffer, capacity, tail>>
  PROVE  /\ Ring'
         /\ Contents' = SubSeq(Contents, n + 1, size)
         /\ [i \in 1 .. n |-> buffer[Pos(i - 1)]] = SubSeq(Contents, 1, n)
<1>1. /\ capacity \in Nat \ {0} /\ head \in 0 .. capacity - 1
      /\ size \in 0 .. capacity /\ n \in 0 .. capacity
  BY DEF Ring
<1>2. /\ head' = IF head + n < capacity THEN head + n ELSE head + n - capacity
      /\ head' \in 0 .. capacity - 1
  BY <1>1, PosIs
<1>3. ASSUME NEW i \in 0 .. size - n
      PROVE  Pos(i)' = Pos(n + i) /\ (head' + i) % capacity = Pos(n + i)
  <2>1. /\ n + i \in 0 .. capacity /\ head' + i \in Nat
        /\ head' + i < 2 * capacity
    BY <1>1, <1>2
  <2>2. Pos(n + i) = IF head + (n + i) < capacity THEN head + (n + i)
                                            ELSE head + (n + i) - capacity
    BY <2>1, PosIs
  <2>3. (head' + i) % capacity = IF head' + i < capacity THEN head' + i
                                                   ELSE head' + i - capacity
    <3>1. CASE head' + i < capacity
      BY <1>1, <2>1, <3>1
    <3>2. CASE capacity <= head' + i
      BY <1>1, <1>2, <2>1, <3>2
    <3>3. QED
      BY <1>1, <1>2, <2>1, <3>1, <3>2
  <2>4. Pos(i)' = (head' + i) % capacity
    BY DEF Pos
  <2>5. QED
    BY <1>1, <1>2, <2>2, <2>3, <2>4
<1>4. PositionsAgree'
  <2>1. size - n \in 0 .. size - n /\ n + (size - n) = size
    BY <1>1
  <2>2. (head' + (size - n)) % capacity = Pos(size)
    BY <1>3, <2>1
  <2>3. tail' = Pos(size)
    BY DEF Ring, PositionsAgree
  <2>4. QED
    BY <2>2, <2>3 DEF PositionsAgree, Pos
<1>5. \A i \in 0 .. size' - 1 : (buffer[Pos(i)])' \in Elem
  <2> SUFFICES ASSUME NEW i \in 0 .. size' - 1 PROVE buffer'[Pos(i)'] \in Elem
    OBVIOUS
  <2>1. i \in 0 .. size - n /\ n + i \in 0 .. size - 1
    BY <1>1
  <2>2. QED
    BY <1>3, <2>1 DEF Ring
<1>6. Ring'
  BY <1>1, <1>2, <1>4, <1>5 DEF Ring
<1>7. Contents \in Seq(Elem) /\ Len(Contents) = size
  BY ContentsSeq
<1>8. Contents' \in Seq(Elem) /\ Len(Contents') = size - n
  BY <1>6, ContentsSeqNext
<1>9. Contents' = SubSeq(Contents, n + 1, size)
  <2> DEFINE rest == SubSeq(Contents, n + 1, size)
  <2>1. /\ rest \in Seq(Elem) /\ Len(rest) = size - n
        /\ \A i \in 1 .. size - n : rest[i] = Contents[n + i]
    <3>1. n + 1 \in Int /\ size \in Int /\ size - n \in Nat
      BY <1>1
    <3>2. \A i \in n + 1 .. size : Contents[i] \in Elem
      BY <1>1, <1>7
    <3>3. /\ rest \in Seq(Elem)
          /\ Len(rest) = IF n + 1 <= size THEN size - (n + 1) + 1 ELSE 0
          /\ \A i \in 1 .. size - (n + 1) + 1 :
               rest[i] = Contents[(n + 1) + i - 1]
      BY <3>1, <3>2, SubSeqProperties
    <3>4. size - (n + 1) + 1 = size - n
      BY <1>1
    <3>5. \A i \in 1 .. size - n : (n + 1) + i - 1 = n + i
      BY <1>1
    <3>6. (IF n + 1 <= size THEN size - (n + 1) + 1 ELSE 0) = size - n
      BY <1>1
    <3>7. QED
      BY <3>3, <3>4, <3>5, <3>6
  <2> HIDE DEF rest
  <2>2. ASSUME NEW i \in 1 .. size - n PROVE Contents'[i] = rest[i]
    <3>1. /\ i - 1 \in 0 .. size - n /\ n + i \in 1 .. size
          /\ n + (i - 1) = (n + i) - 1 /\ i \in 1 .. size'
      BY <1>1
    <3>2. Contents'[i] = buffer'[Pos(i - 1)']
      BY <3>1 DEF Contents
    <3>3. Contents[n + i] = buffer[Pos((n + i) - 1)]
      BY <3>1 DEF Contents
    <3>4. Pos(i - 1)' = Pos((n + i) - 1)
      BY <1>3, <3>1
    <3>5. QED
      BY <2>1, <3>2, <3>3, <3>4
  <2>3. Contents' = rest
    BY <1>8, <2>1, <2>2, SeqEqual
  <2>4. QED
    BY <2>3 DEF rest
<1>10. [i \in 1 .. n |-> buffer[Pos(i - 1)]] = SubSeq(Contents, 1, n)
  <2> DEFINE taken == [i \in 1 .. n |-> buffer[Pos(i - 1)]]
             front == SubSeq(Contents, 1, n)
  <2>1. /\ front \in Seq(Elem) /\ Len(front) = n
        /\ \A i \in 1 .. n : front[i] = Contents[i]
    BY <1>1, <1>7, SubSeqProperties
  <2>2. \A i \in 1 .. n : Contents[i] = buffer[Pos(i - 1)] /\ Contents[i] \in Elem
    BY <1>1, <1>7 DEF Contents
  <2>3. taken \in Seq(Elem) /\ Len(taken) = n
    BY <1>1, <2>2
  <2>4. \A i \in 1 .. n : taken[i] = front[i]
    BY <1>1, <2>1, <2>2
  <2> HIDE DEF taken, front
  <2>5. taken = front
    BY <2>1, <2>3, <2>4, SeqEqual
  <2>6. QED
    BY <2>5 DEF taken, front
<1>11. QED
  BY <1>6, <1>9, <1>10

\* Elements moved to the front of a larger vector: reserve().
LEMMA Move ==
  ASSUME Ring, NEW n \in Nat, capacity < n, head' = 0, tail' = size, capacity' = n,
         size' = size,
         buffer' = [p \in 0 .. n - 1 |-> IF p < size THEN buffer[Pos(p)] ELSE Blank]
  PROVE  Ring' /\ Contents' = Contents
<1>1. /\ capacity \in Nat \ {0} /\ head \in 0 .. capacity - 1
      /\ size \in 0 .. capacity
      /\ \A i \in 0 .. size - 1 : buffer[Pos(i)] \in Elem
  BY DEF Ring
<1>2. ASSUME NEW i \in 0 .. size PROVE Pos(i)' = i
  <2>1. i \in Nat /\ n \in Nat \ {0} /\ i < n /\ 0 + i = i
    BY <1>1
  <2>2. i % n = i
    BY <2>1
  <2>3. QED
    BY <2>1, <2>2 DEF Pos
<1>3. \A i \in 0 .. size - 1 : buffer'[i] = buffer[Pos(i)]
  BY <1>1
<1>4. PositionsAgree'
  <2>1. (head' + size') % capacity' = size
    BY <1>1
  <2>2. QED
    BY <2>1 DEF PositionsAgree, Pos
<1>5. buffer' \in [0 .. n - 1 -> Elem \cup {Blank}]
  BY <1>1
<1>6. Ring'
  BY <1>1, <1>2, <1>3, <1>4, <1>5 DEF Ring
<1>7. Contents' = Contents
  <2>1. Contents' = [i \in 1 .. size |-> buffer'[Pos(i - 1)']]
    BY DEF Contents
  <2>2. \A i \in 1 .. size : buffer'[Pos(i - 1)'] = buffer[Pos(i - 1)]
    BY <1>1, <1>2, <1>3
  <2>3. QED
    BY <2>1, <2>2 DEF Contents
<1>8. QED
  BY <1>6, <1>7

-----------------------------------------------------------------------------
\* Reading: what peekAt() and toVector() see of the contents.
LEMMA Seen ==
  ASSUME Ring
  PROVE  \A i \in 1 .. size : /\ buffer[Pos(i - 1)] = Contents[i]
                              /\ Contents[i] \in Elem
<1>1. \A i \in 1 .. size : buffer[Pos(i - 1)] = Contents[i]
  BY DEF Contents
<1>2. Contents \in Seq(Elem) /\ Len(Contents) = size
  BY ContentsSeq
<1>3. QED
  BY <1>1, <1>2

\* The loop of pushBulk() writes es[i] i - 1 slots behind tail, each slot once.
LEMMA PushBulkStep ==
  ASSUME Ring, NEW es \in Seq(Elem), PushBulk(es)
  PROVE  LET n == Smaller(Len(es), capacity - size) IN
         Ring' /\ Contents' = Contents \o SubSeq(es, 1, n)
<1> DEFINE n == Smaller(Len(es), capacity - size)
           slot(i) == (tail + i - 1) % capacity
<1>1. /\ capacity \in Nat \ {0} /\ size \in 0 .. capacity
      /\ tail \in 0 .. capacity - 1
      /\ buffer \in [0 .. capacity - 1 -> Elem \cup {Blank}]
  BY DEF Ring
<1>2. n \in 0 .. Len(es) /\ size + n <= capacity
  BY <1>1 DEF Smaller
<1>3. /\ buffer' = [p \in 0 .. capacity - 1 |->
                      IF \E i \in 1 .. n : p = slot(i)
                      THEN es[CHOOSE i \in 1 .. n : p = slot(i)] ELSE buffer[p]]
      /\ tail' = (tail + n) % capacity
      /\ size' = size + n /\ UNCHANGED <<capacity, head>>
  BY DEF PushBulk
<1> HIDE DEF n
<1>4. \A i \in 1 .. n : slot(i) = Pos(size + (i - 1)) /\ slot(i) \in 0 .. capacity - 1
  <2> SUFFICES ASSUME NEW i \in 1 .. n
               PROVE  /\ slot(i) = Pos(size + (i - 1))
                      /\ slot(i) \in 0 .. capacity - 1
    OBVIOUS
  <2>1. /\ i - 1 \in Nat /\ size + (i - 1) <= capacity
        /\ tail + i - 1 = tail + (i - 1) /\ size + (i - 1) \in 0 .. capacity
    BY <1>1, <1>2
  <2>2. QED
    BY <2>1, SlotIs, PosIs
<1>5. tail' = Pos(size + n)
  BY <1>2, <1>3, SlotIs
<1>6. \A i \in 1 .. n : size + (i - 1) \in 0 .. capacity - 1
  BY <1>1, <1>2
<1>7. \A i \in 1 .. n, j \in 1 .. n : slot(i) = slot(j) => i = j
  <2> SUFFICES ASSUME NEW i \in 1 .. n, NEW j \in 1 .. n, i # j
               PROVE  slot(i) # slot(j)
    OBVIOUS
  <2>1. size + (i - 1) # size + (j - 1)
    BY <1>1, <1>2
  <2>2. Pos(size + (i - 1)) # Pos(size + (j - 1))
    BY <1>6, <2>1, PosDiffer
  <2>3. QED
    BY <1>4, <2>2
<1>8. \A i \in 1 .. n : buffer'[slot(i)] = es[i]
  <2> SUFFICES ASSUME NEW i \in 1 .. n PROVE buffer'[slot(i)] = es[i]
    OBVIOUS
  <2>1. (CHOOSE k \in 1 .. n : slot(i) = slot(k)) = i
    BY <1>7
  <2>2. slot(i) \in 0 .. capacity - 1 /\ \E k \in 1 .. n : slot(i) = slot(k)
    BY <1>4
  <2> HIDE DEF slot
  <2>3. QED
    BY <1>3, <2>1, <2>2
<1>9. \A i \in 0 .. size - 1 : buffer'[Pos(i)] = buffer[Pos(i)]
  <2> SUFFICES ASSUME NEW i \in 0 .. size - 1 PROVE buffer'[Pos(i)] = buffer[Pos(i)]
    OBVIOUS
  <2>1. i \in 0 .. capacity - 1 /\ Pos(i) \in 0 .. capacity - 1
    <3>1. i \in 0 .. capacity - 1 /\ i \in 0 .. capacity
      BY <1>1
    <3> QED BY <3>1, PosIs
  <2>2. ASSUME NEW k \in 1 .. n PROVE Pos(i) # slot(k)
    <3>1. i # size + (k - 1)
      BY <1>1, <1>2
    <3>2. QED
      BY <1>4, <1>6, <2>1, <3>1, PosDiffer
  <2> HIDE DEF slot
  <2>3. QED
    BY <1>3, <2>1, <2>2
<1>10. buffer' \in [0 .. capacity - 1 -> Elem \cup {Blank}]
  <2>1. ASSUME NEW p \in 0 .. capacity - 1 PROVE buffer'[p] \in Elem \cup {Blank}
    <3>1. CASE \E i \in 1 .. n : p = slot(i)
      <4>1. PICK i \in 1 .. n : p = slot(i)
        BY <3>1
      <4>2. buffer'[p] = es[i] /\ i \in 1 .. Len(es)
        BY <1>2, <1>8, <4>1
      <4>3. QED
        BY <4>2
    <3>2. CASE ~ \E i \in 1 .. n : p = slot(i)
      <4>1. buffer'[p] = buffer[p]
        BY <1>3, <3>2
      <4>2. QED
        BY <1>1, <4>1
    <3>3. QED
      BY <3>1, <3>2
  <2> HIDE DEF slot
  <2>2. QED
    BY <1>3, <2>1
<1>11. \A i \in 1 .. n : buffer'[Pos(size + (i - 1))] = es[i]
  BY <1>4, <1>8
<1>12. Ring' /\ Contents' = Contents \o SubSeq(es, 1, n)
  BY <1>2, <1>3, <1>5, <1>9, <1>10, <1>11, Grow
<1>13. QED
  BY <1>12 DEF n

\* push() with room: the same for the vector of one element.
LEMMA PushStep ==
  ASSUME Ring, NEW e \in Elem, Push(e)
  PROVE  Ring' /\ Contents' = Contents \o SubSeq(<<e>>, 1, 1)
<1> DEFINE es == <<e>>
<1>1. /\ capacity \in Nat \ {0} /\ size \in 0 .. capacity /\ size < capacity
      /\ tail \in 0 .. capacity - 1 /\ tail = Pos(size)
      /\ buffer \in [0 .. capacity - 1 -> Elem \cup {Blank}]
  BY DEF Ring, Push, PositionsAgree
<1>2. /\ es \in Seq(Elem) /\ Len(es) = 1 /\ es[1] = e
      /\ 1 \in 0 .. Len(es) /\ size + 1 <= capacity
  BY <1>1
<1>3. /\ buffer' = [buffer EXCEPT ![tail] = e] /\ tail' = (tail + 1) % capacity
      /\ size' = size + 1 /\ UNCHANGED <<capacity, head>>
  BY DEF Push
<1>4. tail' = Pos(size + 1)
  BY <1>2, <1>3, SlotIs
<1>5. \A i \in 0 .. size - 1 : buffer'[Pos(i)] = buffer[Pos(i)]
  <2> SUFFICES ASSUME NEW i \in 0 .. size - 1 PROVE buffer'[Pos(i)] = buffer[Pos(i)]
    OBVIOUS
  <2>1. i \in 0 .. capacity - 1 /\ size \in 0 .. capacity - 1 /\ i # size
        /\ i \in 0 .. capacity
    BY <1>1
  <2>2. Pos(i) \in 0 .. capacity - 1 /\ Pos(i) # tail
    BY <1>1, <2>1, PosIs, PosDiffer
  <2>3. QED
    BY <1>1, <1>3, <2>2
<1>6. \A i \in 1 .. 1 : buffer'[Pos(size + (i - 1))] = es[i]
  <2>1. size + (1 - 1) = size
    BY <1>1
  <2>2. buffer'[Pos(size)] = e
    BY <1>1, <1>3
  <2>3. QED
    BY <1>2, <2>1, <2>2
<1>7. buffer' \in [0 .. capacity - 1 -> Elem \cup {Blank}]
  BY <1>1, <1>3
<1> HIDE DEF es
<1>8. Ring' /\ Contents' = Contents \o SubSeq(es, 1, 1)
  BY <1>2, <1>3, <1>4, <1>5, <1>6, <1>7, Grow
<1>9. QED
  BY <1>8 DEF es

-----------------------------------------------------------------------------
\* The operations of the bounded queue, in terms of the ring's contents.
LEMMA FifoPushBulk ==
  ASSUME Ring, NEW es \in Seq(Elem), NEW n,
         n = Smaller(Len(es), capacity - size),
         Contents' = Contents \o SubSeq(es, 1, n), capacity' = capacity, Returned(n, <<>>)
  PROVE  Fifo!PushBulk(es)
<1>1. Len(Contents) = size
  BY ContentsSeq
<1>2. n = Fifo!Smaller(Len(es), capacity - Len(Contents))
  BY <1>1 DEF Smaller, Fifo!Smaller
<1>3. QED
  BY <1>2 DEF Contents, Returned, Fifo!PushBulk

\* popBulk() of the bounded queue.
LEMMA FifoPopBulk ==
  ASSUME Ring, NEW k \in Nat, NEW n, n = Smaller(k, size),
         Contents' = SubSeq(Contents, n + 1, size), capacity' = capacity,
         Returned(n, SubSeq(Contents, 1, n))
  PROVE  Fifo!PopBulk(k)
<1>1. Len(Contents) = size
  BY ContentsSeq
<1>2. n = Fifo!Smaller(k, Len(Contents))
  BY <1>1 DEF Smaller, Fifo!Smaller
<1>3. /\ Contents' = SubSeq(Contents, n + 1, Len(Contents))
      /\ result' = [count |-> n, elems |-> SubSeq(Contents, 1, n)]
  BY <1>1 DEF Returned
<1>4. QED
  BY <1>2, <1>3 DEF Contents, Fifo!PopBulk

\* popBulk() takes from the front.
LEMMA PopBulkStep ==
  ASSUME Ring, NEW k \in Nat, PopBulk(k)
  PROVE  Ring' /\ Fifo!PopBulk(k)
<1> DEFINE n == Smaller(k, size)
           taken == [i \in 1 .. n |-> buffer[Pos(i - 1)]]
<1>1. n \in 0 .. size
  BY DEF Ring, Smaller
<1>2. /\ Returned(n, taken) /\ head' = (head + n) % capacity
      /\ size' = size - n /\ UNCHANGED <<buffer, capacity, tail>>
  BY DEF PopBulk
<1> HIDE DEF n
<1>3. head' = Pos(n)
  BY <1>2 DEF Pos
<1>4. Ring' /\ Contents' = SubSeq(Contents, n + 1, size) /\ taken = SubSeq(Contents, 1, n)
  BY <1>1, <1>2, <1>3, Shrink
<1> HIDE DEF taken
<1>5. Returned(n, SubSeq(Contents, 1, n))
  BY <1>2, <1>4
<1>6. n = Smaller(k, size)
  BY DEF n
<1>7. QED
  BY <1>2, <1>4, <1>5, <1>6, FifoPopBulk

\* pop() is popBulk(1).
LEMMA PopStep ==
  ASSUME Ring, Pop
  PROVE  Ring' /\ Fifo!PopBulk(1)
<1>1. 1 \in 0 .. size /\ 1 = Smaller(1, size)
  BY DEF Ring, Pop, Smaller
<1>2. /\ Returned(1, <<buffer[head]>>) /\ head' = Pos(1)
      /\ size' = size - 1 /\ UNCHANGED <<buffer, capacity, tail>>
  BY DEF Pop, Pos
<1>3. /\ Ring' /\ Contents' = SubSeq(Contents, 1 + 1, size)
      /\ [i \in 1 .. 1 |-> buffer[Pos(i - 1)]] = SubSeq(Contents, 1, 1)
  BY <1>1, <1>2, Shrink
<1>4. Pos(0) = head
  BY PosIs DEF Ring
<1>5. <<buffer[head]>> = [i \in 1 .. 1 |-> buffer[Pos(i - 1)]]
  BY <1>4
<1>6. Returned(1, SubSeq(Contents, 1, 1))
  BY <1>2, <1>3, <1>5
<1>7. QED
  BY <1>1, <1>2, <1>3, <1>6, FifoPopBulk

\* Without room, without elements, and while only reading, nothing moves.
LEMMA Still ==
  ASSUME Ring, UNCHANGED <<buffer, capacity, head, tail, size>>
  PROVE  Ring' /\ Contents' = Contents
BY DEF Ring, Contents, Pos, PositionsAgree

\* push() without room is a pushBulk() of one that stores none.
LEMMA PushFullStep ==
  ASSUME Ring, PushFull
  PROVE  Ring' /\ \E e \in Elem : Fifo!PushBulk(<<e>>)
<1>1. /\ UNCHANGED <<buffer, capacity, head, tail, size>> /\ Returned(0, <<>>)
      /\ size >= capacity
  BY DEF PushFull
<1>2. Ring' /\ Contents' = Contents
  BY <1>1, Still
<1>3. Contents \in Seq(Elem) /\ Len(Contents) = size
  BY ContentsSeq
<1>4. PICK e \in Elem : TRUE
  BY <1>1, Seen DEF Ring
<1> DEFINE es == <<e>>
<1>5. es \in Seq(Elem) /\ Len(es) = 1 /\ SubSeq(es, 1, 0) = <<>>
  OBVIOUS
<1> HIDE DEF es
<1>6. 0 = Smaller(Len(es), capacity - size)
  BY <1>1, <1>5 DEF Ring, Smaller
<1>7. Contents' = Contents \o SubSeq(es, 1, 0)
  BY <1>2, <1>3, <1>5, ConcatEmptySeq
<1>8. Fifo!PushBulk(es)
  BY <1>1, <1>5, <1>6, <1>7, FifoPushBulk
<1>9. QED
  BY <1>2, <1>8 DEF es

\* pop() of an empty buffer is a popBulk() of one that returns none.
LEMMA PopEmptyStep ==
  ASSUME Ring, PopEmpty
  PROVE  Ring' /\ Fifo!PopBulk(1)
<1>1. /\ UNCHANGED <<buffer, capacity, head, tail, size>> /\ Returned(0, <<>>)
      /\ size = 0
  BY DEF PopEmpty
<1>2. Ring' /\ Contents' = Contents
  BY <1>1, Still
<1>3. Contents \in Seq(Elem) /\ Len(Contents) = 0
  BY <1>1, ContentsSeq
<1>4. Contents = <<>> /\ SubSeq(Contents, 1, 0) = <<>> /\ SubSeq(Contents, 0 + 1, size) = <<>>
  BY <1>1, <1>3
<1>5. 0 = Smaller(1, size)
  BY <1>1 DEF Smaller
<1>6. QED
  BY <1>1, <1>2, <1>4, <1>5, FifoPopBulk

\* peekAt() returns the element in that place.
LEMMA PeekAtStep ==
  ASSUME Ring, NEW i \in Nat, PeekAt(i)
  PROVE  Ring' /\ Fifo!PeekAt(i)
<1>1. /\ UNCHANGED <<buffer, capacity, head, tail, size>>
      /\ IF i < size THEN Returned(1, <<buffer[Pos(i)]>>) ELSE Returned(0, <<>>)
  BY DEF PeekAt
<1>2. Ring' /\ Contents' = Contents
  BY <1>1, Still
<1>3. Len(Contents) = size
  BY ContentsSeq
<1>4. i < size => Contents[i + 1] = buffer[Pos(i)]
  <2> SUFFICES ASSUME i < size PROVE Contents[i + 1] = buffer[Pos(i)]
    OBVIOUS
  <2>1. i + 1 \in 1 .. size /\ (i + 1) - 1 = i
    BY DEF Ring
  <2>2. QED
    BY <2>1, Seen
<1>5. result' = IF i < Len(Contents) THEN [count |-> 1, elems |-> <<Contents[i + 1]>>]
                                     ELSE [count |-> 0, elems |-> <<>>]
  BY <1>1, <1>3, <1>4 DEF Returned
<1>6. QED
  BY <1>1, <1>2, <1>5 DEF Contents, Fifo!PeekAt

\* toVector() returns all of them.
LEMMA ToVectorStep ==
  ASSUME Ring, ToVector
  PROVE  Ring' /\ Fifo!ToVector
<1>1. UNCHANGED <<buffer, capacity, head, tail, size>> /\ Returned(size, Contents)
  BY DEF ToVector, Contents
<1>2. Ring' /\ Contents' = Contents
  BY <1>1, Still
<1>3. result' = [count |-> Len(Contents), elems |-> Contents]
  BY <1>1, ContentsSeq DEF Returned
<1>4. QED
  BY <1>1, <1>2, <1>3 DEF Contents, Fifo!ToVector

\* clear() forgets all of them.
LEMMA ClearStep ==
  ASSUME Ring, Clear
  PROVE  Ring' /\ Fifo!Clear
<1>1. /\ head' = 0 /\ tail' = 0 /\ size' = 0
      /\ UNCHANGED <<buffer, capacity>> /\ Returned(0, <<>>)
  BY DEF Clear
<1>2. capacity \in Nat \ {0} /\ 0 % capacity = 0
  BY DEF Ring
<1>3. PositionsAgree'
  BY <1>1, <1>2 DEF PositionsAgree, Pos
<1>4. Ring'
  BY <1>1, <1>2, <1>3 DEF Ring
<1>5. Contents' \in Seq(Elem) /\ Len(Contents') = 0
  BY <1>1, <1>4, ContentsSeqNext
<1>6. Contents' = <<>>
  BY <1>5
<1>7. QED
  BY <1>1, <1>4, <1>6 DEF Contents, Returned, Fifo!Clear

\* reserve() moves them to the front of a larger vector, or changes nothing.
LEMMA ReserveStep ==
  ASSUME Ring, NEW n \in Nat, Reserve(n)
  PROVE  Ring' /\ Fifo!Reserve(IF n = 0 THEN 1 ELSE n)
<1>1. capacity \in Nat \ {0}
  BY DEF Ring
<1>2. size' = size /\ Returned(0, <<>>)
  BY DEF Reserve
<1>3. CASE n <= capacity
  <2>1. UNCHANGED <<buffer, capacity, head, tail>>
    BY <1>3 DEF Reserve
  <2>2. Ring' /\ Contents' = Contents
    BY <1>2, <2>1, Still
  <2>3. QED
    BY <1>1, <1>2, <1>3, <2>1, <2>2 DEF Contents, Returned, Fifo!Reserve
<1>4. CASE capacity < n
  <2>1. /\ head' = 0 /\ tail' = size /\ capacity' = n
        /\ buffer' = [p \in 0 .. n - 1 |-> IF p < size THEN buffer[Pos(p)] ELSE Blank]
    BY <1>1, <1>4 DEF Reserve
  <2>2. Ring' /\ Contents' = Contents
    BY <1>2, <1>4, <2>1, Move
  <2>3. QED
    BY <1>1, <1>2, <1>4, <2>1, <2>2 DEF Contents, Returned, Fifo!Reserve
<1>5. QED
  BY <1>1, <1>3, <1>4

-----------------------------------------------------------------------------

\* A new ring is empty.
LEMMA InitRing == Init => Ring /\ Fifo!Init
<1> SUFFICES ASSUME Init PROVE Ring /\ Fifo!Init
  OBVIOUS
<1>1. capacity \in Nat \ {0} /\ capacity \in {IF c = 0 THEN 1 ELSE c : c \in Capacities}
  BY RingAssumption DEF Init
<1>2. /\ buffer = [p \in 0 .. capacity - 1 |-> Blank]
      /\ head = 0 /\ tail = 0 /\ size = 0 /\ result = [count |-> 0, elems |-> <<>>]
  BY DEF Init
<1>3. 0 % capacity = 0
  BY <1>1
<1>4. Ring
  BY <1>1, <1>2, <1>3 DEF Ring, PositionsAgree, Pos
<1>5. Contents \in Seq(Elem) /\ Len(Contents) = 0
  BY <1>2, <1>4, ContentsSeq
<1>6. Contents = <<>>
  BY <1>5
<1>7. Fifo!Init
  BY <1>1, <1>2, <1>6 DEF Contents, Fifo!Init
<1>8. QED
  BY <1>4, <1>7

\* Every operation of the ring keeps it a ring and is the operation of the
\* bounded queue that has its name.
LEMMA StepRing == Ring /\ [Next]_vars => Ring' /\ [Fifo!Next]_(Fifo!vars)
<1> SUFFICES ASSUME Ring, [Next]_vars PROVE Ring' /\ [Fifo!Next]_(Fifo!vars)
  OBVIOUS
<1>1. ASSUME NEW e \in Elem, Push(e) PROVE Ring' /\ Fifo!Next
  <2> DEFINE es == <<e>>
  <2>1. es \in Seq(Elem) /\ Len(es) = 1
    OBVIOUS
  <2>2. Ring' /\ Contents' = Contents \o SubSeq(es, 1, 1)
    BY <1>1, PushStep
  <2>3. capacity' = capacity /\ Returned(1, <<>>) /\ size < capacity
    BY <1>1 DEF Push
  <2> HIDE DEF es
  <2>4. 1 = Smaller(Len(es), capacity - size)
    BY <2>1, <2>3 DEF Ring, Smaller
  <2>5. Fifo!PushBulk(es)
    BY <2>1, <2>2, <2>3, <2>4, FifoPushBulk
  <2>6. QED
    BY <2>2, <2>5 DEF es, Fifo!Next
<1>2. CASE PushFull
  BY <1>2, PushFullStep DEF Fifo!Next
<1>3. CASE Pop
  BY <1>3, PopStep DEF Fifo!Next
<1>4. CASE PopEmpty
  BY <1>4, PopEmptyStep DEF Fifo!Next
<1>5. ASSUME NEW i \in Counts, PeekAt(i) PROVE Ring' /\ Fifo!Next
  BY <1>5, PeekAtStep, RingAssumption DEF Fifo!Next
<1>6. ASSUME NEW k \in Counts, PopBulk(k) PROVE Ring' /\ Fifo!Next
  BY <1>6, PopBulkStep, RingAssumption DEF Fifo!Next
<1>7. CASE ToVector
  BY <1>7, ToVectorStep DEF Fifo!Next
<1>8. CASE Clear
  BY <1>8, ClearStep DEF Fifo!Next
<1>9. ASSUME NEW n \in Capacities, Reserve(n) PROVE Ring' /\ Fifo!Next
  BY <1>9, ReserveStep, RingAssumption DEF Fifo!Next
<1>10. ASSUME NEW es \in Bulks, PushBulk(es) PROVE Ring' /\ Fifo!Next
  <2> DEFINE n == Smaller(Len(es), capacity - size)
  <2>1. es \in Seq(Elem)
    BY RingAssumption
  <2>2. Ring' /\ Contents' = Contents \o SubSeq(es, 1, n)
    BY <1>10, <2>1, PushBulkStep
  <2>3. capacity' = capacity /\ Returned(n, <<>>)
    BY <1>10 DEF PushBulk
  <2>4. Fifo!PushBulk(es)
    BY <2>1, <2>2, <2>3, FifoPushBulk
  <2>5. QED
    BY <2>2, <2>4 DEF Fifo!Next
<1>11. CASE UNCHANGED vars
  <2>1. UNCHANGED <<buffer, capacity, head, tail, size>> /\ result' = result
    BY <1>11 DEF vars
  <2>2. Ring' /\ Contents' = Contents
    BY <2>1, Still
  <2>3. QED
    BY <2>1, <2>2 DEF Contents, Fifo!vars
<1>12. QED
  BY <1>1, <1>2, <1>3, <1>4, <1>5, <1>6, <1>7, <1>8, <1>9, <1>10, <1>11 DEF Next

Returning == result \in [count : Nat, elems : Seq(Elem \cup {Blank})]

\* Every operation returns a count and elements.
LEMMA StepResult == Ring /\ Returning /\ [Next]_vars => Returning'
<1> SUFFICES ASSUME Ring, Returning, [Next]_vars PROVE Returning'
  OBVIOUS
<1>1. /\ capacity \in Nat \ {0} /\ head \in 0 .. capacity - 1 /\ size \in 0 .. capacity
      /\ buffer \in [0 .. capacity - 1 -> Elem \cup {Blank}]
      /\ \A i \in 0 .. size - 1 : buffer[Pos(i)] \in Elem
  BY DEF Ring
<1>2. ASSUME NEW n \in Nat, NEW es \in Seq(Elem \cup {Blank}), Returned(n, es)
      PROVE  Returning'
  BY <1>2 DEF Returned, Returning
<1>3. <<>> \in Seq(Elem \cup {Blank})
  OBVIOUS
<1>4. CASE \/ \E e \in Elem : Push(e)
           \/ PushFull \/ PopEmpty \/ Clear
           \/ \E n \in Capacities : Reserve(n)
  <2>1. Returned(0, <<>>) \/ Returned(1, <<>>)
    BY <1>4 DEF Push, PushFull, PopEmpty, Clear, Reserve
  <2>2. QED
    BY <1>2, <1>3, <2>1
<1>one. ASSUME NEW x \in Elem \cup {Blank}, Returned(1, <<x>>) PROVE Returning'
  <2>1. <<x>> \in Seq(Elem \cup {Blank})
    OBVIOUS
  <2>2. QED
    BY <1>one, <1>2, <2>1
<1>5. CASE Pop
  BY <1>one, <1>1, <1>5 DEF Pop
<1>6. ASSUME NEW i \in Counts, PeekAt(i) PROVE Returning'
  <2>1. i \in Nat
    BY RingAssumption
  <2>2. CASE i < size
    <3>1. buffer[Pos(i)] \in Elem
      BY <1>1, <2>1, <2>2
    <3>2. Returned(1, <<buffer[Pos(i)]>>)
      BY <1>6, <2>2 DEF PeekAt
    <3>3. QED
      BY <1>one, <3>1, <3>2
  <2>3. CASE ~ (i < size)
    BY <1>2, <1>3, <1>6, <2>3 DEF PeekAt
  <2>4. QED
    BY <2>2, <2>3
<1>7. ASSUME NEW n \in 0 .. size, Returned(n, [i \in 1 .. n |-> buffer[Pos(i - 1)]])
      PROVE  Returning'
  <2>1. \A i \in 1 .. n : buffer[Pos(i - 1)] \in Elem \cup {Blank}
    BY <1>1
  <2>2. [i \in 1 .. n |-> buffer[Pos(i - 1)]] \in Seq(Elem \cup {Blank})
    BY <1>1, <2>1
  <2>3. QED
    BY <1>1, <1>2, <1>7, <2>2
<1>8. ASSUME NEW k \in Counts, PopBulk(k) PROVE Returning'
  <2>1. Smaller(k, size) \in 0 .. size
    BY <1>1, RingAssumption DEF Smaller
  <2>2. QED
    BY <1>7, <1>8, <2>1 DEF PopBulk
<1>9. CASE ToVector
  <2>1. size \in 0 .. size
    BY <1>1
  <2>2. QED
    BY <1>7, <1>9, <2>1 DEF ToVector
<1>10. ASSUME NEW es \in Bulks, PushBulk(es) PROVE Returning'
  <2>1. Smaller(Len(es), capacity - size) \in Nat
    BY <1>1, RingAssumption DEF Smaller
  <2>2. QED
    BY <1>2, <1>3, <1>10, <2>1 DEF PushBulk
<1>11. CASE UNCHANGED vars
  BY <1>11 DEF vars, Returning
<1>12. QED
  BY <1>4, <1>5, <1>6, <1>8, <1>9, <1>10, <1>11 DEF Next

-----------------------------------------------------------------------------
\* Every operation of CircularBuffer.cpp keeps the members in their ranges.
THEOREM TypeCorrect == Spec => []TypeOK
<1>1. Init => Ring /\ Returning
  <2>1. Init => Returning
    BY DEF Init, Returning
  <2>2. QED
    BY <2>1, InitRing
<1>2. Ring /\ Returning /\ [Next]_vars => Ring' /\ Returning'
  BY StepRing, StepResult
<1>3. Ring /\ Returning => TypeOK
  BY DEF Ring, Returning, TypeOK
<1>4. QED
  BY <1>1, <1>2, <1>3, PTL DEF Spec

\* Whatever calls follow each other, the positions of the ring
\* (CircularBuffer.cpp) agree: no occupied slot is overwritten.
THEOREM Positions == Spec => []PositionsAgree
<1>1. Init => Ring
  BY InitRing
<1>2. Ring /\ [Next]_vars => Ring'
  BY StepRing
<1>3. Ring => PositionsAgree
  BY DEF Ring
<1>4. QED
  BY <1>1, <1>2, <1>3, PTL DEF Spec

\* Whatever calls follow each other, the ring (CircularBuffer.cpp) holds and
\* returns what a bounded first-in first-out queue would.
THEOREM Refinement == Spec => ImplementsFifo
<1>1. Init => Ring /\ Fifo!Init
  BY InitRing
<1>2. Ring /\ [Next]_vars => Ring' /\ [Fifo!Next]_(Fifo!vars)
  BY StepRing
<1>3. QED
  BY <1>1, <1>2, PTL DEF Spec, ImplementsFifo, Fifo!Spec

-----------------------------------------------------------------------------
(* Times.                                                                  *)

\* A time in microseconds, written in milliseconds and read again.
Millis(t) == (t \div 1000) * 1000

\* Once it has been rounded, it stays.
LEMMA MillisTwice ==
  ASSUME NEW t \in Nat
  PROVE  Millis(t) \in Nat /\ Millis(Millis(t)) = Millis(t)
<1>1. t \div 1000 \in Nat
  OBVIOUS
<1>2. ((t \div 1000) * 1000) \div 1000 = t \div 1000
  BY <1>1
<1> QED BY <1>1, <1>2 DEF Millis

\* Every set of numbers that is not empty has a least one.
LEMMA Least ==
  ASSUME NEW T \in SUBSET Nat, T # {}
  PROVE  \E n \in T : \A m \in T : n <= m
<1> DEFINE R == {ss \in Nat \X Nat : ss[1] < ss[2]}
<1>1. OpToRel(<, Nat) = R
    BY Zenon DEF OpToRel
<1>2. IsWellFoundedOn(R, Nat)
    BY <1>1, NatLessThanWellFounded, Zenon
<1> HIDE DEF R
<1>3. PICK x \in T : \A y \in T : ~ (<<y, x>> \in R)
    BY <1>2, WFMin
<1>4. ASSUME NEW y \in T PROVE x <= y
    <2>1. x \in Nat /\ y \in Nat
        OBVIOUS
    <2>2. y < x => <<y, x>> \in R
        BY <2>1 DEF R
    <2> QED BY <1>3, <2>1, <2>2
<1> QED BY <1>4

-----------------------------------------------------------------------------
(* The configuration of the device manager.                                *)

\* The sections of the configuration, as their constructors make them.
Defaults ==
    [discovery |-> Configuration!DiscoveryConfig, monitoring |-> Configuration!MonitoringConfig,
     defaults |-> Configuration!DeviceDefaults, storage |-> Configuration!StorageConfig,
     security |-> Configuration!SecurityConfig, logging |-> Configuration!LoggingConfig,
     general |-> Configuration!GeneralSettings]
Sections == {"discovery", "monitoring", "defaults", "storage", "security", "logging",
             "general"}

\* A configuration has the sections and the fields of the defaults.
HasFields(section, default) == section = [f \in DOMAIN default |-> section[f]]
Complete(held) ==
    /\ held = [s \in Sections |-> held[s]]
    /\ \A s \in Sections : HasFields(held[s], Defaults[s])

\* The maps, which toJson() leaves out when they are empty, are empty by default.
MapsEmpty(default) ==
    \A g \in Configuration!Maps \cap DOMAIN default : default[g] = Configuration!EmptyMap

\* Every default of a map is the empty map.
LEMMA DefaultMaps == \A s \in Sections : MapsEmpty(Defaults[s])
<1> USE DEF MapsEmpty, Configuration!Maps
<1>1. MapsEmpty(Configuration!DiscoveryConfig)
  BY DEF Configuration!DiscoveryConfig
<1>2. MapsEmpty(Configuration!MonitoringConfig)
  BY DEF Configuration!MonitoringConfig
<1>3. MapsEmpty(Configuration!DeviceDefaults)
  BY DEF Configuration!DeviceDefaults
<1>4. MapsEmpty(Configuration!StorageConfig)
  BY DEF Configuration!StorageConfig
<1>5. MapsEmpty(Configuration!SecurityConfig)
  BY DEF Configuration!SecurityConfig
<1>6. MapsEmpty(Configuration!LoggingConfig)
  BY DEF Configuration!LoggingConfig
<1>7. MapsEmpty(Configuration!GeneralSettings)
  BY DEF Configuration!GeneralSettings
<1> HIDE DEF MapsEmpty, Configuration!Maps
<1> QED BY <1>1, <1>2, <1>3, <1>4, <1>5, <1>6, <1>7 DEF Sections, Defaults

\* A section that was written without its empty maps is read with them.
LEMMA SectionJson ==
  ASSUME NEW section, NEW default, HasFields(section, default), MapsEmpty(default)
  PROVE  Configuration!Taken(Configuration!Members(section), default) = section
<1> DEFINE json == Configuration!Members(section)
           without == {g \in Configuration!Maps \cap DOMAIN section :
                          section[g] = Configuration!EmptyMap}
<1>1. DOMAIN section = DOMAIN default
  BY DEF HasFields
<1>2. json = [f \in DOMAIN section \ without |-> section[f]]
  BY Zenon DEF Configuration!Members
<1>3. /\ \A f \in DOMAIN section : f \notin DOMAIN json => section[f] = default[f]
      /\ \A f \in DOMAIN json : json[f] = section[f]
  BY <1>1, <1>2 DEF MapsEmpty
<1> HIDE DEF json
<1>4. Configuration!Taken(json, default) = [f \in DOMAIN default |-> section[f]]
  BY <1>1, <1>3 DEF Configuration!Taken
<1> QED BY <1>4 DEF json, HasFields

\* Reading a section gives it every field, whatever the JSON.
LEMMA TakenHas ==
  ASSUME NEW json, NEW default
  PROVE  HasFields(Configuration!Taken(json, default), default)
BY DEF Configuration!Taken, HasFields

\* DeviceManagerConfig::fromJson() makes a configuration of any JSON.
LEMMA ReadComplete == ASSUME NEW json PROVE Complete(Configuration!FromJson(json))
<1> DEFINE c == Configuration!FromJson(json)
<1>1. c = [s \in Sections |-> c[s]]
  BY DEF Configuration!FromJson, Sections
<1>2. ASSUME NEW s \in Sections PROVE HasFields(c[s], Defaults[s])
  <2> DEFINE member(name) == IF name \in DOMAIN json THEN json[name] ELSE <<>>
  <2>1. /\ c.discovery = Configuration!Taken(member("discovery"), Defaults.discovery)
        /\ c.monitoring = Configuration!Taken(member("monitoring"), Defaults.monitoring)
        /\ c.defaults = Configuration!Taken(member("defaults"), Defaults.defaults)
        /\ c.storage = Configuration!Taken(member("storage"), Defaults.storage)
        /\ c.security = Configuration!Taken(member("security"), Defaults.security)
        /\ c.logging = Configuration!Taken(member("logging"), Defaults.logging)
        /\ c.general = Configuration!Taken(member("general"), Defaults.general)
    BY DEF Configuration!FromJson, Configuration!DiscoveryFromJson,
       Configuration!MonitoringFromJson, Configuration!DefaultsFromJson,
       Configuration!StorageFromJson, Configuration!SecurityFromJson,
       Configuration!LoggingFromJson, Defaults
  <2> HIDE DEF c, member
  <2> QED BY <2>1, TakenHas DEF Sections
<1> QED BY <1>1, <1>2 DEF Complete

\* What is written and read again is the same configuration.
LEMMA WrittenAndRead ==
  ASSUME NEW held, Complete(held)
  PROVE  Configuration!FromJson(Configuration!ToJson(held)) = held
<1> DEFINE j == Configuration!ToJson(held)
           c == Configuration!FromJson(j)
<1>1. /\ DOMAIN j = Sections
      /\ \A s \in Sections : j[s] = Configuration!Members(held[s])
  BY DEF Configuration!ToJson, Sections, Configuration!DiscoveryToJson,
     Configuration!MonitoringToJson, Configuration!DefaultsToJson,
     Configuration!StorageToJson, Configuration!SecurityToJson,
     Configuration!LoggingToJson
<1> HIDE DEF j
<1>2. \A s \in Sections : c[s] = Configuration!Taken(j[s], Defaults[s])
  BY <1>1 DEF Configuration!FromJson, Configuration!DiscoveryFromJson, Sections,
     Configuration!MonitoringFromJson, Configuration!DefaultsFromJson,
     Configuration!StorageFromJson, Configuration!SecurityFromJson,
     Configuration!LoggingFromJson, Defaults
<1>3. c = [s \in Sections |-> c[s]]
  BY DEF Configuration!FromJson, Sections
<1> HIDE DEF c
<1>4. ASSUME NEW s \in Sections PROVE c[s] = held[s]
  <2>1. HasFields(held[s], Defaults[s]) /\ MapsEmpty(Defaults[s])
    BY DefaultMaps DEF Complete
  <2> QED BY <1>1, <1>2, <2>1, SectionJson
<1>5. c = held
  BY <1>3, <1>4 DEF Complete
<1> QED BY <1>5 DEF c, j

\* merge() keeps the shape ...
LEMMA MergeComplete ==
  ASSUME NEW held, NEW other, Complete(held), Complete(other)
  PROVE  Complete(Configuration!Merge(held, other))
<1> DEFINE c == Configuration!Merge(held, other)
           general == [other.general EXCEPT !.debugMode = held.general.debugMode,
                          !.shutdownTimeoutMs = held.general.shutdownTimeoutMs,
                          !.custom = @ \cup held.general.custom]
<1>1. DOMAIN held = Sections
  BY DEF Complete
<1>2. /\ c = [s \in Sections |-> c[s]]
      /\ c["general"] = general
      /\ \A s \in Sections \ {"general"} : c[s] \in {held[s], other[s]}
  BY <1>1 DEF Configuration!Merge, Sections
<1>3. HasFields(general, Defaults["general"])
  <2>1. HasFields(other.general, Defaults["general"])
    BY DEF Complete, Sections
  <2> QED BY <2>1 DEF HasFields
<1> HIDE DEF c, general
<1>4. ASSUME NEW s \in Sections PROVE HasFields(c[s], Defaults[s])
  BY <1>2, <1>3 DEF Complete
<1>5. Complete(c)
  BY <1>2, <1>4 DEF Complete
<1> QED BY <1>5 DEF c

\* ... and, of two valid configurations, makes a valid one: what validate() asks of a
\* section it asks of that section alone.
LEMMA MergeValid ==
  ASSUME NEW held, NEW other, Complete(held), Complete(other),
         Configuration!Validate(held), Configuration!Validate(other)
  PROVE  Configuration!Validate(Configuration!Merge(held, other))
<1> DEFINE c == Configuration!Merge(held, other)
<1>1. DOMAIN held = Sections
  BY DEF Complete
<1>2. \A s \in Sections \ {"general"} : c[s] \in {held[s], other[s]}
  BY <1>1 DEF Configuration!Merge, Sections
<1> HIDE DEF c
<1>3. Configuration!Validate(c)
  BY <1>2 DEF Sections, Configuration!Validate
<1> QED BY <1>3 DEF c

\* The configuration of an empty file is valid.
LEMMA DefaultsValid == Configuration!Validate(Configuration!FromJson(<<>>))
<1> DEFINE c == Configuration!FromJson(<<>>)
<1>1. /\ c.discovery = Configuration!DiscoveryConfig
      /\ c.monitoring = Configuration!MonitoringConfig
      /\ c.defaults = Configuration!DeviceDefaults
      /\ c.storage = Configuration!StorageConfig
      /\ c.security = Configuration!SecurityConfig
      /\ c.logging = Configuration!LoggingConfig
  <2>1. \A default : HasFields(default, default) => Configuration!Taken(<<>>, default) = default
    BY DEF Configuration!Taken, HasFields
  <2>2. \A name : (IF name \in DOMAIN <<>> THEN <<>>[name] ELSE <<>>) = <<>>
    OBVIOUS
  <2>3. HasFields(Configuration!DiscoveryConfig, Configuration!DiscoveryConfig)
    BY DEF HasFields, Configuration!DiscoveryConfig
  <2>4. HasFields(Configuration!MonitoringConfig, Configuration!MonitoringConfig)
    BY DEF HasFields, Configuration!MonitoringConfig
  <2>5. HasFields(Configuration!DeviceDefaults, Configuration!DeviceDefaults)
    BY DEF HasFields, Configuration!DeviceDefaults
  <2>6. HasFields(Configuration!StorageConfig, Configuration!StorageConfig)
    BY DEF HasFields, Configuration!StorageConfig
  <2>7. HasFields(Configuration!SecurityConfig, Configuration!SecurityConfig)
    BY DEF HasFields, Configuration!SecurityConfig
  <2>8. HasFields(Configuration!LoggingConfig, Configuration!LoggingConfig)
    BY DEF HasFields, Configuration!LoggingConfig
  <2> QED BY <2>1, <2>2, <2>3, <2>4, <2>5, <2>6, <2>7, <2>8 DEF Configuration!FromJson,
       Configuration!DiscoveryFromJson, Configuration!MonitoringFromJson,
       Configuration!DefaultsFromJson, Configuration!StorageFromJson,
       Configuration!SecurityFromJson, Configuration!LoggingFromJson
<1> HIDE DEF c
<1>2. /\ \A f \in {"maxDevices", "intervalSeconds", "timeoutMs"} : c.discovery[f] > 0
      /\ \A f \in {"intervalMs", "maxSamples", "statsWindowSeconds", "healthCheckIntervalMs"} :
             c.monitoring[f] > 0
      /\ c.monitoring.healthThreshold = 80 /\ c.monitoring.recoveryAttempts = 3
  BY <1>1 DEF Configuration!DiscoveryConfig, Configuration!MonitoringConfig
<1>3. /\ \A f \in {"timeoutMs", "retryDelayMs", "maxDataAgeMs"} : c.defaults[f] > 0
      /\ c.defaults.retryCount = 3
  BY <1>1 DEF Configuration!DeviceDefaults
<1>4. \A f \in {"saveIntervalMs", "maxHistoryDays", "maxFileSizeMB",
                "backupIntervalHours", "maxBackups"} : c.storage[f] > 0
  BY <1>1 DEF Configuration!StorageConfig
<1>5. c.security.requireAuthentication = FALSE
  BY <1>1 DEF Configuration!SecurityConfig
<1>6. c.logging.maxLogSizeMB = 100 /\ c.logging.maxLogFiles = 5
  BY <1>1 DEF Configuration!LoggingConfig
<1>7. Configuration!Validate(c)
  BY <1>2, <1>3, <1>4, <1>5, <1>6 DEF Configuration!Validate
<1> QED BY <1>7 DEF c

\* The settings have every field, and are valid unless the last load was refused.
ConfigurationInv == Complete(settings) /\ (~ refused => Configuration!Validate(settings))

\* The manager starts with the defaults.
LEMMA ConfigurationInit == Configuration!Init => ConfigurationInv
BY DefaultsValid, ReadComplete DEF Configuration!Init, ConfigurationInv

\* A file is loaded, merged, written or edited.
LEMMA ConfigurationStep ==
  ConfigurationInv /\ [Configuration!Next]_(Configuration!configVars) => ConfigurationInv'
<1> SUFFICES ASSUME ConfigurationInv, [Configuration!Next]_(Configuration!configVars)
             PROVE  ConfigurationInv'
  OBVIOUS
<1>1. CASE Configuration!LoadFromFile
  <2>1. CASE "broken" \in DOMAIN file
    BY <1>1, <2>1 DEF Configuration!LoadFromFile, ConfigurationInv
  <2>2. CASE "broken" \notin DOMAIN file
    <3>1. /\ settings' = Configuration!FromJson(file)
          /\ refused' = ~ Configuration!Validate(settings')
      BY <1>1, <2>2 DEF Configuration!LoadFromFile
    <3> QED BY <3>1, ReadComplete DEF ConfigurationInv
  <2> QED BY <2>1, <2>2
<1>2. CASE Configuration!SaveToFile
  BY <1>2 DEF Configuration!SaveToFile, ConfigurationInv
<1>3. CASE Configuration!MergeFile
  <2>1. /\ Configuration!Validate(Configuration!FromJson(file)) /\ refused' = refused
        /\ settings' = Configuration!Merge(settings, Configuration!FromJson(file))
    BY <1>3 DEF Configuration!MergeFile
  <2>2. Complete(settings) /\ Complete(Configuration!FromJson(file))
    BY ReadComplete DEF ConfigurationInv
  <2> QED BY <2>1, <2>2, MergeComplete, MergeValid DEF ConfigurationInv
<1>4. CASE Configuration!EditFile
  BY <1>4 DEF Configuration!EditFile, ConfigurationInv
<1>5. CASE UNCHANGED Configuration!configVars
  BY <1>5 DEF Configuration!configVars, ConfigurationInv
<1> QED BY <1>1, <1>2, <1>3, <1>4, <1>5 DEF Configuration!Next

\* A complete configuration survives its file.
LEMMA ConfigurationHolds == ConfigurationInv => Configuration!OnlyRefusedIsInvalid
BY WrittenAndRead DEF ConfigurationInv, Configuration!OnlyRefusedIsInvalid

-----------------------------------------------------------------------------
(* The events of the device manager.                                       *)

\* There are 53 types.
LEMMA TypesCounted ==
  /\ Events!TypeNumbers = 0 .. 52
  /\ Len(Events!EventTypes) = 53 /\ DOMAIN Events!EventTypes = 1 .. 53
BY DEF Events!TypeNumbers, Events!EventTypes

\* No two types have the same name.
LEMMA TypesDiffer ==
  ASSUME NEW i \in 1 .. 53, NEW k \in 1 .. 53, Events!EventTypes[i] = Events!EventTypes[k]
  PROVE  i = k
BY DEF Events!EventTypes

\* What isErrorEvent(), isWarningEvent() and the priorities say of a type.
LEMMA Kinds ==
  ASSUME NEW n
  PROVE  /\ ~ (Events!IsErrorEvent(n) /\ Events!IsWarningEvent(n))
         /\ Events!IsErrorEvent(n) => Events!GetEventPriority(n) >= 7
         /\ Events!IsWarningEvent(n) => Events!GetEventPriority(n) >= 6
         /\ Events!IsInfoEvent(n) /\ Events!TypeToString(n) # "MANAGER_SHUTDOWN"
                => Events!GetEventPriority(n) <= 6
<1> DEFINE s == Events!TypeToString(n)
<1>1. ~ (Events!IsErrorEvent(n) /\ Events!IsWarningEvent(n))
  <2> HIDE DEF s
  <2> QED BY DEF Events!IsErrorEvent, Events!IsWarningEvent
<1>2. Events!IsErrorEvent(n) => Events!Rated(Events!Priorities, s) >= 7
  <2> HIDE DEF s
  <2> QED BY DEF Events!IsErrorEvent, Events!Rated, Events!Priorities, s
<1>3. Events!IsWarningEvent(n) => Events!Rated(Events!Priorities, s) >= 6
  <2> HIDE DEF s
  <2> QED BY DEF Events!IsWarningEvent, Events!Rated, Events!Priorities, s
<1>4. Events!IsInfoEvent(n) /\ s # "MANAGER_SHUTDOWN"
         => Events!Rated(Events!Priorities, s) <= 6
  <2> HIDE DEF s
  <2> QED BY DEF Events!IsInfoEvent, Events!IsErrorEvent, Events!IsWarningEvent,
          Events!Rated, Events!Priorities, s
<1> QED BY <1>1, <1>2, <1>3, <1>4 DEF Events!GetEventPriority

\* A name has a number, ...
LEMMA NameNumber ==
  ASSUME NEW s, s \in Events!ToSet(Events!EventTypes)
  PROVE  /\ Events!NumberOf[s] \in Events!TypeNumbers
         /\ Events!TypeToString(Events!NumberOf[s]) = s
<1>1. \E n \in Events!TypeNumbers : Events!EventTypes[n + 1] = s
  <2>1. PICK i \in 1 .. 53 : Events!EventTypes[i] = s
    BY TypesCounted DEF Events!ToSet
  <2>2. i - 1 \in Events!TypeNumbers /\ (i - 1) + 1 = i
    BY TypesCounted
  <2> QED BY <2>1, <2>2
<1>2. Events!NumberOf[s] = CHOOSE n \in Events!TypeNumbers : Events!EventTypes[n + 1] = s
  BY DEF Events!NumberOf
<1> QED BY <1>1, <1>2 DEF Events!TypeToString

\* ... and a number comes back from its name.
LEMMA NumbersAgree ==
  ASSUME NEW n \in Events!TypeNumbers
  PROVE  Events!StringToType(Events!TypeToString(n)) = n
<1>1. n \in 0 .. 52 /\ n + 1 \in 1 .. 53
  BY TypesCounted
<1>2. Events!EventTypes[n + 1] \in Events!ToSet(Events!EventTypes)
  BY <1>1, TypesCounted DEF Events!ToSet
<1> DEFINE k == Events!NumberOf[Events!EventTypes[n + 1]]
<1>3. k \in Events!TypeNumbers /\ Events!TypeToString(k) = Events!EventTypes[n + 1]
  BY <1>2, NameNumber
<1> HIDE DEF k
<1>4. Events!EventTypes[k + 1] = Events!EventTypes[n + 1]
  BY <1>3 DEF Events!TypeToString
<1>5. k \in 0 .. 52
  BY <1>3, TypesCounted
<1>6. k + 1 \in 1 .. 53
  BY <1>5
<1>7. k = n
  <2>1. k + 1 = n + 1
    BY <1>1, <1>4, <1>6, TypesDiffer
  <2> QED BY <1>1, <1>5, <2>1
<1> QED BY <1>2, <1>7 DEF Events!StringToType, Events!TypeToString, k

\* The numbers of the types of each category follow one another.
First == <<1, 15, 20, 24, 28, 31, 34, 38, 45, 49, 53>>
Last  == <<14, 19, 23, 27, 30, 33, 37, 44, 48, 52, 53>>

\* The names of a category are those of its numbers, in their order.
LEMMA InOrder ==
  ASSUME NEW d \in 1 .. 11
  PROVE  /\ Len(Events!Categories[d].types) = Last[d] - First[d] + 1
         /\ \A i \in 1 .. Last[d] - First[d] + 1 :
              Events!Categories[d].types[i] = Events!EventTypes[First[d] + i - 1]
<1>1. CASE d = 1
  <2>1. Len(Events!Categories[d].types) = Last[d] - First[d] + 1
    BY <1>1 DEF Events!Categories, First, Last
  <2>2. \A i \in 1 .. Last[d] - First[d] + 1 :
          Events!Categories[d].types[i] = Events!EventTypes[First[d] + i - 1]
    BY <1>1 DEF Events!Categories, Events!EventTypes, First, Last
  <2> QED BY <2>1, <2>2
<1>2. CASE d = 2
  <2>1. Len(Events!Categories[d].types) = Last[d] - First[d] + 1
    BY <1>2 DEF Events!Categories, First, Last
  <2>2. \A i \in 1 .. Last[d] - First[d] + 1 :
          Events!Categories[d].types[i] = Events!EventTypes[First[d] + i - 1]
    BY <1>2 DEF Events!Categories, Events!EventTypes, First, Last
  <2> QED BY <2>1, <2>2
<1>3. CASE d = 3
  <2>1. Len(Events!Categories[d].types) = Last[d] - First[d] + 1
    BY <1>3 DEF Events!Categories, First, Last
  <2>2. \A i \in 1 .. Last[d] - First[d] + 1 :
          Events!Categories[d].types[i] = Events!EventTypes[First[d] + i - 1]
    BY <1>3 DEF Events!Categories, Events!EventTypes, First, Last
  <2> QED BY <2>1, <2>2
<1>4. CASE d = 4
  <2>1. Len(Events!Categories[d].types) = Last[d] - First[d] + 1
    BY <1>4 DEF Events!Categories, First, Last
  <2>2. \A i \in 1 .. Last[d] - First[d] + 1 :
          Events!Categories[d].types[i] = Events!EventTypes[First[d] + i - 1]
    BY <1>4 DEF Events!Categories, Events!EventTypes, First, Last
  <2> QED BY <2>1, <2>2
<1>5. CASE d = 5
  <2>1. Len(Events!Categories[d].types) = Last[d] - First[d] + 1
    BY <1>5 DEF Events!Categories, First, Last
  <2>2. \A i \in 1 .. Last[d] - First[d] + 1 :
          Events!Categories[d].types[i] = Events!EventTypes[First[d] + i - 1]
    BY <1>5 DEF Events!Categories, Events!EventTypes, First, Last
  <2> QED BY <2>1, <2>2
<1>6. CASE d = 6
  <2>1. Len(Events!Categories[d].types) = Last[d] - First[d] + 1
    BY <1>6 DEF Events!Categories, First, Last
  <2>2. \A i \in 1 .. Last[d] - First[d] + 1 :
          Events!Categories[d].types[i] = Events!EventTypes[First[d] + i - 1]
    BY <1>6 DEF Events!Categories, Events!EventTypes, First, Last
  <2> QED BY <2>1, <2>2
<1>7. CASE d = 7
  <2>1. Len(Events!Categories[d].types) = Last[d] - First[d] + 1
    BY <1>7 DEF Events!Categories, First, Last
  <2>2. \A i \in 1 .. Last[d] - First[d] + 1 :
          Events!Categories[d].types[i] = Events!EventTypes[First[d] + i - 1]
    BY <1>7 DEF Events!Categories, Events!EventTypes, First, Last
  <2> QED BY <2>1, <2>2
<1>8. CASE d = 8
  <2>1. Len(Events!Categories[d].types) = Last[d] - First[d] + 1
    BY <1>8 DEF Events!Categories, First, Last
  <2>2. \A i \in 1 .. Last[d] - First[d] + 1 :
          Events!Categories[d].types[i] = Events!EventTypes[First[d] + i - 1]
    BY <1>8 DEF Events!Categories, Events!EventTypes, First, Last
  <2> QED BY <2>1, <2>2
<1>9. CASE d = 9
  <2>1. Len(Events!Categories[d].types) = Last[d] - First[d] + 1
    BY <1>9 DEF Events!Categories, First, Last
  <2>2. \A i \in 1 .. Last[d] - First[d] + 1 :
          Events!Categories[d].types[i] = Events!EventTypes[First[d] + i - 1]
    BY <1>9 DEF Events!Categories, Events!EventTypes, First, Last
  <2> QED BY <2>1, <2>2
<1>10. CASE d = 10
  <2>1. Len(Events!Categories[d].types) = Last[d] - First[d] + 1
    BY <1>10 DEF Events!Categories, First, Last
  <2>2. \A i \in 1 .. Last[d] - First[d] + 1 :
          Events!Categories[d].types[i] = Events!EventTypes[First[d] + i - 1]
    BY <1>10 DEF Events!Categories, Events!EventTypes, First, Last
  <2> QED BY <2>1, <2>2
<1>11. CASE d = 11
  <2>1. Len(Events!Categories[d].types) = Last[d] - First[d] + 1
    BY <1>11 DEF Events!Categories, First, Last
  <2>2. \A i \in 1 .. Last[d] - First[d] + 1 :
          Events!Categories[d].types[i] = Events!EventTypes[First[d] + i - 1]
    BY <1>11 DEF Events!Categories, Events!EventTypes, First, Last
  <2> QED BY <2>1, <2>2
<1> QED BY <1>1, <1>2, <1>3, <1>4, <1>5, <1>6, <1>7, <1>8, <1>9, <1>10, <1>11

\* A category holds the types of its numbers, and no others.
LEMMA TypesOf ==
  ASSUME NEW d \in 1 .. 11, NEW k \in 1 .. 53
  PROVE  Events!Contains(Events!Categories[d].types, Events!EventTypes[k])
           <=> k \in First[d] .. Last[d]
<1> DEFINE T == Events!Categories[d].types
           a == First[d]
           b == Last[d]
<1>1. a \in 1 .. 53 /\ b \in a .. 53
  BY DEF First, Last
<1>2. /\ Len(T) = b - a + 1
      /\ \A i \in 1 .. b - a + 1 : T[i] = Events!EventTypes[a + i - 1]
  BY InOrder
<1> HIDE DEF T, a, b
<1>5. ASSUME NEW i \in 1 .. Len(T), T[i] = Events!EventTypes[k]
      PROVE  k \in a .. b
  <2>1. a + i - 1 \in a .. b /\ a + i - 1 \in 1 .. 53
    BY <1>1, <1>2
  <2>2. Events!EventTypes[a + i - 1] = Events!EventTypes[k]
    BY <1>2, <1>5
  <2>3. a + i - 1 = k
    BY <2>1, <2>2, TypesDiffer
  <2> QED BY <2>1, <2>3
<1>6. ASSUME k \in a .. b
      PROVE  \E i \in 1 .. Len(T) : T[i] = Events!EventTypes[k]
  <2> DEFINE i == k - a + 1
  <2>1. i \in 1 .. Len(T) /\ i \in 1 .. b - a + 1 /\ a + i - 1 = k
    BY <1>1, <1>2, <1>6
  <2> HIDE DEF i
  <2>2. T[i] = Events!EventTypes[k]
    BY <1>2, <2>1
  <2> QED BY <2>1, <2>2
<1>7. (\E i \in 1 .. Len(T) : T[i] = Events!EventTypes[k]) <=> k \in a .. b
  BY <1>5, <1>6
<1> QED BY <1>7 DEF Events!Contains, T, a, b

\* Every type is in exactly one category.
LEMMA OneCategory ==
  ASSUME NEW n \in Events!TypeNumbers
  PROVE  \E c \in DOMAIN Events!Categories : \A d \in DOMAIN Events!Categories :
            Events!Contains(Events!Categories[d].types, Events!EventTypes[n + 1]) <=> d = c
<1>1. DOMAIN Events!Categories = 1 .. 11
  BY DEF Events!Categories
<1>2. n + 1 \in 1 .. 53
  BY TypesCounted
<1>3. \E c \in 1 .. 11 : \A d \in 1 .. 11 : n + 1 \in First[d] .. Last[d] <=> d = c
  BY <1>2 DEF First, Last
<1>4. PICK c \in 1 .. 11 : \A d \in 1 .. 11 : n + 1 \in First[d] .. Last[d] <=> d = c
  BY <1>3
<1>5. ASSUME NEW d \in 1 .. 11
      PROVE  Events!Contains(Events!Categories[d].types, Events!EventTypes[n + 1]) <=> d = c
  <2>1. Events!Contains(Events!Categories[d].types, Events!EventTypes[n + 1])
           <=> n + 1 \in First[d] .. Last[d]
    BY <1>2, TypesOf
  <2> QED BY <1>4, <2>1
<1> QED BY <1>1, <1>5

\* The tables of the sensor service.
LEMMA SensorTables ==
  /\ \A c, d \in DOMAIN Events!SensorCategories : c # d =>
        Events!ToSet(Events!SensorCategories[c].types)
          \cap Events!ToSet(Events!SensorCategories[d].types) = {}
  /\ \A p, q \in DOMAIN Events!SensorSeverities :
        p # q => Events!SensorSeverities[p] \cap Events!SensorSeverities[q] = {}
  /\ \A name \in {"SENSOR_ERROR", "SENSOR_CALIBRATION_FAILED", "MANAGER_ERROR",
                  "SENSOR_SELF_TEST_FAILED", "SENSOR_CONFIG_ERROR",
                  "SENSOR_DISCOVERY_ERROR"} : Events!SensorSeverity(name) >= 7
<1>1. \A c, d \in DOMAIN Events!SensorCategories : c # d =>
        Events!ToSet(Events!SensorCategories[c].types)
          \cap Events!ToSet(Events!SensorCategories[d].types) = {}
  BY DEF Events!ToSet, Events!SensorCategories
<1>2. \A p, q \in DOMAIN Events!SensorSeverities :
        p # q => Events!SensorSeverities[p] \cap Events!SensorSeverities[q] = {}
  BY DEF Events!SensorSeverities
<1>3. \A name \in {"SENSOR_ERROR", "SENSOR_CALIBRATION_FAILED", "MANAGER_ERROR",
                  "SENSOR_SELF_TEST_FAILED", "SENSOR_CONFIG_ERROR",
                  "SENSOR_DISCOVERY_ERROR"} : Events!SensorSeverity(name) >= 7
  BY DEF Events!SensorSeverities, Events!SensorSeverity, Events!Rated
<1> QED BY <1>1, <1>2, <1>3

\* TablesAgree, whatever the event.
LEMMA Tables == Events!TablesAgree
BY Kinds, NumbersAgree, OneCategory, SensorTables DEF Events!TablesAgree

-----------------------------------------------------------------------------
Fields == {"type", "deviceId", "timestamp", "message", "category", "severity",
           "source", "correlationId", "tags"}

\* An event with all its members, ...
AnEvent(e) == e = [k \in Fields |-> e[k]] /\ e.timestamp \in Nat

\* ... and after JSON.
Rounded(e) == [k \in Fields |-> IF k = "timestamp" THEN Millis(e.timestamp) ELSE e[k]]

\* DeviceManagerEvent::fromJson(toJson()): only the time is rounded.
LEMMA EventJson ==
  ASSUME NEW e, AnEvent(e)
  PROVE  Events!FromJson(Events!ToJson(e)) = Rounded(e)
<1> DEFINE left == IF e.tags = <<>> THEN {"tags"} ELSE {}
           j == Events!ToJson(e)
           v(k) == CASE k = "timestamp" -> j.timestamp * 1000
                     [] k = "tags" -> IF "tags" \in DOMAIN j THEN j.tags ELSE <<>>
                     [] OTHER -> j[k]
           w(k) == IF k = "timestamp" THEN Millis(e.timestamp) ELSE e[k]
<1>1. DOMAIN e = Fields
  BY DEF AnEvent
<1>2. /\ DOMAIN j = Fields \ left
      /\ \A k \in Fields \ left :
           j[k] = IF k = "timestamp" THEN e.timestamp \div 1000 ELSE e[k]
  BY <1>1 DEF Events!ToJson
<1>3. Events!FromJson(j) = [k \in DOMAIN j \cup {"tags"} |-> v(k)]
  BY DEF Events!FromJson
<1> HIDE DEF j
<1>4. DOMAIN j \cup {"tags"} = Fields
  BY <1>2 DEF Fields
<1>5. ASSUME NEW k \in Fields
      PROVE  v(k) = w(k)
  <2>1. CASE k = "timestamp"
    <3>1. j.timestamp = e.timestamp \div 1000
      BY <1>2 DEF Fields
    <3> QED BY <2>1, <3>1 DEF Millis
  <2>2. CASE k = "tags"
    BY <1>2, <2>2 DEF Fields
  <2>3. CASE k \notin {"timestamp", "tags"}
    BY <1>2, <2>3, <1>5
  <2> QED BY <2>1, <2>2, <2>3
<1>6. Rounded(e) = [k \in Fields |-> w(k)]
  BY DEF Rounded
<1> HIDE DEF v, w
<1>7. Events!FromJson(j) = Rounded(e)
  BY <1>3, <1>4, <1>5, <1>6
<1> QED BY <1>7 DEF j

\* What rounding leaves alone.
LEMMA RoundedIs ==
  ASSUME NEW e, AnEvent(e)
  PROVE  /\ AnEvent(Rounded(e))
         /\ Rounded(e).timestamp = Millis(e.timestamp)
         /\ \A k \in Fields \ {"timestamp"} : Rounded(e)[k] = e[k]
<1>1. /\ Rounded(e).timestamp = Millis(e.timestamp)
      /\ \A k \in Fields \ {"timestamp"} : Rounded(e)[k] = e[k]
      /\ Rounded(e) = [k \in Fields |-> Rounded(e)[k]]
  BY DEF Rounded, Fields
<1>2. Millis(e.timestamp) \in Nat
  BY MillisTwice DEF AnEvent
<1> QED BY <1>1, <1>2 DEF AnEvent

\* Rounding again changes nothing.
LEMMA RoundedTwice ==
  ASSUME NEW e, AnEvent(e)
  PROVE  Rounded(Rounded(e)) = Rounded(e)
<1>1. Rounded(e).timestamp = Millis(e.timestamp) /\ Millis(Millis(e.timestamp)) = Millis(e.timestamp)
  BY RoundedIs, MillisTwice DEF AnEvent
<1>2. \A k \in Fields :
        (IF k = "timestamp" THEN Millis(Rounded(e).timestamp) ELSE Rounded(e)[k])
        = (IF k = "timestamp" THEN Millis(e.timestamp) ELSE e[k])
  BY <1>1, RoundedIs
<1> QED BY <1>2, Zenon DEF Rounded

\* No filter looks at the time.
LEMMA SameButTime ==
  ASSUME NEW e, AnEvent(e)
  PROVE  /\ [Rounded(e) EXCEPT !.timestamp = 0] = [e EXCEPT !.timestamp = 0]
         /\ \A f : Events!Matches(f, Rounded(e)) <=> Events!Matches(f, e)
<1> DEFINE r == Rounded(e)
<1>1. /\ r = [k \in Fields |-> r[k]] /\ e = [k \in Fields |-> e[k]]
      /\ \A k \in Fields \ {"timestamp"} : r[k] = e[k]
  BY RoundedIs DEF AnEvent
<1> HIDE DEF r
<1>2. [r EXCEPT !.timestamp = 0] = [e EXCEPT !.timestamp = 0]
  BY <1>1
<1>3. /\ r.type = e.type /\ r.deviceId = e.deviceId /\ r.category = e.category
      /\ r.source = e.source /\ r.tags = e.tags /\ r.severity = e.severity
      /\ r.correlationId = e.correlationId
  BY <1>1 DEF Fields
<1>4. \A f : Events!Matches(f, r) <=> Events!Matches(f, e)
  BY <1>3 DEF Events!Matches
<1> QED BY <1>2, <1>4 DEF r

\* An error after the conversion to DeviceEvent and back was an error before.
LEMMA Converted ==
  ASSUME NEW n
  PROVE  Events!IsErrorEvent(Events!ConvertFromDeviceEventType(
             Events!ConvertToDeviceEventType(n))) => Events!IsErrorEvent(n)
<1> DEFINE s == Events!TypeToString(n)
           c == CASE s = "DEVICE_COMMAND_STARTED" -> "DEVICE_COMMAND_COMPLETED"
                  [] s = "DEVICE_CALIBRATION_STARTED" -> "DEVICE_CALIBRATION_COMPLETE"
                  [] s = "DEVICE_SELF_TEST_STARTED" -> "DEVICE_SELF_TEST_COMPLETE"
                  [] s = "DEVICE_DISCOVERED" -> "DEVICE_ADDED"
                  [] OTHER -> IF Events!Contains(Events!DeviceEventTypes, s) THEN s
                                                                 ELSE "DEVICE_INFO"
           d == Events!ConvertToDeviceEventType(n)
<1>1. d = Events!DeviceNumberOf(c)
  BY DEF Events!ConvertToDeviceEventType
<1> HIDE DEF d, s
<1>2. DOMAIN Events!DeviceEventTypes = 1 .. 14 /\ Len(Events!DeviceEventTypes) = 14
  BY DEF Events!DeviceEventTypes
<1>3. \E i \in 1 .. 14 : Events!DeviceEventTypes[i] = c
  <2>1. CASE Events!Contains(Events!DeviceEventTypes, s) /\ c = s
    BY <2>1, <1>2 DEF Events!Contains
  <2>2. CASE c \in {"DEVICE_COMMAND_COMPLETED", "DEVICE_CALIBRATION_COMPLETE",
                    "DEVICE_SELF_TEST_COMPLETE", "DEVICE_ADDED", "DEVICE_INFO"}
    <3> HIDE DEF c
    <3>1. /\ Events!DeviceEventTypes[1] = "DEVICE_ADDED"
          /\ Events!DeviceEventTypes[6] = "DEVICE_COMMAND_COMPLETED"
          /\ Events!DeviceEventTypes[8] = "DEVICE_CALIBRATION_COMPLETE"
          /\ Events!DeviceEventTypes[9] = "DEVICE_SELF_TEST_COMPLETE"
          /\ Events!DeviceEventTypes[12] = "DEVICE_INFO"
      BY DEF Events!DeviceEventTypes
    <3> QED BY <2>2, <3>1
  <2> QED BY <2>1, <2>2
<1>4. Events!IsErrorEvent(n) \/ c \notin {"DEVICE_ERROR", "MANAGER_ERROR", "SECURITY_VIOLATION",
     "DEVICE_COMMAND_FAILED", "DEVICE_CALIBRATION_FAILED",
     "DEVICE_SELF_TEST_FAILED", "DEVICE_DISCOVERY_ERROR", "DEVICE_CONFIG_ERROR",
     "AUTH_FAILURE", "PERMISSION_DENIED"}
  BY DEF Events!IsErrorEvent, s
<1> HIDE DEF c
<1>5. \A i \in 1 .. 14 : Events!DeviceEventTypes[i] \in Events!ToSet(Events!EventTypes)
  <2>1. \A i \in 1 .. 14 : \E k \in 1 .. 53 :
          Events!DeviceEventTypes[i] = Events!EventTypes[k]
    BY DEF Events!DeviceEventTypes, Events!EventTypes
  <2> QED BY <2>1, TypesCounted DEF Events!ToSet
<1>6. d + 1 \in 1 .. 14 /\ Events!DeviceEventTypes[d + 1] = c
  <2> DEFINE i == CHOOSE i \in 1 .. 14 : Events!DeviceEventTypes[i] = c
  <2>1. i \in 1 .. 14 /\ Events!DeviceEventTypes[i] = c
    BY <1>3
  <2>2. d = i - 1
    BY <1>1, <1>2 DEF Events!DeviceNumberOf
  <2> HIDE DEF i
  <2>3. d + 1 = i
    BY <2>1, <2>2
  <2> QED BY <2>1, <2>3
<1>7. Events!ConvertFromDeviceEventType(d) = Events!NumberOf[c]
  BY <1>2, <1>6, Zenon DEF Events!ConvertFromDeviceEventType
<1>8. Events!TypeToString(Events!NumberOf[c]) = c
  BY <1>5, <1>6, NameNumber
<1> QED BY <1>4, <1>7, <1>8 DEF Events!IsErrorEvent, d

-----------------------------------------------------------------------------

\* What has become of the event that was made.
EventsInv ==
  /\ AnEvent(origin)
  /\ way = "made" => event = origin
  /\ way = "json" => event = Rounded(origin)
  /\ way = "device" =>
       /\ event.deviceId = origin.deviceId
       /\ Events!IsErrorEvent(event.type) => Events!IsErrorEvent(origin.type)
       /\ event.category = Events!GetEventCategory(event.type)
       /\ event.severity = Events!GetEventPriority(event.type)
  /\ way \in {"made", "json", "device"}

\* The events that are made have all the members, and a time.
LEMMA EventsInit ==
  ASSUME StoredAssumption, Events!Init
  PROVE  EventsInv
<1>1. EventTimes \subseteq Nat
  BY DEF StoredAssumption, Events!EventsAssumption
<1>2. AnEvent(origin)
  <2> DEFINE made(d, id, t, m) == Events!CreateEvent(
               [type |-> d, deviceId |-> id, timestamp |-> t, message |-> m])
             A == {made(d, id, t, m) : d \in 0 .. Len(Events!DeviceEventTypes),
                     id \in DeviceIds, t \in EventTimes, m \in Texts}
             B == [type : Events!TypeNumbers \cup {99}, deviceId : DeviceIds,
                   timestamp : EventTimes, message : {Events!NoText},
                   category : {"device", "custom"}, severity : Severities,
                   source : Texts, correlationId : Texts, tags : Tags]
  <2>1. Events!Made = A \cup B
    BY DEF Events!Made
  <2>2. CASE origin \in A
    <3> HIDE DEF made
    <3>1. PICK d \in 0 .. Len(Events!DeviceEventTypes), id \in DeviceIds,
               t \in EventTimes, m \in Texts : origin = made(d, id, t, m)
      BY <2>2
    <3>2. PICK ty, cat, sev, no : made(d, id, t, m) =
            [type |-> ty, deviceId |-> id, timestamp |-> t, message |-> m,
             category |-> cat, severity |-> sev, source |-> no,
             correlationId |-> no, tags |-> <<>>]
      BY DEF made, Events!CreateEvent
    <3> QED BY <1>1, <3>1, <3>2 DEF AnEvent, Fields
  <2>3. CASE origin \in B
    BY <1>1, <2>3 DEF AnEvent, Fields
  <2> HIDE DEF A, B
  <2> QED BY <2>1, <2>2, <2>3 DEF Events!Init
<1> QED BY <1>2 DEF Events!Init, EventsInv

\* JSON rounds the event; DeviceEvent keeps the device, and errors are not made up.
LEMMA EventsStep ==
  ASSUME EventsInv, [Events!Next]_eventVars
  PROVE  EventsInv'
<1>1. CASE UNCHANGED eventVars
  BY <1>1 DEF EventsInv, eventVars
<1>2. CASE Events!PassJson
  <2>1. event = origin \/ event = Rounded(origin)
    BY <1>2 DEF Events!PassJson, EventsInv
  <2>2. AnEvent(event) /\ Rounded(event) = Rounded(origin)
    BY <2>1, RoundedIs, RoundedTwice DEF EventsInv
  <2>3. event' = Rounded(origin) /\ origin' = origin /\ way' = "json"
    BY <1>2, <2>2, EventJson DEF Events!PassJson
  <2> QED BY <2>3 DEF EventsInv
<1>3. CASE Events!PassDevice
  <2>1. /\ event.deviceId = origin.deviceId
        /\ Events!IsErrorEvent(event.type) => Events!IsErrorEvent(origin.type)
    <3>1. CASE event = origin \/ event = Rounded(origin)
      BY <3>1, RoundedIs DEF EventsInv, Fields
    <3> QED BY <3>1 DEF EventsInv
  <2> DEFINE ty == Events!ConvertFromDeviceEventType(
                       Events!ConvertToDeviceEventType(event.type))
  <2>2. /\ event'.deviceId = event.deviceId /\ event'.type = ty
        /\ event'.category = Events!GetEventCategory(ty)
        /\ event'.severity = Events!GetEventPriority(ty)
    BY <1>3 DEF Events!PassDevice, Events!CreateEvent, Events!CreateDeviceEvent
  <2>3. Events!IsErrorEvent(ty) => Events!IsErrorEvent(event.type)
    BY Converted
  <2> HIDE DEF ty
  <2>4. origin' = origin /\ way' = "device"
    BY <1>3 DEF Events!PassDevice
  <2> QED BY <2>1, <2>2, <2>3, <2>4 DEF EventsInv
<1> QED BY <1>1, <1>2, <1>3 DEF Events!Next

\* EventsInv says more than EventsSurvive.
LEMMA EventsHold == EventsInv => Events!EventsSurvive /\ Events!TablesAgree
<1>1. ASSUME EventsInv, way = "json"
      PROVE  /\ event.timestamp = (origin.timestamp \div 1000) * 1000
             /\ [event EXCEPT !.timestamp = 0] = [origin EXCEPT !.timestamp = 0]
             /\ \A f \in Filters : Events!Matches(f, event) <=> Events!Matches(f, origin)
  BY <1>1, RoundedIs, SameButTime DEF EventsInv, Millis
<1> QED BY <1>1, Tables DEF EventsInv, Events!EventsSurvive

-----------------------------------------------------------------------------
(* The readings of the sensors.                                            *)

\* A reading with all its members.
AReading(type, t, valid, values, metadata) ==
    [type |-> type, timestamp |-> t, isValid |-> valid, values |-> values,
     metadata |-> metadata]

\* No value is a number of its own in JSON: 0 comes back.
Numbered(values) == [k \in DOMAIN values |-> IF values[k] = {} THEN {0} ELSE values[k]]

\* SensorReading::fromJson(toJson()): the time is rounded, no value becomes 0, the
\* metadata that was left out is empty again.
LEMMA ReadingJson ==
  ASSUME NEW type, NEW t \in Nat, NEW valid, NEW values, NEW metadata
  PROVE  Sensed!FromJson(Sensed!ToJson(AReading(type, t, valid, values, metadata)))
         = AReading(type, Millis(t), valid, Numbered(values), metadata)
<1> DEFINE r == AReading(type, t, valid, values, metadata)
           j == Sensed!ToJson(r)
<1>1. /\ DOMAIN r = {"type", "timestamp", "isValid", "values", "metadata"}
      /\ r.type = type /\ r.timestamp = t /\ r.isValid = valid /\ r.values = values
      /\ r.metadata = metadata
  BY DEF AReading
<1> HIDE DEF r
<1>2. /\ DOMAIN j = DOMAIN r \ (IF metadata = {} THEN {"metadata"} ELSE {})
      /\ j["type"] = type /\ j["isValid"] = valid /\ j["values"] = values
      /\ j["timestamp"] = t \div 1000
      /\ "metadata" \in DOMAIN j => j["metadata"] = metadata
  BY <1>1 DEF Sensed!ToJson
<1>3. "metadata" \in DOMAIN j <=> metadata # {}
  BY <1>1, <1>2
<1> HIDE DEF j
<1>4. Sensed!FromJson(j) = [k \in {"type", "timestamp", "isValid", "values", "metadata"} |->
         CASE k = "timestamp" -> Millis(t) [] k = "values" -> Numbered(values)
           [] k = "metadata" -> metadata [] OTHER -> j[k]]
  BY <1>2, <1>3 DEF Sensed!FromJson, Millis, Numbered
<1>5. Sensed!FromJson(j) = AReading(type, Millis(t), valid, Numbered(values), metadata)
  BY <1>2, <1>4 DEF AReading
<1> QED BY <1>5 DEF j, r

\* Whether the reading has come out of JSON, and what becomes of one that has.
HasBeenRead == passes > 1 \/ (passes = 1 /\ asText = {})
Measurement == AReading(measured.type, measured.timestamp, measured.isValid,
                        measured.values, measured.metadata)
OutOfJson == AReading(measured.type, Millis(measured.timestamp), measured.isValid,
                      Numbered(measured.values), measured.metadata)

\* The reading is the measurement until it has been read, and from then on the same
\* rounded one.  What is written is always the reading of now.
SensedInv ==
    /\ measured = Measurement /\ measured.timestamp \in Nat
    /\ measured.values = [k \in Sensed!Keys[measured.type] |-> measured.values[k]]
    /\ passes \in Nat /\ asText \in {{}, {Sensed!ToJson(reading)}}
    /\ asText # {} => passes > 0
    /\ reading = IF HasBeenRead THEN OutOfJson ELSE Measurement

\* What the drivers measure has all the members.
LEMMA SensedInit == ASSUME StoredAssumption, Sensed!Init PROVE SensedInv
<1>1. PICK type \in DOMAIN Sensed!Keys,
           key \in UNION {Sensed!Keys[k] : k \in DOMAIN Sensed!Keys},
           v \in Values, w \in Values, t \in Measured :
         measured = Sensed!ToReading(type, key, v, w, t)
  BY DEF Sensed!Init
<1>2. t \in Nat
  BY DEF StoredAssumption, Sensed!ReadingsAssumption
<1>3. measured = AReading(type, t, TRUE, [k \in Sensed!Keys[type] |-> IF k = key THEN v ELSE w],
                          IF type = "GPS" THEN {"gps_timestamp"} ELSE {})
  BY <1>1 DEF Sensed!ToReading, AReading
<1>4. /\ measured.type = type /\ measured.timestamp = t /\ measured.isValid = TRUE
      /\ measured.values = [k \in Sensed!Keys[type] |-> IF k = key THEN v ELSE w]
      /\ measured.metadata = IF type = "GPS" THEN {"gps_timestamp"} ELSE {}
  BY <1>3 DEF AReading
<1>5. measured = Measurement
  BY <1>3, <1>4 DEF Measurement
<1>6. measured.values = [k \in Sensed!Keys[measured.type] |-> measured.values[k]]
  BY <1>4
<1>7. reading = measured /\ asText = {} /\ passes = 0
  BY DEF Sensed!Init
<1>8. ~ HasBeenRead
  BY <1>7 DEF HasBeenRead
<1>9. reading = Measurement /\ measured.timestamp \in Nat
  BY <1>2, <1>4, <1>5, <1>7
<1> QED BY <1>5, <1>6, <1>7, <1>8, <1>9 DEF SensedInv

\* The second time nothing changes.
LEMMA NumberedTwice ==
  ASSUME NEW S, NEW values, values = [k \in S |-> values[k]]
  PROVE  /\ Numbered(values) = [k \in S |-> IF values[k] = {} THEN {0} ELSE values[k]]
         /\ Numbered(Numbered(values)) = Numbered(values)
<1>1. DOMAIN values = S
  OBVIOUS
<1>2. Numbered(values) = [k \in S |-> IF values[k] = {} THEN {0} ELSE values[k]]
  BY <1>1 DEF Numbered
<1>3. \A k \in S : Numbered(values)[k] # {}
  BY <1>2
<1>4. Numbered(Numbered(values)) = [k \in S |-> Numbered(values)[k]]
  BY <1>2, <1>3 DEF Numbered
<1> QED BY <1>2, <1>4

\* Writing changes nothing, reading rounds, once.
LEMMA SensedStep == SensedInv /\ [Sensed!Next]_(Sensed!readingVars) => SensedInv'
<1> SUFFICES ASSUME SensedInv, [Sensed!Next]_(Sensed!readingVars) PROVE SensedInv'
  OBVIOUS
<1> USE DEF SensedInv
<1>1. CASE Sensed!Write
  <2>1. /\ asText = {} /\ passes' = passes + 1 /\ asText' = {Sensed!ToJson(reading)}
        /\ measured' = measured /\ reading' = reading
    BY <1>1 DEF Sensed!Write
  <2>2. HasBeenRead' <=> HasBeenRead
    BY <2>1 DEF HasBeenRead
  <2>3. Measurement' = Measurement /\ OutOfJson' = OutOfJson
    BY <2>1 DEF Measurement, OutOfJson
  <2> QED BY <2>1, <2>2, <2>3
<1>2. CASE Sensed!Read
  <2>1. /\ asText # {} /\ asText' = {} /\ passes' = passes /\ measured' = measured
        /\ reading' = Sensed!FromJson(CHOOSE j \in asText : TRUE)
    BY <1>2 DEF Sensed!Read
  <2>2. asText = {Sensed!ToJson(reading)} /\ passes > 0
    BY <2>1
  <2>3. (CHOOSE j \in asText : TRUE) = Sensed!ToJson(reading)
    BY <2>2
  <2>4. HasBeenRead'
    BY <2>1, <2>2 DEF HasBeenRead
  <2>5. Measurement' = Measurement /\ OutOfJson' = OutOfJson
    BY <2>1 DEF Measurement, OutOfJson
  <2>6. /\ Millis(measured.timestamp) \in Nat
        /\ Millis(Millis(measured.timestamp)) = Millis(measured.timestamp)
    BY MillisTwice
  <2>7. Numbered(Numbered(measured.values)) = Numbered(measured.values)
    BY NumberedTwice, Zenon
  <2>8. Sensed!FromJson(Sensed!ToJson(Measurement)) = OutOfJson
    BY ReadingJson DEF Measurement, OutOfJson
  <2>9. Sensed!FromJson(Sensed!ToJson(OutOfJson)) = OutOfJson
    BY ReadingJson, <2>6, <2>7 DEF OutOfJson
  <2>10. reading' = OutOfJson
    BY <2>1, <2>3, <2>8, <2>9
  <2> QED BY <2>1, <2>4, <2>5, <2>10
<1>3. CASE UNCHANGED Sensed!readingVars
  BY <1>3 DEF Sensed!readingVars, HasBeenRead, Measurement, OutOfJson
<1> QED BY <1>1, <1>2, <1>3 DEF Sensed!Next

\* Two members of a reading replaced.
LEMMA ReadingExcept ==
  ASSUME NEW r, NEW u, NEW other,
         r = AReading(r.type, r.timestamp, r.isValid, r.values, r.metadata)
  PROVE  [r EXCEPT !.timestamp = u, !.values = other]
         = AReading(r.type, u, r.isValid, other, r.metadata)
<1> DEFINE e == [r EXCEPT !.timestamp = u, !.values = other]
           a == AReading(r.type, u, r.isValid, other, r.metadata)
           members == {"type", "timestamp", "isValid", "values", "metadata"}
<1>1. r = [k \in members |-> r[k]]
  BY DEF AReading
<1>2. e = [k \in members |-> e[k]]
  BY <1>1
<1>3. /\ e["timestamp"] = u /\ e["values"] = other /\ e["type"] = r.type
      /\ e["isValid"] = r.isValid /\ e["metadata"] = r.metadata
  BY <1>1
<1>4. /\ a = [k \in members |-> a[k]]
      /\ a["timestamp"] = u /\ a["values"] = other /\ a["type"] = r.type
      /\ a["isValid"] = r.isValid /\ a["metadata"] = r.metadata
  BY DEF AReading
<1> HIDE DEF e, a
<1>5. e = a
  BY <1>2, <1>3, <1>4
<1> QED BY <1>5 DEF e, a

\* SensedInv says more than ReadingsSurvive.
LEMMA SensedHolds == SensedInv => Sensed!ReadingsSurvive
<1> SUFFICES ASSUME SensedInv PROVE Sensed!ReadingsSurvive
  OBVIOUS
<1> DEFINE Expected(v) == IF HasBeenRead /\ v = {} THEN {0} ELSE v
           time == IF HasBeenRead THEN (measured.timestamp \div 1000) * 1000
                                  ELSE measured.timestamp
           expected == [k \in Sensed!Keys[measured.type] |-> Expected(measured.values[k])]
<1>1. [measured EXCEPT !.timestamp = time, !.values = expected]
      = AReading(measured.type, time, measured.isValid, expected, measured.metadata)
  <2>1. measured = AReading(measured.type, measured.timestamp, measured.isValid,
                            measured.values, measured.metadata)
    BY Zenon DEF SensedInv, Measurement
  <2> HIDE DEF time, expected
  <2> QED BY <2>1, ReadingExcept, Zenon
<1>2. Sensed!ReadingsSurvive <=>
         reading = [measured EXCEPT !.timestamp = time, !.values = expected]
  BY Zenon DEF Sensed!ReadingsSurvive, HasBeenRead
<1>3. CASE HasBeenRead
  <2>1. Numbered(measured.values) = expected
    <3>1. measured.values = [k \in Sensed!Keys[measured.type] |-> measured.values[k]]
      BY DEF SensedInv
    <3>2. Numbered(measured.values)
          = [k \in Sensed!Keys[measured.type] |->
                IF measured.values[k] = {} THEN {0} ELSE measured.values[k]]
      BY <3>1, NumberedTwice, Zenon
    <3> QED BY <1>3, <3>2
  <2>2. time = Millis(measured.timestamp)
    BY <1>3 DEF Millis
  <2>3. reading = OutOfJson
    BY <1>3 DEF SensedInv
  <2> HIDE DEF time, expected
  <2> QED BY <1>1, <1>2, <2>1, <2>2, <2>3, Zenon DEF OutOfJson
<1>4. CASE ~ HasBeenRead
  <2>1. expected = measured.values
    BY <1>4 DEF SensedInv
  <2>2. time = measured.timestamp
    BY <1>4
  <2>3. reading = Measurement
    BY <1>4 DEF SensedInv
  <2> HIDE DEF time, expected
  <2> QED BY <1>1, <1>2, <2>1, <2>2, <2>3, Zenon DEF Measurement
<1> QED BY <1>3, <1>4

-----------------------------------------------------------------------------
(* The records of devices.                                                 *)

\* What a record is, whenever it was seen.
InfoMembers == {"id", "type", "name", "seen", "properties", "address"}
AnyInfos == [id : Ids, type : Types, name : Names, seen : Nat,
             properties : Params, address : [params : Params]]

\* A map that was left out is empty when it is read.
LEMMA MapJson ==
  ASSUME NEW r, NEW member, member \in DOMAIN r, r = [k \in DOMAIN r |-> r[k]]
  PROVE  /\ Records!Restored(Records!WithoutEmpty(r, member), member) = r
         /\ DOMAIN Records!WithoutEmpty(r, member) \subseteq DOMAIN r
         /\ \A k \in DOMAIN r : k # member =>
                /\ k \in DOMAIN Records!WithoutEmpty(r, member)
                /\ Records!WithoutEmpty(r, member)[k] = r[k]
<1> DEFINE j == Records!WithoutEmpty(r, member)
<1>1. /\ DOMAIN j = DOMAIN r \ (IF r[member] = <<>> THEN {member} ELSE {})
      /\ \A k \in DOMAIN j : j[k] = r[k]
  BY DEF Records!WithoutEmpty
<1> HIDE DEF j
<1>2. DOMAIN j \cup {member} = DOMAIN r
  BY <1>1
<1>3. \A k \in DOMAIN r : k \notin DOMAIN j => r[k] = <<>>
  BY <1>1
<1>4. Records!Restored(j, member) = [k \in DOMAIN r |-> r[k]]
  BY <1>1, <1>2, <1>3 DEF Records!Restored
<1> QED BY <1>1, <1>2, <1>4 DEF j

\* A record after JSON.
Seconds(info) == [info EXCEPT !.seen = Millis(@)]

\* Two members of a record replaced.
LEMMA TwoMembers ==
  ASSUME NEW r, r = [k \in DOMAIN r |-> r[k]], "address" \in DOMAIN r, "seen" \in DOMAIN r,
         NEW x, NEW y
  PROVE  LET u == [r EXCEPT !.address = x, !.seen = y]
         IN  /\ DOMAIN u = DOMAIN r /\ u = [k \in DOMAIN r |-> u[k]]
             /\ u["address"] = x /\ u["seen"] = y
             /\ \A k \in DOMAIN r : k \notin {"address", "seen"} => u[k] = r[k]
<1>1. [r EXCEPT !.address = x, !.seen = y]
      = [k \in DOMAIN r |-> IF k = "seen" THEN y ELSE IF k = "address" THEN x ELSE r[k]]
  OBVIOUS
<1> QED BY <1>1

\* DeviceInfo::fromJson(toJson()): only the time is rounded, and the file shows the
\* identifier and the type as they are.
LEMMA InfoJson ==
  ASSUME NEW info \in AnyInfos
  PROVE  /\ Records!InfoFromJson(Records!InfoToJson(info)) = Seconds(info)
         /\ Records!InfoToJson(info).id = info.id
         /\ Records!InfoToJson(info).type = info.type
<1> DEFINE a == Records!AddressToJson(info.address)
           w == [info EXCEPT !.address = Records!AddressToJson(@), !.seen = @ \div 1000]
           j == Records!InfoToJson(info)
           b == [j EXCEPT !.address = Records!AddressFromJson(@), !.seen = @ * 1000]
<1>1. /\ info = [k \in InfoMembers |-> info[k]] /\ info.seen \in Nat
      /\ info.address \in [params : Params]
  BY DEF AnyInfos, InfoMembers
<1>2. Records!AddressFromJson(a) = info.address
  <2>1. info.address = [k \in DOMAIN info.address |-> info.address[k]]
        /\ "params" \in DOMAIN info.address
    BY <1>1
  <2> QED BY <2>1, MapJson DEF Records!AddressFromJson, Records!AddressToJson
<1>3. /\ w = [k \in InfoMembers |-> w[k]]
      /\ w["id"] = info.id /\ w["type"] = info.type /\ w["name"] = info.name
      /\ w["properties"] = info.properties
      /\ w["address"] = a /\ w["seen"] = info.seen \div 1000
  <2>1. DOMAIN info = InfoMembers
    BY <1>1
  <2>2. /\ DOMAIN w = InfoMembers /\ w = [k \in InfoMembers |-> w[k]]
        /\ w["address"] = a /\ w["seen"] = info.seen \div 1000
        /\ \A k \in InfoMembers : k \notin {"address", "seen"} => w[k] = info[k]
    <3> DEFINE t == info.seen \div 1000
    <3> HIDE DEF a, t
    <3>1. w = [info EXCEPT !.address = a, !.seen = t]
      BY DEF a, t
    <3> HIDE DEF w
    <3>2. "address" \in DOMAIN info /\ "seen" \in DOMAIN info
      BY <2>1 DEF InfoMembers
    <3>3. info = [k \in DOMAIN info |-> info[k]]
      BY <1>1, <2>1
    <3>4. /\ DOMAIN w = DOMAIN info /\ w = [k \in DOMAIN info |-> w[k]]
          /\ w["address"] = a /\ w["seen"] = t
          /\ \A k \in DOMAIN info : k \notin {"address", "seen"} => w[k] = info[k]
      BY <3>1, <3>2, <3>3, TwoMembers
    <3> QED BY <2>1, <3>4 DEF t
  <2> HIDE DEF w, a
  <2> QED BY <2>2 DEF InfoMembers
<1>4. j = Records!WithoutEmpty(w, "properties")
  BY Zenon DEF Records!InfoToJson
<1> HIDE DEF a, w, j
<1>5. DOMAIN w = InfoMembers /\ w = [k \in DOMAIN w |-> w[k]] /\ "properties" \in DOMAIN w
  BY <1>3 DEF InfoMembers
<1>6. /\ Records!Restored(j, "properties") = w
      /\ DOMAIN j \subseteq InfoMembers
      /\ \A k \in InfoMembers : k # "properties" => k \in DOMAIN j /\ j[k] = w[k]
  BY <1>4, <1>5, MapJson
<1>7. /\ j = [k \in DOMAIN j |-> j[k]]
  BY <1>4 DEF Records!WithoutEmpty
<1>8. /\ DOMAIN b = DOMAIN j /\ b["address"] = info.address /\ b["seen"] = Millis(info.seen)
      /\ \A k \in DOMAIN j : k \notin {"address", "seen"} => b[k] = j[k]
  <2>1. /\ "address" \in DOMAIN j /\ "seen" \in DOMAIN j
        /\ j["address"] = a /\ j["seen"] = info.seen \div 1000
    BY <1>3, <1>6 DEF InfoMembers
  <2>2. Records!AddressFromJson(j["address"]) = info.address
    BY <2>1, <1>2
  <2>3. j["seen"] * 1000 = Millis(info.seen)
    BY <2>1 DEF Millis
  <2>4. b = [j EXCEPT !.address = info.address, !.seen = Millis(info.seen)]
    BY <2>2, <2>3, ZenonT(40)
  <2> HIDE DEF b
  <2> QED BY <1>7, <2>1, <2>4, TwoMembers
<1> HIDE DEF b
<1>9. Records!Restored(b, "properties") = [k \in InfoMembers |->
          IF k = "seen" THEN Millis(info.seen) ELSE info[k]]
  <2>1. DOMAIN b \cup {"properties"} = InfoMembers
    BY <1>6, <1>8 DEF InfoMembers
  <2>2. \A k \in InfoMembers : k \in DOMAIN b =>
            b[k] = IF k = "seen" THEN Millis(info.seen) ELSE info[k]
    <3> SUFFICES ASSUME NEW k \in InfoMembers, k \in DOMAIN b
                 PROVE  b[k] = IF k = "seen" THEN Millis(info.seen) ELSE info[k]
      OBVIOUS
    <3>1. CASE k \in {"address", "seen"}
      BY <1>8, <3>1
    <3>2. CASE k \notin {"address", "seen"}
      <4>1. b[k] = j[k]
        BY <1>8, <3>2
      <4>2. j[k] = w[k]
        <5>1. CASE k = "properties"
          BY <1>6, <1>8, <5>1 DEF Records!Restored
        <5> QED BY <1>6, <5>1
      <4>3. w[k] = info[k]
        BY <1>3, <3>2 DEF InfoMembers
      <4> QED BY <3>2, <4>1, <4>2, <4>3
    <3> QED BY <3>1, <3>2
  <2>3. \A k \in InfoMembers : k \notin DOMAIN b => k = "properties" /\ info.properties = <<>>
    <3>1. Records!Restored(j, "properties")["properties"] = info.properties
      BY <1>3, <1>6
    <3>2. "properties" \notin DOMAIN j => Records!Restored(j, "properties")["properties"] = <<>>
      BY DEF Records!Restored
    <3> QED BY <1>6, <1>8, <3>1, <3>2
  <2> QED BY <2>1, <2>2, <2>3 DEF Records!Restored
<1>10. Seconds(info) = [k \in InfoMembers |->
          IF k = "seen" THEN Millis(info.seen) ELSE info[k]]
  BY <1>1 DEF Seconds, InfoMembers
<1>11. Records!InfoFromJson(j) = Records!Restored(b, "properties")
  BY Zenon DEF Records!InfoFromJson, b
<1>12. j.id = info.id /\ j.type = info.type
  BY <1>3, <1>6 DEF InfoMembers
<1> QED BY <1>9, <1>10, <1>11, <1>12 DEF j
\* A record a device was given at some time, to the second.
FromGiven(r) == \E g \in given :
    /\ [r EXCEPT !.seen = 0] = [g EXCEPT !.seen = 0]
    /\ r.seen \in {g.seen, Millis(g.seen)}

\* What is in the file.
Written(j) == \E r \in AnyInfos : FromGiven(r) /\ j = Records!InfoToJson(r)

\* The factory: a creator without a function is one of the built-in types of a manager
\* that has been made, and only a registration of its own replaces it.
CreatorsInv ==
    /\ creators \in [Types -> {"none", "empty", "own"}]
    /\ \A t \in Types : creators[t] = "empty" => manager
    /\ manager => \A t \in Types :
           creators[t] # "own" => (creators[t] = "empty" <=> t \in Records!BuiltIn)

\* The devices of the manager: finitely many, one for each identifier, each with a
\* record it was given at some time.
RegistryInv ==
    /\ records \subseteq AnyInfos /\ given \subseteq AnyInfos /\ IsFiniteSet(records)
    /\ \A r, s \in records : r.id = s.id => r = s
    /\ \A r \in records : FromGiven(r)

\* The file is a sequence of such records.
FileInv == \E n \in Nat : /\ DOMAIN saved.devices = 1 .. n
                          /\ \A i \in 1 .. n : Written(saved.devices[i])

RecordsInv == CreatorsInv /\ RegistryInv /\ FileInv

\* There is no device and no file.
LEMMA RecordsInit == Records!Init => RecordsInv
<1> SUFFICES ASSUME Records!Init PROVE RecordsInv
  OBVIOUS
<1>1. CreatorsInv
  BY DEF Records!Init, CreatorsInv
<1>2. RegistryInv
  BY FS_EmptySet DEF Records!Init, RegistryInv
<1>3. FileInv
  <2>1. saved.devices = <<>>
    BY DEF Records!Init, Records!NoFile
  <2>2. DOMAIN saved.devices = 1 .. 0 /\ 0 \in Nat /\ \A i \in 1 .. 0 : FALSE
    BY <2>1
  <2> QED BY <2>2 DEF FileInv
<1> QED BY <1>1, <1>2, <1>3 DEF RecordsInv

\* What is added to the given records leaves what came from them.
LEMMA GivenGrows == given \subseteq given' => \A r : FromGiven(r) => FromGiven(r)'
BY DEF FromGiven

\* The file stays right when more records are given.
LEMMA FileStays == FileInv /\ UNCHANGED saved /\ given \subseteq given' => FileInv'
BY GivenGrows DEF FileInv, Written

\* The file that saveConfig() writes of finitely many devices: each once, in some order.
LEMMA FileOf ==
  ASSUME NEW S, IsFiniteSet(S)
  PROVE  /\ IsFiniteSet({Records!InfoToJson(r) : r \in S})
         /\ \E n \in Nat : LET q == Records!SetToSeq({Records!InfoToJson(r) : r \in S})
                           IN  q \in [1 .. n -> {Records!InfoToJson(r) : r \in S}]
<1> DEFINE T == {Records!InfoToJson(r) : r \in S}
           f == [r \in S |-> Records!InfoToJson(r)]
<1>1. f \in Surjection(S, T)
  BY DEF Surjection
<1>2. IsFiniteSet(T)
  BY <1>1, FS_Surjection
<1> HIDE DEF T, f
<1>3. Cardinality(T) \in Nat /\ ExistsBijection(1 .. Cardinality(T), T)
  BY <1>2, FS_CardinalityType
<1>4. PICK g \in [1 .. Cardinality(T) -> T] : Records!IsInjective(g)
  BY <1>3 DEF ExistsBijection, Bijection, Injection, IsInjective, Records!IsInjective
<1>5. Records!Cardinality(T) = Cardinality(T)
  BY Zenon DEF Records!Cardinality, Cardinality
<1>6. Records!SetToSeq(T) \in [1 .. Cardinality(T) -> T]
  BY <1>4, <1>5 DEF Records!SetToSeq
<1> QED BY <1>2, <1>3, <1>6 DEF T

\* Who registers creators.
LEMMA CreatorsStep ==
  ASSUME CreatorsInv, [Records!Next]_(Records!recordVars)
  PROVE  CreatorsInv'
<1>1. CASE Records!MakeManager
  BY <1>1 DEF Records!MakeManager, CreatorsInv, Records!RegisterBuiltInDevices
<1>2. CASE \E t \in Types : Records!RegisterDevice(t)
  BY <1>2 DEF Records!RegisterDevice, CreatorsInv
<1>3. CASE Records!Restart
  BY <1>3 DEF Records!Restart, CreatorsInv
<1>4. CASE UNCHANGED <<creators, manager>>
  BY <1>4 DEF CreatorsInv
<1>5. \/ Records!SaveConfig \/ Records!LoadConfig
      \/ \E list \in {<<>>, saved.devices}, path \in BOOLEAN : Records!Initialize(list, path)
      \/ \E info \in Records!Infos : Records!AddDevice(info)
      \/ \E r \in records, p \in Params : Records!SetProperty(r, p)
      => UNCHANGED <<creators, manager>>
  BY DEF Records!SaveConfig, Records!LoadConfig, Records!Initialize,
     Records!AddDevice, Records!SetProperty
<1>6. UNCHANGED Records!recordVars => UNCHANGED <<creators, manager>>
  BY DEF Records!recordVars
<1> QED BY <1>1, <1>2, <1>3, <1>4, <1>5, <1>6 DEF Records!Next

\* addDevice() gives a record to a new identifier.
LEMMA AddStep ==
  ASSUME StoredAssumption, RegistryInv, NEW info \in Records!Infos, Records!AddDevice(info)
  PROVE  RegistryInv' /\ given \subseteq given' /\ UNCHANGED saved
<1>1. info \in AnyInfos
  BY DEF StoredAssumption, Records!RecordsAssumption, Records!Infos, AnyInfos
<1>2. /\ records' = records \cup {info} /\ given' = given \cup {info} /\ saved' = saved
      /\ \A r \in records : r.id # info.id
  BY DEF Records!AddDevice
<1>3. IsFiniteSet(records')
  BY <1>2, FS_AddElement DEF RegistryInv
<1>4. FromGiven(info)'
  BY <1>2 DEF FromGiven
<1>5. \A r \in records : FromGiven(r)'
  BY <1>2, GivenGrows DEF RegistryInv
<1> QED BY <1>1, <1>2, <1>3, <1>4, <1>5 DEF RegistryInv

\* A property is given to a device.
LEMMA SetStep ==
  ASSUME RegistryInv, NEW r \in records, NEW p \in Params, Records!SetProperty(r, p)
  PROVE  RegistryInv' /\ given \subseteq given' /\ UNCHANGED saved
<1> DEFINE now == [r EXCEPT !.properties = p]
<1>1. r \in AnyInfos
  BY DEF RegistryInv
<1>2. now \in AnyInfos /\ now.id = r.id
  BY <1>1 DEF AnyInfos
<1>3. /\ records' = (records \ {r}) \cup {now} /\ given' = given \cup {now}
      /\ saved' = saved
  BY DEF Records!SetProperty
<1> HIDE DEF now
<1>4. IsFiniteSet(records')
  BY <1>3, FS_AddElement, FS_RemoveElement DEF RegistryInv
<1>5. FromGiven(now)'
  BY <1>3 DEF FromGiven
<1>6. \A s \in records : FromGiven(s)'
  BY <1>3, GivenGrows DEF RegistryInv
<1>7. \A s \in records \ {r} : s.id # now.id
  BY <1>2 DEF RegistryInv
<1> QED BY <1>2, <1>3, <1>4, <1>5, <1>6, <1>7 DEF RegistryInv

\* saveConfig() writes what the devices were given.
LEMMA SaveStep ==
  ASSUME RegistryInv, Records!SaveConfig
  PROVE  RegistryInv' /\ FileInv'
<1>1. /\ records' = records /\ given' = given
      /\ saved'.devices = Records!SetToSeq({Records!InfoToJson(r) : r \in records})
  BY DEF Records!SaveConfig
<1>2. PICK n \in Nat : saved'.devices \in [1 .. n -> {Records!InfoToJson(r) : r \in records}]
  BY <1>1, FileOf DEF RegistryInv
<1>3. \A j \in {Records!InfoToJson(r) : r \in records} : Written(j)'
  BY <1>1 DEF RegistryInv, Written, FromGiven
<1> QED BY <1>1, <1>2, <1>3 DEF RegistryInv, FileInv, FromGiven

\* What the file gives back.
LEMMA ReadBack ==
  ASSUME NEW j, Written(j), given \subseteq AnyInfos
  PROVE  /\ Records!InfoFromJson(j) \in AnyInfos
         /\ FromGiven(Records!InfoFromJson(j))
         /\ Records!InfoFromJson(j).id = j.id
         /\ Records!InfoFromJson(j).type = j.type
         /\ j.type \in Types
<1>1. PICK r \in AnyInfos : FromGiven(r) /\ j = Records!InfoToJson(r)
  BY DEF Written
<1>2. /\ Records!InfoFromJson(j) = Seconds(r) /\ j.id = r.id /\ j.type = r.type
  BY <1>1, InfoJson
<1>3. PICK g \in given : /\ [r EXCEPT !.seen = 0] = [g EXCEPT !.seen = 0]
                         /\ r.seen \in {g.seen, Millis(g.seen)}
  BY <1>1 DEF FromGiven
<1>4. g.seen \in Nat /\ r.seen \in Nat
  BY <1>3 DEF AnyInfos
<1>5. Millis(r.seen) = Millis(g.seen) /\ Millis(r.seen) \in Nat
  BY <1>3, <1>4, MillisTwice
<1> HIDE DEF Millis
<1>6. /\ Seconds(r) \in AnyInfos /\ Seconds(r).id = r.id /\ Seconds(r).type = r.type
      /\ Seconds(r).seen = Millis(r.seen)
  BY <1>5 DEF Seconds, AnyInfos
<1>7. [Seconds(r) EXCEPT !.seen = 0] = [r EXCEPT !.seen = 0]
  BY <1>4 DEF Seconds, AnyInfos
<1>8. FromGiven(Seconds(r))
  BY <1>3, <1>5, <1>6, <1>7 DEF FromGiven
<1>9. r.type \in Types
  BY DEF AnyInfos
<1> QED BY <1>2, <1>6, <1>8, <1>9

\* What loadDevicesFromConfig() adds, by the place in the file.
Made(n) == Records!CreateDevice(creators, Records!InfoFromJson(saved.devices[n]))
Known(n) == \/ \E r \in records : r.id = saved.devices[n].id
            \/ \E k \in 1 .. n - 1 : Made(k) # {} /\ saved.devices[k].id = saved.devices[n].id
Added == {n \in DOMAIN saved.devices : ~ Known(n)}

\* Initialize with the devices of the file, by their places in it.
LEMMA LoadIs ==
  ASSUME NEW path, Records!Initialize(saved.devices, path)
  PROVE  records' = records \cup UNION {Made(n) : n \in Added}
BY Zenon DEF Records!Initialize, Records!LoadDevicesFromConfig, Made, Known, Added

\* Initialize without devices.
LEMMA LoadsNone ==
  ASSUME NEW path, Records!Initialize(<<>>, path)
  PROVE  records' = records
<1>1. records' = Records!LoadDevicesFromConfig(<<>>)
  BY DEF Records!Initialize
<1>2. DOMAIN <<>> = {}
  OBVIOUS
<1>3. Records!LoadDevicesFromConfig(<<>>) = records
  BY <1>2 DEF Records!LoadDevicesFromConfig
<1> QED BY <1>1, <1>3

\* The factory makes the device of a record, or none.
LEMMA MadeIs ==
  ASSUME NEW n
  PROVE  Made(n) \in {{}, {Records!InfoFromJson(saved.devices[n])}}
BY DEF Made, Records!CreateDevice

\* initialize() adds devices with new identifiers, no two with the same.
LEMMA LoadStep ==
  ASSUME RegistryInv, FileInv, NEW list \in {<<>>, saved.devices}, NEW path \in BOOLEAN,
         Records!Initialize(list, path)
  PROVE  RegistryInv' /\ given \subseteq given' /\ UNCHANGED saved
<1>1. given' = given /\ saved' = saved
  BY DEF Records!Initialize
<1>2. CASE list = <<>>
  <2>1. records' = records
    BY <1>2, LoadsNone
  <2> QED BY <1>1, <2>1 DEF RegistryInv, FromGiven
<1>3. CASE list = saved.devices
  <2>1. PICK l \in Nat : /\ DOMAIN saved.devices = 1 .. l
                         /\ \A i \in 1 .. l : Written(saved.devices[i])
    BY DEF FileInv
  <2> DEFINE From(n) == Records!InfoFromJson(saved.devices[n])
             NewOnes == {n \in Added : Made(n) # {}}
  <2>2. /\ records' = records \cup {From(n) : n \in NewOnes}
    BY <1>3, LoadIs, MadeIs
  <2>3. \A n \in 1 .. l : /\ From(n) \in AnyInfos /\ FromGiven(From(n))
                          /\ From(n).id = saved.devices[n].id
    BY <2>1, ReadBack DEF RegistryInv
  <2>4. NewOnes \subseteq 1 .. l /\ \A n \in NewOnes : ~ Known(n) /\ Made(n) # {}
    BY <2>1 DEF Added
  <2>5. IsFiniteSet({From(n) : n \in NewOnes})
    <3> DEFINE f == [n \in NewOnes |-> From(n)]
               T == {From(n) : n \in NewOnes}
    <3>1. IsFiniteSet(NewOnes)
      <4>1. IsFiniteSet(1 .. l)
        BY FS_Interval
      <4> HIDE DEF NewOnes
      <4> QED BY <2>4, <4>1, FS_Subset
    <3>2. f \in Surjection(NewOnes, T)
      BY DEF Surjection
    <3> QED BY <3>1, <3>2, FS_Surjection
  <2> HIDE DEF From, NewOnes
  <2>6. IsFiniteSet(records')
    BY <2>2, <2>5, FS_Union DEF RegistryInv
  <2>7. ASSUME NEW n \in NewOnes, NEW r \in records PROVE From(n).id # r.id
    BY <2>3, <2>4 DEF Known
  <2>8. ASSUME NEW n \in NewOnes, NEW k \in NewOnes, From(n).id = From(k).id
        PROVE  n = k
    <3>1. n \in 1 .. l /\ k \in 1 .. l /\ saved.devices[n].id = saved.devices[k].id
      BY <2>3, <2>4, <2>8
    <3>2. ~ (n < k) /\ ~ (k < n)
      BY <2>4, <3>1 DEF Known
    <3> QED BY <3>1, <3>2
  <2>9. \A r \in records' : FromGiven(r)'
    <3>1. \A r : FromGiven(r) => FromGiven(r)'
      BY <1>1, GivenGrows
    <3> QED BY <2>2, <2>3, <2>4, <3>1 DEF RegistryInv
  <2>10. records' \subseteq AnyInfos
    BY <2>2, <2>3, <2>4 DEF RegistryInv
  <2>11. \A r, s \in records' : r.id = s.id => r = s
    BY <2>2, <2>7, <2>8 DEF RegistryInv
  <2> QED BY <1>1, <2>6, <2>9, <2>10, <2>11 DEF RegistryInv
<1> QED BY <1>1, <1>2, <1>3

\* Every step of DeviceRecords.
LEMMA RecordsStep ==
  ASSUME StoredAssumption, RecordsInv, [Records!Next]_(Records!recordVars)
  PROVE  RecordsInv'
<1> USE DEF RecordsInv
<1>0. CreatorsInv'
  BY CreatorsStep
<1> SUFFICES RegistryInv' /\ FileInv'
  BY <1>0
<1>1. CASE \E info \in Records!Infos : Records!AddDevice(info)
  BY <1>1, AddStep, FileStays
<1>2. CASE \E r \in records, p \in Params : Records!SetProperty(r, p)
  BY <1>2, SetStep, FileStays
<1>3. CASE Records!SaveConfig
  BY <1>3, SaveStep
<1>4. CASE \E list \in {<<>>, saved.devices}, path \in BOOLEAN : Records!Initialize(list, path)
  BY <1>4, LoadStep, FileStays
<1>5. Records!LoadConfig => UNCHANGED <<records, given, saved>>
  BY DEF Records!LoadConfig
<1>6. CASE Records!Restart
  <2>1. records' = {} /\ given' = given /\ saved' = saved
    BY <1>6 DEF Records!Restart
  <2> QED BY <2>1, FS_EmptySet, FileStays DEF RegistryInv
<1>7. CASE UNCHANGED <<records, given, saved>>
  BY <1>7 DEF RegistryInv, FileInv, Written, FromGiven
<1>8. Records!MakeManager \/ (\E t \in Types : Records!RegisterDevice(t))
      \/ UNCHANGED Records!recordVars => UNCHANGED <<records, given, saved>>
  BY DEF Records!MakeManager, Records!RegisterDevice, Records!recordVars
<1> QED BY <1>1, <1>2, <1>3, <1>4, <1>5, <1>6, <1>7, <1>8 DEF Records!Next

\* RecordsInv says more than RecordsPersist.
LEMMA RecordsHold == RecordsInv => Records!RecordsPersist
BY DEF RecordsInv, RegistryInv, FromGiven, Millis, Records!RecordsPersist

\* initialize() brings back the device of every entry that it can make: the
\* first entry with that identifier which makes one is added, unless it was there before.
LEMMA LoadHolds == RecordsInv /\ [Records!Next]_(Records!recordVars) => Records!BringsBack
<1> SUFFICES ASSUME RecordsInv, NEW path \in BOOLEAN,
                    Records!Initialize(saved.devices, path), NEW i \in DOMAIN saved.devices
             PROVE  IF creators[saved.devices[i].type] = "own"
                    THEN \E r \in records' : r.id = saved.devices[i].id
                    ELSE Records!IsSupported(creators, saved.devices[i].type)
                         = (saved.devices[i].type \in Records!BuiltIn)
  BY Zenon DEF Records!BringsBack
<1> DEFINE j == saved.devices[i]
           From(n) == Records!InfoFromJson(saved.devices[n])
<1>1. PICK l \in Nat : /\ DOMAIN saved.devices = 1 .. l
                       /\ \A n \in 1 .. l : Written(saved.devices[n])
  BY DEF RecordsInv, FileInv
<1>2. \A n \in 1 .. l : /\ From(n).id = saved.devices[n].id
                        /\ From(n).type = saved.devices[n].type
                        /\ saved.devices[n].type \in Types
  BY <1>1, ReadBack DEF RecordsInv, RegistryInv
<1>3. CASE creators[j.type] = "own"
  <2> SUFFICES \E r \in records' : r.id = j.id
    BY <1>3
  <2> DEFINE K == {k \in 1 .. i : Made(k) # {} /\ saved.devices[k].id = j.id}
  <2>1. i \in 1 .. l /\ i \in 1 .. i
    BY <1>1
  <2>2. Made(i) = {From(i)}
    BY <1>2, <1>3, <2>1 DEF Made, Records!CreateDevice
  <2>3. i \in K /\ K \subseteq 1 .. l /\ K \in SUBSET Nat
    BY <2>1, <2>2
  <2>4. PICK m \in K : \A k \in K : m <= k
    BY <2>3, Least
  <2>5. m \in 1 .. l /\ saved.devices[m].id = j.id /\ Made(m) = {From(m)}
    BY <2>3, <2>4, MadeIs
  <2>6. CASE \E r \in records : r.id = j.id
    BY <2>6, LoadIs
  <2>7. CASE ~ \E r \in records : r.id = j.id
    <3>1. ~ Known(m)
      <4> SUFFICES ASSUME NEW k \in 1 .. m - 1, Made(k) # {},
                          saved.devices[k].id = saved.devices[m].id
                   PROVE  FALSE
        BY <2>5, <2>7 DEF Known
      <4>1. k \in 1 .. i /\ k < m
        BY <2>1, <2>3, <2>4
      <4> QED BY <2>4, <2>5, <4>1
    <3>2. From(m) \in records'
      BY <1>1, <2>5, <3>1, LoadIs DEF Added
    <3> QED BY <1>2, <2>5, <3>2
  <2> QED BY <2>6, <2>7
<1>4. CASE creators[j.type] # "own"
  <2>1. manager
    BY DEF Records!Initialize
  <2>2. j.type \in Types
    BY <1>1, <1>2
  <2> QED BY <1>4, <2>1, <2>2 DEF RecordsInv, CreatorsInv, Records!IsSupported
<1> QED BY <1>3, <1>4

-----------------------------------------------------------------------------
(* The configuration schema.                                              *)

\* The configuration after i rules is made from the one before by the i-th.
LEMMA FilledIs ==
  ASSUME NEW rs, Len(rs) \in Nat, NEW c, NEW o, NEW n, n = Len(rs)
  PROVE  LET f == Schema!Filled(rs, c, o)
         IN  /\ f[0] = c
             /\ \A i \in 1 .. n :
                    f[i] = Schema!ApplyDefault(f[i - 1], rs[i], o)
<1> DEFINE Step(v, i) == Schema!ApplyDefault(v, rs[i], o)
           IsRun(g, k) == g[0] = c /\ \A i \in 1 .. k : g[i] = Step(g[i - 1], i)
           T == {k \in 0 .. n : ~ \E g : IsRun(g, k)}
<1> HIDE DEF Step
<1>1. T = {}
  <2> SUFFICES ASSUME T # {} PROVE FALSE
    OBVIOUS
  <2>1. PICK k \in T : \A m \in T : k <= m
    <3>1. T \in SUBSET Nat
      OBVIOUS
    <3> HIDE DEF T
    <3> QED BY <3>1, Least
  <2>2. k # 0
    <3>1. IsRun([i \in {0} |-> c], 0)
      OBVIOUS
    <3> HIDE DEF IsRun
    <3> QED BY <3>1
  <2>3. PICK g : IsRun(g, k - 1)
    <3>1. k - 1 \in 0 .. n /\ ~ (k <= k - 1)
      BY <2>2
    <3> HIDE DEF IsRun
    <3> QED BY <2>1, <3>1
  <2> DEFINE h == [i \in 0 .. k |-> IF i = k THEN Step(g[k - 1], k) ELSE g[i]]
  <2>4. IsRun(h, k)
    <3>1. h[0] = c
      BY <2>2, <2>3
    <3>2. ASSUME NEW i \in 1 .. k PROVE h[i] = Step(h[i - 1], i)
      <4>1. i - 1 \in 0 .. k /\ i - 1 # k /\ h[i - 1] = g[i - 1]
        OBVIOUS
      <4>2. i # k => i \in 1 .. k - 1 /\ h[i] = g[i]
        OBVIOUS
      <4>3. i = k => h[i] = Step(g[i - 1], i)
        OBVIOUS
      <4> HIDE DEF h
      <4> QED BY <2>3, <4>1, <4>2, <4>3
    <3> HIDE DEF h
    <3> QED BY <3>1, <3>2
  <2> HIDE DEF h, IsRun
  <2> QED BY <2>4
<1>2. PICK g : IsRun(g, n)
  <2> HIDE DEF IsRun
  <2> QED BY <1>1
<1> DEFINE F(f) == [i \in 0 .. n |-> IF i = 0 THEN c ELSE Step(f[i - 1], i)]
           G == [i \in 0 .. n |-> g[i]]
<1>3. G = F(G)
  <2>1. ASSUME NEW i \in 0 .. n PROVE G[i] = IF i = 0 THEN c ELSE Step(G[i - 1], i)
    <3>1. i # 0 => i \in 1 .. n /\ i - 1 \in 0 .. n
      OBVIOUS
    <3> QED BY <1>2, <3>1
  <2> QED BY <2>1
<1>4. Schema!Filled(rs, c, o) = CHOOSE f : f = F(f)
  BY DEF Schema!Filled, Step
<1> DEFINE f == Schema!Filled(rs, c, o)
<1>5. f = F(f)
  <2> HIDE DEF F, G
  <2> QED BY <1>3, <1>4
<1> HIDE DEF f
<1>6. f[0] = c
  BY <1>5
<1>7. ASSUME NEW i \in 1 .. n PROVE f[i] = Step(f[i - 1], i)
  BY <1>5
<1> QED BY <1>6, <1>7 DEF f, Step

\* What is above a path.
LEMMA PathFacts ==
  ASSUME NEW K, NEW p \in Seq(K)
  PROVE  /\ \A q \in Schema!Above(p) :
               /\ q \in Seq(K) /\ q # p /\ Schema!Above(q) \subseteq Schema!Above(p)
               /\ q # <<>> => p # <<>> /\ Head(q) = Head(p)
         /\ p # <<>> => <<>> \in Schema!Above(p)
<1>1. Len(p) \in Nat /\ DOMAIN p = 1 .. Len(p)
  OBVIOUS
<1>2. ASSUME NEW i \in 0 .. Len(p) - 1
      PROVE  /\ SubSeq(p, 1, i) \in Seq(K) /\ Len(SubSeq(p, 1, i)) = i
             /\ \A j \in 1 .. i : SubSeq(p, 1, i)[j] = p[j]
  <2>1. i \in Nat /\ i <= Len(p)
    BY <1>1
  <2> QED BY <1>1, <2>1, SubSeqProperties
<1>3. ASSUME NEW q \in Schema!Above(p)
      PROVE  /\ q \in Seq(K) /\ q # p /\ Schema!Above(q) \subseteq Schema!Above(p)
             /\ q # <<>> => p # <<>> /\ Head(q) = Head(p)
  <2>1. PICK i \in 0 .. Len(p) - 1 : q = SubSeq(p, 1, i)
    BY DEF Schema!Above
  <2>2. q \in Seq(K) /\ Len(q) = i /\ \A j \in 1 .. i : q[j] = p[j]
    BY <1>2, <2>1
  <2>3. q # p
    BY <1>1, <2>2
  <2>4. ASSUME NEW j \in 0 .. i - 1 PROVE SubSeq(q, 1, j) = SubSeq(p, 1, j)
    <3>1. j \in 0 .. Len(p) - 1
      BY <1>1
    <3> QED BY <1>1, <2>2, <3>1
  <2>5. Schema!Above(q) \subseteq Schema!Above(p)
    <3>1. \A j \in 0 .. i - 1 : j \in 0 .. Len(p) - 1
      BY <1>1
    <3> QED BY <2>2, <2>4, <3>1 DEF Schema!Above
  <2>6. q # <<>> => p # <<>> /\ Head(q) = Head(p)
    BY <1>1, <2>2
  <2> QED BY <2>2, <2>3, <2>5, <2>6
<1>4. p # <<>> => <<>> \in Schema!Above(p)
  <2>1. p # <<>> => 0 \in 0 .. Len(p) - 1
    BY <1>1
  <2>2. SubSeq(p, 1, 0) = <<>>
    OBVIOUS
  <2> QED BY <2>1, <2>2 DEF Schema!Above
<1> QED BY <1>3, <1>4

\* What a path is a prefix of is the path, or has it above.
LEMMA PrefixFacts ==
  ASSUME NEW K, NEW path \in Seq(K), path # <<>>, NEW p \in Seq(K)
  PROVE  /\ Schema!IsPrefix(path, p) => p = path \/ path \in Schema!Above(p)
         /\ Schema!IsPrefix(path, path)
         /\ Schema!IsPrefix(path, p) => p # <<>> /\ Head(p) = Head(path)
         /\ \A q \in Schema!Above(p) : Schema!IsPrefix(path, q) => Schema!IsPrefix(path, p)
         /\ \A q \in Schema!Above(path) : ~ Schema!IsPrefix(path, q)
<1> USE DEF Schema!IsPrefix
<1> DEFINE n == Len(path)
<1>1. /\ Len(p) \in Nat /\ n \in Nat \ {0}
      /\ DOMAIN p = 1 .. Len(p) /\ DOMAIN path = 1 .. n
  OBVIOUS
<1>2. SubSeq(path, 1, n) = path
  BY <1>1
<1>3. Schema!IsPrefix(path, path)
  BY <1>1
<1>4. ASSUME Schema!IsPrefix(path, p)
      PROVE  /\ p = path \/ path \in Schema!Above(p)
             /\ p # <<>> /\ Head(p) = Head(path)
  <2>0. n <= Len(p)
    BY <1>4
  <2>1. n <= Len(p) /\ path = SubSeq(p, 1, n)
    BY <1>2, <1>4
  <2>2. p # path => path \in Schema!Above(p)
    <3>1. n = Len(p) => SubSeq(p, 1, n) = p
      BY <1>1
    <3>2. n # Len(p) => n \in 0 .. Len(p) - 1
      <4>1. n \in Nat /\ Len(p) \in Nat
        BY <1>1
      <4> HIDE DEF n
      <4> QED BY <2>0, <4>1
    <3> QED BY <2>1, <3>1, <3>2 DEF Schema!Above
  <2>3. 1 \in 1 .. n /\ p # <<>>
    BY <1>1, <2>1
  <2>4. SubSeq(p, 1, n)[1] = p[1]
    BY <1>1, <2>1, <2>3
  <2> QED BY <2>1, <2>2, <2>3, <2>4
<1>5. ASSUME NEW q \in Schema!Above(p), Schema!IsPrefix(path, q)
      PROVE  Schema!IsPrefix(path, p)
  <2>1. PICK i \in 0 .. Len(p) - 1 : q = SubSeq(p, 1, i)
    BY DEF Schema!Above
  <2>2. Len(q) = i /\ i <= Len(p) /\ i \in Nat
    BY <1>1, <2>1
  <2>3. n <= i /\ SubSeq(path, 1, n) = SubSeq(q, 1, n)
    BY <1>5, <2>2
  <2>4. SubSeq(q, 1, n) = SubSeq(p, 1, n)
    BY <1>1, <2>1, <2>2, <2>3
  <2> QED BY <1>1, <2>2, <2>3, <2>4
<1>6. ASSUME NEW q \in Schema!Above(path) PROVE ~ Schema!IsPrefix(path, q)
  <2>1. PICK i \in 0 .. n - 1 : q = SubSeq(path, 1, i)
    BY DEF Schema!Above
  <2>2. Len(q) = i /\ ~ (n <= i)
    BY <1>1, <2>1
  <2> QED BY <2>2
<1> QED BY <1>3, <1>4, <1>5, <1>6

\* A value has at a path either nothing, and then nothing below it, or objects above.
LEMMA NothingBelow ==
  ASSUME NEW v, Schema!IsValue(v), NEW path \in Seq(Schema!Key), path # <<>>,
         path \notin DOMAIN v, NEW p \in DOMAIN v
  PROVE  ~ Schema!IsPrefix(path, p)
<1>1. p \in Seq(Schema!Key) /\ Schema!Above(p) \subseteq DOMAIN v
  BY DEF Schema!IsValue
<1> QED BY <1>1, PrefixFacts

\* A value with a default in it is a value, and the root stays an object.
LEMMA PutIsValue ==
  ASSUME NEW v, Schema!IsValue(v), NEW path \in Seq(Schema!Key), path # <<>>,
         NEW node, Schema!IsNode(node), NEW o,
         NEW w, w = Schema!PutDefault(v, path, node, o), w # Schema!Throws
  PROVE  Schema!IsValue(w) /\ (Schema!Is(v[<<>>], "obj") => Schema!Is(w[<<>>], "obj"))
<1>1. CASE w = v
  BY <1>1
<1>2. CASE w # v
  <2> DEFINE Up == Schema!Above(path)
             D == {p \in DOMAIN v : ~ Schema!IsPrefix(path, p)} \cup Up \cup {path}
             At(p) == IF p = path THEN node ELSE IF p \in Up THEN Schema!Object ELSE v[p]
  <2>1. w = [p \in D |-> At(p)]
    BY <1>2 DEF Schema!PutDefault
  <2>2. Schema!Object = [obj |-> TRUE] /\ Schema!Is(Schema!Object, "obj")
    BY DEF Schema!Object, Schema!Is
  <2>3. Schema!IsNode(Schema!Object)
    BY DEF Schema!Object, Schema!IsNode, Schema!Kinds
  <2>4. <<>> \in Up
    BY PathFacts
  <2>5. \A p \in DOMAIN v :
           /\ p \in Seq(Schema!Key) /\ Schema!IsNode(v[p])
           /\ \A q \in Schema!Above(p) : q \in DOMAIN v /\ Schema!Is(v[q], "obj")
    BY DEF Schema!IsValue
  <2>6. \A p \in Up : p \in Seq(Schema!Key) /\ p # path /\ Schema!Above(p) \subseteq Up
    BY PathFacts
  <2> HIDE DEF Up
  <2>7. DOMAIN w = D /\ \A p \in D : w[p] = At(p)
    BY <2>1
  <2>8. ASSUME NEW p \in D
        PROVE  p \in Seq(Schema!Key) /\ Schema!IsNode(w[p])
    BY <2>3, <2>5, <2>6, <2>7
  <2>9. ASSUME NEW p \in D, NEW q \in Schema!Above(p)
        PROVE  q \in D /\ Schema!Is(w[q], "obj")
    <3>1. CASE p \in Up \/ p = path
      <4>1. q \in Up /\ q # path
        BY <2>6, <2>9, <3>1 DEF Up
      <4> QED BY <2>2, <2>7, <4>1
    <3>2. CASE p \in DOMAIN v /\ ~ Schema!IsPrefix(path, p)
      <4>1. q \in DOMAIN v /\ Schema!Is(v[q], "obj")
        BY <2>5, <2>9, <3>2
      <4>2. ~ Schema!IsPrefix(path, q) /\ q # path
        BY <2>5, <2>9, <3>2, PrefixFacts
      <4>3. q \in D /\ At(q) = IF q \in Up THEN Schema!Object ELSE v[q]
        BY <4>1, <4>2
      <4> QED BY <2>2, <2>7, <4>1, <4>3
    <3> QED BY <3>1, <3>2
  <2>10. <<>> \in D /\ Schema!Is(w[<<>>], "obj")
    <3>1. <<>> \in D /\ At(<<>>) = Schema!Object
      BY <2>4
    <3> QED BY <2>2, <2>7, <3>1
  <2> HIDE DEF D, At
  <2> QED BY <2>7, <2>8, <2>9, <2>10 DEF Schema!IsValue
<1> QED BY <1>1, <1>2

\* overwrite is not set.
OnlyMissing(overwrite) == overwrite = FALSE

\* A default that overwrites nothing is where it belongs; elsewhere there are at most
\* new objects on the way.
LEMMA PutFills ==
  ASSUME NEW v, Schema!IsValue(v), NEW path \in Seq(Schema!Key), path # <<>>, NEW node,
         NEW o, OnlyMissing(o), NEW w, w = Schema!PutDefault(v, path, node, o), w # Schema!Throws
  PROVE  /\ path \in DOMAIN w
         /\ path \in DOMAIN v => w = v
         /\ path \notin DOMAIN v => w[path] = node
         /\ \A p \in DOMAIN v : p \in DOMAIN w /\ (Schema!Is(v[p], "nul") \/ w[p] = v[p])
         /\ \A p : p # path /\ p \notin Schema!Above(path) =>
               /\ p \in DOMAIN w <=> p \in DOMAIN v
               /\ p \in DOMAIN v => w[p] = v[p]
<1>1. CASE path \in DOMAIN v
  BY <1>1 DEF Schema!PutDefault, OnlyMissing
<1>2. CASE path \notin DOMAIN v
  <2> DEFINE Up == Schema!Above(path)
             D == {p \in DOMAIN v : ~ Schema!IsPrefix(path, p)} \cup Up \cup {path}
             At(p) == IF p = path THEN node ELSE IF p \in Up THEN Schema!Object ELSE v[p]
  <2>1. /\ w = [p \in D |-> At(p)]
        /\ \A p \in Up \cap DOMAIN v : Schema!Is(v[p], "obj") \/ Schema!Is(v[p], "nul")
    BY <1>2 DEF Schema!PutDefault
  <2>2. \A p \in DOMAIN v : ~ Schema!IsPrefix(path, p)
    BY <1>2, NothingBelow
  <2>3. \A p \in DOMAIN v : Schema!Is(v[p], "obj") => v[p] = Schema!Object
    BY DEF Schema!IsValue, Schema!IsNode
  <2> HIDE DEF Up
  <2>4. DOMAIN w = D /\ \A p \in D : w[p] = At(p)
    BY <2>1
  <2>5. D = DOMAIN v \cup Up \cup {path}
    BY <2>2
  <2> HIDE DEF D
  <2>6. path \in DOMAIN w /\ w[path] = node
    BY <2>4, <2>5
  <2>7. ASSUME NEW p \in DOMAIN v
        PROVE  p \in DOMAIN w /\ (Schema!Is(v[p], "nul") \/ w[p] = v[p])
    BY <1>2, <2>1, <2>3, <2>4, <2>5
  <2>8. ASSUME NEW p, p # path, p \notin Up
        PROVE  /\ p \in DOMAIN w <=> p \in DOMAIN v
               /\ p \in DOMAIN v => w[p] = v[p]
    BY <2>4, <2>5, <2>8
  <2> QED BY <1>2, <2>6, <2>7, <2>8 DEF Up
<1> QED BY <1>1, <1>2

\* A default where something is changes nothing.
LEMMA PutAgain ==
  ASSUME NEW v, Schema!IsValue(v), NEW path \in DOMAIN v, NEW node,
         NEW o, OnlyMissing(o)
  PROVE  Schema!PutDefault(v, path, node, o) = v
BY DEF Schema!PutDefault, Schema!IsValue, OnlyMissing

\* Counting up to n.
LEMMA UpTo ==
  ASSUME NEW n \in Nat, NEW S, 0 \in S, \A i \in 1 .. n : i - 1 \in S => i \in S
  PROVE  \A i \in 0 .. n : i \in S
<1> DEFINE T == {i \in 0 .. n : i \notin S}
<1>1. SUFFICES ASSUME T # {} PROVE FALSE
  OBVIOUS
<1>2. PICK k \in T : \A m \in T : k <= m
  <2>1. T \in SUBSET Nat
    OBVIOUS
  <2> HIDE DEF T
  <2> QED BY <1>1, <2>1, Least
<1>3. k \in 1 .. n /\ k - 1 \in 0 .. n /\ ~ (k <= k - 1)
  <2>1. k # 0 /\ k \in 0 .. n
    OBVIOUS
  <2> HIDE DEF T
  <2> QED BY <2>1
<1>4. k - 1 \in S
  BY <1>2, <1>3
<1> QED BY <1>3, <1>4

\* The path of a rule's key, and its default.
LEMMA RuleFacts ==
  ASSUME NEW r, Schema!IsRule(r)
  PROVE  /\ Schema!SplitKey(r.key) \in Seq(Schema!Key) /\ Schema!SplitKey(r.key) # <<>>
         /\ Head(Schema!SplitKey(r.key)) = <<r.key[1]>>
         /\ Len(r.key) = 1 => Schema!SplitKey(r.key) = <<r.key>>
         /\ Schema!IsNode(Schema!GetDefaultValue(r))
<1> DEFINE k == r.key
           path == Schema!SplitKey(k)
<1>1. k \in Seq(STRING) /\ k # <<>> /\ r.type \in Schema!TypeNames
  BY DEF Schema!IsRule, Schema!Key
<1>2. path = [i \in 1 .. Len(k) |-> <<k[i]>>] /\ Len(k) \in Nat /\ Len(k) # 0
  BY <1>1 DEF Schema!SplitKey
<1>3. \A i \in 1 .. Len(k) : <<k[i]>> \in Schema!Key
  BY <1>1 DEF Schema!Key
<1>4. path \in Seq(Schema!Key) /\ path # <<>> /\ Head(path) = <<k[1]>> /\ Len(path) = Len(k)
  <2> HIDE DEF path, k
  <2>1. path \in Seq(Schema!Key) /\ Len(path) = Len(k)
    BY <1>2, <1>3
  <2> QED BY <1>2, <2>1
<1>5. Len(k) = 1 => path = <<k>>
  <2>1. Len(k) = 1 => path = [i \in 1 .. 1 |-> <<k[i]>>] /\ k = <<k[1]>>
    BY <1>1, <1>2
  <2> HIDE DEF k, path
  <2> QED BY <2>1
<1>6. Schema!IsNode(Schema!GetDefaultValue(r))
  <2>1. \A x : /\ Schema!IsNode([str |-> x]) /\ Schema!IsNode([num |-> x])
               /\ Schema!IsNode([bool |-> x]) /\ Schema!IsNode([list |-> x])
               /\ Schema!IsNode([nul |-> x]) /\ Schema!IsNode(Schema!Object)
    BY DEF Schema!IsNode, Schema!Kinds, Schema!Is, Schema!Object
  <2> QED BY <1>1, <2>1 DEF Schema!GetDefaultValue, Schema!TypeNames
<1> QED BY <1>4, <1>5, <1>6

\* A schema of n rules.
Rules(rs, n) == n \in Nat /\ Len(rs) = n /\ DOMAIN rs = 1 .. n
                    /\ \A i \in 1 .. n : Schema!IsRule(rs[i])

HasDefault(r) == Schema!Get(r, "default", "") # ""
PathOf(r)     == Schema!SplitKey(r.key)

\* The same for a list of rules, ...
LEMMA FilledBegins ==
  ASSUME NEW rs, NEW m, Rules(rs, m), NEW c, NEW o
  PROVE  LET f == Schema!Filled(rs, c, o)
         IN  f[0] = c /\ \A i \in 1 .. m : f[i] = Schema!ApplyDefault(f[i - 1], rs[i], o)
<1>1. Len(rs) \in Nat /\ m = Len(rs)
  BY DEF Rules
<1> QED BY <1>1, FilledIs

\* ... by the name f.
LEMMA FilledBy ==
  ASSUME NEW rs, NEW m, Rules(rs, m), NEW c, NEW o, NEW f, f = Schema!Filled(rs, c, o)
  PROVE  /\ f[0] = c
         /\ \A i \in 1 .. m : f[i] = Schema!ApplyDefault(f[i - 1], rs[i], o)
BY FilledBegins

\* No rule threw on the way to a configuration, and each had a value to work on.
LEMMA FilledValues ==
  ASSUME NEW rs, NEW m, Rules(rs, m), NEW n \in 0 .. m, NEW c, Schema!IsValue(c), NEW o,
         NEW f, f = Schema!Filled(rs, c, o), f[n] # Schema!Throws
  PROVE  /\ f[0] = c
         /\ \A i \in 0 .. n :
               /\ f[i] # Schema!Throws /\ Schema!IsValue(f[i])
               /\ Schema!Is(c[<<>>], "obj") => Schema!Is(f[i][<<>>], "obj")
         /\ \A i \in 1 .. n :
               f[i] = IF HasDefault(rs[i])
                      THEN Schema!PutDefault(f[i - 1], PathOf(rs[i]),
                                             Schema!GetDefaultValue(rs[i]), o)
                      ELSE f[i - 1]
<1>1. n \in Nat /\ \A i \in 1 .. n : i \in 1 .. m /\ Schema!IsRule(rs[i])
  BY DEF Rules
<1>2. f[0] = c /\ \A i \in 1 .. n : f[i] = Schema!ApplyDefault(f[i - 1], rs[i], o)
  <2>1. f[0] = c /\ \A i \in 1 .. m : f[i] = Schema!ApplyDefault(f[i - 1], rs[i], o)
    BY FilledBy
  <2> QED BY <1>1, <2>1
<1>3. \A i \in 0 .. n : f[i] # Schema!Throws
  <2> SUFFICES ASSUME NEW k \in 0 .. n, f[k] = Schema!Throws PROVE FALSE
    OBVIOUS
  <2> DEFINE S == {j \in 0 .. n : j >= k => f[j] = Schema!Throws}
  <2>1. 0 \in S
    BY <1>1
  <2>2. ASSUME NEW j \in 1 .. n, j - 1 \in S PROVE j \in S
    <3>1. f[j - 1] = Schema!Throws => f[j] = Schema!Throws
      BY <1>2 DEF Schema!ApplyDefault
    <3> QED BY <1>1, <2>2, <3>1
  <2> HIDE DEF S
  <2>3. n \in S
    <3>1. n \in 0 .. n
      BY <1>1
    <3> QED BY <1>1, <2>1, <2>2, <3>1, UpTo
  <2> QED BY <1>1, <2>3 DEF S
<1>4. \A i \in 1 .. n :
          f[i] = IF HasDefault(rs[i])
                 THEN Schema!PutDefault(f[i - 1], PathOf(rs[i]),
                                        Schema!GetDefaultValue(rs[i]), o)
                 ELSE f[i - 1]
  <2> TAKE i \in 1 .. n
  <2>1. i - 1 \in 0 .. n
    BY <1>1
  <2> QED BY <1>2, <1>3, <2>1 DEF Schema!ApplyDefault, HasDefault, PathOf
<1>5. \A i \in 0 .. n : Schema!IsValue(f[i])
                        /\ (Schema!Is(c[<<>>], "obj") => Schema!Is(f[i][<<>>], "obj"))
  <2> DEFINE S == {i \in 0 .. n : Schema!IsValue(f[i])
                        /\ (Schema!Is(c[<<>>], "obj") => Schema!Is(f[i][<<>>], "obj"))}
  <2>1. 0 \in S
    BY <1>1, <1>2
  <2>2. ASSUME NEW i \in 1 .. n, i - 1 \in S PROVE i \in S
    <3>1. i - 1 \in 0 .. n /\ i \in 0 .. n /\ Schema!IsRule(rs[i]) /\ Schema!IsValue(f[i - 1])
      BY <1>1, <2>2
    <3>2. CASE ~ HasDefault(rs[i])
      BY <1>4, <2>2, <3>1, <3>2
    <3>3. CASE HasDefault(rs[i])
      <4>1. /\ f[i] = Schema!PutDefault(f[i - 1], PathOf(rs[i]),
                                        Schema!GetDefaultValue(rs[i]), o)
            /\ f[i] # Schema!Throws
        BY <1>3, <1>4, <3>1, <3>3
      <4>2. /\ PathOf(rs[i]) \in Seq(Schema!Key) /\ PathOf(rs[i]) # <<>>
            /\ Schema!IsNode(Schema!GetDefaultValue(rs[i]))
        BY <3>1, RuleFacts DEF PathOf
      <4>3. /\ Schema!IsValue(f[i])
            /\ Schema!Is(f[i - 1][<<>>], "obj") => Schema!Is(f[i][<<>>], "obj")
        BY <3>1, <4>1, <4>2, PutIsValue
      <4> QED BY <2>2, <3>1, <4>3
    <3> QED BY <3>2, <3>3
  <2> HIDE DEF S
  <2>3. \A i \in 0 .. n : i \in S
    BY <1>1, <2>1, <2>2, UpTo
  <2> QED BY <2>3 DEF S
<1> QED BY <1>2, <1>3, <1>4, <1>5

\* One turn of the loop without overwriting.
LEMMA FillsOne ==
  ASSUME NEW rs, NEW m, Rules(rs, m), NEW n \in 0 .. m, NEW c, Schema!IsValue(c),
         NEW o, OnlyMissing(o), NEW f, f = Schema!Filled(rs, c, o), f[n] # Schema!Throws,
         NEW i \in 1 .. n
  PROVE  /\ Schema!IsValue(f[i - 1]) /\ Schema!IsValue(f[i])
         /\ PathOf(rs[i]) \in Seq(Schema!Key) /\ PathOf(rs[i]) # <<>> /\ Schema!IsRule(rs[i])
         /\ ~ HasDefault(rs[i]) => f[i] = f[i - 1]
         /\ HasDefault(rs[i]) =>
               /\ PathOf(rs[i]) \in DOMAIN f[i]
               /\ PathOf(rs[i]) \in DOMAIN f[i - 1] => f[i] = f[i - 1]
               /\ PathOf(rs[i]) \notin DOMAIN f[i - 1] =>
                      f[i][PathOf(rs[i])] = Schema!GetDefaultValue(rs[i])
         /\ \A p \in DOMAIN f[i - 1] :
               /\ p \in DOMAIN f[i]
               /\ Schema!Is(f[i - 1][p], "nul") \/ f[i][p] = f[i - 1][p]
         /\ \A p : p # PathOf(rs[i]) /\ p \notin Schema!Above(PathOf(rs[i])) =>
               /\ p \in DOMAIN f[i] <=> p \in DOMAIN f[i - 1]
               /\ p \in DOMAIN f[i - 1] => f[i][p] = f[i - 1][p]
<1> DEFINE v == f[i - 1]
           w == f[i]
           path == PathOf(rs[i])
           d == Schema!GetDefaultValue(rs[i])
<1>1. i - 1 \in 0 .. n /\ i \in 0 .. n /\ Schema!IsRule(rs[i])
  BY DEF Rules
<1>2. /\ Schema!IsValue(v) /\ Schema!IsValue(w) /\ w # Schema!Throws
      /\ w = IF HasDefault(rs[i]) THEN Schema!PutDefault(v, path, d, o) ELSE v
  BY <1>1, FilledValues
<1>3. path \in Seq(Schema!Key) /\ path # <<>>
  BY <1>1, RuleFacts DEF PathOf
<1> HIDE DEF v, w, path, d
<1>4. HasDefault(rs[i]) =>
         /\ path \in DOMAIN w
         /\ path \in DOMAIN v => w = v
         /\ path \notin DOMAIN v => w[path] = d
         /\ \A p \in DOMAIN v : p \in DOMAIN w /\ (Schema!Is(v[p], "nul") \/ w[p] = v[p])
         /\ \A p : p # path /\ p \notin Schema!Above(path) =>
               /\ p \in DOMAIN w <=> p \in DOMAIN v
               /\ p \in DOMAIN v => w[p] = v[p]
  BY <1>2, <1>3, PutFills
<1>5. ~ HasDefault(rs[i]) => w = v
  BY <1>2
<1>6. /\ \A p \in DOMAIN v : p \in DOMAIN w /\ (Schema!Is(v[p], "nul") \/ w[p] = v[p])
      /\ \A p : p # path /\ p \notin Schema!Above(path) =>
            /\ p \in DOMAIN w <=> p \in DOMAIN v
            /\ p \in DOMAIN v => w[p] = v[p]
  BY <1>4, <1>5
<1>7. /\ Schema!IsValue(v) /\ Schema!IsValue(w)
      /\ path \in Seq(Schema!Key) /\ path # <<>> /\ Schema!IsRule(rs[i])
      /\ ~ HasDefault(rs[i]) => w = v
      /\ HasDefault(rs[i]) =>
            /\ path \in DOMAIN w
            /\ path \in DOMAIN v => w = v
            /\ path \notin DOMAIN v => w[path] = d
      /\ \A p \in DOMAIN v : p \in DOMAIN w /\ (Schema!Is(v[p], "nul") \/ w[p] = v[p])
      /\ \A p : p # path /\ p \notin Schema!Above(path) =>
            /\ p \in DOMAIN w <=> p \in DOMAIN v
            /\ p \in DOMAIN v => w[p] = v[p]
  BY <1>1, <1>2, <1>3, <1>4, <1>5, <1>6
<1> QED BY <1>7 DEF v, w, path, d

\* What was there is kept, every rule with a default has something where it leads, and
\* so there is nothing left for a second call.
LEMMA Fills ==
  ASSUME NEW rs, NEW m, Rules(rs, m), NEW n \in 0 .. m, NEW c, Schema!IsValue(c),
         NEW o, OnlyMissing(o), NEW f, f = Schema!Filled(rs, c, o), f[n] # Schema!Throws
  PROVE  /\ \A p \in DOMAIN c :
               p \in DOMAIN f[n] /\ (Schema!Is(c[p], "nul") \/ f[n][p] = c[p])
         /\ \A i \in 1 .. n : HasDefault(rs[i]) => PathOf(rs[i]) \in DOMAIN f[n]
         /\ \A i \in 0 .. n : Schema!Filled(rs, f[n], o)[i] = f[n]
<1>1. n \in Nat /\ f[0] = c
  <2>1. n \in Nat
    BY DEF Rules
  <2> QED BY <2>1, FilledValues
<1>2. ASSUME NEW p \in DOMAIN c
      PROVE  p \in DOMAIN f[n] /\ (Schema!Is(c[p], "nul") \/ f[n][p] = c[p])
  <2> DEFINE S == {i \in 0 .. n :
                      p \in DOMAIN f[i] /\ (Schema!Is(c[p], "nul") \/ f[i][p] = c[p])}
  <2>1. 0 \in S
    BY <1>1
  <2>2. ASSUME NEW i \in 1 .. n, i - 1 \in S PROVE i \in S
    <3>1. \A q \in DOMAIN f[i - 1] :
              /\ q \in DOMAIN f[i]
              /\ Schema!Is(f[i - 1][q], "nul") \/ f[i][q] = f[i - 1][q]
      <4> HIDE DEF S
      <4> QED BY FillsOne
    <3> QED BY <1>1, <2>2, <3>1
  <2> HIDE DEF S
  <2>3. n \in S
    <3>1. n \in 0 .. n
      BY <1>1
    <3> QED BY <1>1, <2>1, <2>2, <3>1, UpTo
  <2> QED BY <2>3 DEF S
<1>3. ASSUME NEW j \in 1 .. n, HasDefault(rs[j])
      PROVE  PathOf(rs[j]) \in DOMAIN f[n]
  <2> DEFINE S == {i \in 0 .. n : i >= j => PathOf(rs[j]) \in DOMAIN f[i]}
  <2>1. 0 \in S
    BY <1>1
  <2>2. ASSUME NEW i \in 1 .. n, i - 1 \in S PROVE i \in S
    <3>1. CASE i = j
      <4>1. PathOf(rs[j]) \in DOMAIN f[j]
        BY <1>3, FillsOne
      <4> QED BY <1>1, <3>1, <4>1
    <3>2. CASE i # j
      <4>1. \A q \in DOMAIN f[i - 1] : q \in DOMAIN f[i]
        BY FillsOne
      <4> QED BY <1>1, <2>2, <3>2, <4>1
    <3> QED BY <3>1, <3>2
  <2> HIDE DEF S
  <2>3. n \in S
    <3>1. n \in 0 .. n
      BY <1>1
    <3> QED BY <1>1, <2>1, <2>2, <3>1, UpTo
  <2> QED BY <1>1, <2>3 DEF S
<1>4. \A i \in 0 .. n : Schema!Filled(rs, f[n], o)[i] = f[n]
  <2> DEFINE g == Schema!Filled(rs, f[n], o)
             S == {i \in 0 .. n : g[i] = f[n]}
  <2>0. g[0] = f[n] /\ \A i \in 1 .. m : g[i] = Schema!ApplyDefault(g[i - 1], rs[i], o)
    BY FilledBegins
  <2> HIDE DEF g
  <2>1. g[0] = f[n] /\ \A i \in 1 .. n : g[i] = Schema!ApplyDefault(g[i - 1], rs[i], o)
    <3>1. \A i \in 1 .. n : i \in 1 .. m
      BY <1>1 DEF Rules
    <3> QED BY <2>0, <3>1
  <2>2. 0 \in S
    BY <1>1, <2>1
  <2>3. Schema!IsValue(f[n])
    BY <1>1, FilledValues
  <2>4. ASSUME NEW i \in 1 .. n, i - 1 \in S PROVE i \in S
    <3>1. Schema!ApplyDefault(f[n], rs[i], o) = f[n]
      <4>1. CASE HasDefault(rs[i])
        <5>1. Schema!PutDefault(f[n], PathOf(rs[i]), Schema!GetDefaultValue(rs[i]), o)
                  = f[n]
          BY <1>3, <2>3, <4>1, PutAgain
        <5> QED BY <4>1, <5>1 DEF Schema!ApplyDefault, PathOf
      <4>2. CASE ~ HasDefault(rs[i])
        BY <4>2 DEF Schema!ApplyDefault, HasDefault
      <4> QED BY <4>1, <4>2
    <3> QED BY <2>1, <2>4, <3>1
  <2> HIDE DEF S
  <2>5. \A i \in 0 .. n : i \in S
    BY <1>1, <2>2, <2>4, UpTo
  <2> QED BY <2>5 DEF S, g
<1> QED BY <1>2, <1>3, <1>4

\* applyDefaults() comes through some of the rules, and throws at the next one if there
\* is one.
LEMMA DoneIs ==
  ASSUME NEW rs, NEW m, Rules(rs, m), NEW c, Schema!IsValue(c), NEW o,
         NEW f, f = Schema!Filled(rs, c, o), NEW n, n = Schema!RulesDone(rs, c, o)
  PROVE  /\ n \in 0 .. m /\ f[n] # Schema!Throws
         /\ n < m => f[n + 1] = Schema!Throws
         /\ Schema!ApplyDefaults(rs, c, o) = f[n]
<1> DEFINE Stops(k) == f[k] # Schema!Throws /\ (k < m => f[k + 1] = Schema!Throws)
<1>1. m \in Nat /\ Len(rs) = m
  BY DEF Rules
<1>2. f[0] # Schema!Throws
  <2>1. f[0] = c
    BY FilledBy
  <2>2. <<>> \in DOMAIN c
    BY DEF Schema!IsValue
  <2> QED BY <2>1, <2>2 DEF Schema!Throws
<1>3. \E k \in 0 .. m : Stops(k)
  <2> SUFFICES ASSUME \A k \in 0 .. m : ~ Stops(k) PROVE FALSE
    OBVIOUS
  <2> DEFINE S == {k \in 0 .. m : f[k] # Schema!Throws}
  <2>1. 0 \in S
    BY <1>1, <1>2
  <2>2. ASSUME NEW i \in 1 .. m, i - 1 \in S PROVE i \in S
    <3>1. i - 1 \in 0 .. m /\ i - 1 < m /\ (i - 1) + 1 = i /\ i \in 0 .. m
      BY <1>1
    <3>2. ~ Stops(i - 1)
      BY <3>1
    <3> QED BY <2>2, <3>1, <3>2
  <2> HIDE DEF S
  <2>3. m \in S
    <3>1. m \in 0 .. m
      BY <1>1
    <3> QED BY <1>1, <2>1, <2>2, <3>1, UpTo
  <2>4. f[m] # Schema!Throws /\ m \in 0 .. m /\ ~ (m < m)
    BY <1>1, <2>3 DEF S
  <2> QED BY <2>4
<1>4. n = CHOOSE k \in 0 .. m : Stops(k)
  BY <1>1 DEF Schema!RulesDone
<1> HIDE DEF Stops
<1>5. n \in 0 .. m /\ Stops(n)
  BY <1>3, <1>4
<1> QED BY <1>5 DEF Stops, Schema!ApplyDefaults

\* A member is what lies below its name.
LEMMA MemberIs ==
  ASSUME NEW v, Schema!IsValue(v), NEW w, Schema!IsValue(w), NEW k,
         \A p : p # <<>> /\ Head(p) = k =>
             (p \in DOMAIN w <=> p \in DOMAIN v) /\ (p \in DOMAIN v => w[p] = v[p])
  PROVE  Schema!Member(w, k) = Schema!Member(v, k)
<1> DEFINE P(x) == {p \in DOMAIN x : p # <<>> /\ Head(p) = k}
<1>1. P(w) = P(v)
  OBVIOUS
<1>2. \A p \in P(v) : <<k>> \o Tail(p) = p /\ w[p] = v[p]
  BY DEF Schema!IsValue
<1> DEFINE Q == {Tail(p) : p \in P(v)}
<1>3. \A q \in Q : w[<<k>> \o q] = v[<<k>> \o q]
  BY <1>2
<1>4. Schema!Member(w, k) = [q \in Q |-> w[<<k>> \o q]]
  BY <1>1 DEF Schema!Member
<1>5. Schema!Member(v, k) = [q \in Q |-> v[<<k>> \o q]]
  BY DEF Schema!Member
<1> HIDE DEF Q
<1> QED BY <1>3, <1>4, <1>5

LEMMA MemberLeaf ==
  ASSUME NEW v, NEW k, \A p : p # <<>> /\ Head(p) = k => (p \in DOMAIN v <=> p = <<k>>)
  PROVE  Schema!Member(v, k) = Schema!Leaf(v[<<k>>])
<1>1. {p \in DOMAIN v : p # <<>> /\ Head(p) = k} = {<<k>>}
  OBVIOUS
<1>2. Tail(<<k>>) = <<>> /\ <<k>> \o <<>> = <<k>>
  OBVIOUS
<1>3. {Tail(p) : p \in {<<k>>}} = {<<>>}
  BY <1>2
<1>4. Schema!Member(v, k) = [q \in {<<>>} |-> v[<<k>> \o q]]
  BY <1>1, <1>3 DEF Schema!Member
<1>5. \A q \in {<<>>} : v[<<k>> \o q] = v[<<k>>]
  BY <1>2
<1> QED BY <1>4, <1>5 DEF Schema!Leaf

\* The first step of a path, and what is above a path of one step.
LEMMA FirstPart ==
  ASSUME NEW K, NEW p \in Seq(K), p # <<>>
  PROVE  SubSeq(p, 1, 1) = <<p[1]>>
<1> DEFINE q == SubSeq(p, 1, 1)
           x == p[1]
<1>1. Len(p) \in Nat /\ 1 <= Len(p) /\ x \in K
  OBVIOUS
<1>2. q \in Seq(K) /\ Len(q) = 1 /\ q[1] = x
  BY <1>1
<1>3. <<x>> \in Seq(K) /\ Len(<<x>>) = 1 /\ <<x>>[1] = x
  BY <1>1
<1> HIDE DEF q, x
<1>4. \A i \in 1 .. Len(q) : q[i] = <<x>>[i]
  <2>1. \A i \in 1 .. Len(q) : i = 1
    BY <1>2
  <2> QED BY <1>2, <1>3, <2>1
<1>5. q = <<x>>
  BY <1>2, <1>3, <1>4, SeqEqual
<1> QED BY <1>5 DEF q, x

LEMMA FirstName ==
  ASSUME NEW K, NEW p \in Seq(K), p # <<>>, p # <<Head(p)>>
  PROVE  SubSeq(p, 1, 1) = <<Head(p)>> /\ 1 \in 0 .. Len(p) - 1
<1>1. Len(p) \in Nat /\ Len(p) # 0 /\ DOMAIN p = 1 .. Len(p) /\ Head(p) = p[1]
  OBVIOUS
<1>2. Len(p) # 1
  <2>1. Len(p) = 1 => p = <<p[1]>>
    OBVIOUS
  <2> QED BY <1>1, <2>1
<1>3. SubSeq(p, 1, 1) = <<p[1]>>
  BY FirstPart
<1> QED BY <1>1, <1>2, <1>3

LEMMA AboveName ==
  ASSUME NEW k, NEW p \in Schema!Above(<<k>>)
  PROVE  p = <<>>
<1>1. PICK i \in 0 .. Len(<<k>>) - 1 : p = SubSeq(<<k>>, 1, i)
  BY DEF Schema!Above
<1>2. i = 0
  BY <1>1
<1>3. SubSeq(<<k>>, 1, 0) = <<>>
  OBVIOUS
<1> QED BY <1>1, <1>2, <1>3

\* Where no key leads through another, only a rule's own default goes to its member.
LEMMA OwnPath ==
  ASSUME NEW rs, NEW n, Rules(rs, n), Schema!Separate(rs), NEW i \in 1 .. n, NEW j \in 1 .. n,
         Head(PathOf(rs[j])) = rs[i].key
  PROVE  j = i /\ PathOf(rs[i]) = <<rs[i].key>>
<1> DEFINE a == rs[i].key
           b == rs[j].key
<1>1. Schema!IsRule(rs[i]) /\ Schema!IsRule(rs[j]) /\ i \in DOMAIN rs /\ j \in DOMAIN rs
  BY DEF Rules
<1>2. a \in Seq(STRING) /\ b \in Seq(STRING) /\ b # <<>>
  BY <1>1 DEF Schema!IsRule, Schema!Key
<1>3. a = <<b[1]>>
  BY <1>1, RuleFacts DEF PathOf
<1>4. Schema!IsPrefix(a, b)
  <2> HIDE DEF a, b
  <2>1. Len(b) \in Nat /\ 1 <= Len(b) /\ Len(a) = 1
    BY <1>2, <1>3
  <2>2. SubSeq(b, 1, 1) = <<b[1]>>
    BY <1>2, FirstPart
  <2>3. SubSeq(a, 1, 1) = <<b[1]>>
    <3>1. a # <<>> /\ a[1] = b[1]
      BY <1>3
    <3> QED BY <1>2, <3>1, FirstPart
  <2> QED BY <2>1, <2>2, <2>3 DEF Schema!IsPrefix
<1>5. i = j
  BY <1>1, <1>4 DEF Schema!Separate
<1>6. Len(rs[i].key) = 1
  BY <1>3
<1>7. PathOf(rs[i]) = <<rs[i].key>>
  BY <1>1, <1>6, RuleFacts DEF PathOf
<1> QED BY <1>5, <1>7

\* A path leads elsewhere if it begins with another name.
LEMMA Elsewhere ==
  ASSUME NEW path \in Seq(Schema!Key), NEW p, p # <<>>, path # <<>>, Head(p) # Head(path)
  PROVE  p # path /\ p \notin Schema!Above(path)
<1>1. p \in Schema!Above(path) => Head(p) = Head(path)
  BY PathFacts
<1> QED BY <1>1

\* What has become of the member that a rule is for: nothing, or its default.
Untouched(v, c, k) == \A p : p # <<>> /\ Head(p) = k =>
    (p \in DOMAIN v <=> p \in DOMAIN c) /\ (p \in DOMAIN c => v[p] = c[p])

Defaulted(v, c, r) ==
    /\ <<r.key>> \notin DOMAIN c /\ HasDefault(r)
    /\ \A p : p # <<>> /\ Head(p) = r.key => (p \in DOMAIN v <=> p = <<r.key>>)
    /\ v[<<r.key>>] = Schema!GetDefaultValue(r)

LEMMA MemberFilled ==
  ASSUME NEW rs, NEW m, Rules(rs, m), NEW n \in 0 .. m, Schema!Separate(rs), NEW c, Schema!IsValue(c),
         NEW o, OnlyMissing(o), NEW f, f = Schema!Filled(rs, c, o), f[n] # Schema!Throws,
         NEW i \in 1 .. m
  PROVE  Untouched(f[n], c, rs[i].key) \/ Defaulted(f[n], c, rs[i])
<1> DEFINE r == rs[i]
           k == rs[i].key
           S == {j \in 0 .. n : Untouched(f[j], c, k) \/ Defaulted(f[j], c, r)}
<1>1. n \in Nat /\ f[0] = c
  <2>1. n \in Nat
    BY DEF Rules
  <2> QED BY <2>1, FilledValues
<1>2. 0 \in S
  <2>1. Untouched(f[0], c, k)
    BY <1>1 DEF Untouched
  <2> QED BY <1>1, <2>1
<1>3. ASSUME NEW j \in 1 .. n, j - 1 \in S PROVE j \in S
  <2> DEFINE v == f[j - 1]
             w == f[j]
             path == PathOf(rs[j])
  <2>1. /\ Schema!IsValue(v) /\ path \in Seq(Schema!Key) /\ path # <<>>
        /\ ~ HasDefault(rs[j]) => w = v
        /\ HasDefault(rs[j]) =>
              /\ path \in DOMAIN v => w = v
              /\ path \notin DOMAIN v => w[path] = Schema!GetDefaultValue(rs[j])
              /\ path \in DOMAIN w
        /\ \A p : p # path /\ p \notin Schema!Above(path) =>
              /\ p \in DOMAIN w <=> p \in DOMAIN v
              /\ p \in DOMAIN v => w[p] = v[p]
    BY FillsOne
  <2>2. Untouched(v, c, k) \/ Defaulted(v, c, r)
    BY <1>3
  <2>3. j \in 0 .. n
    BY <1>1
  <2> SUFFICES Untouched(w, c, k) \/ Defaulted(w, c, r)
    BY <2>3
  <2> HIDE DEF v, w, path, S
  <2>4. CASE w = v
    BY <2>2, <2>4
  <2>5. CASE Head(path) # k
    <3>1. \A p : p # <<>> /\ Head(p) = k =>
              /\ p \in DOMAIN w <=> p \in DOMAIN v
              /\ p \in DOMAIN v => w[p] = v[p]
      BY <2>1, <2>5, Elsewhere
    <3>2. Untouched(v, c, k) => Untouched(w, c, k)
      BY <3>1 DEF Untouched
    <3>3. <<k>> # <<>> /\ Head(<<k>>) = k
      OBVIOUS
    <3>4. Defaulted(v, c, r) => Defaulted(w, c, r)
      BY <3>1, <3>3 DEF Defaulted
    <3> QED BY <2>2, <3>2, <3>4
  <2>6. CASE Head(path) = k /\ w # v
    <3>1. j = i /\ path = <<k>>
      <4>1. j \in 1 .. m
        BY <1>1 DEF Rules
      <4>2. Head(PathOf(rs[j])) = rs[i].key
        BY <2>6 DEF path
      <4> HIDE DEF k
      <4>3. j = i /\ PathOf(rs[i]) = <<rs[i].key>>
        BY <4>1, <4>2, OwnPath
      <4> QED BY <4>3 DEF path, k
    <3>2. /\ HasDefault(r) /\ <<k>> \notin DOMAIN v /\ <<k>> \in DOMAIN w
          /\ w[<<k>>] = Schema!GetDefaultValue(r)
      BY <2>1, <2>6, <3>1
    <3>3. <<k>> # <<>> /\ Head(<<k>>) = k
      OBVIOUS
    <3>4. Untouched(v, c, k) /\ <<k>> \notin DOMAIN c
      BY <2>2, <3>2, <3>3 DEF Defaulted, Untouched
    <3>5. ASSUME NEW p, p # <<>>, Head(p) = k, p # <<k>> PROVE p \notin DOMAIN v
      <4> SUFFICES ASSUME p \in DOMAIN v PROVE FALSE
        OBVIOUS
      <4>1. p \in Seq(Schema!Key) /\ Schema!Above(p) \subseteq DOMAIN v
        BY <2>1 DEF Schema!IsValue
      <4>2. SubSeq(p, 1, 1) = <<k>> /\ 1 \in 0 .. Len(p) - 1
        BY <3>5, <4>1, FirstName
      <4>3. <<k>> \in Schema!Above(p)
        BY <4>2 DEF Schema!Above
      <4> QED BY <3>2, <4>1, <4>3
    <3>6. ASSUME NEW p, p # <<>>, Head(p) = k, p # <<k>> PROVE p \notin DOMAIN w
      <4>1. p \notin Schema!Above(path)
        BY <3>1, <3>6, AboveName
      <4> QED BY <2>1, <3>1, <3>5, <3>6, <4>1
    <3>7. Defaulted(w, c, r)
      BY <3>2, <3>4, <3>6 DEF Defaulted
    <3> QED BY <3>7
  <2> QED BY <2>4, <2>5, <2>6
<1> HIDE DEF S
<1>4. n \in S
  <2>1. n \in 0 .. n
    BY <1>1
  <2> QED BY <1>1, <1>2, <1>3, <2>1, UpTo
<1> QED BY <1>4 DEF S

\* A valid configuration stays valid.
LEMMA StaysValid ==
  ASSUME NEW rs, NEW m, Rules(rs, m), NEW n \in 0 .. m, Schema!Separate(rs), NEW c, Schema!IsValue(c),
         NEW o, OnlyMissing(o), NEW f, f = Schema!Filled(rs, c, o), f[n] # Schema!Throws,
         \A i \in 1 .. m : Schema!Conforms(rs[i]),
         Schema!Validate(rs, c, FALSE)
  PROVE  Schema!Validate(rs, f[n], FALSE)
<1>1. n \in Nat /\ Schema!IsValue(f[n])
  <2>1. n \in Nat
    BY DEF Rules
  <2> QED BY <2>1, FilledValues
<1>2. ASSUME NEW i \in 1 .. m
      PROVE  IF Schema!Present(f[n], rs[i].key)
             THEN Schema!ValidateNode(Schema!Member(f[n], rs[i].key), rs[i])
             ELSE ~ Schema!Get(rs[i], "required", FALSE)
  <2> DEFINE k == rs[i].key
  <2>1. IF <<k>> \in DOMAIN c THEN Schema!ValidateNode(Schema!Member(c, k), rs[i])
                              ELSE ~ Schema!Get(rs[i], "required", FALSE)
    BY DEF Schema!Validate, Schema!Present, Rules
  <2>2. <<k>> # <<>> /\ Head(<<k>>) = k
    OBVIOUS
  <2>3. CASE Untouched(f[n], c, k)
    <3>1. Schema!Member(f[n], k) = Schema!Member(c, k)
      BY <1>1, <2>3, MemberIs DEF Untouched
    <3>2. <<k>> \in DOMAIN f[n] <=> <<k>> \in DOMAIN c
      BY <2>2, <2>3 DEF Untouched
    <3> QED BY <2>1, <3>1, <3>2 DEF Schema!Present
  <2>4. CASE Defaulted(f[n], c, rs[i])
    <3>1. Schema!Member(f[n], k) = Schema!Leaf(f[n][<<k>>])
      BY <2>4, MemberLeaf DEF Defaulted
    <3>2. Schema!Member(f[n], k) = Schema!Leaf(Schema!GetDefaultValue(rs[i]))
      BY <2>4, <3>1 DEF Defaulted
    <3>3. Schema!ValidateNode(Schema!Leaf(Schema!GetDefaultValue(rs[i])), rs[i])
      BY <2>4 DEF Defaulted, HasDefault, Schema!Conforms
    <3>4. <<k>> \in DOMAIN f[n]
      BY <2>2, <2>4 DEF Defaulted
    <3> QED BY <3>2, <3>3, <3>4 DEF Schema!Present
  <2> QED BY <2>3, <2>4, MemberFilled
<1> QED BY <1>2 DEF Schema!Validate, Rules

\* What a key is followed by makes it longer, and it leads there.
LEMMA LongerKey ==
  ASSUME NEW a \in Seq(STRING), NEW b \in Schema!Key
  PROVE  a \o b # a /\ Schema!IsPrefix(a, a \o b)
<1>1. b \in Seq(STRING) /\ b # <<>>
  BY DEF Schema!Key
<1>2. /\ Len(a) \in Nat /\ Len(b) \in Nat \ {0}
      /\ Len(a \o b) = Len(a) + Len(b)
  BY <1>1
<1>3. SubSeq(a, 1, Len(a)) = a /\ SubSeq(a \o b, 1, Len(a)) = a
  BY <1>1
<1>4. Len(a) <= Len(a \o b) /\ Len(a \o b) # Len(a)
  BY <1>2
<1> QED BY <1>3, <1>4 DEF Schema!IsPrefix

\* The keys of a rule all begin with its own.
LEMMA KeysBegin ==
  ASSUME NEW r, Schema!IsRule(r), NEW k \in Schema!KeysOf(r)
  PROVE  /\ Schema!IsPrefix(r.key, k)
         /\ k = r.key \/ k \in Schema!Below(r, "nested") \cup Schema!Below(r, "properties")
         /\ \A f \in {"nested", "properties"} : r.key \notin Schema!Below(r, f)
<1>1. r.key \in Seq(STRING) /\ r.key # <<>>
  BY DEF Schema!IsRule, Schema!Key
<1>2. ASSUME NEW f \in {"nested", "properties"}, NEW x \in Schema!Below(r, f)
      PROVE  x # r.key /\ Schema!IsPrefix(r.key, x)
  <2>1. PICK n \in DOMAIN Schema!Get(r, f, <<>>) : x = r.key \o n
    BY DEF Schema!Below
  <2>2. n \in Schema!Key
    BY <1>2 DEF Schema!IsRule
  <2> QED BY <1>1, <2>1, <2>2, LongerKey
<1>3. Schema!IsPrefix(r.key, r.key)
  BY <1>1, PrefixFacts
<1> QED BY <1>2, <1>3 DEF Schema!KeysOf

\* Where no key leads through another, the map has every rule under its key.
LEMMA RuleMapHas ==
  ASSUME NEW rs, NEW n, Rules(rs, n), Schema!Separate(rs), NEW i \in 1 .. n
  PROVE  /\ rs[i].key \in DOMAIN Schema!RuleMap(rs)
         /\ Schema!RuleMap(rs)[rs[i].key] = rs[i]
<1> DEFINE k == rs[i].key
<1>1. n \in Nat /\ DOMAIN rs = 1 .. n /\ \A j \in 1 .. n : Schema!IsRule(rs[j])
  BY DEF Rules
<1>2. k \in Schema!KeysOf(rs[i])
  BY DEF Schema!KeysOf
<1>3. ASSUME NEW j \in 1 .. n, k \in Schema!KeysOf(rs[j]) PROVE j = i
  <2>1. Schema!IsPrefix(rs[j].key, k)
    BY <1>1, <1>3, KeysBegin
  <2> QED BY <1>1, <2>1 DEF Schema!Separate
<1>4. k \notin Schema!Below(rs[i], "nested") /\ k \notin Schema!Below(rs[i], "properties")
  BY <1>1, <1>2, KeysBegin
<1> HIDE DEF k
<1>5. Schema!LastRule(rs, k) = rs[i]
  <2> DEFINE IsLast(x) == /\ k \in Schema!KeysOf(rs[x])
                          /\ \A j \in DOMAIN rs : k \in Schema!KeysOf(rs[j]) => j <= x
  <2>1. i \in DOMAIN rs /\ IsLast(i)
    <3>1. \A j \in DOMAIN rs : k \in Schema!KeysOf(rs[j]) => j = i
      BY <1>1, <1>3
    <3>2. i <= i
      BY <1>1
    <3> QED BY <1>1, <1>2, <3>1, <3>2
  <2>2. \A x \in DOMAIN rs : IsLast(x) => x = i
    BY <1>1, <1>3
  <2>3. Schema!LastRule(rs, k) = rs[CHOOSE x \in DOMAIN rs : IsLast(x)]
    BY DEF Schema!LastRule
  <2> HIDE DEF IsLast
  <2>4. (CHOOSE x \in DOMAIN rs : IsLast(x)) = i
    BY <2>1, <2>2
  <2> QED BY <2>3, <2>4
<1>6. k \in UNION {Schema!KeysOf(rs[j]) : j \in DOMAIN rs}
  BY <1>1, <1>2
<1>7. k \in DOMAIN Schema!RuleMap(rs) /\ Schema!RuleMap(rs)[k] = rs[i]
  BY <1>4, <1>5, <1>6 DEF Schema!RuleMap
<1> QED BY <1>7 DEF k

\* The keys of a schema.
LEMMA KeysHold ==
  ASSUME Rules(rules, Len(rules))
  PROVE  Schema!KeysHaveRules
<1>1. /\ DOMAIN rules = 1 .. Len(rules)
      /\ \A i \in DOMAIN rules : Schema!IsRule(rules[i])
  BY DEF Rules
<1>2. ASSUME NEW i \in DOMAIN rules, NEW f \in {"nested", "properties"},
             NEW n \in DOMAIN Schema!Get(rules[i], f, <<>>)
      PROVE  /\ Schema!HasKey(rules, rules[i].key \o n)
             /\ rules[i][f][n].key = n => rules[i].key \o n \in Schema!GetAllKeys(rules)
  <2> DEFINE r == rules[i]
             k == r.key \o n
  <2>1. k \in Schema!KeysOf(r)
    BY DEF Schema!Below, Schema!KeysOf
  <2>2. Schema!HasKey(rules, k)
    <3>1. k \in UNION {Schema!KeysOf(rules[j]) : j \in DOMAIN rules}
      BY <2>1
    <3> HIDE DEF k, r
    <3> QED BY <3>1 DEF Schema!HasKey, Schema!RuleMap
  <2>3. Schema!Get(r, f, <<>>) = r[f]
    BY DEF Schema!Get, Schema!Has
  <2>4. ASSUME r[f][n].key = n PROVE k \in Schema!GetAllKeys(rules)
    <3>1. k \in Schema!KeysBelow(r, r.key)
      <4> DEFINE q == r[f][n]
                 Inside(g) == {Schema!Get(r, g, <<>>)[m] : m \in DOMAIN Schema!Get(r, g, <<>>)}
                 Listed(x) == {r.key \o x.key} \cup KeysNested(x, r.key \o x.key)
      <4>1. q \in Inside("nested") \cup Inside("properties")
        BY <2>3
      <4>2. k \in Listed(q)
        BY <2>4
      <4>3. Schema!KeysBelow(r, r.key)
                = UNION {Listed(x) : x \in Inside("nested") \cup Inside("properties")}
        BY DEF Schema!KeysBelow
      <4> HIDE DEF q, Inside, Listed, k
      <4> QED BY <4>1, <4>2, <4>3
    <3>2. <<>> \o r.key = r.key
      BY <1>1, ConcatEmptySeq DEF Schema!IsRule, Schema!Key
    <3>3. k \in Schema!CollectKeys(r, <<>>)
      BY <3>1, <3>2 DEF Schema!CollectKeys
    <3> HIDE DEF k
    <3> QED BY <3>3 DEF Schema!GetAllKeys
  <2> QED BY <2>2, <2>4
<1>3. ASSUME Schema!Separate(rules), Schema!Validate(rules, config, FALSE),
             NEW i \in DOMAIN rules, Schema!Present(config, rules[i].key)
      PROVE  Schema!ValidateKey(rules, rules[i].key, Schema!Member(config, rules[i].key))
  <2>1. Schema!ValidateNode(Schema!Member(config, rules[i].key), rules[i])
    BY <1>3 DEF Schema!Validate
  <2>2. /\ rules[i].key \in DOMAIN Schema!RuleMap(rules)
        /\ Schema!RuleMap(rules)[rules[i].key] = rules[i]
    BY <1>1, <1>3, RuleMapHas
  <2> QED BY <2>1, <2>2 DEF Schema!ValidateKey, Schema!HasKey
<1> QED BY <1>2, <1>3 DEF Schema!KeysHaveRules

\* The only rule of its key.
LEMMA OnlyRule ==
  ASSUME NEW rs, NEW n, Rules(rs, n), Schema!Separate(rs), NEW i \in DOMAIN rs,
         NEW j \in DOMAIN rs, rs[j].key = rs[i].key
  PROVE  j = i
<1>1. Schema!IsRule(rs[i]) /\ Schema!IsPrefix(rs[i].key, rs[i].key)
  <2>1. Schema!IsRule(rs[i])
    BY DEF Rules
  <2>2. rs[i].key \in Seq(STRING) /\ rs[i].key # <<>>
    BY <2>1 DEF Schema!IsRule, Schema!Key
  <2> QED BY <2>1, <2>2, PrefixFacts
<1> QED BY <1>1 DEF Schema!Separate

\* What the JSON schema says of a rule: its fields, and the default by its value.
Exported(r) == {"type", "enum", "pattern", "min", "max", "minLength", "maxLength"}
                   \cap DOMAIN r

AsExported(p, r) ==
    /\ Exported(r) \subseteq DOMAIN p
    /\ DOMAIN p \subseteq Exported(r) \cup {"default"}
    /\ \A f \in Exported(r) : p[f] = r[f]

LEMMA ExportIs ==
  ASSUME NEW rs, Rules(rs, Len(rs)), Schema!Separate(rs), NEW i \in DOMAIN rs,
         NEW s, s = Schema!ExportJsonSchema(rs)
  PROVE  /\ DOMAIN s.properties = {rs[j].key : j \in DOMAIN rs}
         /\ rs[i].key \in s.required <=> Schema!Get(rs[i], "required", FALSE)
         /\ AsExported(s.properties[rs[i].key], rs[i])
<1> DEFINE n == Len(rs)
           k == rs[i].key
           p == s.properties[k]
           IsLast(x) == rs[x].key = k /\ \A j \in DOMAIN rs : rs[j].key = k => j <= x
           Default(r) == LET value == Schema!GetDefaultValue(r)
                         IN  IF Schema!Is(value, "nul") THEN [str |-> r.default] ELSE value
           Property(r) == [f \in Exported(r) \cup (IF Schema!Get(r, "default", "") # ""
                                                  THEN {"default"} ELSE {}) |->
                              IF f = "default" THEN Default(r) ELSE r[f]]
<1>1. n \in Nat /\ DOMAIN rs = 1 .. n /\ \A j \in DOMAIN rs : rs[j].key = k => j = i
  BY OnlyRule DEF Rules
<1> HIDE DEF p
<1>2. (CHOOSE x \in DOMAIN rs : IsLast(x)) = i
  <2>1. IsLast(i)
    <3>1. i <= i
      BY <1>1
    <3> QED BY <1>1, <3>1
  <2>2. \A x \in DOMAIN rs : IsLast(x) => x = i
    BY <1>1
  <2> HIDE DEF IsLast
  <2> QED BY <2>1, <2>2
<1>3. /\ DOMAIN s.properties = {rs[j].key : j \in DOMAIN rs}
      /\ s.required = Schema!GetRequiredKeys(rs)
      /\ p = Property(rs[CHOOSE x \in DOMAIN rs : IsLast(x)])
  <2>1. k \in {rs[j].key : j \in DOMAIN rs}
    OBVIOUS
  <2> QED BY <2>1 DEF Schema!ExportJsonSchema, Exported, p
<1>4. p = Property(rs[i])
  <2> HIDE DEF IsLast, Property
  <2> QED BY <1>2, <1>3
<1>5. k \in s.required <=> Schema!Get(rs[i], "required", FALSE)
  BY <1>1, <1>3 DEF Schema!GetRequiredKeys
<1>6. \A f \in Exported(rs[i]) : f # "default"
  BY DEF Exported
<1>7. /\ Exported(rs[i]) \subseteq DOMAIN p
      /\ DOMAIN p \subseteq Exported(rs[i]) \cup {"default"}
      /\ \A f \in Exported(rs[i]) : p[f] = rs[i][f]
  <2> HIDE DEF Default
  <2> QED BY <1>4, <1>6
<1> QED BY <1>3, <1>5, <1>7 DEF AsExported, p

\* The fields of a rule that a loader reads, by its type.
ByType(type) == CASE type = "string"  -> {"pattern", "minLength", "maxLength"}
                  [] type = "integer" -> {"min", "max"}
                  [] OTHER            -> {}

Loaded(r) == ({"enum"} \cup ByType(r.type)) \cap DOMAIN r

\* What a rule is once it is exported and loaded.
LoadedAs(q, r) ==
    /\ DOMAIN q = Loaded(r) \cup {"key", "type", "required", "default"}
    /\ q = [f \in DOMAIN q |-> q[f]]
    /\ q.key = r.key /\ q.type = r.type /\ q.type \notin {"float", "null"}
    /\ q.required <=> Schema!Get(r, "required", FALSE)
    /\ \A f \in Loaded(r) : q[f] = r[f]

LEMMA RuleLoads ==
  ASSUME NEW rs, Rules(rs, Len(rs)), Schema!Separate(rs), NEW i \in DOMAIN rs,
         Schema!Portable(rs[i])
  PROVE  LoadedAs(Schema!RuleOf(Schema!ExportJsonSchema(rs), rs[i].key), rs[i])
<1> DEFINE s == Schema!ExportJsonSchema(rs)
           k == rs[i].key
           q == Schema!RuleOf(s, k)
           p == s.properties[k]
           type == Schema!LoadedType(p.type)
           kept == ({"enum"} \cup ByType(type)) \cap DOMAIN p
<1>1. Schema!IsRule(rs[i])
  BY DEF Rules
<1>0. /\ k \in s.required <=> Schema!Get(rs[i], "required", FALSE)
      /\ AsExported(p, rs[i])
  BY ExportIs
<1> HIDE DEF p, s
<1>2. /\ rs[i].key \in s.required <=> Schema!Get(rs[i], "required", FALSE)
      /\ Exported(rs[i]) \subseteq DOMAIN p
      /\ DOMAIN p \subseteq Exported(rs[i]) \cup {"default"}
      /\ \A f \in Exported(rs[i]) : p[f] = rs[i][f]
  BY <1>0 DEF AsExported
<1>3. type = rs[i].type /\ type \notin {"float", "null"}
  BY <1>1, <1>2 DEF Exported, Schema!IsRule, Schema!Portable, Schema!LoadedType
<1> DEFINE D == kept \cup {"key", "type", "required", "default"}
           At(f) == CASE f = "key"      -> k
                      [] f = "type"     -> type
                      [] f = "required" -> k \in s.required
                      [] f = "default"  -> IF Schema!Has(p, "default")
                                           THEN Schema!TextOf(p.default) ELSE ""
                      [] OTHER          -> p[f]
<1>4. q = [f \in D |-> At(f)]
  BY DEF Schema!RuleOf, ByType, p
<1> HIDE DEF type, q
<1>5. /\ kept = Loaded(rs[i]) /\ kept \subseteq Exported(rs[i])
      /\ kept \cap {"key", "type", "required", "default"} = {}
  BY <1>2, <1>3 DEF Loaded, Exported, ByType
<1> HIDE DEF kept
<1>6. DOMAIN q = D /\ \A f \in D : q[f] = At(f)
  <2> HIDE DEF D, At
  <2> QED BY <1>4
<1>7. \A f \in kept : q[f] = rs[i][f]
  BY <1>2, <1>5, <1>6
<1>8. q.key = k /\ q.type = type /\ (q.required <=> k \in s.required)
  BY <1>6
<1>9. q.required <=> Schema!Get(rs[i], "required", FALSE)
  BY <1>2, <1>8
<1>10. q = [f \in DOMAIN q |-> q[f]]
  <2> HIDE DEF D, At
  <2> QED BY <1>4
<1> QED BY <1>3, <1>5, <1>6, <1>7, <1>8, <1>9, <1>10 DEF LoadedAs, q, s

\* A value that has the type of a rule is judged by the fields that are loaded.
LEMMA SameAccept ==
  ASSUME NEW r, Schema!IsRule(r), Schema!Portable(r), NEW q,
         DOMAIN q = Loaded(r) \cup {"key", "type", "required", "default"},
         q.type = r.type, \A f \in Loaded(r) : q[f] = r[f],
         NEW v, Schema!IsNode(v[<<>>])
  PROVE  Schema!ValidateNode(v, q) <=> Schema!ValidateNode(v, r)
<1> DEFINE node == v[<<>>]
<1>1. PICK kind \in Schema!Kinds : DOMAIN node = {kind}
  BY DEF Schema!IsNode
<1>2. /\ r.type \in Schema!TypeNames \ {"float", "null"}
      /\ \A f \in {"nullable", "minFloat", "maxFloat", "minItems", "maxItems", "format",
                   "items", "properties"} : f \notin DOMAIN r /\ f \notin DOMAIN q
  BY DEF Schema!IsRule, Schema!Portable, Loaded, ByType
<1>3. "enum" \in DOMAIN q <=> "enum" \in DOMAIN r
  BY <1>2 DEF Loaded, ByType
<1>4. "enum" \in DOMAIN r => q.enum = r.enum
  BY DEF Loaded
<1>5. ASSUME Schema!ValidateType(node, r.type), Schema!Is(node, "str")
      PROVE  \A f \in {"pattern", "minLength", "maxLength"} :
                (f \in DOMAIN q <=> f \in DOMAIN r) /\ (f \in DOMAIN r => q[f] = r[f])
  <2>1. r.type = "string"
    BY <1>1, <1>2, <1>5 DEF Schema!ValidateType, Schema!Is, Schema!TypeNames
  <2> QED BY <2>1 DEF Loaded, ByType
<1>6. ASSUME Schema!ValidateType(node, r.type), Schema!Is(node, "num")
      PROVE  \A f \in {"min", "max"} :
                (f \in DOMAIN q <=> f \in DOMAIN r) /\ (f \in DOMAIN r => q[f] = r[f])
  <2>1. r.type = "integer"
    BY <1>1, <1>2, <1>6 DEF Schema!ValidateType, Schema!Is, Schema!TypeNames
  <2> QED BY <2>1 DEF Loaded, ByType
<1> HIDE DEF node
<1>7. Schema!Get(q, "nullable", FALSE) <=> Schema!Get(r, "nullable", FALSE)
  BY <1>2 DEF Schema!Get, Schema!Has
<1>8. (Schema!Get(q, "enum", {}) # {} => Schema!ValidateEnum(node, q.enum))
          <=> (Schema!Get(r, "enum", {}) # {} => Schema!ValidateEnum(node, r.enum))
  BY <1>3, <1>4 DEF Schema!Get, Schema!Has
<1>9. ASSUME Schema!ValidateType(node, r.type)
      PROVE  Schema!ValidatePattern(node, q) <=> Schema!ValidatePattern(node, r)
  BY <1>5, <1>9 DEF Schema!ValidatePattern, Schema!Get, Schema!Has
<1>10. ASSUME Schema!ValidateType(node, r.type)
       PROVE  Schema!ValidateRange(node, q) <=> Schema!ValidateRange(node, r)
  <2>1. CASE Schema!Is(node, "str")
    <3>1. ~ Schema!Is(node, "num") /\ ~ Schema!Is(node, "list")
      BY <1>1, <2>1 DEF Schema!Is
    <3> QED BY <1>5, <1>10, <2>1, <3>1 DEF Schema!ValidateRange, Schema!Has
  <2>2. CASE Schema!Is(node, "num")
    <3>1. ~ Schema!Is(node, "str") /\ ~ Schema!Is(node, "list")
      BY <1>1, <2>2 DEF Schema!Is
    <3> QED BY <1>2, <1>6, <1>10, <2>2, <3>1 DEF Schema!ValidateRange, Schema!Has
  <2>3. CASE ~ Schema!Is(node, "str") /\ ~ Schema!Is(node, "num")
    BY <1>2, <2>3 DEF Schema!ValidateRange, Schema!Has
  <2> QED BY <2>1, <2>2, <2>3
<1>11. Schema!ValidateFormat(node, q) <=> Schema!ValidateFormat(node, r)
  BY <1>2 DEF Schema!ValidateFormat, Schema!Get, Schema!Has
<1>12. Schema!ValidateArray(node, q) <=> Schema!ValidateArray(node, r)
  <2>1. \A d : Schema!Get(q, "items", d) = d /\ Schema!Get(r, "items", d) = d
    BY <1>2 DEF Schema!Get, Schema!Has
  <2> QED BY <2>1 DEF Schema!ValidateArray
<1>13. Schema!ValidateObject(v, q) /\ Schema!ValidateObject(v, r)
  <2>1. Schema!Get(q, "properties", <<>>) = <<>> /\ Schema!Get(r, "properties", <<>>) = <<>>
    BY <1>2 DEF Schema!Get, Schema!Has
  <2>2. DOMAIN <<>> = {}
    OBVIOUS
  <2> QED BY <2>1, <2>2 DEF Schema!ValidateObject
<1>14. CASE Schema!Is(node, "nul")
  BY <1>7, <1>14 DEF Schema!ValidateNode, node
<1>15. CASE ~ Schema!Is(node, "nul")
  <2>1. ASSUME NEW x PROVE
          Schema!ValidateNode(v, x) <=>
            /\ Schema!ValidateType(node, x.type)
            /\ Schema!Get(x, "enum", {}) # {} => Schema!ValidateEnum(node, x.enum)
            /\ Schema!ValidatePattern(node, x)
            /\ Schema!ValidateRange(node, x)
            /\ Schema!ValidateFormat(node, x)
            /\ Schema!ValidateArray(node, x)
            /\ Schema!ValidateObject(v, x)
    BY <1>15 DEF Schema!ValidateNode, node
  <2> QED BY <1>8, <1>9, <1>10, <1>11, <1>12, <1>13, <2>1
<1> QED BY <1>14, <1>15

\* The rules that are loaded: each key of the schema once, in some order.
LEMMA LoadOrder ==
  ASSUME NEW S, IsFiniteSet(S)
  PROVE  /\ Schema!SetToSeq(S) \in Seq(S)
         /\ \A k \in S : \E m \in DOMAIN Schema!SetToSeq(S) : Schema!SetToSeq(S)[m] = k
<1> DEFINE n == Cardinality(S)
<1>1. n \in Nat /\ ExistsBijection(1 .. n, S)
  BY FS_CardinalityType
<1>2. n = Schema!Cardinality(S)
  BY Zenon DEF Schema!Cardinality, Cardinality
<1> HIDE DEF n
<1>3. PICK g \in [1 .. n -> S] : Schema!IsInjective(g)
  BY <1>1 DEF ExistsBijection, Bijection, Injection, IsInjective, Schema!IsInjective
<1>4. \E f \in [1 .. Schema!Cardinality(S) -> S] : Schema!IsInjective(f)
  BY <1>2, <1>3
<1> DEFINE w == Schema!SetToSeq(S)
<1>5. w \in [1 .. n -> S] /\ Schema!IsInjective(w)
  BY <1>2, <1>4 DEF Schema!SetToSeq
<1> HIDE DEF w
<1>6. w \in Injection(1 .. n, S)
  BY <1>5 DEF Injection, IsInjective, Schema!IsInjective
<1>7. IsFiniteSet(1 .. n) /\ Cardinality(1 .. n) = Cardinality(S)
  <2>1. 1 \in Int /\ n \in Int /\ (1 > n => n = 0)
    BY <1>1
  <2> QED BY <1>1, <2>1, FS_Interval DEF n
<1>8. w \in Surjection(1 .. n, S)
  BY <1>6, <1>7, FS_Injection
<1>9. \A k \in S : \E m \in 1 .. n : w[m] = k
  BY <1>8 DEF Surjection
<1>10. w \in Seq(S) /\ DOMAIN w = 1 .. n
  BY <1>1, <1>5
<1> QED BY <1>9, <1>10 DEF w

\* What validation asks of a configuration for one rule.
Judged(c, r) == IF Schema!Present(c, r.key) THEN Schema!ValidateNode(Schema!Member(c, r.key), r)
                                            ELSE ~ Schema!Get(r, "required", FALSE)

LEMMA MemberNode ==
  ASSUME NEW c, Schema!IsValue(c), NEW k, Schema!Present(c, k)
  PROVE  Schema!IsNode(Schema!Member(c, k)[<<>>])
<1>1. <<k>> \in DOMAIN c /\ Schema!IsNode(c[<<k>>])
  BY DEF Schema!IsValue, Schema!Present
<1>2. <<k>> # <<>> /\ Head(<<k>>) = k /\ Tail(<<k>>) = <<>> /\ <<k>> \o <<>> = <<k>>
  OBVIOUS
<1> DEFINE Q == {Tail(p) : p \in {p \in DOMAIN c : p # <<>> /\ Head(p) = k}}
<1>3. <<>> \in Q
  BY <1>1, <1>2
<1>4. Schema!Member(c, k) = [q \in Q |-> c[<<k>> \o q]]
  BY DEF Schema!Member
<1> HIDE DEF Q
<1>5. Schema!Member(c, k)[<<>>] = c[<<k>> \o <<>>]
  BY <1>3, <1>4
<1> QED BY <1>1, <1>2, <1>5

\* A rule that is exported and loaded judges as it did, and the YAML loader reads it as
\* it is.
LEMMA OneRule ==
  ASSUME NEW rs, Rules(rs, Len(rs)), Schema!Separate(rs), NEW i \in DOMAIN rs,
         Schema!Portable(rs[i]), NEW c, Schema!IsValue(c),
         NEW q, q = Schema!RuleOf(Schema!ExportJsonSchema(rs), rs[i].key)
  PROVE  /\ Judged(c, q) <=> Judged(c, rs[i])
         /\ Schema!YamlRuleOf(q, q.key) = q
<1> DEFINE r == rs[i]
<1>0. LoadedAs(q, r)
  BY RuleLoads
<1>1. /\ DOMAIN q = Loaded(r) \cup {"key", "type", "required", "default"}
      /\ q = [f \in DOMAIN q |-> q[f]]
      /\ q.key = r.key /\ q.type = r.type /\ q.type \notin {"float", "null"}
      /\ q.required <=> Schema!Get(r, "required", FALSE)
      /\ \A f \in Loaded(r) : q[f] = r[f]
  <2> HIDE DEF r
  <2> QED BY <1>0 DEF LoadedAs
<1>2. Schema!IsRule(r)
  BY DEF Rules
<1>3. Schema!Portable(r)
  OBVIOUS
<1> HIDE DEF r
<1>4. Schema!Get(q, "required", FALSE) <=> Schema!Get(r, "required", FALSE)
  BY <1>1 DEF Schema!Get, Schema!Has
<1>5. ASSUME Schema!Present(c, r.key)
      PROVE  Schema!ValidateNode(Schema!Member(c, r.key), q)
                 <=> Schema!ValidateNode(Schema!Member(c, r.key), r)
  <2>1. Schema!IsNode(Schema!Member(c, r.key)[<<>>])
    BY <1>5, MemberNode
  <2> QED BY <1>1, <1>2, <1>3, <2>1, SameAccept
<1>6. Judged(c, q) <=> Judged(c, r)
  BY <1>1, <1>4, <1>5 DEF Judged
<1> DEFINE kept == ({"enum", "required", "default", "format", "sensitive", "readOnly"}
                        \cup ByType(q.type)) \cap DOMAIN q
           D == kept \cup {"key", "type"}
           At(f) == CASE f = "key" -> q.key [] f = "type" -> q.type [] OTHER -> q[f]
<1>7. Schema!YamlRuleOf(q, q.key) = [f \in D |-> At(f)]
  BY <1>1 DEF Schema!YamlRuleOf, ByType, Schema!LoadedType
<1>8. D = DOMAIN q
  BY <1>1 DEF Loaded, ByType
<1>9. \A f \in D : At(f) = q[f]
  OBVIOUS
<1>10. Schema!YamlRuleOf(q, q.key) = q
  <2> HIDE DEF D, At
  <2> QED BY <1>1, <1>7, <1>8, <1>9
<1> QED BY <1>6, <1>10 DEF r

\* The schema that is exported and loaded judges as this one does.
LEMMA ExportHolds ==
  ASSUME NEW rs, Rules(rs, Len(rs)), NEW c, Schema!IsValue(c), Schema!Separate(rs),
         \A i \in DOMAIN rs : Schema!Portable(rs[i])
  PROVE  Schema!Validate(Schema!LoadJsonSchema(Schema!ExportJsonSchema(rs)), c, FALSE)
             <=> Schema!Validate(rs, c, FALSE)
<1> DEFINE s == Schema!ExportJsonSchema(rs)
           S == {rs[j].key : j \in DOMAIN rs}
           w == Schema!SetToSeq(S)
           l == Schema!LoadJsonSchema(s)
<1>1. \A i \in DOMAIN rs : Judged(c, Schema!RuleOf(s, rs[i].key)) <=> Judged(c, rs[i])
  BY OneRule
<1>2. IsFiniteSet(S)
  <2>1. Len(rs) \in Nat /\ DOMAIN rs = 1 .. Len(rs)
    BY DEF Rules
  <2>2. IsFiniteSet(DOMAIN rs)
    BY <2>1, FS_Interval
  <2> DEFINE f == [j \in DOMAIN rs |-> rs[j].key]
  <2>3. f \in Surjection(DOMAIN rs, S)
    BY DEF Surjection
  <2> HIDE DEF f, S
  <2> QED BY <2>2, <2>3, FS_Surjection
<1>3. CASE DOMAIN rs = {}
  <2>1. S = {}
    BY <1>3
  <2>2. DOMAIN s.properties = {}
    BY <2>1 DEF Schema!ExportJsonSchema
  <2>3. DOMAIN l = {}
    <3>1. w \in Seq(S)
      BY <1>2, LoadOrder
    <3>2. l = [m \in DOMAIN w |-> Schema!RuleOf(s, w[m])]
      BY <2>1, <2>2 DEF Schema!LoadJsonSchema
    <3> HIDE DEF w, l, s, S
    <3>3. w \in Seq({})
      BY <2>1, <3>1
    <3>4. DOMAIN w = {}
      BY <3>3
    <3> QED BY <3>2, <3>4
  <2> QED BY <1>3, <2>3 DEF Schema!Validate
<1>4. CASE DOMAIN rs # {}
  <2>1. DOMAIN s.properties = S
    BY <1>4, ExportIs
  <2>2. l = [m \in DOMAIN w |-> Schema!RuleOf(s, w[m])]
    BY <2>1 DEF Schema!LoadJsonSchema
  <2>3. w \in Seq(S) /\ \A k \in S : \E m \in DOMAIN w : w[m] = k
    BY <1>2, LoadOrder
  <2> HIDE DEF w, l, s
  <2>4. \A m \in DOMAIN w : w[m] \in S
    BY <2>3
  <2>5. (\A m \in DOMAIN w : Judged(c, l[m])) <=> (\A i \in DOMAIN rs : Judged(c, rs[i]))
    <3>1. \A m \in DOMAIN w : l[m] = Schema!RuleOf(s, w[m])
      BY <2>2
    <3>2. ASSUME \A m \in DOMAIN w : Judged(c, l[m]), NEW i \in DOMAIN rs
          PROVE  Judged(c, rs[i])
      <4>1. PICK m \in DOMAIN w : w[m] = rs[i].key
        BY <2>3
      <4> QED BY <1>1, <3>1, <3>2, <4>1
    <3>3. ASSUME \A i \in DOMAIN rs : Judged(c, rs[i]), NEW m \in DOMAIN w
          PROVE  Judged(c, l[m])
      <4>1. PICK i \in DOMAIN rs : w[m] = rs[i].key
        BY <2>4
      <4> QED BY <1>1, <3>1, <3>3, <4>1
    <3> QED BY <3>2, <3>3
  <2>6. DOMAIN l = DOMAIN w
    BY <2>2
  <2> QED BY <2>5, <2>6 DEF Schema!Validate, Judged, l, s
<1> QED BY <1>3, <1>4

LEMMA ExportedAgrees ==
  ASSUME Rules(rules, Len(rules)), Schema!IsValue(config)
  PROVE  Schema!ExportedSchemaAgrees
BY ExportHolds, OneRule DEF Schema!ExportedSchemaAgrees

\* Defaults fill in and never spoil.
LEMMA FillInHolds ==
  ASSUME Rules(rules, Len(rules)), Schema!IsValue(config)
  PROVE  Schema!DefaultsFillIn
<1> DEFINE o == FALSE
           m == Len(rules)
           n == Schema!RulesDone(rules, config, o)
           f == Schema!Filled(rules, config, o)
           g == Schema!Filled(rules, f[n], o)
           Kept == \A p \in DOMAIN config : /\ p \in DOMAIN f[n]
                                            /\ Schema!Is(config[p], "nul") \/ f[n][p] = config[p]
           Valid == Schema!Separate(rules) /\ (\A i \in DOMAIN rules : Schema!Conforms(rules[i]))
                        /\ Schema!Validate(rules, config, FALSE)
                    => Schema!Validate(rules, f[n], FALSE)
<1>1. OnlyMissing(o)
  BY DEF OnlyMissing
<1>2. DOMAIN rules = 1 .. m /\ m \in Nat /\ Len(rules) = m
  BY DEF Rules
<1> HIDE DEF m
<1>3. Rules(rules, m)
  BY DEF m
<1>4. /\ n \in 0 .. m /\ f[n] # Schema!Throws /\ (n < m => f[n + 1] = Schema!Throws)
      /\ Schema!ApplyDefaults(rules, config, o) = f[n]
  <2> HIDE DEF f, n, o
  <2> QED BY <1>3, DoneIs DEF f, n
<1>5. Schema!ApplyDefaults(rules, f[n], o) = f[n] /\ Kept
  <2> DEFINE k == Schema!RulesDone(rules, f[n], o)
  <2> HIDE DEF o, n
  <2>1. Kept /\ \A i \in 0 .. n : g[i] = f[n]
    <3> HIDE DEF f
    <3>1. f = Schema!Filled(rules, config, o)
      BY DEF f
    <3>2. /\ \A p \in DOMAIN config :
                p \in DOMAIN f[n] /\ (Schema!Is(config[p], "nul") \/ f[n][p] = config[p])
          /\ \A i \in 0 .. n : Schema!Filled(rules, f[n], o)[i] = f[n]
      BY <1>1, <1>3, <1>4, <3>1, Fills
    <3> QED BY <3>2
  <2>2. Schema!IsValue(f[n]) /\ n \in 0 .. n
    <3> HIDE DEF f
    <3>1. f = Schema!Filled(rules, config, o)
      BY DEF f
    <3>2. n \in 0 .. n
      BY <1>2, <1>4
    <3> QED BY <1>3, <1>4, <3>1, <3>2, FilledValues
  <2>3. /\ \A i \in 1 .. m : f[i] = Schema!ApplyDefault(f[i - 1], rules[i], o)
        /\ \A i \in 1 .. m : g[i] = Schema!ApplyDefault(g[i - 1], rules[i], o)
    <3> HIDE DEF f, g
    <3>1. f = Schema!Filled(rules, config, o) /\ g = Schema!Filled(rules, f[n], o)
      BY DEF f, g
    <3> QED BY <1>3, <3>1, FilledBy
  <2> HIDE DEF f, g
  <2>4. /\ k \in 0 .. m /\ g[k] # Schema!Throws
        /\ Schema!ApplyDefaults(rules, f[n], o) = g[k]
    BY <1>3, <2>2, DoneIs DEF g
  <2>5. ~ (n < k)
    <3> SUFFICES ASSUME n < k PROVE FALSE
      OBVIOUS
    <3>1. n + 1 \in 1 .. m /\ (n + 1) - 1 = n /\ n < m /\ n + 1 \in 0 .. k
      BY <1>2, <1>4, <2>4
    <3>2. g[n + 1] = f[n + 1]
      BY <2>1, <2>2, <2>3, <3>1
    <3>3. g[n + 1] # Schema!Throws
      BY <1>3, <2>2, <2>4, <3>1, FilledValues DEF g
    <3> QED BY <1>4, <3>1, <3>2, <3>3
  <2>6. k \in 0 .. n
    BY <1>2, <1>4, <2>4, <2>5
  <2> QED BY <2>1, <2>4, <2>6
<1>6. Valid
  <2> HIDE DEF f, n, o
  <2>1. f = Schema!Filled(rules, config, o)
    BY DEF f
  <2> QED BY <1>1, <1>2, <1>3, <1>4, <2>1, StaysValid
<1> DEFINE filled == f[n]
<1>7. /\ Schema!ApplyDefaults(rules, config, FALSE) = filled
      /\ Schema!ApplyDefaults(rules, filled, FALSE) = filled
  BY <1>4, <1>5
<1> HIDE DEF n, f, g, m
<1>8. /\ \A p \in DOMAIN config :
            p \in DOMAIN filled /\ (Schema!Is(config[p], "nul") \/ filled[p] = config[p])
      /\ Schema!Separate(rules) /\ (\A i \in DOMAIN rules : Schema!Conforms(rules[i]))
           /\ Schema!Validate(rules, config, FALSE) => Schema!Validate(rules, filled, FALSE)
  BY <1>5, <1>6
<1> HIDE DEF filled
<1> QED BY <1>7, <1>8 DEF Schema!DefaultsFillIn

\* The invariant of the schema's part.
SchemaInv == Schema!SchemaTypeOK

LEMMA SchemaRules ==
  ASSUME StoredAssumption, SchemaInv
  PROVE  Rules(rules, Len(rules))
<1>1. rules \in Seq(RuleChoices) /\ \A r \in RuleChoices : Schema!IsRule(r)
  BY DEF SchemaInv, Schema!SchemaTypeOK, StoredAssumption, Schema!SchemaAssumption
<1> QED BY <1>1 DEF Rules

\* The document without members.
LEMMA EmptyDocument ==
  LET c == Schema!Leaf(Schema!Object) IN Schema!IsValue(c) /\ Schema!Is(c[<<>>], "obj")
<1> DEFINE c == Schema!Leaf(Schema!Object)
<1>1. DOMAIN c = {<<>>} /\ c[<<>>] = Schema!Object
  BY DEF Schema!Leaf
<1> HIDE DEF c
<1>2. Schema!Is(Schema!Object, "obj") /\ Schema!IsNode(Schema!Object)
  <2>1. DOMAIN Schema!Object = {"obj"}
    BY DEF Schema!Object
  <2> QED BY <2>1 DEF Schema!Is, Schema!IsNode, Schema!Kinds
<1>3. Schema!Above(<<>>) = {} /\ <<>> \in Seq(Schema!Key)
  BY DEF Schema!Above
<1>4. Schema!IsValue(c) /\ Schema!Is(c[<<>>], "obj")
  BY <1>1, <1>2, <1>3 DEF Schema!IsValue
<1> QED BY <1>4 DEF c

LEMMA SchemaStart ==
  ASSUME StoredAssumption, Schema!Init
  PROVE  SchemaInv
<1>1. rules = <<>> /\ config = Schema!Leaf(Schema!Object)
  BY DEF Schema!Init
<1>2. rules \in Seq(RuleChoices) /\ Len(rules) = 0
  BY <1>1
<1>3. Len(rules) <= MaxRules
  BY <1>2 DEF StoredAssumption, Schema!SchemaAssumption
<1>4. Schema!IsValue(config) /\ Schema!Is(config[<<>>], "obj")
  BY <1>1, EmptyDocument
<1> QED BY <1>2, <1>3, <1>4 DEF SchemaInv, Schema!SchemaTypeOK

LEMMA SchemaStep ==
  ASSUME StoredAssumption, SchemaInv, [Schema!Next]_(Schema!schemaVars)
  PROVE  SchemaInv'
<1>1. Schema!SchemaAssumption
  BY DEF StoredAssumption
<1>2. ASSUME NEW r \in RuleChoices, Schema!AddRule(r) PROVE SchemaInv'
  <2>1. rules' \in Seq(RuleChoices) /\ Len(rules') = Len(rules) + 1
    BY <1>2 DEF Schema!AddRule, SchemaInv, Schema!SchemaTypeOK
  <2> QED BY <1>1, <1>2, <2>1 DEF Schema!AddRule, SchemaInv, Schema!SchemaTypeOK,
       Schema!SchemaAssumption
<1>3. CASE Schema!Clear
  <2>1. rules' \in Seq(RuleChoices) /\ Len(rules') = 0
    BY <1>3 DEF Schema!Clear
  <2> QED BY <1>1, <1>3, <2>1 DEF Schema!Clear, SchemaInv, Schema!SchemaTypeOK,
       Schema!SchemaAssumption
<1>4. ASSUME NEW path \in Paths, NEW node \in Nodes, Schema!SetMember(path, node)
      PROVE  SchemaInv'
  <2> DEFINE o == TRUE
  <2>1. config' = Schema!PutDefault(config, path, node, o) /\ config' # Schema!Throws
    BY <1>4 DEF Schema!SetMember
  <2>2. path \in Seq(Schema!Key) /\ path # <<>> /\ Schema!IsNode(node)
    BY <1>1 DEF Schema!SchemaAssumption
  <2> HIDE DEF o
  <2>3. Schema!IsValue(config') /\ Schema!Is(config'[<<>>], "obj")
    BY <2>1, <2>2, PutIsValue DEF SchemaInv, Schema!SchemaTypeOK
  <2> QED BY <1>4, <2>3 DEF Schema!SetMember, SchemaInv, Schema!SchemaTypeOK
<1>5. ASSUME NEW o \in BOOLEAN, Schema!FillIn(o) PROVE SchemaInv'
  <2> DEFINE m == Len(rules)
             n == Schema!RulesDone(rules, config, o)
             f == Schema!Filled(rules, config, o)
  <2>1. Rules(rules, m) /\ Schema!IsValue(config) /\ Schema!Is(config[<<>>], "obj")
    BY SchemaRules DEF SchemaInv, Schema!SchemaTypeOK
  <2> HIDE DEF m
  <2>2. /\ n \in 0 .. m /\ f[n] # Schema!Throws
        /\ Schema!ApplyDefaults(rules, config, o) = f[n]
    <3> HIDE DEF n, f
    <3> QED BY <2>1, DoneIs DEF n, f
  <2>3. n \in 0 .. n
    BY <2>1, <2>2 DEF Rules
  <2>4. Schema!IsValue(f[n]) /\ Schema!Is(f[n][<<>>], "obj")
    <3> HIDE DEF n, f
    <3> QED BY <2>1, <2>2, <2>3, FilledValues DEF f
  <2> HIDE DEF n, f
  <2> QED BY <1>5, <2>2, <2>4 DEF Schema!FillIn, SchemaInv, Schema!SchemaTypeOK
<1>7. CASE Schema!Generate
  <2> DEFINE m == Len(rules)
             c == Schema!Leaf(Schema!Object)
             o == TRUE
             f == Schema!Filled(rules, c, o)
  <2>1. Rules(rules, m) /\ m \in Nat
    BY SchemaRules DEF Rules
  <2>2. m \in 0 .. m
    BY <2>1
  <2>3. Schema!IsValue(c) /\ Schema!Is(c[<<>>], "obj")
    BY EmptyDocument
  <2>4. config' = f[m] /\ f[m] # Schema!Throws /\ rules' = rules
    BY <1>7 DEF Schema!Generate, Schema!GenerateDefaultConfig
  <2> HIDE DEF m, c, o, f
  <2>5. Schema!IsValue(f[m]) /\ Schema!Is(f[m][<<>>], "obj")
    BY <2>1, <2>2, <2>3, <2>4, FilledValues DEF f
  <2> QED BY <2>4, <2>5 DEF SchemaInv, Schema!SchemaTypeOK
<1>6. CASE UNCHANGED Schema!schemaVars
  BY <1>6 DEF Schema!schemaVars, SchemaInv, Schema!SchemaTypeOK
<1> QED BY <1>2, <1>3, <1>4, <1>5, <1>6, <1>7 DEF Schema!Next

-----------------------------------------------------------------------------
(* All of them.                                                            *)

\* The invariant of the part that runs.
StoredInv ==
    /\ which = "configuration" => ConfigurationInv
    /\ which = "events"        => EventsInv
    /\ which = "readings"      => SensedInv
    /\ which = "records"       => RecordsInv
    /\ which = "schema"        => SchemaInv

\* Each part starts in its invariant.
LEMMA StoredStart == ASSUME StoredAssumption, StoredInit PROVE StoredInv
BY ConfigurationInit, EventsInit, SensedInit, RecordsInit, SchemaStart
   DEF StoredInit, StoredInv

\* The steps of the part that runs keep its invariant.
LEMMA StoredStep ==
  ASSUME StoredAssumption, StoredInv, [StoredNext]_storedVars
  PROVE  StoredInv'
<1>1. UNCHANGED which
  BY DEF StoredNext, storedVars
<1>2. CASE which = "configuration"
  <2>1. [Configuration!Next]_(Configuration!configVars)
    BY <1>2 DEF StoredNext, storedVars, configVars, Configuration!configVars
  <2>2. ConfigurationInv'
    BY <1>2, <2>1, ConfigurationStep DEF StoredInv
  <2> QED BY <1>1, <1>2, <2>2 DEF StoredInv
<1>3. CASE which = "events"
  <2>1. [Events!Next]_eventVars
    BY <1>3 DEF StoredNext, storedVars
  <2>2. EventsInv'
    BY <1>3, <2>1, EventsStep DEF StoredInv
  <2> QED BY <1>1, <1>3, <2>2 DEF StoredInv
<1>4. CASE which = "readings"
  <2>1. [Sensed!Next]_(Sensed!readingVars)
    BY <1>4 DEF StoredNext, storedVars, readingVars, Sensed!readingVars
  <2>2. SensedInv'
    BY <1>4, <2>1, SensedStep DEF StoredInv
  <2> QED BY <1>1, <1>4, <2>2 DEF StoredInv
<1>5. CASE which = "records"
  <2>1. [Records!Next]_(Records!recordVars)
    BY <1>5 DEF StoredNext, storedVars, recordVars, Records!recordVars
  <2>2. RecordsInv'
    BY <1>5, <2>1, RecordsStep DEF StoredInv
  <2> QED BY <1>1, <1>5, <2>2 DEF StoredInv
<1>6. CASE which = "schema"
  <2>1. [Schema!Next]_(Schema!schemaVars)
    BY <1>6 DEF StoredNext, storedVars, schemaVars, Schema!schemaVars
  <2>2. SchemaInv'
    BY <1>6, <2>1, SchemaStep DEF StoredInv
  <2> QED BY <1>1, <1>6, <2>2 DEF StoredInv
<1>7. CASE which \notin {"configuration", "events", "readings", "records", "schema"}
  BY <1>1, <1>7 DEF StoredInv
<1> QED BY <1>2, <1>3, <1>4, <1>5, <1>6, <1>7

\* Whatever is written to JSON and read again, as often as you like: a complete
\* configuration comes back the same, and only a refused one is invalid; an event keeps
\* all but the fraction of a millisecond, and no filter tells the difference; a reading
\* has the values it was measured with; and every device has a record it was given.
THEOREM RecordsKept ==
  ASSUME StoredAssumption
  PROVE  StoredSpec => []RecordsSurvive
<1>1. StoredInit => StoredInv
  BY StoredStart
<1>2. StoredInv /\ [StoredNext]_storedVars => StoredInv'
  BY StoredStep
<1>3. StoredInv => RecordsSurvive
  BY ConfigurationHolds, EventsHold, SensedHolds, RecordsHold
     DEF StoredInv, RecordsSurvive
<1> QED BY <1>1, <1>2, <1>3, PTL DEF StoredSpec

\* DeviceManager::initialize(), given the devices that saveConfig() wrote, after any
\* history of registrations, changes, saves and restarts has every one of them that a
\* creator of the application can make, whether or not the file it is also told to load
\* makes it throw.
THEOREM LoadsKept ==
  ASSUME StoredAssumption
  PROVE  StoredSpec => LoadBringsBack
<1>1. StoredInit => StoredInv
  BY StoredStart
<1>2. StoredInv /\ [StoredNext]_storedVars => StoredInv'
  BY StoredStep
<1>3. StoredInv /\ [StoredNext]_storedVars
        => [which = "records" => Records!BringsBack]_storedVars
  <2> SUFFICES ASSUME StoredInv, [StoredNext]_storedVars, which = "records"
               PROVE  Records!BringsBack \/ UNCHANGED storedVars
    OBVIOUS
  <2>1. [Records!Next]_(Records!recordVars)
    BY DEF StoredNext, storedVars, recordVars, Records!recordVars
  <2> QED BY <2>1, LoadHolds DEF StoredInv
<1> QED BY <1>1, <1>2, <1>3, PTL DEF StoredSpec, LoadBringsBack

\* ConfigSchema, for any rules and any document: applyDefaults() keeps what a document
\* has, does nothing the second time and leaves a valid document valid; what
\* exportJsonSchema() writes accepts what the schema does once loadJsonSchema() has read
\* it; and the keys that buildRuleMap() and collectKeys() make are those of the rules.
\* It holds whatever validateNode() and collectKeys() say of the rules inside a rule.
THEOREM SchemaKept ==
  ASSUME StoredAssumption
  PROVE  StoredSpec => []SchemaHolds
<1>1. StoredInit => StoredInv
  BY StoredStart
<1>2. StoredInv /\ [StoredNext]_storedVars => StoredInv'
  BY StoredStep
<1>3. StoredInv => SchemaHolds
  <2> SUFFICES ASSUME SchemaInv
               PROVE  /\ Schema!SchemaTypeOK /\ Schema!DefaultsFillIn
                      /\ Schema!ExportedSchemaAgrees /\ Schema!KeysHaveRules
    BY DEF StoredInv, SchemaHolds
  <2>1. Rules(rules, Len(rules)) /\ Schema!IsValue(config)
    BY SchemaRules DEF SchemaInv, Schema!SchemaTypeOK
  <2> QED BY <2>1, KeysHold, ExportedAgrees, FillInHolds DEF SchemaInv
<1> QED BY <1>1, <1>2, <1>3, PTL DEF StoredSpec

-----------------------------------------------------------------------------
(* What the drivers make of their chips' bytes.                            *)

CONSTANTS Bytes, Readings, Samples, Rates
VARIABLES msb, lsb, xlsb, setting, rate, readings
Decoding == INSTANCE SensorDecoding

DecodingInv ==
    /\ msb \in 0 .. 255 /\ lsb \in 0 .. 255 /\ xlsb \in 0 .. 255
    /\ setting \in 0 .. 12 /\ rate \in Nat \ {0}

\* The input is always of bytes, a setting and a rate.
LEMMA DecodingStep ==
  ASSUME Decoding!DecodingAssumption
  PROVE  /\ Decoding!Init => DecodingInv
         /\ DecodingInv /\ [Decoding!Next]_(Decoding!decodingVars) => DecodingInv'
<1>1. Decoding!Init => DecodingInv
  BY DEF Decoding!Init, DecodingInv
<1>2. ASSUME DecodingInv, [Decoding!Next]_(Decoding!decodingVars) PROVE DecodingInv'
  <2>1. ASSUME NEW b1 \in Bytes, NEW b2 \in Bytes, NEW b3 \in Bytes,
               Decoding!Receive(b1, b2, b3)
        PROVE  DecodingInv'
    <3>1. b1 \in 0 .. 255 /\ b2 \in 0 .. 255 /\ b3 \in 0 .. 255
      BY DEF Decoding!DecodingAssumption
    <3> QED BY <1>2, <2>1, <3>1 DEF Decoding!Receive, DecodingInv
  <2>2. ASSUME NEW s \in 0 .. 12, Decoding!Set(s) PROVE DecodingInv'
    BY <1>2, <2>2 DEF Decoding!Set, DecodingInv
  <2>3. ASSUME NEW r \in Rates, Decoding!SetRate(r) PROVE DecodingInv'
    <3>1. r \in Nat \ {0}
      BY DEF Decoding!DecodingAssumption
    <3> QED BY <1>2, <2>3, <3>1 DEF Decoding!SetRate, DecodingInv
  <2>4. ASSUME NEW r, Decoding!Read(r) PROVE DecodingInv'
    BY <1>2, <2>4 DEF Decoding!Read, DecodingInv
  <2>5. CASE UNCHANGED Decoding!decodingVars
    BY <1>2, <2>5 DEF Decoding!decodingVars, DecodingInv
  <2> QED BY <1>2, <2>1, <2>2, <2>3, <2>4, <2>5 DEF Decoding!Next
<1> QED BY <1>1, <1>2

\* A word is the sum of its bytes, each of which can be found in it.
LEMMA Words ==
  ASSUME NEW hi \in 0 .. 255, NEW lo \in 0 .. 255
  PROVE  Decoding!Word(hi, lo) \in Nat /\ Decoding!Word(hi, lo) < 2 ^ 16
BY DEF Decoding!Word

\* The twelve bits of a TMP102 and the nine of an LM75 are the higher ones of a word in
\* two's complement.
LEMMA Temperatures ==
  ASSUME NEW w \in Nat, w < 2 ^ 16
  PROVE  /\ Decoding!ReadTMP102(w) = Decoding!Floor(Decoding!Signed(w), 16)
         /\ Decoding!ReadLM75(w) = Decoding!Floor(Decoding!Signed(w), 128)
         /\ Decoding!Floor(Decoding!ReadTMP102(w), 8) = Decoding!ReadLM75(w)
<1> USE DEF Decoding!Floor, Decoding!Signed
<1>1. Decoding!ReadTMP102(w) = Decoding!Signed(w) \div 16
  BY DEF Decoding!ReadTMP102
<1>2. Decoding!ReadLM75(w) = Decoding!Signed(w) \div 128
  <2>1. w \div 128 \in 0 .. 511
    OBVIOUS
  <2>2. (w \div 128) % 512 = w \div 128
    BY <2>1
  <2>3. CASE w >= 32768
    BY <2>2, <2>3 DEF Decoding!ReadLM75
  <2>4. CASE ~ (w >= 32768)
    BY <2>2, <2>4 DEF Decoding!ReadLM75
  <2> QED BY <2>3, <2>4
<1>3. ASSUME NEW n \in Int PROVE (n \div 16) \div 8 = n \div 128
  <2> DEFINE q == n \div 16
             p == q \div 8
  <2>1. q \in Int /\ 16 * q <= n /\ n < 16 * q + 16
    OBVIOUS
  <2>2. q \in Int => p \in Int /\ 8 * p <= q /\ q < 8 * p + 8
    <3> HIDE DEF q
    <3> QED OBVIOUS
  <2>3. p \in Int /\ 128 * p <= n /\ n < 128 * p + 128
    <3> HIDE DEF p, q
    <3> QED BY <2>1, <2>2
  <2>4. n \div 128 = p
    <3> HIDE DEF p, q
    <3> QED BY <2>3
  <2> QED BY ONLY <2>4
<1>4. Decoding!Signed(w) \in Int
  OBVIOUS
<1> QED BY <1>1, <1>2, <1>3, <1>4

\* Raw pressures fit their bits.
LEMMA Pressures ==
  ASSUME NEW b1 \in 0 .. 255, NEW b2 \in 0 .. 255, NEW b3 \in 0 .. 255, NEW s \in 0 .. 12
  PROVE  /\ Decoding!RawBMP280(b1, b2, b3) < 2 ^ 20
         /\ Decoding!RawBMP180(b1, b2, b3, s) < 2 ^ (16 + (Decoding!Oversampling(s) % 4))
<1>1. Decoding!RawBMP280(b1, b2, b3) < 2 ^ 20
  <2>1. 2 ^ 20 = 1048576
    OBVIOUS
  <2> QED BY <2>1 DEF Decoding!RawBMP280
<1> DEFINE oss == Decoding!Oversampling(s) % 4
           raw == b1 * 65536 + b2 * 256 + b3
<1>2. oss \in {0, 1, 2, 3}
  BY DEF Decoding!Oversampling, Decoding!Clamp
<1>3. raw \in Int /\ 0 <= raw /\ raw <= 16777215
  OBVIOUS
<1>4. Decoding!RawBMP180(b1, b2, b3, s) = raw \div 2 ^ (8 - oss)
  BY DEF Decoding!RawBMP180
<1> HIDE DEF oss, raw
<1>5. raw \div 2 ^ (8 - oss) < 2 ^ (16 + oss)
  <2>1. CASE oss = 0
    <3>1. 2 ^ (8 - oss) = 256 /\ 2 ^ (16 + oss) = 65536
      BY <2>1
    <3> QED BY <1>3, <3>1
  <2>2. CASE oss = 1
    <3>1. 2 ^ (8 - oss) = 128 /\ 2 ^ (16 + oss) = 131072
      BY <2>2
    <3> QED BY <1>3, <3>1
  <2>3. CASE oss = 2
    <3>1. 2 ^ (8 - oss) = 64 /\ 2 ^ (16 + oss) = 262144
      BY <2>3
    <3> QED BY <1>3, <3>1
  <2>4. CASE oss = 3
    <3>1. 2 ^ (8 - oss) = 32 /\ 2 ^ (16 + oss) = 524288
      BY <2>4
    <3> QED BY <1>3, <3>1
  <2> QED BY <1>2, <2>1, <2>2, <2>3, <2>4
<1> QED BY <1>1, <1>4, <1>5 DEF oss

\* What is written to the registers reads back.
LEMMA Registers ==
  ASSUME NEW b \in 0 .. 255, NEW s \in 0 .. 12
  PROVE  /\ Decoding!InitTMP102(b, s) % 64 = Decoding!UserRegister(b)
         /\ (Decoding!InitTMP102(b, s) \div 64) + 9 = Decoding!Resolution(s)
         /\ Decoding!ControlBMP280(s) \div 32 = Decoding!Oversampling(s)
         /\ (Decoding!ControlBMP280(s) \div 4) % 8 = Decoding!Oversampling(s)
<1>1. Decoding!Resolution(s) \in {9, 10, 11, 12} /\ Decoding!Oversampling(s) \in {0, 1, 2, 3, 4}
  BY DEF Decoding!Resolution, Decoding!Oversampling, Decoding!Clamp
<1>2. b % 64 \in 0 .. 63
  OBVIOUS
<1>3. /\ Decoding!InitTMP102(b, s) % 64 = Decoding!UserRegister(b)
      /\ (Decoding!InitTMP102(b, s) \div 64) + 9 = Decoding!Resolution(s)
  BY <1>1, <1>2 DEF Decoding!InitTMP102, Decoding!UserRegister
<1>4. /\ Decoding!ControlBMP280(s) \div 32 = Decoding!Oversampling(s)
      /\ (Decoding!ControlBMP280(s) \div 4) % 8 = Decoding!Oversampling(s)
  BY <1>1 DEF Decoding!ControlBMP280
<1> QED BY <1>3, <1>4

\* Between 4 and 1000 times a second the divider is that of a rate no lower.
LEMMA SampleRates ==
  ASSUME NEW r \in 4 .. 1000
  PROVE  1000 \div (1 + Decoding!Divider(r)) >= r
<1> DEFINE q == 1000 \div r
<1>1. q \in 1 .. 250
  OBVIOUS
<1>2. Decoding!Divider(r) = q - 1
  BY <1>1 DEF Decoding!Divider, Decoding!Clamp
<1>3. 1 + Decoding!Divider(r) = q
  BY <1>1, <1>2
<1>4. 1000 \div q >= r
  OBVIOUS
<1> QED BY <1>3, <1>4

\* A humidity is a percentage, and below the greatest but for the highest words.
LEMMA Humidities ==
  ASSUME NEW w \in Nat, w < 2 ^ 16
  PROVE  /\ 0 <= Decoding!Humidity(w) /\ Decoding!Humidity(w) <= 100 * 65536
         /\ Decoding!Humidity(w) < Decoding!Humidity(65535) \/ w >= 55574
BY DEF Decoding!Humidity, Decoding!Clamp

\* The drivers decode what their chips send, for every three bytes, setting and rate.
THEOREM BytesRight ==
  ASSUME Decoding!DecodingAssumption
  PROVE  Decoding!Init /\ [][Decoding!Next]_(Decoding!decodingVars)
             => []Decoding!BytesDecoded
<1>1. ASSUME DecodingInv PROVE Decoding!BytesDecoded
  <2> DEFINE w == Decoding!Word(msb, lsb)
  <2>0. /\ msb \in 0 .. 255 /\ lsb \in 0 .. 255 /\ xlsb \in 0 .. 255
        /\ setting \in 0 .. 12
    BY <1>1 DEF DecodingInv
  <2>1. w \in Nat /\ w < 2 ^ 16
    BY <2>0, Words
  <2> HIDE DEF w
  <2>2. /\ Decoding!ReadTMP102(w) = Decoding!Floor(Decoding!Signed(w), 16)
        /\ Decoding!ReadLM75(w) = Decoding!Floor(Decoding!Signed(w), 128)
        /\ Decoding!Floor(Decoding!ReadTMP102(w), 8) = Decoding!ReadLM75(w)
    BY <2>1, Temperatures
  <2>3. /\ 0 <= Decoding!Humidity(w) /\ Decoding!Humidity(w) <= 100 * 65536
        /\ Decoding!Humidity(w) < Decoding!Humidity(65535) \/ w >= 55574
    BY <2>1, Humidities
  <2>4. /\ Decoding!RawBMP280(msb, lsb, xlsb) < 2 ^ 20
        /\ Decoding!RawBMP180(msb, lsb, xlsb, setting)
              < 2 ^ (16 + (Decoding!Oversampling(setting) % 4))
    BY <2>0, Pressures
  <2>5. /\ Decoding!InitTMP102(lsb, setting) % 64 = Decoding!UserRegister(lsb)
        /\ (Decoding!InitTMP102(lsb, setting) \div 64) + 9 = Decoding!Resolution(setting)
        /\ Decoding!ControlBMP280(setting) \div 32 = Decoding!Oversampling(setting)
        /\ (Decoding!ControlBMP280(setting) \div 4) % 8 = Decoding!Oversampling(setting)
    <3>1. lsb \in 0 .. 255 /\ setting \in 0 .. 12
      BY <2>0
    <3> QED BY <3>1, Registers, ZenonT(30)
  <2>6. rate \in 4 .. 1000 => 1000 \div (1 + Decoding!Divider(rate)) >= rate
    BY SampleRates
  <2> QED
    BY <2>2, <2>3, <2>4, <2>5, <2>6 DEF w, Decoding!BytesDecoded
<1> QED BY <1>1, DecodingStep, PTL
=============================================================================
