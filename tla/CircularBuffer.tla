---------------------------- MODULE CircularBuffer ----------------------------
(***************************************************************************)
(* common::utils::CircularBuffer: a vector used as a ring, with a read     *)
(* position, a write position and a size.  Every operation holds the mutex *)
(* from its first to its last statement, so each is one step.              *)
(***************************************************************************)
EXTENDS Naturals, Sequences

CONSTANTS Elem,        \* the elements
          Blank,       \* what T's default constructor leaves in a slot
          Capacities,  \* the capacities the constructor and reserve() take
          Bulks,       \* the vectors pushBulk() takes
          Counts       \* the counts of popBulk(), the indices of peekAt()

ASSUME RingAssumption ==
    /\ Capacities \subseteq Nat
    /\ Bulks \subseteq Seq(Elem)
    /\ Counts \subseteq Nat

VARIABLES buffer, capacity, head, tail, size,
          result       \* what the last call returned, as in BoundedFifo
vars == <<buffer, capacity, head, tail, size, result>>

Smaller(m, n) == IF m <= n THEN m ELSE n

\* The slot of the i-th element from the front.
Pos(i) == (head + i) % capacity

Returned(n, es) == result' = [count |-> n, elems |-> es]

\* A capacity of 0 is taken for 1.
Init ==
    /\ capacity \in {IF c = 0 THEN 1 ELSE c : c \in Capacities}
    /\ buffer = [p \in 0 .. capacity - 1 |-> Blank]
    /\ head = 0 /\ tail = 0 /\ size = 0
    /\ result = [count |-> 0, elems |-> <<>>]

\* Mutant of Push: the last slot is never given back to the front.
PushNoWrap(e) ==
    /\ size < capacity
    /\ buffer' = [buffer EXCEPT ![tail] = e]
    /\ tail' = tail + 1
    /\ size' = size + 1
    /\ Returned(1, <<>>)
    /\ UNCHANGED <<capacity, head>>

\* push(), both overloads, with room ...
Push(e) ==
    /\ size < capacity
    /\ buffer' = [buffer EXCEPT ![tail] = e]
    /\ tail' = (tail + 1) % capacity
    /\ size' = size + 1
    /\ Returned(1, <<>>)
    /\ UNCHANGED <<capacity, head>>

\* ... and without.
PushFull ==
    /\ size >= capacity
    /\ Returned(0, <<>>)
    /\ UNCHANGED <<buffer, capacity, head, tail, size>>

\* pop(): the slot keeps its (moved-from) content.
Pop ==
    /\ size > 0
    /\ Returned(1, <<buffer[head]>>)
    /\ head' = (head + 1) % capacity
    /\ size' = size - 1
    /\ UNCHANGED <<buffer, capacity, tail>>

PopEmpty ==
    /\ size = 0
    /\ Returned(0, <<>>)
    /\ UNCHANGED <<buffer, capacity, head, tail, size>>

\* peekAt(); peek() is peekAt(0).
PeekAt(i) ==
    /\ IF i < size THEN Returned(1, <<buffer[Pos(i)]>>) ELSE Returned(0, <<>>)
    /\ UNCHANGED <<buffer, capacity, head, tail, size>>

ToVector ==
    /\ Returned(size, [i \in 1 .. size |-> buffer[Pos(i - 1)]])
    /\ UNCHANGED <<buffer, capacity, head, tail, size>>

\* Mutant of Clear: tail keeps its place.
ClearKeepsTail ==
    /\ head' = 0 /\ size' = 0
    /\ Returned(0, <<>>)
    /\ UNCHANGED <<buffer, capacity, tail>>

Clear ==
    /\ head' = 0 /\ tail' = 0 /\ size' = 0
    /\ Returned(0, <<>>)
    /\ UNCHANGED <<buffer, capacity>>

\* Mutant of Reserve: the slots are copied where they were, as if the ring had
\* not wrapped.
ReserveInPlace(n) ==
    /\ IF n <= capacity
       THEN UNCHANGED <<buffer, capacity, head, tail>>
       ELSE /\ buffer' = [p \in 0 .. n - 1 |-> IF p < capacity THEN buffer[p] ELSE Blank]
            /\ capacity' = n
            /\ head' = head /\ tail' = (head + size) % n
    /\ Returned(0, <<>>)
    /\ UNCHANGED size

\* reserve() never shrinks; it moves the elements to the front of a larger
\* vector.
Reserve(n) ==
    /\ IF n <= capacity
       THEN UNCHANGED <<buffer, capacity, head, tail>>
       ELSE /\ buffer' = [p \in 0 .. n - 1 |-> IF p < size THEN buffer[Pos(p)]
                                                          ELSE Blank]
            /\ capacity' = n
            /\ head' = 0 /\ tail' = size
    /\ Returned(0, <<>>)
    /\ UNCHANGED size

\* The loop of pushBulk(): the i-th element goes i - 1 slots behind tail.
PushBulk(es) ==
    LET n == Smaller(Len(es), capacity - size)
        slot(i) == (tail + i - 1) % capacity IN
    /\ buffer' = [p \in 0 .. capacity - 1 |->
                    IF \E i \in 1 .. n : p = slot(i)
                    THEN es[CHOOSE i \in 1 .. n : p = slot(i)] ELSE buffer[p]]
    /\ tail' = (tail + n) % capacity
    /\ size' = size + n
    /\ Returned(n, <<>>)
    /\ UNCHANGED <<capacity, head>>

\* The loop of popBulk().
PopBulk(k) ==
    LET n == Smaller(k, size) IN
    /\ Returned(n, [i \in 1 .. n |-> buffer[Pos(i - 1)]])
    /\ head' = (head + n) % capacity
    /\ size' = size - n
    /\ UNCHANGED <<buffer, capacity, tail>>

Next ==
    \/ \E e \in Elem : Push(e)
    \/ PushFull \/ Pop \/ PopEmpty
    \/ \E i \in Counts : PeekAt(i) \/ PopBulk(i)
    \/ ToVector \/ Clear
    \/ \E n \in Capacities : Reserve(n)
    \/ \E es \in Bulks : PushBulk(es)

Spec == Init /\ [][Next]_vars

-----------------------------------------------------------------------------
TypeOK ==
    /\ capacity \in Nat \ {0}
    /\ buffer \in [0 .. capacity - 1 -> Elem \cup {Blank}]
    /\ head \in 0 .. capacity - 1
    /\ tail \in 0 .. capacity - 1
    /\ size \in 0 .. capacity
    /\ result \in [count : Nat, elems : Seq(Elem \cup {Blank})]

\* The three positions always agree: the next write goes right behind the
\* newest element, so that an occupied slot is never overwritten and a free
\* one is never read, however pushes, pops and growth follow each other.
PositionsAgree == tail = Pos(size)

\* The ring holds and returns exactly what a bounded queue would: elements
\* leave in the order they entered, none is lost, invented or handed out twice,
\* through wrap-around, bulk operations and reserve().
Fifo == INSTANCE BoundedFifo WITH
    items <- [i \in 1 .. size |-> buffer[Pos(i - 1)]],
    cap <- capacity,
    Capacities <- {IF c = 0 THEN 1 ELSE c : c \in Capacities}

ImplementsFifo == Fifo!Spec
=============================================================================
