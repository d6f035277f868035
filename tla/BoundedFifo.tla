----------------------------- MODULE BoundedFifo -----------------------------
(***************************************************************************)
(* What common::utils::CircularBuffer promises: a first-in first-out queue *)
(* of bounded capacity.  result is what the last call returned: a count    *)
(* (push, pushBulk, popBulk; 0 and 1 for false and true) and the elements  *)
(* it handed out.                                                          *)
(***************************************************************************)
EXTENDS Naturals, Sequences

CONSTANTS Elem,        \* the elements
          Capacities,  \* the capacities the constructor and reserve() take
          Bulks,       \* the vectors pushBulk() takes
          Counts       \* the counts of popBulk(), the indices of peekAt()

VARIABLES items, cap, result
vars == <<items, cap, result>>

Smaller(m, n) == IF m <= n THEN m ELSE n

Init ==
    /\ items = <<>>
    /\ cap \in Capacities
    /\ result = [count |-> 0, elems |-> <<>>]

\* The vector's elements enter in order, as many as there is room for; push()
\* is the case of one element.
PushBulk(es) ==
    LET n == Smaller(Len(es), cap - Len(items)) IN
    /\ items' = items \o SubSeq(es, 1, n)
    /\ result' = [count |-> n, elems |-> <<>>]
    /\ UNCHANGED cap

\* The oldest elements leave in order; pop() is the case k = 1.
PopBulk(k) ==
    LET n == Smaller(k, Len(items)) IN
    /\ items' = SubSeq(items, n + 1, Len(items))
    /\ result' = [count |-> n, elems |-> SubSeq(items, 1, n)]
    /\ UNCHANGED cap

\* peekAt(), and peek() for i = 0: an element is seen, none leaves.
PeekAt(i) ==
    /\ result' = IF i < Len(items) THEN [count |-> 1, elems |-> <<items[i + 1]>>]
                                   ELSE [count |-> 0, elems |-> <<>>]
    /\ UNCHANGED <<items, cap>>

\* toVector() sees all of them.
ToVector ==
    /\ result' = [count |-> Len(items), elems |-> items]
    /\ UNCHANGED <<items, cap>>

Clear ==
    /\ items' = <<>>
    /\ result' = [count |-> 0, elems |-> <<>>]
    /\ UNCHANGED cap

\* reserve() changes the capacity, never the contents.
Reserve(n) ==
    /\ cap' = IF n <= cap THEN cap ELSE n
    /\ result' = [count |-> 0, elems |-> <<>>]
    /\ UNCHANGED items

Next ==
    \/ \E es \in Bulks : PushBulk(es)
    \/ \E e \in Elem : PushBulk(<<e>>)
    \/ \E k \in Counts : PeekAt(k) \/ PopBulk(k)
    \/ PopBulk(1)
    \/ ToVector \/ Clear
    \/ \E n \in Capacities : Reserve(n)

Spec == Init /\ [][Next]_vars
=============================================================================
