------------------------------- MODULE ChartModel -------------------------------
(***************************************************************************)
(* The GUI's ChartModel, in the one thread that uses it: the points of a   *)
(* chart and the range of its axis.                                        *)
(*                                                                         *)
(* m_mutex is not recursive.  A method that holds it and calls one that    *)
(* takes it stops the thread for good: updateRange(), or the getData() of  *)
(* a ChartWidget, which the signals reach before the mutex is released.    *)
(* The points of a stuck chart are those the method was about to leave.    *)
(***************************************************************************)
EXTENDS Integers, Sequences, SequencesExt, FiniteSetsExt

CONSTANTS Values,       \* the y values, integers
          Sizes,        \* the limits setMaxPoints() is called with
          MaxPoints,    \* m_maxPoints at first
          MaxAppends    \* bound on the points appended

ChartAssumption ==
    /\ Values \subseteq Int /\ Sizes \subseteq Nat /\ MaxPoints \in Nat \ {0}
    /\ MaxAppends \in Nat

VARIABLES points, maxPoints, autoRange,
          range,                 \* m_minValue and m_maxValue, in tenths
          viewed,                \* whether a ChartWidget shows the model
          stuck,                 \* whether the thread waits for itself
          appended               \* the points appended and not cleared or removed
chartVars == <<points, maxPoints, autoRange, range, viewed, stuck, appended>>

DefaultRange == [min |-> 0, max |-> 1000]

Init ==
    /\ points = <<>> /\ maxPoints = MaxPoints /\ autoRange = TRUE
    /\ range = DefaultRange /\ viewed \in BOOLEAN /\ stuck = FALSE
    /\ appended = <<>>

\* updateRange(): the least and greatest value, padded by a tenth of the span, at
\* least by one tenth.
RangeOf(s) ==
    LET lo == Min(ToSet(s)) hi == Max(ToSet(s)) IN
    [min |-> 10 * lo - Max({hi - lo, 1}), max |-> 10 * hi + Max({hi - lo, 1})]

\* Mutant of Limited: the youngest points go.
LimitedWrong(s, n) == IF Len(s) > n THEN SubSeq(s, 1, n) ELSE s

\* The oldest points go.
Limited(s, n) == IF Len(s) > n THEN SubSeq(s, Len(s) - n + 1, Len(s)) ELSE s

-----------------------------------------------------------------------------
\* The methods that insert points s, or remove some and leave points s, call
\* updateRange() with the mutex held, and then tell the view.
Hangs(s) == viewed \/ (autoRange /\ s # <<>>)

\* appendDataPoint(), appendDataPoints() and, on a cleared model, setData().
Append_(before, new) ==
    /\ Len(appended) + Len(new) <= MaxAppends
    /\ appended' = before \o new
    /\ points' = Limited(before \o new, maxPoints)
    /\ stuck' = Hangs(points')
    /\ UNCHANGED <<maxPoints, autoRange, viewed>>

AppendDataPoints(new) == Append_(points, new) /\ UNCHANGED range

\* clear(), by itself or because the chart shows another device or key, tells the
\* view with the mutex held.
Clear ==
    /\ points' = <<>> /\ appended' = <<>> /\ range' = DefaultRange
    /\ stuck' = viewed
    /\ UNCHANGED <<maxPoints, autoRange, viewed>>

SetData(new) == IF viewed THEN Clear
                ELSE Append_(<<>>, new) /\ range' = DefaultRange

RemoveLast ==
    /\ points # <<>>
    /\ points' = Front(points) /\ appended' = Front(appended)
    /\ stuck' = Hangs(points')
    /\ UNCHANGED <<maxPoints, autoRange, range, viewed>>

\* setMaxPoints() tells the view whether or not it has dropped a point.
SetMaxPoints(n) ==
    /\ n > 0 /\ n # maxPoints /\ maxPoints' = n
    /\ points' = Limited(points, n)
    /\ stuck' = viewed
    /\ UNCHANGED <<autoRange, range, viewed, appended>>

\* setAutoRange() calls updateRange() without the mutex; no view hears of a range.
SetAutoRange(auto) ==
    /\ auto # autoRange /\ autoRange' = auto
    /\ range' = IF auto /\ points # <<>> THEN RangeOf(points) ELSE range
    /\ UNCHANGED <<points, maxPoints, viewed, stuck, appended>>

Next == /\ ~ stuck
        /\ \/ \E new \in UNION {[1 .. n -> Values] : n \in 1 .. 2} :
                  AppendDataPoints(new) \/ SetData(new)
           \/ Clear \/ RemoveLast
           \/ \E n \in Sizes : SetMaxPoints(n)
           \/ \E auto \in BOOLEAN : SetAutoRange(auto)

-----------------------------------------------------------------------------
\* generateColor(): the hue, from 120 for the least value to 0 for the greatest.
Hue(v, s) ==
    LET lo == Min(ToSet(s)) hi == Max(ToSet(s)) IN
    IF s = <<>> THEN 60
    ELSE IF hi = lo THEN 60
    ELSE 120 - (Max({0, Min({hi - lo, v - lo})}) * 120) \div (hi - lo)

\* When the thread stops for good, and what a chart shows until then.  A chart in a
\* view is empty, with the limit it was made with: the first point, clear() or new
\* limit is its last call.  A chart without one stops at the first point it gets, or
\* keeps when one is removed, while its range is automatic, as it is by default: the
\* auto-ranging of the header reaches no further than setAutoRange() over points
\* that are there, and that range contains every one of them.  The points are the
\* youngest, no more than the limit, whatever the limits were before; and each has a
\* hue between green and red, the higher value never the greener one.
ChartShows ==
    /\ Len(points) <= maxPoints /\ IsSuffix(points, appended)
    /\ stuck => viewed \/ (autoRange /\ points # <<>>)
    /\ viewed /\ ~ stuck => points = <<>> /\ maxPoints = MaxPoints
    /\ ~ stuck /\ autoRange => \A i \in DOMAIN points :
           range.min < 10 * points[i] /\ 10 * points[i] < range.max
    /\ \A v, w \in Values :
           /\ Hue(v, points) \in 0 .. 120
           /\ v < w => Hue(v, points) >= Hue(w, points)
=============================================================================
