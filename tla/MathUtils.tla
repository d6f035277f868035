------------------------------- MODULE MathUtils --------------------------------
(***************************************************************************)
(* The functions of MathUtils on whole numbers and on samples, as far as   *)
(* they are rational, and what is to hold of their results.                *)
(*                                                                         *)
(* A floating-point result is the fraction <<numerator, denominator>> with *)
(* a positive denominator; rounding is left out.  A root is left squared.  *)
(* The state is what a caller passes: two numbers, or a sample and its     *)
(* missing elements, which grow.                                           *)
(***************************************************************************)
EXTENDS Integers, Sequences, FiniteSets, SequencesExt, FiniteSetsExt

CONSTANTS Points,        \* the elements of samples
          MaxSample,     \* bound on their length
          Numbers        \* the other arguments

MathAssumption == Points \subseteq Int /\ MaxSample \in Nat /\ Numbers \subseteq Int

VARIABLES xs, ys,        \* two samples of a length
          missing,       \* the elements of xs that are missing
          m, n           \* two numbers
mathVars == <<xs, ys, missing, m, n>>

Total(f(_), s) == FoldLeft(LAMBDA sum, x : sum + f(x), 0, s)
Id(x) == x
Magnitude(x) == IF x < 0 THEN -x ELSE x
Least(s)    == Min({s[i] : i \in DOMAIN s})
Greatest(s) == Max({s[i] : i \in DOMAIN s})

\* Fractions: a quotient with its sign above, and their orders.
Quotient(a, b) == IF b < 0 THEN <<-a, -b>> ELSE <<a, b>>
Same(p, q)     == p[1] * q[2] = q[1] * p[2]
AtMost(p, q)   == p[1] * q[2] <= q[1] * p[2]

-----------------------------------------------------------------------------
(* Numbers                                                                 *)

Factorial(i) == IF i < 0 THEN 0 ELSE FoldLeft(LAMBDA p, j : p * j, 1, [j \in 1 .. i |-> j])

\* A running product, divided at each step: whole, because of the order.
Combinations(i, j) ==
    IF j < 0 \/ j > i THEN 0
    ELSE LET k == IF j > i - j THEN i - j ELSE j
         IN  FoldLeft(LAMBDA p, l : (p * (i - k + l)) \div l, 1, [l \in 1 .. k |-> l])

PermutationsOf(i, j) ==
    IF j < 0 \/ j > i THEN 0
    ELSE FoldLeft(LAMBDA p, l : p * (i - j + l), 1, [l \in 1 .. j |-> l])

RECURSIVE Euclid(_, _)
Euclid(a, b) == IF b = 0 THEN a ELSE Euclid(b, a % b)

\* gcd() of int; the one of int64_t is the same.
Gcd(a, b)   == Euclid(Magnitude(a), Magnitude(b))
Gcd64(a, b) == Euclid(Magnitude(a), Magnitude(b))

\* lcm(): of two zeros it divides by zero.
Lcm(a, b) == (Magnitude(a) \div Gcd(a, b)) * Magnitude(b)

\* Odd divisors up to the root.
IsPrime(i) ==
    /\ i >= 2
    /\ i = 2 \/ i % 2 # 0
    /\ \A d \in 3 .. i : d % 2 = 1 /\ d * d <= i => i % d # 0

NextPrime(i) == IF i < 2 THEN 2 ELSE CHOOSE p \in i .. 2 * i : IsPrime(p) /\
                                         \A q \in i .. p - 1 : ~ IsPrime(q)

\* The twos, then the odd divisors from below, then what is left; it does not end
\* for zero, and has nothing for a number below.
RECURSIVE Divide(_, _)
Divide(i, d) == CASE i % d = 0            -> <<d>> \o Divide(i \div d, d)
                  [] i % d # 0 /\ d = 2   -> Divide(i, 3)
                  [] i % d # 0 /\ d > 2 /\ (d + 2) * (d + 2) <= i -> Divide(i, d + 2)
                  [] OTHER                -> IF i > 2 THEN <<i>> ELSE <<>>
PrimeFactors(i) == Divide(i, 2)

\* angleDifference() and normalizeAngle(), PI being half; the result is one of a turn.
RECURSIVE NormalizeAngle(_, _)
NormalizeAngle(angle, half) ==
    CASE angle > half  -> NormalizeAngle(angle - 2 * half, half)
      [] angle < -half -> NormalizeAngle(angle + 2 * half, half)
      [] OTHER         -> angle
AngleDifference(a, b, half) == NormalizeAngle(b - a, half)

\* roundToMultiple(): std::round() goes away from zero halfway.
RoundToMultiple(v, multiple) ==
    IF multiple = 0 THEN v
    ELSE LET by   == Magnitude(multiple)
             away == ((2 * Magnitude(v) + by) \div (2 * by)) * by
         IN  IF v < 0 THEN -away ELSE away

-----------------------------------------------------------------------------
(* Samples                                                                 *)

Mean(s) == IF s = <<>> THEN <<0, 1>> ELSE <<Total(Id, s), Len(s)>>

Median(s) ==
    LET sorted == SortSeq(s, <)
        half   == Len(s) \div 2
    IN  IF s = <<>> THEN <<0, 1>>
        ELSE IF Len(s) % 2 = 1 THEN <<sorted[half + 1], 1>>
             ELSE <<sorted[half] + sorted[half + 1], 2>>

\* The squares of the distances from the mean, times the length squared.
Scatter(s) == Total(LAMBDA x : (Len(s) * x - Total(Id, s)) * (Len(s) * x - Total(Id, s)), s)

Variance(s, sample) ==
    IF Len(s) < 2 THEN <<0, 1>>
    ELSE <<Scatter(s), Len(s) * Len(s) * (Len(s) - IF sample THEN 1 ELSE 0)>>

\* correlation(): its square, with the sign of the covariance.
Covariance(s, t) ==
    FoldLeft(LAMBDA sum, i : sum + (Len(s) * s[i] - Total(Id, s)) * (Len(t) * t[i] - Total(Id, t)),
             0, [i \in DOMAIN s |-> i])
CorrelationSquared(s, t) ==
    IF Len(s) # Len(t) \/ s = <<>> \/ Scatter(s) = 0 \/ Scatter(t) = 0 THEN <<0, 1>>
    ELSE <<Covariance(s, t) * Covariance(s, t), Scatter(s) * Scatter(t)>>

\* linearRegression(): slope and intercept; where the first sample is a single value
\* both are 0 / 0.
LinearRegression(s, t) ==
    LET sumXY == FoldLeft(LAMBDA sum, i : sum + s[i] * t[i], 0, [i \in DOMAIN s |-> i])
        above == Len(s) * sumXY - Total(Id, s) * Total(Id, t)
        below == Len(s) * Total(LAMBDA x : x * x, s) - Total(Id, s) * Total(Id, s)
    IN  IF Len(s) < 2 THEN [slope |-> <<0, 1>>, intercept |-> <<0, 1>>]
        ELSE [slope     |-> Quotient(above, below),
              intercept |-> Quotient(Total(Id, t) * below - above * Total(Id, s), Len(s) * below)]

NormalizeMinMax(s) ==
    [i \in DOMAIN s |-> IF Greatest(s) = Least(s) THEN <<1, 2>>
                        ELSE <<s[i] - Least(s), Greatest(s) - Least(s)>>]

\* Mutant of MovingAverage: the element that leaves the window is the one behind it.
AverageLate(s, window) ==
    LET Step(acc, i) == LET sum   == acc.sum + s[i] - IF i > window + 1 THEN s[i - window - 1] ELSE 0
                            count == IF i < window THEN i ELSE window
                        IN  [sum |-> sum, out |-> Append(acc.out, <<sum, count>>)]
    IN  IF window <= 0 THEN <<>>
        ELSE FoldLeft(Step, [sum |-> 0, out |-> <<>>], [i \in DOMAIN s |-> i]).out

\* movingAverage(): a running sum.
MovingAverage(s, window) ==
    LET Step(acc, i) == LET sum   == acc.sum + s[i] - IF i > window THEN s[i - window] ELSE 0
                            count == IF i < window THEN i ELSE window
                        IN  [sum |-> sum, out |-> Append(acc.out, <<sum, count>>)]
    IN  IF window <= 0 THEN <<>>
        ELSE FoldLeft(Step, [sum |-> 0, out |-> <<>>], [i \in DOMAIN s |-> i]).out

\* exponentialMovingAverage() with alpha 1 / 2, as <<e, 2^k>>.
ExponentialMovingAverage(s) ==
    LET Step(out, i) == Append(out, IF i = 1 THEN <<s[1], 1>>
                                    ELSE <<s[i] * out[i - 1][2] + out[i - 1][1], 2 * out[i - 1][2]>>)
    IN  FoldLeft(Step, <<>>, [i \in DOMAIN s |-> i])

\* removeOutliers(): distance and deviation compared by their squares.
RemoveOutliers(s, sigma) ==
    SelectSeq(s, LAMBDA x : AtMost(<<(Len(s) * x - Total(Id, s)) * (Len(s) * x - Total(Id, s)),
                                     Len(s) * Len(s)>>,
                                   <<sigma * sigma * Variance(s, TRUE)[1], Variance(s, TRUE)[2]>>))

\* interpolateMissing() on a sample of int, whose conversion cuts the fraction.  The
\* search to the left ends at the first element and that to the right at the last
\* one, whether these are missing or not.
InterpolateMissing(s, gone) ==
    LET Before(i) == CHOOSE j \in 1 .. i : /\ j = 1 \/ j \notin gone
                                           /\ \A l \in j + 1 .. i : l \in gone
        After(i)  == CHOOSE j \in i .. Len(s) : /\ j = Len(s) \/ j \notin gone
                                                /\ \A l \in i .. j - 1 : l \in gone
        Cut(a, b) == IF a < 0 THEN -((-a) \div b) ELSE a \div b
        Fill(i)   == LET p == Before(i)  q == After(i) IN
            CASE i \notin gone     -> s[i]
              [] i \in gone /\ p = i -> s[q]
              [] i \in gone /\ q = i -> s[p]
              [] OTHER -> Cut(s[p] * (q - p) + (s[q] - s[p]) * (i - p), q - p)
    IN  IF \E i \in gone : Before(i) = i /\ After(i) = i THEN s
        ELSE [i \in DOMAIN s |-> Fill(i)]

SquaredEuclidean(s, t) ==
    FoldLeft(LAMBDA sum, i : sum + (s[i] - t[i]) * (s[i] - t[i]), 0, [i \in DOMAIN s |-> i])
ManhattanDistance(s, t) ==
    FoldLeft(LAMBDA sum, i : sum + Magnitude(s[i] - t[i]), 0, [i \in DOMAIN s |-> i])
ChebyshevDistance(s, t) ==
    FoldLeft(LAMBDA max, i : Max({max, Magnitude(s[i] - t[i])}), 0, [i \in DOMAIN s |-> i])

\* cosineSimilarity(), squared.
CosineSquared(s, t) ==
    LET dot == FoldLeft(LAMBDA sum, i : sum + s[i] * t[i], 0, [i \in DOMAIN s |-> i])
        norm(u) == Total(LAMBDA x : x * x, u)
    IN  IF norm(s) = 0 \/ norm(t) = 0 THEN <<0, 1>> ELSE <<dot * dot, norm(s) * norm(t)>>

-----------------------------------------------------------------------------
Init == xs = <<>> /\ ys = <<>> /\ missing = {} /\ m = 0 /\ n = 0

Extend(x, y, gone) ==
    /\ Len(xs) < MaxSample
    /\ xs' = Append(xs, x) /\ ys' = Append(ys, y)
    /\ missing' = IF gone THEN missing \cup {Len(xs) + 1} ELSE missing
    /\ UNCHANGED <<m, n>>

Take(i, j) == xs = <<>> /\ m' = i /\ n' = j /\ UNCHANGED <<xs, ys, missing>>

Next == \/ m = 0 /\ n = 0 /\ \E x, y \in Points, gone \in BOOLEAN : Extend(x, y, gone)
        \/ \E i, j \in Numbers : Take(i, j)

-----------------------------------------------------------------------------
Divisors(i) == {d \in 1 .. Magnitude(i) : i % d = 0}

\* The functions on numbers compute what their names say, by the definition of it.
NumbersAgree ==
    /\ m # 0 /\ n # 0 => /\ Gcd(m, n) = Max(Divisors(m) \cap Divisors(n))
                         /\ Gcd64(m, n) = Gcd(m, n)
                         /\ Lcm(m, n) * Gcd(m, n) = Magnitude(m * n)
    /\ IsPrime(m) <=> m > 1 /\ Divisors(m) = {1, m}
    /\ NextPrime(m) >= m /\ IsPrime(NextPrime(m))
    /\ m > 0 => LET f == PrimeFactors(m) IN
                /\ FoldLeft(LAMBDA p, x : p * x, 1, f) = m
                /\ \A i \in DOMAIN f : IsPrime(f[i]) /\ (i > 1 => f[i - 1] <= f[i])
    /\ m >= 0 /\ n >= 0 =>
           /\ Combinations(m, n) = Cardinality(kSubset(n, 1 .. m))
           /\ PermutationsOf(m, n) = Combinations(m, n) * Factorial(n)
    /\ n > 0 => /\ AngleDifference(m, 0, n) \in -n .. n
                /\ (AngleDifference(m, 0, n) + m) % (2 * n) = 0
                /\ RoundToMultiple(m, n) % n = 0
                /\ 2 * Magnitude(RoundToMultiple(m, n) - m) <= n

\* The statistics of a sample are what their definitions say: the median has half of
\* the sample on each side, a moving average is the mean of its window, the
\* regression line leaves residuals that sum up to nothing and are orthogonal to the
\* sample, a correlation is at most one, at least one element is no outlier, and an
\* element that is not missing is kept, and others lie between their neighbours.
SamplesAgree ==
    xs # <<>> =>
    /\ 2 * Cardinality({i \in DOMAIN xs : AtMost(<<xs[i], 1>>, Median(xs))}) >= Len(xs)
    /\ 2 * Cardinality({i \in DOMAIN xs : AtMost(Median(xs), <<xs[i], 1>>)}) >= Len(xs)
    /\ Variance(xs, TRUE)[1] = 0 <=> Least(xs) = Greatest(xs)
    /\ AtMost(Variance(xs, FALSE), Variance(xs, TRUE))
    /\ \A w \in 1 .. MaxSample, i \in DOMAIN xs :
           Same(MovingAverage(xs, w)[i], Mean(SubSeq(xs, Max({1, i - w + 1}), i)))
    /\ \A i \in DOMAIN xs : /\ AtMost(<<Least(xs), 1>>, ExponentialMovingAverage(xs)[i])
                            /\ AtMost(ExponentialMovingAverage(xs)[i], <<Greatest(xs), 1>>)
    /\ AtMost(CorrelationSquared(xs, ys), <<1, 1>>) /\ AtMost(CosineSquared(xs, ys), <<1, 1>>)
    /\ Least(xs) # Greatest(xs) =>
           LET r == LinearRegression(xs, ys)
               Residual(i) == (ys[i] * r.slope[2] - r.slope[1] * xs[i]) * r.intercept[2]
                                  - r.intercept[1] * r.slope[2]
           IN  /\ FoldLeft(LAMBDA s, i : s + Residual(i), 0, [i \in DOMAIN xs |-> i]) = 0
               /\ FoldLeft(LAMBDA s, i : s + xs[i] * Residual(i), 0, [i \in DOMAIN xs |-> i]) = 0
    /\ \A i, j \in DOMAIN xs : xs[i] <= xs[j] <=>
           AtMost(NormalizeMinMax(xs)[i], NormalizeMinMax(xs)[j])
    /\ RemoveOutliers(xs, 1) # <<>>
    /\ 1 \notin missing /\ Len(xs) \notin missing =>
           \A i \in DOMAIN xs :
               /\ i \notin missing => InterpolateMissing(xs, missing)[i] = xs[i]
               /\ InterpolateMissing(xs, missing)[i] \in Least(xs) .. Greatest(xs)
    /\ ChebyshevDistance(xs, ys) * ChebyshevDistance(xs, ys) <= SquaredEuclidean(xs, ys)
    /\ SquaredEuclidean(xs, ys) <= ManhattanDistance(xs, ys) * ManhattanDistance(xs, ys)
=============================================================================
