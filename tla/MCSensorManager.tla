-------------------------- MODULE MCSensorManager --------------------------
(* Three drivers, two of them with the same identifier. *)
EXTENDS SensorManager

CONSTANTS d1, d2, d3, a, b

MCIdOf == [d \in {d1, d2, d3} |-> IF d = d3 THEN b ELSE a]
=============================================================================
