---------------------------- MODULE MCThreadPool ----------------------------
(* Two workers, one or two clients, and up to three tasks, of which the    *)
(* third has priority and a time-out.                                      *)
EXTENDS ThreadPool, TLC

CONSTANTS t1, t2, t3

MCPrio == [t \in Task |-> IF t = t3 THEN 1 ELSE 0]
MCTimed == {t3} \cap Task

\* The workers are interchangeable, and so are the first two tasks; no property of
\* the safety run names one.
MCSymmetry == Permutations(Worker) \cup Permutations({t1, t2})
=============================================================================
