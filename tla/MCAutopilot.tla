------------------------------ MODULE MCAutopilot ------------------------------
(* The autopilot for TLC: processes are interchangeable. *)
EXTENDS Autopilot, TLC

Symmetry == Permutations(Procs)

Bound(b, n, c, m, o) == [buckets |-> b, ticks |-> n, calls |-> c, mishaps |-> m, overrun |-> o]

\* Ticks one after the other with calls or mishaps, three ticks of one bucket (of which two
\* may take the lock of the first), and two that overlap.
FewBudgets == {Bound(1, 2, 2, 0, FALSE), Bound(1, 2, 0, 1, FALSE), Bound(0, 2, 1, 1, FALSE),
               Bound(0, 3, 0, 1, FALSE), Bound(0, 2, 1, 0, TRUE)}
================================================================================
