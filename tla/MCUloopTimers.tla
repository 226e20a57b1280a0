--------------------------- MODULE MCUloopTimers ---------------------------
(* UloopTimers for TLC: a clock that starts just below a second boundary,  *)
(* so that the carry of tv_usec happens, and an int of 13 bits.            *)
EXTENDS UloopTimers, TLC

MCMsecs == {-1, 0, 1, 2}
MCSteps == {400, 700}
Symmetry == Permutations(Timers)
=============================================================================
