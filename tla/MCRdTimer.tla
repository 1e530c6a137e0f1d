----------------------------- MODULE MCRdTimer -----------------------------
(* Model values for RdTimer.  Where IntHalf is 2, one clock unit stands    *)
(* for 2^30 microseconds (almost 18 minutes): int arithmetic then wraps    *)
(* exactly as in the code.                                                 *)
EXTENDS RdTimer, TLC

CONSTANTS t1, t2, t3, th1, th2

MCTimers == {t1, t2}
ThreeTimers == {t1, t2, t3}
OneTimer == {t1}
OneThread == {th1}
TwoThreads == {th1, th2}
MCIntervals == {1, 2}
FarIntervals == {1, 3}

Symmetry == Permutations(ThreeTimers) \cup Permutations(TwoThreads)
=============================================================================
