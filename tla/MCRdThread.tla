----------------------------- MODULE MCRdThread -----------------------------
(* Model values for RdThread: the main thread, two more handles, and three *)
(* events, one of which makes its thread exit.                             *)
EXTENDS RdThread, TLC

CONSTANTS main, r1, r2, v1, v2, x1

MCRdts == {main, r1, r2}
MCTwoRdts == {main, r1}
MCEvents == {v1, v2, x1}
MCExitEvents == {x1}

AllRoutines == {"dispatch", "return", "exit_return"}
DispatchOnly == {"dispatch"}
ExitReturnOnly == {"exit_return"}

Symmetry == Permutations({r1, r2}) \cup Permutations({v1, v2})
=============================================================================
