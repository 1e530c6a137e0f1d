----------------------------- MODULE MCRdFifoq -----------------------------
(* Model values for RdFifoq: worker threads in the loop of rdqueue.h, and  *)
(* calling threads that add, poll, wait with a timeout and set limits.     *)
EXTENDS RdFifoq, TLC

CONSTANTS w1, w2, c1, c2, e1, e2, e3, p1, p2

MCWorkers == {w1, w2}
MCThreads == MCWorkers \cup {c1, c2}
MCElms == {e1, e2, e3}
MCPtrs == {p1, p2}
MCSizes == {0, 1, 2}

MCOneCaller == MCWorkers \cup {c1}

Symmetry ==
    Permutations(MCWorkers) \cup Permutations({c1, c2})
        \cup Permutations(MCElms) \cup Permutations(MCPtrs)
=============================================================================
