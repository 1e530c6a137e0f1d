---------------------------- MODULE MCRdIoThread ----------------------------
(* Model values for RdIoThread.                                            *)
EXTENDS RdIoThread, TLC

CONSTANTS fd1, fd2, h1, h2, h3, c1, c2

MCFds == {fd1, fd2}
OneFd == {fd1}
MCHnds == {h1, h2, h3}
MCCallers == {c1, c2}
OneCaller == {c1}

Symmetry == Permutations(MCFds) \cup Permutations(MCCallers)
=============================================================================
