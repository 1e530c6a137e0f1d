------------------------------- MODULE MCRdOpt -------------------------------
(* Two options without a value in each of the groups 1 and 4, the first and *)
(* the last that rdopt.h has.                                               *)
EXTENDS RdOpt

Flag(name, mut) ==
    [short |-> name, long |-> None, argcnt |-> 0, req |-> FALSE, mut |-> mut,
     type |-> "bool", opaque |-> TRUE, parse |-> FALSE]
MCOptTables == {<<Flag("a", m), Flag("b", m)>> : m \in {1, 4}}
MCOptArgs == {[kind |-> "short", name |-> n, val |-> None] : n \in {"a", "b"}}
==============================================================================
