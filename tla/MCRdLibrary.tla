----------------------------- MODULE MCRdLibrary -----------------------------
(* The parts of the library that a caller uses alone or under a lock, side  *)
(* by side: trees, buffers, linked lists and LRU lists, memory contexts,    *)
(* options, rates, encodings, bit vectors, thread-local strings and         *)
(* addresses.  part says which of them a behaviour is about; the others     *)
(* stay as they are, so that the numbers of their states add up and do not  *)
(* multiply.                                                                *)
EXTENDS RdAvl, RdBuf, RdLru, RdMemctx, RdOpt, RdAvg, RdEncoding, RdBitvec, RdStrings, RdAddr

CONSTANTS hd1, hd2, by1, by2, c1, c2, p1, p2

VARIABLE part

-----------------------------------------------------------------------------
(* Seven keys make trees of height four; two versions of each key tell a    *)
(* replaced element from its replacement.  Two heads, so that buffers and   *)
(* lists can be moved; an allocation of at least two bytes and data of up   *)
(* to two, so that a last buffer has too little, the exact and more than    *)
(* enough space; two bytes to tell order.  Three elements, two of them with *)
(* equal keys, so that a list has a first, a last and one between them.     *)
MCKeys == 1..7
MCVersions == {1, 2}
MCHeads == {hd1, hd2}
MCBytes == {by1, by2}
MCLens == 0..2
MCSqHeads == {"head", "other"}
MCSqElms == {"x", "y", "z"}
MCSqKeys == [e \in MCSqElms |-> IF e = "z" THEN 2 ELSE 1]
MCLruPtrs == {"P", "Q"}

(* Two addresses for two contexts and sizes around Mod32, so that a size    *)
(* does not fit rmcp_size.  Tables with options that take a value and that  *)
(* do not, required and optional ones, alone and in each of the groups,     *)
(* with and without a pointer and with a parser of their own.  A ring of    *)
(* two periods, so that it wraps.  Integers of five bits in groups of two,  *)
(* so that, as with 64 bits in groups of seven, the last byte of the        *)
(* longest has one bit of the value.  Three buffers for thread-local        *)
(* strings, which a text of one character makes shrink and one of four      *)
(* grow.  Three characters, one of them negative as a char.  All texts of   *)
(* up to four characters for rd_getaddrinfo(), and longer enveloped ones.   *)
MCCtxs == {c1, c2}
MCPtrs == {p1, p2}

Opt(s, l, n, r, m, t) ==
    [short |-> s, long |-> l, argcnt |-> n, req |-> r, mut |-> m, type |-> t,
     opaque |-> t # "nil", parse |-> FALSE]
OptStr == Opt("s", "str", 1, TRUE, 1, "str")
OptInt == Opt("n", None, 1, TRUE, 1, "int")
OptBool == Opt("b", "bool", 0, FALSE, 2, "bool")
OptOther == Opt(None, "other", 0, FALSE, 2, "nil")
OptPath == Opt("p", "path", 1, FALSE, 3, "path")
OptText == [Opt("t", None, 1, FALSE, 0, "str") EXCEPT !.parse = TRUE]
OptLast == Opt("b", None, 0, TRUE, 4, "bool")
OptAlso == Opt(None, "other", 0, FALSE, 4, "nil")
MCOptTables ==
    {<<OptStr, OptInt, OptBool>>, <<OptBool, OptOther, OptText>>, <<OptPath, OptStr, OptText>>,
     <<OptLast, OptAlso, OptInt>>}

ArgOf(kind, name, val) == [kind |-> kind, name |-> name, val |-> val]
MCOptArgs ==
    {ArgOf(k, None, None) : k \in {"empty", "help"}}
        \cup {ArgOf("word", None, v) : v \in {"7", "path"}}
        \cup {ArgOf("short", n, None) : n \in {"s", "n", "b", "t", "p"}}
        \cup {ArgOf("long", n, None) : n \in {"str", "other"}}
        \cup {ArgOf("short", "s", "7"), ArgOf("long", "str", "7")}

MCSigned == 0..15

MCV4Hosts == {<<"a">>, <<"a", "b">>}
MCV6Hosts == {<<":", ":">>, <<"a", ":", "b">>, <<":", ":", "a">>}
MCHostNames == {[i \in 1..n |-> "h"] : n \in {1, 5, 8}}
MCPort == <<"p">>
MCNodeSvcs ==
    BoundedSeq({"[", "]", ":", "a"}, 4)
        \cup {<<"[">> \o n \o <<"]", ":">> \o [i \in 1..k |-> "a"] :
                  n \in BoundedSeq({":", "a"}, 3), k \in 1..3}
MCResolved == {<<"x">>, <<"x", "y">>, <<"x", "y", "z">>, <<"x", "x", "y">>}

Symmetry ==
    Permutations(MCHeads) \cup Permutations(MCBytes) \cup Permutations(MCCtxs)

-----------------------------------------------------------------------------
Containers == {"avl", "buf", "sysqueue", "lru"}
Services == {"mem", "opt", "avg", "enc", "bit", "ring", "scan", "text", "list"}

containerVars == <<avlVars, bufVars, sqVars, lruVars>>
serviceVars == <<memVars, optVars, avgVars, encVars, bitVars, strVars, addrVars>>

Init ==
    /\ part \in Containers \cup Services
    /\ AvlInit /\ BufInit /\ LruInit /\ MemInit /\ AvgInit /\ BitInit /\ StrInit /\ AddrInit
    /\ SqInit /\ (part # "sysqueue" => sqKind = "TAILQ")
    /\ IF part = "opt" THEN OptInit ELSE OptStart(<<>>, <<>>)
    /\ EncInit /\ (part # "enc" => encMode = "hex")

ContainersNext ==
    \/ part = "avl" /\ AvlNext /\ UNCHANGED <<bufVars, sqVars, lruVars>>
    \/ part = "buf" /\ BufNext /\ UNCHANGED <<avlVars, sqVars, lruVars>>
    \/ part = "sysqueue" /\ SqNext /\ UNCHANGED <<avlVars, bufVars, lruVars>>
    \/ part = "lru" /\ LruNext /\ UNCHANGED <<avlVars, bufVars, sqVars>>

ServicesNext ==
    \/ part = "mem" /\ MemNext
        /\ UNCHANGED <<optVars, avgVars, encVars, bitVars, strVars, addrVars>>
    \/ part = "opt" /\ OptNext
        /\ UNCHANGED <<memVars, avgVars, encVars, bitVars, strVars, addrVars>>
    \/ part = "avg" /\ AvgNext
        /\ UNCHANGED <<memVars, optVars, encVars, bitVars, strVars, addrVars>>
    \/ part = "enc" /\ EncNext
        /\ UNCHANGED <<memVars, optVars, avgVars, bitVars, strVars, addrVars>>
    \/ part = "bit" /\ BitNext
        /\ UNCHANGED <<memVars, optVars, avgVars, encVars, strVars, addrVars>>
    \/ part = "ring" /\ RingNext
        /\ UNCHANGED <<memVars, optVars, avgVars, encVars, bitVars, addrVars>>
    \/ part = "scan" /\ ScanNext
        /\ UNCHANGED <<memVars, optVars, avgVars, encVars, bitVars, addrVars>>
    \/ part = "text" /\ TextNext
        /\ UNCHANGED <<memVars, optVars, avgVars, encVars, bitVars, strVars>>
    \/ part = "list" /\ ListNext
        /\ UNCHANGED <<memVars, optVars, avgVars, encVars, bitVars, strVars>>

Next ==
    /\ UNCHANGED part
    /\ \/ ContainersNext /\ UNCHANGED serviceVars
       \/ ServicesNext /\ UNCHANGED containerVars

Spec == Init /\ [][Next]_<<containerVars, serviceVars, part>>
=============================================================================
