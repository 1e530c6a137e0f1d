------------------------------ MODULE RdStrings ------------------------------
(***************************************************************************)
(* The strings of rdstring.c: the ring of thread-local buffers behind      *)
(* rd_tsprintf(), and the functions that scan and compare sized strings.   *)
(*                                                                         *)
(* A formatted text is an identity and a length.  A string that is scanned *)
(* is what its memory holds: characters, of which 0 ends a C string.       *)
(* Positions count from 0, as pointers do; -1 is also the NULL result.     *)
(***************************************************************************)
EXTENDS Integers, SequencesExt

CONSTANTS
    RD_TSPRINTF_BUFCNT,
    TsIds, TsLens,      \* texts formatted, and their lengths
    ShrinkFactor,       \* a buffer that many times too long (4) and longer
    ShrinkAbove,        \*   than this (64) is replaced by a shorter one
    ScanChars,          \* characters scanned, 0 not among them
    CharHalf,           \* those that a char holds as negative (128 and more)
    MaxScanLen          \* bound on the memory scanned

ASSUME StringsAssumption ==
    /\ {RD_TSPRINTF_BUFCNT, ShrinkFactor, ShrinkAbove} \subseteq Nat \ {0}
    /\ TsLens \subseteq Nat /\ {MaxScanLen, CharHalf} \subseteq Nat
    /\ ScanChars \subseteq Nat \ {0}

VARIABLES
    cyc,        \* rdstr_states.tsp of one thread
    strHeap,    \* per block of memory, its length and text; NoBlock if not allocated
    recent,     \* history: what the last RD_TSPRINTF_BUFCNT calls returned
    scan        \* history: the arguments and results of a scan

ringVars == <<cyc, strHeap, recent>>
strVars == <<ringVars, scan>>

\* One block more than the ring holds, so that malloc() has a choice.
Blocks == 0..RD_TSPRINTF_BUFCNT
NULL == -1
NoBlock == [len |-> 0, text |-> [id |-> NULL, len |-> 0]]
NotScanned == [fn |-> "none"]
TsTexts == [id : TsIds, len : TsLens]
RingSlots == 0..RD_TSPRINTF_BUFCNT - 1
EmptyRing == [s \in RingSlots |-> NULL]

\* Thread-local memory is zero when the thread begins.
StrInit ==
    /\ cyc = [size |-> 0, buf |-> EmptyRing, i |-> 0]
    /\ strHeap = [b \in Blocks |-> NoBlock]
    /\ recent = <<>>
    /\ scan = NotScanned

-----------------------------------------------------------------------------
\* Variant with a fault: the ring wraps one slot early.
NextIndexShort(i) == (i + 1) % (RD_TSPRINTF_BUFCNT - 1)

\* The slot that follows.
NextIndex(i) == (i + 1) % RD_TSPRINTF_BUFCNT

\* rdstr_cyclic_get(): the first call allocates and stays at the index it
\* finds, which an earlier rd_string_thread_cleanup() left behind.
rdstr_cyclic_get ==
    IF cyc.size = 0
    THEN [cyc EXCEPT !.size = RD_TSPRINTF_BUFCNT, !.buf = EmptyRing]
    ELSE [cyc EXCEPT !.i = NextIndex(cyc.i)]

\* The buffer of a slot, of len bytes, cannot hold need bytes or wastes many.
Unfit(len, need) ==
    \/ len < need
    \/ len > need * ShrinkFactor /\ len > ShrinkAbove

\* Returned strings that the documentation still allows the caller to use.
Remember(r) ==
    LET all == Append(recent, r)
    IN SubSeq(all, IF Len(all) > RD_TSPRINTF_BUFCNT THEN 2 ELSE 1, Len(all))

\* rd_tsprintf(); need includes the nul-byte.
rd_tsprintf(text) ==
    LET c == rdstr_cyclic_get
        old == c.buf[c.i]
        need == text.len + 1
        replace == old = NULL \/ Unfit(strHeap[old].len, need)
        freed == IF replace /\ old # NULL THEN [strHeap EXCEPT ![old] = NoBlock] ELSE strHeap
    IN \E b \in IF replace THEN {x \in Blocks : freed[x] = NoBlock} ELSE {old} :
          /\ cyc' = [c EXCEPT !.buf[c.i] = b]
          /\ strHeap' = [freed EXCEPT ![b] =
                            [len |-> IF replace THEN need ELSE @.len, text |-> text]]
          /\ recent' = Remember([block |-> b, text |-> text])
          /\ UNCHANGED scan

\* vsnprintf() cannot format: the ring has moved on, nothing is returned.
rd_tsprintf_fails ==
    /\ cyc' = rdstr_cyclic_get
    /\ recent' = Remember([block |-> NULL, text |-> NoBlock.text])
    /\ UNCHANGED <<strHeap, scan>>

\* rd_string_thread_cleanup(): the index survives.
rd_string_thread_cleanup ==
    /\ cyc.size # 0
    /\ strHeap' = [b \in Blocks |-> IF b \in Range(cyc.buf) THEN NoBlock ELSE strHeap[b]]
    /\ cyc' = [cyc EXCEPT !.size = 0, !.buf = EmptyRing]
    /\ recent' = <<>>
    /\ UNCHANGED scan

RingNext ==
    \/ \E text \in TsTexts : rd_tsprintf(text)
    \/ rd_tsprintf_fails
    \/ rd_string_thread_cleanup

\* The ring of a thread keeps what rdstring.h promises: every string
\* rd_tsprintf() returned stays allocated, long enough and unchanged until
\* RD_TSPRINTF_BUFCNT more calls were made, whatever lengths the calls had,
\* whether some failed, and wherever a cleanup left the index.  And no buffer
\* is forgotten: the allocated ones are those of the ring.
RecentStringsIntact ==
    /\ \A k \in DOMAIN recent : recent[k].block # NULL =>
          LET b == strHeap[recent[k].block]
          IN b.text = recent[k].text /\ b.len > b.text.len
    /\ {b \in Blocks : strHeap[b] # NoBlock} = Range(cyc.buf) \ {NULL}

-----------------------------------------------------------------------------
(* Scanning.  m is memory that begins at the string; the part of it that    *)
(* may be read ends where the sequence does.                                *)

Memories == BoundedSeq(ScanChars \cup {0}, MaxScanLen)

\* Sizes a caller may pass: -1 if the memory holds a nul, a true size if not.
SizesOf(m) == 0..Len(m) \cup IF 0 \in Range(m) THEN {-1} ELSE {}

\* Where a scan leaves while ((size == -1 || s < end) && *s), or at a stop.
Left(m, size, stops) ==
    CHOOSE i \in 0..Len(m) :
        /\ (size = -1 \/ i < size) => m[i + 1] \in stops \cup {0}
        /\ \A j \in 0..i - 1 :
              (size = -1 \/ j < size) /\ m[j + 1] \notin stops \cup {0}

\* Characters that are negative as a char, which is signed: (int)*delimiters
\* and (int)*s index in front of map[].
HighChars == {ch \in ScanChars : ch >= CharHalf}

\* The characters of a set that map[] holds once it is filled.  What a store
\* in front of it hits is not modelled.
Mapped(set) == set \ HighChars

\* rd_strnchrs(): the position of a delimiter, or the end if that will do.
\* Here the string indexes map[] as unsigned char, inside of it.
rd_strnchrs(m, size, delimiters, match_eol) ==
    LET i == Left(m, size, Mapped(delimiters))
        found == (size = -1 \/ i < size) /\ m[i + 1] # 0
    IN IF found \/ match_eol THEN i ELSE NULL

\* rd_strnspn_map(): the string indexes map[] as char too.  stray are the high
\* characters at which the memory in front of map[] makes the scan stop.
rd_strnspn_map(m, size, accept, map, stray) ==
    Left(m, size, stray \cup Mapped(IF accept THEN ScanChars \ map ELSE map))
rd_strnspn(m, size, set, stray) == rd_strnspn_map(m, size, TRUE, Mapped(set), stray)
rd_strncspn(m, size, set, stray) == rd_strnspn_map(m, size, FALSE, Mapped(set), stray)

\* Variant with a fault: a difference in length is not reported.
rd_strndiffposPrefix(s, t) ==
    LET diffs == {i \in 0..Min({Len(s), Len(t)}) - 1 : s[i + 1] # t[i + 1]}
    IN IF diffs = {} THEN -1 ELSE Min(diffs)

\* rd_strndiffpos(): both sizes are true ones.
rd_strndiffpos(s, t) ==
    LET minlen == Min({Len(s), Len(t)})
        diffs == {i \in 0..minlen - 1 : s[i + 1] # t[i + 1]}
    IN IF diffs # {} THEN Min(diffs)
       ELSE IF Len(s) # Len(t) THEN minlen ELSE -1

\* rd_strdiffpos() on two strings with a nul.
rd_strdiffpos(s, t) ==
    LET i == CHOOSE i \in 0..Len(s) - 1 :
                /\ \A j \in 0..i - 1 : s[j + 1] = t[j + 1] /\ s[j + 1] # 0
                /\ s[i + 1] # t[i + 1] \/ s[i + 1] = 0
    IN IF s[i + 1] = t[i + 1] THEN -1 ELSE i

\* strncmp() of the common length, which stops at a nul.  External.
strncmp(s, t, n) ==
    LET ends == {i \in 1..n : s[i] # t[i] \/ s[i] = 0}
    IN IF ends = {} THEN 0 ELSE s[Min(ends)] - t[Min(ends)]

\* rd_strnncmp(): the shorter one is less if the other continues it.
rd_strnncmp(s, t) ==
    LET r == strncmp(s, t, Min({Len(s), Len(t)}))
    IN IF r # 0 THEN r ELSE Len(s) - Len(t)

\* One call of each scanning function on the same string.
Scan ==
    /\ scan = NotScanned
    /\ \E m \in Memories, set \in SUBSET ScanChars, stray, cstray \in SUBSET HighChars :
       \E size \in SizesOf(m) :
          scan' = [fn |-> "scan", m |-> m, size |-> size, set |-> set,
                   chrs |-> rd_strnchrs(m, size, set, FALSE),
                   eol |-> rd_strnchrs(m, size, set, TRUE),
                   spn |-> rd_strnspn(m, size, set, stray),
                   cspn |-> rd_strncspn(m, size, set, cstray)]
    /\ UNCHANGED ringVars

\* One call of each comparison on two strings s and t without a nul.
Compare ==
    /\ scan = NotScanned
    /\ \E s, t \in BoundedSeq(ScanChars, MaxScanLen) :
          scan' = [fn |-> "compare", s |-> s, t |-> t,
                   ndiff |-> rd_strndiffpos(s, t),
                   diff |-> rd_strdiffpos(Append(s, 0), Append(t, 0)),
                   ncmp |-> rd_strnncmp(s, t)]
    /\ UNCHANGED ringVars

ScanNext == Scan \/ Compare

StrSpec == StrInit /\ [][RingNext \/ ScanNext]_strVars

\* What a sized scan sees: the memory up to its size or its nul.
Seen(m, size) ==
    LET ends == {i \in 1..Len(m) : m[i] = 0}
        n == IF size = -1 THEN Len(m) ELSE size
    IN SubSeq(m, 1, Min({n} \cup {i - 1 : i \in ends}))

\* The prefixes of the text all of whose characters are (not) in a set.
Spans(text, set) == {p \in Prefixes(text) : Range(p) \subseteq set}

Longest(text, set) == Max({Len(p) : p \in Spans(text, set)})

\* The lengths a span may have if each high character may count as in the set
\* or not: one length for a text without any.
Possible(text, set) ==
    {Longest(text, Mapped(set) \cup counted) : counted \in SUBSET HighChars}

\* The scanning functions agree with their definitions by sets of prefixes:
\* on a text without characters of 128 and more rd_strnspn() and rd_strncspn()
\* return the length of the longest prefix inside and outside the set, and
\* such a character may end a span or not, whatever the set.  rd_strnchrs()
\* returns the place where the prefix outside the set ends, NULL or the end of
\* the string if it never does, but never finds a delimiter of 128 or more.
\* Neither is fooled by a nul before the size or by memory that has none.
\* rd_strndiffpos() and rd_strdiffpos() return the length of the longest
\* common prefix unless the strings are equal, and rd_strnncmp() orders the
\* strings by what follows it.
ScansMatchReference ==
    /\ scan.fn = "scan" =>
          LET text == Seen(scan.m, scan.size)
          IN /\ scan.spn \in Possible(text, scan.set)
             /\ scan.cspn \in Possible(text, ScanChars \ scan.set)
             /\ scan.eol = Longest(text, ScanChars \ Mapped(scan.set))
             /\ scan.chrs = IF scan.eol < Len(text) THEN scan.eol ELSE NULL
    /\ scan.fn = "compare" =>
          LET common == Prefixes(scan.s) \cap Prefixes(scan.t)
              n == Max({Len(p) : p \in common})
              After(u) == IF n < Len(u) THEN u[n + 1] ELSE 0
          IN /\ scan.ndiff = IF scan.s = scan.t THEN -1 ELSE n
             /\ scan.diff = scan.ndiff
             /\ (scan.ncmp < 0) = (After(scan.s) < After(scan.t))
             /\ (scan.ncmp = 0) = (scan.s = scan.t)
=============================================================================
