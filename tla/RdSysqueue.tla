----------------------------- MODULE RdSysqueue -----------------------------
(***************************************************************************)
(* The linked lists of rdsysqueue.h and sys/queue.h, with their pointers.  *)
(*                                                                         *)
(* A cell is a head or the links of an element: both are a pointer to the  *)
(* next element followed by a pointer to such a pointer, and the macros    *)
(* cast one to the other.  fwd is the first field of a cell (tqh_first,    *)
(* tqe_next, lh_first, ...), back the second (tqh_last, tqe_prev, ...); a  *)
(* pointer to the fwd field of a cell is written as the cell itself.  The  *)
(* macros are operators from one memory m = [fwd, back] to the next.       *)
(***************************************************************************)
EXTENDS Integers, SequencesExt

CONSTANTS
    SqHeads,    \* list heads
    SqElms,     \* elements, with one link each
    SqNil,      \* the null pointer
    SqKeys      \* per element, the key a comparator looks at

ASSUME SqAssumption ==
    /\ SqNil \notin SqHeads \cup SqElms
    /\ SqHeads \cap SqElms = {} /\ SqHeads # {}
    /\ IsFiniteSet(SqElms)
    /\ DOMAIN SqKeys = SqElms

VARIABLES
    sqMem,      \* the memory of all cells
    sqKind,     \* which of the three families of macros is used
    sqList,     \* history: per head, the elements that should be in its list
    sqHome,     \* history: per head, the one whose empty list it was given
    sqLost      \* history: the element linked to another head than its own

sqVars == <<sqMem, sqKind, sqList, sqHome, sqLost>>
Cells == SqHeads \cup SqElms

-----------------------------------------------------------------------------
(***************************************************************************)
(* Reading lists.                                                          *)
(***************************************************************************)

\* TAILQ_FIRST, LIST_FIRST and SIMPLEQ_FIRST.
First(m, h) == m.fwd[h]

\* TAILQ_LAST, which takes the cell that tqh_last points into for a head.
TAILQ_LAST(m, h) == m.fwd[m.back[m.back[h]]]

\* TAILQ_PREV, with the same cast of tqe_prev.
TAILQ_PREV(m, e) == m.fwd[m.back[m.back[e]]]

TAILQ_CIRC_PREV(m, h, e) ==
    IF e # First(m, h) THEN TAILQ_PREV(m, e) ELSE TAILQ_LAST(m, h)
TAILQ_CIRC_NEXT(m, h, e) ==
    IF e # TAILQ_LAST(m, h) THEN m.fwd[e] ELSE First(m, h)

\* TAILQ_FOREACH, LIST_FOREACH and SIMPLEQ_FOREACH: the elements visited, no
\* more of them than there are cells.
FOREACH(m, h) ==
    LET at[n \in 0..Cardinality(SqElms) + 1] ==
            IF n = 0 THEN h
            ELSE IF at[n - 1] = SqNil THEN SqNil ELSE m.fwd[at[n - 1]]
    IN  [n \in {k \in 1..Cardinality(SqElms) + 1 : at[k] # SqNil} |-> at[n]]

-----------------------------------------------------------------------------
(***************************************************************************)
(* Writing lists.  A SIMPLEQ has a last pointer and no previous ones, a    *)
(* LIST previous pointers and no last one; what a family does not have is  *)
(* written here but never read.                                            *)
(***************************************************************************)

\* TAILQ_INSERT_HEAD and LIST_INSERT_HEAD.
INSERT_HEAD(m, h, e) ==
    LET n == m.fwd[h]
    IN  [fwd |-> [m.fwd EXCEPT ![e] = n, ![h] = e],
         back |-> [[m.back EXCEPT ![IF n # SqNil THEN n ELSE h] = e]
                       EXCEPT ![e] = h]]

\* TAILQ_INSERT_TAIL.
INSERT_TAIL(m, h, e) ==
    LET last == m.back[h]
    IN  [fwd |-> [m.fwd EXCEPT ![e] = SqNil, ![last] = e],
         back |-> [m.back EXCEPT ![e] = last, ![h] = e]]

\* TAILQ_INSERT_AFTER; LIST_INSERT_AFTER has no head.
INSERT_AFTER(m, h, l, e) ==
    LET n == m.fwd[l]
    IN  [fwd |-> [m.fwd EXCEPT ![e] = n, ![l] = e],
         back |-> [[m.back EXCEPT ![IF n # SqNil THEN n ELSE h] = e]
                       EXCEPT ![e] = l]]

\* Variant with a fault: the old previous pointer is left as it is.
INSERT_BEFORE_Forward(m, l, e) ==
    [fwd |-> [m.fwd EXCEPT ![e] = l, ![m.back[l]] = e],
     back |-> [m.back EXCEPT ![e] = m.back[l]]]

\* TAILQ_INSERT_BEFORE and LIST_INSERT_BEFORE.
INSERT_BEFORE(m, l, e) ==
    [fwd |-> [m.fwd EXCEPT ![e] = l, ![m.back[l]] = e],
     back |-> [m.back EXCEPT ![e] = m.back[l], ![l] = e]]

\* TAILQ_INSERT_SORTED and LIST_INSERT_SORTED: before the first element that
\* is not smaller, or else behind the one that has no next.
INSERT_SORTED(m, h, e) ==
    LET walk == FOREACH(m, h)
        behind == {i \in DOMAIN walk : SqKeys[e] <= SqKeys[walk[i]]}
    IN  IF First(m, h) = SqNil THEN INSERT_HEAD(m, h, e)
        ELSE IF behind # {} THEN INSERT_BEFORE(m, walk[Min(behind)], e)
        ELSE INSERT_AFTER(m, h, Last(walk), e)

\* TAILQ_REMOVE and LIST_REMOVE.
REMOVE(m, h, e) ==
    LET n == m.fwd[e]
    IN  [fwd |-> [m.fwd EXCEPT ![m.back[e]] = n],
         back |-> [m.back EXCEPT ![IF n # SqNil THEN n ELSE h] = m.back[e]]]

\* SIMPLEQ_REMOVE_HEAD.
SIMPLEQ_REMOVE_HEAD(m, h) ==
    LET n == m.fwd[m.fwd[h]]
    IN  [fwd |-> [m.fwd EXCEPT ![h] = n],
         back |-> IF n = SqNil THEN [m.back EXCEPT ![h] = h] ELSE m.back]

\* SIMPLEQ_INSERT_HEAD and, behind an element l, SIMPLEQ_INSERT_AFTER.
SIMPLEQ_INSERT_AFTER(m, h, l, e) ==
    LET n == m.fwd[l]
    IN  [fwd |-> [m.fwd EXCEPT ![e] = n, ![l] = e],
         back |-> IF n = SqNil THEN [m.back EXCEPT ![h] = e] ELSE m.back]

\* SIMPLEQ_INSERT_TAIL.
SIMPLEQ_INSERT_TAIL(m, h, e) ==
    LET last == m.back[h]
    IN  [fwd |-> [m.fwd EXCEPT ![e] = SqNil, ![last] = e],
         back |-> [m.back EXCEPT ![h] = e]]

\* TAILQ_INIT, LIST_INIT, SIMPLEQ_INIT and the initializers.
INIT(m, h) ==
    [fwd |-> [m.fwd EXCEPT ![h] = SqNil], back |-> [m.back EXCEPT ![h] = h]]

\* TAILQ_MOVE: the old head is left as it was.
TAILQ_MOVE(m, new, old) ==
    LET first == m.fwd[old]
        back == IF first = SqNil THEN m.back ELSE [m.back EXCEPT ![first] = new]
    IN  [fwd |-> [m.fwd EXCEPT ![new] = first],
         back |-> [back EXCEPT ![new] = m.back[old]]]

-----------------------------------------------------------------------------
EmptyLists ==
    [fwd |-> [x \in Cells |-> SqNil],
     back |-> [x \in Cells |-> IF x \in SqHeads THEN x ELSE SqNil]]

SqInit ==
    /\ sqMem = EmptyLists
    /\ sqKind \in {"TAILQ", "LIST", "SIMPLEQ"}
    /\ sqList = [h \in SqHeads |-> <<>>]
    /\ sqHome = [h \in SqHeads |-> h]
    /\ sqLost = SqNil

Unlinked == SqElms \ UNION {ToSet(sqList[h]) : h \in SqHeads}

Becomes(h, m, list) ==
    /\ sqMem' = m
    /\ sqList' = [sqList EXCEPT ![h] = list]
    /\ sqHome' = [sqHome EXCEPT ![h] = h]
    /\ UNCHANGED <<sqKind, sqLost>>

\* Insertions and removals in a TAILQ or a LIST.
InsertHead(h, e) ==
    /\ sqKind # "SIMPLEQ"
    /\ Becomes(h, INSERT_HEAD(sqMem, h, e), <<e>> \o sqList[h])
\* A head that was given an empty list still has the last pointer of the head
\* it came from, and the macro writes through it.
InsertTail(h, e) ==
    /\ sqKind = "TAILQ"
    /\ sqMem' = INSERT_TAIL(sqMem, h, e)
    /\ sqList' = [sqList EXCEPT ![h] = Append(@, e)]
    /\ sqLost' = IF sqHome[h] = h THEN SqNil ELSE e
    /\ UNCHANGED <<sqKind, sqHome>>
InsertAfter(h, i, e) ==
    /\ sqKind # "SIMPLEQ"
    /\ Becomes(h, INSERT_AFTER(sqMem, h, sqList[h][i], e),
               InsertAt(sqList[h], i + 1, e))
InsertBefore(h, i, e) ==
    /\ sqKind # "SIMPLEQ"
    /\ Becomes(h, INSERT_BEFORE(sqMem, sqList[h][i], e), InsertAt(sqList[h], i, e))
InsertSorted(h, e) ==
    /\ sqKind # "SIMPLEQ"
    /\ LET before == {i \in DOMAIN sqList[h] : SqKeys[e] <= SqKeys[sqList[h][i]]}
       IN  Becomes(h, INSERT_SORTED(sqMem, h, e),
                   InsertAt(sqList[h],
                            IF before = {} THEN Len(sqList[h]) + 1 ELSE Min(before), e))
RemoveAny(h, i) ==
    /\ sqKind # "SIMPLEQ"
    /\ Becomes(h, REMOVE(sqMem, h, sqList[h][i]), RemoveAt(sqList[h], i))

\* TAILQ_MOVE and TAILQ_INIT of the old head.  The last pointer of an empty
\* list, which leads to a head, is taken over as it is.
MoveList(new, old) ==
    /\ sqKind = "TAILQ" /\ new # old /\ sqList[new] = <<>>
    /\ sqMem' = INIT(TAILQ_MOVE(sqMem, new, old), old)
    /\ sqList' = [sqList EXCEPT ![new] = sqList[old], ![old] = <<>>]
    /\ sqHome' = [sqHome EXCEPT
            ![new] = IF sqList[old] = <<>> THEN sqHome[old] ELSE new, ![old] = old]
    /\ UNCHANGED <<sqKind, sqLost>>

\* TAILQ_INIT of every head: after an element went to the wrong one the lists
\* are of no use any more.
InitAll ==
    /\ sqLost # SqNil
    /\ sqMem' = [fwd |-> [x \in Cells |-> IF x \in SqHeads THEN SqNil ELSE sqMem.fwd[x]],
                 back |-> [x \in Cells |-> IF x \in SqHeads THEN x ELSE sqMem.back[x]]]
    /\ sqList' = [h \in SqHeads |-> <<>>]
    /\ sqHome' = [h \in SqHeads |-> h]
    /\ sqLost' = SqNil
    /\ UNCHANGED sqKind

\* Insertions and removals in a SIMPLEQ.
SimpleInsertTail(h, e) ==
    /\ sqKind = "SIMPLEQ"
    /\ Becomes(h, SIMPLEQ_INSERT_TAIL(sqMem, h, e), Append(sqList[h], e))
SimpleInsertAfter(h, i, e) ==
    /\ sqKind = "SIMPLEQ"
    /\ Becomes(h, SIMPLEQ_INSERT_AFTER(sqMem, h, IF i = 0 THEN h ELSE sqList[h][i], e),
               InsertAt(sqList[h], i + 1, e))
SimpleRemoveHead(h) ==
    /\ sqKind = "SIMPLEQ" /\ sqList[h] # <<>>
    /\ Becomes(h, SIMPLEQ_REMOVE_HEAD(sqMem, h), Tail(sqList[h]))

SqNext ==
    \/ /\ sqLost = SqNil
       /\ \E h \in SqHeads :
            \/ \E e \in Unlinked :
                \/ InsertHead(h, e) \/ InsertTail(h, e) \/ InsertSorted(h, e)
                \/ \E i \in DOMAIN sqList[h] : InsertAfter(h, i, e) \/ InsertBefore(h, i, e)
                \/ SimpleInsertTail(h, e)
                \/ \E i \in 0..Len(sqList[h]) : SimpleInsertAfter(h, i, e)
            \/ \E i \in DOMAIN sqList[h] : RemoveAny(h, i)
            \/ \E old \in SqHeads : MoveList(h, old)
            \/ SimpleRemoveHead(h)
    \/ InitAll

SqSpec == SqInit /\ [][SqNext]_sqVars
-----------------------------------------------------------------------------
\* The list of h is walked in its order and, as a TAILQ, also backwards and
\* around: each pointer to a previous or a last pointer is right.
Intact(h, list, n) ==
    /\ FOREACH(sqMem, h) = list
    /\ sqKind # "SIMPLEQ" => \A i \in 1..n :
            sqMem.back[list[i]] = IF i = 1 THEN h ELSE list[i - 1]
    /\ sqKind # "LIST" => sqMem.back[h] = IF n = 0 THEN sqHome[h] ELSE list[n]
    /\ sqKind = "TAILQ" =>
        /\ sqHome[h] = h => TAILQ_LAST(sqMem, h) = IF n = 0 THEN SqNil ELSE list[n]
        /\ \A i \in 1..n :
            /\ TAILQ_CIRC_NEXT(sqMem, h, list[i]) = list[(i % n) + 1]
            /\ TAILQ_CIRC_PREV(sqMem, h, list[(i % n) + 1]) = list[i]

\* The list of h has its only element in another one: walking it finds nothing,
\* and the head that h got its empty list from has the element in front.
Strayed(h) ==
    /\ sqHome[h] # h /\ sqList[h] = <<sqLost>>
    /\ FOREACH(sqMem, h) = <<>>
    /\ First(sqMem, sqHome[h]) = sqLost

\* After any sequence of insertions, removals and moves every list is intact,
\* also lists with one element, emptied ones and those of elements linked
\* again elsewhere, with one exception.  A TAILQ_MOVE of an empty list leaves
\* the new head with a last pointer at the old one, until an element is
\* inserted at its head or another list moved there; the first
\* TAILQ_INSERT_TAIL on such a head, and nothing else, damages the lists: the
\* element is missing in its own and starts the old head's.
LinksAreIntact ==
    IF sqLost = SqNil
    THEN \A h \in SqHeads : Intact(h, sqList[h], Len(sqList[h]))
    ELSE \E h \in SqHeads : Strayed(h)
=============================================================================
