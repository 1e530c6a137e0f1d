------------------------------- MODULE RdLru -------------------------------
(***************************************************************************)
(* The LRU list of rdlru.c: entries for application pointers, kept in a    *)
(* TAILQ with the youngest first.  The list itself is not locked; callers  *)
(* hold rlru_lock around a call, so each call is one step.  Entries are    *)
(* allocated by a push and freed by the call that takes them out, and      *)
(* their memory may come back with the next push.                          *)
(***************************************************************************)
EXTENDS RdSysqueue

CONSTANTS
    LruPtrs     \* application pointers

ASSUME LruAssumption == SqNil \notin LruPtrs

VARIABLES
    rlru_elms,  \* the memory of the list's cells
    rlru_cnt,
    rlrue_ptr,  \* per cell, its pointer, or SqNil when it is free
    entries,    \* history: the pointers in the list, youngest first
    lruFault    \* the assertion of rd_lru_elm_destroy() failed

lruVars == <<rlru_elms, rlru_cnt, rlrue_ptr, entries, lruFault>>

\* The head of the list: the heads of RdSysqueue share one memory.
LruHead == CHOOSE h \in SqHeads : TRUE

\* rd_lru_new() and RD_LRU_INITIALIZER.
LruInit ==
    /\ rlru_elms = EmptyLists
    /\ rlru_cnt = 0
    /\ rlrue_ptr = [e \in SqElms |-> SqNil]
    /\ entries = <<>>
    /\ lruFault = FALSE

\* rd_lru_push().
rd_lru_push(e, ptr) ==
    /\ rlrue_ptr[e] = SqNil
    /\ rlrue_ptr' = [rlrue_ptr EXCEPT ![e] = ptr]
    /\ rlru_elms' = INSERT_HEAD(rlru_elms, LruHead, e)
    /\ rlru_cnt' = rlru_cnt + 1
    /\ entries' = <<ptr>> \o entries
    /\ UNCHANGED lruFault

\* rd_lru_elm_destroy(), after which expected is what should be left.
rd_lru_elm_destroy(e, expected) ==
    /\ lruFault' = (lruFault \/ rlru_cnt <= 0)
    /\ rlru_cnt' = rlru_cnt - 1
    /\ rlru_elms' = REMOVE(rlru_elms, LruHead, e)
    /\ rlrue_ptr' = [rlrue_ptr EXCEPT ![e] = SqNil]
    /\ entries' = expected

\* Variant with a fault: the youngest entry is taken.
OldestFirst(m) == First(m, LruHead)

\* The entry that rd_lru_pop() takes.
Oldest(m) == TAILQ_LAST(m, LruHead)

\* rd_lru_pop().  An empty list returns NULL and changes nothing.
rd_lru_pop ==
    /\ Oldest(rlru_elms) # SqNil
    /\ rd_lru_elm_destroy(Oldest(rlru_elms), Front(entries))

\* rd_lru_shift().
rd_lru_shift ==
    /\ First(rlru_elms, LruHead) # SqNil
    /\ rd_lru_elm_destroy(First(rlru_elms, LruHead), Tail(entries))

\* rd_lru_destroy(), which takes the entries one by one from the front, and
\* rd_lru_new().
rd_lru_destroy ==
    LET left == FOREACH(rlru_elms, LruHead)
    IN  /\ lruFault' = (lruFault \/ rlru_cnt < Len(left))
        /\ rlrue_ptr' = [e \in SqElms |->
                            IF e \in ToSet(left) THEN SqNil ELSE rlrue_ptr[e]]
        /\ rlru_elms' = EmptyLists
        /\ rlru_cnt' = 0
        /\ entries' = <<>>

LruNext ==
    \/ \E e \in SqElms, ptr \in LruPtrs : rd_lru_push(e, ptr)
    \/ rd_lru_pop
    \/ rd_lru_shift
    \/ rd_lru_destroy

LruSpec == LruInit /\ [][LruNext]_lruVars
-----------------------------------------------------------------------------
\* The entries of the list are those pushed and not yet taken, youngest first,
\* whichever ends they were taken from and whatever cells were reused: a pop
\* takes the oldest and a shift the youngest.  rlru_cnt is their number, no
\* assertion fails, and a list that is destroyed frees every cell.
LruKeepsOrder ==
    LET cells == FOREACH(rlru_elms, LruHead)
    IN  /\ [i \in DOMAIN cells |-> rlrue_ptr[cells[i]]] = entries
        /\ entries # <<>> => rlrue_ptr[Oldest(rlru_elms)] = Last(entries)
        /\ rlru_cnt = Len(entries) /\ ~lruFault
        /\ {e \in SqElms : rlrue_ptr[e] # SqNil} = ToSet(cells)
=============================================================================
