------------------------------ MODULE RdFifoq ------------------------------
(***************************************************************************)
(* The thread-safe FIFO queue of rdqueue.c and rdqueue.h.                  *)
(*                                                                         *)
(* Every operation runs under rfq_lock, so the code between a lock and the *)
(* next unlock (or condition wait) is one action.  A thread inside         *)
(* rd_fifoq_pop0() can be blocked on rfq_cond ("waiting"), woken and on    *)
(* its way back to the lock ("woken"), or past its deadline and on its way *)
(* back to the lock ("expired").                                           *)
(*                                                                         *)
(* Queue elements are heap objects: reference count 0 stands for memory    *)
(* that is not allocated, malloc() picks any such element, so a freed      *)
(* element can be handed out again at once.                                *)
(***************************************************************************)
EXTENDS Integers, Sequences, FiniteSets

CONSTANTS
    Threads,   \* all threads that use the queue
    Workers,   \* those that only run the worker loop documented in rdqueue.h
    Elms,      \* rd_fifoq_elm_t objects malloc() can return
    NoElm,     \* a NULL rd_fifoq_elm_t pointer
    Ptrs,      \* application pointers
    NoPtr,     \* a NULL application pointer
    MaxSizes,  \* values passed to rd_fifoq_set_max_size()
    MaxInits   \* bound: how many times the same rd_fifoq_t is initialised

ASSUME ConstAssumption ==
    /\ IsFiniteSet(Threads)
    /\ Workers \subseteq Threads
    /\ NoElm \notin Elms
    /\ NoPtr \notin Ptrs
    /\ MaxSizes \subseteq Nat
    /\ MaxInits \in Nat \ {0}

VARIABLES
    rfq_q,         \* TAILQ of queued elements, head first
    rfq_cnt,
    rfq_max_size,
    rfq_taildrop,
    rfqe_refcnt,   \* reference count of each element, 0 when not allocated
    rfqe_ptr,      \* application pointer of each element
    pc,            \* where each thread is in rd_fifoq_pop0()
    timed,         \* whether the blocked pop of a thread has a timeout
    held,          \* element a pop returned and the thread has not released
    purged,        \* last '*ptr_purged' each thread was given
    live,          \* FALSE between rd_fifoq_destroy() and rd_fifoq_init()
    inits,         \* how many times the queue has been initialised
    fault          \* TRUE once an assertion failed, a NULL entry was used
                   \* or a freed one was released: the program is lost

queueVars == <<rfq_q, rfq_cnt, rfq_max_size, rfq_taildrop>>
elmVars == <<rfqe_refcnt, rfqe_ptr>>
threadVars == <<pc, timed, held, purged>>
lifeVars == <<live, inits, fault>>
vars == <<queueVars, elmVars, threadVars, lifeVars>>

PcValues == {"idle", "waiting", "woken", "expired", "holding"}

TypeOK ==
    /\ rfq_q \in Seq(Elms)
    /\ rfq_cnt \in Int
    /\ rfq_max_size \in MaxSizes \cup {0}
    /\ rfq_taildrop \in BOOLEAN
    /\ rfqe_refcnt \in [Elms -> 0..2]
    /\ rfqe_ptr \in [Elms -> Ptrs \cup {NoPtr}]
    /\ pc \in [Threads -> PcValues]
    /\ timed \in [Threads -> BOOLEAN]
    /\ held \in [Threads -> Elms \cup {NoElm}]
    /\ purged \in [Threads -> Ptrs \cup {NoPtr}]
    /\ live \in BOOLEAN
    /\ inits \in 1..MaxInits
    /\ fault \in BOOLEAN

\* RD_FIFOQ_INITIALIZER, or rd_fifoq_init(NULL): zeroed memory.
Init ==
    /\ rfq_q = <<>>
    /\ rfq_cnt = 0
    /\ rfq_max_size = 0
    /\ rfq_taildrop = FALSE
    /\ rfqe_refcnt = [e \in Elms |-> 0]
    /\ rfqe_ptr = [e \in Elms |-> NoPtr]
    /\ pc = [t \in Threads |-> "idle"]
    /\ timed = [t \in Threads |-> FALSE]
    /\ held = [t \in Threads |-> NoElm]
    /\ purged = [t \in Threads |-> NoPtr]
    /\ live = TRUE
    /\ inits = 1
    /\ fault = FALSE

-----------------------------------------------------------------------------
Waiting == {t \in Threads : pc[t] = "waiting"}
Woken == {t \in Threads : pc[t] = "woken"}

\* Variant with a fault: the reference is dropped twice.
ReleasedTwice(refcnt, e) == [refcnt EXCEPT ![e] = @ - 2]

\* Variant with a fault: the reference is never dropped.
ReleasedNever(refcnt, e) == refcnt

\* rd_fifoq_elm_release0(): drop one reference; at zero the element is freed.
Released(refcnt, e) == [refcnt EXCEPT ![e] = @ - 1]

\* Variant with a fault: signal only when the queue was empty.
SignalIfEmpty ==
    IF Waiting = {} \/ rfq_q # <<>>
    THEN UNCHANGED pc
    ELSE \E w \in Waiting : pc' = [pc EXCEPT ![w] = "woken"]

\* Variant with a fault: signal only when there is a backlog already.
SignalIfBacklog ==
    IF Waiting = {} \/ rfq_q = <<>>
    THEN UNCHANGED pc
    ELSE \E w \in Waiting : pc' = [pc EXCEPT ![w] = "woken"]

\* pthread_cond_signal(): wake one blocked thread, if there is one.
Signal ==
    IF Waiting = {}
    THEN UNCHANGED pc
    ELSE \E w \in Waiting : pc' = [pc EXCEPT ![w] = "woken"]

At(t, where) == ~fault /\ pc[t] = where

\* Applications call into the queue only while it is initialised.
Running(t) == live /\ At(t, "idle")

-----------------------------------------------------------------------------
\* rd_fifoq_set_max_size().
SetMaxSize(t, m, td) ==
    /\ Running(t)
    /\ rfq_max_size' = m
    /\ rfq_taildrop' = td
    /\ UNCHANGED <<rfq_q, rfq_cnt, elmVars, threadVars, lifeVars>>

\* Variant with a fault: a limit of 0 is not taken to mean "no limit".
MustPurgeUnlimited == rfq_cnt >= rfq_max_size

\* The test that makes rd_fifoq_add0() drop an entry.
MustPurge == rfq_max_size # 0 /\ rfq_cnt >= rfq_max_size

\* Variant with a fault: the oldest entry is dropped, whatever the policy.
AfterPurgeHead == Tail(rfq_q)

\* The entry it drops, and the list without it.
Purge == IF rfq_taildrop THEN rfq_q[Len(rfq_q)] ELSE Head(rfq_q)
AfterPurge ==
    IF rfq_taildrop THEN SubSeq(rfq_q, 1, Len(rfq_q) - 1) ELSE Tail(rfq_q)

\* Variant with a fault: the purged entry is not subtracted.
CntAfterAddOnly == rfq_cnt + 1

CntAfterAdd == IF MustPurge THEN (rfq_cnt - 1) + 1 ELSE rfq_cnt + 1

\* rfqe_refcnt once the new element e has its two references and the
\* purged one, if only the queue still referred to it, has been released.
RefcntAfterAdd(e) ==
    LET fresh == [rfqe_refcnt EXCEPT ![e] = 2]
    IN  IF MustPurge /\ rfqe_refcnt[Purge] = 1
        THEN Released(fresh, Purge)
        ELSE fresh

\* rd_fifoq_add0(rfq, p, report ? &purged[t] : NULL).
Add(t, p, report) ==
    /\ Running(t)
    /\ \E e \in Elms :
        /\ rfqe_refcnt[e] = 0                     \* malloc()
        /\ rfqe_ptr' = [rfqe_ptr EXCEPT ![e] = p]
        /\ IF MustPurge /\ rfq_q = <<>>
           THEN /\ fault' = TRUE                  \* purge is NULL
                /\ rfqe_refcnt' = [rfqe_refcnt EXCEPT ![e] = 2]
                /\ UNCHANGED <<queueVars, pc, purged>>
           ELSE /\ rfq_q' = Append(IF MustPurge THEN AfterPurge ELSE rfq_q, e)
                /\ rfq_cnt' = CntAfterAdd
                /\ rfqe_refcnt' = RefcntAfterAdd(e)
                /\ purged' =
                     IF report
                     THEN [purged EXCEPT ![t] =
                             IF MustPurge THEN rfqe_ptr[Purge] ELSE NoPtr]
                     ELSE purged
                /\ Signal
                /\ UNCHANGED <<rfq_max_size, rfq_taildrop, fault>>
    /\ UNCHANGED <<timed, held, live, inits>>

-----------------------------------------------------------------------------
(***************************************************************************)
(* rd_fifoq_pop0().                                                        *)
(***************************************************************************)

\* After the wait loop: unlink the first element, drop the queue's reference,
\* return the element to the caller.  The assertion on rfq_cnt may fail; and
\* an element with one reference would be released a second time after it
\* was freed, since "continue" only re-evaluates while (rfqe == NULL).
Take(t) ==
    /\ rfq_q # <<>>
    /\ rfq_cnt' = rfq_cnt - 1
    /\ rfq_q' = Tail(rfq_q)
    /\ rfqe_refcnt' = Released(rfqe_refcnt, Head(rfq_q))
    /\ held' = [held EXCEPT ![t] = Head(rfq_q)]
    /\ pc' = [pc EXCEPT ![t] = "holding"]
    /\ fault' = (rfq_cnt <= 0 \/ rfqe_refcnt[Head(rfq_q)] = 1)
    /\ UNCHANGED <<rfq_max_size, rfq_taildrop, rfqe_ptr, timed, purged, live, inits>>

\* The queue is empty: block on rfq_cond, releasing the lock.
Block(t, tmo) ==
    /\ rfq_q = <<>>
    /\ pc' = [pc EXCEPT ![t] = "waiting"]
    /\ timed' = [timed EXCEPT ![t] = tmo]
    /\ UNCHANGED <<queueVars, elmVars, held, purged, lifeVars>>

\* rd_fifoq_pop().  On an empty queue it returns NULL and changes nothing.
PopNowait(t) == Running(t) /\ Take(t)

\* rd_fifoq_pop_wait() and, when tmo, rd_fifoq_pop_timedwait().
PopWait(t, tmo) == Running(t) /\ (Take(t) \/ Block(t, tmo))

\* A condition wait may return without a signal.  This also stands for
\* pthread_cond_timedwait() failing with EINVAL, which pop0 treats alike.
Spurious(t) ==
    /\ At(t, "waiting")
    /\ pc' = [pc EXCEPT ![t] = "woken"]
    /\ UNCHANGED <<queueVars, elmVars, timed, held, purged, lifeVars>>

\* A woken thread has the lock again and repeats the loop test.
Resume(t) == At(t, "woken") /\ (Take(t) \/ Block(t, timed[t]))

\* The deadline of a timed wait passes before a signal reaches the thread.
Expire(t) ==
    /\ At(t, "waiting")
    /\ timed[t]
    /\ pc' = [pc EXCEPT ![t] = "expired"]
    /\ UNCHANGED <<queueVars, elmVars, timed, held, purged, lifeVars>>

\* ETIMEDOUT: return NULL without looking at the queue again.
ReturnTimeout(t) ==
    /\ At(t, "expired")
    /\ pc' = [pc EXCEPT ![t] = "idle"]
    /\ UNCHANGED <<queueVars, elmVars, timed, held, purged, lifeVars>>

\* rd_fifoq_elm_release(), called once for every element popped.
Release(t) ==
    /\ At(t, "holding")
    /\ rfqe_refcnt' = Released(rfqe_refcnt, held[t])
    /\ held' = [held EXCEPT ![t] = NoElm]
    /\ pc' = [pc EXCEPT ![t] = "idle"]
    /\ UNCHANGED <<queueVars, rfqe_ptr, timed, purged, lifeVars>>

-----------------------------------------------------------------------------
\* rd_fifoq_destroy(), by the last user of the queue.  The elements are
\* freed whatever their reference count; rfq_cnt and the limit are kept.
Destroy ==
    /\ live /\ ~fault
    /\ \A t \in Threads : pc[t] = "idle"
    /\ rfqe_refcnt' = [e \in Elms |-> IF \E i \in DOMAIN rfq_q : rfq_q[i] = e
                                      THEN 0 ELSE rfqe_refcnt[e]]
    /\ rfq_q' = <<>>
    /\ live' = FALSE
    /\ UNCHANGED <<rfq_cnt, rfq_max_size, rfq_taildrop, rfqe_ptr, threadVars,
                   inits, fault>>

\* rd_fifoq_init(rfq) on a queue that was destroyed before.
ReInit ==
    /\ ~live
    /\ inits < MaxInits
    /\ rfq_q' = <<>>
    /\ live' = TRUE
    /\ inits' = inits + 1
    /\ UNCHANGED <<rfq_cnt, rfq_max_size, rfq_taildrop, elmVars, threadVars, fault>>

-----------------------------------------------------------------------------
Callers == Threads \ Workers

Next ==
    \/ \E t \in Callers, m \in MaxSizes, td \in BOOLEAN : SetMaxSize(t, m, td)
    \/ \E t \in Callers, p \in Ptrs, report \in BOOLEAN : Add(t, p, report)
    \/ \E t \in Callers : PopNowait(t) \/ PopWait(t, TRUE)
    \/ \E t \in Workers : PopWait(t, FALSE)
    \/ \E t \in Threads : Spurious(t) \/ Resume(t) \/ Expire(t)
                          \/ ReturnTimeout(t) \/ Release(t)
    \/ Destroy
    \/ ReInit

Spec == Init /\ [][Next]_vars

\* A worker keeps running: it pops, works and releases for ever.  The
\* mutex and the scheduler let every woken thread through.  Nothing is
\* assumed about callers, timeouts or spurious wakeups.
Fairness ==
    \A t \in Workers : /\ WF_vars(PopWait(t, FALSE))
                       /\ WF_vars(Resume(t))
                       /\ WF_vars(Release(t))

FairSpec == Spec /\ Fairness
-----------------------------------------------------------------------------
Queued == {rfq_q[i] : i \in DOMAIN rfq_q}

\* In the first life of a queue rfq_cnt, which decides when entries are
\* dropped, is the length of the list; after that it never falls below it,
\* so the assertion in rd_fifoq_pop0() holds.
CntMatches ==
    /\ rfq_cnt >= Len(rfq_q)
    /\ (live /\ inits = 1) => rfq_cnt = Len(rfq_q)

\* Wakeups are not lost: while threads are blocked in rd_fifoq_pop0(), every
\* queued element has a woken thread on its way to the lock.  Additions
\* signal one waiter each, timed waiters may leave without looking at the
\* queue, and other threads may take the element first.
NoLostWakeup == Waiting # {} => Cardinality(Woken) >= Len(rfq_q)

\* An element has one owner: a queued one carries both references and is
\* queued once, a popped one carries its holder's only, no two threads hold
\* the same one, and no queued or held element is free memory.
ElmOwnership ==
    /\ \A i, j \in DOMAIN rfq_q : rfq_q[i] = rfq_q[j] => i = j
    /\ \A i \in DOMAIN rfq_q : rfqe_refcnt[rfq_q[i]] = 2
    /\ \A t \in Threads :
        /\ pc[t] = "holding" <=> held[t] # NoElm
        /\ held[t] # NoElm => rfqe_refcnt[held[t]] = 1
    /\ \A t, u \in Threads : held[t] = held[u] /\ held[t] # NoElm => t = u

\* No rd_fifoq_add0() dereferences a NULL entry, no assertion of
\* rd_fifoq_pop0() fails, and its branch for elements with one reference,
\* which would release a freed element, is never reached.
NoFault == ~fault

\* Every queued element leaves the queue while workers keep popping.
EveryElementLeaves == \A e \in Elms : (e \in Queued) ~> (e \notin Queued)

\* rdqueue.c:96, "Queue has reached max size, drop an entry": an addition
\* drops an entry only when the queue holds rfq_max_size entries or more.
DropsOnlyWhenFull == (live /\ MustPurge) => Len(rfq_q) >= rfq_max_size

-----------------------------------------------------------------------------
\* The queue of pointers that applications see.
AbsQueue == [i \in DOMAIN rfq_q |-> rfqe_ptr[rfq_q[i]]]
AbsGot == [t \in Threads |-> IF held[t] = NoElm THEN NoPtr ELSE rfqe_ptr[held[t]]]

Abs == INSTANCE RdFifoqSpec WITH queue <- AbsQueue, maxSize <- rfq_max_size,
                                 taildrop <- rfq_taildrop, got <- AbsGot

\* The queue with its elements, references, blocked threads and wakeups
\* implements the bounded FIFO of pointers of RdFifoqSpec.
ImplementsFifo == Abs!Spec
=============================================================================
