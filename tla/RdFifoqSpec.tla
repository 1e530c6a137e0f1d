---------------------------- MODULE RdFifoqSpec ----------------------------
(***************************************************************************)
(* What rdqueue.h promises its callers: a thread-safe FIFO of pointers     *)
(* with an optional maximum size.  An addition to a full queue pushes one  *)
(* pointer out (the newest under taildrop, the oldest otherwise) and can   *)
(* report it; a pop hands the oldest pointer to exactly one thread.        *)
(*                                                                         *)
(* No locks, wakeups, element headers or reference counts appear here:     *)
(* those are RdFifoq's, which is shown to implement this specification.    *)
(***************************************************************************)
EXTENDS Naturals, Sequences

CONSTANTS
    Threads,   \* threads that use the queue
    Ptrs,      \* the pointers applications enqueue
    NoPtr,     \* NULL
    MaxSizes   \* values passed to rd_fifoq_set_max_size(); 0 means unbounded

VARIABLES
    queue,     \* the queued pointers, oldest first
    maxSize,   \* current limit, 0 when there is none
    taildrop,  \* which end a full queue drops from
    got,       \* pointer each thread popped and still works on
    purged     \* last value each thread's '*ptr_purged' was set to

vars == <<queue, maxSize, taildrop, got, purged>>

Init ==
    /\ queue = <<>>
    /\ maxSize = 0
    /\ taildrop = FALSE
    /\ got = [t \in Threads |-> NoPtr]
    /\ purged = [t \in Threads |-> NoPtr]

AtLimit == maxSize # 0 /\ Len(queue) >= maxSize

\* The pointer a full queue gives up, and what is left of the queue.
Dropped == IF taildrop THEN queue[Len(queue)] ELSE Head(queue)
Rest == IF taildrop THEN SubSeq(queue, 1, Len(queue) - 1) ELSE Tail(queue)

\* Enqueue p; report says whether the caller asked for the dropped pointer.
Add(t, p, report) ==
    /\ queue' = Append(IF AtLimit THEN Rest ELSE queue, p)
    /\ purged' = IF report
                 THEN [purged EXCEPT ![t] = IF AtLimit THEN Dropped ELSE NoPtr]
                 ELSE purged
    /\ UNCHANGED <<maxSize, taildrop, got>>

\* Thread t receives the oldest pointer.
Pop(t) ==
    /\ got[t] = NoPtr
    /\ queue # <<>>
    /\ queue' = Tail(queue)
    /\ got' = [got EXCEPT ![t] = Head(queue)]
    /\ UNCHANGED <<maxSize, taildrop, purged>>

\* Thread t is done with what it popped.
Release(t) ==
    /\ got' = [got EXCEPT ![t] = NoPtr]
    /\ UNCHANGED <<queue, maxSize, taildrop, purged>>

SetMaxSize(m, td) ==
    /\ maxSize' = m
    /\ taildrop' = td
    /\ UNCHANGED <<queue, got, purged>>

\* The queue is torn down; what it held is dropped.
Destroy ==
    /\ queue' = <<>>
    /\ UNCHANGED <<maxSize, taildrop, got, purged>>

Next ==
    \/ \E t \in Threads, p \in Ptrs, report \in BOOLEAN : Add(t, p, report)
    \/ \E t \in Threads : Pop(t) \/ Release(t)
    \/ \E m \in MaxSizes, td \in BOOLEAN : SetMaxSize(m, td)
    \/ Destroy

Spec == Init /\ [][Next]_vars
=============================================================================
