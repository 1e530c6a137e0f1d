----------------------------- MODULE RdIoThread -----------------------------
(***************************************************************************)
(* The I/O thread: rdiothread.c.                                           *)
(*                                                                         *)
(* rd_io_add() registers a handler for a file descriptor, in a reference-  *)
(* counted handle that epoll knows by address.  The I/O thread waits in    *)
(* epoll_wait() and hands every ready handle to a worker thread, or calls  *)
(* its handler itself.  rd_io_add() and rd_io_del() are called by any      *)
(* thread, handlers included; only the list of handles has a lock, so the  *)
(* steps of these calls interleave with each other, with the I/O thread    *)
(* and with the workers.                                                   *)
(*                                                                         *)
(* Nothing in the code assigns rioh_worker_thread or puts a worker back on *)
(* rd_io_worker_lru, so rd_io_worker_get() creates a worker for each event *)
(* until there are RD_IO_THREAD_WORKERS_MAX of them, and a worker is sent  *)
(* one event in its life.                                                  *)
(***************************************************************************)
EXTENDS Integers, Sequences, FiniteSets

CONSTANTS
    Fds,           \* file descriptors
    NoFd,          \* the fd -1 of a decommissioned handle
    Hnds,          \* rd_io_hnd_t objects; each is allocated at most once
    NoHnd,
    Callers,       \* threads that call rd_io_add() and rd_io_del()
    CtlMayFail,    \* whether epoll_ctl() can fail for reasons of its own
    StartMayFail,  \* whether epoll_create() can fail
    MaxWorkers,    \* RD_IO_THREAD_WORKERS_MAX
    MaxAdds,       \* bound: calls of rd_io_add() in all
    MaxReady       \* bound: events reported by epoll_wait() in all

ASSUME ConstAssumption ==
    /\ IsFiniteSet(Fds)
    /\ NoFd \notin Fds
    /\ NoHnd \notin Hnds
    /\ CtlMayFail \in BOOLEAN
    /\ StartMayFail \in BOOLEAN
    /\ MaxWorkers \in Nat
    /\ MaxAdds \in Nat
    /\ MaxReady \in Nat

VARIABLES
    mem,        \* memory of each handle: "none", "live" or "freed"
    rioh_fd,
    refcnt,     \* rioh_refcnt
    nonblock,   \* RD_IO_F_NONBLOCKING of rioh_flags
    events,     \* whether rioh_events is non-zero
    hnds,       \* rd_io_hnds
    started,    \* rd_io_thread_started
    epfd,       \* whether rd_io_thread_fd is open
    epset,      \* what epoll has registered for each descriptor
    call,       \* the call each caller is in
    iopc,       \* where the I/O thread is
    ready,      \* what is left of its events[]
    left,       \* events epoll_wait() may still report
    job,        \* the handle each worker was sent
    jobpc,      \* "none", "queued", "running" or "done"
    late,       \* history: events dispatched after the handle was deleted
    failed,     \* history: a call of epoll_create() or epoll_ctl() failed
    fault       \* "none", "assert" or "uaf" (use of a freed handle)

hndVars == <<mem, rioh_fd, refcnt, nonblock, events, hnds>>
epollVars == <<started, epfd, epset>>
ioVars == <<iopc, ready, left, job, jobpc, late>>
vars == <<hndVars, epollVars, call, ioVars, failed, fault>>

Workers == 1..MaxWorkers

NoCall == [op |-> "none", h |-> NoHnd, fd |-> NoFd, nb |-> FALSE, new |-> FALSE]

TypeOK ==
    /\ mem \in [Hnds -> {"none", "live", "freed"}]
    /\ rioh_fd \in [Hnds -> Fds \cup {NoFd}]
    /\ refcnt \in [Hnds -> Nat]
    /\ nonblock \in [Hnds -> BOOLEAN]
    /\ events \in [Hnds -> BOOLEAN]
    /\ hnds \subseteq Hnds
    /\ started \in Nat
    /\ epfd \in BOOLEAN
    /\ epset \in [Fds -> Hnds \cup {NoHnd}]
    /\ call \in [Callers -> [op : {"none", "new", "fill", "start", "ctl", "test",
                                   "clear", "unreg"},
                             h : Hnds \cup {NoHnd}, fd : Fds \cup {NoFd},
                             nb : BOOLEAN, new : BOOLEAN]]
    /\ iopc \in {"off", "poll", "loop", "get", "handler"}
    /\ ready \in Seq(Hnds)
    /\ left \in 0..MaxReady
    /\ job \in [Workers -> Hnds \cup {NoHnd}]
    /\ jobpc \in [Workers -> {"none", "queued", "running", "done"}]
    /\ late \in [Hnds -> Nat]
    /\ failed \in BOOLEAN
    /\ fault \in {"none", "assert", "uaf"}

Init ==
    /\ mem = [h \in Hnds |-> "none"]
    /\ rioh_fd = [h \in Hnds |-> NoFd]
    /\ refcnt = [h \in Hnds |-> 0]
    /\ nonblock = [h \in Hnds |-> FALSE]
    /\ events = [h \in Hnds |-> FALSE]
    /\ hnds = {}
    /\ started = 0
    /\ epfd = FALSE
    /\ epset = [fd \in Fds |-> NoHnd]
    /\ call = [c \in Callers |-> NoCall]
    /\ iopc = "off"
    /\ ready = <<>>
    /\ left = MaxReady
    /\ job = [w \in Workers |-> NoHnd]
    /\ jobpc = [w \in Workers |-> "none"]
    /\ late = [h \in Hnds |-> 0]
    /\ failed = FALSE
    /\ fault = "none"

-----------------------------------------------------------------------------
(***************************************************************************)
(* Handles.                                                                *)
(***************************************************************************)

\* rd_io_hnd_keep().
Keep(h) == refcnt' = [refcnt EXCEPT ![h] = @ + 1]

\* rd_io_hnd_destroy(), n times in a row, on counts cnt.  Its assertion wants
\* the last reference to a handle dropped after the handle's fd became -1.
Drop(h, n, cnt) ==
    /\ refcnt' = [cnt EXCEPT ![h] = @ - n]
    /\ IF mem[h] # "live"
       THEN fault' = "uaf" /\ UNCHANGED <<mem, hnds>>
       ELSE IF cnt[h] - n > 0
       THEN UNCHANGED <<mem, hnds, fault>>
       ELSE IF rioh_fd[h] # NoFd
       THEN fault' = "assert" /\ UNCHANGED <<mem, hnds>>
       ELSE /\ mem' = [mem EXCEPT ![h] = "freed"]
            /\ hnds' = hnds \ {h}
            /\ UNCHANGED fault

Found(fd) == {h \in hnds : rioh_fd[h] = fd}

\* calloc(): handles are interchangeable, so they are used in a fixed order.
Fresh ==
    LET free == {h \in Hnds : mem[h] = "none"}
    IN  IF free = {} THEN {} ELSE {CHOOSE h \in free : TRUE}

InCall(c, op) == fault = "none" /\ call[c].op = op
Return(c) == call' = [call EXCEPT ![c] = NoCall]

\* The application makes one call at a time on each descriptor: the code has
\* no lock that would let two of them overlap.
MayCall(c, fd) ==
    /\ InCall(c, "none")
    /\ \A d \in Callers : call[d].fd # fd

-----------------------------------------------------------------------------
(***************************************************************************)
(* rd_io_add().                                                            *)
(***************************************************************************)

\* rd_io_hnd_get(fd, 1): find the handle or create it, under the lock.
AddGet(c, fd, nb) ==
    /\ MayCall(c, fd)
    /\ started < MaxAdds
    /\ \E h \in IF Found(fd) # {} THEN Found(fd) ELSE Fresh :
        /\ mem' = [mem EXCEPT ![h] = "live"]
        /\ rioh_fd' = [rioh_fd EXCEPT ![h] = fd]
        /\ hnds' = hnds \cup {h}
        /\ Keep(h)
        /\ call' = [call EXCEPT ![c] = [op |-> "new", h |-> h, fd |-> fd, nb |-> nb,
                                        new |-> FALSE]]
    /\ UNCHANGED <<nonblock, events, epollVars, ioVars, fault, failed>>

\* new = !rioh->rioh_events.
AddNew(c) ==
    /\ InCall(c, "new")
    /\ call' = [call EXCEPT ![c].op = "fill", ![c].new = ~events[call[c].h]]
    /\ UNCHANGED <<hndVars, epollVars, ioVars, fault, failed>>

\* The handle is filled in; the caller that takes rd_io_thread_started from
\* 0 to 1 starts the I/O thread.
AddFill(c) ==
    /\ InCall(c, "fill")
    /\ nonblock' = [nonblock EXCEPT ![call[c].h] = call[c].nb]
    /\ events' = [events EXCEPT ![call[c].h] = TRUE]
    /\ started' = started + 1
    /\ call' = [call EXCEPT ![c].op = IF started = 0 THEN "start" ELSE "ctl"]
    /\ UNCHANGED <<mem, rioh_fd, refcnt, hnds, epfd, epset, ioVars, fault, failed>>

\* rd_io_thread_start().  A failing rd_thread_create() is RdThread's matter.
AddStart(c) ==
    /\ InCall(c, "start")
    /\ epfd' = TRUE
    /\ iopc' = "poll"
    /\ call' = [call EXCEPT ![c].op = "ctl"]
    /\ UNCHANGED <<hndVars, started, epset, ready, left, job, jobpc, late, fault, failed>>

\* rd_atomic_sub(&rd_io_thread_started, 1) when the start failed.
StartedTakenBack == started - 1

AddStartFails(c) ==
    /\ StartMayFail
    /\ InCall(c, "start")
    /\ started' = StartedTakenBack
    /\ failed' = TRUE
    /\ Drop(call[c].h, 1, refcnt)
    /\ Return(c)
    /\ UNCHANGED <<rioh_fd, nonblock, events, epfd, epset, ioVars>>

\* epoll_ctl(): EPOLL_CTL_ADD wants a descriptor that is not registered,
\* EPOLL_CTL_MOD one that is, both an open epoll descriptor.
CtlWorks(fd, new) ==
    /\ epfd
    /\ fd # NoFd
    /\ new <=> epset[fd] = NoHnd

\* The rest of rd_io_add(): a reference for epoll, then epoll_ctl().
AddCtl(c) ==
    LET h == call[c].h
        fd == rioh_fd[h]
    IN  /\ InCall(c, "ctl")
        /\ CtlWorks(fd, call[c].new)
        /\ epset' = [epset EXCEPT ![fd] = h]
        /\ Keep(h)
        /\ Return(c)
        /\ UNCHANGED <<mem, rioh_fd, nonblock, events, hnds, started, epfd, ioVars, fault, failed>>

\* epoll_ctl() fails: both references of this call are dropped, and the
\* call still returns 0.
AddCtlFails(c) ==
    LET h == call[c].h
    IN  /\ InCall(c, "ctl")
        /\ CtlMayFail \/ ~CtlWorks(rioh_fd[h], call[c].new)
        /\ failed' = TRUE
        /\ Drop(h, 2, [refcnt EXCEPT ![h] = @ + 1])
        /\ Return(c)
        /\ UNCHANGED <<rioh_fd, nonblock, events, epollVars, ioVars>>

-----------------------------------------------------------------------------
(***************************************************************************)
(* rd_io_del(), also reached as rd_io_add() with no events.                *)
(***************************************************************************)

\* rd_io_hnd_get(fd, 0).  Without a handle the call changes nothing.
DelGet(c, fd) ==
    /\ MayCall(c, fd)
    /\ \E h \in Found(fd) :
        /\ Keep(h)
        /\ call' = [call EXCEPT ![c] = [op |-> "test", h |-> h, fd |-> fd,
                                        nb |-> FALSE, new |-> FALSE]]
    /\ UNCHANGED <<mem, rioh_fd, nonblock, events, hnds, epollVars, ioVars, fault, failed>>

\* if (rioh->rioh_fd != -1).
DelTest(c) ==
    /\ InCall(c, "test")
    /\ IF rioh_fd[call[c].h] # NoFd
       THEN /\ call' = [call EXCEPT ![c].op = "clear"]
            /\ UNCHANGED <<mem, refcnt, hnds, fault>>
       ELSE Drop(call[c].h, 1, refcnt) /\ Return(c)
    /\ UNCHANGED <<rioh_fd, nonblock, events, epollVars, ioVars, failed>>

\* The handle is decommissioned before epoll forgets it.
DelClear(c) ==
    /\ InCall(c, "clear")
    /\ rioh_fd' = [rioh_fd EXCEPT ![call[c].h] = NoFd]
    /\ call' = [call EXCEPT ![c].op = "unreg"]
    /\ UNCHANGED <<mem, refcnt, nonblock, events, hnds, epollVars, ioVars, fault, failed>>

\* Variant with a fault: one reference too many is dropped.
DelRefsThree == 3

\* References rd_io_del() drops: the handle's own and that of _get().
DelRefs == 2

\* Variant with a fault: epoll is not told.
UnregisteredNot(fd) == epset

\* epoll_ctl(EPOLL_CTL_DEL).
Unregistered(fd) == [epset EXCEPT ![fd] = NoHnd]

DelUnreg(c) ==
    /\ InCall(c, "unreg")
    /\ epset' = Unregistered(call[c].fd)
    /\ Drop(call[c].h, DelRefs, refcnt)
    /\ Return(c)
    /\ UNCHANGED <<rioh_fd, nonblock, events, started, epfd, ioVars, failed>>

-----------------------------------------------------------------------------
(***************************************************************************)
(* The I/O thread and its workers.                                         *)
(***************************************************************************)
IoAt(where) == fault = "none" /\ iopc = where

\* epoll_wait(): any of the registered descriptors may be ready.
Poll ==
    /\ IoAt("poll")
    /\ \E fds \in SUBSET {fd \in Fds : epset[fd] # NoHnd} :
        /\ fds # {}
        /\ Cardinality(fds) <= left
        /\ left' = left - Cardinality(fds)
        /\ \E order \in [1..Cardinality(fds) -> fds] :
            /\ \A fd \in fds : \E i \in DOMAIN order : order[i] = fd
            /\ ready' = [i \in DOMAIN order |-> epset[order[i]]]
    /\ iopc' = "loop"
    /\ UNCHANGED <<hndVars, epollVars, call, job, jobpc, late, fault, failed>>

\* Variant with a fault: a decommissioned handle is dispatched all the same.
DecommissionedNot(h) == FALSE

Decommissioned(h) == rioh_fd[h] = NoFd

\* One pass of the loop: a decommissioned handle is skipped, a nonblocking
\* handler is called, the others need a worker.
Loop ==
    /\ IoAt("loop")
    /\ ready # <<>>
    /\ LET h == Head(ready)
       IN  IF mem[h] # "live"
           THEN fault' = "uaf" /\ UNCHANGED <<ready, iopc, refcnt>>
           ELSE /\ UNCHANGED fault
                /\ IF Decommissioned(h)
                   THEN ready' = Tail(ready) /\ UNCHANGED <<iopc, refcnt>>
                   ELSE IF nonblock[h]
                   THEN iopc' = "handler" /\ Keep(h) /\ UNCHANGED ready
                   ELSE iopc' = "get" /\ UNCHANGED <<ready, refcnt>>
    /\ UNCHANGED <<mem, rioh_fd, nonblock, events, hnds, epollVars, call, left, job,
                   jobpc, late, failed>>

LoopEnd ==
    /\ IoAt("loop")
    /\ ready = <<>>
    /\ iopc' = "poll"
    /\ UNCHANGED <<hndVars, epollVars, call, ready, left, job, jobpc, late, fault, failed>>

\* The handler of rd_io_hnd_call() returns.
HandlerReturns ==
    /\ IoAt("handler")
    /\ Drop(Head(ready), 1, refcnt)
    /\ ready' = Tail(ready)
    /\ iopc' = "loop"
    /\ UNCHANGED <<rioh_fd, nonblock, events, epollVars, call, left, job, jobpc, late, failed>>

\* Variant with a fault: queued work has no reference of its own.
WorkRefNot(h) == UNCHANGED refcnt

\* rd_io_hnd_keep() of rd_io_hnd_enqueue_worker().
WorkRef(h) == Keep(h)

FreeWorkers == {w \in Workers : jobpc[w] = "none"}

\* rd_io_worker_get() creates a worker, which is sent the event.  With no
\* worker left to create the I/O thread sleeps and tries again for ever.
Enqueue ==
    /\ IoAt("get")
    /\ FreeWorkers # {}
    /\ LET w == CHOOSE v \in FreeWorkers : \A u \in FreeWorkers : v <= u
           h == Head(ready)
       IN  /\ job' = [job EXCEPT ![w] = h]
           /\ jobpc' = [jobpc EXCEPT ![w] = "queued"]
           /\ WorkRef(h)
           /\ late' = [late EXCEPT ![h] = IF rioh_fd[h] = NoFd THEN @ + 1 ELSE @]
    /\ ready' = Tail(ready)
    /\ iopc' = "loop"
    /\ UNCHANGED <<mem, rioh_fd, nonblock, events, hnds, epollVars, call, left, fault, failed>>

\* rd_io_hnd_work() and rd_io_hnd_call() on a worker: the handler begins,
\* whether or not the descriptor has been deleted meanwhile.
WorkBegin(w) ==
    /\ fault = "none"
    /\ jobpc[w] = "queued"
    /\ jobpc' = [jobpc EXCEPT ![w] = "running"]
    /\ Keep(job[w])
    /\ fault' = IF mem[job[w]] = "live" THEN "none" ELSE "uaf"
    /\ UNCHANGED <<mem, rioh_fd, nonblock, events, hnds, epollVars, call, iopc, ready,
                   left, job, late, failed>>

\* The handler returns; the call's reference and the work's are dropped.
WorkEnd(w) ==
    /\ fault = "none"
    /\ jobpc[w] = "running"
    /\ jobpc' = [jobpc EXCEPT ![w] = "done"]
    /\ job' = [job EXCEPT ![w] = NoHnd]
    /\ Drop(job[w], 2, refcnt)
    /\ UNCHANGED <<rioh_fd, nonblock, events, epollVars, call, iopc, ready, left, late, failed>>

-----------------------------------------------------------------------------
CallStep(c) ==
    \/ AddNew(c) \/ AddFill(c) \/ AddStart(c) \/ AddStartFails(c) \/ AddCtl(c)
    \/ AddCtlFails(c) \/ DelTest(c) \/ DelClear(c) \/ DelUnreg(c)

IoThread == Loop \/ LoopEnd \/ HandlerReturns \/ Enqueue

Next ==
    \/ \E c \in Callers, fd \in Fds :
        (\E nb \in BOOLEAN : AddGet(c, fd, nb)) \/ DelGet(c, fd)
    \/ \E c \in Callers : CallStep(c)
    \/ Poll
    \/ IoThread
    \/ \E w \in Workers : WorkBegin(w) \/ WorkEnd(w)

Spec == Init /\ [][Next]_vars

\* The I/O thread and the workers run and handlers return.  Descriptors need
\* not become ready and callers need not do anything.
FairSpec ==
    /\ Spec
    /\ WF_vars(IoThread)
    /\ \A w \in Workers : WF_vars(WorkBegin(w)) /\ WF_vars(WorkEnd(w))
-----------------------------------------------------------------------------
\* References that dispatched events hold on a handle.
WorkRefs(h) ==
    Cardinality({w \in Workers : job[w] = h /\ jobpc[w] = "queued"})
        + 2 * Cardinality({w \in Workers : job[w] = h /\ jobpc[w] = "running"})
        + (IF iopc = "handler" /\ Head(ready) = h THEN 1 ELSE 0)

\* With one call at a time on each descriptor no handle is used after it was freed,
\* although the I/O thread holds pointers in events[] without a reference;
\* and the assertion of rd_io_hnd_destroy() fails only after epoll_create()
\* or epoll_ctl() did, for reasons of its own or because another caller was
\* still starting the I/O thread.
NoFault == fault = "none" \/ (fault = "assert" /\ failed)

\* A handle that epoll, events[] or a worker points at is allocated, and
\* its count exceeds the references of the dispatched events by one or more.
RefsCoverWork ==
    \A h \in Hnds :
        (\/ \E fd \in Fds : epset[fd] = h
         \/ \E i \in DOMAIN ready : ready[i] = h
         \/ WorkRefs(h) > 0)
            => (mem[h] = "live" /\ refcnt[h] > WorkRefs(h))

\* Between calls epoll and the list of handles agree: a descriptor that was
\* added is registered with its handle, and one that was deleted is not, also
\* when it was added, changed and deleted several times.
RegisteredIsListed ==
    (fault = "none" /\ \A c \in Callers : call[c].op = "none") =>
        \A fd \in Fds : Found(fd) = {epset[fd]} \ {NoHnd}

\* After rd_io_del() decommissioned a handle at most one more event of it is
\* dispatched, the one whose handle the I/O thread had already tested.
OneLateEvent == \A h \in Hnds : late[h] <= 1

\* rdiothread.c:129, "wait for some to become available": an I/O thread that
\* has no worker for an event gets one in the end.
WorkersBecomeAvailable == (iopc = "get") ~> (iopc # "get")
=============================================================================
