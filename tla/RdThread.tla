------------------------------ MODULE RdThread ------------------------------
(***************************************************************************)
(* Threads and thread events: rdthread.c, rdthread.h, rdevent.c, rdevent.h *)
(*                                                                         *)
(* Every rd_thread_t owns an event queue, an rd_fifoq_t.  RdFifoq is shown *)
(* to implement a FIFO of pointers, so here an event queue is a sequence.  *)
(* A dispatching thread loops in rd_thread_dispatch() around               *)
(* rd_thread_poll(100); its state is also written, without a lock, by the  *)
(* threads that kill it.                                                   *)
(*                                                                         *)
(* The application creates threads, adds events and kills threads.  It     *)
(* gives up a handle when it asks the thread to exit, because the thread   *)
(* frees its own handle.                                                   *)
(***************************************************************************)
EXTENDS Integers, Sequences, FiniteSets

CONSTANTS
    Rdts,          \* thread handles (rd_thread_t objects)
    Main,          \* the handle made by rd_thread_init()
    NoRdt,         \* a NULL handle
    Events,        \* events; each is added at most once
    ExitEvents,    \* the ones whose callback calls rd_thread_exit()
    NoEvent,
    Routines,      \* what start routines do: see Start
    CreateMayFail, \* whether pthread_create() can fail
    MaxBatch       \* bound: largest 'threadcount' of rd_threads_create()

ASSUME ConstAssumption ==
    /\ Main \in Rdts
    /\ NoRdt \notin Rdts
    /\ ExitEvents \subseteq Events
    /\ NoEvent \notin Events
    /\ Routines \subseteq {"dispatch", "return", "exit_return"}
    /\ CreateMayFail \in BOOLEAN
    /\ MaxBatch \in Nat

VARIABLES
    handle,     \* memory of each rd_thread_t: "none", "live" or "freed"
    rdt_state,
    rdt_start,  \* the start routine
    eventq,     \* rdt_eventq, oldest event first
    pc,         \* where each thread is
    cur,        \* the event a thread has popped and not yet released
    owned,      \* handles the application may still use
    creating,   \* handle rd_thread_create() has started and not returned
    joining,    \* handle the application waits for in rd_thread_kill_join()
    batch,      \* progress of rd_threads_create()
    fault,      \* "none", "assert" or "uaf" (use of a freed handle)
    added,      \* history: events added to each thread
    called,     \* history: events whose callback each thread has begun
    late        \* history: callbacks begun since the thread was EXITING

threadVars == <<handle, rdt_state, rdt_start, pc>>
appVars == <<owned, creating, joining, batch>>
eventVars == <<eventq, cur, added, called, late>>
vars == <<threadVars, appVars, eventVars, fault>>

\* No call of rd_threads_create() is in progress.
NoBatch == [left |-> 0, failed |-> 0, made |-> 0, ret |-> 0, count |-> 0]

TypeOK ==
    /\ handle \in [Rdts -> {"none", "live", "freed"}]
    /\ rdt_state \in [Rdts -> {"NONE", "RUNNING", "EXITING"}]
    /\ rdt_start \in [Rdts -> Routines \cup {"none", "main"}]
    /\ eventq \in [Rdts -> Seq(Events)]
    /\ pc \in [Rdts -> {"none", "born", "test", "pop", "wait", "call", "after",
                        "exit", "ended"}]
    /\ cur \in [Rdts -> Events \cup {NoEvent}]
    /\ owned \in [Rdts -> BOOLEAN]
    /\ creating \in Rdts \cup {NoRdt}
    /\ joining \in Rdts \cup {NoRdt}
    /\ batch \in [left : 0..MaxBatch, failed : 0..MaxBatch, made : 0..MaxBatch,
                  ret : -1..MaxBatch, count : 0..MaxBatch]
    /\ fault \in {"none", "assert", "uaf"}
    /\ added \in [Rdts -> Seq(Events)]
    /\ called \in [Rdts -> Seq(Events)]
    /\ late \in [Rdts -> Nat]

\* After rd_thread_init(): the main thread has a handle and is about to call
\* rd_thread_dispatch().
Init ==
    /\ handle = [r \in Rdts |-> IF r = Main THEN "live" ELSE "none"]
    /\ rdt_state = [r \in Rdts |-> IF r = Main THEN "RUNNING" ELSE "NONE"]
    /\ rdt_start = [r \in Rdts |-> IF r = Main THEN "main" ELSE "none"]
    /\ eventq = [r \in Rdts |-> <<>>]
    /\ pc = [r \in Rdts |-> IF r = Main THEN "test" ELSE "none"]
    /\ cur = [r \in Rdts |-> NoEvent]
    /\ owned = [r \in Rdts |-> r = Main]
    /\ creating = NoRdt
    /\ joining = NoRdt
    /\ batch = NoBatch
    /\ fault = "none"
    /\ added = [r \in Rdts |-> <<>>]
    /\ called = [r \in Rdts |-> <<>>]
    /\ late = [r \in Rdts |-> 0]

-----------------------------------------------------------------------------
(***************************************************************************)
(* The application.                                                        *)
(***************************************************************************)

\* The application thread is not inside a call of its own.
AppFree == fault = "none" /\ creating = NoRdt /\ joining = NoRdt

\* rd_thread_create0() and the pthread_create() of rd_thread_create().  When
\* pthread_create() fails, rd_thread_destroy() is called on a handle that is
\* RUNNING, and its assertion stops the program.
StartThread(r, routine) ==
    /\ handle[r] = "none"
    /\ handle' = [handle EXCEPT ![r] = "live"]
    /\ rdt_state' = [rdt_state EXCEPT ![r] = "RUNNING"]
    /\ rdt_start' = [rdt_start EXCEPT ![r] = routine]
    /\ \/ /\ pc' = [pc EXCEPT ![r] = "born"]
          /\ creating' = r
          /\ UNCHANGED fault
       \/ /\ CreateMayFail
          /\ fault' = "assert"
          /\ UNCHANGED <<pc, creating>>
    /\ UNCHANGED <<owned, joining, eventVars>>

\* rd_thread_create() by itself.
Create(r, routine) ==
    /\ AppFree
    /\ batch.left = 0
    /\ StartThread(r, routine)
    /\ UNCHANGED batch

\* rd_threads_create(..., n, ...) begins.
BatchBegin(n) ==
    /\ AppFree
    /\ batch.left = 0
    /\ batch' = [left |-> n, failed |-> 0, made |-> 0, ret |-> 0, count |-> n]
    /\ UNCHANGED <<threadVars, owned, creating, joining, eventVars, fault>>

\* One iteration of its loop calls rd_thread_create().
BatchCreate(r, routine) ==
    /\ AppFree
    /\ batch.left > 0
    /\ StartThread(r, routine)
    /\ UNCHANGED batch

\* if (!rd_thread_create(...)) failed++: zero is success.
FailedAfter(result) == IF result = 0 THEN batch.failed + 1 ELSE batch.failed

\* What rd_threads_create() returns.
BatchResult(failed) == IF failed = batch.count THEN -1 ELSE batch.count - failed

\* The end of rd_thread_create(): it reads rdt_name for prctl(), which fails
\* if the new thread has freed the handle, and returns 0.  The application
\* uses the handles it asked for; rd_threads_create() asks for none.
CreateReturn ==
    /\ fault = "none"
    /\ creating # NoRdt
    /\ creating' = NoRdt
    /\ fault' = IF handle[creating] = "freed" THEN "uaf" ELSE "none"
    /\ owned' = [owned EXCEPT ![creating] =
                    batch.left = 0 /\ rdt_start[creating] = "dispatch"]
    /\ batch' = IF batch.left = 0 THEN batch
                ELSE [batch EXCEPT !.left = @ - 1, !.made = @ + 1,
                                   !.failed = FailedAfter(0),
                                   !.ret = IF batch.left = 1
                                           THEN BatchResult(FailedAfter(0))
                                           ELSE 0]
    /\ UNCHANGED <<threadVars, joining, eventVars>>

\* rd_thread_event_add() and rd_thread_func_call().  A handle the thread
\* will free is given up with the event that makes the thread exit.
EventAdd(r, e) ==
    /\ fault = "none"
    /\ owned[r]
    /\ \A u \in Rdts : \A i \in DOMAIN added[u] : added[u][i] # e
    /\ fault' = IF handle[r] = "freed" THEN "uaf" ELSE "none"
    /\ eventq' = [eventq EXCEPT ![r] = Append(@, e)]
    /\ added' = [added EXCEPT ![r] = Append(@, e)]
    /\ owned' = [owned EXCEPT ![r] = r = Main \/ e \notin ExitEvents]
    /\ UNCHANGED <<threadVars, creating, joining, batch, cur, called, late>>

\* rd_thread_kill() and, when join, rd_thread_kill_join().
Kill(r, join) ==
    /\ AppFree
    /\ batch.left = 0
    /\ r # Main
    /\ owned[r]
    /\ fault' = IF handle[r] = "freed" THEN "uaf" ELSE "none"
    /\ rdt_state' = [rdt_state EXCEPT ![r] = "EXITING"]
    /\ owned' = [owned EXCEPT ![r] = FALSE]
    /\ joining' = IF join THEN r ELSE NoRdt
    /\ UNCHANGED <<handle, rdt_start, pc, creating, batch, eventVars>>

\* pthread_join() returns.
JoinReturn ==
    /\ fault = "none"
    /\ joining # NoRdt
    /\ pc[joining] = "ended"
    /\ joining' = NoRdt
    /\ UNCHANGED <<threadVars, owned, creating, batch, eventVars, fault>>

-----------------------------------------------------------------------------
(***************************************************************************)
(* A thread.                                                               *)
(***************************************************************************)
At(r, where) == fault = "none" /\ pc[r] = where
Goto(r, where) == pc' = [pc EXCEPT ![r] = where]

\* rd_thread_exit(), called by the thread itself.
ThreadExit(r) ==
    /\ fault' = IF rdt_state[r] \in {"RUNNING", "EXITING"} THEN "none" ELSE "assert"
    /\ rdt_state' = [rdt_state EXCEPT ![r] = "EXITING"]

\* rd_thread_start_routine() calls rdt_start, which runs
\* rd_thread_dispatch(), or returns at once, or calls rd_thread_exit() and
\* returns.
Start(r) ==
    /\ At(r, "born")
    /\ Goto(r, IF rdt_start[r] = "dispatch" THEN "test" ELSE "exit")
    /\ IF rdt_start[r] = "exit_return" THEN ThreadExit(r)
                                       ELSE UNCHANGED <<fault, rdt_state>>
    /\ UNCHANGED <<handle, rdt_start, appVars, eventVars>>

\* Variant with a fault: dispatch returns when there is nothing to do.
KeepsDispatchingIfBusy(r) == rdt_state[r] = "RUNNING" /\ eventq[r] # <<>>

KeepsDispatching(r) == rdt_state[r] = "RUNNING"

\* The loop test of rd_thread_dispatch().
DispatchTest(r) ==
    /\ At(r, "test")
    /\ Goto(r, IF KeepsDispatching(r) THEN "pop" ELSE "exit")
    /\ UNCHANGED <<handle, rdt_state, rdt_start, appVars, eventVars, fault>>

\* Variant with a fault: events are taken from the wrong end.
NextEventNewest(r) == eventq[r][Len(eventq[r])]

NextEvent(r) == Head(eventq[r])

\* rd_thread_poll(100): rd_fifoq_pop0() returns the oldest event, at once or
\* after a wakeup.
PollPop(r) ==
    /\ At(r, "pop") \/ At(r, "wait")
    /\ eventq[r] # <<>>
    /\ cur' = [cur EXCEPT ![r] = NextEvent(r)]
    /\ eventq' = [eventq EXCEPT ![r] = Tail(@)]
    /\ Goto(r, "call")
    /\ UNCHANGED <<handle, rdt_state, rdt_start, appVars, added, called, late, fault>>

\* The queue is empty: rd_fifoq_pop0() blocks.
PollBlock(r) ==
    /\ At(r, "pop")
    /\ eventq[r] = <<>>
    /\ Goto(r, "wait")
    /\ UNCHANGED <<handle, rdt_state, rdt_start, appVars, eventVars, fault>>

\* Variant with a fault: the wait has no timeout.
PollTimeoutNever(r) == FALSE /\ UNCHANGED vars

\* The timeout passes; pop0 returns NULL even if an event has just arrived.
PollTimeout(r) ==
    /\ At(r, "wait")
    /\ Goto(r, "test")
    /\ UNCHANGED <<handle, rdt_state, rdt_start, appVars, eventVars, fault>>

\* rd_thread_event_call(): the callback runs and the event is freed.  The
\* callback may be one that calls rd_thread_exit().
Callback(r) ==
    /\ At(r, "call")
    /\ called' = [called EXCEPT ![r] = Append(@, cur[r])]
    /\ late' = [late EXCEPT ![r] = IF rdt_state[r] = "EXITING" THEN @ + 1 ELSE @]
    /\ IF cur[r] \in ExitEvents THEN ThreadExit(r) ELSE UNCHANGED <<fault, rdt_state>>
    /\ Goto(r, "after")
    /\ UNCHANGED <<handle, rdt_start, appVars, eventq, cur, added>>

\* Variant with a fault: rd_thread_poll() does not look at the state.
StaysInPollAlways(r) == TRUE

\* The state rd_thread_poll() reads after a callback: stay in its loop?
StaysInPoll(r) == rdt_state[r] # "EXITING"

\* The element is released; rd_thread_poll() goes on or returns.
PollNext(r) ==
    /\ At(r, "after")
    /\ cur' = [cur EXCEPT ![r] = NoEvent]
    /\ Goto(r, IF StaysInPoll(r) THEN "pop" ELSE "test")
    /\ UNCHANGED <<handle, rdt_state, rdt_start, appVars, eventq, added, called,
                   late, fault>>

\* rd_thread_destroy(): the assertion, then the queue and the handle go.
Destroy(r) ==
    IF rdt_state[r] = "RUNNING"
    THEN fault' = "assert" /\ UNCHANGED <<handle, eventq>>
    ELSE /\ handle' = [handle EXCEPT ![r] = "freed"]
         /\ eventq' = [eventq EXCEPT ![r] = <<>>]
         /\ UNCHANGED fault

\* rd_thread_dispatch() and the start routine have returned.  Unless it is
\* the main thread it destroys its own handle, queued events included.
Exit(r) ==
    /\ At(r, "exit")
    /\ Goto(r, "ended")
    /\ IF r = Main THEN UNCHANGED <<handle, eventq, fault>> ELSE Destroy(r)
    /\ UNCHANGED <<rdt_state, rdt_start, appVars, cur, added, called, late>>

-----------------------------------------------------------------------------
ThreadStep(r) ==
    \/ Start(r) \/ DispatchTest(r) \/ PollPop(r) \/ PollBlock(r) \/ PollTimeout(r)
    \/ Callback(r) \/ PollNext(r) \/ Exit(r)

Next ==
    \/ \E r \in Rdts, routine \in Routines :
            Create(r, routine) \/ BatchCreate(r, routine)
    \/ \E n \in 1..MaxBatch : BatchBegin(n)
    \/ CreateReturn
    \/ \E r \in Rdts, e \in Events : EventAdd(r, e)
    \/ \E r \in Rdts, join \in BOOLEAN : Kill(r, join)
    \/ JoinReturn
    \/ \E r \in Rdts : ThreadStep(r)

Spec == Init /\ [][Next]_vars

\* Every thread runs: callbacks return, and a timed wait ends.
FairSpec == Spec /\ \A r \in Rdts : WF_vars(ThreadStep(r))
-----------------------------------------------------------------------------
\* The event a thread has popped and whose callback has not begun.
InHand(r) == IF pc[r] = "call" THEN <<cur[r]>> ELSE <<>>

\* Events reach their thread once and in the order they were added: what a
\* thread has called, holds and has queued is what was added to it; a
\* destroyed thread has called the first events added to it.
EventsInOrder ==
    \A r \in Rdts :
        IF handle[r] = "freed"
        THEN called[r] = SubSeq(added[r], 1, Len(called[r]))
        ELSE added[r] = called[r] \o InHand(r) \o eventq[r]

\* A thread that is told to exit begins at most one more callback, the one
\* rd_thread_poll() had already committed to, however many are queued.
OneLateCall == \A r \in Rdts : late[r] <= 1

\* pthread_create() failed for handle r, which ended the program.
CreateFailed(r) == handle[r] = "live" /\ pc[r] = "none"

\* With start routines that run rd_thread_dispatch(), creations that succeed
\* and an application that gives up a handle when it asks for the exit, no
\* handle is used after the thread freed it and no assertion fails.
NoFault ==
    (\A r \in Rdts : /\ rdt_start[r] \in {"none", "main", "dispatch"}
                     /\ ~CreateFailed(r))
        => fault = "none"

\* A thread that was killed, or called rd_thread_exit(), ends, although the
\* kill signals nothing and the thread may be blocked in its event queue.
\* (If nothing else aborts the program.)
ExitingThreadEnds ==
    \A r \in Rdts : (rdt_state[r] = "EXITING") ~> (pc[r] = "ended" \/ fault # "none")

\* An event queued on a dispatching thread is called unless the thread is
\* told to exit or the program aborts first.
EventsAreServed ==
    \A r \in Rdts, e \in Events :
        (\E i \in DOMAIN eventq[r] : eventq[r][i] = e)
            ~> \/ \E i \in DOMAIN called[r] : called[r][i] = e
               \/ rdt_state[r] = "EXITING"
               \/ fault # "none"

\* rdthread.h:105, rd_thread_create() "returns its rd_thread_t handle": the
\* handle is still there when rd_thread_create() finishes.
HandleSurvivesCreate == fault # "uaf"
=============================================================================
