------------------------------ MODULE RdTimer ------------------------------
(***************************************************************************)
(* Timers: rdtimer.c and rdtimer.h.                                        *)
(*                                                                         *)
(* Armed timers are kept in rd_timers, earliest first.  The timer thread   *)
(* sleeps on rd_timers_cond until rd_timers_next_ts, then moves every due  *)
(* timer's callback to the event queue of the timer's thread and rearms    *)
(* the recurring ones.  Applications start, stop and destroy timers from   *)
(* any thread, callbacks included, and callbacks run without the lock, so  *)
(* a timer can be destroyed while calls of it are queued or running:       *)
(* rt_called counts those, and the last one frees the timer.               *)
(*                                                                         *)
(* All list operations hold rd_timers_lock.  The timer thread's iteration  *)
(* is split into steps because the clock moves meanwhile; it keeps the     *)
(* lock from RunBegin to RunWait.  The clock counts abstract units from 1, *)
(* so that rt_next = 0 means "not armed" as in the code.                   *)
(***************************************************************************)
EXTENDS Integers, Sequences, FiniteSets

CONSTANTS
    Timers,     \* rd_timer_t objects; each is allocated at most once
    NoTimer,
    Threads,    \* threads that timers call back in
    Intervals,  \* intervals passed to rd_timer_start() and rd_timer_add()
    Hour,       \* how long the timer thread sleeps when no timer is armed
    IntHalf,    \* 2^31 microseconds in clock units: the range of an int
    MaxClock    \* bound: the clock stops here

ASSUME ConstAssumption ==
    /\ NoTimer \notin Timers
    /\ Threads # {}
    /\ Intervals \subseteq Nat
    /\ Hour \in Nat \ {0}
    /\ IntHalf \in Nat \ {0}
    /\ MaxClock \in Nat

VARIABLES
    clock,        \* rd_clock()
    rd_timers,    \* list of armed timers
    next_ts,      \* rd_timers_next_ts
    mem,          \* memory of each timer: "none", "live" or "freed"
    rt_type,
    rt_thread,
    rt_interval,
    rt_next,
    rt_called,
    rt_atomic,    \* RD_TIMER_F_ATOMIC
    rt_removed,   \* RD_TIMER_F_REMOVED
    owned,        \* timers the application may still use
    tpc,          \* where the timer thread is in rd_timers_run()
    now,          \* its reading of the clock
    callouts,     \* timers popped in this iteration
    deadline,     \* the timeout it passed to rd_cond_timedwait()
    evq,          \* queued rd_timer_call events of each thread
    running,      \* the timer whose callback each thread is in
    fault         \* TRUE once rd_timer_call() asserted or used freed memory

listVars == <<rd_timers, next_ts>>
attrVars == <<mem, rt_type, rt_thread, rt_interval, rt_atomic, rt_removed, owned>>
runVars == <<now, callouts, deadline>>
eventVars == <<evq, running>>
vars == <<clock, listVars, attrVars, rt_next, rt_called, tpc, runVars, eventVars, fault>>

TypeOK ==
    /\ clock \in Nat \ {0}
    /\ rd_timers \in Seq(Timers)
    /\ next_ts \in Nat
    /\ mem \in [Timers -> {"none", "live", "freed"}]
    /\ rt_type \in [Timers -> {"ONCE", "RECURR"}]
    /\ rt_thread \in [Timers -> Threads]
    /\ rt_interval \in [Timers -> Nat]
    /\ rt_next \in [Timers -> Nat]
    /\ rt_called \in [Timers -> Nat]
    /\ rt_atomic \in [Timers -> BOOLEAN]
    /\ rt_removed \in [Timers -> BOOLEAN]
    /\ owned \in [Timers -> BOOLEAN]
    /\ tpc \in {"wake", "pop", "restart", "wait"}
    /\ now \in Nat
    /\ callouts \in Seq(Timers)
    /\ deadline \in Nat
    /\ evq \in [Threads -> Seq(Timers)]
    /\ running \in [Threads -> Timers \cup {NoTimer}]
    /\ fault \in BOOLEAN

\* rd_timers_init(): the timer thread is started, nothing is armed and
\* rd_timers_next_ts is still zero.
Init ==
    /\ clock = 1
    /\ rd_timers = <<>>
    /\ next_ts = 0
    /\ mem = [t \in Timers |-> "none"]
    /\ rt_type = [t \in Timers |-> "ONCE"]
    /\ rt_thread = [t \in Timers |-> CHOOSE th \in Threads : TRUE]
    /\ rt_interval = [t \in Timers |-> 0]
    /\ rt_next = [t \in Timers |-> 0]
    /\ rt_called = [t \in Timers |-> 0]
    /\ rt_atomic = [t \in Timers |-> FALSE]
    /\ rt_removed = [t \in Timers |-> FALSE]
    /\ owned = [t \in Timers |-> FALSE]
    /\ tpc = "wake"
    /\ now = 0
    /\ callouts = <<>>
    /\ deadline = 0
    /\ evq = [th \in Threads |-> <<>>]
    /\ running = [th \in Threads |-> NoTimer]
    /\ fault = FALSE

-----------------------------------------------------------------------------
(***************************************************************************)
(* What the functions do to the list and to rd_timers_next_ts.  A list     *)
(* state is a record: the list, next_ts, and whether rd_timers_cond was    *)
(* signalled on the way.                                                   *)
(***************************************************************************)

\* An unsigned int product and the int rd_timer_cmp() returns: both keep the
\* low 32 bits of their operands, whatever the clock's unit.
Unsigned(n) == n % (2 * IntHalf)
AsInt(n) == IF Unsigned(n) < IntHalf THEN Unsigned(n) ELSE Unsigned(n) - 2 * IntHalf

rd_timer_cmp(a, b) == AsInt(a - b)

\* Variant with a fault: the list is kept latest first.
InsertPosReversed(list, next) ==
    CHOOSE i \in 1..(Len(list) + 1) :
        /\ \A j \in 1..(i - 1) : rd_timer_cmp(next, rt_next[list[j]]) <= 0
        /\ i <= Len(list) => rd_timer_cmp(next, rt_next[list[i]]) > 0

\* LIST_INSERT_SORTED: in front of the first timer that is not earlier.
InsertPos(list, next) ==
    CHOOSE i \in 1..(Len(list) + 1) :
        /\ \A j \in 1..(i - 1) : rd_timer_cmp(next, rt_next[list[j]]) > 0
        /\ i <= Len(list) => rd_timer_cmp(next, rt_next[list[i]]) <= 0

InsertedAt(list, t, i) ==
    [j \in 1..(Len(list) + 1) |-> IF j < i THEN list[j]
                                  ELSE IF j = i THEN t ELSE list[j - 1]]

\* LIST_REMOVE: the list without its element t.
Without(list, t) ==
    LET p == CHOOSE i \in DOMAIN list : list[i] = t
    IN  [j \in 1..(Len(list) - 1) |-> IF j < p THEN list[j] ELSE list[j + 1]]

\* rd_timers_next_update(): the time it stores for a list.
NextUpdate(list) == IF list = <<>> THEN clock + Hour ELSE rt_next[Head(list)]

\* Variant with a fault: a timer is left on the list when it is stopped.
StoppedNot(t, called) == [list |-> rd_timers, ts |-> next_ts, sig |-> FALSE]

\* rd_timer_stop0(), given rt_called at the call.
Stopped(t, called) ==
    LET first == called = 0 /\ rd_timers[1] = t
        rest == Without(rd_timers, t)
    IN  IF rt_next[t] = 0
        THEN [list |-> rd_timers, ts |-> next_ts, sig |-> FALSE]
        ELSE [list |-> rest,
              ts |-> IF first THEN NextUpdate(rest) ELSE next_ts,
              sig |-> first]

\* rt_next as rd_timer_start0() computes it.
FiringTime(interval) == clock + Unsigned(interval)

\* rd_timer_start0() after rd_timer_stop0() left the list state s.
StartedFrom(s, t, next, update) ==
    IF next < s.ts
    THEN [list |-> <<t>> \o s.list,
          ts |-> IF update THEN next ELSE s.ts,
          sig |-> s.sig \/ update]
    ELSE [s EXCEPT !.list = InsertedAt(s.list, t, InsertPos(s.list, next))]

\* Variant with a fault: the caller's request to update next_ts is ignored.
StartedNoUpdate(t, interval, update) ==
    StartedFrom(Stopped(t, rt_called[t]), t, FiringTime(interval), FALSE)

\* rd_timer_start0().
Started(t, interval, update) ==
    StartedFrom(Stopped(t, rt_called[t]), t, FiringTime(interval), update)

\* The timer thread sees the signal if it is blocked.
SetList(s) ==
    /\ rd_timers' = s.list
    /\ next_ts' = s.ts
    /\ tpc' = IF s.sig /\ tpc = "wait" THEN "wake" ELSE tpc

\* rd_timers_lock is free: the timer thread holds it during an iteration.
Unlocked == ~fault /\ tpc \in {"wake", "wait"}

-----------------------------------------------------------------------------
(***************************************************************************)
(* Applications.                                                           *)
(***************************************************************************)

\* rd_timer_new().
TimerNew(t, type, th) ==
    /\ ~fault
    /\ mem[t] = "none"
    /\ mem' = [mem EXCEPT ![t] = "live"]
    /\ rt_type' = [rt_type EXCEPT ![t] = type]
    /\ rt_thread' = [rt_thread EXCEPT ![t] = th]
    /\ owned' = [owned EXCEPT ![t] = TRUE]
    /\ UNCHANGED <<clock, listVars, rt_interval, rt_next, rt_called, rt_atomic,
                   rt_removed, tpc, runVars, eventVars, fault>>

\* rd_timer_add(): the application keeps no reference.
TimerAdd(t, type, interval, th) ==
    /\ Unlocked
    /\ mem[t] = "none"
    /\ mem' = [mem EXCEPT ![t] = "live"]
    /\ rt_type' = [rt_type EXCEPT ![t] = type]
    /\ rt_thread' = [rt_thread EXCEPT ![t] = th]
    /\ rt_atomic' = [rt_atomic EXCEPT ![t] = TRUE]
    /\ rt_interval' = [rt_interval EXCEPT ![t] = interval]
    /\ SetList(Started(t, interval, TRUE))
    /\ rt_next' = [rt_next EXCEPT ![t] = FiringTime(interval)]
    /\ UNCHANGED <<clock, rt_called, rt_removed, owned, runVars, eventVars, fault>>

\* rd_timer_start().
TimerStart(t, interval) ==
    /\ Unlocked
    /\ owned[t]
    /\ rt_interval' = [rt_interval EXCEPT ![t] = interval]
    /\ SetList(Started(t, interval, TRUE))
    /\ rt_next' = [rt_next EXCEPT ![t] = FiringTime(interval)]
    /\ UNCHANGED <<clock, mem, rt_type, rt_thread, rt_called, rt_atomic, rt_removed,
                   owned, runVars, eventVars, fault>>

\* rd_timer_stop().
TimerStop(t) ==
    /\ Unlocked
    /\ owned[t]
    /\ SetList(Stopped(t, rt_called[t]))
    /\ rt_next' = [rt_next EXCEPT ![t] = 0]
    /\ UNCHANGED <<clock, attrVars, rt_called, runVars, eventVars, fault>>

\* Variant with a fault: the timer is freed whatever rt_called says.
DestroysAlways(t, called) == TRUE

\* Variant with a fault: the timer is never freed, only marked.
DestroysNever(t, called) == FALSE

\* Whether rd_timer_destroy0() frees the timer or marks it removed.
Destroys(t, called) == called = 0

\* rd_timer_destroy0(), given rt_called at the call.
Destroy0(t, called) ==
    /\ SetList(Stopped(t, called))
    /\ rt_next' = [rt_next EXCEPT ![t] = 0]
    /\ IF Destroys(t, called)
       THEN mem' = [mem EXCEPT ![t] = "freed"] /\ UNCHANGED rt_removed
       ELSE rt_removed' = [rt_removed EXCEPT ![t] = TRUE] /\ UNCHANGED mem

\* rd_timer_destroy(); the application does not use the timer afterwards.
TimerDestroy(t) ==
    /\ Unlocked
    /\ owned[t]
    /\ owned' = [owned EXCEPT ![t] = FALSE]
    /\ Destroy0(t, rt_called[t])
    /\ UNCHANGED <<clock, rt_type, rt_thread, rt_interval, rt_atomic, rt_called,
                   runVars, eventVars, fault>>

-----------------------------------------------------------------------------
(***************************************************************************)
(* rd_timers_run().                                                        *)
(***************************************************************************)

\* The wait ends: deadline, signal (SetList) or a spurious wakeup.
RunTimeout ==
    /\ ~fault /\ tpc = "wait" /\ deadline <= clock
    /\ tpc' = "wake"
    /\ UNCHANGED <<clock, listVars, attrVars, rt_next, rt_called, runVars, eventVars, fault>>

RunSpurious ==
    /\ ~fault /\ tpc = "wait"
    /\ tpc' = "wake"
    /\ UNCHANGED <<clock, listVars, attrVars, rt_next, rt_called, runVars, eventVars, fault>>

\* Start of an iteration, with the lock.
RunBegin ==
    /\ ~fault /\ tpc = "wake"
    /\ now' = clock
    /\ tpc' = "pop"
    /\ UNCHANGED <<clock, listVars, attrVars, rt_next, rt_called, callouts, deadline,
                   eventVars, fault>>

\* Variant with a fault: a timer is due one unit late.
HeadDueLate == rd_timers # <<>> /\ rt_next[Head(rd_timers)] < now

HeadDue == rd_timers # <<>> /\ rt_next[Head(rd_timers)] <= now

\* A due timer leaves the list and its call is queued on its thread.
RunPop ==
    /\ ~fault /\ tpc = "pop" /\ HeadDue
    /\ LET t == Head(rd_timers)
       IN  /\ rd_timers' = Tail(rd_timers)
           /\ rt_next' = [rt_next EXCEPT ![t] = 0]
           /\ callouts' = Append(callouts, t)
           /\ rt_called' = [rt_called EXCEPT ![t] = @ + 1]
           /\ evq' = [evq EXCEPT ![rt_thread[t]] = Append(@, t)]
    /\ UNCHANGED <<clock, next_ts, attrVars, tpc, now, deadline, running, fault>>

RunPopEnd ==
    /\ ~fault /\ tpc = "pop" /\ ~HeadDue
    /\ tpc' = "restart"
    /\ UNCHANGED <<clock, listVars, attrVars, rt_next, rt_called, runVars, eventVars, fault>>

\* The next timer called out is rearmed if it is a recurring one.
RunRestart ==
    /\ ~fault /\ tpc = "restart" /\ callouts # <<>>
    /\ callouts' = Tail(callouts)
    /\ LET t == Head(callouts)
       IN  IF rt_type[t] = "RECURR"
           THEN /\ SetList(Started(t, rt_interval[t], FALSE))
                /\ rt_next' = [rt_next EXCEPT ![t] = FiringTime(rt_interval[t])]
           ELSE UNCHANGED <<listVars, tpc, rt_next>>
    /\ UNCHANGED <<clock, attrVars, rt_called, now, deadline, eventVars, fault>>

\* rd_timers_next_update() and the wait, which releases the lock.
RunWait ==
    /\ ~fault /\ tpc = "restart" /\ callouts = <<>>
    /\ next_ts' = NextUpdate(rd_timers)
    /\ deadline' = next_ts'
    /\ tpc' = "wait"
    /\ UNCHANGED <<clock, rd_timers, attrVars, rt_next, rt_called, now, callouts,
                   eventVars, fault>>

-----------------------------------------------------------------------------
(***************************************************************************)
(* rd_timer_call() on the timer's thread.                                  *)
(***************************************************************************)

\* The event is popped, the assertion is checked, the callback begins.
CallBegin(th) ==
    /\ ~fault
    /\ running[th] = NoTimer
    /\ evq[th] # <<>>
    /\ running' = [running EXCEPT ![th] = Head(evq[th])]
    /\ evq' = [evq EXCEPT ![th] = Tail(@)]
    /\ fault' = (mem[Head(evq[th])] # "live" \/ rt_called[Head(evq[th])] = 0)
    /\ UNCHANGED <<clock, listVars, attrVars, rt_next, rt_called, tpc, runVars>>

\* Variant with a fault: the call is never counted off.
CalledOffNever(t) == rt_called[t]

\* rd_atomic_sub(&rt->rt_called, 1).
CalledOff(t) == rt_called[t] - 1

\* The callback has returned: the lock is taken, the call is counted off and
\* a timer that was waiting for it is destroyed.
CallEnd(th) ==
    /\ Unlocked
    /\ running[th] # NoTimer
    /\ LET t == running[th]
           called == CalledOff(t)
       IN  /\ rt_called' = [rt_called EXCEPT ![t] = called]
           /\ fault' = (mem[t] # "live")
           /\ IF \/ rt_removed[t] /\ called = 0
                 \/ rt_type[t] = "ONCE" /\ rt_atomic[t]
              THEN Destroy0(t, called)
              ELSE UNCHANGED <<listVars, tpc, rt_next, mem, rt_removed>>
    /\ running' = [running EXCEPT ![th] = NoTimer]
    /\ UNCHANGED <<clock, rt_type, rt_thread, rt_interval, rt_atomic, owned, runVars, evq>>

\* The monotonic clock.
Tick ==
    /\ ~fault
    /\ clock < MaxClock
    /\ clock' = clock + 1
    /\ UNCHANGED <<listVars, attrVars, rt_next, rt_called, tpc, runVars, eventVars, fault>>

-----------------------------------------------------------------------------
TimerThread == RunTimeout \/ RunBegin \/ RunPop \/ RunPopEnd \/ RunRestart \/ RunWait

Types == {"ONCE", "RECURR"}

Next ==
    \/ \E t \in Timers, type \in Types, th \in Threads :
        \/ TimerNew(t, type, th)
        \/ \E i \in Intervals : TimerAdd(t, type, i, th)
    \/ \E t \in Timers :
        \/ \E i \in Intervals : TimerStart(t, i)
        \/ TimerStop(t)
        \/ TimerDestroy(t)
    \/ TimerThread
    \/ RunSpurious
    \/ \E th \in Threads : CallBegin(th) \/ CallEnd(th)
    \/ Tick

Spec == Init /\ [][Next]_vars

\* The timer thread and the called threads run; callbacks return.  Time need
\* not pass and applications need not do anything.  CallEnd competes for the
\* lock with the timer thread's iterations, which are finite.
FairSpec ==
    /\ Spec
    /\ WF_vars(TimerThread)
    /\ \A th \in Threads : WF_vars(CallBegin(th)) /\ SF_vars(CallEnd(th))
-----------------------------------------------------------------------------
Armed(t) == rt_next[t] # 0
OnList == {rd_timers[i] : i \in DOMAIN rd_timers}

\* rd_timers holds exactly the armed timers, each once, earliest first.  The
\* timer thread only ever looks at the first one.
ListSorted ==
    /\ \A t \in Timers : Armed(t) <=> t \in OnList
    /\ \A i, j \in DOMAIN rd_timers :
        i < j => /\ rd_timers[i] # rd_timers[j]
                 /\ rt_next[rd_timers[i]] <= rt_next[rd_timers[j]]

\* The timer thread never sleeps past an armed timer: whoever arms an
\* earlier one while it waits wakes it, and rd_timers_next_ts, which decides
\* whether a new timer is an earlier one, is never later than the first.
NoOversleep ==
    /\ rd_timers # <<>> => next_ts <= rt_next[Head(rd_timers)]
    /\ tpc = "wait" => \A t \in Timers : Armed(t) => deadline <= rt_next[t]

\* Calls of timer t that are queued on thread th, by their place in the queue.
QueuedOn(th, t) == {i \in DOMAIN evq[th] : evq[th][i] = t}

\* Calls of timer t that are queued on some thread, and threads it runs on.
Queued(t) == UNION {{th} \X QueuedOn(th, t) : th \in Threads}
RunningOn(t) == {th \in Threads : running[th] = t}

Outstanding(t) == Cardinality(Queued(t)) + Cardinality(RunningOn(t))

\* rt_called, which delays the free of a destroyed timer, is the number of
\* calls that still refer to the timer.
CalledIsOutstanding == \A t \in Timers : rt_called[t] = Outstanding(t)

\* A timer on the list, queued for a call, in its callback or still in the
\* application's hands is allocated: rd_timer_call() never meets a freed
\* timer, and its assertion on rt_called holds.
NoUseAfterFree ==
    /\ ~fault
    /\ \A t \in Timers :
        (Armed(t) \/ owned[t] \/ rt_called[t] > 0) => mem[t] = "live"

\* Once rd_timer_destroy() has returned the timer is never fired again;
\* only calls queued before that are still made.
NoFireAfterDestroy ==
    [][\A t \in Timers :
        (mem[t] # "none" /\ ~owned[t] /\ ~rt_atomic[t])
            => rt_called'[t] <= rt_called[t]]_vars

\* A due timer is taken off the list and called, whatever applications do.
DueTimerFires ==
    \A t \in Timers : (Armed(t) /\ rt_next[t] <= clock) ~> (rt_next[t] > clock \/ ~Armed(t))

\* A destroyed timer is freed in the end, also when it was destroyed in
\* the middle of its own callback; one-shot timers of rd_timer_add() that
\* have fired are freed as well.
DestroyedTimerFreed ==
    \A t \in Timers :
        (\/ mem[t] = "live" /\ ~owned[t] /\ ~rt_atomic[t]
         \/ rt_atomic[t] /\ rt_type[t] = "ONCE" /\ rt_called[t] > 0)
            ~> (mem[t] = "freed")

\* rdtimer.c:119, "This timer will be the next one to fire", and the "sorted
\* list insertion" of rdtimer.c:124: the first timer is the earliest one.
HeadIsEarliest ==
    \A t \in OnList : rt_next[Head(rd_timers)] <= rt_next[t]
=============================================================================
