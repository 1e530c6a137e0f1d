# A TLA+ verification of librd

librd is a C library of building blocks for threaded programs: queues, threads
with event queues, timers, an I/O thread, memory contexts, containers, buffers
and small utilities.  This directory models its concurrent core and those of its
sequential parts that keep state or compute something that is easy to get wrong,
checks the models with TLC and proves the central results with TLAPS.

- `RdFifoq.tla` and its friends: the thread-safe FIFO queue (`rdqueue.c`)
- `RdThread.tla`: threads and the events they are sent (`rdthread.c`, `rdevent.c`)
- `RdTimer.tla`: timers and the timer thread (`rdtimer.c`)
- `RdIoThread.tla`: the I/O thread, its handles and workers (`rdiothread.c`)
- `RdMemctx.tla`: memory contexts (`rdmem.c`)
- `RdAvl.tla`: AVL trees (`rdavl.c`)
- `RdBuf.tla`: chained buffers and their serialization (`rdbuf.c`)
- `RdSysqueue.tla`: linked lists with their pointers (`rdsysqueue.h`)
- `RdLru.tla`: LRU lists on top of them (`rdlru.c`)
- `RdEncoding.tla`: variable-length integers and hexadecimal text (`rdencoding.c`)
- `RdBits.tla`, `RdBitvec.tla`: bit vectors and their use as sets (`rdbits.c`)
- `RdAvg.tla`: rates over a ring of periods (`rdavg.c`)
- `RdOpt.tla`: the command line parser, on top of `RdBits` (`rdopt.c`)
- `RdStrings.tla`: thread-local strings and scans of sized strings (`rdstring.c`)
- `RdAddr.tla`: texts and lists of addresses (`rdaddr.c`, `rdrand.c`)

A module `XProofs.tla` holds the theorems about `X.tla`: `RdFifoqProofs`,
`RdThreadProofs`, `RdTimerProofs`, `RdIoThreadProofs`.  `RdContainersProofs` is about
`RdSysqueue` and `RdLru`, `RdMemoryProofs` about `RdBuf` and `RdMemctx`,
`RdServicesProofs` about `RdAvg`, `RdBitvec` and `RdOpt`, and `RdStringsProofs` about
`RdStrings`, `RdAddr` and `RdEncoding`.

`MCRdLibrary.tla` puts the sequential parts side by side; the remaining `MC*`
modules give one module its constants.

`PROJECT.json` holds the machine-readable part: components, runs, the map from
definitions to source lines, the hazards of the code, the findings and theorems.

To run: `tlc -config MCRdFifoq_safety.cfg MCRdFifoq`, and `tlapm RdFifoqProofs.tla`.

## Inventory

How the parts interact: the queue is the bottom layer.  Every `rd_thread_t` owns
one (`rdt_eventq`) and dispatches the events other threads put on it.  The timer
thread sends each due timer's callback, as such an event, to the thread that
owns the timer.  The I/O thread keeps worker threads and hands them ready file
descriptors.  The other parts are used by one thread at a time and only share
the allocator and thread-local data.

| Part | State | Operations | What is hard, what must hold |
|---|---|---|---|
| `rdqueue` FIFO queue | element list, count, limit, drop policy, element reference counts, mutex and condition | init, destroy, set_max_size, add (may purge), pop, pop_wait, pop_timedwait, release | blocked threads, timeouts racing additions, lost wakeups, element lifetime.  FIFO order, bounded length, no lost wakeup, one owner for each element |
| `rdthread` threads | handle, run state, event queue | init, create, threads_create, dispatch, poll, exit, kill, kill_join, destroy | the thread frees its own handle; the state is written by others without a lock.  Exit is noticed, no handle is used after it is freed |
| `rdevent` events | event objects | add, call, func_call | order of events, events of a thread that exits |
| `rdtimer` timers | sorted list of armed timers, next wakeup, per timer state and call count | new, add, start, stop, destroy, the timer thread, call | the clock moves between steps, callbacks run without the lock, a timer is destroyed while it is called.  Sorted list, no oversleeping, no use after free |
| `rdiothread` I/O thread | list of handles, epoll set, worker pool, reference counts | add, del, the epoll loop, worker events | handle deleted while a worker runs, pool limit, failure paths |
| `rdsysqueue` lists | heads and links: TAILQ, LIST, SIMPLEQ | insert at every place, sorted insertion, remove, move, concatenate | pointers to pointers that outlive an element.  Every list is reachable from both ends |
| `rdlru` LRU list | list, count | push, pop (oldest), shift (youngest), destroy | used as the worker pool.  Entries come back in order, each once |
| `rdmem` memory contexts | counters, list of allocations, lock | init, destroy, alloc, free with or without a size, freeall, calloc_struct | counters and list must match the live allocations for every mix of frees; sizes cut to 32 bits |
| `rdavl` AVL tree | tree, optional lock | insert, remove, find, foreach | balance and order under rotation.  It behaves like a dictionary |
| `rdbuf` buffers | lists of buffers, their lengths and memory | append, prepend, recv, sprintf, insert, move, destroy, serialize | reuse of the last buffer, byte counts, short writes.  Nothing is overwritten, lengths agree |
| `rdencoding` | none | varints, hexadecimal text | a value that arrives in pieces, the longest value, buffers that just suffice.  What is read is what was written |
| `rdbits` bit vectors | words, greatest bit | set, reset, test, first, last | word boundaries.  It is a set |
| `rdavg` averages | ring of periods, index, start and end | put, roll over, read | period boundary, gaps, the ring wrapping.  A value is in one period, the right one |
| `rdopt` option parser | argument looked at, options seen, groups | parse | exclusive groups, missing and attached values, required options.  Success means every argument was used |
| `rdstring` | thread-local ring of strings | tsprintf, cat; scan, span, compare | reuse of the ring, shrinking, failure.  The last few strings are intact |
| `rdaddr` | ring of texts; address list, cursor | to text, split, resolve, next | the colon of a service among those of IPv6, the cursor at the end.  Texts read back; every address gets its turn |
| `rdrand` | none | jitter, shuffle | `rd_array_shuffle()` is part of `RdAddr`, with `rd_jitter()` as it calls it (`low` is 0); the wrappers of the generator are not modelled |
| `rdlog` | debug context stack | enter and leave | not modelled, see the end |
| `rdalert` | registered callbacks, lock | set, add, alert | callbacks under the lock; not modelled |
| `rdgz`, `rdfile`, `rdio`, `rdcrc32`, `rdunits`, `rdfloat`, `rdsignal`, `rd` | little or none | wrappers of system calls and tables | not modelled, see the end |

## Plan

1. `RdFifoqSpec`, `RdFifoq`: the queue, its abstract specification, refinement. *Done.*
2. `RdFifoqProofs`: the queue proved correct, and its refinement. *Done.*
3. `RdThread`: creation, dispatch, kill and destruction on top of the FIFO. *Done.*
4. `RdTimer`: the timer thread and timer lifetime. *Done.*
5. `RdIoThread`: handle references, worker pool, failure paths. *Done.*
6. `RdAvl`: insertion and removal as recursive operators, against a dictionary
   (checked only: recursion over trees).  `RdBuf`: buffers against the bytes given.
   `RdMemctx`: counters against the set of live allocations. *Done.*
7. `RdSysqueue`, `RdLru`, `RdOpt`, `RdAvg`, `RdEncoding`, `RdBits`, `RdStrings`,
   `RdAddr`: sequential algorithms against reference definitions. *Done.*
8. `RdThreadProofs`, `RdTimerProofs`, `RdIoThreadProofs`, `RdStringsProofs`,
   `RdServicesProofs`, `RdContainersProofs`, `RdMemoryProofs`: the safety properties of
   these parts. *Done.*
9. A composition of `RdThread` and `RdTimer`: timers whose thread exits.
10. The arithmetic of `rd_cond_timedwait_ms()`.

## The models

Common conventions.  Code that runs under one lock without waiting is one
action.  Variables keep the names of the C fields (`rfq_cnt`, `rt_next`,
`rdt_state`); program counters (`pc`, `tpc`) say where a thread is; `fault`
records a failed assertion or a use of freed memory, after which nothing
happens.  Histories (`added`, `called`, `late`) exist for the properties only.
Names, payloads and callbacks' effects are model values.  Allocation succeeds:
the library does not test for failure in these parts.

Definitions commented "Variant with a fault" are deliberately wrong versions of
the definition that follows them: a dropped guard, a missing reset.  Nothing uses
them.  Put in place of the right definition each makes TLC report the property
PROJECT.json names with it under "mutants", which shows that the property depends
on that piece of the code.

### RdFifoq - rdqueue.c, rdqueue.h

Threads are of two kinds: workers in the loop that the header documents (wait for
an element, work, release it) and callers that add, poll, wait with a timeout and
change the limit.  `Add`, `PopNowait`, `PopWait`, `Release`, `SetMaxSize`,
`Destroy` and `ReInit` are the calls; `Block`, `Resume`, `Spurious`, `Expire` and
`ReturnTimeout` are what happens inside `rd_fifoq_pop0()`.  A condition
variable wait can end by a signal, spuriously, or by its timeout, and a timed-out
thread leaves without looking at the queue.  The list, the count, the reference
counts and the pointers of elements are separate variables: that they agree
is a theorem, not a modelling decision.  A freed element can be allocated again at
once.  `Destroy` requires that no thread is in a call, as the code does.

`RdFifoqSpec` is what an application may rely on: a queue of pointers with a limit
and a drop policy.  The refinement mapping reads the pointers of the queued
elements (`AbsQueue`) and of the one each thread has popped (`AbsGot`).

### RdThread - rdthread.c, rdevent.c

The event queue is a sequence, as the refinement of RdFifoq justifies.  A thread
goes through `Start`, `DispatchTest`, `PollPop` or `PollBlock` and `PollTimeout`,
`Callback`, `PollNext`, and `Exit`, which frees its own handle.  The application
creates threads one by one or with `rd_threads_create()` (`BatchBegin`,
`BatchCreate`), adds events, kills, and joins.  `CreateReturn` is separate from
the creation because the new thread may run, and end, in between.  The
application gives up a handle when it asks for the exit: the code offers no other
safe way.  `rd_threads_create()` also refuses to create 1000 threads or more
(`rdthread.c:167`), before it does anything else; the model asks for fewer.

`NoFault` speaks of programs whose creations succeed and whose start routines
dispatch.  What the code does otherwise is in the model, so that the other
properties are checked there too, but it ends in the assertions listed under Findings.

### RdTimer - rdtimer.c, LIST_INSERT_SORTED

Operators `Stopped`, `StartedFrom` and `Started` are the list manipulation of
`rd_timer_stop0()` and `rd_timer_start0()`, `NextUpdate` that of
`rd_timers_next_update()`.  The timer thread's iteration is split (`RunBegin`,
`RunPop`, `RunPopEnd`, `RunRestart`, `RunWait`) because `rd_clock()` is read
several times in it and time passes.  `CallBegin` and `CallEnd` are
`rd_timer_call()` on the timer's thread: the callback between them runs
without the lock, so every other action may happen inside it.  The two
truncations of the code are kept: `Unsigned` (the product `interval_ms * 1000`)
and `AsInt` (the result of `rd_timer_cmp()`), with `IntHalf` as 2^31 microseconds
in clock units.

### RdIoThread - rdiothread.c

`rd_io_add()` and `rd_io_del()` are cut into steps at every access to shared
state (`AddGet`, `AddNew`, `AddFill`, `AddStart`, `AddCtl`; `DelGet`, `DelTest`,
`DelClear`, `DelUnreg`), since only the list of handles has a lock.  The I/O
thread's `events[]` is the sequence `ready` of handle pointers, which carry no
reference.  `Drop` is `rd_io_hnd_destroy()` with its assertion.  `epoll` is external:
`epset` maps each descriptor to the registered pointer, and `CtlWorks` gives the
reasons for which `epoll_ctl()` must fail.  Workers get one event each, because
nothing puts a worker back on the LRU list or assigns `rioh_worker_thread`.
Calls on one descriptor are made one at a time: two overlapping `rd_io_del()` of
one descriptor would drop a reference too many, and the code has no lock against
it.  `Loop` is the beginning of a turn of the dispatch loop: the test of `rioh_fd`, that of
the flags and the reference that `rd_io_hnd_call()` takes of a non-blocking handle are one
step.  A deletion between them has the effect of one right after them, before the
handler starts.  `EPOLL_CTL_DEL` does not fail in the model (`Unregistered`): the
descriptor is registered and open.  `Drop` of two references where there is one would free
without a fault; no handle is ever freed (`HandlesAreKept`), so this is not reached.  `NoFault` speaks of
histories in which no call of epoll has failed: from the first failure on it excuses every
assertion, so it does not test the one that a failing `epoll_ctl()` runs into
(`AddCtlFails`, see Findings).

A successful `rd_io_add()` keeps two references, of which `rd_io_del()` drops
one, so a handle outlives its descriptor for ever; it is this leak that makes the
unreferenced pointers in `events[]` safe.

### RdMemctx - rdmem.c, rdmem.h

`heap` says for each address which context allocated it, with which size, and where
the fields behind a struct are; it is what the counters and the list of a context
are compared with.  Sizes are kept as the code keeps them: `rmcp_size` is the size
modulo `Mod32`.  Each call holds the context's lock, or the context has one user, so
it is one step.  `Freeall` is the whole loop; `PtrFreeFails` says whether one of its
assertions fails on the way.  `rd_memctx_destroy()` frees what a tracking context has
listed; what a context without a list has out stays in `heap`, still belongs to the
context and may be freed later, and if the context is initialised anew it belongs to
none (`NoCtx`).  `missed` is the history of bytes that were freed and not taken off
`rmc_bytes_out`.

### RdAvl - rdavl.c, rdavl.h

A tree is a nested record; the functions that rewrite nodes in place and return
the new root of a subtree are operators from trees to trees, with the same
recursion (`Balance` and the rotations call each other).  `dict` is the reference:
the element inserted last for each key.  Every call holds the tree's lock, so it is
one step.  These operators are RECURSIVE, so this module is checked and not proved.

### RdBuf - rdbuf.c, rdbuf.h

A head is a list of buffers, each with its memory byte by byte, its capacity and
its length.  `rd_bufh_get_buf()` decides between the last buffer and a new one,
`Fill` stores bytes behind the length and notices a write past the end.  `content`
is the reference: for each buffer of a head, the bytes that callers gave the library
for it, those of `rd_bufh_prepend()` (`pre`) apart from those of the other calls
(`added`).  It is taken from the arguments of the calls and never from the buffers.
Calls are one step each, with the outcome of `recv()` chosen; serialization to a
descriptor is a step per buffer (`SerializeSkip`, `SerializeWrite`,
`SerializeFails`, `SerializeEnd`), with the outcome of each `write()` chosen.

### RdSysqueue - rdsysqueue.h, sys/queue.h

A cell is a head or the links of an element: `fwd` and `back` are its two fields,
whatever their names are in the three families, because the macros cast heads and
links to each other (`TAILQ_LAST`, `TAILQ_PREV`).  Macros are operators from one
memory to the next and an action each; `sqList` is the sequence that each list
should be.  The base macros of `sys/queue.h` are external: those that
`rdsysqueue.h` builds on.  `TAILQ_MOVE` of an empty list, for which the macro has a
branch, leaves the new head's `tqh_last` at the old head: `sqHome` is the head that an
empty list points to, and `sqLost` the element that a `TAILQ_INSERT_TAIL` then linked to
the wrong list.  As the lists are of no use after that, the only step left is `InitAll`.

### RdLru - rdlru.c

The list is a TAILQ of `RdSysqueue`; `rlrue_ptr` says which entries are allocated,
`entries` is the reference.  Callers hold `rlru_lock` around a call, so a call is one
step.

### RdEncoding - rdencoding.c

The functions are those of the code, with the width of integers and of groups as
parameters.  A writer (`Write`) puts encoded values on a stream, bytes arrive one at
a time, and the reader tries to decode at any moment, so the decoder meets every
prefix.  Hexadecimal text is written to and read into buffers of any size, which
`dstlens` remembers, with separators in it.

### RdBits and RdBitvec - rdbits.c

A word is the set of its bits.  `RdBits` holds the functions, which `RdOpt` uses for
`opts_found`; `RdBitvec` uses a vector as a set of numbers.

### RdAvg - rdavg.c

Reading the clock, `rd_avg_put()` and the roll-over are as in the code, with the ring
`ra_period` and its index.  `put` remembers, per place in the ring, which values were
put while it was current, and `wiped` the periods without a duration, whose sum and
extremes the roll-over clears.

### RdOpt - rdopt.c

One step is one turn of the loop over the arguments.  An argument is a record of its
form, its name and what is attached to it; a table is a sequence of records with the
fields of `rd_opt_t`.  `given` is the list of options taken, against which the result
is judged.  Groups are numbered 1 to 4 as in `rdopt.h`; `MutGrp` is the index the code
computes for them, which for group 4 lies outside `mutro[]` (`InMutro`).  What is read
there is any value (`stray`), and what is written is lost.  `Parser` says who looks at
the value: a parser of the application, which may accept or refuse (`ok`),
`rd_opt_parse_assign()` if the option has a pointer, or nobody.

### RdStrings - rdstring.c

`cyc` is the ring of one thread, `strHeap` the blocks of memory behind it; a freed
block may come back from the next `malloc()`.  `recent` is what the last
`RD_TSPRINTF_BUFCNT` calls returned.  The functions that scan are operators on
memory with positions from 0; each is run on every string up to a length, with and
without a terminating null and a size, and compared with a definition that says
what it should return.  Characters from `CharHalf` on are negative as a `char`: as a
member of a set such a character marks an entry in front of `map[]` (`rdstring.c:152`,
`178`), so it is not in the map (`Mapped`); where the scan itself looks it up so, what it
finds is any value (`stray`).

### RdAddr - rdaddr.c, rdrand.c

`rd_sockaddr2str()` writes into a ring of buffers (`ret`), whose texts
`rd_addrinfo_prepare()` splits again.  `getaddrinfo()` is external: it answers one of
the lists in `Resolved`.  `rd_array_shuffle()` is the set of the permutations
it may produce, exchange by exchange.  `turns` remembers the last addresses handed out.

## Runs

| Run | Shows |
|---|---|
| `fifoq_safety` | 2 workers, 2 callers, 3 elements, two lives of the queue: count, wakeups and ownership are right |
| `fifoq_refine` | one life, one caller that adds: no fault, the queue implements `RdFifoqSpec`, every queued element leaves |
| `thread_full` | main and one other thread, all kinds of start routine, failing creation: events in order and in the end, at most one late callback, threads told to exit end, no fault unless a creation fails or a routine does not dispatch |
| `timer_full` | sorted list, no oversleeping, exact call counts, no use after free, no firing after destroy; due timers fire, destroyed timers are freed |
| `io_safety` | two callers, two descriptors, failing calls: handles in use are not freed, epoll and the list agree between calls, at most one late event |
| `library` | trees find and visit what a dictionary holds and stay nearly balanced; buffers are never written past their end, keep the bytes given in order and lose exactly those given to `rd_bufh_prepend()`, and a writeout's result tells whether bytes are missing; linked lists are intact from both ends except after an insertion at the tail of a head that an empty list was moved to; LRU entries leave in order; memory contexts match the live allocations and what they missed, and fields fit; a successful parse accounts for every argument; values are counted in their period; integers arrive as sent, hexadecimal text exactly in buffers one larger than documented; bit vectors are sets, and what `rd_bitvec_fls()` says of them; recent thread-local strings are intact; scans match their definitions; texts of addresses read back; every address gets its turn |

`library` checks several small state machines that do not touch each other.  A
variable `part`, chosen in the initial state, says which one takes steps; the others
keep their initial values.  So every state of each is reached, and their numbers of
states add up and do not multiply.

Six runs (`fifoq_reinit`, `thread_handle`, `timer_far`, `io_starve`, `opt_groups`,
`encoding_signed`) end in a counterexample: each checks what a comment or header says;
see Findings.

Where the code falls short of its comments in a part that otherwise works, the property
of `library` says exactly when, so that it fails if either side of the condition changes:
`ContentIsKept` (prepended bytes), `LinksAreIntact` (moved empty lists),
`AccountsMatchMemory` (frees without a size), `SuccessAccountsForAll` (group 4),
`ValuesArriveIntact` (the size of a text), `BitsAreASet` (top bits and empty vectors) and
`ScansMatchReference` (characters from 128 on).

**Bounds.**  Three elements and a limit up to 2 let the queue be empty, below,
at and above its limit (the limit can be lowered), with an element in hand or
leaked; two workers are enough for a signal to reach the wrong one, and two
callers for a timed waiter to swallow one.  `fifoq_refine`, which checks liveness, has
one caller that adds, so the race of a timed waiter is for `fifoq_safety`.  Symmetry over workers, callers,
elements and pointers is used only in the safety run of the queue.  `MaxInits` bounds how
often the queue is initialised.  In RdThread three events (one makes its thread
exit) let a thread be told to exit with work in hand and work queued; `MaxBatch`
bounds `rd_threads_create()`.  In RdTimer the clock stops at `MaxClock`, late
enough for a recurring timer to fire, be rearmed and fire again; `Hour` is the
sleep with no timer, shorter than `MaxClock` so that it also ends.  The passing run
uses `IntHalf = 16`, where nothing wraps; `timer_far` uses `IntHalf = 2`, so that one
unit is 2^30 microseconds, almost 18 minutes.  In RdIoThread three additions
(`MaxAdds`) allow add, delete, add again on one descriptor or a change of one next
to an addition of the other; two events (`MaxReady`) occupy both workers.  In RdMemctx
two addresses are reused by two contexts, and a size of 3 does not fit a `Mod32` of
2; `MaxBytes` bounds what frees without a size leave counted.  Seven keys make AVL
trees of height four, where insertions and removals rotate above the lowest level.  In RdBuf an allocation of at least two bytes (`MinLen`) meets data of up to
two and a terminating null, so that the last buffer has too little, just enough or
more than enough space; three buffers (`MaxBufs`) and three bytes given (`MaxLen`) over two
heads let buffers be inserted between others and moved behind others, empty ones
included.  Three links over two heads give every position that a list macro
distinguishes (only, first, last, inner), and two of them have equal keys.  Integers
of five bits in groups of two have, as 64 bits in groups of seven, one bit of the
value in the last byte of the longest.  Words of three bits and a vector of eight have
a last word that is not full.  A ring of two periods wraps, and gaps of several
periods fit before `MaxAvgClock`; `MaxAvgCnt` bounds the sum.  Three arguments from
tables with required, optional, value-taking and applications' options in each of the
groups let an option take the next option as its value, miss it at the end and occur twice.  Three buffers of
`rd_tsprintf()` shrink for a text of one character and grow for one of four.  Strings
of three characters over three letters, one of them negative as a `char`, distinguish a
match at either end, inside and nowhere.  All texts of up to four of the characters that `rd_addrinfo_prepare()` looks
for, and longer enveloped ones, are split; services exceed their buffer.  Lists have up
to three addresses, one of them twice.  The heads of buffers, their bytes and the memory
contexts are symmetric: they are only compared, and the properties treat them alike.

**Deadlock** is not checked where the system may stop: all threads blocked on an
empty queue, a program that has ended or aborted, a clock that reached its bound, a
parser that has returned, a stream that has ended.

**Fairness.**  Workers keep running their loop and woken threads get the mutex
(weak fairness of each worker's steps), in the queue as in the I/O thread.  Threads run and callbacks return; a
timed wait ends (weak fairness of each thread).  The timer thread runs (weak), and
a thread that has finished a callback gets `rd_timers_lock` although the timer
thread takes it again and again (strong): its iterations are finite and it
sleeps with the lock released.  Nothing is assumed of applications, spurious
wakeups, or the clock.

## Proofs

All theorems hold for every number of threads, elements, pointers and limits.

`RdFifoqProofs`.  The invariant is `OwnInv == TypeOK /\ ElmOwnership /\ CntMatches`.
Ownership alone is not inductive: that `Take` drops a count from 2 to 1 and
`Release` from 1 to 0 needs the types and the exact reference counts; that an
addition does not reuse a queued or held element needs that these have a non-zero
count.  `CntMatches` needs that a purge happens on a list that is not empty.
Lemmas state what appending to and removing from either end of the list does to
its elements; there is one lemma per action and then:

- `TypeCorrect`, `OwnershipHolds`, `CountHolds`: the parts of the invariant.
- `NoWakeupIsLost`: `NoLostWakeup`, by induction relative to `OwnInv`.  The argument
  counts: each addition either finds nobody waiting or moves one waiter to woken;
  a woken thread either takes an element, or found the queue empty.  It needs
  finiteness of `Threads` and cardinality of the set of woken threads.

The refinement, in the same module.  Under `MaxInits = 1`, which is needed because a destroyed and
reinitialised queue keeps its old count (finding `fifoq_reinit`):

- `FaultFree`: no assertion fails and no NULL or freed element is used.
- `Refinement`: `Spec => ImplementsFifo`.  `Add`, `Take`, `Release`, `SetMaxSize` and
  `Destroy` map to abstract steps, everything about waiting to stuttering.  The key
  lemma is that the mapping `Mapped(rfq_q, rfqe_ptr)` commutes with adding an
  element that was not queued, which again rests on ownership.

`RdThreadProofs`.  The invariant `ThreadInv` adds to the types: the life of a handle
and of its thread go together (`LifeInv`: a freed handle's thread has ended, an event
in hand is one); a late callback was the last (`LateInv`); a thread whose handle
the application keeps was not told to exit, nor is an event queued that makes it
exit (`KeptInv`); and the counters of `rd_threads_create()` (`BatchInv`).

- `AtMostOneLateCall`: `OneLateCall` alone is not inductive, since one late call says
  nothing of the next poll; `LateInv` keeps the thread on its way out.
- `NeverFaults`: under the condition that is part of `NoFault` (start routines
  dispatch, creations succeed), from `LifeInv` and `KeptInv`.
- `EventsKeepOrder`: what was added is what was called, is in hand and is queued, in
  this order, until the handle is freed; after that the calls are a prefix.

`RdTimerProofs`.  `TimerInv`: the list holds the armed timers, each once (`ListInv`);
`rt_called` counts the calls queued and running (`CountInv`); who may refer to a timer
(`MemInv`); the timers popped in an iteration are off the list and not freed before
the lock is released (`CalloutInv`).  No assumption on times is needed for:

- `CalledIsExact`, `NeverUsedAfterFree` and `NeverFiresAfterDestroy`, an action property.

That the list is sorted depends on time: `rd_timer_cmp()` returns a difference of
microseconds as an `int`.  The hypothesis `KeepsUp` says that a firing time that would
be computed now is less than 2^31 microseconds from that of every armed timer.  It
is about the environment (intervals, and how far the timer thread lags), and it is
necessary: `timer_far` shows the list out of order without it.  With `SleepInv` (sorted
list, `rd_timers_next_ts` not later than its first timer and equal to the deadline of
the sleeping thread):

- `ListStaysSorted`, `NeverOversleeps`: `Spec /\ []KeepsUp` implies `ListSorted`,
  `NoOversleep`.
- `KeepsUpAtFirst`: while the clock and the longest interval stay below 2^31
  microseconds `KeepsUp` holds, whatever the threads do, so the hypothesis is not empty:
  the instance of run `timer_full` satisfies it.

`RdIoThreadProofs`.  `IoInv` has a part for each kind of pointer: callers in a call and
their handles (`CallInv`, `StartInv`), listed handles (`HndInv`), epoll (`EpollInv`),
`events[]` and the workers (`WorkInv`), late events (`LateInv`).  `RefInv` is its core:
a handle that epoll has ever known has at least as many references as the calls and
the dispatched events hold, and one or two more that nobody will drop.
The set of descriptors is assumed finite (a process has finitely many).

- `HandlesAreKept`: hence no handle is ever freed.  This is stronger than what the code
  intends (a leak), and it is the reason why pointers in `events[]`, which carry no
  reference, are safe.
- `NeverFaults`, `CountsCoverWork`, `EpollAgreesWithList`, `AtMostOneLateEvent`: the
  properties of run `io_safety`, for any number of callers, descriptors and workers.

`RdContainersProofs`.  Everything rests on one description of a list in memory
(`Chain`, `ListIn`): the cell in front of each place points forward to the element
there and, where the family of macros has such pointers, the element points back to
that cell; the head points to the last cell.  Each macro is shown to be an insertion
at a place, a removal from a place or a move, which touches the cells
around that place only.  `SqSound` is that every head has its list, with the pointer of
an empty one at the head it came from, and that no element is in two lists; without the
second part what is written for one list could damage another.  `SqInv` adds the damaged
lists (`SqDamaged`), which only an insertion at the tail of a moved empty list leads to
and only initialising the heads leads out of.  Elements are finitely many (`IsFiniteSet(SqElms)`): the search for the place
of `INSERT_SORTED` ends.  The null pointer is no entry of an LRU list.

- `LinksStayIntact`: `LinksAreIntact`, with its exception, for the three families, any
  heads, elements, keys.
- `LruOrderIsKept`: `LruKeepsOrder`.  `LruInv` relates the cells in the list to those
  that are allocated, so that an entry that is pushed is never given a cell in use.

`RdMemoryProofs`.  The lengths of a head and the bytes of a context are sums, the content
of a head a concatenation.  What a recursive function over the places of a sequence
computes is shown by an induction stated about a set of places (`Upto`: a set that has
0 and with `i - 1` also `i` has all of `0..n`), from which follow that the function
exists and how it behaves on a concatenation; sums over sets of addresses are shown not
to depend on the order in which a fold visits them.

- `BufferLengthsAgree`, `BufferContentIsKept`: `LengthsAgree`, `ContentIsKept`.  `BufInv` says
  of every head that its buffers hold at least what they count, that the length is the
  sum, and that each buffer's bytes up to `rb_len` are those that calls other than
  `rd_bufh_prepend()` gave for it (`Matches`).  `PrependedIsLost` adds up lengths: what is
  copied out is all that was given only if nothing was prepended.
- `ReturnAlwaysTellsLoss`: `ReturnTellsLoss`.  `Serializing` says how far a writeout is: what
  was written is a part of each buffer passed, and the sum returned falls short by
  exactly the bytes left out.
- `FieldsAlwaysFit`: `FieldsFit`, from the sum of the sizes of the fields.
- `AccountsAlwaysMatch`: `AccountsMatchMemory`.  `MemInv` relates, per context, the number, the
  bytes and the list to the addresses in the heap that the context owns (`Kept`), and a
  step of one context leaves what the others own alone (`Untouched`).  The
  bytes differ from the sum by `missed`, to which a free without a size adds the size,
  and freeing everything the parts of the sizes that 32 bits cut off.  Memory whose
  context was initialised anew is no context's (`NoCtx`).  `NoMem` is assumed to be no block.

`RdStringsProofs`.  `RingInv`: the k-th most recent string is in the k-th slot behind the
cursor, the slots own different blocks, and no other block is allocated.  The
wrap-around of the cursor is arithmetic modulo the size of the ring.

- `StringsStayIntact`: `RecentStringsIntact`, for rings of any size.
- `ScansAlwaysMatch`: `ScansMatchReference`.  The loops of the code end at the least place
  where they stop, the references are the longest prefix with a property; both are shown
  to be one number, and the comparisons are decided at the first place that differs.  For
  characters from 128 on the statement is what the code does to them: never found as
  delimiters, and in a span counted either way (`Possible`).
- `AddressesAlwaysInTurn`: `EveryAddressInTurn`.  Every outcome of `rd_array_shuffle()` is a
  permutation of the answer (`Rearranged`, kept by each exchange); `ListInv` says that the
  last turns are the places behind the cursor, going around (`Round`), so that a full
  round is a bijection to the answer.
- `AddressTextsAlwaysReadBack`: `AddressTextsReadBack`.  `TextInv` is the ring once more, and that
  each text reads back.  A text that `rd_sockaddr2str()` printed with a port ends in a
  colon with no other behind it, and one that was cut fills its buffer.  `AddrAssumption` has what this needs of the
  environment: names and numeric addresses are without brackets, and without colons
  but for IPv6; a numeric address and its port fit the buffer (`INET6_ADDRSTRLEN + 16` bytes in the code);
  a port fits `ssvc`; the resolver's answers are not empty.
- `ValuesAlwaysArrive`: `ValuesArriveIntact`, for integers and groups of any width.  `Coded`
  says that bytes end where the first one without the high bit is and that their groups,
  each weighed by a power of the radix, add up to the value; that the encoder's bytes do
  is an induction over the values, that the decoder adds up the same is one over the
  bytes.  `StreamOK`: what is under way is the bytes of the values not yet read, cut where
  each ends, so a decoder finds its end in what has arrived or waits.  `TextOK`: a text is
  the digits of the bytes with a separator somewhere and a stop behind, of all bytes exactly
  if the buffer had `2n + 2` characters, of all but the last with the `2n + 1` of the header.
  The theorem
  assumes that no signed value is negative: `encoding_signed` shows what the code does to
  those.  `EncAssumption` states three facts about powers of two (`2 ^ VBits` is twice
  `2 ^ (VBits - 1)`, and they are numbers), which are arithmetic the provers do not have.

`RdServicesProofs`.  `AvgInv`: per slot of the ring, the sum and the extremes are those of
the values put into it, unless they were wiped (`SlotOK`), and the current slot is open,
its time is that of the ring (`CurrentOK`).  Missed periods are counted by a division,
whose quotient is shown to be the one the gap has.  `IsVec(v, max, S)` says that bit `b`
of word `w` is set exactly when `w * WordBits + b` is in `S`; as quotient and remainder
name one bit of one word, an operation touches that bit only.

- `PeriodsStayExact`: `PeriodsAreExact` for rings and durations of any size.
- `VectorIsASet`: `BitsAreASet` for any word size and any greatest bit.  The result of
  `rd_bitvec_fls()` is given for every vector; the scan of the words is shown to end at the
  last one that is not empty and has its top bit clear.
- `SuccessIsComplete`: `SuccessAccountsForAll` for any table and arguments, group 4 and
  options without pointer or with a parser of their own included.  The
  invariant speaks of every turn of the loop, not of success: arguments in front of
  `argi` are accounted for, `mutro[]` has an entry exactly for those of groups 1 to 3 taken, the
  vector holds the options taken, and an option's value is that of its last occurrence.
  Options with an index above `OptsMax` are never marked; that can only make a parse
  fail, so no bound on the table is assumed.

Only model-checked, and why:

- all liveness (`EveryElementLeaves`, `ExitingThreadEnds`, `EventsAreServed`,
  `DueTimerFires`, `DestroyedTimerFreed`): the prover has no support for fairness;
- `RdAvl` (`AgreesWithDictionary`, `NearlyBalanced`): RECURSIVE operators on trees, which the
  prover does not support.

## Findings

With a run that shows them:

- `fifoq_reinit`: destroy and init keep the count; the queue then drops entries
  while it is not full, or dereferences NULL.
- `thread_handle`: `rd_thread_create()` uses the handle after the thread may have
  freed it.
- `timer_far`: comparison as `int` misplaces timers 36 to 72 minutes apart.
- `io_starve`: once the workers are used up the I/O thread waits for ever.
- `opt_groups`: two options of the exclusive group `RD_OPT_MUT4` are accepted together,
  because the index of the group lies outside `mutro[]`.
- `encoding_signed`: negative integers are written, and odd ones read, as 0
  (`uval ^= uval`).

Seen while modelling, kept in the models as the code has them, without a run of their own;
a property named here as stating the case holds exactly because the code does this:

- A purged queue element is never freed: its count is 2, not 1 (`RefcntAfterAdd`).
- A failing `pthread_create()`, and a start routine that returns without
  `rd_thread_exit()`, end in a failed assertion (`StartThread`, `Destroy`).
- `rd_threads_create()` counts successes as failures (`FailedAfter`).
- Intervals above 71 minutes wrap (`FiringTime`).
- `rioh_worker_thread` is never assigned, so handlers of one descriptor run at the
  same time in several workers, which the comment at `rdiothread.c:150` excludes
  (`Enqueue`).
- `rd_memctx_free()` on a tracking context leaves its bytes in `rmc_bytes_out`, although
  `rdmem.h:55` says that tracking is enough to keep that sum (`BytesAfterFree`, stated in
  `AccountsMatchMemory`); sizes of 4 GB and more are cut in `rmcp_size`; `rd_memctx_destroy()` leaves the flag that
  `RD_MEMCTX_INITED()` tests.
- A new AVL leaf is stored with height 0, the height of an empty tree, so real
  heights of siblings may differ by two (`InsertNode`, `NearlyBalanced`);
  `rd_avl_foreach()` on an empty tree dereferences NULL.
- `rd_bufh_prepend()` loses its data (`rb_len` stays 0; stated in `ContentIsKept`), and a
  later append may reuse that buffer.  `rd_bufh_serialize()` goes on with the next buffer after a
  short write (`SerializeWrite`).  `rd_bufh_write_mem()` advances only its own copy of
  the destination, so with a serializer other than the binary one every buffer is
  written to the same place.
- A failing `epoll_ctl()` on a new descriptor, also because another thread is still
  starting the I/O thread, ends in a failed assertion (`AddCtlFails`).
- Events still queued when a thread ends are freed without their
  `rd_thread_event_t` (`rdthread.c:75`).
- After `LIST_MOVE()` the first element's `le_prev` still points at the old head; after
  `TAILQ_MOVE()` of an empty list the new head's `tqh_last` does, and the next insertion at
  its tail links the element to the old head (stated in `LinksAreIntact`).
- `rd_bitvec_fls()` takes a word whose top bit is set for an empty one; on an empty
  vector neither `rd_bitvec_ffs()` nor `rd_bitvec_fls()` returns 0 (stated in
  `BitsAreASet`).
- `rd_bin2hex()` needs 2n + 2 bytes where `rdencoding.h:100` says 2n + 1 (stated in
  `ValuesArriveIntact`);
  `RD_VARINT_DECODE_OVERFLOW()` also holds for some values that say bytes are missing;
  `rd_hex2bin()` and the scans with a set of characters index an array with a
  `char` that may be negative (the scans: stated in `ScansMatchReference`).
- The option parser compares all of `--name=VAL` with the name, so that an attached
  long value never matches; it hands `-nVAL` itself, not `VAL`, to the option's parser;
  a lone `-` is read past
  its end.
- A period without a duration, that is, one with no value later than the one that
  the roll-over opened it with, reports 0 as its sum and extremes (`rdavg.c:71-75`, `wiped`); `rd_avg_put()` before `rd_avg_start()` dereferences NULL.
- `rd_addrinfo_prepare()` splits `[]:80` into node `]`, keeps the colon of `host:` in
  the node, reads the byte before `:port`, and does not compare the node's length with
  its buffer.  `RD_AI_NOSHUFFLE` is passed on to `getaddrinfo()`, and
  `RD_SOCKADDR_LIST_FOREACH()` names a field that does not exist.
- `rd_jitter(low, high)` exceeds `high` when `low` is not 0 (`rdrand.h:33`).
- `rd_dbg_ctx_push()` does not store the text it formats, and after more pushes than
  the stack holds the pops fail their assertion.

## Not modelled

Generated code (`rdcrc32`), wrappers of system calls and zlib (`rdio`, `rdfile`,
`rdgz`, `rdsignal`), tables and floating point (`rdunits`, `rdfloat`), the
initialisation sequence (`rd`), and two parts whose behaviour is their application's
or undefined: `rdalert` calls the application's callbacks under a lock, `rdlog`
formats a `va_list` as if it were a string and prints.

Within modelled parts: thread signal masks, thread names, lock wrappers, the stall
alert of the timer thread, `rd_timer_next()`, a failing `epoll_wait()` or
`EPOLL_CTL_DEL`, `rd_threads_create()` of 1000 threads or more, AVL trees
without locks, application serializers and writers for buffers, `LIST_MOVE()`, the
loops over lists that tolerate removal, histograms of `rdavg` (which have no
constructor), the usage text of `rdopt`, parsers of the application that move `*argip`,
a node longer than its buffer in `rd_addrinfo_prepare()`,
`rd_memdup()`, the global list of memory contexts, which nothing reads, and conversions
of `struct timeval`.
