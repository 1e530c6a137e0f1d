-------------------------- MODULE RdIoThreadProofs --------------------------
(***************************************************************************)
(* Proofs about the I/O thread: no handle is used after it was freed, the  *)
(* counts cover the dispatched events, epoll and the list of handles agree *)
(* between calls, and at most one event of a deleted handle is dispatched. *)
(*                                                                         *)
(* What the counts of rdiothread.c come to is the invariant's core.  Every *)
(* rd_io_add() that succeeds leaves two references behind, its own and     *)
(* epoll's, and rd_io_del() drops its own and one of these: a handle that  *)
(* epoll has ever known keeps at least one reference for ever and is never *)
(* freed.  That is why events[] may point at it without a reference.       *)
(***************************************************************************)
EXTENDS RdIoThread, FiniteSetTheorems, SequenceTheorems, NaturalsInduction,
        WellFoundedInduction, TLAPS

\* A caller in rd_io_add() or rd_io_del(), and one that works on handle h.
Busy(c) == call[c].op # "none"
On(c, h) == Busy(c) /\ call[c].h = h
Adding(c) == call[c].op \in {"new", "fill", "start", "ctl"}
Leaving(c, h) == call[c].op = "unreg" /\ call[c].h = h

\* Epoll has known the handle: it does, or the handle was decommissioned.
Added(h) ==
    /\ mem[h] = "live"
    /\ rioh_fd[h] = NoFd \/ epset[rioh_fd[h]] = h

\* References nobody in a call and no dispatched event accounts for: those of
\* the list and of epoll until rd_io_del() drops its two, one after that.
Own(h) == IF rioh_fd[h] # NoFd \/ (\E c \in Callers : Leaving(c, h)) THEN 2 ELSE 1

CallRef(h) == IF \E c \in Callers : On(c, h) THEN 1 ELSE 0

Refs(h) ==
    /\ Added(h) => refcnt[h] >= Own(h) + CallRef(h) + WorkRefs(h)
    /\ mem[h] = "live" /\ ~Added(h) =>
        /\ refcnt[h] = CallRef(h)
        /\ fault # "none" \/ (\E c \in Callers : On(c, h) /\ Adding(c))

\* Calls: no two of them on one descriptor or one handle.
CallOK(c) ==
    Busy(c) =>
        /\ call[c].h \in Hnds /\ mem[call[c].h] = "live"
        /\ call[c].fd \in Fds
        /\ rioh_fd[call[c].h] = IF call[c].op = "unreg" THEN NoFd ELSE call[c].fd
        /\ ~Adding(c) => Added(call[c].h)
        /\ call[c].op = "unreg" => \A g \in Hnds : rioh_fd[g] # call[c].fd

CallInv ==
    /\ \A c \in Callers : CallOK(c)
    /\ \A c, d \in Callers :
        Busy(c) /\ Busy(d) /\ c # d =>
            call[c].fd # call[d].fd /\ call[c].h # call[d].h

\* The caller that took rd_io_thread_started from 0 is alone in the start.
StartInv ==
    /\ \A c \in Callers : call[c].op = "start" => started > 0
    /\ \A c, d \in Callers :
        call[c].op = "start" /\ call[d].op = "start" => c = d

\* Handles: allocated ones are listed, one per descriptor, others are unused.
HndInv ==
    /\ hnds = {h \in Hnds : mem[h] = "live"}
    /\ \A h \in Hnds : mem[h] # "freed"
    /\ \A h \in Hnds : mem[h] = "none" => rioh_fd[h] = NoFd /\ refcnt[h] = 0
    /\ \A h, g \in Hnds : rioh_fd[h] = rioh_fd[g] /\ rioh_fd[h] # NoFd => h = g

\* Pointers: what epoll, events[] and the workers point at.
EpollInv ==
    \A fd \in Fds : epset[fd] # NoHnd =>
        /\ mem[epset[fd]] = "live"
        /\ \/ rioh_fd[epset[fd]] = fd
           \/ \E c \in Callers : Leaving(c, epset[fd]) /\ call[c].fd = fd

WorkInv ==
    /\ iopc \in {"get", "handler"} => ready # <<>>
    /\ \A i \in DOMAIN ready : Added(ready[i])
    /\ \A w \in Workers : jobpc[w] \in {"queued", "running"} =>
        job[w] \in Hnds /\ Added(job[w])

\* A late event was the last: its handle will fail the test in Loop.
Late(h) ==
    late[h] > 0 =>
        /\ late[h] = 1
        /\ mem[h] = "live" /\ rioh_fd[h] = NoFd
        /\ ~(iopc = "get" /\ Head(ready) = h)

LateInv == \A h \in Hnds : Late(h)

FaultInv == fault = "none" \/ (fault = "assert" /\ failed)

RefInv == \A h \in Hnds : Refs(h)

IoInv ==
    /\ TypeOK /\ FaultInv /\ StartInv /\ CallInv /\ HndInv /\ EpollInv /\ WorkInv
    /\ RefInv /\ LateInv

-----------------------------------------------------------------------------
(***************************************************************************)
(* The references of dispatched events.                                    *)
(***************************************************************************)
Queued(h) == {w \in Workers : job[w] = h /\ jobpc[w] = "queued"}
Running(h) == {w \in Workers : job[w] = h /\ jobpc[w] = "running"}
Calling(h) == IF iopc = "handler" /\ Head(ready) = h THEN 1 ELSE 0

\* The workers are finitely many, and so are those with a job of a handle.
LEMMA JobsFinite ==
    ASSUME NEW h
    PROVE  /\ IsFiniteSet(Queued(h)) /\ IsFiniteSet(Running(h))
           /\ Cardinality(Queued(h)) \in Nat /\ Cardinality(Running(h)) \in Nat
<1>1. IsFiniteSet(Workers)
  BY FS_Interval, ConstAssumption DEF Workers
<1>2. Queued(h) \subseteq Workers /\ Running(h) \subseteq Workers
  BY DEF Queued, Running
<1>3. IsFiniteSet(Queued(h)) /\ IsFiniteSet(Running(h))
  BY <1>1, <1>2, FS_Subset
<1> QED  BY <1>3, FS_CardinalityType

LEMMA WorkRefsSum ==
    ASSUME NEW h
    PROVE  /\ WorkRefs(h) = Cardinality(Queued(h)) + 2 * Cardinality(Running(h)) + Calling(h)
           /\ WorkRefs(h) \in Nat
<1>1. WorkRefs(h) = Cardinality(Queued(h)) + 2 * Cardinality(Running(h)) + Calling(h)
  BY DEF WorkRefs, Queued, Running, Calling
<1>2. Calling(h) \in Nat
  BY DEF Calling
<1> QED  BY <1>1, <1>2, JobsFinite

\* The same after a step.
LEMMA WorkRefsSumNext ==
    ASSUME NEW h
    PROVE  /\ WorkRefs(h)' = Cardinality(Queued(h)') + 2 * Cardinality(Running(h)') + Calling(h)'
           /\ WorkRefs(h)' \in Nat /\ Calling(h)' \in Nat
           /\ IsFiniteSet(Queued(h)') /\ IsFiniteSet(Running(h)')
           /\ Cardinality(Queued(h)') \in Nat /\ Cardinality(Running(h)') \in Nat
<1>1. IsFiniteSet(Workers)
  BY FS_Interval, ConstAssumption DEF Workers
<1>2. Queued(h)' \subseteq Workers /\ Running(h)' \subseteq Workers
  BY DEF Queued, Running
<1>3. IsFiniteSet(Queued(h)') /\ IsFiniteSet(Running(h)')
  BY <1>1, <1>2, FS_Subset
<1>4. Cardinality(Queued(h)') \in Nat /\ Cardinality(Running(h)') \in Nat
  BY <1>3, FS_CardinalityType
<1>5. WorkRefs(h)' = Cardinality(Queued(h)') + 2 * Cardinality(Running(h)') + Calling(h)'
  BY DEF WorkRefs, Queued, Running, Calling
<1>6. Calling(h)' \in Nat
  BY DEF Calling
<1> QED  BY <1>3, <1>4, <1>5, <1>6

\* What does not touch the jobs or the I/O thread changes no reference.
LEMMA WorkRefsSame ==
    ASSUME UNCHANGED <<iopc, ready, job, jobpc>>, NEW h
    PROVE  WorkRefs(h)' = WorkRefs(h)
BY DEF WorkRefs

\* What does not touch the jobs changes the reference of the call alone.
LEMMA WorkRefsCalling ==
    ASSUME UNCHANGED <<job, jobpc>>, NEW h
    PROVE  WorkRefs(h)' - WorkRefs(h) = Calling(h)' - Calling(h)
<1>1. Queued(h)' = Queued(h) /\ Running(h)' = Running(h)
  BY DEF Queued, Running
<1>2. Calling(h) \in Nat
  BY DEF Calling
<1>3. Cardinality(Queued(h)) \in Nat /\ Cardinality(Running(h)) \in Nat
  BY JobsFinite
<1>4. WorkRefs(h) = Cardinality(Queued(h)) + 2 * Cardinality(Running(h)) + Calling(h)
  BY WorkRefsSum
<1>5. /\ WorkRefs(h)' = Cardinality(Queued(h)) + 2 * Cardinality(Running(h)) + Calling(h)'
      /\ Calling(h)' \in Nat
  BY <1>1, WorkRefsSumNext
<1> HIDE DEF Queued, Running, Calling, WorkRefs
<1> QED  BY <1>2, <1>3, <1>4, <1>5

-----------------------------------------------------------------------------
(***************************************************************************)
(* rd_io_hnd_destroy().                                                    *)
(***************************************************************************)
\* References remain: only the count changes.
LEMMA DropKeeps ==
    ASSUME NEW h \in Hnds, NEW n \in Nat, NEW cnt \in [Hnds -> Nat],
           mem[h] = "live", cnt[h] > n, Drop(h, n, cnt)
    PROVE  /\ refcnt' = [cnt EXCEPT ![h] = @ - n]
           /\ refcnt' \in [Hnds -> Nat]
           /\ UNCHANGED <<mem, hnds, fault>>
<1>1. cnt[h] - n > 0 /\ cnt[h] - n \in Nat
  OBVIOUS
<1>2. refcnt' = [cnt EXCEPT ![h] = @ - n] /\ UNCHANGED <<mem, hnds, fault>>
  BY <1>1 DEF Drop
<1> QED  BY <1>1, <1>2

\* The last reference of a handle that still has a descriptor: the assertion.
LEMMA DropAsserts ==
    ASSUME NEW h \in Hnds, NEW n \in Nat, NEW cnt \in [Hnds -> Nat],
           mem[h] = "live", cnt[h] = n, rioh_fd[h] # NoFd, Drop(h, n, cnt)
    PROVE  /\ refcnt' = [cnt EXCEPT ![h] = 0]
           /\ refcnt' \in [Hnds -> Nat]
           /\ UNCHANGED <<mem, hnds>> /\ fault' = "assert"
<1>1. ~(cnt[h] - n > 0) /\ cnt[h] - n = 0
  OBVIOUS
<1>2. refcnt' = [cnt EXCEPT ![h] = @ - n] /\ UNCHANGED <<mem, hnds>> /\ fault' = "assert"
  BY <1>1 DEF Drop
<1> QED  BY <1>1, <1>2

-----------------------------------------------------------------------------
(***************************************************************************)
(* What a step that leaves the calls or the handles alone preserves.       *)
(***************************************************************************)
\* A step of the I/O thread or of a worker: the counts follow the references
\* of the dispatched events, and only those of handles epoll has known.
LEMMA IoFrame ==
    ASSUME IoInv,
           UNCHANGED <<mem, rioh_fd, hnds, epset, call, started, failed, fault>>,
           refcnt' \in [Hnds -> Nat],
           \A h \in Hnds : ~Added(h) => refcnt'[h] = refcnt[h],
           \A h \in Hnds : Added(h) =>
              refcnt'[h] - refcnt[h] >= WorkRefs(h)' - WorkRefs(h)
    PROVE  FaultInv' /\ StartInv' /\ CallInv' /\ HndInv' /\ EpollInv' /\ RefInv'
<1> USE DEF IoInv
<1>1. \A h : Added(h)' = Added(h) /\ Own(h)' = Own(h) /\ CallRef(h)' = CallRef(h)
  BY DEF Added, Own, CallRef, Leaving, On, Busy
<1>2. FaultInv' /\ StartInv' /\ EpollInv'
  BY DEF FaultInv, StartInv, EpollInv, Leaving
<1>3. CallInv'
  BY <1>1 DEF CallInv, CallOK, Busy, Adding
<1>4. HndInv'
  BY DEF HndInv, Added
<1>5. ASSUME NEW h \in Hnds
      PROVE  Refs(h)'
  <2>1. Refs(h)
    BY DEF RefInv
  <2>2. refcnt[h] \in Nat /\ refcnt'[h] \in Nat
    BY DEF TypeOK
  <2>3. WorkRefs(h) \in Nat /\ WorkRefs(h)' \in Nat /\ Own(h) \in Nat /\ CallRef(h) \in Nat
    BY WorkRefsSum, WorkRefsSumNext DEF Own, CallRef
  <2>4. Added(h)' => refcnt'[h] >= Own(h)' + CallRef(h)' + WorkRefs(h)'
    <3>1. SUFFICES ASSUME Added(h) PROVE refcnt'[h] >= Own(h) + CallRef(h) + WorkRefs(h)'
      BY <1>1
    <3>2. refcnt[h] >= Own(h) + CallRef(h) + WorkRefs(h)
      BY <2>1, <3>1 DEF Refs
    <3>3. refcnt'[h] - refcnt[h] >= WorkRefs(h)' - WorkRefs(h)
      BY <3>1
    <3> QED  BY <2>2, <2>3, <3>2, <3>3
  <2>5. mem[h]' = "live" /\ ~Added(h)' =>
            /\ refcnt'[h] = CallRef(h)'
            /\ fault' # "none" \/ (\E c \in Callers : On(c, h)' /\ Adding(c)')
    BY <1>1, <2>1 DEF Refs, On, Adding, Busy
  <2> QED  BY <2>4, <2>5 DEF Refs
<1> QED  BY <1>2, <1>3, <1>4, <1>5 DEF RefInv

\* A step of a caller that keeps its handle and its references.
LEMMA QuietFrame ==
    ASSUME IoInv, NEW c \in Callers, NEW op, op \notin {"none", "unreg"},
           UNCHANGED <<mem, rioh_fd, refcnt, hnds, epset, ready, job, jobpc, late,
                       fault, failed>>,
           iopc' \in {iopc, "poll"},
           call[c].op \notin {"none", "unreg"},
           call'[c].op = op, call'[c].h = call[c].h, call'[c].fd = call[c].fd,
           \A d \in Callers : d # c => call'[d] = call[d],
           Adding(c)' <=> Adding(c)
    PROVE  FaultInv' /\ CallInv' /\ HndInv' /\ EpollInv' /\ WorkInv' /\ RefInv' /\ LateInv'
<1> USE DEF IoInv
<1>1. \A d \in Callers : /\ Busy(d)' = Busy(d) /\ Adding(d)' = Adding(d)
                         /\ call'[d].h = call[d].h /\ call'[d].fd = call[d].fd
                         /\ call'[d].op = "unreg" <=> call[d].op = "unreg"
  BY DEF Busy, Adding
<1>2. \A h : \A d \in Callers : On(d, h)' = On(d, h) /\ Leaving(d, h)' = Leaving(d, h)
  BY <1>1 DEF On, Leaving
<1>3. \A h : Added(h)' = Added(h) /\ Own(h)' = Own(h) /\ CallRef(h)' = CallRef(h)
  BY <1>2 DEF Added, Own, CallRef
<1>4. FaultInv' /\ HndInv' /\ EpollInv'
  BY <1>1, <1>2 DEF FaultInv, HndInv, EpollInv
<1>5. CallInv'
  <2>1. ASSUME NEW d \in Callers PROVE CallOK(d)'
    <3>1. CallOK(d)
      BY DEF CallInv
    <3> QED  BY <1>1, <1>3, <3>1 DEF CallOK
  <2>2. \A d, e \in Callers : Busy(d)' /\ Busy(e)' /\ d # e =>
            call'[d].fd # call'[e].fd /\ call'[d].h # call'[e].h
    BY <1>1 DEF CallInv
  <2> QED  BY <2>1, <2>2 DEF CallInv
<1>6. WorkInv'
  BY <1>3 DEF WorkInv
<1>7. ASSUME NEW h \in Hnds PROVE Refs(h)' /\ Late(h)'
  <2>1. Refs(h) /\ Late(h)
    BY DEF RefInv, LateInv
  <2>2. refcnt[h] \in Nat /\ Own(h) \in Nat /\ CallRef(h) \in Nat
    BY DEF TypeOK, Own, CallRef
  <2>3. WorkRefs(h) \in Nat /\ WorkRefs(h)' \in Nat
    BY WorkRefsSum, WorkRefsSumNext
  <2>4. WorkRefs(h)' <= WorkRefs(h)
    <3>1. Calling(h)' <= Calling(h)
      BY DEF Calling
    <3>2. WorkRefs(h)' - WorkRefs(h) = Calling(h)' - Calling(h)
      BY WorkRefsCalling
    <3>3. Calling(h) \in Nat /\ Calling(h)' \in Nat
      BY DEF Calling
    <3> QED  BY <2>3, <3>1, <3>2, <3>3
  <2>5. Added(h)' => refcnt'[h] >= Own(h)' + CallRef(h)' + WorkRefs(h)'
    <3>1. SUFFICES ASSUME Added(h) PROVE refcnt[h] >= Own(h) + CallRef(h) + WorkRefs(h)'
      BY <1>3
    <3>2. refcnt[h] >= Own(h) + CallRef(h) + WorkRefs(h)
      BY <2>1, <3>1 DEF Refs
    <3> QED  BY <2>2, <2>3, <2>4, <3>2
  <2>6. mem[h]' = "live" /\ ~Added(h)' =>
            /\ refcnt'[h] = CallRef(h)'
            /\ fault' # "none" \/ (\E d \in Callers : On(d, h)' /\ Adding(d)')
    BY <1>1, <1>2, <1>3, <2>1 DEF Refs
  <2>7. Late(h)'
    BY <2>1 DEF Late
  <2> QED  BY <2>5, <2>6, <2>7 DEF Refs
<1> QED  BY <1>4, <1>5, <1>6, <1>7 DEF RefInv, LateInv

-----------------------------------------------------------------------------
(***************************************************************************)
(* The initial state, and the steps of rd_io_add() and rd_io_del().        *)
(***************************************************************************)
Calls ==
    [op : {"none", "new", "fill", "start", "ctl", "test", "clear", "unreg"},
     h : Hnds \cup {NoHnd}, fd : Fds \cup {NoFd}, nb : BOOLEAN, new : BOOLEAN]

LEMMA InitInv == Init => IoInv
<1> SUFFICES ASSUME Init PROVE IoInv
  OBVIOUS
<1>1. TypeOK
  <2>1. ready \in Seq(Hnds)
    BY EmptySeq DEF Init
  <2>2. NoCall \in Calls
    BY DEF NoCall, Calls
  <2>3. call \in [Callers -> Calls]
    BY <2>2 DEF Init
  <2>4. left \in 0..MaxReady
    BY ConstAssumption DEF Init
  <2> QED  BY <2>1, <2>3, <2>4 DEF Init, TypeOK, Calls
<1>2. \A c \in Callers : call[c].op = "none"
  BY DEF Init, NoCall
<1>3. FaultInv /\ StartInv /\ CallInv
  BY <1>2 DEF Init, FaultInv, StartInv, CallInv, CallOK, Busy
<1>4. HndInv /\ EpollInv
  BY DEF Init, HndInv, EpollInv
<1>5. WorkInv
  BY DEF Init, WorkInv
<1>6. RefInv /\ LateInv
  BY DEF Init, RefInv, Refs, Added, LateInv, Late
<1> QED  BY <1>1, <1>3, <1>4, <1>5, <1>6 DEF IoInv

LEMMA NewStep ==
    ASSUME IoInv, NEW c \in Callers, AddNew(c)
    PROVE  IoInv'
<1> USE DEF IoInv
<1>1. call[c] \in Calls /\ call[c].op = "new" /\ call[c].h \in Hnds
  <2>1. call[c] \in Calls /\ call[c].op = "new"
    BY DEF TypeOK, Calls, AddNew, InCall
  <2> QED  BY <2>1 DEF CallInv, CallOK, Busy
<1>2. call' = [call EXCEPT ![c] = [call[c] EXCEPT !.op = "fill", !.new = ~events[call[c].h]]]
  BY DEF AddNew
<1>3. UNCHANGED <<hndVars, epollVars, ioVars, fault, failed>>
  BY DEF AddNew
<1>4. call'[c] \in Calls /\ call'[c].op = "fill" /\ call'[c].h = call[c].h
        /\ call'[c].fd = call[c].fd
  BY <1>1, <1>2 DEF TypeOK, Calls
<1>5. \A d \in Callers : d # c => call'[d] = call[d]
  BY <1>2 DEF TypeOK
<1>6. call' \in [Callers -> Calls]
  BY <1>2, <1>4 DEF TypeOK, Calls
<1>7. TypeOK'
  BY <1>3, <1>6 DEF TypeOK, Calls, hndVars, epollVars, ioVars
<1>8. StartInv'
  BY <1>3, <1>4, <1>5 DEF StartInv, epollVars
<1>9. FaultInv' /\ CallInv' /\ HndInv' /\ EpollInv' /\ WorkInv' /\ RefInv' /\ LateInv'
  BY <1>1, <1>3, <1>4, <1>5, QuietFrame DEF hndVars, epollVars, ioVars, Adding
<1> QED  BY <1>7, <1>8, <1>9

LEMMA FillStep ==
    ASSUME IoInv, NEW c \in Callers, AddFill(c)
    PROVE  IoInv'
<1> USE DEF IoInv
<1>1. call[c] \in Calls /\ call[c].op = "fill" /\ call[c].h \in Hnds
  <2>1. call[c] \in Calls /\ call[c].op = "fill"
    BY DEF TypeOK, Calls, AddFill, InCall
  <2> QED  BY <2>1 DEF CallInv, CallOK, Busy
<1>2. PICK op \in {"start", "ctl"} :
        /\ call' = [call EXCEPT ![c] = [call[c] EXCEPT !.op = op]]
        /\ op = "start" => started = 0
  BY DEF AddFill
<1>3. /\ UNCHANGED <<mem, rioh_fd, refcnt, hnds, epfd, epset, ioVars, fault, failed>>
      /\ started' = started + 1
  BY DEF AddFill
<1>4. call'[c] \in Calls /\ call'[c].op = op /\ call'[c].h = call[c].h
        /\ call'[c].fd = call[c].fd
  BY <1>1, <1>2 DEF TypeOK, Calls
<1>5. \A d \in Callers : d # c => call'[d] = call[d]
  BY <1>2 DEF TypeOK
<1>6. call' \in [Callers -> Calls]
  BY <1>2, <1>4 DEF TypeOK, Calls
<1>7. TypeOK'
  <2>1. nonblock' \in [Hnds -> BOOLEAN] /\ events' \in [Hnds -> BOOLEAN]
    <3>1. call[c].nb \in BOOLEAN
      BY <1>1 DEF Calls
    <3> QED  BY <1>1, <3>1 DEF AddFill, TypeOK
  <2> QED  BY <1>3, <1>6, <2>1 DEF TypeOK, Calls, ioVars
<1>8. StartInv'
  <2>1. op = "start" => \A d \in Callers : call[d].op # "start"
    BY <1>2 DEF StartInv, TypeOK
  <2>2. started' > 0
    BY <1>3 DEF TypeOK
  <2> QED  BY <1>2, <1>4, <1>5, <2>1, <2>2 DEF StartInv
<1>9. FaultInv' /\ CallInv' /\ HndInv' /\ EpollInv' /\ WorkInv' /\ RefInv' /\ LateInv'
  BY <1>1, <1>3, <1>4, <1>5, QuietFrame DEF ioVars, Adding
<1> QED  BY <1>7, <1>8, <1>9

LEMMA StartStep ==
    ASSUME IoInv, NEW c \in Callers, AddStart(c)
    PROVE  IoInv'
<1> USE DEF IoInv
<1>1. call[c] \in Calls /\ call[c].op = "start"
  BY DEF TypeOK, Calls, AddStart, InCall
<1>2. call' = [call EXCEPT ![c] = [call[c] EXCEPT !.op = "ctl"]]
  BY DEF AddStart
<1>3. /\ UNCHANGED <<hndVars, started, epset, ready, left, job, jobpc, late, fault, failed>>
      /\ epfd' = TRUE /\ iopc' = "poll"
  BY DEF AddStart
<1>4. call'[c] \in Calls /\ call'[c].op = "ctl" /\ call'[c].h = call[c].h
        /\ call'[c].fd = call[c].fd
  BY <1>1, <1>2 DEF TypeOK, Calls
<1>5. \A d \in Callers : d # c => call'[d] = call[d]
  BY <1>2 DEF TypeOK
<1>6. call' \in [Callers -> Calls]
  BY <1>2, <1>4 DEF TypeOK, Calls
<1>7. TypeOK'
  BY <1>3, <1>6 DEF TypeOK, Calls, hndVars
<1>8. StartInv'
  BY <1>3, <1>4, <1>5 DEF StartInv
<1>9. FaultInv' /\ CallInv' /\ HndInv' /\ EpollInv' /\ WorkInv' /\ RefInv' /\ LateInv'
  BY <1>1, <1>3, <1>4, <1>5, QuietFrame DEF hndVars, Adding
<1> QED  BY <1>7, <1>8, <1>9

LEMMA TestStep ==
    ASSUME IoInv, NEW c \in Callers, DelTest(c)
    PROVE  IoInv'
<1> USE DEF IoInv
<1>1. call[c] \in Calls /\ call[c].op = "test" /\ rioh_fd[call[c].h] # NoFd
  <2>1. call[c] \in Calls /\ call[c].op = "test"
    BY DEF TypeOK, Calls, DelTest, InCall
  <2> QED  BY <2>1, ConstAssumption DEF CallInv, CallOK, Busy
<1>2. /\ call' = [call EXCEPT ![c] = [call[c] EXCEPT !.op = "clear"]]
      /\ UNCHANGED <<mem, refcnt, hnds, fault>>
  BY <1>1 DEF DelTest
<1>3. UNCHANGED <<rioh_fd, nonblock, events, epollVars, ioVars, failed>>
  BY DEF DelTest
<1>4. call'[c] \in Calls /\ call'[c].op = "clear" /\ call'[c].h = call[c].h
        /\ call'[c].fd = call[c].fd
  BY <1>1, <1>2 DEF TypeOK, Calls
<1>5. \A d \in Callers : d # c => call'[d] = call[d]
  BY <1>2 DEF TypeOK
<1>6. call' \in [Callers -> Calls]
  BY <1>2, <1>4 DEF TypeOK, Calls
<1>7. TypeOK'
  BY <1>2, <1>3, <1>6 DEF TypeOK, Calls, epollVars, ioVars
<1>8. StartInv'
  BY <1>3, <1>4, <1>5 DEF StartInv, epollVars
<1>9. FaultInv' /\ CallInv' /\ HndInv' /\ EpollInv' /\ WorkInv' /\ RefInv' /\ LateInv'
  BY <1>1, <1>2, <1>3, <1>4, <1>5, QuietFrame DEF epollVars, ioVars, Adding
<1> QED  BY <1>7, <1>8, <1>9

\* A step of caller c that concerns handle h alone leaves the counts of the
\* other handles right.
LEMMA RefsOthers ==
    ASSUME IoInv, NEW c \in Callers, NEW h,
           \A d \in Callers : d # c => call'[d] = call[d],
           Busy(c) => call[c].h = h,
           Busy(c)' => call'[c].h = h,
           UNCHANGED <<iopc, ready, job, jobpc>>,
           fault # "none" => fault' # "none",
           NEW g \in Hnds, g # h,
           Added(g)' <=> Added(g), mem'[g] = mem[g], rioh_fd'[g] = rioh_fd[g],
           refcnt'[g] = refcnt[g]
    PROVE  Refs(g)'
<1>1. Refs(g)
  BY DEF IoInv, RefInv
<1>2. \A d \in Callers : /\ On(d, g)' <=> On(d, g)
                         /\ Leaving(d, g)' <=> Leaving(d, g)
                         /\ On(d, g) => (Adding(d)' <=> Adding(d))
  BY DEF On, Busy, Leaving, Adding
<1>3. Own(g)' = Own(g) /\ CallRef(g)' = CallRef(g) /\ WorkRefs(g)' = WorkRefs(g)
  BY <1>2, WorkRefsSame DEF Own, CallRef
<1> QED  BY <1>1, <1>2, <1>3 DEF Refs

\* The same for the calls: the others' are as right as they were.
LEMMA CallsOthers ==
    ASSUME IoInv, NEW c \in Callers, NEW h, NEW d \in Callers, d # c,
           \A e \in Callers : e # c => call'[e] = call[e],
           Busy(d) => call[d].h # h,
           \A g \in Hnds : rioh_fd'[g] = rioh_fd[g] \/ (Busy(d) => rioh_fd'[g] # call[d].fd),
           \A g \in Hnds : g # h => /\ Added(g) => Added(g)'
                                    /\ mem'[g] = mem[g] /\ rioh_fd'[g] = rioh_fd[g]
    PROVE  CallOK(d)'
<1>1. CallOK(d)
  BY DEF IoInv, CallInv
<1>2. (Busy(d)' <=> Busy(d)) /\ (Adding(d)' <=> Adding(d)) /\ call'[d] = call[d]
  BY DEF Busy, Adding
<1> QED  BY <1>1, <1>2 DEF CallOK

\* The facts about the handle of a caller that is in a call.
LEMMA BusyFacts ==
    ASSUME IoInv, NEW c \in Callers, Busy(c)
    PROVE  /\ call[c] \in Calls /\ call[c].h \in Hnds /\ mem[call[c].h] = "live"
           /\ call[c].fd \in Fds /\ call[c].fd # NoFd /\ refcnt[call[c].h] \in Nat
           /\ CallRef(call[c].h) = 1
           /\ \A d \in Callers : d # c /\ Busy(d) =>
                call[d].h # call[c].h /\ call[d].fd # call[c].fd
<1>1. /\ call[c] \in Calls /\ call[c].h \in Hnds /\ mem[call[c].h] = "live"
      /\ call[c].fd \in Fds /\ call[c].fd # NoFd /\ refcnt[call[c].h] \in Nat
  BY ConstAssumption DEF IoInv, TypeOK, Calls, CallInv, CallOK
<1>2. CallRef(call[c].h) = 1
  BY DEF CallRef, On
<1>3. \A d \in Callers : d # c /\ Busy(d) =>
                call[d].h # call[c].h /\ call[d].fd # call[c].fd
  BY DEF IoInv, CallInv
<1> QED  BY <1>1, <1>2, <1>3

\* rd_io_add() fails and drops the reference of its rd_io_hnd_get(): a handle
\* that epoll knows keeps its others, one that it does not know is at 0.
LEMMA AddReturns ==
    ASSUME IoInv, NEW c \in Callers, NEW h, h = call[c].h, Adding(c),
           refcnt' = [refcnt EXCEPT ![h] = @ - 1],
           fault = "none", fault' = (IF Added(h) THEN "none" ELSE "assert"), failed',
           call' = [call EXCEPT ![c] = NoCall],
           UNCHANGED <<mem, rioh_fd, hnds, epset, ioVars>>
    PROVE  FaultInv' /\ CallInv' /\ HndInv' /\ EpollInv' /\ WorkInv' /\ RefInv' /\ LateInv'
<1> USE DEF IoInv
<1>1. Busy(c) /\ h \in Hnds
  BY BusyFacts DEF Busy, Adding
<1>2. call'[c] = NoCall /\ ~Busy(c)' /\ \A d \in Callers : d # c => call'[d] = call[d]
  BY DEF TypeOK, Busy, NoCall
<1>3. \A d \in Callers : d # c /\ Busy(d) => call[d].h # h /\ call[d].fd # call[c].fd
  BY <1>1, BusyFacts
<1>4. \A g : Added(g)' <=> Added(g)
  BY DEF Added
<1>5. FaultInv'
  BY DEF FaultInv
<1>6. CallInv'
  <2>1. ASSUME NEW d \in Callers PROVE CallOK(d)'
    <3>1. CASE d = c
      BY <1>2, <3>1 DEF CallOK
    <3>2. CASE d # c
      BY <1>2, <1>3, <1>4, <3>2, CallsOthers
    <3> QED  BY <3>1, <3>2
  <2>2. \A d, e \in Callers : Busy(d)' /\ Busy(e)' /\ d # e =>
            call'[d].fd # call'[e].fd /\ call'[d].h # call'[e].h
    BY <1>2 DEF CallInv, Busy
  <2> QED  BY <2>1, <2>2 DEF CallInv
<1>7. HndInv'
  <2>1. \A g \in Hnds : mem[g] = "none" => refcnt'[g] = refcnt[g]
    BY <1>1, BusyFacts DEF TypeOK
  <2> QED  BY <2>1 DEF HndInv
<1>8. EpollInv'
  <2>1. \A g : \A d \in Callers : Leaving(d, g) => Leaving(d, g)' /\ call'[d] = call[d]
    BY <1>2 DEF Leaving, Adding
  <2> QED  BY <2>1 DEF EpollInv
<1>9. WorkInv' /\ LateInv'
  BY <1>4 DEF WorkInv, LateInv, Late, ioVars
<1>10. ASSUME NEW g \in Hnds PROVE Refs(g)'
  <2>1. CASE g # h
    BY <1>1, <1>2, <1>4, <2>1, RefsOthers DEF TypeOK, ioVars, Busy
  <2>2. CASE g = h
    <3>1. Refs(h) /\ CallRef(h) = 1 /\ refcnt[h] \in Nat /\ refcnt'[h] = refcnt[h] - 1
      BY <1>1, BusyFacts DEF RefInv, TypeOK
    <3>2. CallRef(h)' = 0
      BY <1>2, <1>3 DEF CallRef, On, Busy
    <3>3. WorkRefs(h)' = WorkRefs(h) /\ WorkRefs(h) \in Nat
      BY WorkRefsSame, WorkRefsSum DEF ioVars
    <3>4. Own(h)' = Own(h) /\ Own(h) \in Nat
      <4>1. \A d \in Callers : Leaving(d, h)' <=> Leaving(d, h)
        BY <1>2 DEF Leaving, Adding, NoCall
      <4> QED  BY <4>1 DEF Own
    <3>5. Added(h)' => refcnt'[h] >= Own(h)' + CallRef(h)' + WorkRefs(h)'
      <4>1. SUFFICES ASSUME Added(h) PROVE refcnt[h] - 1 >= Own(h) + 0 + WorkRefs(h)
        BY <1>4, <3>1, <3>2, <3>3, <3>4
      <4>2. refcnt[h] >= Own(h) + 1 + WorkRefs(h)
        BY <3>1, <4>1 DEF Refs
      <4> QED  BY <3>1, <3>3, <3>4, <4>2
    <3>6. mem[h]' = "live" /\ ~Added(h)' => refcnt'[h] = CallRef(h)' /\ fault' # "none"
      BY <1>4, <3>1, <3>2 DEF Refs
    <3> QED  BY <2>2, <3>5, <3>6 DEF Refs
  <2> QED  BY <2>1, <2>2
<1> QED  BY <1>5, <1>6, <1>7, <1>8, <1>9, <1>10 DEF RefInv

LEMMA StartFailsStep ==
    ASSUME IoInv, NEW c \in Callers, AddStartFails(c)
    PROVE  IoInv'
<1> USE DEF IoInv
<1> DEFINE h == call[c].h
<1>1. /\ fault = "none" /\ call[c].op = "start" /\ Drop(h, 1, refcnt) /\ failed'
      /\ started' = started - 1
      /\ call' = [call EXCEPT ![c] = NoCall]
      /\ UNCHANGED <<rioh_fd, nonblock, events, epfd, epset, ioVars>>
  BY DEF AddStartFails, InCall, StartedTakenBack, Return
<1>2. /\ Busy(c) /\ Adding(c) /\ h \in Hnds /\ mem[h] = "live" /\ refcnt[h] \in Nat
      /\ rioh_fd[h] # NoFd /\ CallRef(h) = 1
  <2>1. Busy(c) /\ Adding(c)
    BY <1>1 DEF Busy, Adding
  <2>2. rioh_fd[h] = call[c].fd
    BY <1>1, <2>1 DEF CallInv, CallOK
  <2> QED  BY <2>1, <2>2, BusyFacts
<1>3. Refs(h) /\ refcnt \in [Hnds -> Nat]
  BY <1>2 DEF RefInv, TypeOK
<1>4. /\ refcnt' = [refcnt EXCEPT ![h] = @ - 1] /\ refcnt' \in [Hnds -> Nat]
      /\ UNCHANGED <<mem, hnds>>
      /\ fault' = (IF Added(h) THEN "none" ELSE "assert")
  <2>1. CASE Added(h)
    <3>1. refcnt[h] > 1
      <4>1. refcnt[h] >= Own(h) + CallRef(h) + WorkRefs(h)
        BY <1>3, <2>1 DEF Refs
      <4>2. Own(h) = 2
        BY <1>2 DEF Own
      <4> QED  BY <1>2, <4>1, <4>2, WorkRefsSum
    <3> QED  BY <1>1, <1>2, <1>3, <2>1, <3>1, DropKeeps
  <2>2. CASE ~Added(h)
    <3>1. refcnt[h] = 1
      BY <1>2, <1>3, <2>2 DEF Refs
    <3> QED  BY <1>1, <1>2, <1>3, <2>2, <3>1, DropAsserts
  <2> QED  BY <2>1, <2>2
<1>5. FaultInv' /\ CallInv' /\ HndInv' /\ EpollInv' /\ WorkInv' /\ RefInv' /\ LateInv'
  BY <1>1, <1>2, <1>4, AddReturns
<1>6. TypeOK'
  <2>1. NoCall \in Calls
    BY DEF NoCall, Calls
  <2>2. call' \in [Callers -> Calls]
    BY <1>1, <2>1 DEF TypeOK, Calls
  <2>3. started' \in Nat
    BY <1>1 DEF StartInv, TypeOK
  <2>4. failed' \in BOOLEAN
    BY DEF AddStartFails
  <2>5. fault' \in {"none", "assert", "uaf"}
    BY <1>4
  <2> QED  BY <1>1, <1>4, <2>2, <2>3, <2>4, <2>5 DEF TypeOK, Calls, ioVars
<1>7. StartInv'
  BY <1>1 DEF StartInv, TypeOK, NoCall
<1> QED  BY <1>5, <1>6, <1>7

LEMMA CtlFailsStep ==
    ASSUME IoInv, NEW c \in Callers, AddCtlFails(c)
    PROVE  IoInv'
<1> USE DEF IoInv
<1> DEFINE h == call[c].h
           cnt == [refcnt EXCEPT ![h] = @ + 1]
<1>1. /\ fault = "none" /\ call[c].op = "ctl" /\ Drop(h, 2, cnt) /\ failed'
      /\ call' = [call EXCEPT ![c] = NoCall]
      /\ UNCHANGED <<rioh_fd, nonblock, events, epollVars, ioVars>>
  BY DEF AddCtlFails, InCall, Return
<1>2. /\ Busy(c) /\ Adding(c) /\ h \in Hnds /\ mem[h] = "live" /\ refcnt[h] \in Nat
      /\ rioh_fd[h] # NoFd /\ CallRef(h) = 1
  <2>1. Busy(c) /\ Adding(c)
    BY <1>1 DEF Busy, Adding
  <2>2. rioh_fd[h] = call[c].fd
    BY <1>1, <2>1 DEF CallInv, CallOK
  <2> QED  BY <2>1, <2>2, BusyFacts
<1>3. Refs(h) /\ refcnt \in [Hnds -> Nat] /\ cnt \in [Hnds -> Nat] /\ cnt[h] = refcnt[h] + 1
  BY <1>2 DEF RefInv, TypeOK
<1>4. /\ refcnt' = [refcnt EXCEPT ![h] = @ - 1] /\ refcnt' \in [Hnds -> Nat]
      /\ UNCHANGED <<mem, hnds>>
      /\ fault' = (IF Added(h) THEN "none" ELSE "assert")
  <2>1. CASE Added(h)
    <3>1. cnt[h] > 2
      <4>1. refcnt[h] >= Own(h) + CallRef(h) + WorkRefs(h)
        BY <1>3, <2>1 DEF Refs
      <4>2. Own(h) = 2
        BY <1>2 DEF Own
      <4> QED  BY <1>2, <1>3, <4>1, <4>2, WorkRefsSum
    <3>2. refcnt' = [cnt EXCEPT ![h] = @ - 2] /\ refcnt' \in [Hnds -> Nat]
            /\ UNCHANGED <<mem, hnds, fault>>
      BY <1>1, <1>2, <1>3, <3>1, DropKeeps
    <3> QED  BY <1>1, <1>2, <1>3, <2>1, <3>2
  <2>2. CASE ~Added(h)
    <3>1. cnt[h] = 2
      BY <1>2, <1>3, <2>2 DEF Refs
    <3>2. refcnt' = [cnt EXCEPT ![h] = 0] /\ refcnt' \in [Hnds -> Nat]
            /\ UNCHANGED <<mem, hnds>> /\ fault' = "assert"
      BY <1>1, <1>2, <1>3, <3>1, DropAsserts
    <3> QED  BY <1>2, <1>3, <2>2, <3>1, <3>2
  <2> QED  BY <2>1, <2>2
<1>5. FaultInv' /\ CallInv' /\ HndInv' /\ EpollInv' /\ WorkInv' /\ RefInv' /\ LateInv'
  BY <1>1, <1>2, <1>4, AddReturns DEF epollVars
<1>6. TypeOK'
  <2>1. NoCall \in Calls
    BY DEF NoCall, Calls
  <2>2. call' \in [Callers -> Calls]
    BY <1>1, <2>1 DEF TypeOK, Calls
  <2>3. failed' \in BOOLEAN
    BY DEF AddCtlFails
  <2>4. fault' \in {"none", "assert", "uaf"}
    BY <1>4
  <2> QED  BY <1>1, <1>4, <2>2, <2>3, <2>4 DEF TypeOK, Calls, ioVars, epollVars
<1>7. StartInv'
  BY <1>1 DEF StartInv, TypeOK, NoCall, epollVars
<1> QED  BY <1>5, <1>6, <1>7

\* Before a call on a descriptor nobody works on it or on its handle.
LEMMA MayCallFacts ==
    ASSUME IoInv, NEW c \in Callers, NEW fd \in Fds, MayCall(c, fd)
    PROVE  /\ fault = "none" /\ ~Busy(c)
           /\ \A d \in Callers : call[d].fd # fd
           /\ \A h \in Hnds, d \in Callers : rioh_fd[h] = fd => ~On(d, h)
<1>1. fault = "none" /\ ~Busy(c) /\ \A d \in Callers : call[d].fd # fd
  BY DEF MayCall, InCall, Busy
<1>2. ASSUME NEW h \in Hnds, NEW d \in Callers, rioh_fd[h] = fd, On(d, h)
      PROVE  FALSE
  <2>1. CallOK(d) /\ Busy(d) /\ call[d].h = h
    BY <1>2 DEF IoInv, CallInv, On
  <2>2. rioh_fd[h] = IF call[d].op = "unreg" THEN NoFd ELSE call[d].fd
    BY <2>1 DEF CallOK
  <2> QED  BY <1>1, <1>2, <2>2, ConstAssumption
<1> QED  BY <1>1, <1>2

\* rd_io_hnd_get() finds the handle of the descriptor: epoll has known it, and
\* it gains the caller's reference.
LEMMA GetFound ==
    ASSUME IoInv, NEW c \in Callers, NEW fd \in Fds, MayCall(c, fd),
           NEW h \in Found(fd), NEW r \in Calls, r.h = h, r.fd = fd,
           r.op \in {"new", "test"},
           refcnt' = [refcnt EXCEPT ![h] = @ + 1],
           call' = [call EXCEPT ![c] = r],
           UNCHANGED <<mem, rioh_fd, nonblock, events, hnds, epollVars, ioVars, fault,
                       failed>>
    PROVE  IoInv'
<1> USE DEF IoInv
<1>1. h \in Hnds /\ mem[h] = "live" /\ rioh_fd[h] = fd /\ fd # NoFd
  BY ConstAssumption DEF Found, HndInv
<1>2. /\ fault = "none" /\ ~Busy(c) /\ \A d \in Callers : call[d].fd # fd
      /\ \A d \in Callers : ~On(d, h)
  BY <1>1, MayCallFacts
<1>3. Added(h) /\ refcnt[h] \in Nat /\ refcnt[h] >= Own(h) + CallRef(h) + WorkRefs(h)
  BY <1>1, <1>2 DEF RefInv, Refs, TypeOK
<1>4. call'[c] = r /\ Busy(c)' /\ \A d \in Callers : d # c => call'[d] = call[d]
  BY DEF TypeOK, Busy
<1>5. \A g : Added(g)' <=> Added(g)
  BY DEF Added, epollVars
<1>6. TypeOK'
  <2>1. refcnt' \in [Hnds -> Nat]
    BY <1>1 DEF TypeOK
  <2>2. call' \in [Callers -> Calls]
    BY DEF TypeOK, Calls
  <2> QED  BY <2>1, <2>2 DEF TypeOK, Calls, epollVars, ioVars
<1>7. FaultInv' /\ StartInv'
  BY <1>4 DEF FaultInv, StartInv, epollVars
<1>8. CallInv'
  <2>1. ASSUME NEW d \in Callers PROVE CallOK(d)'
    <3>1. CASE d = c
      BY <1>1, <1>3, <1>4, <1>5, <3>1 DEF CallOK
    <3>2. CASE d # c
      BY <1>2, <1>4, <1>5, <3>2, CallsOthers DEF On
    <3> QED  BY <3>1, <3>2
  <2>2. \A d \in Callers : d # c /\ Busy(d)' =>
            call'[d].fd # call'[c].fd /\ call'[d].h # call'[c].h
    BY <1>2, <1>4 DEF On, Busy
  <2>3. \A d, e \in Callers : d # c /\ e # c /\ Busy(d)' /\ Busy(e)' /\ d # e =>
            call'[d].fd # call'[e].fd /\ call'[d].h # call'[e].h
    BY <1>4 DEF CallInv, Busy
  <2> QED  BY <2>1, <2>2, <2>3 DEF CallInv
<1>9. HndInv'
  <2>1. \A g \in Hnds : mem[g] = "none" => refcnt'[g] = refcnt[g]
    BY <1>1 DEF TypeOK
  <2> QED  BY <2>1 DEF HndInv
<1>10. EpollInv'
  <2>1. \A g : \A d \in Callers : Leaving(d, g) => Leaving(d, g)' /\ call'[d] = call[d]
    BY <1>2, <1>4 DEF Leaving, Busy
  <2> QED  BY <2>1 DEF EpollInv, epollVars
<1>11. WorkInv' /\ LateInv'
  BY <1>5 DEF WorkInv, LateInv, Late, ioVars
<1>12. ASSUME NEW g \in Hnds PROVE Refs(g)'
  <2>1. CASE g # h
    BY <1>2, <1>4, <1>5, <2>1, RefsOthers DEF TypeOK, ioVars
  <2>2. CASE g = h
    <3>1. refcnt'[h] = refcnt[h] + 1
      BY <1>1 DEF TypeOK
    <3>2. CallRef(h) = 0 /\ CallRef(h)' = 1
      BY <1>2, <1>4 DEF CallRef, On
    <3>3. WorkRefs(h)' = WorkRefs(h) /\ WorkRefs(h) \in Nat
      BY WorkRefsSame, WorkRefsSum DEF ioVars
    <3>4. Own(h)' = 2 /\ Own(h) = 2
      BY <1>1 DEF Own
    <3>5. refcnt'[h] >= Own(h)' + CallRef(h)' + WorkRefs(h)'
      BY <1>3, <3>1, <3>2, <3>3, <3>4
    <3> QED  BY <1>3, <1>5, <2>2, <3>5 DEF Refs
  <2> QED  BY <2>1, <2>2
<1> QED  BY <1>6, <1>7, <1>8, <1>9, <1>10, <1>11, <1>12 DEF RefInv

\* rd_io_hnd_get() creates a handle: its only reference is the caller's.
LEMMA GetFresh ==
    ASSUME IoInv, NEW c \in Callers, NEW fd \in Fds, MayCall(c, fd), Found(fd) = {},
           NEW h \in Hnds, mem[h] = "none", NEW r \in Calls, r.h = h, r.fd = fd,
           r.op = "new",
           mem' = [mem EXCEPT ![h] = "live"],
           rioh_fd' = [rioh_fd EXCEPT ![h] = fd],
           hnds' = hnds \cup {h},
           refcnt' = [refcnt EXCEPT ![h] = @ + 1],
           call' = [call EXCEPT ![c] = r],
           UNCHANGED <<nonblock, events, epollVars, ioVars, fault, failed>>
    PROVE  IoInv'
<1> USE DEF IoInv
<1>1. fault = "none" /\ ~Busy(c) /\ \A d \in Callers : call[d].fd # fd
  BY MayCallFacts
<1>2. \A d \in Callers : Busy(d) => call[d].h # h
  BY DEF CallInv, CallOK
<1>3. call'[c] = r /\ Busy(c)' /\ \A d \in Callers : d # c => call'[d] = call[d]
  BY DEF TypeOK, Busy
<1>4. /\ mem'[h] = "live" /\ rioh_fd'[h] = fd /\ refcnt'[h] = 1 /\ fd # NoFd
      /\ \A g \in Hnds : g # h => /\ mem'[g] = mem[g] /\ rioh_fd'[g] = rioh_fd[g]
                                  /\ refcnt'[g] = refcnt[g]
  BY ConstAssumption DEF TypeOK, HndInv
<1>5. ~Added(h) /\ ~Added(h)' /\ \A g \in Hnds : g # h => (Added(g)' <=> Added(g))
  <2>1. epset[fd] # h
    BY ConstAssumption DEF EpollInv
  <2> QED  BY <1>4, <2>1 DEF Added, epollVars
<1>6. TypeOK'
  <2>1. refcnt' \in [Hnds -> Nat] /\ mem' \in [Hnds -> {"none", "live", "freed"}]
          /\ rioh_fd' \in [Hnds -> Fds \cup {NoFd}] /\ hnds' \subseteq Hnds
    BY DEF TypeOK
  <2>2. call' \in [Callers -> Calls]
    BY DEF TypeOK, Calls
  <2> QED  BY <2>1, <2>2 DEF TypeOK, Calls, epollVars, ioVars
<1>7. FaultInv' /\ StartInv'
  BY <1>3 DEF FaultInv, StartInv, epollVars
<1>8. CallInv'
  <2>1. ASSUME NEW d \in Callers PROVE CallOK(d)'
    <3>1. CASE d = c
      BY <1>3, <1>4, <3>1 DEF CallOK, Adding
    <3>2. CASE d # c
      <4>1. \A g \in Hnds : rioh_fd'[g] = rioh_fd[g] \/ rioh_fd'[g] # call[d].fd
        BY <1>1, <1>4
      <4> QED  BY <1>2, <1>3, <1>4, <1>5, <3>2, <4>1, CallsOthers
    <3> QED  BY <3>1, <3>2
  <2>2. \A d \in Callers : d # c /\ Busy(d)' =>
            call'[d].fd # call'[c].fd /\ call'[d].h # call'[c].h
    BY <1>1, <1>2, <1>3 DEF Busy
  <2>3. \A d, e \in Callers : d # c /\ e # c /\ Busy(d)' /\ Busy(e)' /\ d # e =>
            call'[d].fd # call'[e].fd /\ call'[d].h # call'[e].h
    BY <1>3 DEF CallInv, Busy
  <2> QED  BY <2>1, <2>2, <2>3 DEF CallInv
<1>9. HndInv'
  <2>1. hnds' = {g \in Hnds : mem'[g] = "live"}
    BY <1>4 DEF HndInv
  <2>2. \A g \in Hnds : mem'[g] # "freed"
    BY <1>4 DEF HndInv
  <2>3. \A g \in Hnds : mem'[g] = "none" => rioh_fd'[g] = NoFd /\ refcnt'[g] = 0
    BY <1>4 DEF HndInv
  <2>4. \A g \in Hnds : g # h => rioh_fd[g] # fd
    BY <1>4 DEF HndInv, Found, TypeOK
  <2>5. \A g, k \in Hnds : rioh_fd'[g] = rioh_fd'[k] /\ rioh_fd'[g] # NoFd => g = k
    BY <1>4, <2>4 DEF HndInv
  <2> QED  BY <2>1, <2>2, <2>3, <2>5 DEF HndInv
<1>10. EpollInv'
  <2>1. \A g : \A d \in Callers : Leaving(d, g) => Leaving(d, g)' /\ call'[d] = call[d]
    BY <1>1, <1>3 DEF Leaving, Busy
  <2>2. \A f \in Fds : epset[f] # NoHnd => epset[f] # h /\ epset[f] \in Hnds
    BY DEF EpollInv, TypeOK
  <2> QED  BY <1>4, <2>1, <2>2 DEF EpollInv, epollVars
<1>11. WorkInv'
  <2>1. \A i \in DOMAIN ready : ready[i] \in Hnds
    BY ElementOfSeq, LenProperties DEF TypeOK
  <2> QED  BY <1>5, <2>1 DEF WorkInv, ioVars
<1>12. LateInv'
  BY <1>4 DEF LateInv, Late, ioVars
<1>13. ASSUME NEW g \in Hnds PROVE Refs(g)'
  <2>1. CASE g # h
    BY <1>1, <1>3, <1>4, <1>5, <2>1, RefsOthers DEF ioVars
  <2>2. CASE g = h
    <3>1. On(c, h)' /\ Adding(c)'
      BY <1>3 DEF On, Adding
    <3>2. CallRef(h)' = 1
      BY <3>1 DEF CallRef
    <3> QED  BY <1>4, <1>5, <2>2, <3>1, <3>2 DEF Refs
  <2> QED  BY <2>1, <2>2
<1> QED  BY <1>6, <1>7, <1>8, <1>9, <1>10, <1>11, <1>12, <1>13 DEF RefInv

LEMMA AddGetStep ==
    ASSUME IoInv, NEW c \in Callers, NEW fd \in Fds, NEW nb \in BOOLEAN, AddGet(c, fd, nb)
    PROVE  IoInv'
<1>1. PICK h \in IF Found(fd) # {} THEN Found(fd) ELSE Fresh :
        /\ mem' = [mem EXCEPT ![h] = "live"]
        /\ rioh_fd' = [rioh_fd EXCEPT ![h] = fd]
        /\ hnds' = hnds \cup {h}
        /\ refcnt' = [refcnt EXCEPT ![h] = @ + 1]
        /\ call' = [call EXCEPT ![c] = [op |-> "new", h |-> h, fd |-> fd, nb |-> nb,
                                        new |-> FALSE]]
  BY DEF AddGet, Keep
<1>2. /\ MayCall(c, fd)
      /\ UNCHANGED <<nonblock, events, epollVars, ioVars, fault, failed>>
  BY DEF AddGet
<1>3. CASE Found(fd) # {}
  <2>1. h \in Found(fd) /\ h \in Hnds
    BY <1>1, <1>3 DEF Found, IoInv, TypeOK
  <2>2. [op |-> "new", h |-> h, fd |-> fd, nb |-> nb, new |-> FALSE] \in Calls
    BY <2>1 DEF Calls
  <2>3. UNCHANGED <<mem, rioh_fd, hnds>>
    BY <1>1, <2>1 DEF Found, IoInv, TypeOK, HndInv
  <2> QED  BY <1>1, <1>2, <2>1, <2>2, <2>3, GetFound
<1>4. CASE Found(fd) = {}
  <2>1. h \in Hnds /\ mem[h] = "none"
    BY <1>1, <1>4 DEF Fresh
  <2>2. [op |-> "new", h |-> h, fd |-> fd, nb |-> nb, new |-> FALSE] \in Calls
    BY <2>1 DEF Calls
  <2> QED  BY <1>1, <1>2, <1>4, <2>1, <2>2, GetFresh
<1> QED  BY <1>3, <1>4

LEMMA DelGetStep ==
    ASSUME IoInv, NEW c \in Callers, NEW fd \in Fds, DelGet(c, fd)
    PROVE  IoInv'
<1>1. PICK h \in Found(fd) :
        /\ refcnt' = [refcnt EXCEPT ![h] = @ + 1]
        /\ call' = [call EXCEPT ![c] = [op |-> "test", h |-> h, fd |-> fd,
                                        nb |-> FALSE, new |-> FALSE]]
  BY DEF DelGet, Keep
<1>2. /\ MayCall(c, fd)
      /\ UNCHANGED <<mem, rioh_fd, nonblock, events, hnds, epollVars, ioVars, fault, failed>>
  BY DEF DelGet
<1>3. [op |-> "test", h |-> h, fd |-> fd, nb |-> FALSE, new |-> FALSE] \in Calls
  BY <1>1 DEF Calls, Found, IoInv, TypeOK
<1> QED  BY <1>1, <1>2, <1>3, GetFound

\* epoll_ctl() succeeds: the handle keeps the caller's reference and epoll's.
LEMMA CtlStep ==
    ASSUME IoInv, NEW c \in Callers, AddCtl(c)
    PROVE  IoInv'
<1> USE DEF IoInv
<1>0. PICK h \in Hnds, fd \in Fds : h = call[c].h /\ fd = call[c].fd /\ Busy(c)
  BY BusyFacts DEF AddCtl, InCall, Busy
<1>1. /\ call[c].op = "ctl" /\ mem[h] = "live" /\ fd # NoFd /\ refcnt[h] \in Nat
      /\ CallRef(h) = 1 /\ rioh_fd[h] = fd /\ fault = "none" /\ Adding(c)
      /\ \A d \in Callers : d # c /\ Busy(d) => call[d].h # h /\ call[d].fd # fd
  <2>1. call[c].op = "ctl" /\ fault = "none"
    BY DEF AddCtl, InCall
  <2>2. rioh_fd[h] = fd
    BY <1>0, <2>1 DEF CallInv, CallOK
  <2> QED  BY <1>0, <2>1, <2>2, BusyFacts DEF Adding
<1>2. /\ epset' = [epset EXCEPT ![fd] = h]
      /\ refcnt' = [refcnt EXCEPT ![h] = @ + 1]
      /\ call' = [call EXCEPT ![c] = NoCall]
      /\ UNCHANGED <<mem, rioh_fd, nonblock, events, hnds, started, epfd, ioVars, fault, failed>>
  BY <1>0, <1>1 DEF AddCtl, Keep, Return
<1>3. call'[c] = NoCall /\ ~Busy(c)' /\ \A d \in Callers : d # c => call'[d] = call[d]
  BY <1>2 DEF TypeOK, Busy, NoCall
<1>4. epset'[fd] = h /\ \A f \in Fds : f # fd => epset'[f] = epset[f]
  BY <1>2 DEF TypeOK
<1>5. \A g \in Hnds : g # h => rioh_fd[g] # fd
  BY <1>1 DEF HndInv
<1>6. Added(h)' /\ \A g \in Hnds : g # h => (Added(g)' <=> Added(g))
  <2>1. Added(h)'
    BY <1>1, <1>2, <1>4 DEF Added
  <2>2. ASSUME NEW g \in Hnds, g # h PROVE Added(g)' <=> Added(g)
    <3>1. rioh_fd[g] # NoFd => rioh_fd[g] \in Fds
      BY DEF TypeOK
    <3> QED  BY <1>2, <1>4, <1>5, <2>2, <3>1 DEF Added
  <2> QED  BY <2>1, <2>2
<1>7. TypeOK'
  <2>1. refcnt' \in [Hnds -> Nat] /\ epset' \in [Fds -> Hnds \cup {NoHnd}]
    BY <1>2 DEF TypeOK
  <2>2. NoCall \in Calls
    BY DEF NoCall, Calls
  <2>3. call' \in [Callers -> Calls]
    BY <1>2, <2>2 DEF TypeOK, Calls
  <2> QED  BY <1>2, <2>1, <2>3 DEF TypeOK, Calls, ioVars
<1>8. FaultInv' /\ StartInv'
  BY <1>2, <1>3 DEF FaultInv, StartInv, NoCall
<1>9. CallInv'
  <2>1. ASSUME NEW d \in Callers PROVE CallOK(d)'
    <3>1. CASE d = c
      BY <1>3, <3>1 DEF CallOK
    <3>2. CASE d # c
      BY <1>1, <1>2, <1>3, <1>6, <3>2, CallsOthers
    <3> QED  BY <3>1, <3>2
  <2>2. \A d, e \in Callers : Busy(d)' /\ Busy(e)' /\ d # e =>
            call'[d].fd # call'[e].fd /\ call'[d].h # call'[e].h
    BY <1>3 DEF CallInv, Busy
  <2> QED  BY <2>1, <2>2 DEF CallInv
<1>10. HndInv'
  <2>1. \A g \in Hnds : mem[g] = "none" => refcnt'[g] = refcnt[g]
    BY <1>1, <1>2 DEF TypeOK
  <2> QED  BY <1>2, <2>1 DEF HndInv
<1>11. EpollInv'
  <2>1. \A g : \A d \in Callers : Leaving(d, g) => Leaving(d, g)' /\ call'[d] = call[d]
    BY <1>1, <1>3 DEF Leaving
  <2> QED  BY <1>1, <1>2, <1>4, <2>1 DEF EpollInv
<1>12. WorkInv'
  <2>1. \A g \in Hnds : Added(g) => Added(g)'
    BY <1>6
  <2>2. \A i \in DOMAIN ready : ready[i] \in Hnds
    BY ElementOfSeq, LenProperties DEF TypeOK
  <2> QED  BY <1>2, <2>1, <2>2 DEF WorkInv, ioVars
<1>13. LateInv'
  BY <1>2 DEF LateInv, Late, ioVars
<1>14. ASSUME NEW g \in Hnds PROVE Refs(g)'
  <2>1. CASE g # h
    BY <1>0, <1>1, <1>2, <1>3, <1>6, <2>1, RefsOthers DEF TypeOK, ioVars
  <2>2. CASE g = h
    <3>1. Refs(h) /\ refcnt'[h] = refcnt[h] + 1
      BY <1>1, <1>2 DEF RefInv, TypeOK
    <3>2. CallRef(h)' = 0
      BY <1>1, <1>3 DEF CallRef, On, Busy
    <3>3. WorkRefs(h)' = WorkRefs(h) /\ WorkRefs(h) \in Nat
      BY <1>2, WorkRefsSame, WorkRefsSum DEF ioVars
    <3>4. Own(h)' = 2 /\ Own(h) = 2
      BY <1>1, <1>2 DEF Own
    <3>5. refcnt'[h] >= Own(h)' + CallRef(h)' + WorkRefs(h)'
      <4>1. CASE Added(h)
        <5>1. refcnt[h] >= 2 + 1 + WorkRefs(h)
          BY <1>1, <3>1, <3>4, <4>1 DEF Refs
        <5> QED  BY <1>1, <3>1, <3>2, <3>3, <3>4, <5>1
      <4>2. CASE ~Added(h)
        <5>1. refcnt[h] = 1
          BY <1>1, <3>1, <4>2 DEF Refs
        <5>2. WorkRefs(h) = 0
          <6>1. Queued(h) = {} /\ Running(h) = {}
            BY <4>2 DEF WorkInv, Queued, Running
          <6>2. Calling(h) = 0
            <7>1. ready # <<>> => Head(ready) = ready[1] /\ 1 \in DOMAIN ready
              BY LenProperties, EmptySeq DEF TypeOK
            <7> QED  BY <4>2, <7>1 DEF WorkInv, Calling
          <6>3. Cardinality(Queued(h)) = 0 /\ Cardinality(Running(h)) = 0
            BY <6>1, FS_EmptySet
          <6> QED  BY <6>2, <6>3, WorkRefsSum
        <5> QED  BY <3>1, <3>2, <3>3, <3>4, <5>1, <5>2
      <4> QED  BY <4>1, <4>2
    <3> QED  BY <1>6, <2>2, <3>5 DEF Refs
  <2> QED  BY <2>1, <2>2
<1> QED  BY <1>7, <1>8, <1>9, <1>10, <1>11, <1>12, <1>13, <1>14 DEF RefInv

\* rd_io_del() decommissions the handle, which epoll still knows.
LEMMA ClearStep ==
    ASSUME IoInv, NEW c \in Callers, DelClear(c)
    PROVE  IoInv'
<1> USE DEF IoInv
<1>0. PICK h \in Hnds, fd \in Fds : h = call[c].h /\ fd = call[c].fd /\ Busy(c)
  BY BusyFacts DEF DelClear, InCall, Busy
<1>1. /\ call[c].op = "clear" /\ call[c] \in Calls /\ mem[h] = "live" /\ fd # NoFd
      /\ refcnt[h] \in Nat /\ rioh_fd[h] = fd /\ fault = "none" /\ Added(h)
      /\ \A d \in Callers : d # c /\ Busy(d) => call[d].h # h /\ call[d].fd # fd
  <2>1. call[c].op = "clear" /\ fault = "none"
    BY DEF DelClear, InCall
  <2>2. rioh_fd[h] = fd /\ Added(h)
    BY <1>0, <2>1 DEF CallInv, CallOK, Adding
  <2> QED  BY <1>0, <2>1, <2>2, BusyFacts
<1>2. /\ rioh_fd' = [rioh_fd EXCEPT ![h] = NoFd]
      /\ call' = [call EXCEPT ![c] = [call[c] EXCEPT !.op = "unreg"]]
      /\ UNCHANGED <<mem, refcnt, nonblock, events, hnds, epollVars, ioVars, fault, failed>>
  BY <1>0 DEF DelClear
<1>3. /\ call'[c] \in Calls /\ call'[c].op = "unreg" /\ call'[c].h = h /\ call'[c].fd = fd
      /\ \A d \in Callers : d # c => call'[d] = call[d]
  BY <1>0, <1>1, <1>2 DEF TypeOK, Calls
<1>4. rioh_fd'[h] = NoFd /\ \A g \in Hnds : g # h => rioh_fd'[g] = rioh_fd[g]
  BY <1>2 DEF TypeOK
<1>5. Added(h)' /\ \A g \in Hnds : Added(g)' <=> Added(g)
  BY <1>1, <1>2, <1>4 DEF Added, epollVars
<1>6. TypeOK'
  <2>1. rioh_fd' \in [Hnds -> Fds \cup {NoFd}]
    BY <1>2 DEF TypeOK
  <2>2. call' \in [Callers -> Calls]
    BY <1>2, <1>3 DEF TypeOK, Calls
  <2> QED  BY <1>2, <2>1, <2>2 DEF TypeOK, Calls, ioVars, epollVars
<1>7. FaultInv' /\ StartInv'
  BY <1>2, <1>3 DEF FaultInv, StartInv, epollVars
<1>8. CallInv'
  <2>1. ASSUME NEW d \in Callers PROVE CallOK(d)'
    <3>1. CASE d = c
      <4>1. \A g \in Hnds : rioh_fd'[g] # fd
        BY <1>1, <1>4 DEF HndInv
      <4> QED  BY <1>1, <1>2, <1>3, <1>4, <1>5, <3>1, <4>1 DEF CallOK
    <3>2. CASE d # c
      <4>1. Busy(d) => call[d].fd # NoFd
        BY BusyFacts
      <4>2. \A g \in Hnds : rioh_fd'[g] = rioh_fd[g] \/ (Busy(d) => rioh_fd'[g] # call[d].fd)
        BY <1>4, <4>1
      <4> QED  BY <1>1, <1>2, <1>3, <1>4, <1>5, <3>2, <4>2, CallsOthers
    <3> QED  BY <3>1, <3>2
  <2>2. \A d \in Callers : Busy(d)' => Busy(d) /\ call'[d].fd = call[d].fd /\ call'[d].h = call[d].h
    BY <1>0, <1>3 DEF Busy
  <2> QED  BY <2>1, <2>2 DEF CallInv
<1>9. HndInv'
  BY <1>1, <1>2, <1>4 DEF HndInv
<1>10. EpollInv'
  <2>1. ASSUME NEW f \in Fds, epset[f] # NoHnd
        PROVE  /\ mem'[epset[f]] = "live"
               /\ \/ rioh_fd'[epset[f]] = f
                  \/ \E d \in Callers : /\ call'[d].op = "unreg" /\ call'[d].h = epset[f]
                                        /\ call'[d].fd = f
    <3>1. /\ epset[f] \in Hnds /\ mem[epset[f]] = "live"
          /\ \/ rioh_fd[epset[f]] = f
             \/ \E d \in Callers : /\ call[d].op = "unreg" /\ call[d].h = epset[f]
                                   /\ call[d].fd = f
      BY <2>1 DEF EpollInv, TypeOK, Leaving
    <3>2. CASE rioh_fd[epset[f]] = f /\ epset[f] = h
      <4>1. f = fd
        BY <1>1, <3>2
      <4> QED  BY <1>1, <1>2, <1>3, <3>2, <4>1
    <3>3. CASE rioh_fd[epset[f]] = f /\ epset[f] # h
      BY <1>2, <1>4, <3>1, <3>3
    <3>4. CASE \E d \in Callers : /\ call[d].op = "unreg" /\ call[d].h = epset[f]
                                  /\ call[d].fd = f
      BY <1>1, <1>2, <1>3, <3>1, <3>4
    <3> QED  BY <3>1, <3>2, <3>3, <3>4
  <2> QED  BY <1>2, <2>1 DEF EpollInv, Leaving, epollVars
<1>11. WorkInv'
  <2>1. \A i \in DOMAIN ready : ready[i] \in Hnds
    BY ElementOfSeq, LenProperties DEF TypeOK
  <2> QED  BY <1>2, <1>5, <2>1 DEF WorkInv, ioVars
<1>12. LateInv'
  BY <1>1, <1>2, <1>4 DEF LateInv, Late, ioVars
<1>13. ASSUME NEW g \in Hnds PROVE Refs(g)'
  <2>1. CASE g # h
    BY <1>0, <1>2, <1>3, <1>4, <1>5, <2>1, RefsOthers DEF ioVars
  <2>2. CASE g = h
    <3>1. Refs(h)
      BY DEF RefInv
    <3>2. On(c, h) /\ On(c, h)' /\ Leaving(c, h)'
      BY <1>0, <1>3 DEF On, Busy, Leaving
    <3>3. CallRef(h)' = 1 /\ CallRef(h) = 1 /\ Own(h)' = 2 /\ Own(h) = 2
      BY <1>1, <3>2 DEF CallRef, Own
    <3>4. WorkRefs(h)' = WorkRefs(h)
      BY <1>2, WorkRefsSame DEF ioVars
    <3>5. refcnt'[h] >= Own(h)' + CallRef(h)' + WorkRefs(h)'
      BY <1>1, <1>2, <3>1, <3>3, <3>4 DEF Refs
    <3> QED  BY <1>5, <2>2, <3>5 DEF Refs
  <2> QED  BY <2>1, <2>2
<1> QED  BY <1>6, <1>7, <1>8, <1>9, <1>10, <1>11, <1>12, <1>13 DEF RefInv

\* epoll forgets the handle and rd_io_del() drops two references; one remains.
LEMMA UnregStep ==
    ASSUME IoInv, NEW c \in Callers, DelUnreg(c)
    PROVE  IoInv'
<1> USE DEF IoInv
<1>0. PICK h \in Hnds, fd \in Fds : h = call[c].h /\ fd = call[c].fd /\ Busy(c)
  BY BusyFacts DEF DelUnreg, InCall, Busy
<1>1. /\ call[c].op = "unreg" /\ mem[h] = "live" /\ fd # NoFd /\ CallRef(h) = 1
      /\ refcnt[h] \in Nat /\ rioh_fd[h] = NoFd /\ fault = "none" /\ Added(h)
      /\ \A d \in Callers : d # c /\ Busy(d) => call[d].h # h /\ call[d].fd # fd
  <2>1. call[c].op = "unreg" /\ fault = "none"
    BY DEF DelUnreg, InCall
  <2>2. rioh_fd[h] = NoFd /\ Added(h)
    BY <1>0, <2>1 DEF CallInv, CallOK, Adding
  <2> QED  BY <1>0, <2>1, <2>2, BusyFacts
<1>2. Refs(h) /\ WorkRefs(h) \in Nat /\ Own(h) = 2 /\ refcnt[h] >= 3 + WorkRefs(h)
  <2>1. Refs(h) /\ WorkRefs(h) \in Nat
    BY WorkRefsSum DEF RefInv
  <2>2. Own(h) = 2
    BY <1>0, <1>1 DEF Own, Leaving
  <2>3. refcnt[h] >= 2 + 1 + WorkRefs(h)
    BY <1>1, <2>1, <2>2 DEF Refs
  <2> QED  BY <1>1, <2>1, <2>2, <2>3
<1>3. /\ refcnt' = [refcnt EXCEPT ![h] = @ - 2] /\ refcnt' \in [Hnds -> Nat]
      /\ epset' = [epset EXCEPT ![fd] = NoHnd]
      /\ call' = [call EXCEPT ![c] = NoCall]
      /\ UNCHANGED <<mem, hnds, rioh_fd, nonblock, events, started, epfd, ioVars, fault, failed>>
  <2>1. Drop(h, 2, refcnt)
    BY <1>0 DEF DelUnreg, DelRefs
  <2>2. refcnt[h] > 2 /\ refcnt \in [Hnds -> Nat]
    BY <1>1, <1>2 DEF TypeOK
  <2>3. /\ refcnt' = [refcnt EXCEPT ![h] = @ - 2] /\ refcnt' \in [Hnds -> Nat]
        /\ UNCHANGED <<mem, hnds, fault>>
    BY <1>1, <2>1, <2>2, DropKeeps
  <2>4. /\ epset' = [epset EXCEPT ![fd] = NoHnd]
        /\ call' = [call EXCEPT ![c] = NoCall]
        /\ UNCHANGED <<rioh_fd, nonblock, events, started, epfd, ioVars, failed>>
    BY <1>0 DEF DelUnreg, Unregistered, Return
  <2> QED  BY <2>3, <2>4
<1>4. call'[c] = NoCall /\ ~Busy(c)' /\ \A d \in Callers : d # c => call'[d] = call[d]
  BY <1>3 DEF TypeOK, Busy, NoCall
<1>5. epset'[fd] = NoHnd /\ \A f \in Fds : f # fd => epset'[f] = epset[f]
  BY <1>3 DEF TypeOK
<1>6. Added(h)' /\ \A g \in Hnds : Added(g)' <=> Added(g)
  <2>1. ASSUME NEW g \in Hnds PROVE Added(g)' <=> Added(g)
    <3>1. (rioh_fd[g] # NoFd => rioh_fd[g] \in Fds) /\ rioh_fd[g] # fd
      BY <1>0, <1>1 DEF TypeOK, CallInv, CallOK
    <3> QED  BY <1>3, <1>5, <3>1 DEF Added
  <2> QED  BY <1>1, <2>1
<1>7. TypeOK'
  <2>1. epset' \in [Fds -> Hnds \cup {NoHnd}]
    BY <1>3 DEF TypeOK
  <2>2. NoCall \in Calls
    BY DEF NoCall, Calls
  <2>3. call' \in [Callers -> Calls]
    BY <1>3, <2>2 DEF TypeOK, Calls
  <2> QED  BY <1>3, <2>1, <2>3 DEF TypeOK, Calls, ioVars
<1>8. FaultInv' /\ StartInv'
  BY <1>3, <1>4 DEF FaultInv, StartInv, NoCall
<1>9. CallInv'
  <2>1. ASSUME NEW d \in Callers PROVE CallOK(d)'
    <3>1. CASE d = c
      BY <1>4, <3>1 DEF CallOK
    <3>2. CASE d # c
      BY <1>1, <1>3, <1>4, <1>6, <3>2, CallsOthers
    <3> QED  BY <3>1, <3>2
  <2>2. \A d, e \in Callers : Busy(d)' /\ Busy(e)' /\ d # e =>
            call'[d].fd # call'[e].fd /\ call'[d].h # call'[e].h
    BY <1>4 DEF CallInv, Busy
  <2> QED  BY <2>1, <2>2 DEF CallInv
<1>10. HndInv'
  <2>1. \A g \in Hnds : mem[g] = "none" => refcnt'[g] = refcnt[g]
    BY <1>1, <1>3 DEF TypeOK
  <2> QED  BY <1>3, <2>1 DEF HndInv
<1>11. EpollInv'
  <2>1. ASSUME NEW f \in Fds, epset'[f] # NoHnd
        PROVE  /\ mem'[epset'[f]] = "live"
               /\ \/ rioh_fd'[epset'[f]] = f
                  \/ \E d \in Callers : /\ call'[d].op = "unreg" /\ call'[d].h = epset'[f]
                                        /\ call'[d].fd = f
    <3>1. f # fd /\ epset'[f] = epset[f]
      BY <1>5, <2>1
    <3>2. /\ mem[epset[f]] = "live"
          /\ \/ rioh_fd[epset[f]] = f
             \/ \E d \in Callers : /\ call[d].op = "unreg" /\ call[d].h = epset[f]
                                   /\ call[d].fd = f
      BY <2>1, <3>1 DEF EpollInv, Leaving
    <3>3. \A d \in Callers : call[d].fd = f => call'[d] = call[d]
      BY <1>0, <1>4, <3>1
    <3> QED  BY <1>3, <3>1, <3>2, <3>3
  <2> QED  BY <2>1 DEF EpollInv, Leaving
<1>12. WorkInv'
  <2>1. \A i \in DOMAIN ready : ready[i] \in Hnds
    BY ElementOfSeq, LenProperties DEF TypeOK
  <2> QED  BY <1>3, <1>6, <2>1 DEF WorkInv, ioVars
<1>13. LateInv'
  BY <1>3 DEF LateInv, Late, ioVars
<1>14. ASSUME NEW g \in Hnds PROVE Refs(g)'
  <2>1. CASE g # h
    BY <1>0, <1>3, <1>4, <1>6, <2>1, RefsOthers DEF TypeOK, ioVars
  <2>2. CASE g = h
    <3>1. refcnt'[h] = refcnt[h] - 2
      BY <1>3 DEF TypeOK
    <3>2. CallRef(h)' = 0 /\ Own(h)' = 1
      BY <1>1, <1>3, <1>4 DEF CallRef, Own, On, Busy, Leaving, NoCall
    <3>3. WorkRefs(h)' = WorkRefs(h)
      BY <1>3, WorkRefsSame DEF ioVars
    <3>4. refcnt'[h] >= Own(h)' + CallRef(h)' + WorkRefs(h)'
      BY <1>1, <1>2, <3>1, <3>2, <3>3
    <3> QED  BY <1>6, <2>2, <3>4 DEF Refs
  <2> QED  BY <2>1, <2>2
<1> QED  BY <1>7, <1>8, <1>9, <1>10, <1>11, <1>12, <1>13, <1>14 DEF RefInv

-----------------------------------------------------------------------------
(***************************************************************************)
(* The steps of the I/O thread and of the workers.                         *)
(***************************************************************************)
LEMMA ReadyFacts ==
    ASSUME IoInv
    PROVE  /\ \A i \in DOMAIN ready : ready[i] \in Hnds /\ Added(ready[i])
           /\ ready # <<>> =>
                /\ Head(ready) \in Hnds /\ Added(Head(ready))
                /\ Tail(ready) \in Seq(Hnds)
                /\ \A i \in DOMAIN Tail(ready) : \E j \in DOMAIN ready : Tail(ready)[i] = ready[j]
<1>1. ready \in Seq(Hnds) /\ \A i \in DOMAIN ready : Added(ready[i])
  BY DEF IoInv, TypeOK, WorkInv
<1>2. \A i \in DOMAIN ready : ready[i] \in Hnds
  BY <1>1, ElementOfSeq, LenProperties
<1>3. ASSUME ready # <<>>
      PROVE  /\ Head(ready) = ready[1] /\ 1 \in DOMAIN ready
             /\ Tail(ready) \in Seq(Hnds)
             /\ \A i \in DOMAIN Tail(ready) : \E j \in DOMAIN ready : Tail(ready)[i] = ready[j]
  <2>1. /\ Head(ready) = ready[1] /\ 1 \in DOMAIN ready
        /\ Tail(ready) \in Seq(Hnds) /\ Len(Tail(ready)) = Len(ready) - 1
        /\ Len(ready) \in Nat /\ DOMAIN ready = 1..Len(ready)
        /\ \A i \in 1..Len(Tail(ready)) : Tail(ready)[i] = ready[i + 1]
    BY <1>1, <1>3, HeadTailProperties, LenProperties, EmptySeq
  <2>2. DOMAIN Tail(ready) = 1..Len(Tail(ready))
    BY <2>1, LenProperties
  <2>3. \A i \in DOMAIN Tail(ready) : i + 1 \in DOMAIN ready
    BY <2>1, <2>2
  <2> QED  BY <2>1, <2>2, <2>3
<1> QED  BY <1>1, <1>2, <1>3

\* A step of the I/O thread that takes no event to a worker: its own call of a
\* handler is the only reference that can come or go.
LEMMA IoThreadFrame ==
    ASSUME IoInv,
           UNCHANGED <<mem, rioh_fd, nonblock, events, hnds, epollVars, call, job, jobpc,
                       late, failed, fault>>,
           ready' \in Seq(Hnds), iopc' \in {"poll", "loop", "get", "handler"},
           left' \in 0..MaxReady,
           \A i \in DOMAIN ready' : Added(ready'[i]),
           iopc' \in {"get", "handler"} => ready' # <<>>,
           iopc' = "get" => rioh_fd[Head(ready')] # NoFd,
           refcnt' \in [Hnds -> Nat],
           \A h \in Hnds : ~Added(h) => refcnt'[h] = refcnt[h],
           \A h \in Hnds : Added(h) => refcnt'[h] - refcnt[h] >= Calling(h)' - Calling(h)
    PROVE  IoInv'
<1> USE DEF IoInv
<1>1. \A h : Added(h)' <=> Added(h)
  BY DEF Added, epollVars
<1>2. TypeOK'
  BY DEF TypeOK, epollVars
<1>3. WorkInv'
  BY <1>1 DEF WorkInv
<1>4. LateInv'
  BY DEF LateInv, Late
<1>5. \A h \in Hnds : WorkRefs(h)' - WorkRefs(h) = Calling(h)' - Calling(h)
  BY WorkRefsCalling
<1>6. FaultInv' /\ StartInv' /\ CallInv' /\ HndInv' /\ EpollInv' /\ RefInv'
  BY <1>5, IoFrame DEF epollVars
<1> QED  BY <1>2, <1>3, <1>4, <1>6

LEMMA PollStep ==
    ASSUME IoInv, Poll
    PROVE  IoInv'
<1> USE DEF IoInv
<1>1. PICK fds \in SUBSET {fd \in Fds : epset[fd] # NoHnd} :
        /\ Cardinality(fds) <= left
        /\ left' = left - Cardinality(fds)
        /\ \E order \in [1..Cardinality(fds) -> fds] :
            ready' = [i \in DOMAIN order |-> epset[order[i]]]
  BY DEF Poll
<1>2. PICK order \in [1..Cardinality(fds) -> fds] :
            ready' = [i \in DOMAIN order |-> epset[order[i]]]
  BY <1>1
<1>3. iopc = "poll" /\ iopc' = "loop"
      /\ UNCHANGED <<hndVars, epollVars, call, job, jobpc, late, fault, failed>>
  BY DEF Poll, IoAt
<1>4. Cardinality(fds) \in Nat
  <2>1. IsFiniteSet(fds)
    BY <1>1, FS_Subset, ConstAssumption
  <2> QED  BY <2>1, FS_CardinalityType
<1>5. left' \in 0..MaxReady
  BY <1>1, <1>4, ConstAssumption DEF TypeOK
<1>6. ASSUME NEW fd \in fds
      PROVE  epset[fd] \in Hnds /\ Added(epset[fd])
  <2>1. fd \in Fds /\ epset[fd] # NoHnd /\ epset[fd] \in Hnds
    BY <1>1 DEF TypeOK
  <2>2. CASE rioh_fd[epset[fd]] = fd
    BY <2>1, <2>2 DEF EpollInv, Added
  <2>3. CASE \E c \in Callers : Leaving(c, epset[fd])
    BY <2>1, <2>3 DEF EpollInv, Added, CallInv, CallOK, Leaving, Busy
  <2> QED  BY <2>1, <2>2, <2>3 DEF EpollInv
<1>7. ready' \in Seq(Hnds) /\ DOMAIN ready' = 1..Cardinality(fds)
  <2>1. ready' \in [1..Cardinality(fds) -> Hnds]
    BY <1>2, <1>6
  <2> QED  BY <1>4, <2>1, SeqDef
<1>8. \A i \in DOMAIN ready' : Added(ready'[i])
  BY <1>2, <1>6, <1>7
<1>9. \A h : Calling(h) = 0 /\ Calling(h)' = 0
  BY <1>3 DEF Calling
<1> QED  BY <1>3, <1>5, <1>7, <1>8, <1>9, IoThreadFrame DEF TypeOK, hndVars

LEMMA LoopStep ==
    ASSUME IoInv, Loop
    PROVE  IoInv'
<1> USE DEF IoInv
<1>1. PICK h \in Hnds : h = Head(ready) /\ Added(h) /\ mem[h] = "live" /\ ready # <<>>
  BY ReadyFacts DEF Loop, Added
<1>2. /\ iopc = "loop" /\ fault' = fault
      /\ UNCHANGED <<mem, rioh_fd, nonblock, events, hnds, epollVars, call, left, job,
                     jobpc, late, failed>>
  BY <1>1 DEF Loop, IoAt
<1>3. \A g : Calling(g) = 0
  BY <1>2 DEF Calling
<1>4. CASE Decommissioned(h)
  <2>1. ready' = Tail(ready) /\ UNCHANGED <<iopc, refcnt>>
    BY <1>1, <1>4 DEF Loop
  <2>2. \A g : Calling(g)' = 0
    BY <1>2, <2>1 DEF Calling
  <2>3. \A i \in DOMAIN ready' : Added(ready'[i])
    BY <1>1, <2>1, ReadyFacts
  <2>4. ready' \in Seq(Hnds)
    BY <1>1, <2>1, ReadyFacts
  <2>5. /\ iopc' = "loop" /\ left' \in 0..MaxReady /\ refcnt' \in [Hnds -> Nat]
        /\ \A g \in Hnds : refcnt'[g] = refcnt[g] /\ refcnt[g] \in Nat
    BY <1>2, <2>1 DEF TypeOK
  <2>6. \A g \in Hnds : refcnt'[g] - refcnt[g] >= Calling(g)' - Calling(g)
    BY <1>3, <2>2, <2>5
  <2> QED  BY <1>2, <2>3, <2>4, <2>5, <2>6, IoThreadFrame
<1>5. CASE ~Decommissioned(h) /\ nonblock[h]
  <2>1. iopc' = "handler" /\ refcnt' = [refcnt EXCEPT ![h] = @ + 1] /\ UNCHANGED ready
    BY <1>1, <1>5 DEF Loop, Keep
  <2>2. \A g : Calling(g)' = IF g = h THEN 1 ELSE 0
    BY <1>1, <2>1 DEF Calling
  <2>3. refcnt' \in [Hnds -> Nat] /\ \A g \in Hnds : refcnt'[g] - refcnt[g] = IF g = h THEN 1 ELSE 0
    BY <2>1 DEF TypeOK
  <2>4. \A g \in Hnds : ~Added(g) => refcnt'[g] = refcnt[g]
    BY <1>1, <2>1 DEF TypeOK
  <2>5. ready' \in Seq(Hnds) /\ left' \in 0..MaxReady
    BY <1>2, <2>1 DEF TypeOK
  <2>6. \A i \in DOMAIN ready' : Added(ready'[i])
    BY <2>1, ReadyFacts
  <2>7. \A g \in Hnds : Added(g) => refcnt'[g] - refcnt[g] >= Calling(g)' - Calling(g)
    BY <1>3, <2>2, <2>3
  <2> QED  BY <1>1, <1>2, <2>1, <2>3, <2>4, <2>5, <2>6, <2>7, IoThreadFrame
<1>6. CASE ~Decommissioned(h) /\ ~nonblock[h]
  <2>1. iopc' = "get" /\ UNCHANGED <<ready, refcnt>>
    BY <1>1, <1>6 DEF Loop
  <2>2. \A g : Calling(g)' = 0
    BY <2>1 DEF Calling
  <2>3. rioh_fd[h] # NoFd
    BY <1>6 DEF Decommissioned
  <2>4. \A i \in DOMAIN ready' : Added(ready'[i])
    BY <2>1, ReadyFacts
  <2> QED  BY <1>1, <1>2, <1>3, <2>1, <2>2, <2>3, <2>4, IoThreadFrame DEF TypeOK
<1> QED  BY <1>4, <1>5, <1>6

LEMMA LoopEndStep ==
    ASSUME IoInv, LoopEnd
    PROVE  IoInv'
<1>1. /\ iopc = "loop" /\ iopc' = "poll"
      /\ UNCHANGED <<hndVars, epollVars, call, ready, left, job, jobpc, late, fault, failed>>
  BY DEF LoopEnd, IoAt
<1>2. \A h : Calling(h) = 0 /\ Calling(h)' = 0
  BY <1>1 DEF Calling
<1>3. \A i \in DOMAIN ready' : Added(ready'[i])
  BY <1>1, ReadyFacts
<1> QED  BY <1>1, <1>2, <1>3, IoThreadFrame DEF IoInv, TypeOK, hndVars

LEMMA HandlerStep ==
    ASSUME IoInv, HandlerReturns
    PROVE  IoInv'
<1> USE DEF IoInv
<1>1. iopc = "handler" /\ ready # <<>>
  BY DEF HandlerReturns, IoAt, WorkInv
<1>2. PICK h \in Hnds : h = Head(ready) /\ Added(h) /\ mem[h] = "live"
  BY <1>1, ReadyFacts DEF Added
<1>3. /\ Drop(h, 1, refcnt) /\ ready' = Tail(ready) /\ iopc' = "loop"
      /\ UNCHANGED <<rioh_fd, nonblock, events, epollVars, call, left, job, jobpc, late, failed>>
  BY <1>2 DEF HandlerReturns
<1>4. \A g : Calling(g) = (IF g = h THEN 1 ELSE 0) /\ Calling(g)' = 0
  BY <1>1, <1>2, <1>3 DEF Calling
<1>5. refcnt \in [Hnds -> Nat] /\ refcnt[h] > 1
  <2>1. /\ refcnt[h] >= Own(h) + CallRef(h) + WorkRefs(h)
        /\ refcnt \in [Hnds -> Nat] /\ refcnt[h] \in Nat
    BY <1>2 DEF RefInv, Refs, TypeOK
  <2>2. Own(h) \in {1, 2} /\ CallRef(h) \in {0, 1}
    BY DEF Own, CallRef
  <2>3. WorkRefs(h) \in Nat /\ WorkRefs(h) >= 1
    BY <1>4, WorkRefsSum, JobsFinite
  <2> QED  BY <2>1, <2>2, <2>3
<1>6. /\ refcnt' = [refcnt EXCEPT ![h] = @ - 1] /\ refcnt' \in [Hnds -> Nat]
      /\ UNCHANGED <<mem, hnds, fault>>
  BY <1>2, <1>3, <1>5, DropKeeps
<1>7. \A g \in Hnds : refcnt'[g] - refcnt[g] >= Calling(g)' - Calling(g)
  BY <1>4, <1>5, <1>6
<1>8. \A g \in Hnds : ~Added(g) => refcnt'[g] = refcnt[g]
  BY <1>2, <1>5, <1>6
<1>9. ready' \in Seq(Hnds) /\ \A i \in DOMAIN ready' : Added(ready'[i])
  BY <1>1, <1>3, ReadyFacts
<1> QED  BY <1>3, <1>6, <1>7, <1>8, <1>9, IoThreadFrame DEF TypeOK

\* The references of the other handles are those of before when one worker's
\* job changes.
LEMMA OtherJobs ==
    ASSUME NEW w \in Workers, NEW h, NEW g, g # h,
           \A v \in Workers : v # w => job'[v] = job[v] /\ jobpc'[v] = jobpc[v],
           jobpc[w] \in {"queued", "running"} => job[w] = h,
           jobpc'[w] \in {"queued", "running"} => job'[w] = h,
           Calling(g)' = Calling(g)
    PROVE  WorkRefs(g)' = WorkRefs(g)
<1>1. Queued(g)' = Queued(g) /\ Running(g)' = Running(g)
  BY DEF Queued, Running
<1> QED  BY <1>1, WorkRefsSum, WorkRefsSumNext

\* A nonempty set of natural numbers has a least element.
LEMMA LeastElement ==
    ASSUME NEW T, T \subseteq Nat, T # {}
    PROVE  \E x \in T : \A y \in T : x <= y
<1>1. PICK x \in T : \A y \in T : ~(<<y, x>> \in OpToRel(<, Nat))
  BY WFMin, NatLessThanWellFounded
<1>2. \A y \in T : ~(y < x)
  BY <1>1 DEF OpToRel
<1> QED  BY <1>2

\* A worker of the lowest number is there when one is free.
LEMMA FirstFree ==
    ASSUME FreeWorkers # {}
    PROVE  (CHOOSE v \in FreeWorkers : \A u \in FreeWorkers : v <= u) \in FreeWorkers
<1>1. FreeWorkers \subseteq Nat
  BY ConstAssumption DEF FreeWorkers, Workers
<1>2. \E x \in FreeWorkers : \A y \in FreeWorkers : x <= y
  BY <1>1, LeastElement
<1> QED  BY <1>2

LEMMA EnqueueStep ==
    ASSUME IoInv, Enqueue
    PROVE  IoInv'
<1> USE DEF IoInv
<1>1. iopc = "get" /\ ready # <<>> /\ FreeWorkers # {}
  BY DEF Enqueue, IoAt, WorkInv
<1>2. PICK h \in Hnds : h = Head(ready) /\ Added(h) /\ mem[h] = "live"
  BY <1>1, ReadyFacts DEF Added
<1>3. PICK w \in FreeWorkers :
        w = CHOOSE v \in FreeWorkers : \A u \in FreeWorkers : v <= u
  BY <1>1, FirstFree
<1>4. /\ job' = [job EXCEPT ![w] = h]
      /\ jobpc' = [jobpc EXCEPT ![w] = "queued"]
      /\ refcnt' = [refcnt EXCEPT ![h] = @ + 1]
      /\ late' = [late EXCEPT ![h] = IF rioh_fd[h] = NoFd THEN @ + 1 ELSE @]
      /\ ready' = Tail(ready) /\ iopc' = "loop"
      /\ UNCHANGED <<mem, rioh_fd, nonblock, events, hnds, epollVars, call, left, fault, failed>>
  BY <1>2, <1>3 DEF Enqueue, WorkRef, Keep
<1>5. w \in Workers /\ jobpc[w] = "none"
  BY <1>3 DEF FreeWorkers
<1>6. /\ job'[w] = h /\ jobpc'[w] = "queued"
      /\ \A v \in Workers : v # w => job'[v] = job[v] /\ jobpc'[v] = jobpc[v]
  BY <1>4, <1>5 DEF TypeOK
<1>7. \A g : Calling(g) = 0 /\ Calling(g)' = 0
  BY <1>1, <1>4 DEF Calling
<1>8. WorkRefs(h)' = WorkRefs(h) + 1
  <2>1. Queued(h)' = Queued(h) \cup {w} /\ w \notin Queued(h) /\ Running(h)' = Running(h)
    BY <1>5, <1>6 DEF Queued, Running
  <2>2. Cardinality(Queued(h)') = Cardinality(Queued(h)) + 1
    BY <2>1, JobsFinite, FS_AddElement
  <2>3. /\ WorkRefs(h) = Cardinality(Queued(h)) + 2 * Cardinality(Running(h)) + Calling(h)
        /\ WorkRefs(h)' = Cardinality(Queued(h)') + 2 * Cardinality(Running(h)') + Calling(h)'
    BY WorkRefsSum, WorkRefsSumNext
  <2>4. Cardinality(Queued(h)) \in Nat /\ Cardinality(Running(h)) \in Nat
    BY JobsFinite
  <2> QED  BY <1>7, <2>1, <2>2, <2>3, <2>4
<1>9. \A g \in Hnds : g # h => WorkRefs(g)' = WorkRefs(g)
  BY <1>5, <1>6, <1>7, OtherJobs
<1>10. \A g : Added(g)' <=> Added(g)
  BY <1>4 DEF Added, epollVars
<1>11. refcnt' \in [Hnds -> Nat] /\ \A g \in Hnds : refcnt[g] \in Nat
        /\ refcnt'[g] = refcnt[g] + (IF g = h THEN 1 ELSE 0)
  BY <1>4 DEF TypeOK
<1>12. FaultInv' /\ StartInv' /\ CallInv' /\ HndInv' /\ EpollInv' /\ RefInv'
  <2>1. \A g \in Hnds : ~Added(g) => refcnt'[g] = refcnt[g]
    BY <1>2, <1>11
  <2>2. \A g \in Hnds : refcnt'[g] - refcnt[g] >= WorkRefs(g)' - WorkRefs(g)
    BY <1>8, <1>9, <1>11, WorkRefsSum
  <2> QED  BY <1>4, <1>11, <2>1, <2>2, IoFrame DEF epollVars
<1>13. TypeOK'
  <2>1. job' \in [Workers -> Hnds \cup {NoHnd}]
    BY <1>4 DEF TypeOK
  <2>2. jobpc' \in [Workers -> {"none", "queued", "running", "done"}]
    BY <1>4 DEF TypeOK
  <2>3. late' \in [Hnds -> Nat]
    BY <1>4 DEF TypeOK
  <2>4. ready' \in Seq(Hnds)
    BY <1>1, <1>4, ReadyFacts
  <2> QED  BY <1>4, <1>11, <2>1, <2>2, <2>3, <2>4 DEF TypeOK, epollVars
<1>14. WorkInv'
  <2>1. \A i \in DOMAIN ready' : Added(ready'[i])
    BY <1>1, <1>4, ReadyFacts
  <2>2. \A v \in Workers : jobpc'[v] \in {"queued", "running"} => job'[v] \in Hnds /\ Added(job'[v])
    BY <1>2, <1>6 DEF WorkInv
  <2> QED  BY <1>4, <1>10, <2>1, <2>2 DEF WorkInv
<1>15. ASSUME NEW g \in Hnds PROVE Late(g)'
  <2>1. Late(g) /\ late[g] \in Nat
    BY DEF LateInv, TypeOK
  <2>2. CASE g = h
    <3>1. late[h] = 0
      BY <1>1, <1>2, <2>1, <2>2 DEF Late
    <3>2. late'[h] = IF rioh_fd[h] = NoFd THEN 1 ELSE 0
      BY <1>4, <3>1 DEF TypeOK
    <3> QED  BY <1>2, <1>4, <2>2, <3>2 DEF Late
  <2>3. CASE g # h
    <3>1. late'[g] = late[g]
      BY <1>4, <2>3 DEF TypeOK
    <3> QED  BY <1>4, <2>1, <3>1 DEF Late
  <2> QED  BY <2>2, <2>3
<1> QED  BY <1>12, <1>13, <1>14, <1>15 DEF LateInv

LEMMA WorkBeginStep ==
    ASSUME IoInv, NEW w \in Workers, WorkBegin(w)
    PROVE  IoInv'
<1> USE DEF IoInv
<1>1. PICK h \in Hnds : h = job[w] /\ Added(h) /\ mem[h] = "live"
  BY DEF WorkBegin, WorkInv, Added
<1>2. /\ jobpc[w] = "queued" /\ jobpc' = [jobpc EXCEPT ![w] = "running"]
      /\ refcnt' = [refcnt EXCEPT ![h] = @ + 1] /\ fault' = fault
      /\ UNCHANGED <<mem, rioh_fd, nonblock, events, hnds, epollVars, call, iopc, ready,
                     left, job, late, failed>>
  BY <1>1 DEF WorkBegin, Keep
<1>3. /\ jobpc'[w] = "running"
      /\ \A v \in Workers : v # w => job'[v] = job[v] /\ jobpc'[v] = jobpc[v]
  BY <1>2 DEF TypeOK
<1>4. \A g : Calling(g)' = Calling(g)
  BY <1>2 DEF Calling
<1>5. WorkRefs(h)' = WorkRefs(h) + 1
  <2>1. /\ Queued(h)' = Queued(h) \ {w} /\ w \in Queued(h)
        /\ Running(h)' = Running(h) \cup {w} /\ w \notin Running(h)
    BY <1>1, <1>2, <1>3 DEF Queued, Running
  <2>2. /\ Cardinality(Queued(h)') = Cardinality(Queued(h)) - 1
        /\ Cardinality(Running(h)') = Cardinality(Running(h)) + 1
    <3>1. Cardinality(Queued(h)') = Cardinality(Queued(h)) - 1
      BY <2>1, JobsFinite, FS_RemoveElement
    <3>2. Cardinality(Running(h)') = Cardinality(Running(h)) + 1
      BY <2>1, JobsFinite, FS_AddElement
    <3> QED  BY <3>1, <3>2
  <2>3. /\ WorkRefs(h) = Cardinality(Queued(h)) + 2 * Cardinality(Running(h)) + Calling(h)
        /\ WorkRefs(h)' = Cardinality(Queued(h)') + 2 * Cardinality(Running(h)') + Calling(h)'
    BY WorkRefsSum, WorkRefsSumNext
  <2>4. Cardinality(Queued(h)) \in Nat /\ Cardinality(Running(h)) \in Nat /\ Calling(h) \in Nat
    BY JobsFinite DEF Calling
  <2> QED  BY <1>4, <2>2, <2>3, <2>4
<1>6. \A g \in Hnds : g # h => WorkRefs(g)' = WorkRefs(g)
  BY <1>1, <1>2, <1>3, <1>4, OtherJobs
<1>7. \A g : Added(g)' <=> Added(g)
  BY <1>2 DEF Added, epollVars
<1>8. refcnt' \in [Hnds -> Nat] /\ \A g \in Hnds : refcnt[g] \in Nat
        /\ refcnt'[g] = refcnt[g] + (IF g = h THEN 1 ELSE 0)
  BY <1>2 DEF TypeOK
<1>9. FaultInv' /\ StartInv' /\ CallInv' /\ HndInv' /\ EpollInv' /\ RefInv'
  <2>1. \A g \in Hnds : ~Added(g) => refcnt'[g] = refcnt[g]
    BY <1>1, <1>8
  <2>2. \A g \in Hnds : refcnt'[g] - refcnt[g] >= WorkRefs(g)' - WorkRefs(g)
    BY <1>5, <1>6, <1>8, WorkRefsSum
  <2> QED  BY <1>2, <1>8, <2>1, <2>2, IoFrame DEF epollVars
<1>10. TypeOK'
  <2>1. jobpc' \in [Workers -> {"none", "queued", "running", "done"}]
    BY <1>2 DEF TypeOK
  <2> QED  BY <1>2, <1>8, <2>1 DEF TypeOK, epollVars
<1>11. WorkInv'
  <2>1. \A v \in Workers : jobpc'[v] \in {"queued", "running"} => job'[v] \in Hnds /\ Added(job'[v])
    BY <1>1, <1>2, <1>3 DEF WorkInv
  <2> QED  BY <1>2, <1>7, <2>1 DEF WorkInv
<1>12. LateInv'
  BY <1>2 DEF LateInv, Late
<1> QED  BY <1>9, <1>10, <1>11, <1>12

LEMMA WorkEndStep ==
    ASSUME IoInv, NEW w \in Workers, WorkEnd(w)
    PROVE  IoInv'
<1> USE DEF IoInv
<1>1. PICK h \in Hnds : h = job[w] /\ Added(h) /\ mem[h] = "live"
  BY DEF WorkEnd, WorkInv, Added
<1>2. /\ jobpc[w] = "running" /\ jobpc' = [jobpc EXCEPT ![w] = "done"]
      /\ job' = [job EXCEPT ![w] = NoHnd] /\ Drop(h, 2, refcnt)
      /\ UNCHANGED <<rioh_fd, nonblock, events, epollVars, call, iopc, ready, left, late, failed>>
  BY <1>1 DEF WorkEnd
<1>3. /\ jobpc'[w] = "done"
      /\ \A v \in Workers : v # w => job'[v] = job[v] /\ jobpc'[v] = jobpc[v]
  BY <1>2 DEF TypeOK
<1>4. \A g : Calling(g)' = Calling(g)
  BY <1>2 DEF Calling
<1>5. /\ WorkRefs(h)' = WorkRefs(h) - 2 /\ WorkRefs(h) \in Nat /\ WorkRefs(h)' \in Nat
      /\ WorkRefs(h) >= 2
  <2>1. /\ Queued(h)' = Queued(h)
        /\ Running(h)' = Running(h) \ {w} /\ w \in Running(h)
    BY <1>1, <1>2, <1>3 DEF Queued, Running
  <2>2. Cardinality(Running(h)') = Cardinality(Running(h)) - 1
    BY <2>1, JobsFinite, FS_RemoveElement
  <2>3. /\ WorkRefs(h) = Cardinality(Queued(h)) + 2 * Cardinality(Running(h)) + Calling(h)
        /\ WorkRefs(h)' = Cardinality(Queued(h)') + 2 * Cardinality(Running(h)') + Calling(h)'
        /\ WorkRefs(h) \in Nat /\ WorkRefs(h)' \in Nat
    BY WorkRefsSum, WorkRefsSumNext
  <2>4. Cardinality(Queued(h)) \in Nat /\ Cardinality(Running(h)) \in Nat /\ Calling(h) \in Nat
    BY JobsFinite DEF Calling
  <2> QED  BY <1>4, <2>1, <2>2, <2>3, <2>4
<1>6. \A g \in Hnds : g # h => WorkRefs(g)' = WorkRefs(g)
  BY <1>1, <1>2, <1>3, <1>4, OtherJobs
<1>7. refcnt \in [Hnds -> Nat] /\ refcnt[h] > 2
  <2>1. /\ refcnt[h] >= Own(h) + CallRef(h) + WorkRefs(h)
        /\ refcnt \in [Hnds -> Nat] /\ refcnt[h] \in Nat
    BY <1>1 DEF RefInv, Refs, TypeOK
  <2>2. Own(h) \in {1, 2} /\ CallRef(h) \in {0, 1}
    BY DEF Own, CallRef
  <2> QED  BY <1>5, <2>1, <2>2
<1>8. /\ refcnt' = [refcnt EXCEPT ![h] = @ - 2] /\ refcnt' \in [Hnds -> Nat]
      /\ UNCHANGED <<mem, hnds, fault>>
  BY <1>1, <1>2, <1>7, DropKeeps
<1>9. \A g : Added(g)' <=> Added(g)
  BY <1>2, <1>8 DEF Added, epollVars
<1>10. FaultInv' /\ StartInv' /\ CallInv' /\ HndInv' /\ EpollInv' /\ RefInv'
  <2>1. \A g \in Hnds : ~Added(g) => refcnt'[g] = refcnt[g]
    BY <1>1, <1>7, <1>8
  <2>2. \A g \in Hnds : refcnt'[g] - refcnt[g] >= WorkRefs(g)' - WorkRefs(g)
    <3>1. refcnt'[h] - refcnt[h] = -2 /\ WorkRefs(h)' - WorkRefs(h) = -2
      BY <1>5, <1>7, <1>8
    <3>2. \A g \in Hnds : g # h => refcnt'[g] - refcnt[g] = 0 /\ WorkRefs(g)' - WorkRefs(g) = 0
      BY <1>6, <1>7, <1>8, WorkRefsSum
    <3> QED  BY <3>1, <3>2
  <2> QED  BY <1>2, <1>8, <2>1, <2>2, IoFrame DEF epollVars
<1>11. TypeOK'
  <2>1. jobpc' \in [Workers -> {"none", "queued", "running", "done"}]
    BY <1>2 DEF TypeOK
  <2>2. job' \in [Workers -> Hnds \cup {NoHnd}]
    BY <1>2 DEF TypeOK
  <2> QED  BY <1>2, <1>8, <2>1, <2>2 DEF TypeOK, epollVars
<1>12. WorkInv'
  <2>1. \A v \in Workers : jobpc'[v] \in {"queued", "running"} => job'[v] \in Hnds /\ Added(job'[v])
    BY <1>3 DEF WorkInv
  <2> QED  BY <1>2, <1>9, <2>1 DEF WorkInv
<1>13. LateInv'
  BY <1>2, <1>8 DEF LateInv, Late
<1> QED  BY <1>10, <1>11, <1>12, <1>13

-----------------------------------------------------------------------------
(***************************************************************************)
(* The invariant holds, and what follows from it.                          *)
(***************************************************************************)
LEMMA StutterInv ==
    ASSUME IoInv, UNCHANGED vars
    PROVE  IoInv'
<1>1. UNCHANGED <<mem, rioh_fd, nonblock, events, hnds, epollVars, call, job, jobpc,
                  late, failed, fault, refcnt, iopc, ready, left>>
  BY DEF vars, hndVars, ioVars
<1>2. \A h : /\ Added(h)' <=> Added(h)
             /\ WorkRefs(h)' = WorkRefs(h)
  BY <1>1, WorkRefsSame DEF Added, epollVars
<1>3. FaultInv' /\ StartInv' /\ CallInv' /\ HndInv' /\ EpollInv' /\ RefInv'
  <2>1. \A h \in Hnds : refcnt'[h] - refcnt[h] >= WorkRefs(h)' - WorkRefs(h)
    BY <1>1, <1>2, WorkRefsSum DEF IoInv, TypeOK
  <2>2. refcnt' \in [Hnds -> Nat]
    BY <1>1 DEF IoInv, TypeOK
  <2> QED  BY <1>1, <2>1, <2>2, IoFrame DEF epollVars
<1>4. TypeOK'
  BY <1>1 DEF IoInv, TypeOK, epollVars
<1>5. WorkInv' /\ LateInv'
  BY <1>1, <1>2 DEF IoInv, WorkInv, LateInv, Late
<1> QED  BY <1>3, <1>4, <1>5 DEF IoInv

LEMMA NextInv == IoInv /\ [Next]_vars => IoInv'
<1> SUFFICES ASSUME IoInv, [Next]_vars PROVE IoInv'
  OBVIOUS
<1>1. ASSUME NEW c \in Callers, NEW fd \in Fds,
             (\E nb \in BOOLEAN : AddGet(c, fd, nb)) \/ DelGet(c, fd)
      PROVE  IoInv'
  BY <1>1, AddGetStep, DelGetStep
<1>2. ASSUME NEW c \in Callers, CallStep(c) PROVE IoInv'
  BY <1>2, NewStep, FillStep, StartStep, StartFailsStep, CtlStep, CtlFailsStep, TestStep,
     ClearStep, UnregStep DEF CallStep
<1>3. CASE Poll
  BY <1>3, PollStep
<1>4. CASE IoThread
  BY <1>4, LoopStep, LoopEndStep, HandlerStep, EnqueueStep DEF IoThread
<1>5. ASSUME NEW w \in Workers, WorkBegin(w) \/ WorkEnd(w) PROVE IoInv'
  BY <1>5, WorkBeginStep, WorkEndStep
<1>6. CASE UNCHANGED vars
  BY <1>6, StutterInv
<1> QED  BY <1>1, <1>2, <1>3, <1>4, <1>5, <1>6 DEF Next

LEMMA Invariant == Spec => []IoInv
  BY InitInv, NextInv, PTL DEF Spec

\* The variables keep their types: the counts of rd_io_hnd_destroy() and of
\* rd_io_thread_started never become negative.
THEOREM TypeCorrect == Spec => []TypeOK
<1>1. IoInv => TypeOK
  BY DEF IoInv
<1> QED  BY <1>1, Invariant, PTL

\* No handle is used after it was freed, and the assertion of
\* rd_io_hnd_destroy() fails only after epoll_create() or epoll_ctl() failed.
THEOREM NeverFaults == Spec => []NoFault
<1>1. IoInv => NoFault
  BY DEF IoInv, FaultInv, NoFault
<1> QED  BY <1>1, Invariant, PTL

\* The reason: rd_io_hnd_destroy() frees no handle, because rd_io_add() leaves
\* two references of which rd_io_del() drops one.
NeverFreed == \A h \in Hnds : mem[h] # "freed"

\* No handle is ever given back, whatever is added and deleted.
THEOREM HandlesAreKept == Spec => []NeverFreed
<1>1. IoInv => NeverFreed
  BY DEF IoInv, HndInv, NeverFreed
<1> QED  BY <1>1, Invariant, PTL

\* A handle that epoll, events[] or a worker points at is allocated and has
\* more references than the dispatched events of rd_io_hnd_call() hold.
THEOREM CountsCoverWork == Spec => []RefsCoverWork
<1>1. IoInv => RefsCoverWork
  <2> SUFFICES ASSUME IoInv, NEW h \in Hnds,
                      \/ \E fd \in Fds : epset[fd] = h
                      \/ \E i \in DOMAIN ready : ready[i] = h
                      \/ WorkRefs(h) > 0
               PROVE  mem[h] = "live" /\ refcnt[h] > WorkRefs(h)
    BY DEF RefsCoverWork
  <2> USE DEF IoInv
  <2>1. Added(h)
    <3>1. CASE \E fd \in Fds : epset[fd] = h
      <4>1. PICK fd \in Fds : epset[fd] = h
        BY <3>1
      <4>2. /\ mem[h] = "live"
            /\ rioh_fd[h] = fd \/ \E c \in Callers : Leaving(c, h)
        BY <4>1, ConstAssumption DEF EpollInv
      <4>3. (\E c \in Callers : Leaving(c, h)) => rioh_fd[h] = NoFd
        BY DEF CallInv, CallOK, Leaving, Busy
      <4> QED  BY <4>1, <4>2, <4>3 DEF Added
    <3>2. CASE \E i \in DOMAIN ready : ready[i] = h
      BY <3>2 DEF WorkInv
    <3>3. CASE WorkRefs(h) > 0
      <4>1. Queued(h) # {} \/ Running(h) # {} \/ Calling(h) # 0
        <5>1. SUFFICES ASSUME Queued(h) = {}, Running(h) = {}, Calling(h) = 0 PROVE FALSE
          OBVIOUS
        <5>2. Cardinality(Queued(h)) = 0 /\ Cardinality(Running(h)) = 0
          BY <5>1, FS_EmptySet
        <5>3. WorkRefs(h) = Cardinality(Queued(h)) + 2 * Cardinality(Running(h)) + Calling(h)
          BY WorkRefsSum
        <5>4. WorkRefs(h) = 0
          BY <5>1, <5>2, <5>3
        <5> QED  BY <3>3, <5>4
      <4>2. CASE Queued(h) # {} \/ Running(h) # {}
        BY <4>2 DEF Queued, Running, WorkInv
      <4>3. CASE Calling(h) # 0
        <5>1. iopc = "handler" /\ Head(ready) = h
          BY <4>3 DEF Calling
        <5> QED  BY <5>1, ReadyFacts DEF WorkInv
      <4> QED  BY <4>1, <4>2, <4>3
    <3> QED  BY <3>1, <3>2, <3>3
  <2>2. refcnt[h] >= Own(h) + CallRef(h) + WorkRefs(h) /\ refcnt[h] \in Nat
    BY <2>1 DEF RefInv, Refs, TypeOK
  <2>3. Own(h) \in {1, 2} /\ CallRef(h) \in {0, 1} /\ WorkRefs(h) \in Nat
    BY WorkRefsSum DEF Own, CallRef
  <2>4. refcnt[h] > WorkRefs(h)
    BY <2>2, <2>3
  <2> QED  BY <2>1, <2>4 DEF Added
<1> QED  BY <1>1, Invariant, PTL

\* Between calls of rd_io_add() and rd_io_del(), what epoll has registered is
\* what rd_io_hnds lists, descriptor by descriptor.
THEOREM EpollAgreesWithList == Spec => []RegisteredIsListed
<1>1. IoInv => RegisteredIsListed
  <2> SUFFICES ASSUME IoInv, fault = "none", \A c \in Callers : call[c].op = "none",
                      NEW fd \in Fds
               PROVE  Found(fd) = {epset[fd]} \ {NoHnd}
    BY DEF RegisteredIsListed
  <2> USE DEF IoInv
  <2>1. ASSUME NEW h \in Found(fd) PROVE epset[fd] = h /\ h # NoHnd
    <3>1. h \in Hnds /\ mem[h] = "live" /\ rioh_fd[h] = fd /\ fd # NoFd
      BY ConstAssumption DEF Found, HndInv
    <3>2. Added(h)
      BY <3>1 DEF RefInv, Refs, On, Busy
    <3> QED  BY <3>1, <3>2, ConstAssumption DEF Added
  <2>2. ASSUME epset[fd] # NoHnd PROVE epset[fd] \in Found(fd)
    <3>1. epset[fd] \in Hnds /\ mem[epset[fd]] = "live" /\ rioh_fd[epset[fd]] = fd
      BY <2>2 DEF EpollInv, TypeOK, Leaving
    <3> QED  BY <3>1 DEF Found, HndInv
  <2> QED  BY <2>1, <2>2
<1> QED  BY <1>1, Invariant, PTL

\* After rd_io_del() decommissioned a handle, the I/O thread dispatches at most
\* one more event of it.
THEOREM AtMostOneLateEvent == Spec => []OneLateEvent
<1>1. IoInv => OneLateEvent
  <2> SUFFICES ASSUME IoInv, NEW h \in Hnds PROVE late[h] <= 1
    BY DEF OneLateEvent
  <2>1. late[h] \in Nat /\ (late[h] > 0 => late[h] = 1)
    BY DEF IoInv, TypeOK, LateInv, Late
  <2> QED  BY <2>1
<1> QED  BY <1>1, Invariant, PTL
=============================================================================
