--------------------------- MODULE RdThreadProofs ---------------------------
(***************************************************************************)
(* Proofs about RdThread, for any threads, events and start routines.      *)
(***************************************************************************)
EXTENDS RdThread, SequenceTheorems, TLAPS

\* The life of a handle and of its thread go together, and a popped event
\* stays in hand until the poll loop releases it.
Life(r) ==
    /\ handle[r] = "none" =>
          /\ pc[r] = "none" /\ ~owned[r] /\ creating # r
          /\ eventq[r] = <<>> /\ cur[r] = NoEvent
          /\ added[r] = <<>> /\ called[r] = <<>>
    /\ handle[r] = "freed" => pc[r] = "ended"
    /\ handle[r] # "none" => rdt_state[r] # "NONE"
    /\ pc[r] \in {"call", "after"} => cur[r] \in Events
    /\ rdt_start[r] = "main" => r = Main
    /\ rdt_start[r] = "none" => handle[r] = "none"

\* A callback that began after the thread was told to exit was its last: the
\* thread is on its way out of rd_thread_poll() and rd_thread_dispatch().
Late(r) ==
    /\ late[r] <= 1
    /\ late[r] # 0 =>
          rdt_state[r] = "EXITING" /\ pc[r] \in {"after", "test", "exit", "ended"}

\* Events that would make thread r exit.
ExitPending(r) ==
    cur[r] \in ExitEvents \/ \E i \in DOMAIN eventq[r] : eventq[r][i] \in ExitEvents

\* While rd_thread_create() or the application has the handle of a thread that
\* dispatches, nothing makes that thread end.
Kept(r) ==
    /\ owned[r] => (r = Main \/ rdt_start[r] = "dispatch")
    /\ creating = r => r # Main /\ ~owned[r] /\ eventq[r] = <<>> /\ cur[r] = NoEvent
    /\ ((owned[r] \/ creating = r) /\ r # Main /\ rdt_start[r] = "dispatch") =>
          /\ rdt_state[r] = "RUNNING"
          /\ pc[r] \notin {"exit", "ended"}
          /\ ~ExitPending(r)
    /\ (rdt_start[r] = "dispatch" /\ pc[r] \in {"exit", "ended"}) =>
          rdt_state[r] = "EXITING"

LifeInv == handle[Main] = "live" /\ \A r \in Rdts : Life(r)
LateInv == \A r \in Rdts : Late(r)
KeptInv == \A r \in Rdts : Kept(r)

\* The counters of rd_threads_create(): what is not left was made, and, zero
\* being counted as a failure, failed.
BatchInv ==
    batch.made + batch.left = batch.count /\ batch.failed = batch.made

\* The invariant that the theorems are proved with.
ThreadInv == TypeOK /\ BatchInv /\ LifeInv /\ LateInv /\ KeptInv

-----------------------------------------------------------------------------
(***************************************************************************)
(* Types.                                                                  *)
(***************************************************************************)

LEMMA TypeInit == Init => TypeOK
  <1> SUFFICES ASSUME Init PROVE TypeOK
    OBVIOUS
  <1>1. <<>> \in Seq(Events)
    BY EmptySeq
  <1>2. batch \in [left : 0..MaxBatch, failed : 0..MaxBatch, made : 0..MaxBatch,
                   ret : -1..MaxBatch, count : 0..MaxBatch]
    BY ConstAssumption DEF Init, NoBatch
  <1> QED
    BY <1>1, <1>2, ConstAssumption DEF Init, TypeOK

\* What a creation changes, whether or not pthread_create() succeeds.
LEMMA StartThreadType ==
    ASSUME TypeOK, NEW r \in Rdts, NEW routine \in Routines, StartThread(r, routine),
           UNCHANGED batch
    PROVE  TypeOK'
  BY DEF StartThread, TypeOK, eventVars

LEMMA CreateReturnType ==
    ASSUME TypeOK, BatchInv, CreateReturn
    PROVE  TypeOK' /\ BatchInv'
  <1>1. creating \in Rdts
    BY DEF CreateReturn, TypeOK
  <1>2. UNCHANGED <<threadVars, joining, eventVars>> /\ creating' = NoRdt
    BY DEF CreateReturn
  <1>3. owned' \in [Rdts -> BOOLEAN] /\ fault' \in {"none", "assert", "uaf"}
    BY <1>1 DEF CreateReturn, TypeOK
  <1>4. batch' \in [left : 0..MaxBatch, failed : 0..MaxBatch, made : 0..MaxBatch,
                    ret : -1..MaxBatch, count : 0..MaxBatch]
        /\ BatchInv'
    <2>1. CASE batch.left = 0
      BY <2>1 DEF CreateReturn, TypeOK, BatchInv
    <2>2. CASE batch.left # 0
      <3> DEFINE failed == batch.failed + 1
                 ret == IF batch.left = 1 THEN BatchResult(failed) ELSE 0
      <3>1. batch' = [left |-> batch.left - 1, failed |-> failed, made |-> batch.made + 1,
                      ret |-> ret, count |-> batch.count]
        BY <2>2 DEF CreateReturn, TypeOK, FailedAfter
      <3>2. /\ batch.left \in 1..MaxBatch /\ batch.failed \in 0..MaxBatch
            /\ batch.made \in 0..MaxBatch /\ batch.count \in 0..MaxBatch
        BY <2>2, ConstAssumption DEF TypeOK
      <3>3. failed \in 0..batch.count /\ ret \in -1..MaxBatch
        BY <3>2, ConstAssumption DEF BatchInv, BatchResult
      <3> HIDE DEF failed, ret
      <3>4. /\ batch.left - 1 \in 0..MaxBatch /\ batch.made + 1 \in 0..MaxBatch
            /\ failed \in 0..MaxBatch
        BY <3>2, <3>3, ConstAssumption DEF BatchInv
      <3>5. BatchInv'
        BY <3>1, <3>2 DEF BatchInv, failed
      <3> QED
        BY <3>1, <3>2, <3>3, <3>4, <3>5
    <2> QED
      BY <2>1, <2>2
  <1> QED
    BY <1>2, <1>3, <1>4 DEF TypeOK, threadVars, eventVars

LEMMA ThreadStepType ==
    ASSUME TypeOK, LifeInv, NEW r \in Rdts, ThreadStep(r)
    PROVE  TypeOK'
  <1> USE DEF TypeOK, appVars, eventVars
  <1>1. CASE Start(r)
    BY <1>1 DEF Start, Goto, ThreadExit
  <1>2. CASE DispatchTest(r)
    BY <1>2 DEF DispatchTest, Goto
  <1>3. CASE PollPop(r)
    <2>1. eventq[r] \in Seq(Events) /\ eventq[r] # <<>>
      BY <1>3 DEF PollPop
    <2>2. Head(eventq[r]) \in Events /\ Tail(eventq[r]) \in Seq(Events)
      BY <2>1, HeadTailProperties
    <2> QED
      BY <1>3, <2>2 DEF PollPop, Goto, NextEvent
  <1>4. CASE PollBlock(r)
    BY <1>4 DEF PollBlock, Goto
  <1>5. CASE PollTimeout(r)
    BY <1>5 DEF PollTimeout, Goto
  <1>6. CASE Callback(r)
    <2>1. cur[r] \in Events
      BY <1>6 DEF Callback, At, LifeInv, Life
    <2>2. Append(called[r], cur[r]) \in Seq(Events)
      BY <2>1, AppendProperties
    <2>3. called' \in [Rdts -> Seq(Events)]
      BY <1>6, <2>2 DEF Callback
    <2>4. late' \in [Rdts -> Nat]
      <3>1. late \in [Rdts -> Nat]
        OBVIOUS
      <3>2. late' = [late EXCEPT ![r] = late[r]] \/ late' = [late EXCEPT ![r] = late[r] + 1]
        BY <1>6 DEF Callback
      <3>3. PICK n \in Nat : n = late[r]
        BY <3>1
      <3>4. n + 1 \in Nat
        OBVIOUS
      <3>5. late' = [late EXCEPT ![r] = n] \/ late' = [late EXCEPT ![r] = n + 1]
        BY <3>2, <3>3
      <3> HIDE DEF TypeOK
      <3> QED
        BY <3>1, <3>4, <3>5
    <2>5. /\ rdt_state' \in [Rdts -> {"NONE", "RUNNING", "EXITING"}]
          /\ fault' \in {"none", "assert", "uaf"}
      BY <1>6 DEF Callback, ThreadExit
    <2> QED
      BY <1>6, <2>3, <2>4, <2>5 DEF Callback, Goto
  <1>7. CASE PollNext(r)
    BY <1>7 DEF PollNext, Goto
  <1>8. CASE Exit(r)
    <2>1. /\ handle' \in [Rdts -> {"none", "live", "freed"}]
          /\ fault' \in {"none", "assert", "uaf"}
      BY <1>8 DEF Exit, Destroy
    <2>2. eventq' = eventq \/ eventq' = [eventq EXCEPT ![r] = <<>>]
      BY <1>8 DEF Exit, Destroy
    <2>3. eventq' \in [Rdts -> Seq(Events)]
      <3>1. <<>> \in Seq(Events)
        BY EmptySeq
      <3> QED
        BY <2>2, <3>1
    <2> QED
      BY <1>8, <2>1, <2>3 DEF Exit, Goto
  <1> QED
    BY <1>1, <1>2, <1>3, <1>4, <1>5, <1>6, <1>7, <1>8 DEF ThreadStep

-----------------------------------------------------------------------------
(***************************************************************************)
(* The invariant, action by action.                                        *)
(***************************************************************************)

LEMMA InvInit == Init => ThreadInv
  <1> SUFFICES ASSUME Init PROVE ThreadInv
    OBVIOUS
  <1>1. TypeOK
    BY TypeInit
  <1>2. BatchInv
    BY DEF Init, BatchInv, NoBatch
  <1>3. LifeInv
    BY ConstAssumption DEF Init, LifeInv, Life
  <1>4. LateInv
    BY DEF Init, LateInv, Late
  <1>5. KeptInv
    BY ConstAssumption DEF Init, KeptInv, Kept
  <1> QED
    BY <1>1, <1>2, <1>3, <1>4, <1>5 DEF ThreadInv

\* All that the invariant says of thread u.
View(u) ==
    <<handle[u], rdt_state[u], rdt_start[u], eventq[u], pc[u], cur[u], owned[u],
      late[u], added[u], called[u], creating = u>>

\* A thread whose state is unchanged keeps the invariant.
LEMMA ViewSame ==
    ASSUME NEW u \in Rdts, Life(u), Late(u), Kept(u), View(u)' = View(u)
    PROVE  Life(u)' /\ Late(u)' /\ Kept(u)'
  <1>1. /\ handle'[u] = handle[u] /\ rdt_state'[u] = rdt_state[u]
        /\ rdt_start'[u] = rdt_start[u] /\ eventq'[u] = eventq[u]
        /\ pc'[u] = pc[u] /\ cur'[u] = cur[u] /\ owned'[u] = owned[u]
        /\ late'[u] = late[u] /\ added'[u] = added[u] /\ called'[u] = called[u]
        /\ (creating' = u) = (creating = u)
    BY DEF View
  <1> QED
    BY <1>1 DEF Life, Late, Kept, ExitPending

\* What a step has to establish, when it touches thread r alone.
LEMMA OneThread ==
    ASSUME ThreadInv, NEW r \in Rdts, TypeOK', BatchInv', handle'[Main] = "live",
           \A u \in Rdts : u # r => View(u)' = View(u),
           Life(r)', Late(r)', Kept(r)'
    PROVE  ThreadInv'
  <1>1. ASSUME NEW u \in Rdts
        PROVE  Life(u)' /\ Late(u)' /\ Kept(u)'
    <2>1. CASE u = r
      BY <2>1
    <2>2. CASE u # r
      BY <2>2, ViewSame DEF ThreadInv, LifeInv, LateInv, KeptInv
    <2> QED
      BY <2>1, <2>2
  <1> QED
    BY <1>1 DEF ThreadInv, LifeInv, LateInv, KeptInv

LEMMA StartThreadInv ==
    ASSUME ThreadInv, NEW r \in Rdts, NEW routine \in Routines, StartThread(r, routine),
           creating = NoRdt, UNCHANGED batch
    PROVE  ThreadInv'
  <1>1. TypeOK'
    BY StartThreadType DEF ThreadInv
  <1>2. BatchInv'
    BY DEF ThreadInv, BatchInv
  <1>3. \A u \in Rdts : u # r => View(u)' = View(u)
    BY ConstAssumption DEF StartThread, View, eventVars, ThreadInv, TypeOK
  <1>4. handle'[Main] = "live" /\ r # Main
    BY ConstAssumption DEF ThreadInv, LifeInv, StartThread, TypeOK
  <1>5. Life(r) /\ Late(r) /\ Kept(r) /\ late[r] \in Nat
    BY DEF ThreadInv, LifeInv, LateInv, KeptInv, TypeOK
  <1>6. /\ handle[r] = "none" /\ handle'[r] = "live" /\ rdt_state'[r] = "RUNNING"
        /\ rdt_start'[r] = routine /\ routine \notin {"none", "main"}
        /\ pc'[r] = "born" \/ pc'[r] = pc[r]
        /\ creating' = r \/ creating' = NoRdt
        /\ UNCHANGED <<eventq, cur, owned, late, added, called>>
    BY ConstAssumption DEF StartThread, ThreadInv, TypeOK, eventVars
  <1>7. Life(r)'
    BY <1>5, <1>6 DEF Life
  <1>8. Late(r)'
    BY <1>5, <1>6 DEF Late, Life
  <1>9. Kept(r)'
    <2>1. ~ExitPending(r)'
      BY <1>5, <1>6, ConstAssumption DEF ExitPending, Life
    <2> QED
      BY <1>4, <1>5, <1>6, <2>1 DEF Kept, Life
  <1> QED
    BY <1>1, <1>2, <1>3, <1>4, <1>7, <1>8, <1>9, OneThread

LEMMA BatchBeginInv ==
    ASSUME ThreadInv, NEW n \in 1..MaxBatch, BatchBegin(n)
    PROVE  ThreadInv'
  <1>1. /\ batch' = [left |-> n, failed |-> 0, made |-> 0, ret |-> 0, count |-> n]
        /\ UNCHANGED <<threadVars, owned, creating, joining, eventVars, fault>>
    BY DEF BatchBegin
  <1>2. n \in 0..MaxBatch /\ 0 \in 0..MaxBatch /\ 0 \in -1..MaxBatch
    BY ConstAssumption
  <1>3. batch' \in [left : 0..MaxBatch, failed : 0..MaxBatch, made : 0..MaxBatch,
                    ret : -1..MaxBatch, count : 0..MaxBatch]
    BY <1>1, <1>2
  <1>4. TypeOK'
    BY <1>1, <1>3 DEF ThreadInv, TypeOK, threadVars, eventVars
  <1>5. BatchInv'
    BY <1>1 DEF BatchInv
  <1>6. View(Main)' = View(Main) /\ \A u \in Rdts : View(u)' = View(u)
    BY <1>1 DEF View, threadVars, eventVars
  <1>7. Life(Main)' /\ Late(Main)' /\ Kept(Main)'
    BY <1>6, ViewSame, ConstAssumption DEF ThreadInv, LifeInv, LateInv, KeptInv
  <1> QED
    BY <1>1, <1>4, <1>5, <1>6, <1>7, OneThread, ConstAssumption
    DEF ThreadInv, LifeInv, threadVars

LEMMA CreateReturnInv ==
    ASSUME ThreadInv, CreateReturn
    PROVE  ThreadInv'
  <1>1. TypeOK' /\ BatchInv'
    BY CreateReturnType DEF ThreadInv
  <1>2. PICK r \in Rdts : creating = r
    BY DEF CreateReturn, ThreadInv, TypeOK
  <1>3. /\ creating' = NoRdt
        /\ owned' = [owned EXCEPT ![r] = batch.left = 0 /\ rdt_start[r] = "dispatch"]
        /\ UNCHANGED <<threadVars, eventVars>>
    BY <1>2 DEF CreateReturn
  <1>4. \A u \in Rdts : u # r => View(u)' = View(u)
    BY <1>2, <1>3, ConstAssumption DEF View, threadVars, eventVars, ThreadInv, TypeOK
  <1>5. handle'[Main] = "live"
    BY <1>3 DEF ThreadInv, LifeInv, threadVars
  <1>6. Life(r) /\ Late(r) /\ Kept(r)
    BY DEF ThreadInv, LifeInv, LateInv, KeptInv
  <1>7. owned'[r] => rdt_start[r] = "dispatch"
    BY <1>3 DEF ThreadInv, TypeOK
  <1>8. Life(r)'
    BY <1>2, <1>3, <1>6 DEF Life, threadVars, eventVars
  <1>9. Late(r)'
    BY <1>3, <1>6 DEF Late, threadVars, eventVars
  <1>10. Kept(r)'
    BY <1>2, <1>3, <1>6, <1>7, ConstAssumption DEF Kept, ExitPending, threadVars, eventVars
  <1> QED
    BY <1>1, <1>4, <1>5, <1>8, <1>9, <1>10, OneThread

\* Appending event e to a sequence of events that are no exit events.
LEMMA AppendPlain ==
    ASSUME NEW q \in Seq(Events), NEW e \in Events, e \notin ExitEvents,
           \A i \in DOMAIN q : q[i] \notin ExitEvents
    PROVE  /\ Append(q, e) \in Seq(Events)
           /\ \A i \in DOMAIN Append(q, e) : Append(q, e)[i] \notin ExitEvents
  <1>1. /\ Append(q, e) \in Seq(Events) /\ Len(Append(q, e)) = Len(q) + 1
        /\ \A i \in 1..Len(q) : Append(q, e)[i] = q[i]
        /\ Append(q, e)[Len(q) + 1] = e
    BY AppendProperties
  <1>2. DOMAIN Append(q, e) = 1..(Len(q) + 1) /\ DOMAIN q = 1..Len(q) /\ Len(q) \in Nat
    BY <1>1, LenProperties
  <1> QED
    BY <1>1, <1>2

LEMMA EventAddInv ==
    ASSUME ThreadInv, NEW r \in Rdts, NEW e \in Events, EventAdd(r, e)
    PROVE  ThreadInv'
  <1>1. /\ owned[r]
        /\ eventq' = [eventq EXCEPT ![r] = Append(eventq[r], e)]
        /\ added' = [added EXCEPT ![r] = Append(added[r], e)]
        /\ owned' = [owned EXCEPT ![r] = r = Main \/ e \notin ExitEvents]
        /\ fault' \in {"none", "assert", "uaf"}
        /\ UNCHANGED <<threadVars, creating, joining, batch, cur, called, late>>
    BY DEF EventAdd
  <1>2. TypeOK
    BY DEF ThreadInv
  <1>3. Append(eventq[r], e) \in Seq(Events) /\ Append(added[r], e) \in Seq(Events)
    BY <1>2, AppendProperties DEF TypeOK
  <1>4. TypeOK'
    BY <1>1, <1>2, <1>3 DEF TypeOK, threadVars
  <1>5. BatchInv' /\ handle'[Main] = "live"
    BY <1>1 DEF ThreadInv, BatchInv, LifeInv, threadVars
  <1>6. \A u \in Rdts : u # r => View(u)' = View(u)
    BY <1>1, <1>2 DEF View, threadVars, TypeOK
  <1>7. Life(r) /\ Late(r) /\ Kept(r)
    BY DEF ThreadInv, LifeInv, LateInv, KeptInv
  <1>8. owned'[r] = (r = Main \/ e \notin ExitEvents) /\ eventq'[r] = Append(eventq[r], e)
    BY <1>1, <1>2 DEF TypeOK
  <1>9. Life(r)'
    BY <1>1, <1>7 DEF Life, threadVars
  <1>10. Late(r)'
    BY <1>1, <1>7 DEF Late, threadVars
  <1>11. Kept(r)'
    <2>1. creating' # r
      BY <1>1, <1>7 DEF Kept
    <2>2. CASE r # Main /\ owned'[r]
      <3>1. e \notin ExitEvents /\ ~ExitPending(r)
        BY <1>1, <1>7, <1>8, <2>2 DEF Kept
      <3>2. ~ExitPending(r)'
        <4>1. \A i \in DOMAIN eventq'[r] : eventq'[r][i] \notin ExitEvents
          BY <1>2, <1>8, <3>1, AppendPlain DEF ExitPending, TypeOK
        <4> QED
          BY <1>1, <3>1, <4>1 DEF ExitPending
      <3> QED
        BY <1>1, <1>7, <2>1, <3>2 DEF Kept, threadVars
    <2>3. CASE ~(r # Main /\ owned'[r])
      BY <1>1, <1>7, <1>8, <2>1, <2>3 DEF Kept, threadVars
    <2> QED
      BY <2>2, <2>3
  <1> QED
    BY <1>4, <1>5, <1>6, <1>9, <1>10, <1>11, OneThread

LEMMA KillInv ==
    ASSUME ThreadInv, NEW r \in Rdts, NEW join \in BOOLEAN, Kill(r, join)
    PROVE  ThreadInv'
  <1>1. /\ r # Main /\ owned[r]
        /\ rdt_state' = [rdt_state EXCEPT ![r] = "EXITING"]
        /\ owned' = [owned EXCEPT ![r] = FALSE]
        /\ joining' \in {r, NoRdt}
        /\ fault' \in {"none", "assert", "uaf"}
        /\ UNCHANGED <<handle, rdt_start, pc, creating, batch, eventVars>>
    BY DEF Kill
  <1>2. TypeOK
    BY DEF ThreadInv
  <1>3. TypeOK'
    BY <1>1, <1>2 DEF TypeOK, eventVars
  <1>4. BatchInv' /\ handle'[Main] = "live"
    BY <1>1 DEF ThreadInv, BatchInv, LifeInv
  <1>5. \A u \in Rdts : u # r => View(u)' = View(u)
    BY <1>1, <1>2 DEF View, eventVars, TypeOK
  <1>6. Life(r) /\ Late(r) /\ Kept(r)
    BY DEF ThreadInv, LifeInv, LateInv, KeptInv
  <1>7. owned'[r] = FALSE /\ rdt_state'[r] = "EXITING"
    BY <1>1, <1>2 DEF TypeOK
  <1>8. Life(r)'
    BY <1>1, <1>6, <1>7 DEF Life, eventVars
  <1>9. Late(r)'
    BY <1>1, <1>6, <1>7 DEF Late, eventVars
  <1>10. Kept(r)'
    BY <1>1, <1>6, <1>7 DEF Kept, eventVars
  <1> QED
    BY <1>3, <1>4, <1>5, <1>8, <1>9, <1>10, OneThread

\* A step that changes nothing the invariant speaks of.
LEMMA SameInv ==
    ASSUME ThreadInv, joining' \in Rdts \cup {NoRdt},
           UNCHANGED <<threadVars, owned, creating, batch, eventVars, fault>>
    PROVE  ThreadInv'
  <1>1. TypeOK'
    BY DEF ThreadInv, TypeOK, threadVars, eventVars
  <1>2. BatchInv' /\ handle'[Main] = "live"
    BY DEF ThreadInv, BatchInv, LifeInv, threadVars
  <1>3. View(Main)' = View(Main) /\ \A u \in Rdts : View(u)' = View(u)
    BY DEF View, threadVars, eventVars
  <1>4. Life(Main)' /\ Late(Main)' /\ Kept(Main)'
    BY <1>3, ViewSame, ConstAssumption DEF ThreadInv, LifeInv, LateInv, KeptInv
  <1> QED
    BY <1>1, <1>2, <1>3, <1>4, OneThread, ConstAssumption

LEMMA JoinReturnInv ==
    ASSUME ThreadInv, JoinReturn
    PROVE  ThreadInv'
  BY SameInv DEF JoinReturn

\* The steps of a thread touch that thread alone.
LEMMA ThreadStepOthers ==
    ASSUME TypeOK, NEW r \in Rdts, ThreadStep(r)
    PROVE  /\ \A u \in Rdts : u # r => View(u)' = View(u)
           /\ UNCHANGED appVars
           /\ UNCHANGED <<rdt_start, added>>
           /\ r = Main => UNCHANGED handle
  <1> USE DEF Goto, TypeOK, eventVars, appVars
  <1> SUFFICES ASSUME NEW u \in Rdts
               PROVE  /\ u # r => View(u)' = View(u)
                      /\ UNCHANGED appVars
                      /\ UNCHANGED <<rdt_start, added>>
                      /\ r = Main => UNCHANGED handle
    OBVIOUS
  <1>1. CASE Start(r)
    BY <1>1 DEF Start, ThreadExit, View
  <1>2. CASE DispatchTest(r)
    BY <1>2 DEF DispatchTest, View
  <1>3. CASE PollPop(r)
    BY <1>3 DEF PollPop, View
  <1>4. CASE PollBlock(r)
    BY <1>4 DEF PollBlock, View
  <1>5. CASE PollTimeout(r)
    BY <1>5 DEF PollTimeout, View
  <1>6. CASE Callback(r)
    BY <1>6 DEF Callback, ThreadExit, View
  <1>7. CASE PollNext(r)
    BY <1>7 DEF PollNext, View
  <1>8. CASE Exit(r)
    BY <1>8 DEF Exit, Destroy, View
  <1> QED
    BY <1>1, <1>2, <1>3, <1>4, <1>5, <1>6, <1>7, <1>8 DEF ThreadStep

\* Taking the first event from a queue without exit events.
LEMMA PopPlain ==
    ASSUME NEW q \in Seq(Events), q # <<>>
    PROVE  /\ Head(q) \in Events /\ Tail(q) \in Seq(Events)
           /\ Head(q) = q[1] /\ 1 \in DOMAIN q
           /\ (\A i \in DOMAIN q : q[i] \notin ExitEvents) =>
                 \A i \in DOMAIN Tail(q) : Tail(q)[i] \notin ExitEvents
  <1>1. /\ Head(q) \in Events /\ Tail(q) \in Seq(Events) /\ Len(Tail(q)) = Len(q) - 1
        /\ \A i \in 1..Len(Tail(q)) : Tail(q)[i] = q[i + 1]
    BY HeadTailProperties
  <1>2. /\ DOMAIN q = 1..Len(q) /\ Len(q) \in Nat /\ Len(q) # 0
        /\ DOMAIN Tail(q) = 1..Len(Tail(q))
    BY <1>1, LenProperties, EmptySeq
  <1>3. Head(q) = q[1]
    OBVIOUS
  <1>4. ASSUME \A i \in DOMAIN q : q[i] \notin ExitEvents, NEW i \in DOMAIN Tail(q)
        PROVE  Tail(q)[i] \notin ExitEvents
    <2>1. i + 1 \in DOMAIN q
      BY <1>1, <1>2
    <2> QED
      BY <1>1, <1>2, <1>4, <2>1
  <1> QED
    BY <1>1, <1>2, <1>3, <1>4

\* A thread's own step keeps what the invariant says of it.
LEMMA ThreadStepOwn ==
    ASSUME ThreadInv, NEW r \in Rdts, ThreadStep(r)
    PROVE  Life(r)' /\ Late(r)' /\ Kept(r)'
  <1>1. TypeOK /\ Life(r) /\ Late(r) /\ Kept(r)
    BY DEF ThreadInv, LifeInv, LateInv, KeptInv
  <1>2. UNCHANGED <<rdt_start, added, owned, creating>>
    BY <1>1, ThreadStepOthers DEF appVars
  <1>3. CASE Start(r)
    <2>1. /\ pc[r] = "born" /\ pc'[r] = IF rdt_start[r] = "dispatch" THEN "test" ELSE "exit"
          /\ rdt_start[r] # "exit_return" => rdt_state'[r] = rdt_state[r]
          /\ rdt_start[r] = "exit_return" => rdt_state'[r] = "EXITING"
          /\ UNCHANGED <<handle, eventq, cur, late, called>>
      BY <1>1, <1>3 DEF Start, At, Goto, ThreadExit, TypeOK, eventVars
    <2> QED
      BY <1>1, <1>2, <2>1 DEF Life, Late, Kept, ExitPending
  <1>4. CASE DispatchTest(r)
    <2>1. /\ pc[r] = "test" /\ pc'[r] = IF rdt_state[r] = "RUNNING" THEN "pop" ELSE "exit"
          /\ UNCHANGED <<handle, rdt_state, eventq, cur, late, called>>
      BY <1>1, <1>4 DEF DispatchTest, KeepsDispatching, At, Goto, TypeOK, eventVars
    <2>2. rdt_state[r] \in {"NONE", "RUNNING", "EXITING"} /\ rdt_state[r] # "NONE"
      BY <1>1, <2>1 DEF TypeOK, Life
    <2> QED
      BY <1>1, <1>2, <2>1, <2>2 DEF Life, Late, Kept, ExitPending
  <1>5. CASE PollPop(r)
    <2>1. /\ pc[r] \in {"pop", "wait"} /\ pc'[r] = "call"
          /\ eventq[r] \in Seq(Events) /\ eventq[r] # <<>>
          /\ cur'[r] = Head(eventq[r]) /\ eventq'[r] = Tail(eventq[r])
          /\ UNCHANGED <<handle, rdt_state, late, called>>
      BY <1>1, <1>5 DEF PollPop, NextEvent, At, Goto, TypeOK
    <2>2. cur'[r] \in Events
      BY <2>1, PopPlain
    <2>3. ~ExitPending(r) => ~ExitPending(r)'
      BY <2>1, PopPlain DEF ExitPending
    <2>4. Life(r)'
      BY <1>1, <1>2, <2>1, <2>2 DEF Life
    <2>5. Late(r)'
      BY <1>1, <2>1 DEF Late, TypeOK
    <2>6. Kept(r)'
      BY <1>1, <1>2, <2>1, <2>3 DEF Kept
    <2> QED
      BY <2>4, <2>5, <2>6
  <1>6. CASE PollBlock(r)
    <2>1. /\ pc[r] = "pop" /\ pc'[r] = "wait"
          /\ UNCHANGED <<handle, rdt_state, eventq, cur, late, called>>
      BY <1>1, <1>6 DEF PollBlock, At, Goto, TypeOK, eventVars
    <2> QED
      BY <1>1, <1>2, <2>1 DEF Life, Late, Kept, ExitPending
  <1>7. CASE PollTimeout(r)
    <2>1. /\ pc[r] = "wait" /\ pc'[r] = "test"
          /\ UNCHANGED <<handle, rdt_state, eventq, cur, late, called>>
      BY <1>1, <1>7 DEF PollTimeout, At, Goto, TypeOK, eventVars
    <2> QED
      BY <1>1, <1>2, <2>1 DEF Life, Late, Kept, ExitPending
  <1>8. CASE Callback(r)
    <2>1. /\ pc[r] = "call" /\ pc'[r] = "after"
          /\ late'[r] = IF rdt_state[r] = "EXITING" THEN late[r] + 1 ELSE late[r]
          /\ cur[r] \in ExitEvents => rdt_state'[r] = "EXITING"
          /\ cur[r] \notin ExitEvents => rdt_state'[r] = rdt_state[r]
          /\ UNCHANGED <<handle, eventq, cur>>
      BY <1>1, <1>8 DEF Callback, ThreadExit, At, Goto, TypeOK
    <2>2. late[r] = 0
      BY <1>1, <2>1 DEF Late
    <2>3. Life(r)'
      BY <1>1, <1>2, <2>1 DEF Life
    <2>4. Late(r)'
      BY <1>1, <2>1, <2>2 DEF Late
    <2>5. Kept(r)'
      BY <1>1, <1>2, <2>1 DEF Kept, ExitPending
    <2> QED
      BY <2>3, <2>4, <2>5
  <1>9. CASE PollNext(r)
    <2>1. /\ pc[r] = "after" /\ pc'[r] = IF rdt_state[r] # "EXITING" THEN "pop" ELSE "test"
          /\ cur'[r] = NoEvent
          /\ UNCHANGED <<handle, rdt_state, eventq, late, called>>
      BY <1>1, <1>9 DEF PollNext, StaysInPoll, At, Goto, TypeOK
    <2>2. ~ExitPending(r) => ~ExitPending(r)'
      BY <2>1, ConstAssumption DEF ExitPending
    <2>3. Life(r)'
      BY <1>1, <1>2, <2>1 DEF Life
    <2>4. Late(r)'
      BY <1>1, <2>1 DEF Late
    <2>5. Kept(r)'
      BY <1>1, <1>2, <2>1, <2>2 DEF Kept
    <2> QED
      BY <2>3, <2>4, <2>5
  <1>10. CASE Exit(r)
    <2>1. /\ pc[r] = "exit" /\ pc'[r] = "ended"
          /\ handle'[r] \in {handle[r], "freed"}
          /\ UNCHANGED <<rdt_state, cur, late, called>>
      BY <1>1, <1>10 DEF Exit, Destroy, At, Goto, TypeOK
    <2>2. Life(r)'
      BY <1>1, <1>2, <2>1 DEF Life
    <2>3. Late(r)'
      BY <1>1, <2>1 DEF Late
    <2>4. Kept(r)'
      <3>1. creating # r \/ eventq'[r] = <<>>
        BY <1>1, <1>10 DEF Exit, Destroy, Kept, TypeOK
      <3> QED
        BY <1>1, <1>2, <2>1, <3>1 DEF Kept
    <2> QED
      BY <2>2, <2>3, <2>4
  <1> QED
    BY <1>3, <1>4, <1>5, <1>6, <1>7, <1>8, <1>9, <1>10 DEF ThreadStep

LEMMA ThreadStepInv ==
    ASSUME ThreadInv, NEW r \in Rdts, ThreadStep(r)
    PROVE  ThreadInv'
  <1>1. TypeOK' /\ \A u \in Rdts : u # r => View(u)' = View(u)
    BY ThreadStepType, ThreadStepOthers DEF ThreadInv
  <1>2. BatchInv'
    BY ThreadStepOthers DEF ThreadInv, BatchInv, appVars
  <1>3. handle'[Main] = "live"
    BY <1>1, ThreadStepOthers, ConstAssumption DEF ThreadInv, LifeInv, View
  <1>4. Life(r)' /\ Late(r)' /\ Kept(r)'
    BY ThreadStepOwn
  <1> QED
    BY <1>1, <1>2, <1>3, <1>4, OneThread

LEMMA InvNext == ThreadInv /\ [Next]_vars => ThreadInv'
  <1> SUFFICES ASSUME ThreadInv, [Next]_vars PROVE ThreadInv'
    OBVIOUS
  <1>1. ASSUME NEW r \in Rdts, NEW routine \in Routines,
               Create(r, routine) \/ BatchCreate(r, routine)
        PROVE  ThreadInv'
    BY <1>1, StartThreadInv DEF Create, BatchCreate, AppFree
  <1>2. ASSUME NEW n \in 1..MaxBatch, BatchBegin(n)
        PROVE  ThreadInv'
    BY <1>2, BatchBeginInv
  <1>3. ASSUME NEW r \in Rdts, NEW e \in Events, EventAdd(r, e)
        PROVE  ThreadInv'
    BY <1>3, EventAddInv
  <1>4. ASSUME NEW r \in Rdts, NEW join \in BOOLEAN, Kill(r, join)
        PROVE  ThreadInv'
    BY <1>4, KillInv
  <1>5. ASSUME NEW r \in Rdts, ThreadStep(r)
        PROVE  ThreadInv'
    BY <1>5, ThreadStepInv
  <1>6. CASE UNCHANGED vars
    BY <1>6, SameInv DEF vars, appVars, ThreadInv, TypeOK
  <1> QED
    BY <1>1, <1>2, <1>3, <1>4, <1>5, <1>6, CreateReturnInv, JoinReturnInv DEF Next

\* The state has its type, the handles and the counters of rd_threads_create()
\* included.
THEOREM TypeCorrect == Spec => []TypeOK
  <1>1. ThreadInv => TypeOK
    BY DEF ThreadInv
  <1> QED
    BY <1>1, InvInit, InvNext, PTL DEF Spec

\* A thread that is told to exit, by rd_thread_kill() or rd_thread_exit(),
\* begins at most one more callback, whatever is queued.
THEOREM AtMostOneLateCall == Spec => []OneLateCall
  <1>1. ThreadInv => OneLateCall
    BY DEF ThreadInv, LateInv, Late, OneLateCall
  <1> QED
    BY <1>1, InvInit, InvNext, PTL DEF Spec

-----------------------------------------------------------------------------
(***************************************************************************)
(* Assertions and freed handles.                                           *)
(***************************************************************************)

\* A handle the application may still use has not been freed.
LEMMA OwnedIsLive ==
    ASSUME ThreadInv, NEW r \in Rdts, owned[r]
    PROVE  handle[r] = "live"
  <1>1. Life(r) /\ Kept(r) /\ handle[Main] = "live" /\ handle[r] \in {"none", "live", "freed"}
    BY DEF ThreadInv, LifeInv, KeptInv, TypeOK
  <1>2. CASE r = Main
    BY <1>1, <1>2
  <1>3. CASE r # Main
    BY <1>1, <1>3 DEF Life, Kept
  <1> QED
    BY <1>2, <1>3

\* What NoFault asks of the application and of pthread_create().
Plain == \A r \in Rdts : rdt_start[r] \in {"none", "main", "dispatch"} /\ ~CreateFailed(r)

LEMMA ThreadStepNoFault ==
    ASSUME ThreadInv, NEW r \in Rdts, ThreadStep(r), Plain'
    PROVE  fault' = "none"
  <1>1. TypeOK /\ Life(r) /\ Kept(r) /\ rdt_start' = rdt_start
    BY ThreadStepOthers DEF ThreadInv, LifeInv, KeptInv
  <1>2. rdt_start[r] \in {"none", "main", "dispatch"} /\ rdt_start[r] # "exit_return"
    BY <1>1 DEF Plain
  <1>3. pc[r] # "none" => rdt_state[r] \in {"RUNNING", "EXITING"}
    BY <1>1 DEF Life, TypeOK
  <1>4. CASE Start(r)
    BY <1>2, <1>4 DEF Start, At
  <1>5. CASE Callback(r)
    BY <1>3, <1>5 DEF Callback, ThreadExit, At
  <1>6. CASE Exit(r)
    <2>1. r # Main => rdt_start[r] = "dispatch"
      BY <1>1, <1>2, <1>6 DEF Life, Exit, At
    <2>2. r # Main => rdt_state[r] # "RUNNING"
      BY <1>1, <1>6, <2>1 DEF Kept, Exit, At
    <2> QED
      BY <1>6, <2>2 DEF Exit, Destroy, At
  <1>7. CASE DispatchTest(r) \/ PollPop(r) \/ PollBlock(r) \/ PollTimeout(r) \/ PollNext(r)
    BY <1>7 DEF DispatchTest, PollPop, PollBlock, PollTimeout, PollNext, At
  <1> QED
    BY <1>4, <1>5, <1>6, <1>7 DEF ThreadStep

LEMMA CreateReturnNoFault ==
    ASSUME ThreadInv, CreateReturn, Plain'
    PROVE  fault' = "none"
  <1>1. PICK r \in Rdts : creating = r
    BY DEF CreateReturn, ThreadInv, TypeOK
  <1>2. TypeOK /\ Life(r) /\ Kept(r) /\ UNCHANGED <<rdt_start, handle>>
    BY DEF ThreadInv, LifeInv, KeptInv, CreateReturn, threadVars
  <1>3. rdt_start[r] = "dispatch"
    BY <1>1, <1>2 DEF Plain, Life, Kept
  <1>4. handle[r] # "freed"
    BY <1>1, <1>2, <1>3 DEF Life, Kept
  <1> QED
    BY <1>1, <1>4 DEF CreateReturn

LEMMA NoFaultNext == ThreadInv /\ NoFault /\ [Next]_vars => NoFault'
  <1> SUFFICES ASSUME ThreadInv, NoFault, [Next]_vars, Plain'
               PROVE  fault' = "none"
    BY DEF NoFault, Plain
  <1>1. ASSUME NEW r \in Rdts, NEW routine \in Routines,
               Create(r, routine) \/ BatchCreate(r, routine)
        PROVE  fault' = "none"
    <2>1. StartThread(r, routine) /\ fault = "none"
      BY <1>1 DEF Create, BatchCreate, AppFree
    <2>2. pc[r] = "none" /\ handle'[r] = "live"
      BY <2>1 DEF StartThread, ThreadInv, LifeInv, Life, TypeOK
    <2> QED
      BY <2>1, <2>2 DEF StartThread, Plain, CreateFailed
  <1>2. ASSUME NEW n \in 1..MaxBatch, BatchBegin(n)
        PROVE  fault' = "none"
    BY <1>2 DEF BatchBegin, AppFree
  <1>3. ASSUME NEW r \in Rdts, NEW e \in Events, EventAdd(r, e)
        PROVE  fault' = "none"
    BY <1>3, OwnedIsLive DEF EventAdd
  <1>4. ASSUME NEW r \in Rdts, NEW join \in BOOLEAN, Kill(r, join)
        PROVE  fault' = "none"
    BY <1>4, OwnedIsLive DEF Kill
  <1>5. ASSUME NEW r \in Rdts, ThreadStep(r)
        PROVE  fault' = "none"
    BY <1>5, ThreadStepNoFault
  <1>6. CASE JoinReturn
    BY <1>6 DEF JoinReturn
  <1>7. CASE UNCHANGED vars
    <2>1. UNCHANGED <<rdt_start, handle, pc, fault>>
      BY <1>7 DEF vars, threadVars
    <2>2. Plain
      BY <2>1 DEF Plain, CreateFailed
    <2> QED
      BY <2>1, <2>2 DEF NoFault, Plain
  <1> QED
    BY <1>1, <1>2, <1>3, <1>4, <1>5, <1>6, <1>7, CreateReturnNoFault DEF Next

\* With start routines that dispatch and creations that succeed, no handle is
\* used after its thread freed it and no assertion of rdthread.c fails.
THEOREM NeverFaults == Spec => []NoFault
  <1>1. Init => NoFault
    BY DEF Init, NoFault
  <1>2. ThreadInv /\ NoFault /\ [Next]_vars => (ThreadInv /\ NoFault)'
    BY InvNext, NoFaultNext
  <1> QED
    BY <1>1, <1>2, InvInit, PTL DEF Spec

-----------------------------------------------------------------------------
(***************************************************************************)
(* The order of events.                                                    *)
(***************************************************************************)

\* EventsInOrder for one thread, with what a later append needs to know of a
\* destroyed one.
Order(r) ==
    IF handle[r] = "freed"
    THEN called[r] = SubSeq(added[r], 1, Len(called[r])) /\ Len(called[r]) <= Len(added[r])
    ELSE added[r] = called[r] \o InHand(r) \o eventq[r]

OrderInv == \A r \in Rdts : Order(r)

LEMMA OneEventSeq ==
    ASSUME NEW e \in Events
    PROVE  <<e>> \in Seq(Events) /\ Len(<<e>>) = 1 /\ <<e>>[1] = e
  OBVIOUS

\* The first event moves from the queue into the thread's hand.
LEMMA PopOrder ==
    ASSUME NEW c \in Seq(Events), NEW q \in Seq(Events), q # <<>>
    PROVE  c \o <<>> \o q = c \o <<Head(q)>> \o Tail(q)
  <1>1. Head(q) \in Events /\ Tail(q) \in Seq(Events) /\ <<Head(q)>> \in Seq(Events)
    BY HeadTailProperties, OneEventSeq
  <1>2. c \o <<>> = c
    BY ConcatEmptySeq
  <1>3. q = <<Head(q)>> \o Tail(q)
    <2>1. /\ Len(Tail(q)) = Len(q) - 1 /\ Len(q) \in Nat
          /\ \A i \in 1..Len(Tail(q)) : Tail(q)[i] = q[i + 1]
          /\ Head(q) = q[1] /\ Len(<<Head(q)>>) = 1 /\ <<Head(q)>>[1] = Head(q)
      BY <1>1, HeadTailProperties, LenProperties, OneEventSeq
    <2> DEFINE t == <<Head(q)>> \o Tail(q)
    <2>2. /\ t \in Seq(Events) /\ Len(t) = 1 + Len(Tail(q))
          /\ \A i \in 1 .. 1 + Len(Tail(q)) :
                t[i] = IF i <= 1 THEN <<Head(q)>>[i] ELSE Tail(q)[i - 1]
      BY <1>1, <2>1, ConcatProperties
    <2> HIDE DEF t
    <2>3. Len(q) = Len(t)
      BY <2>1, <2>2
    <2>4. ASSUME NEW i \in 1..Len(q) PROVE q[i] = t[i]
      <3>1. CASE i = 1
        BY <2>1, <2>2, <2>3, <3>1
      <3>2. CASE i # 1
        <4>1. i - 1 \in 1..Len(Tail(q)) /\ ~(i <= 1) /\ (i - 1) + 1 = i
          BY <2>1, <3>2
        <4> QED
          BY <2>1, <2>2, <2>3, <4>1
      <3> QED
        BY <3>1, <3>2
    <2>5. q = t
      BY <2>2, <2>3, <2>4, SeqEqual
    <2> QED
      BY <2>5 DEF t
  <1>4. (c \o <<Head(q)>>) \o Tail(q) = c \o (<<Head(q)>> \o Tail(q))
    BY <1>1, ConcatAssociative
  <1> QED
    BY <1>2, <1>3, <1>4

\* An append to a thread's queue is an append to all that was added.
LEMMA AddOrder ==
    ASSUME NEW p \in Seq(Events), NEW q \in Seq(Events), NEW e \in Events
    PROVE  Append(p \o q, e) = p \o Append(q, e)
  <1>1. p \o q \in Seq(Events) /\ <<e>> \in Seq(Events)
    BY ConcatProperties, OneEventSeq
  <1>2. Append(p \o q, e) = (p \o q) \o <<e>> /\ Append(q, e) = q \o <<e>>
    BY <1>1, AppendIsConcat
  <1> QED
    BY <1>1, <1>2, ConcatAssociative

\* What precedes the rest is a first part of the whole.
LEMMA FirstPart ==
    ASSUME NEW c \in Seq(Events), NEW q \in Seq(Events)
    PROVE  c = SubSeq(c \o q, 1, Len(c)) /\ Len(c) <= Len(c \o q)
  <1>1. /\ c \o q \in Seq(Events) /\ Len(c \o q) = Len(c) + Len(q)
        /\ Len(c) \in Nat /\ Len(q) \in Nat
        /\ \A i \in 1..Len(c) + Len(q) :
              (c \o q)[i] = IF i <= Len(c) THEN c[i] ELSE q[i - Len(c)]
    BY ConcatProperties, LenProperties
  <1>2. \A i \in 1..Len(c) : (c \o q)[i] = c[i] /\ c[i] \in Events
    BY <1>1, ElementOfSeq
  <1> DEFINE t == SubSeq(c \o q, 1, Len(c))
  <1>3. /\ t \in Seq(Events) /\ Len(t) = IF 1 <= Len(c) THEN Len(c) - 1 + 1 ELSE 0
        /\ \A i \in 1..Len(c) - 1 + 1 : t[i] = (c \o q)[1 + i - 1]
    BY <1>1, <1>2, SubSeqProperties
  <1> HIDE DEF t
  <1>4. Len(t) = Len(c) /\ \A i \in 1..Len(c) : t[i] = c[i]
    BY <1>1, <1>2, <1>3
  <1>5. c = t
    BY <1>3, <1>4, SeqEqual
  <1> QED
    BY <1>1, <1>5 DEF t

LEMMA OrderInit == Init => OrderInv
  <1> SUFFICES ASSUME Init, NEW r \in Rdts PROVE Order(r)
    BY DEF OrderInv
  <1>1. <<>> \o <<>> = <<>>
    BY EmptySeq, ConcatEmptySeq
  <1> QED
    BY <1>1 DEF Init, Order, InHand

LEMMA OrderSame ==
    ASSUME NEW u \in Rdts, Order(u), handle'[u] = handle[u], pc'[u] = pc[u], cur'[u] = cur[u],
           eventq'[u] = eventq[u], added'[u] = added[u], called'[u] = called[u]
    PROVE  Order(u)'
  BY DEF Order, InHand

\* A thread's own step keeps the order of its events.
LEMMA ThreadStepOrder ==
    ASSUME ThreadInv, NEW r \in Rdts, Order(r), ThreadStep(r)
    PROVE  Order(r)'
  <1>1. TypeOK /\ Life(r) /\ Kept(r) /\ added' = added
    BY ThreadStepOthers DEF ThreadInv, LifeInv, KeptInv
  <1>2. eventq[r] \in Seq(Events) /\ called[r] \in Seq(Events) /\ added[r] \in Seq(Events)
    BY <1>1 DEF TypeOK
  <1>3. handle[r] # "freed"
    BY <1>1 DEF ThreadStep, Start, DispatchTest, PollPop, PollBlock, PollTimeout, Callback,
       PollNext, Exit, At, Life
  <1>4. added[r] = called[r] \o InHand(r) \o eventq[r]
    BY <1>3 DEF Order
  <1>5. CASE Start(r) \/ DispatchTest(r) \/ PollBlock(r) \/ PollTimeout(r) \/ PollNext(r)
    <2>1. InHand(r) = <<>> /\ InHand(r)' = <<>>
          /\ UNCHANGED <<handle, called, eventq>>
      BY <1>1, <1>5 DEF Start, DispatchTest, PollBlock, PollTimeout, PollNext, At, Goto,
         InHand, TypeOK, eventVars
    <2> QED
      BY <1>1, <1>3, <1>4, <2>1 DEF Order
  <1>6. CASE PollPop(r)
    <2>1. /\ InHand(r) = <<>> /\ InHand(r)' = <<Head(eventq[r])>>
          /\ eventq[r] # <<>> /\ eventq'[r] = Tail(eventq[r])
          /\ UNCHANGED <<handle, called>>
      BY <1>1, <1>6 DEF PollPop, NextEvent, At, Goto, InHand, TypeOK
    <2>2. added[r] = called[r] \o InHand(r)' \o eventq'[r]
      BY <1>2, <1>4, <2>1, PopOrder
    <2> QED
      BY <1>1, <1>3, <2>1, <2>2 DEF Order
  <1>7. CASE Callback(r)
    <2>1. /\ InHand(r) = <<cur[r]>> /\ InHand(r)' = <<>> /\ cur[r] \in Events
          /\ called'[r] = Append(called[r], cur[r])
          /\ UNCHANGED <<handle, eventq>>
      BY <1>1, <1>7 DEF Callback, At, Goto, InHand, TypeOK, Life
    <2>2. called'[r] = called[r] \o <<cur[r]>> /\ called'[r] \in Seq(Events)
      BY <1>2, <2>1, AppendIsConcat, AppendProperties
    <2>3. called'[r] \o <<>> = called'[r]
      BY <2>2, ConcatEmptySeq
    <2> QED
      BY <1>1, <1>3, <1>4, <2>1, <2>2, <2>3 DEF Order
  <1>8. CASE Exit(r)
    <2>1. InHand(r) = <<>> /\ InHand(r)' = <<>> /\ called' = called
      BY <1>1, <1>8 DEF Exit, At, Goto, InHand, TypeOK
    <2>2. CASE UNCHANGED <<handle, eventq>>
      BY <1>1, <1>3, <1>4, <2>1, <2>2 DEF Order
    <2>3. CASE handle' = [handle EXCEPT ![r] = "freed"]
      <3>1. added[r] = called[r] \o eventq[r]
        BY <1>2, <1>4, <2>1, ConcatEmptySeq
      <3>2. called[r] = SubSeq(added[r], 1, Len(called[r])) /\ Len(called[r]) <= Len(added[r])
        BY <1>2, <3>1, FirstPart
      <3>3. handle'[r] = "freed"
        BY <1>1, <2>3 DEF TypeOK
      <3> QED
        BY <1>1, <2>1, <3>2, <3>3 DEF Order
    <2> QED
      BY <1>8, <2>2, <2>3 DEF Exit, Destroy
  <1> QED
    BY <1>5, <1>6, <1>7, <1>8 DEF ThreadStep

LEMMA EventAddOrder ==
    ASSUME ThreadInv, NEW r \in Rdts, NEW e \in Events, Order(r), EventAdd(r, e)
    PROVE  Order(r)'
  <1>1. TypeOK /\ handle[r] = "live"
    BY OwnedIsLive DEF ThreadInv, EventAdd
  <1>2. /\ eventq'[r] = Append(eventq[r], e) /\ added'[r] = Append(added[r], e)
        /\ UNCHANGED <<handle, called, cur, pc>>
    BY <1>1 DEF EventAdd, threadVars, TypeOK
  <1>3. InHand(r)' = InHand(r) /\ InHand(r) \in Seq(Events)
    <2>1. pc[r] = "call" => cur[r] \in Events
      BY DEF ThreadInv, LifeInv, Life
    <2>2. <<>> \in Seq(Events)
      BY EmptySeq
    <2> QED
      BY <1>2, <2>1, <2>2, OneEventSeq DEF InHand
  <1>4. called[r] \in Seq(Events) /\ eventq[r] \in Seq(Events)
    BY <1>1 DEF TypeOK
  <1>5. called[r] \o InHand(r) \in Seq(Events)
    BY <1>3, <1>4, ConcatProperties
  <1>6. added[r] = called[r] \o InHand(r) \o eventq[r]
    BY <1>1 DEF Order
  <1>7. Append(added[r], e) = (called[r] \o InHand(r)) \o Append(eventq[r], e)
    <2> DEFINE p == called[r] \o InHand(r)
    <2>1. p \in Seq(Events) /\ added[r] = p \o eventq[r]
      BY <1>5, <1>6
    <2> HIDE DEF p
    <2>2. Append(p \o eventq[r], e) = p \o Append(eventq[r], e)
      BY <1>4, <2>1, AddOrder, Zenon
    <2> QED
      BY <2>1, <2>2 DEF p
  <1>8. added'[r] = called'[r] \o InHand(r)' \o eventq'[r] /\ handle'[r] # "freed"
    BY <1>1, <1>2, <1>3, <1>7
  <1> QED
    BY <1>8 DEF Order

LEMMA OrderNext == ThreadInv /\ OrderInv /\ [Next]_vars => OrderInv'
  <1> SUFFICES ASSUME ThreadInv, OrderInv, [Next]_vars, NEW u \in Rdts
               PROVE  Order(u)'
    BY DEF OrderInv
  <1>1. Order(u) /\ TypeOK /\ Life(u)
    BY DEF OrderInv, ThreadInv, LifeInv
  <1>2. ASSUME NEW r \in Rdts, NEW routine \in Routines,
               Create(r, routine) \/ BatchCreate(r, routine)
        PROVE  Order(u)'
    <2>1. StartThread(r, routine)
      BY <1>2 DEF Create, BatchCreate
    <2>2. handle[u] # "freed" => handle'[u] # "freed"
      BY <1>1, <2>1 DEF StartThread, TypeOK
    <2>3. handle[u] = "freed" => handle'[u] = "freed"
      BY <1>1, <2>1 DEF StartThread, TypeOK
    <2>4. InHand(u)' = InHand(u) /\ UNCHANGED <<called, added, eventq>>
      BY <1>1, <2>1 DEF StartThread, InHand, TypeOK, eventVars, Life
    <2> QED
      BY <1>1, <2>2, <2>3, <2>4 DEF Order
  <1>3. ASSUME NEW n \in 1..MaxBatch, BatchBegin(n)
        PROVE  Order(u)'
    BY <1>1, <1>3, OrderSame DEF BatchBegin, threadVars, eventVars
  <1>4. CASE CreateReturn \/ JoinReturn
    BY <1>1, <1>4, OrderSame DEF CreateReturn, JoinReturn, threadVars, eventVars
  <1>5. ASSUME NEW r \in Rdts, NEW e \in Events, EventAdd(r, e)
        PROVE  Order(u)'
    <2>1. CASE u = r
      BY <1>1, <1>5, <2>1, EventAddOrder
    <2>2. CASE u # r
      BY <1>1, <1>5, <2>2, OrderSame DEF EventAdd, threadVars, TypeOK
    <2> QED
      BY <2>1, <2>2
  <1>6. ASSUME NEW r \in Rdts, NEW join \in BOOLEAN, Kill(r, join)
        PROVE  Order(u)'
    BY <1>1, <1>6, OrderSame DEF Kill, eventVars
  <1>7. ASSUME NEW r \in Rdts, ThreadStep(r)
        PROVE  Order(u)'
    <2>1. CASE u = r
      BY <1>1, <1>7, <2>1, ThreadStepOrder
    <2>2. CASE u # r
      <3>1. View(u)' = View(u)
        BY <1>1, <1>7, <2>2, ThreadStepOthers
      <3> QED
        BY <1>1, <3>1, OrderSame DEF View
    <2> QED
      BY <2>1, <2>2
  <1>8. CASE UNCHANGED vars
    BY <1>1, <1>8, OrderSame DEF vars, threadVars, eventVars
  <1> QED
    BY <1>2, <1>3, <1>4, <1>5, <1>6, <1>7, <1>8 DEF Next

\* Events reach their thread once and in the order in which
\* rd_thread_event_add() added them, however poll, timeouts and kills
\* interleave; a destroyed thread has called the first of them.
THEOREM EventsKeepOrder == Spec => []EventsInOrder
  <1>1. OrderInv => EventsInOrder
    BY DEF OrderInv, Order, EventsInOrder
  <1>2. ThreadInv /\ OrderInv /\ [Next]_vars => (ThreadInv /\ OrderInv)'
    BY InvNext, OrderNext
  <1> QED
    BY <1>1, <1>2, InvInit, OrderInit, PTL DEF Spec
=============================================================================
