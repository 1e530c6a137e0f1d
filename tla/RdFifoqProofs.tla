--------------------------- MODULE RdFifoqProofs ---------------------------
(***************************************************************************)
(* Proofs about RdFifoq, for any threads, elements, pointers and limits.   *)
(***************************************************************************)
EXTENDS RdFifoq, FiniteSetTheorems, SequenceTheorems, TLAPS

\* Element ownership and the element count, on which the rest depends: an
\* addition may only reuse an element that is neither queued nor held, which
\* is known from the reference counts.
OwnInv == TypeOK /\ ElmOwnership /\ CntMatches

-----------------------------------------------------------------------------
\* A sequence is a function on 1..Len with values in its set.
LEMMA SeqFacts ==
    ASSUME NEW S, NEW s \in Seq(S)
    PROVE  /\ Len(s) \in Nat
           /\ DOMAIN s = 1..Len(s)
           /\ \A i \in 1..Len(s) : s[i] \in S
           /\ s = <<>> <=> Len(s) = 0
  <1>1. Len(s) \in Nat /\ DOMAIN s = 1..Len(s) /\ s \in [1..Len(s) -> S]
    BY LenProperties
  <1>2. s # <<>> => Len(s) # 0
    BY EmptySeq
  <1>3. s = <<>> => Len(s) = 0
    BY EmptySeq
  <1> QED
    BY <1>1, <1>2, <1>3

\* The list that is left when a full queue drops its first or last element:
\* a sequence that is one shorter, whose entries keep their order.
LEMMA AfterPurgeShape ==
    ASSUME TypeOK, rfq_q # <<>>
    PROVE  /\ AfterPurge \in Seq(Elms)
           /\ Len(AfterPurge) = Len(rfq_q) - 1
           /\ \A i \in 1..Len(AfterPurge) :
                AfterPurge[i] = IF rfq_taildrop THEN rfq_q[i] ELSE rfq_q[i + 1]
           /\ Purge = rfq_q[IF rfq_taildrop THEN Len(rfq_q) ELSE 1]
           /\ Purge \in Elms
  <1>1. /\ rfq_q \in Seq(Elms)
        /\ Len(rfq_q) \in Nat /\ Len(rfq_q) >= 1
        /\ \A i \in 1..Len(rfq_q) : rfq_q[i] \in Elms
    <2>1. rfq_q \in Seq(Elms)
      BY DEF TypeOK
    <2> QED
      BY <2>1, SeqFacts
  <1>2. CASE rfq_taildrop
    <2> DEFINE s == SubSeq(rfq_q, 1, Len(rfq_q) - 1)
    <2>1. /\ s \in Seq(Elms) /\ Len(s) = Len(rfq_q) - 1
          /\ \A i \in 1..(Len(rfq_q) - 1) : s[i] = rfq_q[i]
      <3>1. PICK n \in Int : n = Len(rfq_q) - 1 /\ n >= 0
        BY <1>1
      <3>2. \A i \in 1..n : rfq_q[i] \in Elms
        BY <1>1, <3>1
      <3>3. /\ SubSeq(rfq_q, 1, n) \in Seq(Elms)
            /\ Len(SubSeq(rfq_q, 1, n)) = IF 1 <= n THEN n - 1 + 1 ELSE 0
            /\ \A i \in 1..(n - 1 + 1) : SubSeq(rfq_q, 1, n)[i] = rfq_q[1 + i - 1]
        BY <3>2, SubSeqProperties
      <3>4. Len(SubSeq(rfq_q, 1, n)) = n /\ \A i \in 1..n : SubSeq(rfq_q, 1, n)[i] = rfq_q[i]
        BY <3>1, <3>3
      <3> QED
        BY <3>1, <3>3, <3>4
    <2>2. AfterPurge = s /\ Purge = rfq_q[Len(rfq_q)]
      BY <1>2 DEF AfterPurge, Purge
    <2> HIDE DEF s
    <2> QED
      BY <1>1, <1>2, <2>1, <2>2
  <1>3. CASE ~rfq_taildrop
    <2>1. /\ Tail(rfq_q) \in Seq(Elms) /\ Len(Tail(rfq_q)) = Len(rfq_q) - 1
          /\ \A i \in 1..Len(Tail(rfq_q)) : Tail(rfq_q)[i] = rfq_q[i + 1]
      BY <1>1, HeadTailProperties
    <2>2. AfterPurge = Tail(rfq_q) /\ Purge = Head(rfq_q) /\ Head(rfq_q) = rfq_q[1]
      BY <1>1, <1>3 DEF AfterPurge, Purge
    <2> QED
      BY <1>1, <1>3, <2>1, <2>2
  <1> QED
    BY <1>2, <1>3

LEMMA OwnInvInit == Init => OwnInv
  <1> SUFFICES ASSUME Init PROVE OwnInv
    OBVIOUS
  <1>1. rfq_q = <<>> /\ rfq_q \in Seq(Elms) /\ Len(rfq_q) = 0 /\ DOMAIN rfq_q = {}
    BY EmptySeq DEF Init
  <1>2. TypeOK
    <2>1. /\ rfq_q \in Seq(Elms) /\ rfq_cnt \in Int /\ rfq_max_size \in MaxSizes \cup {0}
          /\ rfqe_refcnt \in [Elms -> 0..2] /\ inits \in 1..MaxInits
      BY <1>1, ConstAssumption DEF Init
    <2>2. /\ rfqe_ptr \in [Elms -> Ptrs \cup {NoPtr}] /\ pc \in [Threads -> PcValues]
          /\ held \in [Threads -> Elms \cup {NoElm}]
          /\ purged \in [Threads -> Ptrs \cup {NoPtr}]
      BY DEF Init, PcValues
    <2>3. /\ rfq_taildrop \in BOOLEAN /\ timed \in [Threads -> BOOLEAN]
          /\ live \in BOOLEAN /\ fault \in BOOLEAN
      BY DEF Init
    <2> QED
      BY <2>1, <2>2, <2>3 DEF TypeOK
  <1>3. ElmOwnership
    BY <1>1 DEF Init, ElmOwnership
  <1>4. CntMatches
    BY <1>1 DEF Init, CntMatches
  <1> QED
    BY <1>2, <1>3, <1>4 DEF OwnInv

\* OwnInv read with indices instead of domains.
LEMMA OwnFacts ==
    ASSUME OwnInv
    PROVE  /\ rfq_q \in Seq(Elms) /\ Len(rfq_q) \in Nat
           /\ DOMAIN rfq_q = 1..Len(rfq_q)
           /\ rfq_q = <<>> <=> Len(rfq_q) = 0
           /\ \A i \in 1..Len(rfq_q) : rfq_q[i] \in Elms /\ rfqe_refcnt[rfq_q[i]] = 2
           /\ \A i, j \in 1..Len(rfq_q) : rfq_q[i] = rfq_q[j] => i = j
           /\ rfq_cnt \in Int /\ rfq_cnt >= Len(rfq_q)
  <1>1. rfq_q \in Seq(Elms) /\ rfq_cnt \in Int
    BY DEF OwnInv, TypeOK
  <1>2. /\ Len(rfq_q) \in Nat /\ DOMAIN rfq_q = 1..Len(rfq_q)
        /\ \A i \in 1..Len(rfq_q) : rfq_q[i] \in Elms
        /\ rfq_q = <<>> <=> Len(rfq_q) = 0
    BY <1>1, SeqFacts
  <1>3. /\ \A i \in 1..Len(rfq_q) : rfqe_refcnt[rfq_q[i]] = 2
        /\ \A i, j \in 1..Len(rfq_q) : rfq_q[i] = rfq_q[j] => i = j
    BY <1>2, Zenon DEF OwnInv, ElmOwnership
  <1>4. rfq_cnt >= Len(rfq_q)
    BY DEF OwnInv, CntMatches
  <1> QED
    BY <1>1, <1>2, <1>3, <1>4

\* How the count follows the list: a step that changes both by the same
\* amount and does not start a new life keeps CntMatches.
LEMMA CntFollows ==
    ASSUME OwnInv, live' = live, inits' = inits, rfq_q' \in Seq(Elms),
           rfq_cnt' = rfq_cnt + (Len(rfq_q') - Len(rfq_q))
    PROVE  CntMatches'
  <1>1. Len(rfq_q) \in Nat /\ Len(rfq_q') \in Nat /\ rfq_cnt \in Int
    BY OwnFacts, LenProperties
  <1>2. rfq_cnt' >= Len(rfq_q')
    BY <1>1, OwnFacts
  <1>3. (live /\ inits = 1) => rfq_cnt = Len(rfq_q)
    BY DEF OwnInv, CntMatches
  <1>4. rfq_cnt = Len(rfq_q) => rfq_cnt' = Len(rfq_q')
    BY <1>1
  <1>5. (live' /\ inits' = 1) => rfq_cnt' = Len(rfq_q')
    BY <1>3, <1>4, Zenon
  <1> QED
    BY <1>2, <1>5, Zenon DEF CntMatches

\* Signalling changes nothing but the program counter of a blocked thread.
LEMMA SignalFacts ==
    ASSUME TypeOK, Signal
    PROVE  /\ pc' \in [Threads -> PcValues]
           /\ \A t \in Threads : pc'[t] = pc[t] \/ (pc[t] = "waiting" /\ pc'[t] = "woken")
  BY DEF TypeOK, Signal, Waiting, PcValues

LEMMA AddOwnInv ==
    ASSUME OwnInv, NEW t \in Threads, NEW p \in Ptrs, NEW report \in BOOLEAN,
           Add(t, p, report)
    PROVE  OwnInv'
  <1>1. PICK e \in Elms :
            /\ rfqe_refcnt[e] = 0
            /\ rfqe_ptr' = [rfqe_ptr EXCEPT ![e] = p]
            /\ \/ /\ MustPurge /\ rfq_q = <<>>
                  /\ fault' = TRUE
                  /\ rfqe_refcnt' = [rfqe_refcnt EXCEPT ![e] = 2]
                  /\ UNCHANGED <<queueVars, pc, purged>>
               \/ /\ ~(MustPurge /\ rfq_q = <<>>)
                  /\ rfq_q' = Append(IF MustPurge THEN AfterPurge ELSE rfq_q, e)
                  /\ rfq_cnt' = CntAfterAdd
                  /\ rfqe_refcnt' = RefcntAfterAdd(e)
                  /\ purged' = IF report
                               THEN [purged EXCEPT ![t] =
                                       IF MustPurge THEN rfqe_ptr[Purge] ELSE NoPtr]
                               ELSE purged
                  /\ Signal
                  /\ UNCHANGED <<rfq_max_size, rfq_taildrop, fault>>
    BY DEF Add
  <1>2. UNCHANGED <<timed, held, live, inits>>
    BY DEF Add
  <1>3. CASE MustPurge /\ rfq_q = <<>>
    BY <1>1, <1>2, <1>3 DEF OwnInv, TypeOK, ElmOwnership, CntMatches, queueVars
  <1>4. CASE ~(MustPurge /\ rfq_q = <<>>)
    <2> DEFINE base == IF MustPurge THEN AfterPurge ELSE rfq_q
    <2>0. /\ rfq_q \in Seq(Elms) /\ Len(rfq_q) \in Nat
          /\ MustPurge => rfq_q # <<>>
      BY <1>4, OwnFacts
    <2>1. /\ base \in Seq(Elms)
          /\ Len(base) \in Nat
          /\ Len(base) = IF MustPurge THEN Len(rfq_q) - 1 ELSE Len(rfq_q)
          /\ \E k \in {0, 1} : \A i \in 1..Len(base) :
                base[i] = rfq_q[i + k] /\ i + k \in 1..Len(rfq_q)
      <3>1. CASE MustPurge /\ rfq_taildrop
        BY <2>0, <3>1, AfterPurgeShape DEF OwnInv
      <3>2. CASE MustPurge /\ ~rfq_taildrop
        BY <2>0, <3>2, AfterPurgeShape DEF OwnInv
      <3>3. CASE ~MustPurge
        BY <2>0, <3>3
      <3> QED
        BY <3>1, <3>2, <3>3
    <2> HIDE DEF base
    <2>2. MustPurge => rfqe_refcnt[Purge] = 2
      BY <2>0, AfterPurgeShape, OwnFacts DEF OwnInv
    <2>3. rfqe_refcnt' = [rfqe_refcnt EXCEPT ![e] = 2]
      BY <1>1, <1>4, <2>2 DEF RefcntAfterAdd, queueVars
    <2>4. /\ rfq_q' \in Seq(Elms)
          /\ Len(rfq_q') = Len(base) + 1
          /\ DOMAIN rfq_q' = 1..(Len(base) + 1)
          /\ \A i \in 1..Len(base) : rfq_q'[i] = base[i]
          /\ rfq_q'[Len(base) + 1] = e
      <3>1. rfq_q' = Append(base, e)
        BY <1>1, <1>4 DEF base
      <3> QED
        BY <2>1, <3>1, AppendProperties, SeqFacts
    <2>5. rfq_cnt' = rfq_cnt + (Len(rfq_q') - Len(rfq_q))
      <3>1. rfq_cnt' = IF MustPurge THEN (rfq_cnt - 1) + 1 ELSE rfq_cnt + 1
        BY <1>1, <1>4 DEF CntAfterAdd
      <3>2. rfq_cnt \in Int
        BY OwnFacts
      <3>3. CASE MustPurge
        BY <2>0, <2>1, <2>4, <3>1, <3>2, <3>3
      <3>4. CASE ~MustPurge
        BY <2>0, <2>1, <2>4, <3>1, <3>2, <3>4
      <3> QED
        BY <3>3, <3>4
    <2>len. Len(base) \in Nat
      BY <2>1
    <2>k. PICK k \in {0, 1} : \A i \in 1..Len(base) :
                base[i] = rfq_q[i + k] /\ i + k \in 1..Len(rfq_q)
      BY <2>1
    <2>6. \A i \in 1..Len(base) : base[i] # e /\ base[i] \in Elms
                                  /\ rfqe_refcnt[base[i]] = 2
      BY <1>1, <2>k, OwnFacts
    <2>7. \A i, j \in 1..Len(base) : base[i] = base[j] => i = j
      <3>1. SUFFICES ASSUME NEW i \in 1..Len(base), NEW j \in 1..Len(base),
                            base[i] = base[j]
                     PROVE  i = j
        OBVIOUS
      <3>2. rfq_q[i + k] = rfq_q[j + k] /\ i + k \in 1..Len(rfq_q)
            /\ j + k \in 1..Len(rfq_q)
        BY <2>k, <3>1
      <3>3. i + k = j + k
        BY <3>2, OwnFacts
      <3> QED
        BY <2>1, <3>3
    <2>8. purged' \in [Threads -> Ptrs \cup {NoPtr}]
      BY <1>1, <1>4, <2>0, AfterPurgeShape DEF OwnInv, TypeOK
    <2>9. TypeOK'
      <3>1. rfq_cnt' \in Int
        <4>1. Len(rfq_q') \in Nat /\ rfq_cnt \in Int
          BY <2>4, SeqFacts, OwnFacts
        <4> QED
          BY <2>0, <2>5, <4>1
      <3>2. pc' \in [Threads -> PcValues]
        BY <1>1, <1>4, SignalFacts DEF OwnInv
      <3>3. rfqe_refcnt' \in [Elms -> 0..2]
        BY <2>3 DEF OwnInv, TypeOK
      <3> QED
        BY <1>1, <1>2, <1>4, <2>4, <2>8, <3>1, <3>2, <3>3 DEF OwnInv, TypeOK
    <2>11. ElmOwnership'
      <3>1. \A i, j \in DOMAIN rfq_q' : rfq_q'[i] = rfq_q'[j] => i = j
        <4>1. SUFFICES ASSUME NEW i \in 1..(Len(base) + 1), NEW j \in 1..(Len(base) + 1),
                              rfq_q'[i] = rfq_q'[j]
                       PROVE  i = j
          BY <2>4
        <4>2. CASE i \in 1..Len(base) /\ j \in 1..Len(base)
          <5>1. base[i] = base[j]
            BY <2>4, <4>1, <4>2
          <5> QED
            BY <2>7, <4>2, <5>1
        <4>3. CASE i = Len(base) + 1 \/ j = Len(base) + 1
          <5>1. \A m \in 1..Len(base) : rfq_q'[m] # e
            BY <2>4, <2>6
          <5>2. rfq_q'[Len(base) + 1] = e
            BY <2>4
          <5> QED
            BY <2>len, <4>1, <4>3, <5>1, <5>2
        <4> QED
          BY <2>len, <4>2, <4>3
      <3>2. \A i \in DOMAIN rfq_q' : rfqe_refcnt'[rfq_q'[i]] = 2
        BY <2>1, <2>3, <2>4, <2>6 DEF OwnInv, TypeOK
      <3>3. \A u \in Threads :
                /\ pc'[u] = "holding" <=> held'[u] # NoElm
                /\ held'[u] # NoElm => rfqe_refcnt'[held'[u]] = 1
        BY <1>1, <1>2, <1>4, <2>3, SignalFacts DEF OwnInv, TypeOK, ElmOwnership
      <3> QED
        BY <1>2, <3>1, <3>2, <3>3 DEF OwnInv, ElmOwnership
    <2>12. CntMatches'
      BY <1>2, <2>4, <2>5, CntFollows
    <2> QED
      BY <2>9, <2>11, <2>12 DEF OwnInv
  <1> QED
    BY <1>3, <1>4

\* What Take moves: from the head of the queue into the thread's hands.
LEMMA TakeOwnInv ==
    ASSUME OwnInv, NEW t \in Threads, Take(t), pc[t] # "holding"
    PROVE  OwnInv' /\ fault' = FALSE
  <1> DEFINE h == Head(rfq_q)
  <1>1. /\ rfq_q # <<>> /\ h \in Elms /\ h = rfq_q[1] /\ Len(rfq_q) >= 1
        /\ rfqe_refcnt[h] = 2
    BY OwnFacts, HeadTailProperties DEF Take
  <1>2. /\ rfq_q' \in Seq(Elms)
        /\ Len(rfq_q') \in Nat /\ DOMAIN rfq_q' = 1..Len(rfq_q')
        /\ Len(rfq_q') = Len(rfq_q) - 1
        /\ \A i \in 1..Len(rfq_q') : rfq_q'[i] = rfq_q[i + 1] /\ i + 1 \in 1..Len(rfq_q)
    <2>1. rfq_q' = Tail(rfq_q) /\ rfq_q \in Seq(Elms)
      BY OwnFacts DEF Take
    <2>2. /\ rfq_q' \in Seq(Elms)
          /\ Len(rfq_q') = Len(rfq_q) - 1
          /\ \A i \in 1..Len(rfq_q') : rfq_q'[i] = rfq_q[i + 1]
      BY <1>1, <2>1, HeadTailProperties
    <2>3. Len(rfq_q') \in Nat /\ DOMAIN rfq_q' = 1..Len(rfq_q')
      BY <2>2, SeqFacts
    <2> QED
      BY <2>2, <2>3, OwnFacts
  <1>3. rfqe_refcnt' = [rfqe_refcnt EXCEPT ![h] = 1]
    BY <1>1 DEF Take, Released, OwnInv, TypeOK
  <1>4. fault' = FALSE
    <2>1. ~(rfq_cnt <= 0) /\ ~(rfqe_refcnt[Head(rfq_q)] = 1)
      BY <1>1, OwnFacts
    <2>2. fault' = (rfq_cnt <= 0 \/ rfqe_refcnt[Head(rfq_q)] = 1)
      BY DEF Take
    <2> QED
      BY <2>1, <2>2, Zenon
  <1> HIDE DEF h
  <1>5. TypeOK'
    <2>1. held' = [held EXCEPT ![t] = h]
      BY DEF Take, h
    <2>2. rfq_cnt' \in Int
      BY OwnFacts DEF Take
    <2> QED
      BY <1>1, <1>2, <1>3, <1>4, <2>1, <2>2 DEF Take, OwnInv, TypeOK, PcValues
  <1>6. ElmOwnership'
    <2>0. held' = [held EXCEPT ![t] = h] /\ pc' = [pc EXCEPT ![t] = "holding"]
      BY DEF Take, h
    <2>1. \A i, j \in DOMAIN rfq_q' : rfq_q'[i] = rfq_q'[j] => i = j
      BY <1>2, OwnFacts
    <2>2. \A i \in DOMAIN rfq_q' : rfqe_refcnt'[rfq_q'[i]] = 2
      <3>1. \A i \in 1..Len(rfq_q') : rfq_q'[i] # h
        BY <1>1, <1>2, OwnFacts
      <3> QED
        BY <1>1, <1>2, <1>3, <3>1, OwnFacts DEF OwnInv, TypeOK
    <2>3. \A u \in Threads : held[u] # h
      BY <1>1, ConstAssumption DEF OwnInv, TypeOK, ElmOwnership
    <2>4. \A u \in Threads :
              /\ pc'[u] = "holding" <=> held'[u] # NoElm
              /\ held'[u] # NoElm => rfqe_refcnt'[held'[u]] = 1
      BY <1>1, <1>3, <2>0, <2>3, ConstAssumption DEF OwnInv, TypeOK, ElmOwnership
    <2>5. \A u, v \in Threads : held'[u] = held'[v] /\ held'[u] # NoElm => u = v
      BY <1>1, <2>0, <2>3, ConstAssumption DEF OwnInv, TypeOK, ElmOwnership
    <2> QED
      BY <2>1, <2>2, <2>4, <2>5 DEF ElmOwnership
  <1>7. CntMatches'
    <2>1. rfq_cnt' = rfq_cnt + (Len(rfq_q') - Len(rfq_q))
      BY <1>2, OwnFacts DEF Take
    <2> QED
      BY <1>2, <2>1, CntFollows DEF Take
  <1> QED
    BY <1>4, <1>5, <1>6, <1>7 DEF OwnInv

LEMMA BlockOwnInv ==
    ASSUME OwnInv, NEW t \in Threads, NEW tmo \in BOOLEAN, Block(t, tmo),
           pc[t] # "holding"
    PROVE  OwnInv'
  BY DEF Block, OwnInv, TypeOK, ElmOwnership, CntMatches, PcValues, queueVars, elmVars,
         lifeVars

LEMMA ReleaseOwnInv ==
    ASSUME OwnInv, NEW t \in Threads, Release(t)
    PROVE  OwnInv'
  <1>1. held[t] \in Elms /\ rfqe_refcnt[held[t]] = 1
    BY DEF Release, At, OwnInv, TypeOK, ElmOwnership
  <1>2. rfqe_refcnt' = [rfqe_refcnt EXCEPT ![held[t]] = 0]
    BY <1>1 DEF Release, Released, OwnInv, TypeOK
  <1>3. TypeOK'
    BY <1>1, <1>2 DEF Release, OwnInv, TypeOK, PcValues, queueVars, lifeVars
  <1>4. ElmOwnership'
    BY <1>1, <1>2, ConstAssumption
    DEF Release, OwnInv, TypeOK, ElmOwnership, queueVars, lifeVars, At
  <1>5. CntMatches'
    BY DEF Release, OwnInv, CntMatches, queueVars, lifeVars
  <1> QED
    BY <1>3, <1>4, <1>5 DEF OwnInv

LEMMA DestroyOwnInv == OwnInv /\ Destroy => OwnInv'
  <1> SUFFICES ASSUME OwnInv, Destroy PROVE OwnInv'
    OBVIOUS
  <1>1. \A t \in Threads : held[t] = NoElm
    BY DEF Destroy, OwnInv, TypeOK, ElmOwnership
  <1>2. TypeOK'
    <2>1. rfqe_refcnt' \in [Elms -> 0..2]
      BY DEF Destroy, OwnInv, TypeOK
    <2>2. rfq_q' \in Seq(Elms) /\ live' \in BOOLEAN
      BY EmptySeq DEF Destroy
    <2> QED
      BY <2>1, <2>2 DEF Destroy, OwnInv, TypeOK, threadVars
  <1>3. ElmOwnership'
    BY <1>1 DEF Destroy, OwnInv, TypeOK, ElmOwnership, threadVars
  <1>4. CntMatches'
    BY DEF Destroy, OwnInv, TypeOK, CntMatches
  <1> QED
    BY <1>2, <1>3, <1>4 DEF OwnInv

LEMMA ReInitOwnInv == OwnInv /\ ReInit => OwnInv'
  <1> SUFFICES ASSUME OwnInv, ReInit PROVE OwnInv'
    OBVIOUS
  <1>1. TypeOK'
    BY ConstAssumption DEF ReInit, OwnInv, TypeOK, threadVars, elmVars
  <1>2. ElmOwnership'
    BY DEF ReInit, OwnInv, TypeOK, ElmOwnership, threadVars, elmVars
  <1>3. CntMatches'
    BY DEF ReInit, OwnInv, TypeOK, CntMatches
  <1> QED
    BY <1>1, <1>2, <1>3 DEF OwnInv
\* Steps that move one thread between program points other than "holding"
\* and leave queue, elements and hands alone.
LEMMA PcStepOwnInv ==
    ASSUME OwnInv, NEW t \in Threads, NEW w \in PcValues \ {"holding"},
           pc[t] # "holding", pc' = [pc EXCEPT ![t] = w],
           UNCHANGED <<queueVars, elmVars, timed, held, purged, lifeVars>>
    PROVE  OwnInv'
  BY DEF OwnInv, TypeOK, ElmOwnership, CntMatches, PcValues, queueVars, elmVars, lifeVars

LEMMA SetMaxSizeOwnInv ==
    ASSUME OwnInv, NEW t \in Threads, NEW m \in MaxSizes, NEW td \in BOOLEAN,
           SetMaxSize(t, m, td)
    PROVE  OwnInv'
  <1>1. TypeOK'
    BY DEF OwnInv, TypeOK, SetMaxSize, elmVars, threadVars, lifeVars
  <1>2. ElmOwnership' /\ CntMatches'
    BY DEF OwnInv, ElmOwnership, CntMatches, SetMaxSize, elmVars, threadVars, lifeVars
  <1> QED
    BY <1>1, <1>2 DEF OwnInv

\* A pop, at its start or when a woken thread has the lock again.
LEMMA PopOwnInv ==
    ASSUME OwnInv, NEW t \in Threads,
           PopNowait(t) \/ (\E tmo \in BOOLEAN : PopWait(t, tmo)) \/ Resume(t)
    PROVE  OwnInv'
  <1>1. pc[t] # "holding"
    BY DEF PopNowait, PopWait, Resume, Running, At
  <1>2. timed[t] \in BOOLEAN
    BY DEF OwnInv, TypeOK
  <1>3. Take(t) \/ \E tmo \in BOOLEAN : Block(t, tmo)
    BY <1>2 DEF PopNowait, PopWait, Resume
  <1> QED
    BY <1>1, <1>3, TakeOwnInv, BlockOwnInv

LEMMA OwnInvNext == OwnInv /\ [Next]_vars => OwnInv'
  <1> SUFFICES ASSUME OwnInv, [Next]_vars PROVE OwnInv'
    OBVIOUS
  <1>w. Workers \subseteq Threads /\ Callers \subseteq Threads
    BY ConstAssumption DEF Callers
  <1>1. ASSUME NEW t \in Callers, NEW m \in MaxSizes, NEW td \in BOOLEAN,
               SetMaxSize(t, m, td)
        PROVE  OwnInv'
    BY <1>w, <1>1, SetMaxSizeOwnInv
  <1>2. ASSUME NEW t \in Callers, NEW p \in Ptrs, NEW report \in BOOLEAN,
               Add(t, p, report)
        PROVE  OwnInv'
    BY <1>w, <1>2, AddOwnInv
  <1>3. ASSUME NEW t \in Callers, PopNowait(t) \/ PopWait(t, TRUE)
        PROVE  OwnInv'
    BY <1>w, <1>3, PopOwnInv
  <1>4. ASSUME NEW t \in Workers, PopWait(t, FALSE)
        PROVE  OwnInv'
    BY <1>w, <1>4, PopOwnInv
  <1>5. ASSUME NEW t \in Threads, Spurious(t) \/ Expire(t) \/ ReturnTimeout(t)
        PROVE  OwnInv'
    <2>1. pc[t] # "holding"
      BY <1>5 DEF Spurious, Expire, ReturnTimeout, At
    <2>2. \E w \in PcValues \ {"holding"} : pc' = [pc EXCEPT ![t] = w]
      BY <1>5 DEF Spurious, Expire, ReturnTimeout, PcValues
    <2>3. UNCHANGED <<queueVars, elmVars, timed, held, purged, lifeVars>>
      BY <1>5 DEF Spurious, Expire, ReturnTimeout
    <2> QED
      BY <2>1, <2>2, <2>3, PcStepOwnInv
  <1>6. ASSUME NEW t \in Threads, Resume(t) PROVE OwnInv'
    BY <1>6, PopOwnInv
  <1>7. ASSUME NEW t \in Threads, Release(t) PROVE OwnInv'
    BY <1>7, ReleaseOwnInv
  <1>8. CASE Destroy
    BY <1>8, DestroyOwnInv
  <1>9. CASE ReInit
    BY <1>9, ReInitOwnInv
  <1>10. CASE UNCHANGED vars
    BY <1>10 DEF OwnInv, TypeOK, ElmOwnership, CntMatches, vars, queueVars, elmVars,
                 threadVars, lifeVars
  <1> QED
    BY <1>1, <1>2, <1>3, <1>4, <1>5, <1>6, <1>7, <1>8, <1>9, <1>10 DEF Next

\* rd_fifoq_add0(), pop0(), destroy() and init() keep the types, the owner of
\* every element and the relation between rfq_cnt and the list.
THEOREM OwnInvariant == Spec => [](TypeOK /\ ElmOwnership /\ CntMatches)
  <1>1. Spec => []OwnInv
    BY OwnInvInit, OwnInvNext, PTL DEF Spec
  <1>2. OwnInv => TypeOK /\ ElmOwnership /\ CntMatches
    BY DEF OwnInv
  <1> QED
    BY <1>1, <1>2, PTL

\* The queue is typed.
THEOREM TypeCorrect == Spec => []TypeOK
  BY OwnInvariant, PTL

\* Element ownership, for any number of threads and lives of the queue.
THEOREM OwnershipHolds == Spec => []ElmOwnership
  BY OwnInvariant, PTL

\* The count never falls below the list, and equals it in the first life.
THEOREM CountHolds == Spec => []CntMatches
  BY OwnInvariant, PTL

-----------------------------------------------------------------------------
(***************************************************************************)
(* Wakeups.  NoLostWakeup is inductive once the types are known: every     *)
(* addition moves a thread from Waiting to Woken, a woken thread leaves    *)
(* Woken only with an element or when it saw the queue empty.              *)
(***************************************************************************)
LEMMA WakeFinite ==
    /\ IsFiniteSet(Waiting) /\ IsFiniteSet(Woken)
    /\ Cardinality(Woken) \in Nat
  <1>1. Waiting \subseteq Threads /\ Woken \subseteq Threads
    BY DEF Waiting, Woken
  <1>2. IsFiniteSet(Waiting) /\ IsFiniteSet(Woken)
    BY <1>1, ConstAssumption, FS_Subset
  <1> QED
    BY <1>2, FS_CardinalityType

\* A step that lets no thread block, loses no woken thread and adds no
\* element.
LEMMA WakeMonotone ==
    ASSUME OwnInv, OwnInv', NoLostWakeup, Waiting' \subseteq Waiting,
           Cardinality(Woken') >= Cardinality(Woken), Cardinality(Woken') \in Nat,
           Len(rfq_q') <= Len(rfq_q)
    PROVE  NoLostWakeup'
  <1>1. Len(rfq_q) \in Nat /\ Len(rfq_q') \in Nat /\ Cardinality(Woken) \in Nat
    BY WakeFinite, LenProperties DEF OwnInv, TypeOK
  <1>2. Waiting' # {} => Waiting # {}
    OBVIOUS
  <1> QED
    BY <1>1, <1>2 DEF NoLostWakeup

LEMMA AddWake ==
    ASSUME OwnInv, OwnInv', NoLostWakeup, NEW t \in Threads, NEW p \in Ptrs,
           NEW report \in BOOLEAN, Add(t, p, report)
    PROVE  NoLostWakeup'
  <1>1. Len(rfq_q) \in Nat /\ Len(rfq_q') \in Nat /\ Cardinality(Woken) \in Nat
    BY WakeFinite, LenProperties DEF OwnInv, TypeOK
  <1>2. CASE MustPurge /\ rfq_q = <<>>
    <2>1. rfq_q' = rfq_q /\ pc' = pc
      BY <1>2 DEF Add, queueVars
    <2>2. Waiting' = Waiting /\ Woken' = Woken
      BY <2>1 DEF Waiting, Woken
    <2> QED
      BY <2>1, <2>2 DEF NoLostWakeup
  <1>3. CASE ~(MustPurge /\ rfq_q = <<>>)
    <2>1. PICK e \in Elms : rfq_q' = Append(IF MustPurge THEN AfterPurge ELSE rfq_q, e)
      BY <1>3 DEF Add
    <2>2. Signal
      BY <1>3 DEF Add
    <2>3. Len(rfq_q') <= Len(rfq_q) + 1
      <3>1. CASE MustPurge
        <4>1. AfterPurge \in Seq(Elms) /\ Len(AfterPurge) = Len(rfq_q) - 1
          BY <1>3, <3>1, AfterPurgeShape DEF OwnInv
        <4>2. rfq_q' = Append(AfterPurge, e)
          BY <2>1, <3>1
        <4>3. Len(rfq_q') = Len(AfterPurge) + 1
          BY <4>1, <4>2, AppendProperties
        <4> QED
          BY <1>1, <4>1, <4>3
      <3>2. CASE ~MustPurge
        <4>1. rfq_q' = Append(rfq_q, e) /\ rfq_q \in Seq(Elms)
          BY <2>1, <3>2 DEF OwnInv, TypeOK
        <4>2. Len(rfq_q') = Len(rfq_q) + 1
          BY <4>1, AppendProperties
        <4> QED
          BY <1>1, <4>2
      <3> QED
        BY <3>1, <3>2
    <2>4. CASE Waiting = {}
      <3>1. Waiting' = {}
        BY <2>2, <2>4 DEF Signal, Waiting
      <3> QED
        BY <3>1 DEF NoLostWakeup
    <2>5. CASE Waiting # {}
      <3>1. PICK w \in Waiting : pc' = [pc EXCEPT ![w] = "woken"]
        BY <2>2, <2>5 DEF Signal
      <3>2. Woken' = Woken \cup {w} /\ w \notin Woken
        BY <3>1 DEF Woken, Waiting, OwnInv, TypeOK
      <3>3. Cardinality(Woken') = Cardinality(Woken) + 1
        BY <3>2, WakeFinite, FS_AddElement
      <3>4. Cardinality(Woken) >= Len(rfq_q)
        BY <2>5 DEF NoLostWakeup
      <3> QED
        BY <1>1, <2>3, <3>3, <3>4 DEF NoLostWakeup
    <2> QED
      BY <2>4, <2>5
  <1> QED
    BY <1>2, <1>3

LEMMA TakeWake ==
    ASSUME OwnInv, OwnInv', NoLostWakeup, NEW t \in Threads, Take(t),
           pc[t] \in {"idle", "woken"}
    PROVE  NoLostWakeup'
  <1>1. Len(rfq_q) \in Nat /\ Len(rfq_q') \in Nat /\ Cardinality(Woken) \in Nat
    BY WakeFinite, LenProperties DEF OwnInv, TypeOK
  <1>2. Len(rfq_q') = Len(rfq_q) - 1
    BY HeadTailProperties DEF Take, OwnInv, TypeOK
  <1>3. pc' = [pc EXCEPT ![t] = "holding"] /\ pc \in [Threads -> PcValues]
    BY DEF Take, OwnInv, TypeOK
  <1>4. Waiting' = Waiting
    BY <1>3 DEF Waiting
  <1>5. Woken' = Woken \ {t}
    BY <1>3 DEF Woken
  <1>6. Cardinality(Woken') \in Nat /\ Cardinality(Woken') >= Cardinality(Woken) - 1
    <2>1. CASE t \in Woken
      <3>1. IsFiniteSet(Woken \ {t}) /\ Cardinality(Woken \ {t}) = Cardinality(Woken) - 1
        BY <2>1, WakeFinite, FS_RemoveElement
      <3>2. Cardinality(Woken \ {t}) \in Nat
        BY <3>1, FS_CardinalityType
      <3> QED
        BY <1>1, <1>5, <3>1, <3>2
    <2>2. CASE t \notin Woken
      <3>1. Woken' = Woken
        BY <1>5, <2>2
      <3> QED
        BY <1>1, <3>1
    <2> QED
      BY <2>1, <2>2
  <1> QED
    BY <1>1, <1>2, <1>4, <1>6 DEF NoLostWakeup

LEMMA BlockWake ==
    ASSUME OwnInv', NEW t \in Threads, NEW tmo \in BOOLEAN, Block(t, tmo)
    PROVE  NoLostWakeup'
  <1>1. Len(rfq_q') = 0
    BY EmptySeq DEF Block, queueVars
  <1>2. Cardinality(Woken') \in Nat
    <2>1. Woken' \subseteq Threads
      BY DEF Woken
    <2>2. IsFiniteSet(Woken')
      BY <2>1, ConstAssumption, FS_Subset
    <2> QED
      BY <2>2, FS_CardinalityType
  <1> QED
    BY <1>1, <1>2 DEF NoLostWakeup

\* Steps that move no thread into Waiting, no thread out of Woken, and do
\* not touch the queue.
LEMMA StayWake ==
    ASSUME OwnInv, OwnInv', NoLostWakeup, Waiting' \subseteq Waiting,
           Woken \subseteq Woken', rfq_q' = rfq_q
    PROVE  NoLostWakeup'
  <1>1. Woken' \subseteq Threads
    BY DEF Woken
  <1>2. IsFiniteSet(Woken')
    BY <1>1, ConstAssumption, FS_Subset
  <1>3. Cardinality(Woken') \in Nat /\ Cardinality(Woken) <= Cardinality(Woken')
    BY <1>2, FS_Subset, FS_CardinalityType
  <1>4. Cardinality(Woken) \in Nat /\ Len(rfq_q) \in Nat
    BY WakeFinite, LenProperties DEF OwnInv, TypeOK
  <1> QED
    BY <1>3, <1>4, WakeMonotone
LEMMA WakeNext == OwnInv /\ OwnInv' /\ NoLostWakeup /\ [Next]_vars => NoLostWakeup'
  <1> SUFFICES ASSUME OwnInv, OwnInv', NoLostWakeup, [Next]_vars PROVE NoLostWakeup'
    OBVIOUS
  <1>w. Workers \subseteq Threads /\ Callers \subseteq Threads
    BY ConstAssumption DEF Callers
  <1>p. pc \in [Threads -> PcValues]
    BY DEF OwnInv, TypeOK
  <1>1. ASSUME NEW t \in Callers, NEW m \in MaxSizes, NEW td \in BOOLEAN,
               SetMaxSize(t, m, td)
        PROVE  NoLostWakeup'
    <2>1. pc' = pc /\ rfq_q' = rfq_q
      BY <1>1 DEF SetMaxSize, threadVars
    <2> QED
      BY <2>1 DEF NoLostWakeup, Waiting, Woken
  <1>2. ASSUME NEW t \in Callers, NEW p \in Ptrs, NEW report \in BOOLEAN,
               Add(t, p, report)
        PROVE  NoLostWakeup'
    BY <1>w, <1>2, AddWake
  <1>3. ASSUME NEW t \in Threads,
               PopNowait(t) \/ (\E tmo \in BOOLEAN : PopWait(t, tmo)) \/ Resume(t)
        PROVE  NoLostWakeup'
    <2>1. pc[t] \in {"idle", "woken"}
      BY <1>3 DEF PopNowait, PopWait, Resume, Running, At
    <2>2. timed[t] \in BOOLEAN
      BY DEF OwnInv, TypeOK
    <2>3. Take(t) \/ \E tmo \in BOOLEAN : Block(t, tmo)
      BY <1>3, <2>2 DEF PopNowait, PopWait, Resume
    <2> QED
      BY <2>1, <2>3, TakeWake, BlockWake
  <1>4. ASSUME NEW t \in Threads,
               Spurious(t) \/ Expire(t) \/ ReturnTimeout(t) \/ Release(t)
        PROVE  NoLostWakeup'
    <2>1. /\ pc[t] # "woken" /\ rfq_q' = rfq_q
          /\ \E w \in {"woken", "expired", "idle"} : pc' = [pc EXCEPT ![t] = w]
      BY <1>4 DEF Spurious, Expire, ReturnTimeout, Release, At, queueVars
    <2>2. Waiting' \subseteq Waiting /\ Woken \subseteq Woken'
      BY <1>p, <2>1 DEF Waiting, Woken
    <2> QED
      BY <2>1, <2>2, StayWake
  <1>5. CASE Destroy
    <2>1. Waiting' = {}
      BY <1>5 DEF Destroy, threadVars, Waiting
    <2> QED
      BY <2>1 DEF NoLostWakeup
  <1>6. CASE ReInit
    <2>1. pc' = pc /\ rfq_q' = <<>> /\ Len(rfq_q') = 0
      BY <1>6, EmptySeq DEF ReInit, threadVars
    <2>2. Waiting' = Waiting /\ Woken' = Woken
      BY <2>1 DEF Waiting, Woken
    <2>3. Cardinality(Woken') >= Len(rfq_q')
      BY <2>1, <2>2, WakeFinite
    <2> QED
      BY <2>3 DEF NoLostWakeup
  <1>7. CASE UNCHANGED vars
    BY <1>7 DEF vars, queueVars, threadVars, NoLostWakeup, Waiting, Woken
  <1> QED
    BY <1>w, <1>1, <1>2, <1>3, <1>4, <1>5, <1>6, <1>7 DEF Next

\* No wakeup is lost, for any number of blocked, timed and polling threads:
\* the hazard of rd_cond_signal() waking a single thread.
THEOREM NoWakeupIsLost == Spec => []NoLostWakeup
  <1>1. Spec => []OwnInv
    BY OwnInvInit, OwnInvNext, PTL DEF Spec
  <1>2. Init => NoLostWakeup
    BY DEF Init, NoLostWakeup, Waiting
  <1> QED
    BY <1>1, <1>2, WakeNext, PTL DEF Spec
-----------------------------------------------------------------------------
(***************************************************************************)
(* RdFifoq implements RdFifoqSpec, for a queue that is initialised once.   *)
(* (After rd_fifoq_destroy() and rd_fifoq_init() on the same memory it     *)
(* does not: rfq_cnt is stale.)                                            *)
(***************************************************************************)
\* The first life of the queue, in which no fault has happened.
FirstLife == inits = 1 /\ fault = FALSE

LEMMA FirstLifeNext ==
    ASSUME MaxInits = 1, OwnInv, FirstLife, [Next]_vars
    PROVE  FirstLife'
  <1>w. Workers \subseteq Threads /\ Callers \subseteq Threads
    BY ConstAssumption DEF Callers
  <1>1. ASSUME NEW t \in Callers, NEW p \in Ptrs, NEW report \in BOOLEAN,
               Add(t, p, report)
        PROVE  FirstLife'
    <2>1. live /\ inits = 1
      BY <1>1 DEF Add, Running, FirstLife
    <2>2. rfq_cnt = Len(rfq_q)
      BY <2>1 DEF OwnInv, CntMatches
    <2>3. rfq_max_size \in Nat
      BY ConstAssumption DEF OwnInv, TypeOK
    <2>4. ~(MustPurge /\ rfq_q = <<>>)
      BY <2>2, <2>3, EmptySeq DEF MustPurge
    <2>5. UNCHANGED <<inits, fault>>
      BY <1>1, <2>4 DEF Add
    <2> QED
      BY <2>5 DEF FirstLife
  <1>2. ASSUME NEW t \in Threads,
               PopNowait(t) \/ (\E tmo \in BOOLEAN : PopWait(t, tmo)) \/ Resume(t)
        PROVE  FirstLife'
    <2>1. pc[t] # "holding"
      BY <1>2 DEF PopNowait, PopWait, Resume, Running, At
    <2>2. Take(t) \/ \E tmo : Block(t, tmo)
      BY <1>2 DEF PopNowait, PopWait, Resume
    <2>3. CASE Take(t)
      <3>1. fault' = FALSE
        BY <2>1, <2>3, TakeOwnInv
      <3> QED
        BY <2>3, <3>1 DEF Take, FirstLife
    <2>4. CASE \E tmo : Block(t, tmo)
      BY <2>4 DEF Block, FirstLife, lifeVars
    <2> QED
      BY <2>2, <2>3, <2>4
  <1>3. ASSUME NEW t \in Callers, NEW m \in MaxSizes, NEW td \in BOOLEAN,
               SetMaxSize(t, m, td)
        PROVE  FirstLife'
    BY <1>3 DEF SetMaxSize, FirstLife, lifeVars
  <1>4. ASSUME NEW t \in Threads,
               Spurious(t) \/ Expire(t) \/ ReturnTimeout(t) \/ Release(t)
        PROVE  FirstLife'
    BY <1>4 DEF Spurious, Expire, ReturnTimeout, Release, FirstLife, lifeVars
  <1>5. CASE Destroy
    BY <1>5 DEF Destroy, FirstLife
  <1>6. CASE ReInit
    BY <1>6 DEF ReInit, FirstLife
  <1>7. CASE UNCHANGED vars
    BY <1>7 DEF vars, lifeVars, FirstLife
  <1> QED
    BY <1>w, <1>1, <1>2, <1>3, <1>4, <1>5, <1>6, <1>7 DEF Next

\* With one initialisation the NULL entry, the assertion of pop0 and its
\* double release are out of reach.
THEOREM FaultFree == ASSUME MaxInits = 1 PROVE Spec => []NoFault
  <1>1. Spec => []OwnInv
    BY OwnInvInit, OwnInvNext, PTL DEF Spec
  <1>2. Init => FirstLife
    BY DEF Init, FirstLife
  <1>3. FirstLife => NoFault
    BY DEF FirstLife, NoFault
  <1>4. OwnInv /\ FirstLife /\ [Next]_vars => FirstLife'
    BY FirstLifeNext
  <1> QED
    BY <1>1, <1>2, <1>3, <1>4, PTL DEF Spec

-----------------------------------------------------------------------------
(***************************************************************************)
(* Applying a function to every entry of a sequence, as the refinement     *)
(* mapping does, commutes with the operations of the queue.                *)
(***************************************************************************)
AbsPtrs == Ptrs \cup {NoPtr}

Mapped(s, f) == [i \in DOMAIN s |-> f[s[i]]]

LEMMA IntervalInjective == \A m, n \in Nat : 1..m = 1..n => m = n
  <1> SUFFICES ASSUME NEW m \in Nat, NEW n \in Nat, 1..m = 1..n PROVE m = n
    OBVIOUS
  <1>1. CASE m < n
    <2>1. n \in 1..n /\ n \notin 1..m
      BY <1>1
    <2> QED
      BY <2>1
  <1>2. CASE n < m
    <2>1. m \in 1..m /\ m \notin 1..n
      BY <1>2
    <2> QED
      BY <2>1
  <1> QED
    BY <1>1, <1>2

LEMMA MappedFacts ==
    ASSUME NEW s \in Seq(Elms), NEW f \in [Elms -> AbsPtrs]
    PROVE  /\ Mapped(s, f) \in Seq(AbsPtrs)
           /\ Len(Mapped(s, f)) = Len(s)
           /\ \A i \in 1..Len(s) : Mapped(s, f)[i] = f[s[i]]
           /\ Mapped(s, f) = <<>> <=> s = <<>>
  <1>1. Len(s) \in Nat /\ DOMAIN s = 1..Len(s) /\ \A i \in 1..Len(s) : s[i] \in Elms
    BY SeqFacts
  <1>2. Mapped(s, f) = [i \in 1..Len(s) |-> f[s[i]]]
    BY <1>1 DEF Mapped
  <1>3. Mapped(s, f) \in [1..Len(s) -> AbsPtrs]
    BY <1>1, <1>2
  <1>4. Mapped(s, f) \in Seq(AbsPtrs)
    BY <1>1, <1>3, SeqDef
  <1>5. Len(Mapped(s, f)) \in Nat /\ DOMAIN Mapped(s, f) = 1..Len(Mapped(s, f))
    BY <1>4, LenProperties
  <1>6. DOMAIN Mapped(s, f) = 1..Len(s)
    BY <1>2
  <1>7. Len(Mapped(s, f)) = Len(s)
    BY <1>1, <1>5, <1>6, IntervalInjective
  <1>8. Mapped(s, f) = <<>> <=> s = <<>>
    <2>1. Mapped(s, f) = <<>> <=> Len(Mapped(s, f)) = 0
      BY <1>4, SeqFacts
    <2>2. s = <<>> <=> Len(s) = 0
      BY SeqFacts
    <2> QED
      BY <1>7, <2>1, <2>2
  <1> QED
    BY <1>2, <1>4, <1>7, <1>8

LEMMA MappedTail ==
    ASSUME NEW s \in Seq(Elms), NEW f \in [Elms -> AbsPtrs], s # <<>>
    PROVE  /\ Mapped(Tail(s), f) = Tail(Mapped(s, f))
           /\ Head(Mapped(s, f)) = f[Head(s)]
  <1> DEFINE m == Mapped(s, f)
             r == Mapped(Tail(s), f)
  <1>1. /\ Tail(s) \in Seq(Elms) /\ Len(Tail(s)) = Len(s) - 1 /\ Len(s) \in Nat /\ Len(s) >= 1
        /\ \A i \in 1..Len(Tail(s)) : Tail(s)[i] = s[i + 1]
    BY HeadTailProperties, SeqFacts
  <1>2. /\ m \in Seq(AbsPtrs) /\ Len(m) = Len(s)
        /\ \A i \in 1..Len(s) : m[i] = f[s[i]]
        /\ m = <<>> <=> s = <<>>
    BY MappedFacts
  <1>r. /\ r \in Seq(AbsPtrs) /\ Len(r) = Len(Tail(s))
        /\ \A i \in 1..Len(Tail(s)) : r[i] = f[Tail(s)[i]]
        /\ r = <<>> <=> Tail(s) = <<>>
    <2>1. Tail(s) \in Seq(Elms)
      BY <1>1
    <2> QED
      BY <2>1, MappedFacts
  <1>3. /\ r \in Seq(AbsPtrs) /\ Len(r) = Len(s) - 1
        /\ \A i \in 1..(Len(s) - 1) : r[i] = f[Tail(s)[i]]
    <2> HIDE DEF r
    <2> QED
      BY <1>1, <1>r
  <1>4. Head(m) = m[1] /\ Head(s) = s[1]
    BY <1>1, <1>2
  <1> HIDE DEF m, r
  <1>5. /\ Tail(m) \in Seq(AbsPtrs) /\ Len(Tail(m)) = Len(s) - 1
        /\ \A i \in 1..(Len(s) - 1) : Tail(m)[i] = m[i + 1]
    BY <1>2, HeadTailProperties
  <1>6. \A i \in 1..(Len(s) - 1) : r[i] = Tail(m)[i]
    BY <1>1, <1>2, <1>3, <1>5
  <1>7. r = Tail(m)
    BY <1>3, <1>5, <1>6, SeqEqual
  <1> QED
    BY <1>1, <1>2, <1>4, <1>7 DEF m, r

\* The same for the list without its last entry.
LEMMA MappedFront ==
    ASSUME NEW s \in Seq(Elms), NEW f \in [Elms -> AbsPtrs], s # <<>>
    PROVE  /\ Mapped(SubSeq(s, 1, Len(s) - 1), f)
                = SubSeq(Mapped(s, f), 1, Len(Mapped(s, f)) - 1)
           /\ Mapped(s, f)[Len(Mapped(s, f))] = f[s[Len(s)]]
  <1> DEFINE m == Mapped(s, f)
             front == SubSeq(s, 1, Len(s) - 1)
             r == Mapped(front, f)
             mfront == SubSeq(m, 1, Len(m) - 1)
  <1>0. Len(s) \in Nat /\ Len(s) >= 1 /\ \A i \in 1..Len(s) : s[i] \in Elms
    BY SeqFacts
  <1>1. /\ front \in Seq(Elms) /\ Len(front) = Len(s) - 1
        /\ \A i \in 1..(Len(s) - 1) : front[i] = s[i]
    <2> DEFINE n == Len(s) - 1
    <2>1. n \in Int /\ n >= 0 /\ 1 \in Int /\ \A i \in 1..n : s[i] \in Elms
      BY <1>0
    <2> HIDE DEF n
    <2>2. /\ SubSeq(s, 1, n) \in Seq(Elms)
          /\ Len(SubSeq(s, 1, n)) = IF 1 <= n THEN n - 1 + 1 ELSE 0
          /\ \A i \in 1..(n - 1 + 1) : SubSeq(s, 1, n)[i] = s[1 + i - 1]
      BY <2>1, SubSeqProperties
    <2>3. /\ Len(SubSeq(s, 1, n)) = n
          /\ \A i \in 1..n : SubSeq(s, 1, n)[i] = s[i]
      BY <2>1, <2>2
    <2> QED
      BY <2>2, <2>3 DEF n
  <1>2. /\ m \in Seq(AbsPtrs) /\ Len(m) = Len(s)
        /\ \A i \in 1..Len(s) : m[i] = f[s[i]]
    BY MappedFacts
  <1> HIDE DEF front
  <1>r. /\ r \in Seq(AbsPtrs) /\ Len(r) = Len(front)
        /\ \A i \in 1..Len(front) : r[i] = f[front[i]]
        /\ r = <<>> <=> front = <<>>
    <2>1. front \in Seq(Elms)
      BY <1>1
    <2> QED
      BY <2>1, MappedFacts
  <1>3. /\ r \in Seq(AbsPtrs) /\ Len(r) = Len(s) - 1
        /\ \A i \in 1..(Len(s) - 1) : r[i] = f[front[i]]
    <2> HIDE DEF r
    <2> QED
      BY <1>1, <1>r
  <1> HIDE DEF m, r
  <1>4. /\ mfront \in Seq(AbsPtrs) /\ Len(mfront) = Len(s) - 1
        /\ \A i \in 1..(Len(s) - 1) : mfront[i] = m[i]
    <2>1. \A i \in 1..(Len(m) - 1) : m[i] \in AbsPtrs
      BY <1>0, <1>2, SeqFacts
    <2> QED
      BY <1>0, <1>2, <2>1, SubSeqProperties
  <1> HIDE DEF mfront
  <1>5. ASSUME NEW i \in 1..(Len(s) - 1) PROVE r[i] = mfront[i]
    <2>1. i \in 1..Len(s)
      BY <1>0
    <2>2. r[i] = f[s[i]]
      BY <1>1, <1>3
    <2>3. mfront[i] = f[s[i]]
      BY <1>2, <1>4, <2>1
    <2> QED
      BY <2>2, <2>3
  <1>6. r = mfront
    BY <1>3, <1>4, <1>5, SeqEqual
  <1>7. m[Len(m)] = f[s[Len(s)]]
    BY <1>0, <1>2
  <1> QED
    BY <1>6, <1>7 DEF m, r, front, mfront

\* An entry is appended while the function changes for that entry only.
LEMMA MappedAppend ==
    ASSUME NEW s \in Seq(Elms), NEW f \in [Elms -> AbsPtrs], NEW g \in [Elms -> AbsPtrs],
           NEW e \in Elms, \A i \in 1..Len(s) : g[s[i]] = f[s[i]]
    PROVE  Mapped(Append(s, e), g) = Append(Mapped(s, f), g[e])
  <1> DEFINE a == Append(s, e)
             m == Mapped(s, f)
             l == Mapped(a, g)
             r == Append(m, g[e])
  <1>1. /\ a \in Seq(Elms) /\ Len(a) = Len(s) + 1 /\ Len(s) \in Nat
        /\ \A i \in 1..Len(s) : a[i] = s[i]
        /\ a[Len(s) + 1] = e
    BY AppendProperties, LenProperties
  <1>2. /\ m \in Seq(AbsPtrs) /\ Len(m) = Len(s)
        /\ \A i \in 1..Len(s) : m[i] = f[s[i]]
        /\ m = <<>> <=> s = <<>>
    BY MappedFacts
  <1> HIDE DEF a
  <1>3. l \in Seq(AbsPtrs) /\ Len(l) = Len(s) + 1 /\ \A i \in 1..(Len(s) + 1) : l[i] = g[a[i]]
    BY <1>1, MappedFacts
  <1> HIDE DEF m, l
  <1>4. /\ r \in Seq(AbsPtrs) /\ Len(r) = Len(s) + 1
        /\ \A i \in 1..Len(s) : r[i] = m[i]
        /\ r[Len(s) + 1] = g[e]
    BY <1>2, AppendProperties
  <1> HIDE DEF r
  <1>5. \A i \in 1..(Len(s) + 1) : l[i] = r[i]
    <2>1. SUFFICES ASSUME NEW i \in 1..(Len(s) + 1) PROVE l[i] = r[i]
      OBVIOUS
    <2>2. CASE i \in 1..Len(s)
      BY <1>1, <1>2, <1>3, <1>4, <2>2
    <2>3. CASE i = Len(s) + 1
      BY <1>1, <1>3, <1>4, <2>3
    <2> QED
      BY <1>1, <2>2, <2>3
  <1>6. l = r
    BY <1>3, <1>4, <1>5, SeqEqual
  <1> QED
    BY <1>6 DEF a, m, l, r

-----------------------------------------------------------------------------
LEMMA AbsTypes ==
    ASSUME OwnInv
    PROVE  /\ rfq_q \in Seq(Elms) /\ rfqe_ptr \in [Elms -> AbsPtrs]
           /\ AbsQueue = Mapped(rfq_q, rfqe_ptr)
           /\ Len(AbsQueue) = Len(rfq_q)
           /\ AbsQueue = <<>> <=> rfq_q = <<>>
  <1>1. rfq_q \in Seq(Elms) /\ rfqe_ptr \in [Elms -> AbsPtrs]
    BY DEF OwnInv, TypeOK, AbsPtrs
  <1>2. AbsQueue = Mapped(rfq_q, rfqe_ptr)
    BY DEF AbsQueue, Mapped
  <1>3. /\ Mapped(rfq_q, rfqe_ptr) \in Seq(AbsPtrs)
        /\ Len(Mapped(rfq_q, rfqe_ptr)) = Len(rfq_q)
        /\ \A i \in 1..Len(rfq_q) : Mapped(rfq_q, rfqe_ptr)[i] = rfqe_ptr[rfq_q[i]]
        /\ Mapped(rfq_q, rfqe_ptr) = <<>> <=> rfq_q = <<>>
    BY <1>1, MappedFacts
  <1> QED
    BY <1>1, <1>2, <1>3, Zenon

LEMMA AbsInit == Init => Abs!Init
  <1> SUFFICES ASSUME Init PROVE Abs!Init
    OBVIOUS
  <1>1. AbsQueue = <<>>
    BY OwnInvInit, AbsTypes DEF Init
  <1>2. AbsGot = [t \in Threads |-> NoPtr]
    BY DEF Init, AbsGot
  <1> QED
    BY <1>1, <1>2 DEF Init, Abs!Init

\* A step that leaves the list, the elements and the hands alone is not seen.
LEMMA AbsStutter ==
    ASSUME UNCHANGED <<rfq_q, rfqe_ptr, held, rfq_max_size, rfq_taildrop, purged>>
    PROVE  UNCHANGED Abs!vars
  BY DEF Abs!vars, AbsQueue, AbsGot

LEMMA AbsTake ==
    ASSUME OwnInv, NEW t \in Threads, Take(t), pc[t] # "holding"
    PROVE  Abs!Pop(t)
  <1>1. rfq_q # <<>> /\ rfq_q' = Tail(rfq_q) /\ rfqe_ptr' = rfqe_ptr
        /\ held' = [held EXCEPT ![t] = Head(rfq_q)]
        /\ UNCHANGED <<rfq_max_size, rfq_taildrop, purged>>
    BY DEF Take
  <1>2. AbsQueue # <<>> /\ AbsQueue' = Tail(AbsQueue)
        /\ Head(AbsQueue) = rfqe_ptr[Head(rfq_q)]
    <2>1. AbsQueue' = Mapped(rfq_q', rfqe_ptr')
      BY DEF AbsQueue, Mapped
    <2>2. /\ rfq_q \in Seq(Elms) /\ rfqe_ptr \in [Elms -> AbsPtrs]
          /\ AbsQueue = Mapped(rfq_q, rfqe_ptr) /\ AbsQueue # <<>>
      BY <1>1, AbsTypes
    <2>3. /\ Mapped(Tail(rfq_q), rfqe_ptr) = Tail(Mapped(rfq_q, rfqe_ptr))
          /\ Head(Mapped(rfq_q, rfqe_ptr)) = rfqe_ptr[Head(rfq_q)]
      BY <1>1, <2>2, MappedTail
    <2> QED
      BY <1>1, <2>1, <2>2, <2>3, Zenon
  <1>3. held[t] = NoElm /\ AbsGot[t] = NoPtr
    BY DEF AbsGot, OwnInv, TypeOK, ElmOwnership
  <1>4. Head(rfq_q) \in Elms /\ Head(rfq_q) # NoElm
    BY <1>1, AbsTypes, HeadTailProperties, ConstAssumption
  <1>5. AbsGot' = [AbsGot EXCEPT ![t] = Head(AbsQueue)]
    BY <1>1, <1>2, <1>4 DEF AbsGot, OwnInv, TypeOK
  <1> QED
    BY <1>1, <1>2, <1>3, <1>5 DEF Abs!Pop

LEMMA AbsRelease ==
    ASSUME OwnInv, NEW t \in Threads, Release(t)
    PROVE  Abs!Release(t)
  <1>1. held' = [held EXCEPT ![t] = NoElm]
        /\ UNCHANGED <<rfq_q, rfqe_ptr, rfq_max_size, rfq_taildrop, purged>>
    BY DEF Release, queueVars
  <1>2. AbsQueue' = AbsQueue
    BY <1>1 DEF AbsQueue
  <1>3. AbsGot' = [AbsGot EXCEPT ![t] = NoPtr]
    BY <1>1 DEF AbsGot, OwnInv, TypeOK
  <1> QED
    BY <1>1, <1>2, <1>3 DEF Abs!Release

LEMMA AbsAdd ==
    ASSUME OwnInv, FirstLife, NEW t \in Threads, NEW p \in Ptrs, NEW report \in BOOLEAN,
           Add(t, p, report)
    PROVE  Abs!Add(t, p, report)
  <1>1. live /\ inits = 1
    BY DEF Add, Running, FirstLife
  <1>2. rfq_cnt = Len(rfq_q) /\ rfq_max_size \in Nat /\ Len(rfq_q) \in Nat
    BY <1>1, ConstAssumption, OwnFacts DEF OwnInv, CntMatches, TypeOK
  <1>3. MustPurge => rfq_q # <<>>
    BY <1>2, EmptySeq DEF MustPurge
  <1>4. PICK e \in Elms :
            /\ rfqe_refcnt[e] = 0
            /\ rfqe_ptr' = [rfqe_ptr EXCEPT ![e] = p]
            /\ rfq_q' = Append(IF MustPurge THEN AfterPurge ELSE rfq_q, e)
            /\ purged' = IF report
                         THEN [purged EXCEPT ![t] =
                                 IF MustPurge THEN rfqe_ptr[Purge] ELSE NoPtr]
                         ELSE purged
            /\ UNCHANGED <<rfq_max_size, rfq_taildrop>>
    BY <1>3 DEF Add
  <1>5. held' = held
    BY DEF Add
  <1>6. Abs!AtLimit <=> MustPurge
    BY <1>2, AbsTypes DEF MustPurge, Abs!AtLimit
  <1>7. MustPurge => Abs!Dropped = rfqe_ptr[Purge] /\ Abs!Rest = Mapped(AfterPurge, rfqe_ptr)
    <2>0. SUFFICES ASSUME MustPurge
                   PROVE  /\ Abs!Dropped = rfqe_ptr[Purge]
                          /\ Abs!Rest = Mapped(AfterPurge, rfqe_ptr)
      OBVIOUS
    <2>q. /\ rfq_q \in Seq(Elms) /\ rfqe_ptr \in [Elms -> AbsPtrs] /\ rfq_q # <<>>
          /\ AbsQueue = Mapped(rfq_q, rfqe_ptr)
      BY <1>3, <2>0, AbsTypes
    <2>1. CASE rfq_taildrop
      <3>1. /\ Mapped(SubSeq(rfq_q, 1, Len(rfq_q) - 1), rfqe_ptr)
                 = SubSeq(Mapped(rfq_q, rfqe_ptr), 1, Len(Mapped(rfq_q, rfqe_ptr)) - 1)
            /\ Mapped(rfq_q, rfqe_ptr)[Len(Mapped(rfq_q, rfqe_ptr))]
                 = rfqe_ptr[rfq_q[Len(rfq_q)]]
        BY <2>q, MappedFront
      <3> QED
        BY <2>1, <2>q, <3>1, Zenon DEF Abs!Dropped, Abs!Rest, Purge, AfterPurge
    <2>2. CASE ~rfq_taildrop
      <3>1. /\ Mapped(Tail(rfq_q), rfqe_ptr) = Tail(Mapped(rfq_q, rfqe_ptr))
            /\ Head(Mapped(rfq_q, rfqe_ptr)) = rfqe_ptr[Head(rfq_q)]
        BY <2>q, MappedTail
      <3> QED
        BY <2>2, <2>q, <3>1, Zenon DEF Abs!Dropped, Abs!Rest, Purge, AfterPurge
    <2> QED
      BY <2>1, <2>2
  <1> DEFINE base == IF MustPurge THEN AfterPurge ELSE rfq_q
             absBase == IF Abs!AtLimit THEN Abs!Rest ELSE AbsQueue
  <1>8. absBase = Mapped(base, rfqe_ptr)
    BY <1>6, <1>7, AbsTypes
  <1>9. /\ base \in Seq(Elms)
        /\ \A i \in 1..Len(base) : base[i] \in Elms /\ rfqe_refcnt[base[i]] = 2
    <2>1. CASE MustPurge /\ rfq_taildrop
      BY <1>2, <1>3, <2>1, AfterPurgeShape, OwnFacts DEF OwnInv
    <2>2. CASE MustPurge /\ ~rfq_taildrop
      BY <1>2, <1>3, <2>2, AfterPurgeShape, OwnFacts DEF OwnInv
    <2>3. CASE ~MustPurge
      BY <2>3, OwnFacts
    <2> QED
      BY <2>1, <2>2, <2>3
  <1>10. rfqe_ptr' \in [Elms -> AbsPtrs] /\ rfqe_ptr'[e] = p
    BY <1>4, AbsTypes DEF AbsPtrs
  <1>11. rfq_q' = Append(base, e)
    BY <1>4
  <1> HIDE DEF base, absBase
  <1>12. \A i \in 1..Len(base) : rfqe_ptr'[base[i]] = rfqe_ptr[base[i]]
    BY <1>4, <1>9, AbsTypes
  <1>13. AbsQueue' = Append(absBase, p)
    <2>1. AbsQueue' = Mapped(rfq_q', rfqe_ptr')
      BY DEF AbsQueue, Mapped
    <2>2. Mapped(Append(base, e), rfqe_ptr') = Append(Mapped(base, rfqe_ptr), rfqe_ptr'[e])
      <3>1. base \in Seq(Elms) /\ rfqe_ptr \in [Elms -> AbsPtrs]
            /\ rfqe_ptr' \in [Elms -> AbsPtrs]
        BY <1>9, <1>10, AbsTypes
      <3> QED
        BY <1>12, <3>1, MappedAppend
    <2> QED
      BY <1>8, <1>10, <1>11, <2>1, <2>2
  <1>14. AbsGot' = AbsGot
    <2>1. \A u \in Threads : held[u] # NoElm => held[u] \in Elms /\ held[u] # e
      BY <1>4 DEF OwnInv, TypeOK, ElmOwnership
    <2>2. \A u \in Threads : held[u] # NoElm => rfqe_ptr'[held[u]] = rfqe_ptr[held[u]]
      BY <1>4, <2>1, AbsTypes
    <2> QED
      BY <1>5, <2>2 DEF AbsGot
  <1>15. purged' = IF report
                   THEN [purged EXCEPT ![t] = IF Abs!AtLimit THEN Abs!Dropped ELSE NoPtr]
                   ELSE purged
    BY <1>4, <1>6, <1>7
  <1> QED
    BY <1>4, <1>13, <1>14, <1>15 DEF Abs!Add, absBase

LEMMA AbsNext ==
    ASSUME MaxInits = 1, OwnInv, FirstLife, [Next]_vars
    PROVE  [Abs!Next]_(Abs!vars)
  <1>w. Workers \subseteq Threads /\ Callers \subseteq Threads
    BY ConstAssumption DEF Callers
  <1>1. ASSUME NEW t \in Callers, NEW p \in Ptrs, NEW report \in BOOLEAN,
               Add(t, p, report)
        PROVE  Abs!Next
    BY <1>w, <1>1, AbsAdd DEF Abs!Next
  <1>2. ASSUME NEW t \in Threads,
               PopNowait(t) \/ (\E tmo \in BOOLEAN : PopWait(t, tmo)) \/ Resume(t)
        PROVE  Abs!Next \/ UNCHANGED Abs!vars
    <2>1. pc[t] # "holding"
      BY <1>2 DEF PopNowait, PopWait, Resume, Running, At
    <2>2. Take(t) \/ \E tmo : Block(t, tmo)
      BY <1>2 DEF PopNowait, PopWait, Resume
    <2>3. CASE Take(t)
      BY <2>1, <2>3, AbsTake DEF Abs!Next
    <2>4. CASE \E tmo : Block(t, tmo)
      BY <2>4, AbsStutter DEF Block, queueVars, elmVars
    <2> QED
      BY <2>2, <2>3, <2>4
  <1>3. ASSUME NEW t \in Callers, NEW m \in MaxSizes, NEW td \in BOOLEAN,
               SetMaxSize(t, m, td)
        PROVE  Abs!Next
    <2>1. Abs!SetMaxSize(m, td)
      BY <1>3 DEF SetMaxSize, Abs!SetMaxSize, AbsQueue, AbsGot, elmVars, threadVars
    <2> QED
      BY <2>1 DEF Abs!Next
  <1>4. ASSUME NEW t \in Threads, Spurious(t) \/ Expire(t) \/ ReturnTimeout(t)
        PROVE  UNCHANGED Abs!vars
    BY <1>4, AbsStutter DEF Spurious, Expire, ReturnTimeout, queueVars, elmVars
  <1>5. ASSUME NEW t \in Threads, Release(t) PROVE Abs!Next
    BY <1>5, AbsRelease DEF Abs!Next
  <1>6. CASE Destroy
    <2>1. rfq_q' = <<>>
          /\ UNCHANGED <<rfqe_ptr, held, rfq_max_size, rfq_taildrop, purged>>
      BY <1>6 DEF Destroy, threadVars
    <2>2. AbsQueue' = <<>>
      BY <2>1 DEF AbsQueue
    <2>3. AbsGot' = AbsGot
      BY <2>1 DEF AbsGot
    <2> QED
      BY <2>1, <2>2, <2>3 DEF Abs!Next, Abs!Destroy
  <1>7. CASE ReInit
    BY <1>7 DEF ReInit, FirstLife
  <1>8. CASE UNCHANGED vars
    BY <1>8, AbsStutter DEF vars, queueVars, elmVars, threadVars
  <1> QED
    BY <1>w, <1>1, <1>2, <1>3, <1>4, <1>5, <1>6, <1>7, <1>8 DEF Next

\* Every behaviour of the queue, with its blocked threads, reference counts
\* and reused elements, is one of the bounded FIFO of pointers.
THEOREM Refinement == ASSUME MaxInits = 1 PROVE Spec => ImplementsFifo
  <1>1. Spec => []OwnInv
    BY OwnInvInit, OwnInvNext, PTL DEF Spec
  <1>2. Init => FirstLife
    BY DEF Init, FirstLife
  <1>3. OwnInv /\ FirstLife /\ [Next]_vars => FirstLife'
    BY FirstLifeNext
  <1>4. OwnInv /\ FirstLife /\ [Next]_vars => [Abs!Next]_(Abs!vars)
    BY AbsNext
  <1> QED
    BY <1>1, <1>2, <1>3, <1>4, AbsInit, PTL DEF Spec, ImplementsFifo, Abs!Spec
=============================================================================
