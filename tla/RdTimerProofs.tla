--------------------------- MODULE RdTimerProofs ---------------------------
(***************************************************************************)
(* Proofs about RdTimer, for any timers, threads and intervals.            *)
(***************************************************************************)
EXTENDS RdTimer, SequenceTheorems, FiniteSetTheorems, NaturalsInduction,
        WellFoundedInduction, TLAPS

Elems(list) == {list[i] : i \in DOMAIN list}
Distinct(list) == \A i, j \in DOMAIN list : i < j => list[i] # list[j]
Sorted(list, next) == \A i, j \in DOMAIN list : i < j => next[list[i]] <= next[list[j]]

-----------------------------------------------------------------------------
(***************************************************************************)
(* The operators of the timer list.                                        *)
(***************************************************************************)

\* A nonempty set of natural numbers has a least element.
LEMMA Least ==
    ASSUME NEW T, T \subseteq Nat, T # {}
    PROVE  \E x \in T : \A y \in T : x <= y
  <1>1. PICK x \in T : \A y \in T : ~(<<y, x>> \in OpToRel(<, Nat))
    BY WFMin, NatLessThanWellFounded
  <1>2. \A y \in T : ~(y < x)
    BY <1>1 DEF OpToRel
  <1> QED
    BY <1>2

\* A sequence is a function on an initial part of the positive numbers.
LEMMA SeqFacts ==
    ASSUME NEW S, NEW s \in Seq(S)
    PROVE  /\ Len(s) \in Nat /\ DOMAIN s = 1..Len(s)
           /\ \A i \in 1..Len(s) : s[i] \in S
           /\ s = <<>> <=> Len(s) = 0
           /\ s # <<>> => Head(s) = s[1]
  BY LenProperties, EmptySeq, ElementOfSeq

LEMMA SeqBy ==
    ASSUME NEW S, NEW n \in Nat, NEW f \in [1..n -> S]
    PROVE  f \in Seq(S) /\ Len(f) = n /\ DOMAIN f = 1..n
  <1>1. f \in Seq(S)
    BY SeqDef
  <1>2. DOMAIN f = 1..n /\ DOMAIN f = 1..Len(f) /\ Len(f) \in Nat
    BY <1>1, LenProperties
  <1> QED
    BY <1>1, <1>2

\* An unsigned int is nonnegative, and rd_timer_cmp() is the difference of two
\* times when they are less than 2^31 microseconds apart.
LEMMA UnsignedNat ==
    ASSUME NEW n \in Int
    PROVE  Unsigned(n) \in Nat
  BY ConstAssumption DEF Unsigned

LEMMA CmpExact ==
    ASSUME NEW a \in Int, NEW b \in Int, -IntHalf <= a - b, a - b < IntHalf
    PROVE  rd_timer_cmp(a, b) = a - b
  <1> DEFINE d == a - b
             m == 2 * IntHalf
  <1>1. d \in Int /\ m \in Nat \ {0} /\ IntHalf \in Nat \ {0} /\ m = IntHalf + IntHalf
    BY ConstAssumption
  <1>2. CASE 0 <= d
    <2>1. d % m = d
      BY <1>1, <1>2
    <2> QED
      BY <1>1, <2>1 DEF rd_timer_cmp, AsInt, Unsigned
  <1>3. CASE d < 0
    <2>1. d % m = d + m
      BY <1>1, <1>3
    <2> QED
      BY <1>1, <2>1 DEF rd_timer_cmp, AsInt, Unsigned
  <1> QED
    BY <1>1, <1>2, <1>3

\* LIST_INSERT_SORTED finds a place in any list.
LEMMA InsertPosFacts ==
    ASSUME NEW list \in Seq(Timers), NEW next \in Nat, rt_next \in [Timers -> Nat]
    PROVE  LET i == InsertPos(list, next)
           IN  /\ i \in 1..(Len(list) + 1)
               /\ \A j \in 1..(i - 1) : rd_timer_cmp(next, rt_next[list[j]]) > 0
               /\ i <= Len(list) => rd_timer_cmp(next, rt_next[list[i]]) <= 0
  <1> DEFINE n == Len(list)
             C(j) == rd_timer_cmp(next, rt_next[list[j]])
             Fits(i) == /\ \A j \in 1..(i - 1) : C(j) > 0
                        /\ i <= n => C(i) <= 0
             T == {i \in 1..(n + 1) : i <= n => C(i) <= 0}
  <1>1. n \in Nat
    BY SeqFacts
  <1>2. n + 1 \in T /\ T \subseteq Nat
    BY <1>1
  <1>3. PICK i \in T : \A y \in T : i <= y
    BY <1>2, Least
  <1>4. Fits(i)
    <2>1. i \in 1..(n + 1)
      BY <1>3
    <2>2. ASSUME NEW j \in 1..(i - 1) PROVE C(j) > 0
      <3>1. j \in 1..(n + 1) /\ j <= n /\ ~(i <= j)
        BY <1>1, <2>1
      <3>2. j \notin T
        BY <1>3, <3>1
      <3>3. ~(C(j) <= 0)
        BY <3>1, <3>2
      <3>4. C(j) \in Int
        <4>1. next - rt_next[list[j]] \in Int
          BY <1>1, <3>1, SeqFacts
        <4> HIDE DEF C
        <4>2. Unsigned(next - rt_next[list[j]]) \in Nat /\ IntHalf \in Nat
          BY <4>1, UnsignedNat, ConstAssumption
        <4> QED
          BY <4>2 DEF C, rd_timer_cmp, AsInt
      <3> QED
        BY <3>3, <3>4
    <2> QED
      BY <1>3, <2>2
  <1>5. \E k \in 1..(n + 1) : Fits(k)
    BY <1>3, <1>4
  <1> QED
    BY <1>5 DEF InsertPos

\* A timer that was not on the list goes in at place i.
LEMMA InsertedFacts ==
    ASSUME NEW list \in Seq(Timers), NEW t \in Timers, t \notin Elems(list), Distinct(list),
           NEW i \in 1..(Len(list) + 1)
    PROVE  LET new == InsertedAt(list, t, i)
           IN  /\ new \in Seq(Timers) /\ Len(new) = Len(list) + 1
               /\ \A j \in 1..(Len(list) + 1) :
                     new[j] = IF j < i THEN list[j] ELSE IF j = i THEN t ELSE list[j - 1]
               /\ Elems(new) = Elems(list) \cup {t}
               /\ Distinct(new)
  <1> DEFINE n == Len(list)
             new == InsertedAt(list, t, i)
  <1>1. n \in Nat /\ DOMAIN list = 1..n /\ \A j \in 1..n : list[j] \in Timers
    BY SeqFacts
  <1>2. new \in [1..(n + 1) -> Timers]
    BY <1>1 DEF InsertedAt
  <1>3. new \in Seq(Timers) /\ Len(new) = n + 1 /\ DOMAIN new = 1..(n + 1)
    BY <1>1, <1>2, SeqBy
  <1>4. \A j \in 1..(n + 1) :
            new[j] = IF j < i THEN list[j] ELSE IF j = i THEN t ELSE list[j - 1]
    BY <1>1 DEF InsertedAt
  <1> HIDE DEF new
  <1>5. Elems(new) \subseteq Elems(list) \cup {t}
    <2> SUFFICES ASSUME NEW j \in 1..(n + 1) PROVE new[j] \in Elems(list) \cup {t}
      BY <1>3 DEF Elems
    <2>1. CASE j < i
      <3>1. j \in 1..n /\ new[j] = list[j]
        BY <1>1, <1>4, <2>1
      <3> QED
        BY <1>1, <3>1 DEF Elems
    <2>2. CASE j = i
      BY <1>4, <2>2
    <2>3. CASE j > i
      <3>1. j - 1 \in 1..n /\ new[j] = list[j - 1]
        BY <1>1, <1>4, <2>3
      <3> QED
        BY <1>1, <3>1 DEF Elems
    <2> QED
      BY <2>1, <2>2, <2>3
  <1>6. Elems(list) \cup {t} \subseteq Elems(new)
    <2>1. t \in Elems(new)
      BY <1>1, <1>3, <1>4 DEF Elems
    <2>2. ASSUME NEW j \in 1..n PROVE list[j] \in Elems(new)
      <3>1. CASE j < i
        <4>1. j \in 1..(n + 1) /\ new[j] = list[j]
          BY <1>1, <1>4, <3>1
        <4> QED
          BY <1>3, <4>1 DEF Elems
      <3>2. CASE ~(j < i)
        <4>1. j + 1 \in 1..(n + 1) /\ ~(j + 1 < i) /\ j + 1 # i /\ (j + 1) - 1 = j
          BY <1>1, <3>2
        <4>2. new[j + 1] = list[j]
          BY <1>4, <4>1
        <4> QED
          BY <1>3, <4>1, <4>2 DEF Elems
      <3> QED
        BY <3>1, <3>2
    <2> QED
      BY <1>1, <2>1, <2>2 DEF Elems
  <1>7. Distinct(new)
    <2> SUFFICES ASSUME NEW j \in 1..(n + 1), NEW k \in 1..(n + 1), j < k
                 PROVE  new[j] # new[k]
      BY <1>3 DEF Distinct
    <2>1. \A l \in 1..n : list[l] # t
      BY <1>1 DEF Elems
    <2>2. \A l, m \in 1..n : l < m => list[l] # list[m]
      BY <1>1 DEF Distinct
    <2>3. CASE k < i
      BY <1>1, <1>4, <2>2, <2>3
    <2>4. CASE k = i
      BY <1>1, <1>4, <2>1, <2>4
    <2>5. CASE k > i /\ j = i
      <3>1. k - 1 \in 1..n /\ ~(k < i) /\ k # i
        BY <1>1, <2>5
      <3> QED
        BY <1>1, <1>4, <2>1, <2>5, <3>1
    <2>6. CASE k > i /\ j < i
      <3>1. k - 1 \in 1..n /\ ~(k < i) /\ k # i /\ j \in 1..n /\ j < k - 1
        BY <1>1, <2>6
      <3> QED
        BY <1>1, <1>4, <2>2, <2>6, <3>1
    <2>7. CASE k > i /\ j > i
      <3>1. /\ k - 1 \in 1..n /\ ~(k < i) /\ k # i
            /\ j - 1 \in 1..n /\ ~(j < i) /\ j # i /\ j - 1 < k - 1
        BY <1>1, <2>7
      <3> QED
        BY <1>4, <2>2, <3>1
    <2> QED
      BY <1>1, <2>3, <2>4, <2>5, <2>6, <2>7
  <1> QED
    BY <1>3, <1>4, <1>5, <1>6, <1>7 DEF new

\* Insertion at the head is insertion at place 1.
LEMMA PrependIsInsert ==
    ASSUME NEW list \in Seq(Timers), NEW t \in Timers, t \notin Elems(list), Distinct(list)
    PROVE  <<t>> \o list = InsertedAt(list, t, 1)
  <1> DEFINE a == <<t>> \o list
             b == InsertedAt(list, t, 1)
             n == Len(list)
  <1>1. n \in Nat /\ 1 \in 1..(n + 1) /\ <<t>> \in Seq(Timers) /\ Len(<<t>>) = 1 /\ <<t>>[1] = t
    BY SeqFacts
  <1>2. /\ a \in Seq(Timers) /\ Len(a) = 1 + n
        /\ \A j \in 1..(1 + n) : a[j] = IF j <= 1 THEN <<t>>[j] ELSE list[j - 1]
    BY <1>1, ConcatProperties
  <1>3. /\ b \in Seq(Timers) /\ Len(b) = n + 1
        /\ \A j \in 1..(n + 1) :
              b[j] = IF j < 1 THEN list[j] ELSE IF j = 1 THEN t ELSE list[j - 1]
    BY <1>1, InsertedFacts
  <1> HIDE DEF a, b
  <1>4. Len(a) = Len(b) /\ \A j \in 1..Len(a) : a[j] = b[j]
    BY <1>1, <1>2, <1>3
  <1>5. a = b
    BY <1>2, <1>3, <1>4, SeqEqual
  <1> QED
    BY <1>5 DEF a, b

\* An insertion between the earlier and the later timers keeps the order.
LEMMA InsertedSorted ==
    ASSUME NEW list \in Seq(Timers), NEW t \in Timers, t \notin Elems(list), Distinct(list),
           NEW i \in 1..(Len(list) + 1), NEW g \in [Timers -> Nat], NEW x \in Nat,
           Sorted(list, g),
           \A j \in 1..Len(list) : IF j < i THEN g[list[j]] <= x ELSE x <= g[list[j]]
    PROVE  Sorted(InsertedAt(list, t, i), [g EXCEPT ![t] = x])
  <1> DEFINE n == Len(list)
             new == InsertedAt(list, t, i)
             f == [g EXCEPT ![t] = x]
             h(j) == IF j < i THEN g[list[j]] ELSE IF j = i THEN x ELSE g[list[j - 1]]
  <1>1. n \in Nat /\ DOMAIN list = 1..n /\ \A j \in 1..n : list[j] \in Timers /\ list[j] # t
    BY SeqFacts DEF Elems
  <1>2. /\ new \in Seq(Timers) /\ Len(new) = n + 1
        /\ \A j \in 1..(n + 1) :
              new[j] = IF j < i THEN list[j] ELSE IF j = i THEN t ELSE list[j - 1]
    BY InsertedFacts
  <1>3. DOMAIN new = 1..(n + 1)
    BY <1>2, SeqFacts
  <1> HIDE DEF new
  <1>4. f[t] = x /\ \A u \in Timers : u # t => f[u] = g[u]
    OBVIOUS
  <1> HIDE DEF f
  <1>5. ASSUME NEW j \in 1..(n + 1) PROVE f[new[j]] = h(j)
    <2>1. CASE j < i
      <3>1. j \in 1..n /\ new[j] = list[j]
        BY <1>1, <1>2, <2>1
      <3> QED
        BY <1>1, <1>4, <2>1, <3>1
    <2>2. CASE j = i
      BY <1>2, <1>4, <2>2
    <2>3. CASE j > i
      <3>1. j - 1 \in 1..n /\ ~(j < i) /\ j # i
        BY <1>1, <2>3
      <3>2. new[j] = list[j - 1]
        BY <1>2, <3>1
      <3> QED
        BY <1>1, <1>4, <3>1, <3>2
    <2> QED
      BY <2>1, <2>2, <2>3
  <1>6. ASSUME NEW j \in 1..(n + 1), NEW k \in 1..(n + 1), j < k PROVE h(j) <= h(k)
    <2> DEFINE v(l) == g[list[l]]
    <2>1. \A l \in 1..n : v(l) \in Nat /\ (l < i => v(l) <= x) /\ (~(l < i) => x <= v(l))
      BY <1>1
    <2>2. \A l, m \in 1..n : l < m => v(l) <= v(m)
      BY <1>1 DEF Sorted
    <2>3. h(j) = IF j < i THEN v(j) ELSE IF j = i THEN x ELSE v(j - 1)
      OBVIOUS
    <2>4. h(k) = IF k < i THEN v(k) ELSE IF k = i THEN x ELSE v(k - 1)
      OBVIOUS
    <2> HIDE DEF v, h
    <2>5. CASE k < i
      <3>1. j \in 1..n /\ k \in 1..n /\ j < i
        BY <1>1, <1>6, <2>5
      <3> QED
        BY <1>6, <2>2, <2>3, <2>4, <2>5, <3>1
    <2>6. CASE k = i
      <3>1. j \in 1..n /\ j < i /\ ~(k < i)
        BY <1>1, <1>6, <2>6
      <3> QED
        BY <2>1, <2>3, <2>4, <2>6, <3>1
    <2>7. CASE k > i /\ j < i
      <3>1. k - 1 \in 1..n /\ ~(k < i) /\ k # i /\ j \in 1..n /\ j < k - 1
        BY <1>1, <2>7
      <3> QED
        BY <2>2, <2>3, <2>4, <2>7, <3>1
    <2>8. CASE k > i /\ j = i
      <3>1. k - 1 \in 1..n /\ ~(k < i) /\ k # i /\ ~(k - 1 < i)
        BY <1>1, <2>8
      <3> QED
        BY <2>1, <2>3, <2>4, <2>8, <3>1
    <2>9. CASE k > i /\ j > i
      <3>1. /\ k - 1 \in 1..n /\ ~(k < i) /\ k # i
            /\ j - 1 \in 1..n /\ ~(j < i) /\ j # i /\ j - 1 < k - 1
        BY <1>1, <1>6, <2>9
      <3> QED
        BY <2>2, <2>3, <2>4, <3>1
    <2> QED
      BY <1>1, <2>5, <2>6, <2>7, <2>8, <2>9
  <1> HIDE DEF h
  <1> QED
    BY <1>3, <1>5, <1>6 DEF Sorted, new, f

\* LIST_REMOVE takes exactly its argument off and keeps the order.
LEMMA WithoutFacts ==
    ASSUME NEW list \in Seq(Timers), NEW t \in Timers, t \in Elems(list), Distinct(list)
    PROVE  LET new == Without(list, t)
           IN  /\ new \in Seq(Timers) /\ Len(new) = Len(list) - 1 /\ Len(list) > 0
               /\ Elems(new) = Elems(list) \ {t}
               /\ Distinct(new)
               /\ \A next : Sorted(list, next) => Sorted(new, next)
               /\ new # <<>> /\ list[1] # t => new[1] = list[1]
               /\ new # <<>> /\ list[1] = t => 2 \in 1..Len(list) /\ new[1] = list[2]
  <1> DEFINE n == Len(list)
             p == CHOOSE i \in DOMAIN list : list[i] = t
             new == Without(list, t)
  <1>1. n \in Nat /\ DOMAIN list = 1..n /\ \A j \in 1..n : list[j] \in Timers
    BY SeqFacts
  <1>2. p \in 1..n /\ list[p] = t
    BY <1>1 DEF Elems
  <1> HIDE DEF p
  <1>3. \A j \in 1..n : j # p => list[j] # t
    BY <1>1, <1>2 DEF Distinct
  <1>4. new = [j \in 1..(n - 1) |-> IF j < p THEN list[j] ELSE list[j + 1]]
    BY DEF Without, p
  <1>5. n - 1 \in Nat /\ new \in [1..(n - 1) -> Timers]
    BY <1>1, <1>2, <1>4
  <1>6. new \in Seq(Timers) /\ Len(new) = n - 1 /\ DOMAIN new = 1..(n - 1)
    BY <1>5, SeqBy
  <1> DEFINE q(j) == IF j < p THEN j ELSE j + 1
  <1>7. \A j \in 1..(n - 1) : new[j] = list[q(j)] /\ q(j) \in 1..n /\ q(j) # p
    BY <1>1, <1>2, <1>4
  <1>8. \A j, k \in 1..(n - 1) : j < k => q(j) < q(k)
    BY <1>1, <1>2
  <1> HIDE DEF new, q
  <1>9. Elems(new) = Elems(list) \ {t}
    <2>1. Elems(new) \subseteq Elems(list) \ {t}
      BY <1>1, <1>3, <1>6, <1>7 DEF Elems
    <2>2. ASSUME NEW j \in 1..n, list[j] # t PROVE list[j] \in Elems(new)
      <3>1. CASE j < p
        <4>1. j \in 1..(n - 1) /\ q(j) = j
          BY <1>1, <1>2, <3>1 DEF q
        <4> QED
          BY <1>6, <1>7, <4>1 DEF Elems
      <3>2. CASE j > p
        <4>1. j - 1 \in 1..(n - 1) /\ q(j - 1) = j
          BY <1>1, <1>2, <3>2 DEF q
        <4> QED
          BY <1>6, <1>7, <4>1 DEF Elems
      <3> QED
        BY <1>1, <1>2, <2>2, <3>1, <3>2
    <2> QED
      BY <1>1, <2>1, <2>2 DEF Elems
  <1>10. Distinct(new)
    BY <1>1, <1>6, <1>7, <1>8 DEF Distinct
  <1>11. ASSUME NEW next, Sorted(list, next) PROVE Sorted(new, next)
    BY <1>1, <1>6, <1>7, <1>8, <1>11 DEF Sorted
  <1>12. new # <<>> => 1 \in 1..(n - 1)
    BY <1>5, <1>6, SeqFacts
  <1>13. new # <<>> /\ list[1] # t => new[1] = list[1]
    <2>1. list[1] # t => 1 < p
      BY <1>1, <1>2
    <2> QED
      BY <1>7, <1>12, <2>1 DEF q
  <1>14. new # <<>> /\ list[1] = t => 2 \in 1..n /\ new[1] = list[2]
    <2>1. list[1] = t => p = 1
      BY <1>1, <1>2, <1>3
    <2> QED
      BY <1>1, <1>7, <1>12, <2>1 DEF q
  <1> QED
    BY <1>1, <1>2, <1>6, <1>9, <1>10, <1>11, <1>13, <1>14 DEF new

-----------------------------------------------------------------------------
(***************************************************************************)
(* rd_timer_stop0() and rd_timer_start0().                                 *)
(***************************************************************************)

\* The list holds the armed timers, each once.
ListInv ==
    /\ Distinct(rd_timers)
    /\ \A t \in Timers : Armed(t) <=> t \in Elems(rd_timers)

\* It is sorted, and rd_timers_next_ts is not later than its first timer.
OrderInv ==
    /\ Sorted(rd_timers, rt_next)
    /\ rd_timers # <<>> => next_ts <= rt_next[rd_timers[1]]

\* A firing time is close enough to those of the armed timers for the int that
\* rd_timer_cmp() returns.
Comparable(next) ==
    \A u \in Timers : Armed(u) => next - rt_next[u] \in -IntHalf..(IntHalf - 1)

ListState == [list : Seq(Timers), ts : Nat, sig : BOOLEAN]

LEMMA NextUpdateNat ==
    ASSUME TypeOK, NEW list \in Seq(Timers)
    PROVE  NextUpdate(list) \in Nat
  <1>1. CASE list = <<>>
    BY <1>1, ConstAssumption DEF NextUpdate, TypeOK
  <1>2. CASE list # <<>>
    <2>1. Head(list) \in Timers
      BY <1>2, HeadTailProperties
    <2> QED
      BY <1>2, <2>1 DEF NextUpdate, TypeOK
  <1> QED
    BY <1>1, <1>2

LEMMA StoppedFacts ==
    ASSUME TypeOK, ListInv, NEW t \in Timers, NEW called \in Nat
    PROVE  LET s == Stopped(t, called)
           IN  /\ s \in ListState
               /\ Distinct(s.list) /\ Elems(s.list) = Elems(rd_timers) \ {t}
               /\ ~s.sig => s.ts = next_ts
               /\ OrderInv => /\ Sorted(s.list, rt_next)
                              /\ s.list # <<>> => s.ts <= rt_next[s.list[1]]
               /\ ~Armed(t) => s = [list |-> rd_timers, ts |-> next_ts, sig |-> FALSE]
  <1> DEFINE s == Stopped(t, called)
             rest == Without(rd_timers, t)
             first == called = 0 /\ rd_timers[1] = t
  <1>1. /\ rd_timers \in Seq(Timers) /\ next_ts \in Nat /\ rt_next \in [Timers -> Nat]
        /\ Distinct(rd_timers) /\ (Armed(t) <=> t \in Elems(rd_timers))
    BY DEF TypeOK, ListInv
  <1>2. CASE ~Armed(t)
    <2>1. s = [list |-> rd_timers, ts |-> next_ts, sig |-> FALSE]
      BY <1>2 DEF Stopped, Armed
    <2> HIDE DEF s
    <2>2. s \in ListState /\ s.list = rd_timers /\ s.ts = next_ts /\ s.sig = FALSE
      BY <1>1, <2>1 DEF ListState
    <2> QED
      BY <1>1, <1>2, <2>1, <2>2 DEF OrderInv, s
  <1>3. CASE Armed(t)
    <2>1. s = [list |-> rest, ts |-> IF first THEN NextUpdate(rest) ELSE next_ts,
               sig |-> first]
      BY <1>3 DEF Stopped, Armed
    <2>2. /\ rest \in Seq(Timers) /\ Len(rest) = Len(rd_timers) - 1 /\ Len(rd_timers) > 0
          /\ Elems(rest) = Elems(rd_timers) \ {t}
          /\ Distinct(rest)
          /\ Sorted(rd_timers, rt_next) => Sorted(rest, rt_next)
          /\ rest # <<>> /\ rd_timers[1] # t => rest[1] = rd_timers[1]
          /\ rest # <<>> /\ rd_timers[1] = t =>
                2 \in 1..Len(rd_timers) /\ rest[1] = rd_timers[2]
      BY <1>1, <1>3, WithoutFacts
    <2>3. NextUpdate(rest) \in Nat /\ (rest # <<>> => NextUpdate(rest) = rt_next[rest[1]])
      BY <2>2, NextUpdateNat, SeqFacts DEF NextUpdate
    <2> HIDE DEF s, rest
    <2>4. /\ s \in ListState /\ s.list = rest /\ s.sig = first
          /\ s.ts = IF first THEN NextUpdate(rest) ELSE next_ts
      BY <1>1, <2>1, <2>2, <2>3 DEF ListState
    <2>5. ASSUME OrderInv, rest # <<>> PROVE s.ts <= rt_next[rest[1]]
      <3>1. /\ DOMAIN rd_timers = 1..Len(rd_timers) /\ rd_timers # <<>>
            /\ Len(rd_timers) \in Nat /\ Len(rest) \in Nat /\ rest[1] \in Timers
        BY <1>1, <2>2, <2>5, SeqFacts
      <3>2. next_ts <= rt_next[rd_timers[1]] /\ rd_timers[1] \in Timers
        BY <1>1, <2>5, <3>1, SeqFacts DEF OrderInv
      <3>3. rt_next[rd_timers[1]] <= rt_next[rest[1]]
        <4>1. CASE rd_timers[1] # t
          BY <1>1, <2>2, <2>5, <3>2, <4>1
        <4>2. CASE rd_timers[1] = t
          BY <2>2, <2>5, <3>1, <4>2 DEF OrderInv, Sorted
        <4> QED
          BY <4>1, <4>2
      <3>4. rt_next[rest[1]] \in Nat /\ rt_next[rd_timers[1]] \in Nat
        BY <1>1, <3>1, <3>2
      <3> QED
        BY <1>1, <2>3, <2>4, <2>5, <3>2, <3>3, <3>4
    <2> QED
      BY <1>3, <2>2, <2>4, <2>5 DEF OrderInv, s
  <1> QED
    BY <1>2, <1>3

LEMMA FiringTimeNat ==
    ASSUME TypeOK, NEW interval \in Nat
    PROVE  FiringTime(interval) \in Nat /\ FiringTime(interval) >= clock /\ FiringTime(interval) # 0
  <1>1. Unsigned(interval) \in Nat /\ clock \in Nat \ {0}
    BY UnsignedNat DEF TypeOK
  <1> QED
    BY <1>1 DEF FiringTime

\* What rd_timer_start0() does to the list, wherever it puts the timer.
LEMMA StartedFacts ==
    ASSUME TypeOK, ListInv, NEW t \in Timers, NEW interval \in Nat, NEW update \in BOOLEAN
    PROVE  LET s == Started(t, interval, update)
           IN  /\ s \in ListState
               /\ Distinct(s.list) /\ Elems(s.list) = Elems(rd_timers) \cup {t}
               /\ ~s.sig => s.ts = next_ts
               /\ (/\ OrderInv /\ Comparable(FiringTime(interval))
                   /\ update \/ (~Armed(t) /\ next_ts <= FiringTime(interval)))
                     => LET f == [rt_next EXCEPT ![t] = FiringTime(interval)]
                        IN  Sorted(s.list, f) /\ s.ts <= f[s.list[1]]
  <1> DEFINE o == Stopped(t, rt_called[t])
             next == FiringTime(interval)
             s == Started(t, interval, update)
             i == IF next < o.ts THEN 1 ELSE InsertPos(o.list, next)
             ts == IF next < o.ts /\ update THEN next ELSE o.ts
             sig == o.sig \/ (next < o.ts /\ update)
  <1>1. rt_called[t] \in Nat /\ next \in Nat /\ rt_next \in [Timers -> Nat]
    BY FiringTimeNat DEF TypeOK
  <1>2. /\ o \in ListState /\ Distinct(o.list) /\ Elems(o.list) = Elems(rd_timers) \ {t}
        /\ ~o.sig => o.ts = next_ts
    BY <1>1, StoppedFacts
  <1>3. s = StartedFrom(o, t, next, update)
    BY DEF Started
  <1> HIDE DEF o, next, s
  <1>4. o.list \in Seq(Timers) /\ o.ts \in Nat /\ o.sig \in BOOLEAN /\ t \notin Elems(o.list)
    BY <1>2 DEF ListState
  <1>5. i \in 1..(Len(o.list) + 1)
    <2>1. Len(o.list) \in Nat
      BY <1>4, SeqFacts
    <2> QED
      BY <1>1, <1>4, <2>1, InsertPosFacts
  <1>6. s = [list |-> InsertedAt(o.list, t, i), ts |-> ts, sig |-> sig]
    <2>1. CASE next < o.ts
      <3>1. <<t>> \o o.list = InsertedAt(o.list, t, 1)
        BY <1>2, <1>4, PrependIsInsert
      <3> QED
        BY <1>3, <2>1, <3>1 DEF StartedFrom
    <2>2. CASE ~(next < o.ts)
      <3>1. s = [o EXCEPT !.list = InsertedAt(o.list, t, i)]
        BY <1>3, <2>2 DEF StartedFrom
      <3> QED
        BY <1>2, <2>2, <3>1 DEF ListState
    <2> QED
      BY <2>1, <2>2
  <1>7. /\ InsertedAt(o.list, t, i) \in Seq(Timers) /\ Distinct(InsertedAt(o.list, t, i))
        /\ Elems(InsertedAt(o.list, t, i)) = Elems(rd_timers) \cup {t}
    BY <1>2, <1>4, <1>5, InsertedFacts
  <1>8. ts \in Nat /\ sig \in BOOLEAN /\ (~sig => ts = next_ts)
    BY <1>1, <1>2, <1>4
  <1> HIDE DEF i, ts, sig
  <1>9. s \in ListState /\ s.list = InsertedAt(o.list, t, i) /\ s.ts = ts /\ s.sig = sig
    BY <1>6, <1>7, <1>8 DEF ListState
  <1> DEFINE f == [rt_next EXCEPT ![t] = next]
  <1>10. ASSUME OrderInv, Comparable(next), update \/ (~Armed(t) /\ next_ts <= next)
         PROVE  Sorted(s.list, f) /\ s.ts <= f[s.list[1]]
    <2> DEFINE n == Len(o.list)
    <2>1. /\ Sorted(o.list, rt_next)
          /\ o.list # <<>> => o.ts <= rt_next[o.list[1]]
          /\ ~Armed(t) => o.ts = next_ts
      BY <1>1, <1>10, StoppedFacts DEF o
    <2>2. n \in Nat /\ DOMAIN o.list = 1..n /\ (n # 0 => o.list # <<>>)
      BY <1>4, SeqFacts
    <2>3. \A j \in 1..n : /\ o.list[j] \in Timers /\ o.list[j] # t
                          /\ rt_next[o.list[j]] \in Nat /\ Armed(o.list[j])
      <3> SUFFICES ASSUME NEW j \in 1..n
                   PROVE  /\ o.list[j] \in Timers /\ o.list[j] # t
                          /\ rt_next[o.list[j]] \in Nat /\ Armed(o.list[j])
        OBVIOUS
      <3>1. o.list[j] \in Timers
        BY <1>4, SeqFacts
      <3>2. o.list[j] \in Elems(rd_timers) \ {t}
        BY <1>2, <2>2 DEF Elems
      <3> QED
        BY <1>1, <3>1, <3>2 DEF ListInv
    <2>4. \A j \in 1..n : rd_timer_cmp(next, rt_next[o.list[j]]) = next - rt_next[o.list[j]]
      <3> SUFFICES ASSUME NEW j \in 1..n
                   PROVE  rd_timer_cmp(next, rt_next[o.list[j]]) = next - rt_next[o.list[j]]
        OBVIOUS
      <3>1. next - rt_next[o.list[j]] \in -IntHalf..(IntHalf - 1)
        BY <1>10, <2>3 DEF Comparable
      <3> QED
        BY <1>1, <2>3, <3>1, CmpExact, ConstAssumption
    <2>5. \A j \in 1..n : IF j < i THEN rt_next[o.list[j]] <= next ELSE next <= rt_next[o.list[j]]
      <3> SUFFICES ASSUME NEW j \in 1..n
                   PROVE  /\ j < i => rt_next[o.list[j]] <= next
                          /\ ~(j < i) => next <= rt_next[o.list[j]]
        OBVIOUS
      <3>1. \A k \in 1..n : k <= j => rt_next[o.list[k]] <= rt_next[o.list[j]]
        <4> SUFFICES ASSUME NEW k \in 1..n, k <= j
                     PROVE  rt_next[o.list[k]] <= rt_next[o.list[j]]
          OBVIOUS
        <4>1. CASE k = j
          BY <2>3, <4>1
        <4>2. CASE k < j
          BY <2>1, <2>2, <4>2 DEF Sorted
        <4> QED
          BY <2>2, <4>1, <4>2
      <3>2. CASE next < o.ts
        <4>1. i = 1 /\ 1 \in 1..n /\ 1 <= j
          BY <2>2, <3>2 DEF i
        <4>2. o.ts <= rt_next[o.list[1]] /\ rt_next[o.list[1]] <= rt_next[o.list[j]]
          BY <2>1, <2>2, <3>1, <4>1
        <4> QED
          BY <1>1, <1>4, <2>3, <3>2, <4>1, <4>2
      <3>3. CASE ~(next < o.ts)
        <4>1. i = InsertPos(o.list, next)
          BY <3>3 DEF i
        <4>2. /\ \A k \in 1..(i - 1) : rd_timer_cmp(next, rt_next[o.list[k]]) > 0
              /\ i <= n => rd_timer_cmp(next, rt_next[o.list[i]]) <= 0
          BY <1>1, <1>4, <4>1, InsertPosFacts
        <4>3. CASE j < i
          <5>1. j \in 1..(i - 1) /\ rd_timer_cmp(next, rt_next[o.list[j]]) > 0
            BY <1>5, <2>2, <4>2, <4>3
          <5>2. next - rt_next[o.list[j]] > 0 /\ rt_next[o.list[j]] \in Nat
            BY <2>3, <2>4, <5>1
          <5> QED
            BY <1>1, <4>3, <5>2
        <4>4. CASE ~(j < i)
          <5>1. i \in 1..n /\ i <= j /\ i <= n
            BY <1>5, <2>2, <4>4
          <5>2. next - rt_next[o.list[i]] <= 0 /\ rt_next[o.list[i]] <= rt_next[o.list[j]]
            BY <2>4, <3>1, <4>2, <5>1
          <5>3. rt_next[o.list[i]] \in Nat /\ rt_next[o.list[j]] \in Nat
            BY <2>3, <5>1
          <5> QED
            BY <1>1, <4>4, <5>2, <5>3
        <4> QED
          BY <4>3, <4>4
      <3> QED
        BY <3>2, <3>3
    <2>6. Sorted(s.list, f)
      <3>1. Sorted(InsertedAt(o.list, t, i), f)
        BY <1>1, <1>2, <1>4, <1>5, <2>1, <2>5, InsertedSorted, Zenon
      <3> QED
        BY <1>9, <3>1
    <2>7. s.list[1] = IF i = 1 THEN t ELSE o.list[1]
      <3>1. 1 \in 1..(n + 1) /\ (1 < i <=> i # 1)
        BY <1>5, <2>2
      <3>2. \A j \in 1..(n + 1) :
              s.list[j] = IF j < i THEN o.list[j] ELSE IF j = i THEN t ELSE o.list[j - 1]
        BY <1>2, <1>4, <1>5, <1>9, InsertedFacts
      <3> QED
        BY <3>1, <3>2
    <2>8. f[t] = next /\ \A u \in Timers : u # t => f[u] = rt_next[u]
      BY <1>1
    <2> HIDE DEF f
    <2>9. ts <= next
      BY <1>1, <1>4, <1>10, <2>1 DEF ts
    <2>10. i # 1 => ts <= f[o.list[1]]
      <3>1. i # 1 => 1 \in 1..n /\ ~(next < o.ts)
        BY <1>5, <2>2 DEF i
      <3>2. i # 1 => ts = o.ts /\ o.list # <<>>
        BY <2>2, <3>1 DEF ts
      <3> QED
        BY <2>1, <2>3, <2>8, <3>1, <3>2
    <2> QED
      BY <1>9, <2>6, <2>7, <2>8, <2>9, <2>10
  <1> QED
    BY <1>7, <1>8, <1>9, <1>10 DEF s, next

-----------------------------------------------------------------------------
(***************************************************************************)
(* Counting calls.                                                         *)
(***************************************************************************)

LEMMA QueuedIs ==
    ASSUME TypeOK, NEW t
    PROVE  Queued(t) = {p \in Threads \X Nat : /\ p[2] \in 1..Len(evq[p[1]])
                                               /\ evq[p[1]][p[2]] = t}
  <1>1. \A th \in Threads : DOMAIN evq[th] = 1..Len(evq[th]) /\ Len(evq[th]) \in Nat
    BY SeqFacts DEF TypeOK
  <1> QED
    BY <1>1 DEF Queued, QueuedOn

\* Whoever is counted is known to be queued or running.
LEMMA NotCounted ==
    ASSUME TypeOK, NEW t \in Timers, IsFiniteSet(Queued(t)), IsFiniteSet(RunningOn(t)),
           Outstanding(t) = 0
    PROVE  /\ \A th \in Threads : running[th] # t
           /\ \A th \in Threads : evq[th] # <<>> => Head(evq[th]) # t
  <1>1. Cardinality(Queued(t)) \in Nat /\ Cardinality(RunningOn(t)) \in Nat
    BY FS_CardinalityType
  <1>2. Cardinality(Queued(t)) = 0 /\ Cardinality(RunningOn(t)) = 0
    BY <1>1 DEF Outstanding
  <1>3. Queued(t) = {} /\ RunningOn(t) = {}
    BY <1>2, FS_EmptySet
  <1>4. ASSUME NEW th \in Threads, evq[th] # <<>>, Head(evq[th]) = t
        PROVE  FALSE
    <2>1. /\ Len(evq[th]) \in Nat /\ Len(evq[th]) # 0 /\ Head(evq[th]) = evq[th][1]
      BY <1>4, SeqFacts DEF TypeOK
    <2>2. <<th, 1>> \in Queued(t)
      BY <1>4, <2>1, QueuedIs
    <2> QED
      BY <1>3, <2>2
  <1> QED
    BY <1>3, <1>4 DEF RunningOn

\* A call of u is queued on thread h.
LEMMA AppendQueued ==
    ASSUME TypeOK, TypeOK', NEW h \in Threads, NEW u \in Timers,
           evq' = [evq EXCEPT ![h] = Append(evq[h], u)]
    PROVE  /\ \A t \in Timers : t # u => Queued(t)' = Queued(t)
           /\ <<h, Len(evq[h]) + 1>> \notin Queued(u)
           /\ Queued(u)' = Queued(u) \cup {<<h, Len(evq[h]) + 1>>}
  <1> DEFINE n == Len(evq[h])
  <1>1. evq \in [Threads -> Seq(Timers)] /\ n \in Nat
    BY SeqFacts DEF TypeOK
  <1>2. /\ evq'[h] = Append(evq[h], u) /\ Len(evq'[h]) = n + 1
        /\ evq'[h][n + 1] = u /\ \A i \in 1..n : evq'[h][i] = evq[h][i]
    BY <1>1, AppendProperties
  <1>3. \A th \in Threads : th # h => evq'[th] = evq[th]
    BY <1>1
  <1>4. \A th \in Threads, i \in Nat, t \in Timers :
            (i \in 1..Len(evq'[th]) /\ evq'[th][i] = t)
                <=> \/ i \in 1..Len(evq[th]) /\ evq[th][i] = t
                    \/ th = h /\ i = n + 1 /\ t = u
    <2> SUFFICES ASSUME NEW th \in Threads, NEW i \in Nat, NEW t \in Timers
                 PROVE  (i \in 1..Len(evq'[th]) /\ evq'[th][i] = t)
                            <=> \/ i \in 1..Len(evq[th]) /\ evq[th][i] = t
                                \/ th = h /\ i = n + 1 /\ t = u
      OBVIOUS
    <2>1. CASE th # h
      BY <1>3, <2>1
    <2>2. CASE th = h /\ i = n + 1
      BY <1>1, <1>2, <2>2
    <2>3. CASE th = h /\ i # n + 1
      <3>1. i \in 1..Len(evq'[h]) <=> i \in 1..n
        BY <1>1, <1>2, <2>3
      <3> QED
        BY <1>2, <2>3, <3>1
    <2> QED
      BY <2>1, <2>2, <2>3
  <1>5. ASSUME NEW t \in Timers
        PROVE  Queued(t)' = {p \in Threads \X Nat : /\ p[2] \in 1..Len(evq'[p[1]])
                                                    /\ evq'[p[1]][p[2]] = t}
    <2>1. \A th \in Threads : DOMAIN evq'[th] = 1..Len(evq'[th]) /\ Len(evq'[th]) \in Nat
      BY SeqFacts DEF TypeOK
    <2> QED
      BY <2>1 DEF Queued, QueuedOn
  <1>6. ASSUME NEW t \in Timers, t # u PROVE Queued(t)' = Queued(t)
    <2>1. \A p \in Threads \X Nat :
            (p[2] \in 1..Len(evq'[p[1]]) /\ evq'[p[1]][p[2]] = t)
                <=> (p[2] \in 1..Len(evq[p[1]]) /\ evq[p[1]][p[2]] = t)
      BY <1>4, <1>6
    <2> QED
      BY <1>5, <2>1, QueuedIs
  <1>7. <<h, n + 1>> \notin Queued(u)
    BY <1>1, QueuedIs
  <1>8. Queued(u)' = Queued(u) \cup {<<h, n + 1>>}
    BY <1>1, <1>4, <1>5, QueuedIs
  <1> QED
    BY <1>6, <1>7, <1>8

\* The first call queued on thread h is taken; the others move up.
LEMMA TailQueued ==
    ASSUME TypeOK, TypeOK', NEW h \in Threads, evq[h] # <<>>,
           evq' = [evq EXCEPT ![h] = Tail(evq[h])],
           NEW t \in Timers, IsFiniteSet(Queued(t))
    PROVE  /\ IsFiniteSet(Queued(t)')
           /\ Cardinality(Queued(t)') =
                 IF Head(evq[h]) = t THEN Cardinality(Queued(t)) - 1 ELSE Cardinality(Queued(t))
  <1> DEFINE A == Queued(t) \ {<<h, 1>>}
             B == Queued(t)'
             f == [p \in A |-> IF p[1] = h THEN <<h, p[2] - 1>> ELSE p]
  <1>1. evq \in [Threads -> Seq(Timers)] /\ Len(evq[h]) \in Nat /\ Len(evq[h]) # 0
        /\ Head(evq[h]) = evq[h][1]
    BY SeqFacts DEF TypeOK
  <1>2. /\ evq'[h] = Tail(evq[h]) /\ Len(evq'[h]) = Len(evq[h]) - 1
        /\ \A i \in 1..(Len(evq[h]) - 1) : evq'[h][i] = evq[h][i + 1]
    BY <1>1, HeadTailProperties
  <1>3. \A th \in Threads : th # h => evq'[th] = evq[th]
    BY <1>1
  <1>4. \A p : p \in A <=> /\ p \in Threads \X Nat /\ p # <<h, 1>>
                           /\ p[2] \in 1..Len(evq[p[1]]) /\ evq[p[1]][p[2]] = t
    BY QueuedIs
  <1>5. \A p : p \in B <=> /\ p \in Threads \X Nat
                           /\ p[2] \in 1..Len(evq'[p[1]]) /\ evq'[p[1]][p[2]] = t
    <2>1. \A th \in Threads : DOMAIN evq'[th] = 1..Len(evq'[th]) /\ Len(evq'[th]) \in Nat
      BY SeqFacts DEF TypeOK
    <2> QED
      BY <2>1 DEF Queued, QueuedOn
  <1>6. IsFiniteSet(A) /\
        Cardinality(A) = IF <<h, 1>> \in Queued(t) THEN Cardinality(Queued(t)) - 1
                                                   ELSE Cardinality(Queued(t))
    BY FS_RemoveElement
  <1>7. <<h, 1>> \in Queued(t) <=> Head(evq[h]) = t
    BY <1>1, QueuedIs
  <1> HIDE DEF A, B
  <1>8. \A i \in Nat : <<h, i>> \in A <=> /\ i \in 2..Len(evq[h]) /\ evq[h][i] = t
    BY <1>1, <1>4
  <1>9. \A i \in Nat : <<h, i>> \in B <=> /\ i \in 1..(Len(evq[h]) - 1) /\ evq[h][i + 1] = t
    BY <1>1, <1>2, <1>5
  <1>10. \A th \in Threads, i \in Nat : th # h => (<<th, i>> \in A <=> <<th, i>> \in B)
    BY <1>3, <1>4, <1>5
  <1>11. /\ \A p \in A : \E th \in Threads, i \in Nat : p = <<th, i>>
         /\ \A p \in B : \E th \in Threads, i \in Nat : p = <<th, i>>
    BY <1>4, <1>5
  <1>12. ASSUME NEW p \in A PROVE f[p] \in B
    <2>1. PICK th \in Threads, i \in Nat : p = <<th, i>>
      BY <1>11
    <2>2. CASE th = h
      <3>1. i \in 2..Len(evq[h]) /\ evq[h][i] = t /\ f[p] = <<h, i - 1>>
        BY <1>8, <2>1, <2>2
      <3>2. i - 1 \in Nat /\ i - 1 \in 1..(Len(evq[h]) - 1) /\ (i - 1) + 1 = i
        BY <1>1, <3>1
      <3> QED
        BY <1>9, <3>1, <3>2
    <2>3. CASE th # h
      BY <1>10, <2>1, <2>3
    <2> QED
      BY <2>2, <2>3
  <1>13. ASSUME NEW p \in A, NEW q \in A, f[p] = f[q] PROVE p = q
    <2>1. PICK th \in Threads, i \in Nat : p = <<th, i>>
      BY <1>11
    <2>2. PICK u \in Threads, j \in Nat : q = <<u, j>>
      BY <1>11
    <2>3. /\ f[p] = IF th = h THEN <<h, i - 1>> ELSE <<th, i>>
          /\ f[q] = IF u = h THEN <<h, j - 1>> ELSE <<u, j>>
      BY <2>1, <2>2
    <2>4. th = u /\ i = j
      BY <1>13, <2>3
    <2> QED
      BY <2>1, <2>2, <2>4
  <1>14. ASSUME NEW q \in B PROVE \E p \in A : f[p] = q
    <2>1. PICK th \in Threads, i \in Nat : q = <<th, i>>
      BY <1>11
    <2>2. CASE th = h
      <3>1. i \in 1..(Len(evq[h]) - 1) /\ evq[h][i + 1] = t
        BY <1>9, <2>1, <2>2
      <3>2. i + 1 \in Nat /\ i + 1 \in 2..Len(evq[h]) /\ (i + 1) - 1 = i
        BY <1>1, <3>1
      <3>3. <<h, i + 1>> \in A
        BY <1>8, <3>1, <3>2
      <3>4. f[<<h, i + 1>>] = <<h, (i + 1) - 1>>
        BY <3>3
      <3> QED
        BY <2>1, <2>2, <3>2, <3>3, <3>4
    <2>3. CASE th # h
      <3>1. q \in A
        BY <1>10, <2>1, <2>3
      <3>2. f[q] = q
        BY <2>1, <2>3, <3>1
      <3> QED
        BY <3>1, <3>2
    <2> QED
      BY <2>2, <2>3
  <1>15. f \in Bijection(A, B)
    <2>1. f \in [A -> B]
      BY <1>12
    <2> HIDE DEF f
    <2>2. \A a, b \in A : f[a] = f[b] => a = b
      BY <1>13
    <2>3. \A b \in B : \E a \in A : f[a] = b
      BY <1>14
    <2>4. f \in Injection(A, B)
      BY <2>1, <2>2 DEF Injection, IsInjective
    <2>5. f \in Surjection(A, B)
      BY <2>1, <2>3 DEF Surjection
    <2> QED
      BY <2>4, <2>5 DEF Bijection
  <1>16. IsFiniteSet(B) /\ Cardinality(B) = Cardinality(A)
    <2>1. ExistsBijection(A, B)
      BY <1>15 DEF ExistsBijection
    <2> QED
      BY <1>6, <2>1, FS_Bijection
  <1> QED
    BY <1>6, <1>7, <1>16 DEF B

-----------------------------------------------------------------------------
(***************************************************************************)
(* The invariant.                                                          *)
(***************************************************************************)

\* rt_called counts the calls that are queued or running, of which there are
\* finitely many.
CountInv ==
    \A t \in Timers :
        /\ IsFiniteSet(Queued(t)) /\ IsFiniteSet(RunningOn(t))
        /\ rt_called[t] = Outstanding(t)

\* Who may still refer to timer t.  A timer marked removed, or one the
\* application never had, is not the application's; one that was given up is
\* not armed.
MemOf(t) ==
    /\ (Armed(t) \/ owned[t] \/ rt_called[t] > 0) => mem[t] = "live"
    /\ (rt_removed[t] \/ rt_atomic[t]) => ~owned[t] /\ mem[t] # "none"
    /\ (mem[t] # "none" /\ ~owned[t] /\ ~rt_atomic[t]) => ~Armed(t)
    /\ rt_interval[t] \in Intervals \cup {0}

MemInv == \A t \in Timers : MemOf(t)

\* The timers called out in this iteration are off the list, and nobody frees
\* them before the lock is released.
CalloutInv ==
    /\ tpc \in {"wake", "wait"} => callouts = <<>>
    /\ Distinct(callouts)
    /\ \A t \in Elems(callouts) : ~Armed(t) /\ mem[t] = "live" /\ (owned[t] \/ rt_atomic[t])

TimerInv == TypeOK /\ ~fault /\ ListInv /\ CountInv /\ MemInv /\ CalloutInv

LEMMA EmptyFacts ==
    /\ <<>> \in Seq(Timers) /\ Elems(<<>>) = {} /\ Distinct(<<>>)
    /\ \A next : Sorted(<<>>, next)
  <1>1. <<>> \in Seq(Timers) /\ Len(<<>>) = 0
    BY EmptySeq
  <1>2. DOMAIN <<>> = {}
    BY <1>1, SeqFacts
  <1> QED
    BY <1>1, <1>2 DEF Elems, Distinct, Sorted

LEMMA TypeInit == Init => TypeOK
  <1> SUFFICES ASSUME Init PROVE TypeOK
    OBVIOUS
  <1>1. (CHOOSE th \in Threads : TRUE) \in Threads
    BY ConstAssumption
  <1>2. rt_thread \in [Timers -> Threads]
    BY <1>1 DEF Init
  <1>3. <<>> \in Seq(Timers)
    BY EmptySeq
  <1>4. /\ clock \in Nat \ {0} /\ rd_timers \in Seq(Timers) /\ next_ts \in Nat
        /\ now \in Nat /\ callouts \in Seq(Timers) /\ deadline \in Nat
        /\ tpc \in {"wake", "pop", "restart", "wait"}
    BY <1>3 DEF Init
  <1>5. /\ rt_interval \in [Timers -> Nat] /\ rt_next \in [Timers -> Nat]
        /\ rt_called \in [Timers -> Nat]
        /\ mem \in [Timers -> {"none", "live", "freed"}]
        /\ rt_type \in [Timers -> {"ONCE", "RECURR"}]
    BY DEF Init
  <1>6. /\ rt_atomic \in [Timers -> BOOLEAN] /\ rt_removed \in [Timers -> BOOLEAN]
        /\ owned \in [Timers -> BOOLEAN] /\ fault \in BOOLEAN
    BY Zenon DEF Init
  <1>7. evq \in [Threads -> Seq(Timers)] /\ running \in [Threads -> Timers \cup {NoTimer}]
    BY <1>3 DEF Init
  <1> QED
    BY <1>2, <1>4, <1>5, <1>6, <1>7 DEF TypeOK

LEMMA InvInit == Init => TimerInv
  <1> SUFFICES ASSUME Init PROVE TimerInv
    OBVIOUS
  <1>1. TypeOK /\ ~fault
    BY TypeInit DEF Init
  <1>2. ListInv
    BY EmptyFacts DEF Init, ListInv, Armed
  <1>3. CountInv
    <2> SUFFICES ASSUME NEW t \in Timers
                 PROVE  /\ IsFiniteSet(Queued(t)) /\ IsFiniteSet(RunningOn(t))
                        /\ rt_called[t] = Outstanding(t)
      BY DEF CountInv
    <2>1. RunningOn(t) = {}
      BY ConstAssumption DEF Init, RunningOn
    <2>2. Len(<<>>) = 0 /\ \A th \in Threads : evq[th] = <<>>
      BY EmptySeq DEF Init
    <2>3. Queued(t) = {}
      BY <1>1, <2>2, QueuedIs
    <2> QED
      BY <2>1, <2>3, FS_EmptySet DEF Init, Outstanding
  <1>4. MemInv
    BY DEF Init, MemInv, MemOf, Armed
  <1>5. CalloutInv
    BY EmptyFacts DEF Init, CalloutInv
  <1> QED
    BY <1>1, <1>2, <1>3, <1>4, <1>5 DEF TimerInv

\* The list state s and the new firing times fit together.
LEMMA SetListInv ==
    ASSUME TypeOK, NEW s \in ListState, SetList(s), Distinct(s.list),
           NEW t \in Timers, NEW x \in Nat, rt_next' = [rt_next EXCEPT ![t] = x],
           \A u \in Timers : u # t => (u \in Elems(s.list) <=> Armed(u)),
           t \in Elems(s.list) <=> x # 0
    PROVE  /\ ListInv'
           /\ rd_timers' \in Seq(Timers) /\ next_ts' \in Nat
           /\ tpc' \in {"wake", "pop", "restart", "wait"}
           /\ tpc' \in {"wake", "wait"} <=> tpc \in {"wake", "wait"}
           /\ rt_next' \in [Timers -> Nat]
           /\ Armed(t)' <=> x # 0
           /\ \A u \in Timers : u # t => Armed(u)' = Armed(u)
  <1>1. s.list \in Seq(Timers) /\ s.ts \in Nat /\ s.sig \in BOOLEAN
    BY DEF ListState
  <1>2. rt_next \in [Timers -> Nat] /\ tpc \in {"wake", "pop", "restart", "wait"}
    BY DEF TypeOK
  <1>3. /\ rt_next' \in [Timers -> Nat] /\ rt_next'[t] = x
        /\ \A u \in Timers : u # t => rt_next'[u] = rt_next[u]
    BY <1>2
  <1>4. (Armed(t)' <=> x # 0) /\ \A u \in Timers : u # t => Armed(u)' = Armed(u)
    BY <1>3 DEF Armed
  <1>5. rd_timers' = s.list /\ next_ts' = s.ts
    BY DEF SetList
  <1>6. /\ tpc' \in {"wake", "pop", "restart", "wait"}
        /\ tpc' \in {"wake", "wait"} <=> tpc \in {"wake", "wait"}
    BY <1>2 DEF SetList
  <1>7. ListInv'
    <2>1. ASSUME NEW u \in Timers PROVE Armed(u)' <=> u \in Elems(rd_timers)'
      <3>1. CASE u = t
        BY <1>4, <1>5, <3>1 DEF Elems
      <3>2. CASE u # t
        BY <1>4, <1>5, <3>2 DEF Elems
      <3> QED
        BY <3>1, <3>2
    <2>2. Distinct(rd_timers)'
      BY <1>5 DEF Distinct
    <2> QED
      BY <2>1, <2>2 DEF ListInv
  <1> QED
    BY <1>1, <1>3, <1>4, <1>5, <1>6, <1>7

\* rd_timer_stop0() and the assignment that follows it.
LEMMA StopListInv ==
    ASSUME TypeOK, ListInv, NEW t \in Timers, NEW called \in Nat,
           SetList(Stopped(t, called)), rt_next' = [rt_next EXCEPT ![t] = 0]
    PROVE  /\ ListInv'
           /\ rd_timers' \in Seq(Timers) /\ next_ts' \in Nat
           /\ tpc' \in {"wake", "pop", "restart", "wait"}
           /\ tpc' \in {"wake", "wait"} <=> tpc \in {"wake", "wait"}
           /\ rt_next' \in [Timers -> Nat]
           /\ ~Armed(t)'
           /\ \A u \in Timers : u # t => Armed(u)' = Armed(u)
  <1> DEFINE s == Stopped(t, called)
  <1>1. s \in ListState /\ Distinct(s.list) /\ Elems(s.list) = Elems(rd_timers) \ {t}
    BY StoppedFacts
  <1>2. \A u \in Timers : u # t => (u \in Elems(s.list) <=> Armed(u))
    BY <1>1 DEF ListInv
  <1>3. t \in Elems(s.list) <=> 0 # 0
    BY <1>1
  <1>4. SetList(s) /\ 0 \in Nat
    OBVIOUS
  <1> HIDE DEF s
  <1> QED
    BY <1>1, <1>2, <1>3, <1>4, SetListInv

\* rd_timer_start0() and its assignment to rt_next.
LEMMA StartListInv ==
    ASSUME TypeOK, ListInv, NEW t \in Timers, NEW interval \in Nat, NEW update \in BOOLEAN,
           SetList(Started(t, interval, update)),
           rt_next' = [rt_next EXCEPT ![t] = FiringTime(interval)]
    PROVE  /\ ListInv'
           /\ rd_timers' \in Seq(Timers) /\ next_ts' \in Nat
           /\ tpc' \in {"wake", "pop", "restart", "wait"}
           /\ tpc' \in {"wake", "wait"} <=> tpc \in {"wake", "wait"}
           /\ rt_next' \in [Timers -> Nat]
           /\ Armed(t)'
           /\ \A u \in Timers : u # t => Armed(u)' = Armed(u)
  <1> DEFINE s == Started(t, interval, update)
             x == FiringTime(interval)
  <1>1. s \in ListState /\ Distinct(s.list) /\ Elems(s.list) = Elems(rd_timers) \cup {t}
    BY StartedFacts
  <1>2. x \in Nat /\ x # 0
    BY FiringTimeNat
  <1>3. \A u \in Timers : u # t => (u \in Elems(s.list) <=> Armed(u))
    BY <1>1 DEF ListInv
  <1>4. t \in Elems(s.list) <=> x # 0
    BY <1>1, <1>2
  <1>5. SetList(s) /\ rt_next' = [rt_next EXCEPT ![t] = x]
    OBVIOUS
  <1> HIDE DEF s, x
  <1> QED
    BY <1>1, <1>2, <1>3, <1>4, <1>5, SetListInv

LEMMA CountSame ==
    ASSUME CountInv, UNCHANGED <<evq, running, rt_called>>
    PROVE  CountInv'
  BY DEF CountInv, Queued, QueuedOn, RunningOn, Outstanding

\* The timers that a step does not touch keep their part of MemInv.
LEMMA MemOthers ==
    ASSUME MemInv, NEW t \in Timers, MemOf(t)',
           \A u \in Timers : u # t =>
               /\ Armed(u)' = Armed(u) /\ owned'[u] = owned[u] /\ rt_called'[u] = rt_called[u]
               /\ mem'[u] = mem[u] /\ rt_removed'[u] = rt_removed[u]
               /\ rt_atomic'[u] = rt_atomic[u] /\ rt_interval'[u] = rt_interval[u]
    PROVE  MemInv'
  <1> SUFFICES ASSUME NEW u \in Timers PROVE MemOf(u)'
    BY DEF MemInv
  <1>1. CASE u = t
    BY <1>1
  <1>2. CASE u # t
    BY <1>2 DEF MemInv, MemOf
  <1> QED
    BY <1>1, <1>2

\* Nothing is called out while the lock is free.
LEMMA CalloutEmpty ==
    ASSUME CalloutInv, Unlocked, tpc' \in {"wake", "wait"}, UNCHANGED callouts
    PROVE  CalloutInv'
  <1>1. callouts = <<>> /\ callouts' = <<>>
    BY DEF CalloutInv, Unlocked
  <1> QED
    BY <1>1, EmptyFacts DEF CalloutInv

-----------------------------------------------------------------------------
(***************************************************************************)
(* The invariant, action by action.                                        *)
(***************************************************************************)

LEMMA TimerNewInv ==
    ASSUME TimerInv, NEW t \in Timers, NEW type \in Types, NEW th \in Threads,
           TimerNew(t, type, th)
    PROVE  TimerInv'
  <1>1. TypeOK /\ ~fault /\ ListInv /\ CountInv /\ MemInv /\ CalloutInv
    BY DEF TimerInv
  <1>2. TypeOK' /\ ~fault'
    BY <1>1 DEF TimerNew, TypeOK, Types, listVars, runVars, eventVars
  <1>3. ListInv'
    BY <1>1 DEF TimerNew, ListInv, Distinct, Elems, Armed, listVars
  <1>4. CountInv'
    BY <1>1, CountSame DEF TimerNew, eventVars
  <1>5. MemOf(t)'
    BY <1>1 DEF TimerNew, MemInv, MemOf, Armed, TypeOK
  <1>6. MemInv'
    BY <1>1, <1>5, MemOthers DEF TimerNew, Armed, TypeOK
  <1>7. CalloutInv'
    <2>1. UNCHANGED <<tpc, callouts, rt_next, rt_atomic>>
      BY DEF TimerNew, runVars
    <2>2. \A u \in Timers : mem[u] = "live" => mem'[u] = "live" /\ owned'[u] = owned[u]
      BY <1>1 DEF TimerNew, TypeOK
    <2>3. \A u \in Elems(callouts) : u \in Timers
      BY <1>1, SeqFacts DEF TypeOK, Elems
    <2> QED
      BY <1>1, <2>1, <2>2, <2>3 DEF CalloutInv, Elems, Distinct, Armed
  <1> QED
    BY <1>2, <1>3, <1>4, <1>6, <1>7 DEF TimerInv

LEMMA TimerAddInv ==
    ASSUME TimerInv, NEW t \in Timers, NEW type \in Types, NEW i \in Intervals,
           NEW th \in Threads, TimerAdd(t, type, i, th)
    PROVE  TimerInv'
  <1>1. TypeOK /\ ~fault /\ ListInv /\ CountInv /\ MemInv /\ CalloutInv
    BY DEF TimerInv
  <1>2. i \in Nat /\ Unlocked
    BY ConstAssumption DEF TimerAdd
  <1>3. /\ SetList(Started(t, i, TRUE)) /\ rt_next' = [rt_next EXCEPT ![t] = FiringTime(i)]
        /\ UNCHANGED <<clock, rt_called, rt_removed, owned, now, callouts, deadline, evq,
                       running, fault>>
    BY DEF TimerAdd, runVars, eventVars
  <1>4. /\ ListInv'
        /\ rd_timers' \in Seq(Timers) /\ next_ts' \in Nat
        /\ tpc' \in {"wake", "pop", "restart", "wait"}
        /\ tpc' \in {"wake", "wait"} <=> tpc \in {"wake", "wait"}
        /\ rt_next' \in [Timers -> Nat]
        /\ Armed(t)'
        /\ \A u \in Timers : u # t => Armed(u)' = Armed(u)
    BY <1>1, <1>2, <1>3, StartListInv
  <1>5. /\ mem[t] = "none" /\ mem' = [mem EXCEPT ![t] = "live"]
        /\ rt_type' = [rt_type EXCEPT ![t] = type] /\ rt_thread' = [rt_thread EXCEPT ![t] = th]
        /\ rt_atomic' = [rt_atomic EXCEPT ![t] = TRUE]
        /\ rt_interval' = [rt_interval EXCEPT ![t] = i]
    BY DEF TimerAdd
  <1>6. TypeOK' /\ ~fault'
    BY <1>1, <1>2, <1>3, <1>4, <1>5 DEF TypeOK, Types
  <1>7. CountInv'
    BY <1>1, <1>3, CountSame
  <1>8. MemOf(t)'
    BY <1>1, <1>3, <1>4, <1>5 DEF MemInv, MemOf, TypeOK
  <1>9. MemInv'
    BY <1>1, <1>3, <1>4, <1>5, <1>8, MemOthers DEF TypeOK
  <1>10. CalloutInv'
    BY <1>1, <1>2, <1>3, <1>4, CalloutEmpty DEF Unlocked
  <1> QED
    BY <1>4, <1>6, <1>7, <1>9, <1>10 DEF TimerInv

LEMMA TimerStartInv ==
    ASSUME TimerInv, NEW t \in Timers, NEW i \in Intervals, TimerStart(t, i)
    PROVE  TimerInv'
  <1>1. TypeOK /\ ~fault /\ ListInv /\ CountInv /\ MemInv /\ CalloutInv
    BY DEF TimerInv
  <1>2. i \in Nat /\ Unlocked /\ owned[t]
    BY ConstAssumption DEF TimerStart
  <1>3. /\ SetList(Started(t, i, TRUE)) /\ rt_next' = [rt_next EXCEPT ![t] = FiringTime(i)]
        /\ rt_interval' = [rt_interval EXCEPT ![t] = i]
        /\ UNCHANGED <<clock, mem, rt_type, rt_thread, rt_called, rt_atomic, rt_removed, owned,
                       now, callouts, deadline, evq, running, fault>>
    BY DEF TimerStart, runVars, eventVars
  <1>4. /\ ListInv'
        /\ rd_timers' \in Seq(Timers) /\ next_ts' \in Nat
        /\ tpc' \in {"wake", "pop", "restart", "wait"}
        /\ tpc' \in {"wake", "wait"} <=> tpc \in {"wake", "wait"}
        /\ rt_next' \in [Timers -> Nat]
        /\ Armed(t)'
        /\ \A u \in Timers : u # t => Armed(u)' = Armed(u)
    BY <1>1, <1>2, <1>3, StartListInv
  <1>5. TypeOK' /\ ~fault'
    BY <1>1, <1>2, <1>3, <1>4 DEF TypeOK
  <1>6. CountInv'
    BY <1>1, <1>3, CountSame
  <1>7. MemOf(t)'
    BY <1>1, <1>2, <1>3, <1>4 DEF MemInv, MemOf, TypeOK
  <1>8. MemInv'
    BY <1>1, <1>3, <1>4, <1>7, MemOthers DEF TypeOK
  <1>9. CalloutInv'
    BY <1>1, <1>2, <1>3, <1>4, CalloutEmpty DEF Unlocked
  <1> QED
    BY <1>4, <1>5, <1>6, <1>8, <1>9 DEF TimerInv

LEMMA TimerStopInv ==
    ASSUME TimerInv, NEW t \in Timers, TimerStop(t)
    PROVE  TimerInv'
  <1>1. TypeOK /\ ~fault /\ ListInv /\ CountInv /\ MemInv /\ CalloutInv
    BY DEF TimerInv
  <1>2. rt_called[t] \in Nat /\ Unlocked /\ owned[t]
    BY <1>1 DEF TimerStop, TypeOK
  <1>3. /\ SetList(Stopped(t, rt_called[t])) /\ rt_next' = [rt_next EXCEPT ![t] = 0]
        /\ UNCHANGED <<clock, mem, rt_type, rt_thread, rt_interval, rt_called, rt_atomic,
                       rt_removed, owned, now, callouts, deadline, evq, running, fault>>
    BY DEF TimerStop, attrVars, runVars, eventVars
  <1>4. /\ ListInv'
        /\ rd_timers' \in Seq(Timers) /\ next_ts' \in Nat
        /\ tpc' \in {"wake", "pop", "restart", "wait"}
        /\ tpc' \in {"wake", "wait"} <=> tpc \in {"wake", "wait"}
        /\ rt_next' \in [Timers -> Nat]
        /\ ~Armed(t)'
        /\ \A u \in Timers : u # t => Armed(u)' = Armed(u)
    BY <1>1, <1>2, <1>3, StopListInv
  <1>5. TypeOK' /\ ~fault'
    BY <1>1, <1>3, <1>4 DEF TypeOK
  <1>6. CountInv'
    BY <1>1, <1>3, CountSame
  <1>7. MemOf(t)'
    BY <1>1, <1>2, <1>3, <1>4 DEF MemInv, MemOf
  <1>8. MemInv'
    BY <1>1, <1>3, <1>4, <1>7, MemOthers
  <1>9. CalloutInv'
    BY <1>1, <1>2, <1>3, <1>4, CalloutEmpty DEF Unlocked
  <1> QED
    BY <1>4, <1>5, <1>6, <1>8, <1>9 DEF TimerInv

LEMMA TimerDestroyInv ==
    ASSUME TimerInv, NEW t \in Timers, TimerDestroy(t)
    PROVE  TimerInv'
  <1>1. TypeOK /\ ~fault /\ ListInv /\ CountInv /\ MemInv /\ CalloutInv
    BY DEF TimerInv
  <1>2. rt_called[t] \in Nat /\ Unlocked /\ owned[t] /\ MemOf(t)
    BY <1>1 DEF TimerDestroy, TypeOK, MemInv
  <1>3. /\ SetList(Stopped(t, rt_called[t])) /\ rt_next' = [rt_next EXCEPT ![t] = 0]
        /\ owned' = [owned EXCEPT ![t] = FALSE]
        /\ UNCHANGED <<clock, rt_type, rt_thread, rt_interval, rt_called, rt_atomic,
                       now, callouts, deadline, evq, running, fault>>
    BY DEF TimerDestroy, Destroy0, runVars, eventVars
  <1>4. /\ ListInv'
        /\ rd_timers' \in Seq(Timers) /\ next_ts' \in Nat
        /\ tpc' \in {"wake", "pop", "restart", "wait"}
        /\ tpc' \in {"wake", "wait"} <=> tpc \in {"wake", "wait"}
        /\ rt_next' \in [Timers -> Nat]
        /\ ~Armed(t)'
        /\ \A u \in Timers : u # t => Armed(u)' = Armed(u)
    BY <1>1, <1>2, <1>3, StopListInv
  <1>5. \/ /\ rt_called[t] = 0 /\ mem' = [mem EXCEPT ![t] = "freed"]
           /\ UNCHANGED rt_removed
        \/ rt_removed' = [rt_removed EXCEPT ![t] = TRUE] /\ UNCHANGED mem
    BY DEF TimerDestroy, Destroy0, Destroys
  <1>6. TypeOK' /\ ~fault'
    BY <1>1, <1>3, <1>4, <1>5 DEF TypeOK
  <1>7. CountInv'
    BY <1>1, <1>3, CountSame
  <1>8. MemOf(t)'
    <2>1. owned'[t] = FALSE /\ mem'[t] # "none" /\ (rt_called[t] > 0 => mem'[t] = "live")
      BY <1>1, <1>2, <1>3, <1>5 DEF TypeOK, MemOf
    <2> QED
      BY <1>2, <1>3, <1>4, <2>1 DEF MemOf
  <1>9. \A u \in Timers : u # t => /\ owned'[u] = owned[u] /\ mem'[u] = mem[u]
                                   /\ rt_removed'[u] = rt_removed[u]
    BY <1>1, <1>3, <1>5 DEF TypeOK
  <1>10. MemInv'
    BY <1>1, <1>3, <1>4, <1>8, <1>9, MemOthers
  <1>11. CalloutInv'
    BY <1>1, <1>2, <1>3, <1>4, CalloutEmpty DEF Unlocked
  <1> QED
    BY <1>4, <1>6, <1>7, <1>10, <1>11 DEF TimerInv

\* A step that changes nothing but where the timer thread is, the clock and
\* its readings of the clock.
LEMMA ThreadMoves ==
    ASSUME TimerInv, clock' \in Nat \ {0}, now' \in Nat, deadline' \in Nat, next_ts' \in Nat,
           tpc' \in {"wake", "pop", "restart", "wait"},
           tpc' \in {"wake", "wait"} => callouts = <<>>,
           UNCHANGED <<rd_timers, attrVars, rt_next, rt_called, callouts, eventVars, fault>>
    PROVE  TimerInv'
  <1>1. TypeOK /\ ~fault /\ ListInv /\ CountInv /\ MemInv /\ CalloutInv
    BY DEF TimerInv
  <1>2. TypeOK' /\ ~fault'
    BY <1>1 DEF TypeOK, attrVars, eventVars
  <1>3. ListInv'
    BY <1>1 DEF ListInv, Distinct, Elems, Armed
  <1>4. CountInv'
    BY <1>1, CountSame DEF eventVars
  <1>5. MemInv'
    BY <1>1 DEF MemInv, MemOf, Armed, attrVars
  <1>6. CalloutInv'
    BY <1>1 DEF CalloutInv, Distinct, Elems, Armed, attrVars
  <1> QED
    BY <1>2, <1>3, <1>4, <1>5, <1>6 DEF TimerInv

LEMMA RunMovesInv ==
    ASSUME TimerInv, RunTimeout \/ RunSpurious \/ RunBegin \/ RunPopEnd \/ RunWait \/ Tick
    PROVE  TimerInv'
  <1>1. TypeOK /\ CalloutInv
    BY DEF TimerInv
  <1>2. CASE RunTimeout \/ RunSpurious
    <2>1. tpc' = "wake" /\ callouts = <<>>
      BY <1>1, <1>2 DEF RunTimeout, RunSpurious, CalloutInv
    <2> QED
      BY <1>1, <1>2, <2>1, ThreadMoves DEF RunTimeout, RunSpurious, TypeOK, listVars, runVars
  <1>3. CASE RunBegin
    BY <1>1, <1>3, ThreadMoves DEF RunBegin, TypeOK, listVars
  <1>4. CASE RunPopEnd
    BY <1>1, <1>4, ThreadMoves DEF RunPopEnd, TypeOK, listVars, runVars
  <1>5. CASE RunWait
    <2>1. NextUpdate(rd_timers) \in Nat
      BY <1>1, NextUpdateNat DEF TypeOK
    <2> QED
      BY <1>1, <1>5, <2>1, ThreadMoves DEF RunWait, TypeOK
  <1>6. CASE Tick
    <2>1. /\ clock' \in Nat \ {0}
          /\ UNCHANGED <<rd_timers, next_ts, attrVars, rt_next, rt_called, tpc, now, callouts,
                         deadline, eventVars, fault>>
      BY <1>1, <1>6 DEF Tick, TypeOK, listVars, runVars
    <2> QED
      BY <1>1, <2>1, ThreadMoves DEF TypeOK, CalloutInv
  <1> QED
    BY <1>2, <1>3, <1>4, <1>5, <1>6

\* The first of a list without repetitions is not in the rest.
LEMMA TailFacts ==
    ASSUME NEW s \in Seq(Timers), s # <<>>, Distinct(s)
    PROVE  /\ Head(s) \in Timers /\ Head(s) \in Elems(s) /\ Head(s) = s[1]
           /\ Tail(s) \in Seq(Timers) /\ Distinct(Tail(s))
           /\ Elems(Tail(s)) = Elems(s) \ {Head(s)}
           /\ \A i \in 1..Len(Tail(s)) : Tail(s)[i] = s[i + 1]
           /\ Len(Tail(s)) = Len(s) - 1
  <1> DEFINE n == Len(s)
             r == Tail(s)
  <1>1. /\ n \in Nat /\ n # 0 /\ DOMAIN s = 1..n /\ \A i \in 1..n : s[i] \in Timers
        /\ Head(s) = s[1]
    BY SeqFacts
  <1>2. /\ r \in Seq(Timers) /\ Len(r) = n - 1
        /\ \A i \in 1..Len(r) : r[i] = s[i + 1]
    BY HeadTailProperties
  <1>3. DOMAIN r = 1..(n - 1)
    BY <1>2, SeqFacts
  <1> HIDE DEF r
  <1>4. \A i \in 1..(n - 1) : i + 1 \in 1..n /\ 1 < i + 1 /\ r[i] = s[i + 1]
    BY <1>1, <1>2
  <1>5. Distinct(r)
    BY <1>1, <1>3, <1>4 DEF Distinct
  <1>6. Elems(r) = Elems(s) \ {s[1]}
    <2>1. ASSUME NEW i \in 1..(n - 1) PROVE r[i] \in Elems(s) \ {s[1]}
      <3>1. s[i + 1] # s[1] /\ s[i + 1] \in Elems(s)
        BY <1>1, <1>4 DEF Distinct, Elems
      <3> QED
        BY <1>4, <3>1
    <2>2. ASSUME NEW i \in 1..n, s[i] # s[1] PROVE s[i] \in Elems(r)
      <3>1. i - 1 \in 1..(n - 1) /\ (i - 1) + 1 = i
        BY <1>1, <2>2
      <3>2. r[i - 1] = s[i]
        BY <1>4, <3>1
      <3> QED
        BY <1>3, <3>1, <3>2 DEF Elems
    <2> QED
      BY <1>1, <1>3, <2>1, <2>2 DEF Elems
  <1>7. s[1] \in Elems(s) /\ s[1] \in Timers
    BY <1>1 DEF Elems
  <1> QED
    BY <1>1, <1>2, <1>5, <1>6, <1>7 DEF r

LEMMA AppendFacts ==
    ASSUME NEW s \in Seq(Timers), NEW t \in Timers, t \notin Elems(s), Distinct(s)
    PROVE  /\ Append(s, t) \in Seq(Timers) /\ Distinct(Append(s, t))
           /\ Elems(Append(s, t)) = Elems(s) \cup {t}
  <1> DEFINE n == Len(s)
             r == Append(s, t)
  <1>1. n \in Nat /\ DOMAIN s = 1..n
    BY SeqFacts
  <1>2. /\ r \in Seq(Timers) /\ Len(r) = n + 1 /\ r[n + 1] = t
        /\ \A i \in 1..n : r[i] = s[i]
    BY AppendProperties
  <1>3. DOMAIN r = 1..(n + 1)
    BY <1>2, SeqFacts
  <1> HIDE DEF r
  <1>4. Elems(r) = Elems(s) \cup {t}
    <2>1. \A i \in 1..(n + 1) : i \in 1..n \/ i = n + 1
      BY <1>1
    <2>2. \A i \in 1..n : i \in 1..(n + 1)
      BY <1>1
    <2>3. n + 1 \in 1..(n + 1)
      BY <1>1
    <2> QED
      BY <1>1, <1>2, <1>3, <2>1, <2>2, <2>3 DEF Elems
  <1>5. Distinct(r)
    <2> SUFFICES ASSUME NEW i \in 1..(n + 1), NEW j \in 1..(n + 1), i < j
                 PROVE  r[i] # r[j]
      BY <1>3 DEF Distinct
    <2>1. i \in 1..n /\ r[i] = s[i] /\ s[i] # t
      BY <1>1, <1>2 DEF Elems
    <2>2. CASE j = n + 1
      BY <1>2, <2>1, <2>2
    <2>3. CASE j # n + 1
      BY <1>1, <1>2, <2>1, <2>3 DEF Distinct
    <2> QED
      BY <2>2, <2>3
  <1> QED
    BY <1>2, <1>4, <1>5 DEF r

LEMMA RunPopInv ==
    ASSUME TimerInv, RunPop
    PROVE  TimerInv'
  <1>1. TypeOK /\ ~fault /\ ListInv /\ CountInv /\ MemInv /\ CalloutInv
    BY DEF TimerInv
  <1>2. /\ rd_timers \in Seq(Timers) /\ rd_timers # <<>> /\ Distinct(rd_timers)
        /\ tpc = "pop"
    BY <1>1 DEF RunPop, HeadDue, TypeOK, ListInv
  <1> PICK t \in Timers : t = Head(rd_timers)
    BY <1>2, TailFacts
  <1> DEFINE h == rt_thread[t]
  <1>3. /\ t \in Timers /\ t \in Elems(rd_timers)
        /\ Tail(rd_timers) \in Seq(Timers) /\ Distinct(Tail(rd_timers))
        /\ Elems(Tail(rd_timers)) = Elems(rd_timers) \ {t}
    BY <1>2, TailFacts
  <1>4. /\ rd_timers' = Tail(rd_timers)
        /\ rt_next' = [rt_next EXCEPT ![t] = 0]
        /\ callouts' = Append(callouts, t)
        /\ rt_called' = [rt_called EXCEPT ![t] = rt_called[t] + 1]
        /\ evq' = [evq EXCEPT ![h] = Append(evq[h], t)]
        /\ UNCHANGED <<clock, next_ts, attrVars, tpc, now, deadline, running, fault>>
    BY DEF RunPop
  <1>5. h \in Threads /\ Armed(t) /\ mem[t] = "live" /\ (owned[t] \/ rt_atomic[t]) /\ MemOf(t)
    BY <1>1, <1>3 DEF TypeOK, ListInv, MemInv, MemOf
  <1>6. callouts \in Seq(Timers) /\ Distinct(callouts) /\ t \notin Elems(callouts)
    BY <1>1, <1>5 DEF TypeOK, CalloutInv
  <1>7. /\ callouts' \in Seq(Timers) /\ Distinct(callouts')
        /\ Elems(callouts') = Elems(callouts) \cup {t}
    BY <1>3, <1>4, <1>6, AppendFacts
  <1> HIDE DEF h
  <1>8. /\ rt_next' \in [Timers -> Nat] /\ rt_called' \in [Timers -> Nat]
        /\ rt_called'[t] = rt_called[t] + 1
        /\ \A u \in Timers : u # t => rt_called'[u] = rt_called[u]
        /\ ~Armed(t)' /\ \A u \in Timers : u # t => Armed(u)' = Armed(u)
    BY <1>1, <1>3, <1>4 DEF TypeOK, Armed
  <1>9. evq' \in [Threads -> Seq(Timers)]
    <2>1. Append(evq[h], t) \in Seq(Timers)
      BY <1>1, <1>3, <1>5, AppendProperties DEF TypeOK
    <2> QED
      BY <1>1, <1>4, <2>1 DEF TypeOK
  <1>10. TypeOK' /\ ~fault'
    BY <1>1, <1>3, <1>4, <1>7, <1>8, <1>9 DEF TypeOK, attrVars
  <1>11. ListInv'
    <2>1. Elems(rd_timers)' = Elems(rd_timers) \ {t}
      BY <1>3, <1>4 DEF Elems
    <2>2. Distinct(rd_timers)'
      BY <1>3, <1>4 DEF Distinct
    <2> QED
      BY <1>1, <1>8, <2>1, <2>2 DEF ListInv
  <1>12. CountInv'
    <2> SUFFICES ASSUME NEW u \in Timers
                 PROVE  /\ IsFiniteSet(Queued(u)') /\ IsFiniteSet(RunningOn(u)')
                        /\ rt_called'[u] = Outstanding(u)'
      BY DEF CountInv
    <2>1. /\ IsFiniteSet(Queued(u)) /\ IsFiniteSet(RunningOn(u))
          /\ rt_called[u] = Cardinality(Queued(u)) + Cardinality(RunningOn(u))
      BY <1>1 DEF CountInv, Outstanding
    <2>2. RunningOn(u)' = RunningOn(u)
      BY <1>4 DEF RunningOn
    <2>3. CASE u # t
      <3>1. Queued(u)' = Queued(u)
        BY <1>1, <1>3, <1>4, <1>5, <1>10, <2>3, AppendQueued
      <3> QED
        BY <1>8, <2>1, <2>2, <2>3, <3>1 DEF Outstanding
    <2>4. CASE u = t
      <3> DEFINE p == <<h, Len(evq[h]) + 1>>
      <3>1. p \notin Queued(u) /\ Queued(u)' = Queued(u) \cup {p}
        BY <1>1, <1>3, <1>4, <1>5, <1>10, <2>4, AppendQueued
      <3> HIDE DEF p
      <3>2. IsFiniteSet(Queued(u)') /\ Cardinality(Queued(u)') = Cardinality(Queued(u)) + 1
        BY <2>1, <3>1, FS_AddElement
      <3>3. Cardinality(Queued(u)) \in Nat /\ Cardinality(RunningOn(u)) \in Nat
        BY <2>1, FS_CardinalityType
      <3> QED
        BY <1>8, <2>1, <2>2, <2>4, <3>2, <3>3 DEF Outstanding
    <2> QED
      BY <2>3, <2>4
  <1>13. MemInv'
    <2>1. UNCHANGED <<mem, rt_interval, rt_atomic, rt_removed, owned>>
      BY <1>4 DEF attrVars
    <2>2. MemOf(t)'
      BY <1>5, <1>8, <2>1 DEF MemOf
    <2> QED
      BY <1>1, <1>3, <1>8, <2>1, <2>2, MemOthers
  <1>14. CalloutInv'
    <2>1. Elems(callouts)' = Elems(callouts) \cup {t} /\ Distinct(callouts)'
      BY <1>7 DEF Elems, Distinct
    <2>2. Elems(callouts) \subseteq Timers
      BY <1>6, SeqFacts DEF Elems
    <2> QED
      BY <1>1, <1>2, <1>4, <1>5, <1>8, <2>1, <2>2 DEF CalloutInv, attrVars
  <1> QED
    BY <1>10, <1>11, <1>12, <1>13, <1>14 DEF TimerInv

LEMMA RunRestartInv ==
    ASSUME TimerInv, RunRestart
    PROVE  TimerInv'
  <1>1. TypeOK /\ ~fault /\ ListInv /\ CountInv /\ MemInv /\ CalloutInv
    BY DEF TimerInv
  <1>2. /\ callouts \in Seq(Timers) /\ callouts # <<>> /\ Distinct(callouts)
        /\ tpc = "restart"
    BY <1>1 DEF RunRestart, TypeOK, CalloutInv
  <1> PICK t \in Timers : t = Head(callouts)
    BY <1>2, TailFacts
  <1>3. /\ t \in Timers /\ t \in Elems(callouts)
        /\ Tail(callouts) \in Seq(Timers) /\ Distinct(Tail(callouts))
        /\ Elems(Tail(callouts)) = Elems(callouts) \ {t}
    BY <1>2, TailFacts
  <1>4. ~Armed(t) /\ mem[t] = "live" /\ (owned[t] \/ rt_atomic[t]) /\ MemOf(t)
    BY <1>1, <1>3 DEF CalloutInv, MemInv
  <1>5. /\ callouts' = Tail(callouts)
        /\ UNCHANGED <<clock, attrVars, rt_called, now, deadline, eventVars, fault>>
    BY DEF RunRestart
  <1>6. UNCHANGED <<mem, rt_type, rt_thread, rt_interval, rt_atomic, rt_removed, owned, evq,
                    running>>
    BY <1>5 DEF attrVars, eventVars
  <1>7. /\ ListInv'
        /\ rd_timers' \in Seq(Timers) /\ next_ts' \in Nat
        /\ tpc' \in {"wake", "pop", "restart", "wait"} /\ tpc' \notin {"wake", "wait"}
        /\ rt_next' \in [Timers -> Nat]
        /\ \A u \in Timers : u # t => Armed(u)' = Armed(u)
    <2>1. CASE rt_type[t] = "RECURR"
      <3>1. /\ SetList(Started(t, rt_interval[t], FALSE))
            /\ rt_next' = [rt_next EXCEPT ![t] = FiringTime(rt_interval[t])]
        BY <2>1 DEF RunRestart
      <3>2. rt_interval[t] \in Nat
        BY <1>1, <1>3 DEF TypeOK
      <3> QED
        BY <1>1, <1>2, <1>3, <3>1, <3>2, StartListInv
    <2>2. CASE rt_type[t] # "RECURR"
      <3>1. UNCHANGED <<rd_timers, next_ts, tpc, rt_next>>
        BY <2>2 DEF RunRestart, listVars
      <3>2. ListInv'
        BY <1>1, <3>1 DEF ListInv, Distinct, Elems, Armed
      <3> QED
        BY <1>1, <1>2, <3>1, <3>2 DEF TypeOK, Armed
    <2> QED
      BY <2>1, <2>2
  <1>8. TypeOK' /\ ~fault'
    BY <1>1, <1>3, <1>5, <1>6, <1>7 DEF TypeOK
  <1>9. CountInv'
    BY <1>1, <1>5, <1>6, CountSame
  <1>10. MemInv'
    <2>1. MemOf(t)'
      BY <1>4, <1>5, <1>6 DEF MemOf
    <2> QED
      BY <1>1, <1>3, <1>5, <1>6, <1>7, <2>1, MemOthers
  <1>11. CalloutInv'
    <2>1. Elems(callouts)' = Elems(callouts) \ {t} /\ Distinct(callouts)'
      BY <1>3, <1>5 DEF Elems, Distinct
    <2>2. Elems(callouts) \subseteq Timers
      BY <1>2, SeqFacts DEF Elems
    <2> QED
      BY <1>1, <1>6, <1>7, <2>1, <2>2 DEF CalloutInv
  <1> QED
    BY <1>7, <1>8, <1>9, <1>10, <1>11 DEF TimerInv

\* A timer with a queued or running call is allocated and has been counted.
LEMMA Referenced ==
    ASSUME TimerInv, NEW th \in Threads, NEW t \in Timers,
           running[th] = t \/ (evq[th] # <<>> /\ Head(evq[th]) = t)
    PROVE  rt_called[t] \in Nat /\ rt_called[t] > 0 /\ mem[t] = "live"
  <1>1. /\ TypeOK /\ IsFiniteSet(Queued(t)) /\ IsFiniteSet(RunningOn(t)) /\ MemOf(t)
        /\ rt_called[t] = Outstanding(t) /\ rt_called[t] \in Nat
    BY DEF TimerInv, CountInv, MemInv, TypeOK
  <1>2. rt_called[t] # 0
    BY <1>1, NotCounted
  <1>3. rt_called[t] > 0
    BY <1>1, <1>2
  <1> QED
    BY <1>1, <1>3 DEF MemOf

LEMMA CallBeginInv ==
    ASSUME TimerInv, NEW th \in Threads, CallBegin(th)
    PROVE  TimerInv'
  <1>1. TypeOK /\ ~fault /\ ListInv /\ CountInv /\ MemInv /\ CalloutInv
    BY DEF TimerInv
  <1>2. evq[th] \in Seq(Timers) /\ evq[th] # <<>> /\ running[th] = NoTimer
    BY <1>1 DEF CallBegin, TypeOK
  <1> PICK t \in Timers : t = Head(evq[th])
    BY <1>2, HeadTailProperties
  <1>3. t \in Timers /\ Tail(evq[th]) \in Seq(Timers)
    BY <1>2, HeadTailProperties
  <1>4. rt_called[t] \in Nat /\ rt_called[t] > 0 /\ mem[t] = "live"
    BY <1>2, <1>3, Referenced
  <1>5. /\ running' = [running EXCEPT ![th] = t]
        /\ evq' = [evq EXCEPT ![th] = Tail(evq[th])]
        /\ fault' = (mem[t] # "live" \/ rt_called[t] = 0)
        /\ UNCHANGED <<clock, rd_timers, next_ts, attrVars, rt_next, rt_called, tpc, now,
                       callouts, deadline>>
    BY DEF CallBegin, listVars, runVars
  <1>6. fault' = FALSE
    <2>1. ~(mem[t] # "live" \/ rt_called[t] = 0)
      BY <1>4
    <2> QED
      BY <1>5, <2>1, Zenon
  <1>7. TypeOK'
    <2>1. evq' \in [Threads -> Seq(Timers)] /\ running' \in [Threads -> Timers \cup {NoTimer}]
      BY <1>1, <1>3, <1>5 DEF TypeOK
    <2> QED
      BY <1>1, <1>5, <1>6, <2>1 DEF TypeOK, attrVars
  <1>8. ListInv'
    BY <1>1, <1>5 DEF ListInv, Distinct, Elems, Armed
  <1>9. CountInv'
    <2> SUFFICES ASSUME NEW u \in Timers
                 PROVE  /\ IsFiniteSet(Queued(u)') /\ IsFiniteSet(RunningOn(u)')
                        /\ rt_called'[u] = Outstanding(u)'
      BY DEF CountInv
    <2>1. /\ IsFiniteSet(Queued(u)) /\ IsFiniteSet(RunningOn(u))
          /\ rt_called[u] = Cardinality(Queued(u)) + Cardinality(RunningOn(u))
      BY <1>1 DEF CountInv, Outstanding
    <2>2. /\ IsFiniteSet(Queued(u)')
          /\ Cardinality(Queued(u)') =
                IF t = u THEN Cardinality(Queued(u)) - 1 ELSE Cardinality(Queued(u))
      BY <1>1, <1>2, <1>5, <1>7, <2>1, TailQueued
    <2>3. /\ IsFiniteSet(RunningOn(u)')
          /\ Cardinality(RunningOn(u)') =
                IF t = u THEN Cardinality(RunningOn(u)) + 1 ELSE Cardinality(RunningOn(u))
      <3>1. th \notin RunningOn(u)
        BY <1>2, ConstAssumption DEF RunningOn
      <3>2. CASE t = u
        <4>1. RunningOn(u)' = RunningOn(u) \cup {th}
          BY <1>1, <1>5, <3>2 DEF RunningOn, TypeOK
        <4> QED
          BY <2>1, <3>1, <3>2, <4>1, FS_AddElement
      <3>3. CASE t # u
        <4>1. RunningOn(u)' = RunningOn(u)
          BY <1>1, <1>2, <1>5, <3>3, ConstAssumption DEF RunningOn, TypeOK
        <4> QED
          BY <2>1, <3>3, <4>1
      <3> QED
        BY <3>2, <3>3
    <2>4. Cardinality(Queued(u)) \in Nat /\ Cardinality(RunningOn(u)) \in Nat
      BY <2>1, FS_CardinalityType
    <2> QED
      BY <1>5, <2>1, <2>2, <2>3, <2>4 DEF Outstanding
  <1>10. MemInv'
    BY <1>1, <1>5 DEF MemInv, MemOf, Armed, attrVars
  <1>11. CalloutInv'
    BY <1>1, <1>5 DEF CalloutInv, Distinct, Elems, Armed, attrVars
  <1> QED
    BY <1>6, <1>7, <1>8, <1>9, <1>10, <1>11 DEF TimerInv

LEMMA CallEndInv ==
    ASSUME TimerInv, NEW th \in Threads, CallEnd(th)
    PROVE  TimerInv'
  <1>1. TypeOK /\ ~fault /\ ListInv /\ CountInv /\ MemInv /\ CalloutInv
    BY DEF TimerInv
  <1>2. PICK t \in Timers : running[th] = t
    BY <1>1 DEF CallEnd, TypeOK
  <1> DEFINE called == rt_called[t] - 1
             frees == \/ rt_removed[t] /\ called = 0
                      \/ rt_type[t] = "ONCE" /\ rt_atomic[t]
  <1>3. /\ Unlocked
        /\ rt_called' = [rt_called EXCEPT ![t] = called]
        /\ fault' = (mem[t] # "live")
        /\ running' = [running EXCEPT ![th] = NoTimer]
        /\ UNCHANGED <<clock, rt_type, rt_thread, rt_interval, rt_atomic, owned, now, callouts,
                       deadline, evq>>
    BY <1>2 DEF CallEnd, CalledOff, runVars
  <1>4. IF frees THEN Destroy0(t, called)
                 ELSE UNCHANGED <<rd_timers, next_ts, tpc, rt_next, mem, rt_removed>>
    BY <1>2 DEF CallEnd, CalledOff, listVars
  <1>5. rt_called[t] \in Nat /\ rt_called[t] > 0 /\ mem[t] = "live" /\ MemOf(t)
    BY <1>1, <1>2, Referenced DEF MemInv
  <1>6. called \in Nat
    BY <1>5
  <1>7. frees => rt_removed[t] \/ rt_atomic[t]
    OBVIOUS
  <1> HIDE DEF called, frees
  <1>8. fault' = FALSE
    BY <1>3, <1>5
  <1>9. /\ ListInv'
        /\ rd_timers' \in Seq(Timers) /\ next_ts' \in Nat
        /\ tpc' \in {"wake", "pop", "restart", "wait"} /\ tpc' \in {"wake", "wait"}
        /\ rt_next' \in [Timers -> Nat]
        /\ frees => ~Armed(t)'
        /\ ~frees => Armed(t)' = Armed(t)
        /\ \A u \in Timers : u # t => Armed(u)' = Armed(u)
    <2>1. CASE frees
      <3>1. /\ SetList(Stopped(t, called)) /\ rt_next' = [rt_next EXCEPT ![t] = 0]
        BY <1>4, <2>1 DEF Destroy0
      <3> QED
        BY <1>1, <1>3, <1>6, <2>1, <3>1, StopListInv DEF Unlocked
    <2>2. CASE ~frees
      <3>1. UNCHANGED <<rd_timers, next_ts, tpc, rt_next>>
        BY <1>4, <2>2
      <3>2. ListInv' /\ \A u \in Timers : Armed(u)' = Armed(u)
        BY <1>1, <3>1 DEF ListInv, Distinct, Elems, Armed
      <3> QED
        BY <1>1, <1>3, <2>2, <3>1, <3>2 DEF TypeOK, Unlocked
    <2> QED
      BY <2>1, <2>2
  <1>10. \/ UNCHANGED <<mem, rt_removed>>
         \/ frees /\ called = 0 /\ mem' = [mem EXCEPT ![t] = "freed"] /\ UNCHANGED rt_removed
         \/ frees /\ rt_removed' = [rt_removed EXCEPT ![t] = TRUE] /\ UNCHANGED mem
    BY <1>4 DEF Destroy0, Destroys
  <1>11. /\ rt_called' \in [Timers -> Nat] /\ rt_called'[t] = called
         /\ \A u \in Timers : u # t => rt_called'[u] = rt_called[u]
         /\ mem' \in [Timers -> {"none", "live", "freed"}]
         /\ rt_removed' \in [Timers -> BOOLEAN]
         /\ \A u \in Timers : u # t => mem'[u] = mem[u] /\ rt_removed'[u] = rt_removed[u]
    BY <1>1, <1>3, <1>6, <1>10 DEF TypeOK
  <1>12. TypeOK'
    <2>1. running' \in [Threads -> Timers \cup {NoTimer}]
      BY <1>1, <1>3 DEF TypeOK
    <2> QED
      BY <1>1, <1>3, <1>8, <1>9, <1>11, <2>1 DEF TypeOK
  <1>13. CountInv'
    <2> SUFFICES ASSUME NEW u \in Timers
                 PROVE  /\ IsFiniteSet(Queued(u)') /\ IsFiniteSet(RunningOn(u)')
                        /\ rt_called'[u] = Outstanding(u)'
      BY DEF CountInv
    <2>1. /\ IsFiniteSet(Queued(u)) /\ IsFiniteSet(RunningOn(u))
          /\ rt_called[u] = Cardinality(Queued(u)) + Cardinality(RunningOn(u))
          /\ Cardinality(Queued(u)) \in Nat /\ Cardinality(RunningOn(u)) \in Nat
      BY <1>1, FS_CardinalityType DEF CountInv, Outstanding
    <2>2. Queued(u)' = Queued(u)
      BY <1>3 DEF Queued, QueuedOn
    <2>3. CASE u = t
      <3>1. RunningOn(u)' = RunningOn(u) \ {th} /\ th \in RunningOn(u)
        BY <1>1, <1>2, <1>3, <2>3, ConstAssumption DEF RunningOn, TypeOK
      <3>2. /\ IsFiniteSet(RunningOn(u)')
            /\ Cardinality(RunningOn(u)') = Cardinality(RunningOn(u)) - 1
        BY <2>1, <3>1, FS_RemoveElement
      <3> QED
        BY <1>11, <2>1, <2>2, <2>3, <3>2 DEF Outstanding, called
    <2>4. CASE u # t
      <3>1. RunningOn(u)' = RunningOn(u)
        BY <1>1, <1>2, <1>3, <2>4, ConstAssumption DEF RunningOn, TypeOK
      <3> QED
        BY <1>11, <2>1, <2>2, <2>4, <3>1 DEF Outstanding
    <2> QED
      BY <2>3, <2>4
  <1>14. MemOf(t)'
    <2>1. called > 0 => called # 0
      BY <1>6
    <2>2. mem'[t] # "none" /\ ((called > 0 \/ ~frees) => mem'[t] = "live")
      BY <1>1, <1>5, <1>10, <2>1 DEF TypeOK
    <2>3. frees => ~owned[t] /\ ~Armed(t)'
      BY <1>5, <1>7, <1>9 DEF MemOf
    <2>4. rt_removed'[t] => rt_removed[t] \/ frees
      BY <1>1, <1>10 DEF TypeOK
    <2> QED
      BY <1>3, <1>5, <1>9, <1>11, <2>2, <2>3, <2>4 DEF MemOf
  <1>15. MemInv'
    BY <1>1, <1>3, <1>9, <1>11, <1>14, MemOthers
  <1>16. CalloutInv'
    BY <1>1, <1>3, <1>9, CalloutEmpty
  <1> QED
    BY <1>8, <1>9, <1>12, <1>13, <1>15, <1>16 DEF TimerInv

LEMMA InvNext == TimerInv /\ [Next]_vars => TimerInv'
  <1> SUFFICES ASSUME TimerInv, [Next]_vars PROVE TimerInv'
    OBVIOUS
  <1>1. ASSUME NEW t \in Timers, NEW type \in Types, NEW th \in Threads,
               TimerNew(t, type, th) \/ \E i \in Intervals : TimerAdd(t, type, i, th)
        PROVE  TimerInv'
    BY <1>1, TimerNewInv, TimerAddInv
  <1>2. ASSUME NEW t \in Timers,
               (\E i \in Intervals : TimerStart(t, i)) \/ TimerStop(t) \/ TimerDestroy(t)
        PROVE  TimerInv'
    BY <1>2, TimerStartInv, TimerStopInv, TimerDestroyInv
  <1>3. CASE TimerThread \/ RunSpurious \/ Tick
    BY <1>3, RunMovesInv, RunPopInv, RunRestartInv DEF TimerThread
  <1>4. ASSUME NEW th \in Threads, CallBegin(th) \/ CallEnd(th)
        PROVE  TimerInv'
    BY <1>4, CallBeginInv, CallEndInv
  <1>5. CASE UNCHANGED vars
    <2>1. /\ UNCHANGED <<rd_timers, attrVars, rt_next, rt_called, callouts, eventVars, fault>>
          /\ UNCHANGED <<clock, next_ts, tpc, now, deadline>>
      BY <1>5 DEF vars, listVars, runVars
    <2> QED
      BY <2>1, ThreadMoves DEF TimerInv, TypeOK, CalloutInv
  <1> QED
    BY <1>1, <1>2, <1>3, <1>4, <1>5 DEF Next

\* The state has its type: rt_called, in particular, never goes below zero.
THEOREM TypeCorrect == Spec => []TypeOK
  <1>1. TimerInv => TypeOK
    BY DEF TimerInv
  <1> QED
    BY <1>1, InvInit, InvNext, PTL DEF Spec

\* rt_called is exactly the number of rd_timer_call() events that are queued or
\* running, whatever the timer thread, the called threads and the application
\* do meanwhile.
THEOREM CalledIsExact == Spec => []CalledIsOutstanding
  <1>1. TimerInv => CalledIsOutstanding
    BY DEF TimerInv, CountInv, CalledIsOutstanding
  <1> QED
    BY <1>1, InvInit, InvNext, PTL DEF Spec

\* A timer that is armed, has calls queued or running, or is in the
\* application's hands has not been freed; the assertion of rd_timer_call()
\* holds.
THEOREM NeverUsedAfterFree == Spec => []NoUseAfterFree
  <1>1. TimerInv => NoUseAfterFree
    BY DEF TimerInv, MemInv, MemOf, NoUseAfterFree
  <1> QED
    BY <1>1, InvInit, InvNext, PTL DEF Spec

\* Only RunPop counts a call, and only for a timer that is armed.
LEMMA OnlyArmedFires ==
    ASSUME TimerInv, [Next]_vars, NEW t \in Timers,
           mem[t] # "none", ~owned[t], ~rt_atomic[t]
    PROVE  rt_called'[t] <= rt_called[t]
  <1>1. TypeOK /\ ListInv /\ ~Armed(t) /\ rt_called \in [Timers -> Nat]
    BY DEF TimerInv, MemInv, MemOf, TypeOK
  <1>2. CASE UNCHANGED rt_called
    BY <1>1, <1>2
  <1>3. CASE RunPop
    <2>1. rd_timers \in Seq(Timers) /\ rd_timers # <<>> /\ Distinct(rd_timers)
      BY <1>1, <1>3 DEF RunPop, HeadDue, TypeOK, ListInv
    <2>2. Head(rd_timers) \in Timers /\ Head(rd_timers) \in Elems(rd_timers)
      BY <2>1, TailFacts
    <2>3. Head(rd_timers) # t
      BY <1>1, <2>2 DEF ListInv
    <2> QED
      BY <1>1, <1>3, <2>3 DEF RunPop
  <1>4. ASSUME NEW th \in Threads, CallEnd(th) PROVE rt_called'[t] <= rt_called[t]
    <2>1. rt_called' = [rt_called EXCEPT ![running[th]] = rt_called[running[th]] - 1]
      BY <1>4 DEF CallEnd, CalledOff
    <2> QED
      BY <1>1, <2>1
  <1>5. [Next]_vars => UNCHANGED rt_called \/ RunPop \/ \E th \in Threads : CallEnd(th)
    BY DEF Next, vars, TimerNew, TimerAdd, TimerStart, TimerStop, TimerDestroy, TimerThread,
       RunTimeout, RunSpurious, RunBegin, RunPopEnd, RunRestart, RunWait, CallBegin, Tick
  <1> QED
    BY <1>2, <1>3, <1>4, <1>5

\* Once rd_timer_destroy() has returned, the timer is never fired again.
THEOREM NeverFiresAfterDestroy == Spec => NoFireAfterDestroy
  <1>1. TimerInv /\ [Next]_vars =>
            [\A t \in Timers : (mem[t] # "none" /\ ~owned[t] /\ ~rt_atomic[t])
                                  => rt_called'[t] <= rt_called[t]]_vars
    BY OnlyArmedFires
  <1> QED
    BY <1>1, InvInit, InvNext, PTL DEF Spec, NoFireAfterDestroy

-----------------------------------------------------------------------------
(***************************************************************************)
(* The order of the list and the sleep of the timer thread.                *)
(***************************************************************************)

\* Intervals are below 2^31 microseconds, and the timer thread is never so far
\* behind that a new firing time and an armed one are 2^31 microseconds apart.
\* Beyond that the int of rd_timer_cmp() wraps and the list is not sorted, as
\* run timer_far shows.
KeepsUp == \A i \in Intervals \cup {0} : Comparable(FiringTime(i))

\* While it waits, the timer thread's deadline is rd_timers_next_ts.  While it
\* rearms, rd_timers_next_ts has passed: the timers it popped were due.
SleepInv ==
    /\ OrderInv
    /\ tpc = "wait" => deadline = next_ts
    /\ now <= clock
    /\ callouts # <<>> => next_ts <= now

\* The order of a list depends on the firing times of its timers alone.
LEMMA SortedSame ==
    ASSUME NEW list \in Seq(Timers), NEW f, NEW g, Sorted(list, f),
           \A u \in Elems(list) : g[u] = f[u]
    PROVE  Sorted(list, g) /\ (list # <<>> => g[list[1]] = f[list[1]])
  <1>1. Len(list) \in Nat /\ DOMAIN list = 1..Len(list) /\ (list # <<>> => Len(list) # 0)
    BY SeqFacts
  <1>2. \A i \in DOMAIN list : g[list[i]] = f[list[i]]
    BY DEF Elems
  <1>3. list # <<>> => 1 \in DOMAIN list
    BY <1>1
  <1> QED
    BY <1>2, <1>3 DEF Sorted

\* What SetList makes of the timer thread's wait.
LEMMA SetListWait ==
    ASSUME NEW s \in ListState, SetList(s), ~s.sig => s.ts = next_ts,
           tpc = "wait" => deadline = next_ts, UNCHANGED deadline
    PROVE  tpc' = "wait" => deadline' = next_ts'
  <1>1. next_ts' = s.ts /\ tpc' = IF s.sig /\ tpc = "wait" THEN "wake" ELSE tpc
    BY DEF SetList
  <1> QED
    BY <1>1

\* rd_timer_stop0() keeps the order.
LEMMA StopSleep ==
    ASSUME TimerInv, SleepInv, NEW t \in Timers, NEW called \in Nat,
           SetList(Stopped(t, called)), rt_next' = [rt_next EXCEPT ![t] = 0],
           UNCHANGED <<clock, now, callouts, deadline>>, callouts = <<>>
    PROVE  SleepInv'
  <1> DEFINE s == Stopped(t, called)
  <1>1. TypeOK /\ ListInv /\ OrderInv
    BY DEF TimerInv, SleepInv
  <1>2. /\ s \in ListState /\ Elems(s.list) = Elems(rd_timers) \ {t}
        /\ ~s.sig => s.ts = next_ts
        /\ Sorted(s.list, rt_next) /\ (s.list # <<>> => s.ts <= rt_next[s.list[1]])
    BY <1>1, StoppedFacts
  <1>3. SetList(s)
    OBVIOUS
  <1> HIDE DEF s
  <1>4. rd_timers' = s.list /\ next_ts' = s.ts /\ s.list \in Seq(Timers)
    BY <1>2, <1>3 DEF SetList, ListState
  <1>5. \A u \in Elems(s.list) : rt_next'[u] = rt_next[u]
    <2>1. Elems(s.list) \subseteq Timers
      BY <1>4, SeqFacts DEF Elems
    <2> QED
      BY <1>1, <1>2, <2>1 DEF TypeOK
  <1>6. Sorted(s.list, rt_next') /\ (s.list # <<>> => rt_next'[s.list[1]] = rt_next[s.list[1]])
    <2> DEFINE list == s.list
               g == rt_next'
    <2>1. /\ list \in Seq(Timers) /\ Sorted(list, rt_next)
          /\ \A u \in Elems(list) : g[u] = rt_next[u]
      BY <1>2, <1>4, <1>5
    <2> HIDE DEF list, g
    <2>2. Sorted(list, g) /\ (list # <<>> => g[list[1]] = rt_next[list[1]])
      BY <2>1, SortedSame
    <2> QED
      BY <2>2 DEF list, g
  <1>7. OrderInv'
    BY <1>2, <1>4, <1>6 DEF OrderInv, Sorted
  <1>8. tpc' = "wait" => deadline' = next_ts'
    BY <1>2, <1>3, SetListWait DEF SleepInv
  <1> QED
    BY <1>7, <1>8 DEF SleepInv

\* So does rd_timer_start0(), whether the application calls it or the timer
\* thread, which does not update rd_timers_next_ts.
LEMMA StartSleep ==
    ASSUME TimerInv, SleepInv, KeepsUp, NEW t \in Timers, NEW i \in Intervals \cup {0},
           NEW update \in BOOLEAN, update \/ (~Armed(t) /\ next_ts <= FiringTime(i)),
           SetList(Started(t, i, update)), rt_next' = [rt_next EXCEPT ![t] = FiringTime(i)],
           UNCHANGED <<clock, now, deadline>>,
           ~update => tpc # "wait" /\ tpc' # "wait" /\ next_ts <= now,
           update => callouts = <<>> /\ callouts' = <<>>
    PROVE  SleepInv'
  <1> DEFINE s == Started(t, i, update)
             x == FiringTime(i)
             f == [rt_next EXCEPT ![t] = FiringTime(i)]
  <1>1. TypeOK /\ ListInv /\ OrderInv /\ Comparable(FiringTime(i)) /\ i \in Nat
    BY ConstAssumption DEF TimerInv, SleepInv, KeepsUp
  <1>2. /\ s \in ListState /\ Elems(s.list) = Elems(rd_timers) \cup {t}
        /\ ~s.sig => s.ts = next_ts
        /\ Sorted(s.list, f) /\ s.ts <= f[s.list[1]]
    BY <1>1, StartedFacts
  <1>3. SetList(s) /\ rt_next' = f
    OBVIOUS
  <1>4. ~update => s.ts = next_ts
    <2>1. ASSUME ~update PROVE s.ts = next_ts
      <3> DEFINE o == Stopped(t, rt_called[t])
      <3>1. o = [list |-> rd_timers, ts |-> next_ts, sig |-> FALSE]
        BY <1>1, <2>1, StoppedFacts DEF TypeOK
      <3>2. s = StartedFrom(o, t, FiringTime(i), update)
        BY DEF Started
      <3>3. o.ts = next_ts /\ ~(FiringTime(i) < o.ts)
        <4>1. FiringTime(i) \in Nat /\ next_ts \in Nat
          BY <1>1, FiringTimeNat DEF TypeOK
        <4> HIDE DEF o
        <4>2. o.ts = next_ts
          BY <3>1
        <4> QED
          BY <2>1, <4>1, <4>2
      <3> HIDE DEF o, s
      <3>4. s = [o EXCEPT !.list = InsertedAt(o.list, t, InsertPos(o.list, FiringTime(i)))]
        BY <3>2, <3>3 DEF StartedFrom
      <3> QED
        BY <3>1, <3>4
    <2> QED
      BY <2>1
  <1> HIDE DEF s, f
  <1>5. rd_timers' = s.list /\ next_ts' = s.ts /\ s.list \in Seq(Timers)
    BY <1>2, <1>3 DEF SetList, ListState
  <1>6. OrderInv'
    BY <1>2, <1>3, <1>5 DEF OrderInv, Sorted
  <1>7. tpc' = "wait" => deadline' = next_ts'
    BY <1>2, <1>3, SetListWait DEF SleepInv
  <1>8. callouts' # <<>> => next_ts' <= now'
    BY <1>4, <1>5
  <1> QED
    BY <1>6, <1>7, <1>8 DEF SleepInv

LEMMA RunPopSleep ==
    ASSUME TimerInv, SleepInv, RunPop
    PROVE  SleepInv'
  <1>1. TypeOK /\ ListInv /\ OrderInv /\ tpc = "pop"
    BY DEF TimerInv, SleepInv, RunPop
  <1>2. rd_timers \in Seq(Timers) /\ rd_timers # <<>> /\ Distinct(rd_timers)
        /\ Len(rd_timers) \in Nat /\ DOMAIN rd_timers = 1..Len(rd_timers) /\ Len(rd_timers) # 0
    BY <1>1, SeqFacts DEF RunPop, HeadDue, TypeOK, ListInv
  <1> PICK t \in Timers : t = Head(rd_timers)
    BY <1>2, TailFacts
  <1> DEFINE r == Tail(rd_timers)
  <1>3. /\ t \in Timers /\ t = rd_timers[1]
        /\ r \in Seq(Timers) /\ Elems(r) = Elems(rd_timers) \ {t}
        /\ \A i \in 1..Len(r) : r[i] = rd_timers[i + 1]
        /\ Len(r) = Len(rd_timers) - 1
    BY <1>2, TailFacts
  <1>4. /\ rd_timers' = r /\ rt_next' = [rt_next EXCEPT ![t] = 0]
        /\ rt_next[t] <= now
        /\ UNCHANGED <<clock, next_ts, tpc, now, deadline>>
    BY DEF RunPop, HeadDue
  <1> HIDE DEF r
  <1>5. DOMAIN r = 1..Len(r) /\ (r # <<>> => Len(r) # 0) /\ Elems(r) \subseteq Timers
        /\ Len(r) \in Nat
    BY <1>3, SeqFacts DEF Elems
  <1>6. Sorted(r, rt_next)
    <2> SUFFICES ASSUME NEW i \in 1..Len(r), NEW j \in 1..Len(r), i < j
                 PROVE  rt_next[r[i]] <= rt_next[r[j]]
      BY <1>5 DEF Sorted
    <2>1. i + 1 \in DOMAIN rd_timers /\ j + 1 \in DOMAIN rd_timers /\ i + 1 < j + 1
      BY <1>2, <1>3, <1>5
    <2> QED
      BY <1>1, <1>3, <2>1 DEF OrderInv, Sorted
  <1>7. \A u \in Elems(r) : rt_next'[u] = rt_next[u]
    BY <1>1, <1>3, <1>4, <1>5 DEF TypeOK
  <1>8. Sorted(r, rt_next') /\ (r # <<>> => rt_next'[r[1]] = rt_next[r[1]])
    BY <1>3, <1>6, <1>7, SortedSame
  <1>9. next_ts <= rt_next[t] /\ rt_next[t] \in Nat /\ next_ts \in Nat /\ now \in Nat
    BY <1>1, <1>2, <1>3 DEF OrderInv, TypeOK
  <1>10. r # <<>> => next_ts <= rt_next[r[1]]
    <2> SUFFICES ASSUME r # <<>> PROVE next_ts <= rt_next[r[1]]
      OBVIOUS
    <2>1. 1 \in 1..Len(r) /\ 1 \in DOMAIN rd_timers /\ 2 \in DOMAIN rd_timers
      BY <1>2, <1>3, <1>5
    <2>2. r[1] = rd_timers[2] /\ r[1] \in Timers
      BY <1>3, <2>1, SeqFacts
    <2>3. rt_next[t] <= rt_next[r[1]]
      BY <1>1, <1>3, <2>1, <2>2 DEF OrderInv, Sorted
    <2>4. rt_next[r[1]] \in Nat
      BY <1>1, <2>2 DEF TypeOK
    <2> QED
      BY <1>9, <2>3, <2>4
  <1>11. OrderInv'
    BY <1>4, <1>8, <1>10 DEF OrderInv, Sorted
  <1>12. next_ts <= now
    BY <1>4, <1>9
  <1> QED
    BY <1>1, <1>4, <1>11, <1>12 DEF SleepInv

LEMMA RunRestartSleep ==
    ASSUME TimerInv, SleepInv, KeepsUp, RunRestart
    PROVE  SleepInv'
  <1>1. TypeOK /\ CalloutInv /\ MemInv
    BY DEF TimerInv
  <1>2. callouts \in Seq(Timers) /\ callouts # <<>> /\ Distinct(callouts) /\ tpc = "restart"
    BY <1>1 DEF RunRestart, TypeOK, CalloutInv
  <1> PICK t \in Timers : t = Head(callouts)
    BY <1>2, TailFacts
  <1>3. t \in Elems(callouts) /\ ~Armed(t) /\ rt_interval[t] \in Intervals \cup {0}
    BY <1>1, <1>2, TailFacts DEF CalloutInv, MemInv, MemOf
  <1>4. next_ts <= now /\ now <= clock
    BY <1>2 DEF SleepInv
  <1>5. UNCHANGED <<clock, now, deadline>>
    BY DEF RunRestart
  <1>6. CASE rt_type[t] = "RECURR"
    <2> DEFINE i == rt_interval[t]
    <2>1. SetList(Started(t, i, FALSE)) /\ rt_next' = [rt_next EXCEPT ![t] = FiringTime(i)]
      BY <1>6 DEF RunRestart
    <2>2. next_ts <= FiringTime(i)
      <3>1. i \in Nat /\ next_ts \in Nat /\ now \in Nat /\ clock \in Nat
        BY <1>1 DEF TypeOK
      <3>2. FiringTime(i) \in Nat /\ FiringTime(i) >= clock
        BY <1>1, <3>1, FiringTimeNat
      <3> QED
        BY <1>4, <3>1, <3>2
    <2>3. tpc' # "wait"
      BY <1>2, <2>1 DEF SetList
    <2>4. PICK k \in Intervals \cup {0} : k = i
      BY <1>3
    <2> HIDE DEF i
    <2> QED
      BY <1>2, <1>3, <1>4, <1>5, <2>1, <2>2, <2>3, <2>4, StartSleep
  <1>7. CASE rt_type[t] # "RECURR"
    <2>1. UNCHANGED <<rd_timers, next_ts, tpc, rt_next>>
      BY <1>7 DEF RunRestart, listVars
    <2> QED
      BY <1>4, <1>5, <2>1 DEF SleepInv, OrderInv, Sorted
  <1> QED
    BY <1>6, <1>7

LEMMA RunWaitSleep ==
    ASSUME TimerInv, SleepInv, RunWait
    PROVE  SleepInv'
  <1>1. TypeOK /\ OrderInv /\ rd_timers \in Seq(Timers)
    BY DEF TimerInv, SleepInv, TypeOK
  <1>2. /\ next_ts' = NextUpdate(rd_timers) /\ deadline' = next_ts' /\ callouts = <<>>
        /\ UNCHANGED <<clock, rd_timers, rt_next, now, callouts>>
    BY DEF RunWait
  <1>3. rd_timers # <<>> => next_ts' <= rt_next[rd_timers[1]]
    <2> SUFFICES ASSUME rd_timers # <<>> PROVE next_ts' <= rt_next[rd_timers[1]]
      OBVIOUS
    <2>1. Head(rd_timers) = rd_timers[1] /\ Head(rd_timers) \in Timers
      BY <1>1, SeqFacts, HeadTailProperties
    <2> QED
      BY <1>1, <1>2, <2>1 DEF NextUpdate, TypeOK
  <1> QED
    BY <1>1, <1>2, <1>3 DEF SleepInv, OrderInv, Sorted

LEMMA SleepInit == Init => SleepInv
  <1>1. Init => OrderInv
    BY EmptyFacts DEF Init, OrderInv
  <1> QED
    BY <1>1 DEF Init, SleepInv

LEMMA SleepNext == TimerInv /\ SleepInv /\ KeepsUp /\ [Next]_vars => SleepInv'
  <1> SUFFICES ASSUME TimerInv, SleepInv, KeepsUp, [Next]_vars PROVE SleepInv'
    OBVIOUS
  <1>1. TypeOK /\ CalloutInv
    BY DEF TimerInv
  <1>2. Unlocked => callouts = <<>>
    BY <1>1 DEF Unlocked, CalloutInv
  <1>3. ASSUME NEW t \in Timers, NEW type \in Types, NEW th \in Threads, TimerNew(t, type, th)
        PROVE  SleepInv'
    BY <1>3 DEF TimerNew, SleepInv, OrderInv, Sorted, listVars, runVars
  <1>4. ASSUME NEW t \in Timers, NEW type \in Types, NEW th \in Threads, NEW i \in Intervals,
               TimerAdd(t, type, i, th) \/ TimerStart(t, i)
        PROVE  SleepInv'
    <2>1. /\ SetList(Started(t, i, TRUE)) /\ rt_next' = [rt_next EXCEPT ![t] = FiringTime(i)]
          /\ Unlocked /\ UNCHANGED <<clock, now, callouts, deadline>>
      BY <1>4 DEF TimerAdd, TimerStart, runVars
    <2>2. callouts = <<>> /\ callouts' = <<>>
      BY <1>2, <2>1
    <2>3. i \in Intervals \cup {0} /\ TRUE \in BOOLEAN
      OBVIOUS
    <2> QED
      BY <2>1, <2>2, <2>3, StartSleep
  <1>5. ASSUME NEW t \in Timers, TimerStop(t) \/ TimerDestroy(t)
        PROVE  SleepInv'
    <2>1. /\ SetList(Stopped(t, rt_called[t])) /\ rt_next' = [rt_next EXCEPT ![t] = 0]
          /\ Unlocked /\ UNCHANGED <<clock, now, callouts, deadline>>
      BY <1>5 DEF TimerStop, TimerDestroy, Destroy0, runVars
    <2>2. rt_called[t] \in Nat
      BY <1>1 DEF TypeOK
    <2> QED
      BY <1>2, <2>1, <2>2, StopSleep
  <1>6. ASSUME NEW th \in Threads, CallBegin(th)
        PROVE  SleepInv'
    BY <1>6 DEF CallBegin, SleepInv, OrderInv, Sorted, listVars, runVars
  <1>7. ASSUME NEW th \in Threads, CallEnd(th)
        PROVE  SleepInv'
    <2>1. PICK t \in Timers : running[th] = t
      BY <1>1, <1>7 DEF CallEnd, TypeOK
    <2>2. Unlocked /\ UNCHANGED <<clock, now, callouts, deadline>>
      BY <1>7 DEF CallEnd, runVars
    <2>3. CASE Destroy0(t, CalledOff(t))
      <3>1. CalledOff(t) \in Nat
        <4>1. rt_called[t] \in Nat /\ rt_called[t] > 0
          BY <2>1, Referenced
        <4> QED
          BY <4>1 DEF CalledOff
      <3> QED
        BY <1>2, <2>2, <2>3, <3>1, StopSleep DEF Destroy0
    <2>4. CASE UNCHANGED <<rd_timers, next_ts, tpc, rt_next>>
      BY <2>2, <2>4 DEF SleepInv, OrderInv, Sorted
    <2> QED
      BY <1>7, <2>1, <2>3, <2>4 DEF CallEnd, listVars
  <1>8. CASE RunTimeout \/ RunSpurious \/ RunPopEnd
    BY <1>8 DEF RunTimeout, RunSpurious, RunPopEnd, SleepInv, OrderInv, Sorted, listVars, runVars
  <1>9. CASE RunBegin
    <2>1. callouts = <<>> /\ clock \in Nat
      BY <1>1, <1>9 DEF RunBegin, CalloutInv, TypeOK
    <2> QED
      BY <1>9, <2>1 DEF RunBegin, SleepInv, OrderInv, Sorted, listVars
  <1>10. CASE Tick
    <2>1. clock \in Nat /\ now \in Nat /\ clock' = clock + 1
          /\ UNCHANGED <<rd_timers, next_ts, rt_next, tpc, now, callouts, deadline>>
      BY <1>1, <1>10 DEF Tick, TypeOK, listVars, runVars
    <2> QED
      BY <2>1 DEF SleepInv, OrderInv, Sorted
  <1>11. CASE UNCHANGED vars
    BY <1>11 DEF vars, SleepInv, OrderInv, Sorted, listVars, runVars
  <1>12. CASE \E t \in Timers, type \in Types, th \in Threads :
                \/ TimerNew(t, type, th)
                \/ \E i \in Intervals : TimerAdd(t, type, i, th)
    BY <1>3, <1>4, <1>12
  <1>13. CASE \E t \in Timers : \E i \in Intervals : TimerStart(t, i)
    <2>1. PICK th \in Threads : TRUE
      BY ConstAssumption
    <2>2. "ONCE" \in Types
      BY DEF Types
    <2> QED
      BY <1>4, <1>13, <2>1, <2>2
  <1> QED
    BY <1>5, <1>6, <1>7, <1>8, <1>9, <1>10, <1>11, <1>12, <1>13, RunPopSleep,
       RunRestartSleep, RunWaitSleep DEF Next, TimerThread

\* As long as the timer thread keeps up, rd_timers holds exactly the armed
\* timers, each once, earliest first, through every order of starts, stops,
\* expiries and rearms.
THEOREM ListStaysSorted == Spec /\ []KeepsUp => []ListSorted
  <1>1. TimerInv /\ SleepInv => ListSorted
    BY DEF TimerInv, ListInv, SleepInv, OrderInv, Distinct, Sorted, Elems, ListSorted, OnList
  <1>2. TimerInv /\ SleepInv /\ KeepsUp /\ [Next]_vars => (TimerInv /\ SleepInv)'
    BY InvNext, SleepNext
  <1> QED
    BY <1>1, <1>2, InvInit, SleepInit, PTL DEF Spec

\* As long as it keeps up, the timer thread never sleeps past an armed timer.
THEOREM NeverOversleeps == Spec /\ []KeepsUp => []NoOversleep
  <1>1. ASSUME TimerInv, SleepInv PROVE NoOversleep
    <2>1. TypeOK /\ ListInv /\ OrderInv
      BY <1>1 DEF TimerInv, SleepInv
    <2>2. /\ rd_timers \in Seq(Timers) /\ Len(rd_timers) \in Nat
          /\ DOMAIN rd_timers = 1..Len(rd_timers) /\ rt_next \in [Timers -> Nat]
          /\ \A i \in 1..Len(rd_timers) : rd_timers[i] \in Timers
          /\ rd_timers # <<>> => Head(rd_timers) = rd_timers[1] /\ Len(rd_timers) # 0
          /\ next_ts \in Nat
      BY <2>1, SeqFacts DEF TypeOK
    <2>3. rd_timers # <<>> => next_ts <= rt_next[Head(rd_timers)]
      BY <2>1, <2>2 DEF OrderInv
    <2>4. ASSUME NEW t \in Timers, Armed(t), tpc = "wait" PROVE deadline <= rt_next[t]
      <3>1. PICK i \in 1..Len(rd_timers) : rd_timers[i] = t
        BY <2>1, <2>2, <2>4 DEF ListInv, Elems
      <3>2. rd_timers # <<>> /\ 1 \in 1..Len(rd_timers) /\ (i = 1 \/ 1 < i)
        BY <2>2, <3>1, EmptySeq
      <3>3. rt_next[rd_timers[1]] <= rt_next[t]
        BY <2>1, <2>2, <3>1, <3>2 DEF OrderInv, Sorted
      <3>4. deadline = next_ts /\ next_ts <= rt_next[rd_timers[1]]
        BY <1>1, <2>1, <2>4, <3>2 DEF SleepInv, OrderInv
      <3> QED
        BY <2>2, <3>2, <3>3, <3>4
    <2> QED
      BY <2>3, <2>4 DEF NoOversleep
  <1>2. TimerInv /\ SleepInv /\ KeepsUp /\ [Next]_vars => (TimerInv /\ SleepInv)'
    BY InvNext, SleepNext
  <1>3. TimerInv /\ SleepInv => NoOversleep
    BY <1>1
  <1> QED
    BY <1>2, <1>3, InvInit, SleepInit, PTL DEF Spec

-----------------------------------------------------------------------------
(***************************************************************************)
(* The hypothesis KeepsUp holds, whatever the threads do, until the clock  *)
(* and the intervals together reach 2^31 microseconds.                     *)
(***************************************************************************)
SmallTimes == clock <= MaxClock /\ \A t \in Timers : rt_next[t] < IntHalf

\* Every firing time is zero or was computed by rd_timer_start0().
LEMMA FiringTimesOnly ==
    ASSUME TimerInv, [Next]_vars
    PROVE  \/ UNCHANGED rt_next
           \/ \E t \in Timers : \/ rt_next' = [rt_next EXCEPT ![t] = 0]
                                \/ \E i \in Intervals \cup {0} :
                                      rt_next' = [rt_next EXCEPT ![t] = FiringTime(i)]
  <1> DEFINE Goal == \/ UNCHANGED rt_next
                     \/ \E t \in Timers : \/ rt_next' = [rt_next EXCEPT ![t] = 0]
                                          \/ \E i \in Intervals \cup {0} :
                                               rt_next' = [rt_next EXCEPT ![t] = FiringTime(i)]
  <1>1. TypeOK /\ MemInv /\ CalloutInv
    BY DEF TimerInv
  <1>2. ASSUME NEW t \in Timers, NEW type \in Types, NEW th \in Threads,
               TimerNew(t, type, th) \/ \E i \in Intervals : TimerAdd(t, type, i, th)
        PROVE  Goal
    BY <1>2 DEF TimerNew, TimerAdd
  <1>3. ASSUME NEW t \in Timers,
               (\E i \in Intervals : TimerStart(t, i)) \/ TimerStop(t) \/ TimerDestroy(t)
        PROVE  Goal
    BY <1>3 DEF TimerStart, TimerStop, TimerDestroy, Destroy0
  <1>4. CASE RunPop
    <2>1. Head(rd_timers) \in Timers
      BY <1>1, <1>4, HeadTailProperties DEF RunPop, HeadDue, TypeOK
    <2> QED
      BY <1>4, <2>1 DEF RunPop
  <1>5. CASE RunRestart
    <2>1. Head(callouts) \in Timers
      BY <1>1, <1>5, HeadTailProperties DEF RunRestart, TypeOK
    <2>2. rt_interval[Head(callouts)] \in Intervals \cup {0}
      BY <1>1, <2>1 DEF MemInv, MemOf
    <2> QED
      BY <1>5, <2>1, <2>2 DEF RunRestart
  <1>6. ASSUME NEW th \in Threads, CallEnd(th) PROVE Goal
    <2>1. running[th] \in Timers
      BY <1>1, <1>6 DEF CallEnd, TypeOK
    <2> QED
      BY <1>6, <2>1 DEF CallEnd, Destroy0
  <1>7. CASE \/ RunTimeout \/ RunSpurious \/ RunBegin \/ RunPopEnd \/ RunWait \/ Tick
             \/ (\E th \in Threads : CallBegin(th)) \/ UNCHANGED vars
    BY <1>7 DEF RunTimeout, RunSpurious, RunBegin, RunPopEnd, RunWait, Tick, CallBegin, vars
  <1> QED
    BY <1>2, <1>3, <1>4, <1>5, <1>6, <1>7 DEF Next, TimerThread

\* While the clock and the longest interval stay below 2^31 microseconds
\* (about 35 minutes), the two theorems above need no further hypothesis: no
\* delay of the timer thread and no order of calls breaks the list.
THEOREM KeepsUpAtFirst ==
    ASSUME MaxClock # 0, \A i \in Intervals \cup {0} : MaxClock + i < IntHalf
    PROVE  Spec => []KeepsUp
  <1>1. Init => SmallTimes
    BY ConstAssumption DEF Init, SmallTimes
  <1>2. ASSUME TimerInv, clock <= MaxClock, NEW i \in Intervals \cup {0}
        PROVE  FiringTime(i) \in Nat /\ FiringTime(i) < IntHalf
    <2>1. i \in Nat /\ MaxClock \in Nat /\ IntHalf \in Nat \ {0} /\ clock \in Nat
          /\ MaxClock + i < IntHalf
      BY <1>2, ConstAssumption DEF TimerInv, TypeOK
    <2>2. i < 2 * IntHalf /\ 2 * IntHalf \in Nat \ {0}
      BY <2>1
    <2>3. i % (2 * IntHalf) = i
      BY <2>1, <2>2
    <2> QED
      BY <1>2, <2>1, <2>3 DEF FiringTime, Unsigned
  <1>3. TimerInv /\ SmallTimes /\ [Next]_vars => SmallTimes'
    <2> SUFFICES ASSUME TimerInv, SmallTimes, [Next]_vars PROVE SmallTimes'
      OBVIOUS
    <2>1. rt_next \in [Timers -> Nat] /\ clock \in Nat /\ IntHalf \in Nat \ {0} /\ MaxClock \in Nat
      BY ConstAssumption DEF TimerInv, TypeOK
    <2>2. clock' <= MaxClock
      <3>1. clock' = clock \/ Tick
        BY DEF Next, TimerNew, TimerAdd, TimerStart, TimerStop, TimerDestroy, TimerThread,
           RunTimeout, RunSpurious, RunBegin, RunPop, RunPopEnd, RunRestart, RunWait,
           CallBegin, CallEnd, vars
      <3>2. Tick => clock < MaxClock /\ clock' = clock + 1
        BY DEF Tick
      <3> QED
        BY <2>1, <3>1, <3>2 DEF SmallTimes
    <2>3. ASSUME NEW u \in Timers PROVE rt_next'[u] < IntHalf
      <3>1. \A i \in Intervals \cup {0} : FiringTime(i) < IntHalf
        BY <1>2 DEF SmallTimes
      <3>2. rt_next[u] < IntHalf /\ 0 < IntHalf
        BY <2>1 DEF SmallTimes
      <3> QED
        BY <2>1, <3>1, <3>2, FiringTimesOnly
    <2> QED
      BY <2>2, <2>3 DEF SmallTimes
  <1>4. TimerInv /\ SmallTimes => KeepsUp
    <2> SUFFICES ASSUME TimerInv, SmallTimes, NEW i \in Intervals \cup {0},
                        NEW u \in Timers
                 PROVE  FiringTime(i) - rt_next[u] \in -IntHalf..(IntHalf - 1)
      BY DEF KeepsUp, Comparable
    <2>1. rt_next[u] \in Nat /\ rt_next[u] < IntHalf /\ IntHalf \in Nat
      BY ConstAssumption DEF TimerInv, TypeOK, SmallTimes
    <2>2. FiringTime(i) \in Nat /\ FiringTime(i) < IntHalf
      BY <1>2 DEF SmallTimes
    <2> QED
      BY <2>1, <2>2
  <1> QED
    BY <1>1, <1>3, <1>4, InvInit, InvNext, PTL DEF Spec
=============================================================================
