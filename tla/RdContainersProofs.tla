------------------------- MODULE RdContainersProofs -------------------------
(***************************************************************************)
(* Proofs about the containers that are chains of pointers: the linked     *)
(* lists and the LRU list built on one of them.                            *)
(*                                                                         *)
(* They rest on one description of a list in memory, Chain: the cell in    *)
(* front of each place points forward to the element there and, where a    *)
(* family of macros has such pointers, the element points back to the      *)
(* cell.  Every insertion is one at some place, every removal one from     *)
(* some place, and each touches the cells around that place only.          *)
(***************************************************************************)
EXTENDS RdLru, SequenceTheorems, FiniteSetTheorems, NaturalsInduction,
        WellFoundedInduction, TLAPS

-----------------------------------------------------------------------------
(* Numbers and sequences.                                                  *)

LEMMA LeastExists ==
    ASSUME NEW T \in SUBSET Nat, T # {}
    PROVE  \E x \in T : \A y \in T : x <= y
<1>1. PICK x \in T : \A y \in T : ~(<<y, x>> \in OpToRel(<, Nat))
  BY WFMin, NatLessThanWellFounded
<1>2. \A y \in T : ~(y < x)
  BY <1>1 DEF OpToRel
<1> QED  BY <1>2

LEMMA MinIsLeast ==
    ASSUME NEW T \in SUBSET Nat, T # {}
    PROVE  Min(T) \in T /\ \A y \in T : Min(T) <= y
<1>1. PICK x \in T : \A y \in T : x <= y
  BY LeastExists
<1> QED  BY <1>1 DEF Min

\* A sequence is a function on 1..Len with values in its set.
LEMMA SeqFacts ==
    ASSUME NEW S, NEW s \in Seq(S)
    PROVE  /\ Len(s) \in Nat /\ DOMAIN s = 1..Len(s)
           /\ \A i \in 1..Len(s) : s[i] \in S
           /\ s = <<>> <=> Len(s) = 0
BY LenProperties, EmptySeq, ElementOfSeq

LEMMA SeqBy ==
    ASSUME NEW S, NEW n \in Nat, NEW f, DOMAIN f = 1..n, f = [i \in 1..n |-> f[i]],
           \A i \in 1..n : f[i] \in S
    PROVE  f \in Seq(S) /\ Len(f) = n
<1>1. f \in [1..n -> S]
  OBVIOUS
<1>2. f \in Seq(S)
  BY <1>1, SeqDef
<1>3. DOMAIN f = 1..Len(f) /\ Len(f) \in Nat
  BY <1>2, LenProperties
<1> QED  BY <1>2, <1>3

\* Two sequences are equal when their lengths and their elements are.
LEMMA SeqSame ==
    ASSUME NEW S, NEW s \in Seq(S), NEW t \in Seq(S), Len(s) = Len(t),
           \A i \in 1..Len(s) : s[i] = t[i]
    PROVE  s = t
BY SeqEqual

\* list with e at place k + 1, behind the first k.
Ins(list, k, e) ==
    [i \in 1..Len(list) + 1 |->
        IF i <= k THEN list[i] ELSE IF i = k + 1 THEN e ELSE list[i - 1]]

\* list without its k-th element.
Del(list, k) ==
    [i \in 1..Len(list) - 1 |-> IF i < k THEN list[i] ELSE list[i + 1]]

LEMMA InsFacts ==
    ASSUME NEW S, NEW list \in Seq(S), NEW e \in S, NEW k \in 0..Len(list)
    PROVE  /\ Ins(list, k, e) \in Seq(S)
           /\ Len(Ins(list, k, e)) = Len(list) + 1
           /\ \A i \in 1..Len(list) + 1 : Ins(list, k, e)[i] =
                IF i <= k THEN list[i] ELSE IF i = k + 1 THEN e ELSE list[i - 1]
<1>1. Len(list) \in Nat /\ \A i \in 1..Len(list) : list[i] \in S
  BY SeqFacts
<1>2. PICK n \in Nat : n = Len(list) + 1
  BY <1>1
<1>3. PICK f : f = Ins(list, k, e)
  OBVIOUS
<1>4. /\ DOMAIN f = 1..n /\ f = [i \in 1..n |-> f[i]]
      /\ \A i \in 1..n : f[i] = IF i <= k THEN list[i] ELSE IF i = k + 1 THEN e ELSE list[i - 1]
  BY <1>2, <1>3 DEF Ins
<1>5. \A i \in 1..n : f[i] \in S
  BY <1>1, <1>2, <1>4
<1>6. f \in Seq(S) /\ Len(f) = n
  BY <1>4, <1>5, SeqBy
<1> QED  BY <1>2, <1>3, <1>4, <1>6

LEMMA DelFacts ==
    ASSUME NEW S, NEW list \in Seq(S), NEW k \in 1..Len(list)
    PROVE  /\ Del(list, k) \in Seq(S)
           /\ Len(Del(list, k)) = Len(list) - 1
           /\ \A i \in 1..Len(list) - 1 : Del(list, k)[i] =
                IF i < k THEN list[i] ELSE list[i + 1]
<1>0. PICK len \in Nat : len = Len(list)
  BY SeqFacts
<1>1. k \in Int /\ 1 <= k /\ k <= len /\ \A i \in 1..len : list[i] \in S
  BY <1>0, SeqFacts
<1>2. PICK n \in Nat : n = len - 1
  <2>1. len - 1 \in Nat
    BY <1>1
  <2> QED  BY <2>1
<1>3. PICK f : f = Del(list, k)
  OBVIOUS
<1>4. /\ DOMAIN f = 1..n /\ f = [i \in 1..n |-> f[i]]
      /\ \A i \in 1..n : f[i] = IF i < k THEN list[i] ELSE list[i + 1]
  BY <1>0, <1>2, <1>3 DEF Del
<1>5. \A i \in 1..n : f[i] \in S
  BY <1>0, <1>1, <1>2, <1>4
<1>6. f \in Seq(S) /\ Len(f) = n
  BY <1>4, <1>5, SeqBy
<1> QED  BY <1>0, <1>2, <1>3, <1>4, <1>6

\* A part of a sequence that begins where another may end.
LEMMA PartFacts ==
    ASSUME NEW S, NEW list \in Seq(S), NEW a \in 1..Len(list) + 1,
           NEW b \in 0..Len(list), a <= b + 1
    PROVE  /\ SubSeq(list, a, b) \in Seq(S)
           /\ Len(SubSeq(list, a, b)) = b - a + 1
           /\ \A i \in 1..(b - a + 1) : SubSeq(list, a, b)[i] = list[a + i - 1]
<1>1. Len(list) \in Nat
  BY SeqFacts
<1>2. CASE a <= b
  BY <1>1, <1>2, SubSeqProperties
<1>3. CASE a = b + 1
  <2>1. SubSeq(list, a, b) = << >>
    BY <1>1, <1>3, SubSeqProperties
  <2> QED  BY <1>1, <1>3, <2>1, EmptySeq
<1> QED  BY <1>1, <1>2, <1>3

LEMMA ConcatFacts ==
    ASSUME NEW S, NEW s \in Seq(S), NEW t \in Seq(S)
    PROVE  /\ s \o t \in Seq(S)
           /\ Len(s \o t) = Len(s) + Len(t)
           /\ \A i \in 1..Len(s) : (s \o t)[i] = s[i]
           /\ \A i \in 1..Len(t) : (s \o t)[Len(s) + i] = t[i]
<1>0. PICK a, b, r : a = Len(s) /\ b = Len(t) /\ r = s \o t
  OBVIOUS
<1>1. a \in Nat /\ b \in Nat
  BY <1>0, SeqFacts
<1>2. /\ r \in Seq(S)
      /\ Len(r) = a + b
      /\ \A i \in 1..a + b : r[i] = IF i <= a THEN s[i] ELSE t[i - a]
  BY <1>0, ConcatProperties
<1>3. ASSUME NEW i \in 1..b PROVE r[a + i] = t[i]
  <2>1. PICK j \in 1..a + b : j = a + i
    BY <1>1
  <2>2. ~(j <= a) /\ j - a = i
    BY <1>1, <2>1
  <2> QED  BY <1>2, <2>1, <2>2
<1> QED  BY <1>0, <1>1, <1>2, <1>3

LEMMA InsertAtIs ==
    ASSUME NEW S, NEW list \in Seq(S), NEW e \in S, NEW k \in 0..Len(list)
    PROVE  InsertAt(list, k + 1, e) = Ins(list, k, e)
<1>1. PICK n \in Nat : n = Len(list)
  BY SeqFacts
<1>2. PICK a \in Int, b \in Int, d \in Nat : a = 1 /\ b = k + 1 /\ d = n - k
  <2>1. 1 \in Int /\ k + 1 \in Int /\ n - k \in Nat
    BY <1>1
  <2> QED  BY <2>1
<1>0. k \in Nat /\ n = k + d
  BY <1>1, <1>2
<1>3. PICK p : p = SubSeq(list, a, k)
  OBVIOUS
<1>4. PICK q : q = SubSeq(list, b, n)
  OBVIOUS
<1>5. p \in Seq(S) /\ Len(p) = k /\ \A i \in 1..k : p[i] = list[i]
  <2>1. a \in 1..Len(list) + 1 /\ k \in 0..Len(list) /\ a <= k + 1
    BY <1>1, <1>2
  <2>2. /\ p \in Seq(S) /\ Len(p) = k - a + 1
        /\ \A i \in 1..(k - a + 1) : p[i] = list[a + i - 1]
    BY <1>3, <2>1, PartFacts
  <2> QED  BY <1>2, <2>2
<1>6. q \in Seq(S) /\ Len(q) = d /\ \A i \in 1..d : q[i] = list[i + k]
  <2>1. b \in 1..Len(list) + 1 /\ n \in 0..Len(list) /\ b <= n + 1
    BY <1>1, <1>2
  <2>2. /\ q \in Seq(S) /\ Len(q) = n - b + 1
        /\ \A i \in 1..(n - b + 1) : q[i] = list[b + i - 1]
    BY <1>4, <2>1, PartFacts
  <2>3. n - b + 1 = d /\ \A i \in 1..d : b + i - 1 = i + k
    BY <1>1, <1>2
  <2> QED  BY <2>2, <2>3
<1>7. PICK m : m = <<e>>
  OBVIOUS
<1>8. m \in Seq(S) /\ Len(m) = 1 /\ m[1] = e
  BY <1>7
<1>9. PICK l : l = p \o m
  OBVIOUS
<1>10. /\ l \in Seq(S) /\ Len(l) = b
       /\ \A i \in 1..k : l[i] = list[i]
       /\ l[b] = e
  <2>1. /\ l \in Seq(S) /\ Len(l) = k + 1 /\ \A i \in 1..k : l[i] = p[i]
        /\ \A i \in 1..1 : l[k + i] = m[i]
    <3>1. /\ p \o m \in Seq(S) /\ Len(p \o m) = Len(p) + Len(m)
          /\ \A i \in 1..Len(p) : (p \o m)[i] = p[i]
          /\ \A i \in 1..Len(m) : (p \o m)[Len(p) + i] = m[i]
      <4>1. p \in Seq(S) /\ m \in Seq(S)
        BY <1>5, <1>8
      <4> QED  BY <4>1, ConcatFacts
    <3> QED  BY <1>5, <1>8, <1>9, <3>1
  <2>2. 1 \in 1..1
    OBVIOUS
  <2>3. l[k + 1] = m[1]
    BY <2>1, <2>2
  <2> QED  BY <1>2, <1>5, <1>8, <2>1, <2>3
<1>11. PICK r : r = l \o q
  OBVIOUS
<1>12. /\ r \in Seq(S) /\ Len(r) = b + d
       /\ \A i \in 1..b : r[i] = l[i]
       /\ \A i \in 1..d : r[b + i] = q[i]
  <2>1. /\ l \o q \in Seq(S) /\ Len(l \o q) = Len(l) + Len(q)
        /\ \A i \in 1..Len(l) : (l \o q)[i] = l[i]
        /\ \A i \in 1..Len(q) : (l \o q)[Len(l) + i] = q[i]
    <3>1. l \in Seq(S) /\ q \in Seq(S)
      BY <1>6, <1>10
    <3> QED  BY <3>1, ConcatFacts
  <2> QED  BY <1>6, <1>10, <1>11, <2>1
<1>13. PICK t : t = Ins(list, k, e)
  OBVIOUS
<1>14. t \in Seq(S) /\ Len(t) = n + 1 /\ \A i \in 1..n + 1 : t[i] =
            IF i <= k THEN list[i] ELSE IF i = k + 1 THEN e ELSE list[i - 1]
  <2>1. /\ Ins(list, k, e) \in Seq(S) /\ Len(Ins(list, k, e)) = Len(list) + 1
        /\ \A i \in 1..Len(list) + 1 : Ins(list, k, e)[i] =
            IF i <= k THEN list[i] ELSE IF i = k + 1 THEN e ELSE list[i - 1]
    BY InsFacts
  <2> QED  BY <1>1, <1>13, <2>1
<1>15. ASSUME NEW i \in 1..n + 1 PROVE r[i] = t[i]
  <2>1. CASE i <= k
    BY <1>0, <1>2, <1>10, <1>12, <1>14, <2>1
  <2>2. CASE i = b
    BY <1>0, <1>2, <1>10, <1>12, <1>14, <2>2
  <2>3. CASE i > b
    <3>1. PICK j \in 1..d : i = b + j
      <4>1. i - b \in 1..d /\ i = b + (i - b)
        BY <1>0, <1>2, <2>3
      <4> QED  BY <4>1
    <3>2. r[i] = list[j + k]
      BY <1>6, <1>12, <3>1
    <3>3. j + k = i - 1
      BY <1>0, <1>2, <3>1
    <3> QED  BY <1>0, <1>2, <1>14, <2>3, <3>2, <3>3
  <2> QED  BY <1>0, <1>2, <2>1, <2>2, <2>3
<1>16. r = t
  <2>1. Len(r) = n + 1
    BY <1>0, <1>2, <1>12
  <2> QED  BY <1>12, <1>14, <1>15, <2>1, SeqSame
<1>17. InsertAt(list, k + 1, e) = r
  <2>1. (k + 1) - 1 = k
    BY <1>0
  <2> QED  BY <1>1, <1>2, <1>3, <1>4, <1>7, <1>9, <1>11, <2>1 DEF InsertAt
<1> QED  BY <1>13, <1>16, <1>17

LEMMA RemoveAtIs ==
    ASSUME NEW S, NEW list \in Seq(S), NEW k \in 1..Len(list)
    PROVE  RemoveAt(list, k) = Del(list, k)
<1>1. PICK n \in Nat : n = Len(list)
  BY SeqFacts
<1>2. PICK a \in Int, b \in Int, c \in Nat, d \in Nat :
            a = 1 /\ b = k + 1 /\ c = k - 1 /\ d = n - k
  <2>1. 1 \in Int /\ k + 1 \in Int /\ k - 1 \in Nat /\ n - k \in Nat
    BY <1>1
  <2> QED  BY <2>1
<1>0. k \in Nat /\ n - 1 = c + d /\ k \in 1..n
  BY <1>1, <1>2
<1>3. PICK p : p = SubSeq(list, a, c)
  OBVIOUS
<1>4. PICK q : q = SubSeq(list, b, n)
  OBVIOUS
<1>5. p \in Seq(S) /\ Len(p) = c /\ \A i \in 1..c : p[i] = list[i]
  <2>1. a \in 1..Len(list) + 1 /\ c \in 0..Len(list) /\ a <= c + 1
    BY <1>1, <1>2
  <2>2. /\ p \in Seq(S) /\ Len(p) = c - a + 1
        /\ \A i \in 1..(c - a + 1) : p[i] = list[a + i - 1]
    BY <1>3, <2>1, PartFacts
  <2> QED  BY <1>2, <2>2
<1>6. q \in Seq(S) /\ Len(q) = d /\ \A i \in 1..d : q[i] = list[i + k]
  <2>1. b \in 1..Len(list) + 1 /\ n \in 0..Len(list) /\ b <= n + 1
    BY <1>1, <1>2
  <2>2. /\ q \in Seq(S) /\ Len(q) = n - b + 1
        /\ \A i \in 1..(n - b + 1) : q[i] = list[b + i - 1]
    BY <1>4, <2>1, PartFacts
  <2>3. n - b + 1 = d /\ \A i \in 1..d : b + i - 1 = i + k
    BY <1>1, <1>2
  <2> QED  BY <2>2, <2>3
<1>7. PICK r : r = p \o q
  OBVIOUS
<1>8. /\ r \in Seq(S) /\ Len(r) = c + d
      /\ \A i \in 1..c : r[i] = p[i]
      /\ \A i \in 1..d : r[c + i] = q[i]
  <2>1. /\ p \o q \in Seq(S) /\ Len(p \o q) = Len(p) + Len(q)
        /\ \A i \in 1..Len(p) : (p \o q)[i] = p[i]
        /\ \A i \in 1..Len(q) : (p \o q)[Len(p) + i] = q[i]
    <3>1. p \in Seq(S) /\ q \in Seq(S)
      BY <1>5, <1>6
    <3> QED  BY <3>1, ConcatFacts
  <2> QED  BY <1>5, <1>6, <1>7, <2>1
<1>9. PICK t : t = Del(list, k)
  OBVIOUS
<1>10. t \in Seq(S) /\ Len(t) = n - 1 /\ \A i \in 1..n - 1 : t[i] =
            IF i < k THEN list[i] ELSE list[i + 1]
  <2>1. /\ Del(list, k) \in Seq(S) /\ Len(Del(list, k)) = Len(list) - 1
        /\ \A i \in 1..Len(list) - 1 : Del(list, k)[i] =
            IF i < k THEN list[i] ELSE list[i + 1]
    BY <1>0, <1>1, <1>9, DelFacts
  <2> QED  BY <1>0, <1>1, <1>9, <2>1
<1>11. ASSUME NEW i \in 1..n - 1 PROVE r[i] = t[i]
  <2>1. CASE i < k
    BY <1>0, <1>2, <1>5, <1>8, <1>10, <2>1
  <2>2. CASE ~(i < k)
    <3>1. PICK j \in 1..d : i = c + j
      <4>1. i - c \in 1..d /\ i = c + (i - c)
        BY <1>0, <1>2, <2>2
      <4> QED  BY <4>1
    <3>2. r[i] = list[j + k]
      BY <1>6, <1>8, <3>1
    <3>3. j + k = i + 1
      BY <1>0, <1>2, <3>1
    <3> QED  BY <1>10, <2>2, <3>2, <3>3
  <2> QED  BY <2>1, <2>2
<1>12. r = t
  <2>1. Len(r) = n - 1
    BY <1>0, <1>8
  <2> QED  BY <1>8, <1>10, <1>11, <2>1, SeqSame
<1> QED  BY <1>1, <1>2, <1>3, <1>4, <1>7, <1>9, <1>12 DEF RemoveAt

LEMMA PrependIs ==
    ASSUME NEW S, NEW list \in Seq(S), NEW e \in S
    PROVE  <<e>> \o list = Ins(list, 0, e)
<1>1. PICK n \in Nat : n = Len(list)
  BY SeqFacts
<1>2. PICK m : m = <<e>>
  OBVIOUS
<1>3. m \in Seq(S) /\ Len(m) = 1 /\ m[1] = e
  BY <1>2
<1>4. PICK r : r = m \o list
  OBVIOUS
<1>5. /\ r \in Seq(S) /\ Len(r) = 1 + n
      /\ \A i \in 1..1 : r[i] = m[i]
      /\ \A i \in 1..n : r[1 + i] = list[i]
  <2>1. /\ m \o list \in Seq(S) /\ Len(m \o list) = Len(m) + Len(list)
        /\ \A i \in 1..Len(m) : (m \o list)[i] = m[i]
        /\ \A i \in 1..Len(list) : (m \o list)[Len(m) + i] = list[i]
    BY <1>3, ConcatFacts
  <2> QED  BY <1>1, <1>3, <1>4, <2>1
<1>6. PICK z : z = 0
  OBVIOUS
<1>7. PICK t : t = Ins(list, z, e)
  OBVIOUS
<1>8. t \in Seq(S) /\ Len(t) = n + 1 /\ \A i \in 1..n + 1 : t[i] =
            IF i <= z THEN list[i] ELSE IF i = z + 1 THEN e ELSE list[i - 1]
  <2>1. /\ Ins(list, z, e) \in Seq(S) /\ Len(Ins(list, z, e)) = Len(list) + 1
        /\ \A i \in 1..Len(list) + 1 : Ins(list, z, e)[i] =
            IF i <= z THEN list[i] ELSE IF i = z + 1 THEN e ELSE list[i - 1]
    <3>1. z \in 0..Len(list)
      BY <1>1, <1>6
    <3> QED  BY <3>1, InsFacts
  <2> QED  BY <1>1, <1>7, <2>1
<1>9. ASSUME NEW i \in 1..n + 1 PROVE r[i] = t[i]
  <2>1. CASE i = 1
    BY <1>3, <1>5, <1>6, <1>8, <2>1
  <2>2. CASE i # 1
    <3>1. PICK j \in 1..n : i = 1 + j
      <4>1. i - 1 \in 1..n /\ i = 1 + (i - 1)
        BY <1>1, <2>2
      <4> QED  BY <4>1
    <3>2. r[i] = list[j] /\ j = i - 1 /\ ~(i <= z) /\ i # z + 1
      BY <1>5, <1>6, <3>1
    <3> QED  BY <1>8, <3>2
  <2> QED  BY <2>1, <2>2
<1>10. r = t
  BY <1>1, <1>5, <1>8, <1>9, SeqSame
<1> QED  BY <1>2, <1>4, <1>6, <1>7, <1>10

LEMMA AppendIs ==
    ASSUME NEW S, NEW list \in Seq(S), NEW e \in S
    PROVE  Append(list, e) = Ins(list, Len(list), e)
<1>1. PICK n \in Nat : n = Len(list)
  BY SeqFacts
<1>2. PICK r : r = Append(list, e)
  OBVIOUS
<1>3. /\ r \in Seq(S) /\ Len(r) = n + 1
      /\ \A i \in 1..n : r[i] = list[i]
      /\ r[n + 1] = e
  BY <1>1, <1>2, AppendProperties
<1>0. PICK z \in 0..Len(list) : z = n
  BY <1>1
<1>4. PICK t : t = Ins(list, z, e)
  OBVIOUS
<1>5. t \in Seq(S) /\ Len(t) = n + 1 /\ \A i \in 1..n + 1 : t[i] =
            IF i <= z THEN list[i] ELSE IF i = z + 1 THEN e ELSE list[i - 1]
  <2>1. /\ Ins(list, z, e) \in Seq(S) /\ Len(Ins(list, z, e)) = Len(list) + 1
        /\ \A i \in 1..Len(list) + 1 : Ins(list, z, e)[i] =
            IF i <= z THEN list[i] ELSE IF i = z + 1 THEN e ELSE list[i - 1]
    BY InsFacts
  <2> QED  BY <1>1, <1>4, <2>1
<1>6. \A i \in 1..n + 1 : r[i] = t[i]
  BY <1>0, <1>3, <1>5
<1>7. r = t
  BY <1>3, <1>5, <1>6, SeqSame
<1> QED  BY <1>0, <1>1, <1>2, <1>4, <1>7

LEMMA TailIs ==
    ASSUME NEW S, NEW list \in Seq(S), list # <<>>
    PROVE  Tail(list) = Del(list, 1)
<1>1. PICK n \in Nat : n = Len(list) /\ n > 0
  BY SeqFacts
<1>2. PICK r : r = Tail(list)
  OBVIOUS
<1>3. r \in Seq(S) /\ Len(r) = n - 1 /\ \A i \in 1..n - 1 : r[i] = list[i + 1]
  BY <1>1, <1>2, HeadTailProperties
<1>4. PICK t : t = Del(list, 1)
  OBVIOUS
<1>0. 1 \in 1..n
  BY <1>1
<1>5. t \in Seq(S) /\ Len(t) = n - 1 /\ \A i \in 1..n - 1 : t[i] =
            IF i < 1 THEN list[i] ELSE list[i + 1]
  <2>1. /\ Del(list, 1) \in Seq(S) /\ Len(Del(list, 1)) = Len(list) - 1
        /\ \A i \in 1..Len(list) - 1 : Del(list, 1)[i] =
            IF i < 1 THEN list[i] ELSE list[i + 1]
    BY <1>0, <1>1, <1>4, DelFacts
  <2> QED  BY <1>0, <1>1, <1>4, <2>1
<1>6. \A i \in 1..n - 1 : r[i] = t[i]
  BY <1>3, <1>5
<1>7. r = t
  BY <1>3, <1>5, <1>6, SeqSame
<1> QED  BY <1>2, <1>4, <1>7

LEMMA FrontIs ==
    ASSUME NEW S, NEW list \in Seq(S), list # <<>>
    PROVE  Front(list) = Del(list, Len(list))
<1>1. PICK n \in Nat : n = Len(list) /\ n > 0
  BY SeqFacts
<1>2. PICK a \in Int, b \in Int : a = 1 /\ b = n - 1
  BY <1>1
<1>3. PICK r : r = SubSeq(list, a, b)
  OBVIOUS
<1>4. r \in Seq(S) /\ Len(r) = n - 1 /\ \A i \in 1..n - 1 : r[i] = list[i]
  <2>1. a \in 1..Len(list) + 1 /\ b \in 0..Len(list) /\ a <= b + 1
    BY <1>1, <1>2
  <2>2. /\ r \in Seq(S) /\ Len(r) = b - a + 1
        /\ \A i \in 1..(b - a + 1) : r[i] = list[a + i - 1]
    BY <1>3, <2>1, PartFacts
  <2> QED  BY <1>1, <1>2, <2>2
<1>5. PICK t : t = Del(list, n)
  OBVIOUS
<1>0. n \in 1..n
  BY <1>1
<1>6. t \in Seq(S) /\ Len(t) = n - 1 /\ \A i \in 1..n - 1 : t[i] =
            IF i < n THEN list[i] ELSE list[i + 1]
  <2>1. /\ Del(list, n) \in Seq(S) /\ Len(Del(list, n)) = Len(list) - 1
        /\ \A i \in 1..Len(list) - 1 : Del(list, n)[i] =
            IF i < n THEN list[i] ELSE list[i + 1]
    BY <1>0, <1>1, <1>5, DelFacts
  <2> QED  BY <1>0, <1>1, <1>5, <2>1
<1>7. \A i \in 1..n - 1 : r[i] = t[i]
  BY <1>4, <1>6
<1>8. r = t
  BY <1>4, <1>6, <1>7, SeqSame
<1> QED  BY <1>1, <1>2, <1>3, <1>5, <1>8 DEF Front

-----------------------------------------------------------------------------
(* A list in memory.                                                       *)

\* The cell whose fwd field leads to place i + 1 of a list: its head or the
\* element in front.
Node(h, list, i) == IF i = 0 THEN h ELSE list[i]

Distinct(list) == \A i, j \in 1..Len(list) : list[i] = list[j] => i = j
Holds(list, x) == \E i \in 1..Len(list) : list[i] = x

\* The memory m has the list behind head h.  The elements of a SIMPLEQ have no
\* pointers back.
Chain(m, h, list, kind) ==
    /\ \A i \in 0..Len(list) : m.fwd[Node(h, list, i)] =
            IF i < Len(list) THEN list[i + 1] ELSE SqNil
    /\ m.back[h] = Node(h, list, Len(list))
    /\ kind # "SIMPLEQ" =>
        \A i \in 1..Len(list) : m.back[list[i]] = Node(h, list, i - 1)

Mems == [fwd : [Cells -> Cells \cup {SqNil}], back : [Cells -> Cells \cup {SqNil}]]

LEMMA NodeFacts ==
    ASSUME NEW h \in SqHeads, NEW list \in Seq(SqElms), Distinct(list)
    PROVE  /\ \A i \in 0..Len(list) : Node(h, list, i) \in Cells /\ Node(h, list, i) # SqNil
           /\ \A i, j \in 0..Len(list) : Node(h, list, i) = Node(h, list, j) => i = j
           /\ \A i \in 0..Len(list), e \in SqElms :
                ~Holds(list, e) => Node(h, list, i) # e
<1>1. Len(list) \in Nat /\ \A i \in 1..Len(list) : list[i] \in SqElms
  BY SeqFacts
<1>2. \A i \in 0..Len(list) : i = 0 \/ i \in 1..Len(list)
  BY <1>1
<1>3. \A x \in SqElms : x # h /\ x \in Cells /\ x # SqNil
  BY SqAssumption DEF Cells
<1>4. h \in Cells /\ h # SqNil
  BY SqAssumption DEF Cells
<1>5. ASSUME NEW i \in 0..Len(list)
      PROVE  /\ Node(h, list, i) \in Cells /\ Node(h, list, i) # SqNil
             /\ i # 0 => Node(h, list, i) = list[i] /\ list[i] \in SqElms
             /\ i = 0 => Node(h, list, i) = h
  BY <1>1, <1>2, <1>3, <1>4 DEF Node
<1>6. ASSUME NEW i \in 0..Len(list), NEW j \in 0..Len(list),
             Node(h, list, i) = Node(h, list, j)
      PROVE  i = j
  BY <1>2, <1>3, <1>5, <1>6 DEF Distinct
<1>7. ASSUME NEW i \in 0..Len(list), NEW e \in SqElms, ~Holds(list, e)
      PROVE  Node(h, list, i) # e
  BY <1>2, <1>3, <1>5, <1>7 DEF Holds
<1> QED  BY <1>5, <1>6, <1>7

\* A list in memory, behind its head.
ListIn(m, h, list, kind) ==
    /\ m \in Mems /\ h \in SqHeads
    /\ list \in Seq(SqElms) /\ Distinct(list) /\ Chain(m, h, list, kind)

\* What the memory r has where e was put behind the first k elements.
InsertedAt(m, r, h, list, k, e, kind) ==
    /\ r.fwd[e] = m.fwd[Node(h, list, k)] /\ r.fwd[Node(h, list, k)] = e
    /\ \A x \in Cells : x # e /\ x # Node(h, list, k) => r.fwd[x] = m.fwd[x]
    /\ k = Len(list) => r.back[h] = e
    /\ k # Len(list) => r.back[h] = m.back[h]
    /\ kind # "SIMPLEQ" =>
        /\ r.back[e] = Node(h, list, k)
        /\ k # Len(list) => r.back[list[k + 1]] = e
        /\ \A i \in 1..Len(list) : i # k + 1 => r.back[list[i]] = m.back[list[i]]

LEMMA ChainInsert ==
    ASSUME NEW m, NEW r, NEW h, NEW list, NEW kind, ListIn(m, h, list, kind),
           NEW e \in SqElms, ~Holds(list, e), NEW k \in 0..Len(list),
           InsertedAt(m, r, h, list, k, e, kind)
    PROVE  /\ Ins(list, k, e) \in Seq(SqElms) /\ Distinct(Ins(list, k, e))
           /\ Chain(r, h, Ins(list, k, e), kind)
<1> h \in SqHeads /\ list \in Seq(SqElms) /\ Distinct(list) /\ Chain(m, h, list, kind)
  BY DEF ListIn
<1>l. PICK l : l = Node(h, list, k)
  OBVIOUS
<1> /\ r.fwd[e] = m.fwd[l] /\ r.fwd[l] = e
    /\ \A x \in Cells : x # e /\ x # l => r.fwd[x] = m.fwd[x]
    /\ k = Len(list) => r.back[h] = e
    /\ k # Len(list) => r.back[h] = m.back[h]
    /\ kind # "SIMPLEQ" =>
        /\ r.back[e] = l
        /\ k # Len(list) => r.back[list[k + 1]] = e
        /\ \A i \in 1..Len(list) : i # k + 1 => r.back[list[i]] = m.back[list[i]]
  BY <1>l DEF InsertedAt
<1>1. PICK n \in Nat : n = Len(list)
  BY SeqFacts
<1>2. PICK L : L = Ins(list, k, e)
  OBVIOUS
<1>3. /\ L \in Seq(SqElms) /\ Len(L) = n + 1
      /\ \A i \in 1..n + 1 : L[i] =
            IF i <= k THEN list[i] ELSE IF i = k + 1 THEN e ELSE list[i - 1]
  <2>1. /\ Ins(list, k, e) \in Seq(SqElms) /\ Len(Ins(list, k, e)) = Len(list) + 1
        /\ \A i \in 1..Len(list) + 1 : Ins(list, k, e)[i] =
            IF i <= k THEN list[i] ELSE IF i = k + 1 THEN e ELSE list[i - 1]
    BY InsFacts
  <2> QED  BY <1>1, <1>2, <2>1
<1>4. \A i \in 1..n : list[i] \in SqElms /\ list[i] # e
  BY <1>1, SeqFacts DEF Holds
<1>5. Distinct(L)
  <2>1. SUFFICES ASSUME NEW i \in 1..n + 1, NEW j \in 1..n + 1, L[i] = L[j]
                 PROVE  i = j
    BY <1>3 DEF Distinct
  <2>2. \A a, b \in 1..n : list[a] = list[b] => a = b
    BY <1>1 DEF Distinct
  <2>3. CASE i = k + 1
    BY <1>1, <1>3, <1>4, <2>1, <2>3
  <2>4. CASE j = k + 1
    BY <1>1, <1>3, <1>4, <2>1, <2>4
  <2>5. CASE i # k + 1 /\ j # k + 1
    <3>1. PICK a \in 1..n : L[i] = list[a] /\ a = IF i <= k THEN i ELSE i - 1
      BY <1>1, <1>3, <2>5
    <3>2. PICK b \in 1..n : L[j] = list[b] /\ b = IF j <= k THEN j ELSE j - 1
      BY <1>1, <1>3, <2>5
    <3>3. a = b
      <4>1. list[a] = list[b]
        BY <2>1, <3>1, <3>2
      <4> QED  BY <2>2, <4>1
    <3>4. k \in Int /\ i \in Int /\ j \in Int
      BY <1>1
    <3> QED  BY <2>5, <3>1, <3>2, <3>3, <3>4
  <2> QED  BY <2>3, <2>4, <2>5
<1>6. /\ \A i \in 0..n : Node(h, list, i) \in Cells /\ Node(h, list, i) # e
      /\ \A i, j \in 0..n : Node(h, list, i) = Node(h, list, j) => i = j
  BY <1>1, NodeFacts
<1>7. /\ \A i \in 0..n : i <= k => Node(h, L, i) = Node(h, list, i)
      /\ Node(h, L, k + 1) = e
      /\ \A i \in 0..n : i > k => Node(h, L, i + 1) = Node(h, list, i)
  <2>1. ASSUME NEW i \in 0..n, i <= k PROVE Node(h, L, i) = Node(h, list, i)
    BY <1>1, <1>3, <2>1 DEF Node
  <2>2. k + 1 # 0 /\ k + 1 \in 1..n + 1 /\ ~(k + 1 <= k)
    BY <1>1
  <2>3. Node(h, L, k + 1) = e
    BY <1>3, <2>2 DEF Node
  <2>4. ASSUME NEW i \in 0..n, i > k PROVE Node(h, L, i + 1) = Node(h, list, i)
    <3>1. /\ i + 1 \in 1..n + 1 /\ i + 1 # 0 /\ ~(i + 1 <= k) /\ i + 1 # k + 1 /\ (i + 1) - 1 = i
          /\ i # 0
      BY <1>1, <2>4
    <3>2. L[i + 1] = list[i]
      BY <1>3, <3>1
    <3> QED  BY <3>1, <3>2 DEF Node
  <2> QED  BY <2>1, <2>3, <2>4
<1>8. \A i \in 0..n : m.fwd[Node(h, list, i)] = IF i < n THEN list[i + 1] ELSE SqNil
  BY <1>1 DEF Chain
<1>9. \A i \in 0..n : i # k => r.fwd[Node(h, list, i)] = m.fwd[Node(h, list, i)]
  BY <1>l, <1>1, <1>6
<1>10. ASSUME NEW i \in 0..n + 1
       PROVE  r.fwd[Node(h, L, i)] = IF i < n + 1 THEN L[i + 1] ELSE SqNil
  <2>1. CASE i < k
    <3>1. i \in 0..n /\ i # k /\ i <= k /\ i < n /\ i < n + 1 /\ i + 1 \in 1..n + 1 /\ i + 1 <= k
      BY <1>1, <2>1
    <3>2. r.fwd[Node(h, L, i)] = list[i + 1]
      BY <1>7, <1>8, <1>9, <3>1
    <3> QED  BY <1>3, <3>1, <3>2
  <2>2. CASE i = k
    <3>1. k \in 0..n /\ k < n + 1 /\ k + 1 \in 1..n + 1 /\ ~(k + 1 <= k) /\ k <= k
      BY <1>1
    <3>2. r.fwd[Node(h, L, i)] = e
      BY <1>l, <1>7, <2>2, <3>1
    <3> QED  BY <1>3, <2>2, <3>1, <3>2
  <2>3. CASE i = k + 1
    <3>1. k \in 0..n /\ r.fwd[Node(h, L, i)] = IF k < n THEN list[k + 1] ELSE SqNil
      BY <1>l, <1>1, <1>7, <1>8, <2>3
    <3>2. CASE k < n
      <4>1. i < n + 1 /\ i + 1 \in 1..n + 1 /\ ~(i + 1 <= k) /\ i + 1 # k + 1 /\ (i + 1) - 1 = k + 1
        BY <1>1, <2>3, <3>2
      <4> QED  BY <1>3, <3>1, <3>2, <4>1
    <3>3. CASE ~(k < n)
      BY <1>1, <2>3, <3>1, <3>3
    <3> QED  BY <3>2, <3>3
  <2>4. CASE i > k + 1
    <3>1. PICK j \in 0..n : i = j + 1 /\ j > k /\ j # k
      <4>1. i - 1 \in 0..n /\ i = (i - 1) + 1 /\ i - 1 > k /\ i - 1 # k
        BY <1>1, <2>4
      <4> QED  BY <4>1
    <3>2. r.fwd[Node(h, L, i)] = IF j < n THEN list[j + 1] ELSE SqNil
      BY <1>7, <1>8, <1>9, <3>1
    <3>3. CASE j < n
      <4>1. i < n + 1 /\ i + 1 \in 1..n + 1 /\ ~(i + 1 <= k) /\ i + 1 # k + 1 /\ (i + 1) - 1 = j + 1
        BY <1>1, <3>1, <3>3
      <4> QED  BY <1>3, <3>2, <3>3, <4>1
    <3>4. CASE ~(j < n)
      BY <1>1, <3>1, <3>2, <3>4
    <3> QED  BY <3>3, <3>4
  <2> QED  BY <1>1, <2>1, <2>2, <2>3, <2>4
<1>11. r.back[h] = Node(h, L, n + 1)
  <2>1. CASE k = n
    BY <1>1, <1>7, <2>1
  <2>2. CASE k # n
    <3>1. r.back[h] = Node(h, list, n)
      BY <1>1, <2>2 DEF Chain
    <3>2. n \in 0..n /\ n > k
      BY <1>1, <2>2
    <3> QED  BY <1>7, <3>1, <3>2
  <2> QED  BY <2>1, <2>2
<1>12. ASSUME kind # "SIMPLEQ", NEW i \in 1..n + 1
       PROVE  r.back[L[i]] = Node(h, L, i - 1)
  <2>1. \A j \in 1..n : m.back[list[j]] = Node(h, list, j - 1)
    BY <1>1, <1>12 DEF Chain
  <2>2. CASE i <= k
    <3>1. i \in 1..n /\ i # k + 1 /\ i - 1 \in 0..n /\ i - 1 <= k
      BY <1>1, <2>2
    <3>2. L[i] = list[i] /\ r.back[list[i]] = Node(h, list, i - 1)
      BY <1>1, <1>3, <1>12, <2>1, <2>2, <3>1
    <3> QED  BY <1>7, <3>1, <3>2
  <2>3. CASE i = k + 1
    <3>1. i - 1 = k /\ k \in 0..n /\ k <= k /\ ~(i <= k)
      BY <1>1, <2>3
    <3>2. L[i] = e
      BY <1>3, <2>3, <3>1
    <3> QED  BY <1>l, <1>7, <1>12, <3>1, <3>2
  <2>4. CASE i > k + 1
    <3>1. PICK j \in 1..n : i = j + 1 /\ j > k /\ j = i - 1
      <4>1. i - 1 \in 1..n /\ i = (i - 1) + 1 /\ i - 1 > k
        BY <1>1, <2>4
      <4> QED  BY <4>1
    <3>2. ~(i <= k) /\ i # k + 1
      BY <1>1, <2>4
    <3>3. L[i] = list[j]
      BY <1>3, <3>1, <3>2
    <3>4. CASE j = k + 1
      <4>1. k # Len(list)
        BY <1>1, <3>1, <3>4
      <4>2. r.back[L[i]] = e
        BY <1>12, <3>3, <3>4, <4>1
      <4> QED  BY <1>7, <3>1, <3>4, <4>2
    <3>5. CASE j # k + 1
      <4>1. r.back[L[i]] = Node(h, list, j - 1)
        BY <1>1, <1>12, <2>1, <3>3, <3>5
      <4>2. j - 1 \in 0..n /\ j - 1 > k /\ (j - 1) + 1 = i - 1
        BY <1>1, <3>1, <3>5
      <4>3. Node(h, L, (j - 1) + 1) = Node(h, list, j - 1)
        BY <1>7, <4>2
      <4> QED  BY <4>1, <4>2, <4>3
    <3> QED  BY <3>4, <3>5
  <2> QED  BY <1>1, <2>2, <2>3, <2>4
<1>13. Chain(r, h, L, kind)
  BY <1>3, <1>10, <1>11, <1>12 DEF Chain
<1> QED  BY <1>2, <1>3, <1>5, <1>13

\* What the memory r has where the k-th element was taken out.
RemovedAt(m, r, h, list, k, kind) ==
    /\ r.fwd[Node(h, list, k - 1)] = m.fwd[list[k]]
    /\ \A x \in Cells : x # Node(h, list, k - 1) => r.fwd[x] = m.fwd[x]
    /\ k = Len(list) => r.back[h] = Node(h, list, k - 1)
    /\ k # Len(list) => r.back[h] = m.back[h]
    /\ kind # "SIMPLEQ" =>
        /\ k # Len(list) => r.back[list[k + 1]] = Node(h, list, k - 1)
        /\ \A i \in 1..Len(list) : i # k + 1 => r.back[list[i]] = m.back[list[i]]

LEMMA ChainRemove ==
    ASSUME NEW m, NEW r, NEW h, NEW list, NEW kind, ListIn(m, h, list, kind),
           NEW k \in 1..Len(list), RemovedAt(m, r, h, list, k, kind)
    PROVE  /\ Del(list, k) \in Seq(SqElms) /\ Distinct(Del(list, k))
           /\ Chain(r, h, Del(list, k), kind)
<1> h \in SqHeads /\ list \in Seq(SqElms) /\ Distinct(list) /\ Chain(m, h, list, kind)
  BY DEF ListIn
<1>l. PICK l : l = Node(h, list, k - 1)
  OBVIOUS
<1> /\ r.fwd[l] = m.fwd[list[k]]
    /\ \A x \in Cells : x # l => r.fwd[x] = m.fwd[x]
    /\ k = Len(list) => r.back[h] = l
    /\ k # Len(list) => r.back[h] = m.back[h]
    /\ kind # "SIMPLEQ" =>
        /\ k # Len(list) => r.back[list[k + 1]] = l
        /\ \A i \in 1..Len(list) : i # k + 1 => r.back[list[i]] = m.back[list[i]]
  BY <1>l DEF RemovedAt
<1>1. PICK n \in Nat : n = Len(list)
  BY SeqFacts
<1>2. PICK L : L = Del(list, k)
  OBVIOUS
<1>3. /\ L \in Seq(SqElms) /\ Len(L) = n - 1
      /\ \A i \in 1..n - 1 : L[i] = IF i < k THEN list[i] ELSE list[i + 1]
  <2>1. /\ Del(list, k) \in Seq(SqElms) /\ Len(Del(list, k)) = Len(list) - 1
        /\ \A i \in 1..Len(list) - 1 : Del(list, k)[i] =
            IF i < k THEN list[i] ELSE list[i + 1]
    BY DelFacts
  <2> QED  BY <1>1, <1>2, <2>1
<1>4. k \in 1..n
  BY <1>1
<1>5. Distinct(L)
  <2>1. SUFFICES ASSUME NEW i \in 1..n - 1, NEW j \in 1..n - 1, L[i] = L[j]
                 PROVE  i = j
    BY <1>3 DEF Distinct
  <2>2. \A a, b \in 1..n : list[a] = list[b] => a = b
    BY <1>1 DEF Distinct
  <2>3. PICK a \in 1..n : L[i] = list[a] /\ a = IF i < k THEN i ELSE i + 1
    BY <1>1, <1>3
  <2>4. PICK b \in 1..n : L[j] = list[b] /\ b = IF j < k THEN j ELSE j + 1
    BY <1>1, <1>3
  <2>5. a = b
    <3>1. list[a] = list[b]
      BY <2>1, <2>3, <2>4
    <3> QED  BY <2>2, <3>1
  <2>6. k \in Int /\ i \in Int /\ j \in Int
    BY <1>1
  <2> QED  BY <2>3, <2>4, <2>5, <2>6
<1>6. /\ \A i \in 0..n : Node(h, list, i) \in Cells
      /\ \A i, j \in 0..n : Node(h, list, i) = Node(h, list, j) => i = j
  BY <1>1, NodeFacts
<1>7. /\ \A i \in 0..n : i < k => Node(h, L, i) = Node(h, list, i)
      /\ \A i \in 0..n : i > k => Node(h, L, i - 1) = Node(h, list, i)
  <2>1. ASSUME NEW i \in 0..n, i < k PROVE Node(h, L, i) = Node(h, list, i)
    BY <1>3, <1>4, <2>1 DEF Node
  <2>2. ASSUME NEW i \in 0..n, i > k PROVE Node(h, L, i - 1) = Node(h, list, i)
    <3>1. i - 1 \in 1..n - 1 /\ i - 1 # 0 /\ ~(i - 1 < k) /\ (i - 1) + 1 = i /\ i # 0
      BY <1>4, <2>2
    <3>2. L[i - 1] = list[i]
      BY <1>3, <3>1
    <3> QED  BY <3>1, <3>2 DEF Node
  <2> QED  BY <2>1, <2>2
<1>8. \A i \in 0..n : m.fwd[Node(h, list, i)] = IF i < n THEN list[i + 1] ELSE SqNil
  BY <1>1 DEF Chain
<1>9. \A i \in 0..n : i # k - 1 => r.fwd[Node(h, list, i)] = m.fwd[Node(h, list, i)]
  <2>1. k - 1 \in 0..n
    BY <1>4
  <2> QED  BY <1>l, <1>6, <2>1
<1>10. ASSUME NEW i \in 0..n - 1
       PROVE  r.fwd[Node(h, L, i)] = IF i < n - 1 THEN L[i + 1] ELSE SqNil
  <2>1. CASE i < k - 1
    <3>1. /\ i \in 0..n /\ i # k - 1 /\ i < k /\ i < n /\ i < n - 1 /\ i + 1 \in 1..n - 1
          /\ i + 1 < k
      BY <1>4, <2>1
    <3>2. r.fwd[Node(h, L, i)] = list[i + 1]
      BY <1>7, <1>8, <1>9, <3>1
    <3> QED  BY <1>3, <3>1, <3>2
  <2>2. CASE i = k - 1
    <3>1. i \in 0..n /\ i < k /\ k \in 0..n /\ k # 0
      BY <1>4, <2>2
    <3>2. Node(h, L, i) = l /\ Node(h, list, k) = list[k]
      BY <1>l, <1>7, <2>2, <3>1 DEF Node
    <3>3. r.fwd[Node(h, L, i)] = IF k < n THEN list[k + 1] ELSE SqNil
      BY <1>8, <3>1, <3>2
    <3>4. CASE k < n
      <4>1. i < n - 1 /\ i + 1 \in 1..n - 1 /\ ~(i + 1 < k) /\ (i + 1) + 1 = k + 1
        BY <1>4, <2>2, <3>4
      <4> QED  BY <1>3, <3>3, <3>4, <4>1
    <3>5. CASE ~(k < n)
      BY <1>4, <2>2, <3>3, <3>5
    <3> QED  BY <3>4, <3>5
  <2>3. CASE i > k - 1
    <3>1. PICK j \in 0..n : i = j - 1 /\ j > k /\ j # k - 1
      <4>1. i + 1 \in 0..n /\ i = (i + 1) - 1 /\ i + 1 > k /\ i + 1 # k - 1
        BY <1>4, <2>3
      <4> QED  BY <4>1
    <3>2. r.fwd[Node(h, L, i)] = IF j < n THEN list[j + 1] ELSE SqNil
      BY <1>7, <1>8, <1>9, <3>1
    <3>3. CASE j < n
      <4>1. i < n - 1 /\ i + 1 \in 1..n - 1 /\ ~(i + 1 < k) /\ (i + 1) + 1 = j + 1
        BY <1>4, <3>1, <3>3
      <4> QED  BY <1>3, <3>2, <3>3, <4>1
    <3>4. CASE ~(j < n)
      BY <1>4, <3>1, <3>2, <3>4
    <3> QED  BY <3>3, <3>4
  <2> QED  BY <1>4, <2>1, <2>2, <2>3
<1>11. r.back[h] = Node(h, L, n - 1)
  <2>1. CASE k = n
    <3>1. n - 1 \in 0..n /\ n - 1 < k /\ k = Len(list)
      BY <1>1, <1>4, <2>1
    <3> QED  BY <1>l, <1>7, <2>1, <3>1
  <2>2. CASE k # n
    <3>1. r.back[h] = Node(h, list, n)
      BY <1>1, <2>2 DEF Chain
    <3>2. n \in 0..n /\ n > k
      BY <1>4, <2>2
    <3> QED  BY <1>7, <3>1, <3>2
  <2> QED  BY <2>1, <2>2
<1>12. ASSUME kind # "SIMPLEQ", NEW i \in 1..n - 1
       PROVE  r.back[L[i]] = Node(h, L, i - 1)
  <2>1. \A j \in 1..n : m.back[list[j]] = Node(h, list, j - 1)
    BY <1>1, <1>12 DEF Chain
  <2>2. CASE i < k
    <3>1. i \in 1..n /\ i # k + 1 /\ i - 1 \in 0..n /\ i - 1 < k
      BY <1>4, <2>2
    <3>2. L[i] = list[i] /\ r.back[list[i]] = Node(h, list, i - 1)
      BY <1>1, <1>3, <1>12, <2>1, <2>2, <3>1
    <3> QED  BY <1>7, <3>1, <3>2
  <2>3. CASE i = k
    <3>1. k # Len(list) /\ ~(i < k) /\ i - 1 = k - 1 /\ k - 1 \in 0..n /\ k - 1 < k
      BY <1>1, <1>4, <2>3
    <3>2. r.back[L[i]] = l
      BY <1>3, <1>12, <2>3, <3>1
    <3> QED  BY <1>l, <1>7, <3>1, <3>2
  <2>4. CASE i > k
    <3>1. PICK j \in 1..n : j = i + 1 /\ j # k + 1
      <4>1. i + 1 \in 1..n /\ i + 1 # k + 1
        BY <1>4, <2>4
      <4> QED  BY <4>1
    <3>2. L[i] = list[j]
      BY <1>3, <1>4, <2>4, <3>1
    <3>3. r.back[L[i]] = Node(h, list, j - 1)
      BY <1>1, <1>12, <2>1, <3>1, <3>2
    <3>4. j - 1 \in 0..n /\ j - 1 > k /\ (j - 1) - 1 = i - 1
      BY <1>4, <2>4, <3>1
    <3>5. Node(h, L, (j - 1) - 1) = Node(h, list, j - 1)
      BY <1>7, <3>4
    <3> QED  BY <3>3, <3>4, <3>5
  <2> QED  BY <1>4, <2>2, <2>3, <2>4
<1>13. Chain(r, h, L, kind)
  BY <1>3, <1>10, <1>11, <1>12 DEF Chain
<1> QED  BY <1>2, <1>3, <1>5, <1>13

\* A list none of whose cells is written is still there.
LEMMA ChainFrame ==
    ASSUME NEW m, NEW r, NEW h \in SqHeads, NEW list \in Seq(SqElms), NEW kind,
           Chain(m, h, list, kind),
           r.fwd[h] = m.fwd[h], r.back[h] = m.back[h],
           \A i \in 1..Len(list) : r.fwd[list[i]] = m.fwd[list[i]],
           kind # "SIMPLEQ" => \A i \in 1..Len(list) : r.back[list[i]] = m.back[list[i]]
    PROVE  Chain(r, h, list, kind)
<1>1. Len(list) \in Nat
  BY SeqFacts
<1>2. ASSUME NEW i \in 0..Len(list)
      PROVE  r.fwd[Node(h, list, i)] = m.fwd[Node(h, list, i)]
  <2>1. i = 0 \/ i \in 1..Len(list)
    BY <1>1
  <2> QED  BY <2>1 DEF Node
<1>3. \A i \in 0..Len(list) : r.fwd[Node(h, list, i)] =
            IF i < Len(list) THEN list[i + 1] ELSE SqNil
  BY <1>2 DEF Chain
<1> QED  BY <1>3 DEF Chain

\* A list that goes to another head.
LEMMA ChainMove ==
    ASSUME NEW m, NEW r, NEW h \in SqHeads, NEW new \in SqHeads,
           NEW list \in Seq(SqElms), NEW kind, list # <<>>, Chain(m, h, list, kind),
           r.fwd[new] = m.fwd[h], r.back[new] = m.back[h],
           \A i \in 1..Len(list) : r.fwd[list[i]] = m.fwd[list[i]],
           kind # "SIMPLEQ" => r.back[list[1]] = new,
           kind # "SIMPLEQ" => \A i \in 2..Len(list) : r.back[list[i]] = m.back[list[i]]
    PROVE  Chain(r, new, list, kind)
<1>1. PICK n \in Nat : n = Len(list) /\ n > 0
  BY SeqFacts
<1>2. \A i \in 0..n : m.fwd[Node(h, list, i)] = IF i < n THEN list[i + 1] ELSE SqNil
  BY <1>1 DEF Chain
<1>3. ASSUME NEW i \in 0..n
      PROVE  r.fwd[Node(new, list, i)] = m.fwd[Node(h, list, i)]
  <2>1. i = 0 \/ (i \in 1..n /\ i # 0)
    BY <1>1
  <2> QED  BY <1>1, <2>1 DEF Node
<1>4. r.back[new] = Node(new, list, n)
  BY <1>1 DEF Chain, Node
<1>5. ASSUME kind # "SIMPLEQ", NEW i \in 1..n
      PROVE  r.back[list[i]] = Node(new, list, i - 1)
  <2>1. \A j \in 1..n : m.back[list[j]] = Node(h, list, j - 1)
    BY <1>1, <1>5 DEF Chain
  <2>2. CASE i = 1
    BY <1>5, <2>2 DEF Node
  <2>3. CASE i # 1
    <3>1. i \in 2..n /\ i - 1 # 0
      BY <1>1, <2>3
    <3> QED  BY <1>1, <1>5, <2>1, <3>1 DEF Node
  <2> QED  BY <2>2, <2>3
<1> QED  BY <1>1, <1>2, <1>3, <1>4, <1>5 DEF Chain

\* An empty list.
LEMMA ChainEmpty ==
    ASSUME NEW m, NEW h \in SqHeads, NEW kind, m.fwd[h] = SqNil, m.back[h] = h
    PROVE  Chain(m, h, << >>, kind)
<1>1. Len(<< >>) = 0 /\ 0..0 = {0} /\ 1..0 = {}
  OBVIOUS
<1>2. Node(h, << >>, 0) = h
  BY DEF Node
<1> QED  BY <1>1, <1>2 DEF Chain

-----------------------------------------------------------------------------
(* Walking a list.                                                         *)

LEMMA ListFits ==
    ASSUME NEW list \in Seq(SqElms), Distinct(list)
    PROVE  Cardinality(SqElms) \in Nat /\ Len(list) <= Cardinality(SqElms)
<1>1. PICK n \in Nat : n = Len(list)
  BY SeqFacts
<1>2. IsFiniteSet(SqElms)
  BY SqAssumption
<1>3. list \in [1..n -> SqElms]
  BY <1>1, LenProperties
<1>4. IsInjective(list)
  BY <1>1, <1>3 DEF IsInjective, Distinct
<1>5. list \in Injection(1..n, SqElms)
  BY <1>3, <1>4 DEF Injection
<1>6. Cardinality(1..n) <= Cardinality(SqElms)
  BY <1>2, <1>5, FS_Injection
<1>7. PICK one \in Int : one = 1
  OBVIOUS
<1>8. Cardinality(one..n) = IF one > n THEN 0 ELSE n - one + 1
  BY FS_Interval
<1>9. Cardinality(1..n) = n
  BY <1>7, <1>8
<1>10. Cardinality(SqElms) \in Nat
  BY <1>2, FS_CardinalityType
<1> QED  BY <1>1, <1>6, <1>9, <1>10

\* The elements a walk visits are those of the list, in order.
LEMMA WalkIs ==
    ASSUME NEW m, NEW h \in SqHeads, NEW list \in Seq(SqElms), NEW kind,
           Distinct(list), Chain(m, h, list, kind)
    PROVE  FOREACH(m, h) = list
<1>1. PICK n \in Nat : n = Len(list)
  BY SeqFacts
<1>2. PICK N \in Nat : N = Cardinality(SqElms) + 1 /\ n < N
  BY <1>1, ListFits
<1> DEFINE Step(f) == [i \in 0..N |-> IF i = 0 THEN h ELSE
                            IF f[i - 1] = SqNil THEN SqNil ELSE m.fwd[f[i - 1]]]
           At == [i \in 0..N |-> IF i <= n THEN Node(h, list, i) ELSE SqNil]
<1>3. /\ \A i \in 0..n : Node(h, list, i) # SqNil
      /\ \A i \in 0..n : m.fwd[Node(h, list, i)] = IF i < n THEN list[i + 1] ELSE SqNil
  BY <1>1, NodeFacts DEF Chain
<1>4. \A i \in 0..N : At[i] = IF i <= n THEN Node(h, list, i) ELSE SqNil
  OBVIOUS
<1>5. ASSUME NEW i \in 0..N
      PROVE  At[i] = IF i = 0 THEN h ELSE
                        IF At[i - 1] = SqNil THEN SqNil ELSE m.fwd[At[i - 1]]
  <2> HIDE DEF At
  <2>1. CASE i = 0
    BY <1>1, <1>4, <2>1 DEF Node
  <2>2. CASE i # 0 /\ i <= n
    <3>1. i - 1 \in 0..N /\ i - 1 \in 0..n /\ i - 1 <= n /\ i - 1 < n /\ (i - 1) + 1 = i
      BY <1>1, <2>2
    <3>2. At[i - 1] # SqNil /\ m.fwd[At[i - 1]] = list[i]
      BY <1>3, <1>4, <3>1
    <3>3. At[i] = list[i]
      BY <1>4, <2>2 DEF Node
    <3> QED  BY <2>2, <3>2, <3>3
  <2>3. CASE i # 0 /\ i = n + 1
    <3>1. i - 1 \in 0..N /\ i - 1 \in 0..n /\ i - 1 <= n /\ ~(i - 1 < n)
      BY <1>1, <2>3
    <3>2. At[i - 1] # SqNil /\ m.fwd[At[i - 1]] = SqNil
      BY <1>3, <1>4, <3>1
    <3> QED  BY <1>1, <1>4, <2>3, <3>2
  <2>4. CASE i # 0 /\ i > n + 1
    <3>1. i - 1 \in 0..N /\ ~(i - 1 <= n) /\ ~(i <= n)
      BY <1>1, <2>4
    <3> QED  BY <1>4, <2>4, <3>1
  <2> QED  BY <1>1, <2>1, <2>2, <2>3, <2>4
<1>6. At = Step(At)
  <2> HIDE DEF At
  <2>1. At = [i \in 0..N |-> At[i]]
    BY DEF At
  <2> QED  BY <1>5, <2>1
<1>7. ASSUME NEW f, f = Step(f) PROVE f = At
  <2>1. /\ DOMAIN f = 0..N /\ f = [i \in 0..N |-> f[i]]
        /\ \A i \in 0..N : f[i] = IF i = 0 THEN h ELSE
                            IF f[i - 1] = SqNil THEN SqNil ELSE m.fwd[f[i - 1]]
    BY <1>7
  <2>2. \A i \in 0..N : f[i] = At[i]
    <3>1. SUFFICES ASSUME ~(\A i \in 0..N : f[i] = At[i]) PROVE FALSE
      OBVIOUS
    <3> HIDE DEF At
    <3>2. PICK T \in SUBSET Nat : T = {i \in 0..N : f[i] # At[i]}
      <4>1. {i \in 0..N : f[i] # At[i]} \in SUBSET Nat
        OBVIOUS
      <4> QED  BY <4>1
    <3>3. T # {}
      BY <3>1, <3>2
    <3>4. PICK i \in T : \A j \in T : i <= j
      BY <3>3, LeastExists
    <3>5. i \in 0..N /\ f[i] # At[i]
      BY <3>2
    <3>6. CASE i = 0
      BY <1>5, <2>1, <3>5, <3>6
    <3>7. CASE i # 0
      <4>1. i - 1 \in 0..N /\ ~(i <= i - 1)
        BY <3>5, <3>7
      <4>2. i - 1 \notin T
        BY <3>4, <4>1
      <4>3. f[i - 1] = At[i - 1]
        BY <3>2, <4>1, <4>2
      <4> QED  BY <1>5, <2>1, <3>5, <3>7, <4>3
    <3> QED  BY <3>6, <3>7
  <2>3. At = [i \in 0..N |-> At[i]]
    OBVIOUS
  <2> HIDE DEF At
  <2> QED  BY <2>1, <2>2, <2>3
<1>8. (CHOOSE f : f = Step(f)) = At
  <2> HIDE DEF At, Step
  <2> QED  BY <1>6, <1>7
<1>9. FOREACH(m, h) = [i \in {k \in 1..N : At[k] # SqNil} |-> At[i]]
  <2> HIDE DEF At
  <2> DEFINE C == CHOOSE at : at = [i \in 0..Cardinality(SqElms) + 1 |-> IF i = 0 THEN h ELSE
            IF at[i - 1] = SqNil THEN SqNil ELSE m.fwd[at[i - 1]]]
  <2>1. C = At
    BY <1>2, <1>8
  <2>2. FOREACH(m, h) = [i \in {k \in 1..Cardinality(SqElms) + 1 : C[k] # SqNil} |-> C[i]]
    BY Zenon DEF FOREACH
  <2> HIDE DEF C
  <2> QED  BY <1>2, <2>1, <2>2
<1>10. {k \in 1..N : At[k] # SqNil} = 1..n
  BY <1>1, <1>2, <1>3, <1>4
<1>11. \A i \in 1..n : At[i] = list[i]
  BY <1>1, <1>2, <1>4 DEF Node
<1>12. list = [i \in 1..n |-> list[i]]
  BY <1>1, LenProperties
<1> HIDE DEF At
<1> QED  BY <1>9, <1>10, <1>11, <1>12

-----------------------------------------------------------------------------
(* The macros on a list in memory.                                         *)

\* What is written lies in the cells of a list and of e.
Within(m, r, h, list, e) ==
    \A x \in Cells : x # h /\ x # e /\ ~Holds(list, x) =>
        r.fwd[x] = m.fwd[x] /\ r.back[x] = m.back[x]

\* In memory r, which was m, the list behind h has become new.
Becoming(m, r, h, list, new, e, kind) ==
    ListIn(r, h, new, kind) /\ Within(m, r, h, list, e)

\* The place behind the first k elements, and what follows it.
LEMMA PlaceFacts ==
    ASSUME NEW m, NEW h, NEW list, NEW kind, ListIn(m, h, list, kind),
           NEW k \in 0..Len(list)
    PROVE  /\ Node(h, list, k) \in Cells
           /\ Node(h, list, k) = h \/ Holds(list, Node(h, list, k))
           /\ \A e \in SqElms : ~Holds(list, e) => Node(h, list, k) # e
           /\ k = Len(list) => m.fwd[Node(h, list, k)] = SqNil
           /\ k # Len(list) =>
                /\ m.fwd[Node(h, list, k)] = list[k + 1]
                /\ list[k + 1] \in SqElms /\ list[k + 1] # SqNil /\ list[k + 1] # h
                /\ Holds(list, list[k + 1])
<1> h \in SqHeads /\ list \in Seq(SqElms) /\ Distinct(list) /\ Chain(m, h, list, kind)
  BY DEF ListIn
<1>1. PICK n \in Nat : n = Len(list)
  BY SeqFacts
<1>l. PICK l : l = Node(h, list, k)
  OBVIOUS
<1>2. /\ l \in Cells
      /\ \A e \in SqElms : ~Holds(list, e) => l # e
  BY <1>l, NodeFacts
<1>3. l = h \/ Holds(list, l)
  <2>1. k = 0 \/ k \in 1..Len(list)
    BY <1>1
  <2> QED  BY <1>l, <2>1 DEF Node, Holds
<1>4. m.fwd[l] = IF k < n THEN list[k + 1] ELSE SqNil
  BY <1>l, <1>1 DEF Chain
<1>5. CASE k = n
  <2>1. ~(k < n)
    BY <1>1, <1>5
  <2> QED  BY <1>l, <1>1, <1>2, <1>3, <1>4, <1>5, <2>1
<1>6. CASE k # n
  <2>1. k < n /\ k + 1 \in 1..Len(list)
    BY <1>1, <1>6
  <2>2. list[k + 1] \in SqElms /\ Holds(list, list[k + 1])
    BY <2>1, SeqFacts DEF Holds
  <2>3. list[k + 1] # SqNil /\ list[k + 1] # h
    BY <2>2, SqAssumption
  <2> QED  BY <1>l, <1>1, <1>2, <1>3, <1>4, <1>6, <2>1, <2>2, <2>3
<1> QED  BY <1>5, <1>6

\* The two pointers of each cell.
LEMMA MemFacts ==
    ASSUME NEW m \in Mems
    PROVE  /\ m.fwd \in [Cells -> Cells \cup {SqNil}]
           /\ m.back \in [Cells -> Cells \cup {SqNil}]
BY DEF Mems

LEMMA InsertAfterIs ==
    ASSUME NEW m, NEW h, NEW list, NEW kind, ListIn(m, h, list, kind),
           NEW e \in SqElms, ~Holds(list, e), NEW k \in 0..Len(list)
    PROVE  Becoming(m, INSERT_AFTER(m, h, Node(h, list, k), e), h, list,
                    Ins(list, k, e), e, kind)
<1> m \in Mems /\ h \in SqHeads /\ list \in Seq(SqElms) /\ Distinct(list)
  BY DEF ListIn
<1>1. PICK n \in Nat : n = Len(list)
  BY SeqFacts
<1>2. PICK l : l = Node(h, list, k)
  OBVIOUS
<1>3. PICK r : r = INSERT_AFTER(m, h, l, e)
  OBVIOUS
<1>4. PICK y : y = IF m.fwd[l] # SqNil THEN m.fwd[l] ELSE h
  OBVIOUS
<1>5. /\ l \in Cells /\ (l = h \/ Holds(list, l)) /\ l # e
      /\ k = n => m.fwd[l] = SqNil
      /\ k # n => /\ m.fwd[l] = list[k + 1] /\ list[k + 1] \in SqElms
                  /\ list[k + 1] # SqNil /\ list[k + 1] # h
                  /\ Holds(list, list[k + 1])
  BY <1>1, <1>2, PlaceFacts
<1>6. h \in Cells /\ e \in Cells /\ e # h
  BY SqAssumption DEF Cells
<1>7. y \in Cells /\ y # e /\ (y = h \/ Holds(list, y))
  BY <1>4, <1>5, <1>6 DEF Cells
<1>8. m.fwd \in [Cells -> Cells \cup {SqNil}] /\ m.back \in [Cells -> Cells \cup {SqNil}]
  BY MemFacts
<1>9. /\ r.fwd = [m.fwd EXCEPT ![e] = m.fwd[l], ![l] = e]
      /\ r.back = [[m.back EXCEPT ![y] = e] EXCEPT ![e] = l]
      /\ r = [fwd |-> r.fwd, back |-> r.back]
  BY <1>3, <1>4 DEF INSERT_AFTER
<1>10. /\ r.fwd \in [Cells -> Cells \cup {SqNil}] /\ r.back \in [Cells -> Cells \cup {SqNil}]
       /\ r.fwd[e] = m.fwd[l] /\ r.fwd[l] = e
       /\ \A x \in Cells : x # e /\ x # l => r.fwd[x] = m.fwd[x]
       /\ r.back[e] = l /\ r.back[y] = e
       /\ \A x \in Cells : x # e /\ x # y => r.back[x] = m.back[x]
  <2>1. /\ r.fwd \in [Cells -> Cells \cup {SqNil}]
        /\ r.fwd[e] = m.fwd[l] /\ r.fwd[l] = e
        /\ \A x \in Cells : x # e /\ x # l => r.fwd[x] = m.fwd[x]
    BY <1>5, <1>6, <1>8, <1>9
  <2>2. /\ r.back \in [Cells -> Cells \cup {SqNil}]
        /\ r.back[e] = l /\ r.back[y] = e
        /\ \A x \in Cells : x # e /\ x # y => r.back[x] = m.back[x]
    BY <1>5, <1>6, <1>7, <1>8, <1>9
  <2> QED  BY <2>1, <2>2
<1>11. r \in Mems
  BY <1>9, <1>10 DEF Mems
<1>12. Within(m, r, h, list, e)
  BY <1>5, <1>7, <1>10 DEF Within
<1>13. /\ k = Len(list) => r.back[h] = e
       /\ k # Len(list) => r.back[h] = m.back[h]
       /\ k # Len(list) => r.back[list[k + 1]] = e
  BY <1>1, <1>4, <1>5, <1>6, <1>10
<1>14. ASSUME NEW i \in 1..Len(list), i # k + 1
       PROVE  r.back[list[i]] = m.back[list[i]]
  <2>1. list[i] \in SqElms /\ list[i] # e
    BY SeqFacts DEF Holds
  <2>2. list[i] \in Cells /\ list[i] # h
    BY <2>1, SqAssumption DEF Cells
  <2>3. list[i] # y
    <3>1. CASE k = n
      BY <1>4, <1>5, <2>2, <3>1
    <3>2. CASE k # n
      <4>1. k + 1 \in 1..Len(list)
        BY <1>1, <3>2
      <4>2. y = list[k + 1]
        BY <1>4, <1>5, <3>2
      <4> QED  BY <1>14, <4>1, <4>2 DEF Distinct
    <3> QED  BY <3>1, <3>2
  <2> QED  BY <1>10, <2>1, <2>2, <2>3
<1>15. InsertedAt(m, r, h, list, k, e, kind)
  BY <1>2, <1>10, <1>13, <1>14 DEF InsertedAt
<1>16. ListIn(r, h, Ins(list, k, e), kind)
  BY <1>11, <1>15, ChainInsert DEF ListIn
<1> QED  BY <1>2, <1>3, <1>12, <1>16 DEF Becoming

LEMMA SimpleInsertAfterIs ==
    ASSUME NEW m, NEW h, NEW list, ListIn(m, h, list, "SIMPLEQ"),
           NEW e \in SqElms, ~Holds(list, e), NEW k \in 0..Len(list)
    PROVE  Becoming(m, SIMPLEQ_INSERT_AFTER(m, h, Node(h, list, k), e), h, list,
                    Ins(list, k, e), e, "SIMPLEQ")
<1> m \in Mems /\ h \in SqHeads /\ list \in Seq(SqElms)
  BY DEF ListIn
<1>1. PICK n \in Nat : n = Len(list)
  BY SeqFacts
<1>2. PICK l : l = Node(h, list, k)
  OBVIOUS
<1>3. PICK r : r = SIMPLEQ_INSERT_AFTER(m, h, l, e)
  OBVIOUS
<1>5. /\ l \in Cells /\ (l = h \/ Holds(list, l)) /\ l # e
      /\ k = n => m.fwd[l] = SqNil
      /\ k # n => m.fwd[l] # SqNil
  BY <1>1, <1>2, PlaceFacts
<1>6. h \in Cells /\ e \in Cells /\ e # h
  BY SqAssumption DEF Cells
<1>8. m.fwd \in [Cells -> Cells \cup {SqNil}] /\ m.back \in [Cells -> Cells \cup {SqNil}]
  BY MemFacts
<1>9. /\ r.fwd = [m.fwd EXCEPT ![e] = m.fwd[l], ![l] = e]
      /\ r.back = IF m.fwd[l] = SqNil THEN [m.back EXCEPT ![h] = e] ELSE m.back
      /\ r = [fwd |-> r.fwd, back |-> r.back]
  BY <1>3 DEF SIMPLEQ_INSERT_AFTER
<1>10. /\ r.fwd \in [Cells -> Cells \cup {SqNil}] /\ r.back \in [Cells -> Cells \cup {SqNil}]
       /\ r.fwd[e] = m.fwd[l] /\ r.fwd[l] = e
       /\ \A x \in Cells : x # e /\ x # l => r.fwd[x] = m.fwd[x]
       /\ r.back[h] = IF m.fwd[l] = SqNil THEN e ELSE m.back[h]
       /\ \A x \in Cells : x # h => r.back[x] = m.back[x]
  BY <1>5, <1>6, <1>8, <1>9
<1>11. r \in Mems
  BY <1>9, <1>10 DEF Mems
<1>12. Within(m, r, h, list, e)
  BY <1>5, <1>10 DEF Within
<1>13. /\ k = Len(list) => r.back[h] = e
       /\ k # Len(list) => r.back[h] = m.back[h]
  BY <1>1, <1>5, <1>10
<1>15. InsertedAt(m, r, h, list, k, e, "SIMPLEQ")
  BY <1>2, <1>10, <1>13 DEF InsertedAt
<1>16. ListIn(r, h, Ins(list, k, e), "SIMPLEQ")
  BY <1>11, <1>15, ChainInsert DEF ListIn
<1> QED  BY <1>2, <1>3, <1>12, <1>16 DEF Becoming

LEMMA InsertHeadIs ==
    ASSUME NEW m, NEW h, NEW list, NEW kind, ListIn(m, h, list, kind),
           NEW e \in SqElms, ~Holds(list, e)
    PROVE  Becoming(m, INSERT_HEAD(m, h, e), h, list, Ins(list, 0, e), e, kind)
<1>1. list \in Seq(SqElms)
  BY DEF ListIn
<1>2. PICK k \in 0..Len(list) : k = 0
  BY <1>1, SeqFacts
<1>3. INSERT_HEAD(m, h, e) = INSERT_AFTER(m, h, Node(h, list, k), e)
  BY <1>2 DEF INSERT_HEAD, INSERT_AFTER, Node
<1> QED  BY <1>2, <1>3, InsertAfterIs

\* TAILQ_INSERT_TAIL inserts behind the cell that the head's last pointer
\* leads to, TAILQ_INSERT_BEFORE behind the one the element's previous does.
LEMMA InsertTailIs ==
    ASSUME NEW m, NEW h, NEW list, NEW kind, ListIn(m, h, list, kind),
           NEW e \in SqElms, ~Holds(list, e)
    PROVE  Becoming(m, INSERT_TAIL(m, h, e), h, list, Ins(list, Len(list), e), e, kind)
<1>1. m \in Mems /\ list \in Seq(SqElms) /\ Chain(m, h, list, kind) /\ h \in SqHeads
  BY DEF ListIn
<1>2. PICK k \in 0..Len(list) : k = Len(list)
  BY <1>1, SeqFacts
<1>3. PICK l : l = Node(h, list, k)
  OBVIOUS
<1>4. l \in Cells /\ l # e /\ m.fwd[l] = SqNil
  BY <1>2, <1>3, PlaceFacts
<1>5. m.back[h] = l
  BY <1>1, <1>2, <1>3 DEF Chain
<1>6. e \in Cells /\ h \in Cells /\ e # h
  BY <1>1, SqAssumption DEF Cells
<1>7. m.fwd \in [Cells -> Cells \cup {SqNil}] /\ m.back \in [Cells -> Cells \cup {SqNil}]
  BY <1>1, MemFacts
<1>8. [m.back EXCEPT ![e] = l, ![h] = e] = [[m.back EXCEPT ![h] = e] EXCEPT ![e] = l]
  BY <1>4, <1>6, <1>7
<1>9. INSERT_TAIL(m, h, e) = INSERT_AFTER(m, h, l, e)
  BY <1>4, <1>5, <1>8 DEF INSERT_TAIL, INSERT_AFTER
<1> QED  BY <1>2, <1>3, <1>9, InsertAfterIs

LEMMA InsertBeforeIs ==
    ASSUME NEW m, NEW h, NEW list, NEW kind, ListIn(m, h, list, kind), kind # "SIMPLEQ",
           NEW e \in SqElms, ~Holds(list, e), NEW k \in 0..Len(list), k # Len(list)
    PROVE  Becoming(m, INSERT_BEFORE(m, list[k + 1], e), h, list, Ins(list, k, e), e, kind)
<1>1. m \in Mems /\ list \in Seq(SqElms) /\ Chain(m, h, list, kind) /\ h \in SqHeads
  BY DEF ListIn
<1>2. PICK l : l = Node(h, list, k)
  OBVIOUS
<1>3. PICK y : y = list[k + 1]
  OBVIOUS
<1>4. /\ l \in Cells /\ l # e /\ m.fwd[l] = y
      /\ y \in SqElms /\ y # SqNil /\ y # h /\ Holds(list, y)
  BY <1>2, <1>3, PlaceFacts
<1>5. m.back[y] = l
  <2>1. k + 1 \in 1..Len(list) /\ (k + 1) - 1 = k
    BY <1>1, SeqFacts
  <2>2. m.back[list[k + 1]] = Node(h, list, (k + 1) - 1)
    BY <1>1, <2>1 DEF Chain
  <2> QED  BY <1>2, <1>3, <2>1, <2>2
<1>6. e \in Cells /\ y \in Cells /\ e # y
  BY <1>1, <1>4 DEF Cells
<1>7. m.fwd \in [Cells -> Cells \cup {SqNil}] /\ m.back \in [Cells -> Cells \cup {SqNil}]
  BY <1>1, MemFacts
<1>8. [m.back EXCEPT ![e] = l, ![y] = e] = [[m.back EXCEPT ![y] = e] EXCEPT ![e] = l]
  BY <1>4, <1>6, <1>7
<1>9. INSERT_BEFORE(m, y, e) = INSERT_AFTER(m, h, l, e)
  BY <1>4, <1>5, <1>8 DEF INSERT_BEFORE, INSERT_AFTER
<1> QED  BY <1>2, <1>3, <1>9, InsertAfterIs

LEMMA SimpleInsertTailIs ==
    ASSUME NEW m, NEW h, NEW list, ListIn(m, h, list, "SIMPLEQ"),
           NEW e \in SqElms, ~Holds(list, e)
    PROVE  Becoming(m, SIMPLEQ_INSERT_TAIL(m, h, e), h, list,
                    Ins(list, Len(list), e), e, "SIMPLEQ")
<1>1. m \in Mems /\ list \in Seq(SqElms) /\ Chain(m, h, list, "SIMPLEQ") /\ h \in SqHeads
  BY DEF ListIn
<1>2. PICK k \in 0..Len(list) : k = Len(list)
  BY <1>1, SeqFacts
<1>3. PICK l : l = Node(h, list, k)
  OBVIOUS
<1>4. m.fwd[l] = SqNil
  BY <1>2, <1>3, PlaceFacts
<1>5. m.back[h] = l
  BY <1>1, <1>2, <1>3 DEF Chain
<1>6. SIMPLEQ_INSERT_TAIL(m, h, e) = SIMPLEQ_INSERT_AFTER(m, h, l, e)
  BY <1>4, <1>5 DEF SIMPLEQ_INSERT_TAIL, SIMPLEQ_INSERT_AFTER
<1> QED  BY <1>2, <1>3, <1>6, SimpleInsertAfterIs

LEMMA RemoveIs ==
    ASSUME NEW m, NEW h, NEW list, NEW kind, ListIn(m, h, list, kind), kind # "SIMPLEQ",
           NEW k \in 1..Len(list)
    PROVE  Becoming(m, REMOVE(m, h, list[k]), h, list, Del(list, k), list[k], kind)
<1> m \in Mems /\ h \in SqHeads /\ list \in Seq(SqElms) /\ Distinct(list) /\ Chain(m, h, list, kind)
  BY DEF ListIn
<1>1. PICK n \in Nat : n = Len(list)
  BY SeqFacts
<1>2. PICK j \in 0..Len(list) : j = k - 1 /\ j # Len(list) /\ j + 1 = k
  <2>1. k - 1 \in 0..Len(list) /\ k - 1 # Len(list) /\ (k - 1) + 1 = k
    BY <1>1
  <2> QED  BY <2>1
<1>3. PICK l : l = Node(h, list, j)
  OBVIOUS
<1>4. PICK e : e = list[k]
  OBVIOUS
<1>5. /\ l \in Cells /\ (l = h \/ Holds(list, l))
      /\ e \in SqElms /\ Holds(list, e)
  BY <1>2, <1>3, <1>4, PlaceFacts
<1>6. m.back[e] = l
  BY <1>2, <1>3, <1>4 DEF Chain
<1>7. /\ k = n => m.fwd[e] = SqNil
      /\ k # n => /\ m.fwd[e] = list[k + 1] /\ list[k + 1] \in SqElms
                  /\ list[k + 1] # SqNil /\ list[k + 1] # h
                  /\ Holds(list, list[k + 1])
  <2>1. k \in 0..Len(list) /\ Node(h, list, k) = e
    BY <1>1, <1>4 DEF Node
  <2> QED  BY <1>1, <2>1, PlaceFacts
<1>8. PICK r : r = REMOVE(m, h, e)
  OBVIOUS
<1>9. PICK y : y = IF m.fwd[e] # SqNil THEN m.fwd[e] ELSE h
  OBVIOUS
<1>10. e \in Cells /\ h \in Cells /\ y \in Cells /\ (y = h \/ Holds(list, y))
  BY <1>5, <1>7, <1>9 DEF Cells
<1>11. m.fwd \in [Cells -> Cells \cup {SqNil}] /\ m.back \in [Cells -> Cells \cup {SqNil}]
  BY MemFacts
<1>12. /\ r.fwd = [m.fwd EXCEPT ![l] = m.fwd[e]]
       /\ r.back = [m.back EXCEPT ![y] = l]
       /\ r = [fwd |-> r.fwd, back |-> r.back]
  BY <1>6, <1>8, <1>9 DEF REMOVE
<1>13. /\ r.fwd \in [Cells -> Cells \cup {SqNil}] /\ r.fwd[l] = m.fwd[e]
       /\ \A x \in Cells : x # l => r.fwd[x] = m.fwd[x]
  BY <1>5, <1>10, <1>11, <1>12
<1>14. /\ r.back \in [Cells -> Cells \cup {SqNil}] /\ r.back[y] = l
       /\ \A x \in Cells : x # y => r.back[x] = m.back[x]
  BY <1>5, <1>10, <1>11, <1>12
<1>15. r \in Mems
  BY <1>12, <1>13, <1>14 DEF Mems
<1>16. Within(m, r, h, list, e)
  BY <1>5, <1>10, <1>13, <1>14 DEF Within
<1>17. /\ k = Len(list) => r.back[h] = l
       /\ k # Len(list) => r.back[h] = m.back[h]
       /\ k # Len(list) => r.back[list[k + 1]] = l
  BY <1>1, <1>7, <1>9, <1>10, <1>14
<1>18. ASSUME NEW i \in 1..Len(list), i # k + 1
       PROVE  r.back[list[i]] = m.back[list[i]]
  <2>1. list[i] \in SqElms
    BY SeqFacts
  <2>2. list[i] \in Cells /\ list[i] # h
    BY <2>1, SqAssumption DEF Cells
  <2>3. list[i] # y
    <3>1. CASE k = n
      BY <1>7, <1>9, <2>2, <3>1
    <3>2. CASE k # n
      <4>1. k + 1 \in 1..Len(list)
        BY <1>1, <3>2
      <4>2. y = list[k + 1]
        BY <1>7, <1>9, <3>2
      <4> QED  BY <1>18, <4>1, <4>2 DEF Distinct
    <3> QED  BY <3>1, <3>2
  <2> QED  BY <1>14, <2>2, <2>3
<1>19. RemovedAt(m, r, h, list, k, kind)
  BY <1>2, <1>3, <1>4, <1>13, <1>17, <1>18 DEF RemovedAt
<1>20. ListIn(r, h, Del(list, k), kind)
  BY <1>15, <1>19, ChainRemove DEF ListIn
<1> QED  BY <1>4, <1>8, <1>16, <1>20 DEF Becoming

LEMMA SimpleRemoveHeadIs ==
    ASSUME NEW m, NEW h, NEW list, ListIn(m, h, list, "SIMPLEQ"), list # <<>>,
           NEW e \in SqElms
    PROVE  Becoming(m, SIMPLEQ_REMOVE_HEAD(m, h), h, list, Del(list, 1), e, "SIMPLEQ")
<1> m \in Mems /\ h \in SqHeads /\ list \in Seq(SqElms)
  BY DEF ListIn
<1>1. PICK n \in Nat : n = Len(list) /\ n # 0
  BY SeqFacts
<1>2. PICK one \in 1..Len(list) : one = 1
  BY <1>1
<1>3. PICK z \in 0..Len(list) : z = 0 /\ z # Len(list) /\ z + 1 = one /\ z = one - 1
  <2>1. 0 \in 0..Len(list) /\ 0 # Len(list) /\ 0 + 1 = one /\ 0 = one - 1
    BY <1>1, <1>2
  <2> QED  BY <2>1
<1>4. Node(h, list, z) = h /\ Node(h, list, one) = list[one]
  BY <1>2, <1>3 DEF Node
<1>5. m.fwd[h] = list[one] /\ list[one] \in SqElms
  BY <1>3, <1>4, PlaceFacts
<1>6. one \in 0..Len(list)
  BY <1>1, <1>2
<1>7. /\ one = n => m.fwd[list[one]] = SqNil
      /\ one # n => m.fwd[list[one]] # SqNil
  BY <1>1, <1>4, <1>6, PlaceFacts
<1>8. PICK r : r = SIMPLEQ_REMOVE_HEAD(m, h)
  OBVIOUS
<1>9. m.fwd \in [Cells -> Cells \cup {SqNil}] /\ m.back \in [Cells -> Cells \cup {SqNil}]
  BY MemFacts
<1>10. PICK f : f = m.fwd[list[one]]
  OBVIOUS
<1>11. h \in Cells /\ f \in Cells \cup {SqNil}
  BY <1>5, <1>9, <1>10 DEF Cells
<1>12. /\ r.fwd = [m.fwd EXCEPT ![h] = f]
       /\ r.back = IF f = SqNil THEN [m.back EXCEPT ![h] = h] ELSE m.back
       /\ r = [fwd |-> r.fwd, back |-> r.back]
  BY <1>5, <1>8, <1>10 DEF SIMPLEQ_REMOVE_HEAD
<1>13. /\ r.fwd \in [Cells -> Cells \cup {SqNil}] /\ r.fwd[h] = f
       /\ \A x \in Cells : x # h => r.fwd[x] = m.fwd[x]
  BY <1>9, <1>11, <1>12
<1>14. /\ r.back \in [Cells -> Cells \cup {SqNil}]
       /\ r.back[h] = IF f = SqNil THEN h ELSE m.back[h]
       /\ \A x \in Cells : x # h => r.back[x] = m.back[x]
  BY <1>9, <1>11, <1>12
<1>15. r \in Mems
  BY <1>12, <1>13, <1>14 DEF Mems
<1>16. Within(m, r, h, list, e)
  BY <1>13, <1>14 DEF Within
<1>17. RemovedAt(m, r, h, list, one, "SIMPLEQ")
  <2>1. Node(h, list, one - 1) = h
    BY <1>3, <1>4
  <2> QED  BY <1>1, <1>7, <1>10, <1>13, <1>14, <2>1 DEF RemovedAt
<1>18. ListIn(r, h, Del(list, one), "SIMPLEQ")
  BY <1>15, <1>17, ChainRemove DEF ListIn
<1> QED  BY <1>2, <1>8, <1>16, <1>18 DEF Becoming

LEMMA InsertSortedIs ==
    ASSUME NEW m, NEW h, NEW list, NEW kind, ListIn(m, h, list, kind), kind # "SIMPLEQ",
           NEW e \in SqElms, ~Holds(list, e),
           NEW before, before = {i \in DOMAIN list : SqKeys[e] <= SqKeys[list[i]]}
    PROVE  \E k \in 0..Len(list) :
              /\ k + 1 = IF before = {} THEN Len(list) + 1 ELSE Min(before)
              /\ Becoming(m, INSERT_SORTED(m, h, e), h, list, Ins(list, k, e), e, kind)
<1> list \in Seq(SqElms) /\ h \in SqHeads /\ Distinct(list) /\ Chain(m, h, list, kind)
  BY DEF ListIn
<1>1. PICK n \in Nat : n = Len(list) /\ DOMAIN list = 1..n
  BY SeqFacts
<1>2. FOREACH(m, h) = list
  BY WalkIs
<1>3. PICK r : r = INSERT_SORTED(m, h, e)
  OBVIOUS
<1>4. r = IF First(m, h) = SqNil THEN INSERT_HEAD(m, h, e)
          ELSE IF before # {} THEN INSERT_BEFORE(m, list[Min(before)], e)
          ELSE INSERT_AFTER(m, h, Last(list), e)
  BY <1>2, <1>3 DEF INSERT_SORTED
<1>5. 0 \in 0..Len(list) /\ Node(h, list, 0) = h
  BY <1>1 DEF Node
<1>6. /\ 0 = n => First(m, h) = SqNil
      /\ 0 # n => First(m, h) # SqNil
  BY <1>1, <1>5, PlaceFacts DEF First
<1>7. CASE n = 0
  <2>1. before = {} /\ 0 + 1 = Len(list) + 1
    BY <1>1, <1>7
  <2>2. Becoming(m, r, h, list, Ins(list, 0, e), e, kind)
    BY <1>4, <1>6, <1>7, InsertHeadIs
  <2> QED  BY <1>3, <1>5, <2>1, <2>2
<1>8. CASE n # 0 /\ before # {}
  <2>1. before \in SUBSET Nat
    BY <1>1
  <2>2. PICK i \in 1..n : i = Min(before)
    BY <1>1, <1>8, <2>1, MinIsLeast
  <2>3. PICK k \in 0..Len(list) : k # Len(list) /\ k + 1 = i
    <3>1. i - 1 \in 0..Len(list) /\ i - 1 # Len(list) /\ (i - 1) + 1 = i
      BY <1>1
    <3> QED  BY <3>1
  <2>4. r = INSERT_BEFORE(m, list[k + 1], e)
    BY <1>4, <1>6, <1>8, <2>2, <2>3
  <2>5. Becoming(m, r, h, list, Ins(list, k, e), e, kind)
    BY <2>3, <2>4, InsertBeforeIs
  <2> QED  BY <1>3, <1>8, <2>2, <2>3, <2>5
<1>9. CASE n # 0 /\ before = {}
  <2>1. n \in 0..Len(list) /\ n + 1 = Len(list) + 1
    BY <1>1
  <2>2. Last(list) = Node(h, list, n)
    BY <1>1, <1>9 DEF Last, Node
  <2>3. r = INSERT_AFTER(m, h, Node(h, list, n), e)
    BY <1>4, <1>6, <1>9, <2>2
  <2>4. Becoming(m, r, h, list, Ins(list, n, e), e, kind)
    BY <2>1, <2>3, InsertAfterIs
  <2> QED  BY <1>3, <1>9, <2>1, <2>4
<1> QED  BY <1>7, <1>8, <1>9

-----------------------------------------------------------------------------
(* The lists of RdSysqueue.                                                *)

Apart(s, t) == \A x \in SqElms : ~(Holds(s, x) /\ Holds(t, x))

\* An empty list whose head has the last pointer of the head home.
StrayIn(m, h, list, kind, home) ==
    /\ m \in Mems /\ h \in SqHeads /\ list = << >> /\ kind = "TAILQ"
    /\ m.fwd[h] = SqNil /\ m.back[h] = home

HeadIn(m, h, list, kind, home) ==
    IF home = h THEN ListIn(m, h, list, kind) ELSE StrayIn(m, h, list, kind, home)

\* The inductive invariant: every head has its list in memory, and no element
\* is in two of them, so that what is written for one leaves the others alone.
SqSound ==
    /\ sqKind \in {"TAILQ", "LIST", "SIMPLEQ"}
    /\ sqLost = SqNil
    /\ sqList \in [SqHeads -> Seq(SqElms)] /\ sqHome \in [SqHeads -> SqHeads]
    /\ \A h \in SqHeads : HeadIn(sqMem, h, sqList[h], sqKind, sqHome[h])
    /\ \A g, h \in SqHeads : g # h => Apart(sqList[g], sqList[h])

\* An element was inserted at the tail of a list that such a head has.
SqDamaged ==
    /\ sqKind \in {"TAILQ", "LIST", "SIMPLEQ"} /\ sqMem \in Mems
    /\ sqLost # SqNil /\ \E h \in SqHeads : Strayed(h)

SqInv == SqSound \/ SqDamaged

LEMMA MemIs == ASSUME SqSound PROVE sqMem \in Mems
<1>1. PICK h \in SqHeads : TRUE
  BY SqAssumption
<1>2. HeadIn(sqMem, h, sqList[h], sqKind, sqHome[h])
  BY DEF SqSound
<1> QED  BY <1>2 DEF HeadIn, ListIn, StrayIn

LEMMA HoldsIns ==
    ASSUME NEW list \in Seq(SqElms), NEW e \in SqElms, NEW k \in 0..Len(list), NEW x,
           Holds(Ins(list, k, e), x)
    PROVE  Holds(list, x) \/ x = e
<1>1. PICK n \in Nat : n = Len(list)
  BY SeqFacts
<1>2. PICK L : L = Ins(list, k, e)
  OBVIOUS
<1>3. /\ Len(L) = n + 1
      /\ \A i \in 1..n + 1 : L[i] =
            IF i <= k THEN list[i] ELSE IF i = k + 1 THEN e ELSE list[i - 1]
  <2>1. /\ Ins(list, k, e) \in Seq(SqElms) /\ Len(Ins(list, k, e)) = Len(list) + 1
        /\ \A i \in 1..Len(list) + 1 : Ins(list, k, e)[i] =
            IF i <= k THEN list[i] ELSE IF i = k + 1 THEN e ELSE list[i - 1]
    BY InsFacts
  <2> QED  BY <1>1, <1>2, <2>1
<1>4. PICK i \in 1..n + 1 : L[i] = x
  BY <1>2, <1>3 DEF Holds
<1>5. (i <= k => i \in 1..n) /\ (~(i <= k) /\ i # k + 1 => i - 1 \in 1..n)
  BY <1>1
<1> QED  BY <1>1, <1>3, <1>4, <1>5 DEF Holds

LEMMA HoldsDel ==
    ASSUME NEW list \in Seq(SqElms), NEW k \in 1..Len(list), NEW x,
           Holds(Del(list, k), x)
    PROVE  Holds(list, x)
<1>1. PICK n \in Nat : n = Len(list)
  BY SeqFacts
<1>2. PICK L : L = Del(list, k)
  OBVIOUS
<1>3. /\ Len(L) = n - 1
      /\ \A i \in 1..n - 1 : L[i] = IF i < k THEN list[i] ELSE list[i + 1]
  <2>1. /\ Del(list, k) \in Seq(SqElms) /\ Len(Del(list, k)) = Len(list) - 1
        /\ \A i \in 1..Len(list) - 1 : Del(list, k)[i] =
            IF i < k THEN list[i] ELSE list[i + 1]
    BY DelFacts
  <2> QED  BY <1>1, <1>2, <2>1
<1>4. PICK i \in 1..n - 1 : L[i] = x
  BY <1>2, <1>3 DEF Holds
<1>5. i \in 1..n /\ i + 1 \in 1..n
  BY <1>1
<1> QED  BY <1>1, <1>3, <1>4, <1>5 DEF Holds

\* One list becomes another, by what is written to its cells and to those of
\* an element that is in no other list.
LEMMA OneListInv ==
    ASSUME SqSound, NEW h \in SqHeads, NEW r, NEW new, NEW e \in SqElms,
           Becomes(h, r, new),
           Becoming(sqMem, r, h, sqList[h], new, e, sqKind),
           \A x \in SqElms : Holds(new, x) => Holds(sqList[h], x) \/ x = e,
           \A g \in SqHeads : g # h => ~Holds(sqList[g], e)
    PROVE  SqSound'
<1>1. /\ sqMem' = r /\ sqKind' = sqKind /\ sqList' = [sqList EXCEPT ![h] = new]
      /\ sqHome' = [sqHome EXCEPT ![h] = h] /\ sqLost' = sqLost
  BY DEF Becomes
<1>2. ListIn(r, h, new, sqKind) /\ Within(sqMem, r, h, sqList[h], e)
  BY DEF Becoming
<1>3. new \in Seq(SqElms) /\ r \in Mems
  BY <1>2 DEF ListIn
<1>4. /\ sqList' \in [SqHeads -> Seq(SqElms)] /\ sqList'[h] = new
      /\ \A g \in SqHeads : g # h => sqList'[g] = sqList[g]
  BY <1>1, <1>3 DEF SqSound
<1>4a. /\ sqHome' \in [SqHeads -> SqHeads] /\ sqHome'[h] = h
       /\ \A g \in SqHeads : g # h => sqHome'[g] = sqHome[g]
  BY <1>1 DEF SqSound
<1>5. ASSUME NEW g \in SqHeads, g # h
      PROVE  HeadIn(r, g, sqList[g], sqKind, sqHome[g])
  <2>1. HeadIn(sqMem, g, sqList[g], sqKind, sqHome[g])
    BY DEF SqSound
  <2>2. sqList[h] \in Seq(SqElms) /\ sqList[g] \in Seq(SqElms)
    BY DEF SqSound
  <2>3. g \in Cells /\ g # e /\ ~Holds(sqList[h], g)
    <3>1. \A i \in 1..Len(sqList[h]) : sqList[h][i] \in SqElms
      BY <2>2, SeqFacts
    <3> QED  BY <3>1, SqAssumption DEF Cells, Holds
  <2>4. r.fwd[g] = sqMem.fwd[g] /\ r.back[g] = sqMem.back[g]
    BY <1>2, <1>5, <2>3 DEF Within
  <2>5. ASSUME NEW i \in 1..Len(sqList[g])
        PROVE  /\ r.fwd[sqList[g][i]] = sqMem.fwd[sqList[g][i]]
               /\ r.back[sqList[g][i]] = sqMem.back[sqList[g][i]]
    <3>1. PICK x : x = sqList[g][i]
      OBVIOUS
    <3>2. x \in SqElms /\ Holds(sqList[g], x)
      BY <2>2, <3>1, SeqFacts DEF Holds
    <3>3. x \in Cells /\ x # h /\ x # e /\ ~Holds(sqList[h], x)
      BY <1>5, <3>2, SqAssumption DEF Cells, SqSound, Apart
    <3> QED  BY <1>2, <3>1, <3>3 DEF Within
  <2>6. CASE sqHome[g] = g
    <3>1. Distinct(sqList[g]) /\ Chain(sqMem, g, sqList[g], sqKind)
      BY <2>1, <2>6 DEF HeadIn, ListIn
    <3>2. Chain(r, g, sqList[g], sqKind)
      BY <2>2, <2>4, <2>5, <3>1, ChainFrame
    <3> QED  BY <1>3, <2>2, <2>6, <3>1, <3>2 DEF HeadIn, ListIn
  <2>7. CASE sqHome[g] # g
    BY <1>3, <2>1, <2>4, <2>7 DEF HeadIn, StrayIn
  <2> QED  BY <2>6, <2>7
<1>6. ASSUME NEW f \in SqHeads, NEW g \in SqHeads, f # g
      PROVE  Apart(sqList'[f], sqList'[g])
  <2>1. SUFFICES ASSUME NEW x \in SqElms, Holds(sqList'[f], x), Holds(sqList'[g], x)
                 PROVE  FALSE
    BY DEF Apart
  <2>2. \A y \in SqHeads, z \in SqHeads : y # z => ~(Holds(sqList[y], x) /\ Holds(sqList[z], x))
    BY DEF SqSound, Apart
  <2>3. CASE f = h
    BY <1>4, <1>6, <2>1, <2>2, <2>3
  <2>4. CASE g = h
    BY <1>4, <1>6, <2>1, <2>2, <2>4
  <2>5. CASE f # h /\ g # h
    BY <1>4, <1>6, <2>1, <2>2, <2>5
  <2> QED  BY <2>3, <2>4, <2>5
<1>7. \A g \in SqHeads : HeadIn(sqMem', g, sqList'[g], sqKind', sqHome'[g])
  <2>1. HeadIn(r, h, new, sqKind, h)
    BY <1>2 DEF HeadIn
  <2> QED  BY <1>1, <1>4, <1>4a, <1>5, <2>1
<1> QED  BY <1>1, <1>4, <1>4a, <1>6, <1>7 DEF SqSound

LEMMA UnlinkedFacts ==
    ASSUME SqSound, NEW e \in Unlinked
    PROVE  e \in SqElms /\ \A g \in SqHeads : ~Holds(sqList[g], e)
<1>1. e \in SqElms /\ \A g \in SqHeads : e \notin ToSet(sqList[g])
  BY DEF Unlinked
<1>2. ASSUME NEW g \in SqHeads PROVE ~Holds(sqList[g], e)
  <2>1. DOMAIN sqList[g] = 1..Len(sqList[g])
    BY SeqFacts DEF SqSound
  <2> QED  BY <1>1, <2>1 DEF ToSet, Holds
<1> QED  BY <1>1, <1>2

\* An element that was in no list is put somewhere into one.
LEMMA InsertInv ==
    ASSUME SqSound, NEW h \in SqHeads, NEW e \in Unlinked, NEW k \in 0..Len(sqList[h]),
           NEW r, Becomes(h, r, Ins(sqList[h], k, e)),
           Becoming(sqMem, r, h, sqList[h], Ins(sqList[h], k, e), e, sqKind)
    PROVE  SqSound'
<1>1. e \in SqElms /\ \A g \in SqHeads : ~Holds(sqList[g], e)
  BY UnlinkedFacts
<1>2. sqList[h] \in Seq(SqElms)
  BY DEF SqSound
<1>3. \A x \in SqElms : Holds(Ins(sqList[h], k, e), x) => Holds(sqList[h], x) \/ x = e
  BY <1>1, <1>2, HoldsIns
<1> QED  BY <1>1, <1>3, OneListInv

LEMMA RemoveInv ==
    ASSUME SqSound, NEW h \in SqHeads, NEW k \in 1..Len(sqList[h]),
           NEW r, Becomes(h, r, Del(sqList[h], k)),
           Becoming(sqMem, r, h, sqList[h], Del(sqList[h], k), sqList[h][k], sqKind)
    PROVE  SqSound'
<1>1. PICK e : e = sqList[h][k]
  OBVIOUS
<1>2. sqList[h] \in Seq(SqElms)
  BY DEF SqSound
<1>3. e \in SqElms /\ Holds(sqList[h], e)
  BY <1>1, <1>2, SeqFacts DEF Holds
<1>4. \A g \in SqHeads : g # h => ~Holds(sqList[g], e)
  BY <1>3 DEF SqSound, Apart
<1>5. \A x \in SqElms : Holds(Del(sqList[h], k), x) => Holds(sqList[h], x) \/ x = e
  BY <1>2, HoldsDel
<1> QED  BY <1>1, <1>3, <1>4, <1>5, OneListInv

\* An insertion at the head of a list that a head was given empty: the last
\* pointer it has is written and not read.
LEMMA StrayInsertHead ==
    ASSUME NEW m, NEW h, NEW kind, NEW home, StrayIn(m, h, << >>, kind, home),
           NEW e \in SqElms
    PROVE  Becoming(m, INSERT_HEAD(m, h, e), h, << >>, Ins(<< >>, 0, e), e, kind)
<1>1. m \in Mems /\ h \in SqHeads /\ m.fwd[h] = SqNil
  BY DEF StrayIn
<1>2. m.fwd \in [Cells -> Cells \cup {SqNil}] /\ m.back \in [Cells -> Cells \cup {SqNil}]
  BY <1>1, MemFacts
<1>3. e \in Cells /\ h \in Cells /\ e # h
  BY <1>1, SqAssumption DEF Cells
<1>4. PICK w : w = [fwd |-> m.fwd, back |-> [m.back EXCEPT ![h] = h]]
  OBVIOUS
<1>5. /\ w \in Mems /\ w.fwd = m.fwd /\ w.back = [m.back EXCEPT ![h] = h]
      /\ w.back[h] = h /\ \A x \in Cells : x # h => w.back[x] = m.back[x]
  BY <1>2, <1>3, <1>4 DEF Mems
<1>6. ListIn(w, h, << >>, kind)
  <2>1. Distinct(<< >>) /\ << >> \in Seq(SqElms)
    BY DEF Distinct
  <2>2. Chain(w, h, << >>, kind)
    BY <1>1, <1>5, ChainEmpty
  <2> QED  BY <1>1, <1>5, <2>1, <2>2 DEF ListIn
<1>7. ~Holds(<< >>, e)
  BY DEF Holds
<1>8. Becoming(w, INSERT_HEAD(w, h, e), h, << >>, Ins(<< >>, 0, e), e, kind)
  BY <1>6, <1>7, InsertHeadIs
<1>9. INSERT_HEAD(w, h, e) = INSERT_HEAD(m, h, e)
  <2>1. [w.back EXCEPT ![h] = e] = [m.back EXCEPT ![h] = e]
    BY <1>2, <1>3, <1>5
  <2> QED  BY <1>1, <1>5, <2>1 DEF INSERT_HEAD
<1>10. Within(m, INSERT_HEAD(m, h, e), h, << >>, e)
  <2>1. Within(w, INSERT_HEAD(m, h, e), h, << >>, e)
    BY <1>8, <1>9 DEF Becoming
  <2> QED  BY <1>5, <2>1 DEF Within
<1> QED  BY <1>8, <1>9, <1>10 DEF Becoming

\* An insertion at the tail of such a list goes to the list of the other head.
LEMMA StrayInsertTail ==
    ASSUME SqSound, NEW h \in SqHeads, NEW e \in Unlinked, InsertTail(h, e), sqHome[h] # h
    PROVE  SqDamaged'
<1>1. PICK o \in SqHeads : o = sqHome[h] /\ o # h
  BY DEF SqSound
<1>2. /\ sqMem \in Mems /\ sqList[h] = << >> /\ sqMem.fwd[h] = SqNil /\ sqMem.back[h] = o
      /\ sqKind = "TAILQ"
  BY <1>1 DEF SqSound, HeadIn, StrayIn
<1>3. e \in SqElms /\ e # SqNil /\ e \in Cells /\ h \in Cells /\ o \in Cells /\ e # h /\ e # o
  BY SqAssumption DEF Cells, Unlinked
<1>4. PICK r : r = sqMem'
  OBVIOUS
<1>5. /\ sqMem.fwd \in [Cells -> Cells \cup {SqNil}]
      /\ sqMem.back \in [Cells -> Cells \cup {SqNil}]
  BY <1>2, MemFacts
<1>6. r = [fwd |-> [sqMem.fwd EXCEPT ![e] = SqNil, ![o] = e],
           back |-> [sqMem.back EXCEPT ![e] = o, ![h] = e]]
  BY <1>2, <1>4 DEF InsertTail, INSERT_TAIL
<1>7. r \in Mems /\ r.fwd[h] = SqNil /\ r.fwd[o] = e
  BY <1>1, <1>2, <1>3, <1>5, <1>6 DEF Mems
<1>8. sqKind' = sqKind /\ sqHome' = sqHome /\ sqLost' = e /\ sqList'[h] = <<e>>
  <2>1. sqList \in [SqHeads -> Seq(SqElms)] /\ Append(<< >>, e) = <<e>>
    BY DEF SqSound
  <2> QED  BY <1>1, <1>2, <2>1 DEF InsertTail
<1>9. FOREACH(r, h) = << >>
  <2>1. PICK w : w = [fwd |-> r.fwd, back |-> [r.back EXCEPT ![h] = h]]
    OBVIOUS
  <2>2. w \in Mems /\ w.fwd = r.fwd /\ w.back[h] = h
    BY <1>3, <1>7, <2>1 DEF Mems
  <2>3. Distinct(<< >>) /\ << >> \in Seq(SqElms)
    BY DEF Distinct
  <2>4. Chain(w, h, << >>, sqKind)
    BY <1>7, <2>2, ChainEmpty
  <2>5. FOREACH(w, h) = << >>
    <3>1. PICK list, kind : /\ list = << >> /\ list \in Seq(SqElms) /\ Distinct(list)
                            /\ Chain(w, h, list, kind)
      BY <2>3, <2>4
    <3> QED  BY <3>1, WalkIs
  <2> QED  BY <2>2, <2>5 DEF FOREACH
<1>10. Strayed(h)'
  BY <1>1, <1>4, <1>7, <1>8, <1>9 DEF Strayed, First
<1> QED  BY <1>2, <1>3, <1>4, <1>7, <1>8, <1>10 DEF SqDamaged

LEMMA InsertionsInv ==
    ASSUME SqSound, NEW h \in SqHeads, NEW e \in Unlinked,
           \/ InsertHead(h, e) \/ InsertTail(h, e) \/ InsertSorted(h, e)
           \/ \E i \in DOMAIN sqList[h] : InsertAfter(h, i, e) \/ InsertBefore(h, i, e)
           \/ SimpleInsertTail(h, e)
           \/ \E i \in 0..Len(sqList[h]) : SimpleInsertAfter(h, i, e)
    PROVE  SqInv'
<1>0. SqSound' => SqInv'
  BY DEF SqInv
<1>1. e \in SqElms /\ ~Holds(sqList[h], e)
  BY UnlinkedFacts
<1>2. PICK list : list = sqList[h]
  OBVIOUS
<1>3. /\ list \in Seq(SqElms) /\ sqHome[h] \in SqHeads
      /\ sqHome[h] = h => ListIn(sqMem, h, list, sqKind)
      /\ sqHome[h] # h => StrayIn(sqMem, h, list, sqKind, sqHome[h]) /\ list = << >>
  BY <1>2 DEF SqSound, HeadIn, StrayIn
<1>4. PICK n \in Nat : n = Len(list) /\ DOMAIN list = 1..n
  BY <1>3, SeqFacts
<1>5. CASE InsertHead(h, e)
  <2>1. <<e>> \o list = Ins(list, 0, e) /\ 0 \in 0..Len(list)
    BY <1>1, <1>3, <1>4, PrependIs
  <2>2. Becoming(sqMem, INSERT_HEAD(sqMem, h, e), h, list, Ins(list, 0, e), e, sqKind)
    <3>1. CASE sqHome[h] = h
      BY <1>1, <1>2, <1>3, <3>1, InsertHeadIs
    <3>2. CASE sqHome[h] # h
      BY <1>1, <1>3, <3>2, StrayInsertHead
    <3> QED  BY <3>1, <3>2
  <2> QED  BY <1>0, <1>2, <1>5, <2>1, <2>2, InsertInv DEF InsertHead
<1>6. CASE InsertTail(h, e) /\ sqHome[h] = h
  <2>1. Append(list, e) = Ins(list, Len(list), e) /\ Len(list) \in 0..Len(list)
    BY <1>1, <1>3, <1>4, AppendIs
  <2>2. Becoming(sqMem, INSERT_TAIL(sqMem, h, e), h, list, Ins(list, Len(list), e), e, sqKind)
    BY <1>1, <1>2, <1>3, <1>6, InsertTailIs
  <2>3. Becomes(h, INSERT_TAIL(sqMem, h, e), Append(list, e))
    <3>1. [sqHome EXCEPT ![h] = h] = sqHome /\ sqLost = SqNil /\ DOMAIN sqList = SqHeads
      BY <1>6 DEF SqSound
    <3> QED  BY <1>2, <1>6, <3>1 DEF InsertTail, Becomes
  <2> QED  BY <1>0, <1>2, <2>1, <2>2, <2>3, InsertInv
<1>6a. CASE InsertTail(h, e) /\ sqHome[h] # h
  BY <1>6a, StrayInsertTail DEF SqInv
<1>6b. ASSUME NEW i \in DOMAIN sqList[h] PROVE sqHome[h] = h
  BY <1>2, <1>3, <1>6b
<1>7. CASE InsertSorted(h, e)
  <2>1. PICK before : before = {i \in DOMAIN list : SqKeys[e] <= SqKeys[list[i]]}
    OBVIOUS
  <2>2. PICK k \in 0..Len(list) :
              /\ k + 1 = IF before = {} THEN Len(list) + 1 ELSE Min(before)
              /\ Becoming(sqMem, INSERT_SORTED(sqMem, h, e), h, list, Ins(list, k, e), e, sqKind)
    <3>1. sqKind # "SIMPLEQ" /\ ~Holds(list, e)
      BY <1>1, <1>2, <1>7 DEF InsertSorted
    <3>2. CASE sqHome[h] = h
      BY <1>1, <1>3, <2>1, <3>1, <3>2, InsertSortedIs
    <3>3. CASE sqHome[h] # h
      <4>1. PICK k \in 0..Len(list) : k = 0 /\ k + 1 = Len(list) + 1 /\ before = {}
        BY <1>3, <1>4, <2>1, <3>3
      <4>2. INSERT_SORTED(sqMem, h, e) = INSERT_HEAD(sqMem, h, e)
        BY <1>3, <3>3 DEF INSERT_SORTED, First, StrayIn
      <4>3. Becoming(sqMem, INSERT_HEAD(sqMem, h, e), h, << >>, Ins(<< >>, 0, e), e, sqKind)
        BY <1>1, <1>3, <3>3, StrayInsertHead
      <4> QED  BY <1>3, <3>3, <4>1, <4>2, <4>3
    <3> QED  BY <3>2, <3>3
  <2>3. Becomes(h, INSERT_SORTED(sqMem, h, e), InsertAt(list, k + 1, e))
    BY <1>2, <1>7, <2>1, <2>2 DEF InsertSorted
  <2>4. InsertAt(list, k + 1, e) = Ins(list, k, e)
    BY <1>1, <1>3, InsertAtIs
  <2> QED  BY <1>0, <1>2, <2>2, <2>3, <2>4, InsertInv
<1>8. ASSUME NEW i \in DOMAIN sqList[h], InsertAfter(h, i, e) PROVE SqSound'
  <2>1. i \in 0..Len(list) /\ list[i] = Node(h, list, i)
    BY <1>2, <1>4 DEF Node
  <2>2. Becoming(sqMem, INSERT_AFTER(sqMem, h, list[i], e), h, list, Ins(list, i, e), e, sqKind)
    BY <1>1, <1>2, <1>3, <1>6b, <2>1, InsertAfterIs
  <2>3. InsertAt(list, i + 1, e) = Ins(list, i, e)
    BY <1>1, <1>3, <2>1, InsertAtIs
  <2> QED  BY <1>2, <1>8, <2>1, <2>2, <2>3, InsertInv DEF InsertAfter
<1>9. ASSUME NEW i \in DOMAIN sqList[h], InsertBefore(h, i, e) PROVE SqSound'
  <2>1. PICK k \in 0..Len(list) : k # Len(list) /\ k + 1 = i
    <3>1. i \in 1..n
      BY <1>2, <1>4
    <3>2. i - 1 \in 0..Len(list) /\ i - 1 # Len(list) /\ (i - 1) + 1 = i
      BY <1>4, <3>1
    <3> QED  BY <3>2
  <2>2. sqKind # "SIMPLEQ" /\ ~Holds(list, e)
    BY <1>1, <1>2, <1>9 DEF InsertBefore
  <2>3. Becoming(sqMem, INSERT_BEFORE(sqMem, list[k + 1], e), h, list, Ins(list, k, e), e, sqKind)
    BY <1>1, <1>3, <1>6b, <2>1, <2>2, InsertBeforeIs
  <2>4. InsertAt(list, k + 1, e) = Ins(list, k, e)
    BY <1>1, <1>3, InsertAtIs
  <2> QED  BY <1>2, <1>9, <2>1, <2>3, <2>4, InsertInv DEF InsertBefore
<1>10. CASE SimpleInsertTail(h, e)
  <2>1. Append(list, e) = Ins(list, Len(list), e) /\ Len(list) \in 0..Len(list)
    BY <1>1, <1>3, <1>4, AppendIs
  <2>2. sqKind = "SIMPLEQ"
    BY <1>10 DEF SimpleInsertTail
  <2>2a. ListIn(sqMem, h, list, sqKind)
    BY <1>3, <2>2 DEF StrayIn
  <2>3. Becoming(sqMem, SIMPLEQ_INSERT_TAIL(sqMem, h, e), h, list, Ins(list, Len(list), e), e, sqKind)
    BY <1>1, <1>2, <2>2, <2>2a, SimpleInsertTailIs
  <2> QED  BY <1>0, <1>2, <1>10, <2>1, <2>3, InsertInv DEF SimpleInsertTail
<1>11. ASSUME NEW i \in 0..Len(sqList[h]), SimpleInsertAfter(h, i, e) PROVE SqSound'
  <2>1. i \in 0..Len(list) /\ (IF i = 0 THEN h ELSE sqList[h][i]) = Node(h, list, i)
    BY <1>2 DEF Node
  <2>2. sqKind = "SIMPLEQ"
    BY <1>11 DEF SimpleInsertAfter
  <2>2a. ListIn(sqMem, h, list, sqKind)
    BY <1>3, <2>2 DEF StrayIn
  <2>3. Becoming(sqMem, SIMPLEQ_INSERT_AFTER(sqMem, h, Node(h, list, i), e), h, list,
                 Ins(list, i, e), e, sqKind)
    BY <1>1, <1>2, <2>1, <2>2, <2>2a, SimpleInsertAfterIs
  <2>4. InsertAt(list, i + 1, e) = Ins(list, i, e)
    BY <1>1, <1>3, <2>1, InsertAtIs
  <2> QED  BY <1>2, <1>11, <2>1, <2>3, <2>4, InsertInv DEF SimpleInsertAfter
<1> QED  BY <1>5, <1>6, <1>6a, <1>7, <1>8, <1>9, <1>10, <1>11, <1>0

LEMMA RemovalsInv ==
    ASSUME SqSound, NEW h \in SqHeads,
           SimpleRemoveHead(h) \/ \E i \in DOMAIN sqList[h] : RemoveAny(h, i)
    PROVE  SqSound'
<1>2. PICK list : list = sqList[h]
  OBVIOUS
<1>3. list \in Seq(SqElms) /\ ListIn(sqMem, h, list, sqKind)
  <2>1. list \in Seq(SqElms) /\ (sqHome[h] # h => list = << >>)
    BY <1>2 DEF SqSound, HeadIn, StrayIn
  <2>2. list # << >>
    BY <1>2 DEF SimpleRemoveHead
  <2> QED  BY <1>2, <2>1, <2>2 DEF SqSound, HeadIn
<1>4. PICK n \in Nat : n = Len(list) /\ DOMAIN list = 1..n
  BY <1>3, SeqFacts
<1>5. ASSUME NEW i \in DOMAIN sqList[h], RemoveAny(h, i) PROVE SqSound'
  <2>1. i \in 1..Len(list) /\ sqKind # "SIMPLEQ"
    BY <1>2, <1>4, <1>5 DEF RemoveAny
  <2>2. Becoming(sqMem, REMOVE(sqMem, h, list[i]), h, list, Del(list, i), list[i], sqKind)
    BY <1>3, <2>1, RemoveIs
  <2>3. RemoveAt(list, i) = Del(list, i)
    BY <1>3, <2>1, RemoveAtIs
  <2> QED  BY <1>2, <1>5, <2>1, <2>2, <2>3, RemoveInv DEF RemoveAny
<1>6. CASE SimpleRemoveHead(h)
  <2>1. list # <<>> /\ sqKind = "SIMPLEQ" /\ 1 \in 1..Len(list)
    BY <1>2, <1>3, <1>4, <1>6, SeqFacts DEF SimpleRemoveHead
  <2>2. list[1] \in SqElms
    BY <1>3, <2>1, SeqFacts
  <2>3. Becoming(sqMem, SIMPLEQ_REMOVE_HEAD(sqMem, h), h, list, Del(list, 1), list[1], sqKind)
    BY <1>3, <2>1, <2>2, SimpleRemoveHeadIs
  <2>4. Tail(list) = Del(list, 1)
    BY <1>3, <2>1, TailIs
  <2> QED  BY <1>2, <1>6, <2>1, <2>3, <2>4, RemoveInv DEF SimpleRemoveHead
<1> QED  BY <1>5, <1>6

LEMMA MoveFullInv ==
    ASSUME SqSound, NEW new \in SqHeads, NEW old \in SqHeads, MoveList(new, old), sqList[old] # << >>
    PROVE  SqSound'
<1>1. /\ sqKind = "TAILQ" /\ sqKind' = sqKind /\ new # old
      /\ sqList[new] = <<>> /\ sqList[old] # <<>>
      /\ sqMem' = INIT(TAILQ_MOVE(sqMem, new, old), old)
      /\ sqList' = [sqList EXCEPT ![new] = sqList[old], ![old] = <<>>]
      /\ sqHome' = [sqHome EXCEPT ![new] = new, ![old] = old] /\ sqLost' = sqLost
  BY DEF MoveList
<1>2. PICK m : m = sqMem
  OBVIOUS
<1>3. PICK list : list = sqList[old]
  OBVIOUS
<1>4. /\ list \in Seq(SqElms) /\ list # <<>> /\ Distinct(list) /\ m \in Mems
      /\ Chain(m, old, list, sqKind) /\ ListIn(m, old, list, sqKind)
  BY <1>1, <1>2, <1>3 DEF SqSound, HeadIn, StrayIn, ListIn
<1>5. PICK n \in Nat : n = Len(list) /\ n # 0
  BY <1>4, SeqFacts
<1>6. 0 \in 0..Len(list) /\ 0 # Len(list) /\ 1 \in 1..Len(list) /\ 0 + 1 = 1 /\ Node(old, list, 0) = old
  BY <1>5 DEF Node
<1>7. PICK a : a = list[1]
  OBVIOUS
<1>8. m.fwd[old] = a /\ a \in SqElms /\ a # SqNil
  BY <1>4, <1>6, <1>7, PlaceFacts
<1>9. a \in Cells /\ a # new /\ a # old /\ new \in Cells /\ old \in Cells
  BY <1>8, SqAssumption DEF Cells
<1>10. m.fwd \in [Cells -> Cells \cup {SqNil}] /\ m.back \in [Cells -> Cells \cup {SqNil}]
  BY <1>4, MemFacts
<1>11. PICK r : r = sqMem'
  OBVIOUS
<1>12. /\ r.fwd = [[m.fwd EXCEPT ![new] = a] EXCEPT ![old] = SqNil]
       /\ r.back = [[[m.back EXCEPT ![a] = new] EXCEPT ![new] = m.back[old]] EXCEPT ![old] = old]
       /\ r = [fwd |-> r.fwd, back |-> r.back]
  BY <1>1, <1>2, <1>8, <1>11 DEF INIT, TAILQ_MOVE
<1>13. /\ r.fwd \in [Cells -> Cells \cup {SqNil}]
       /\ r.fwd[new] = a /\ r.fwd[old] = SqNil
       /\ \A x \in Cells : x # new /\ x # old => r.fwd[x] = m.fwd[x]
  BY <1>1, <1>9, <1>10, <1>12
<1>14. /\ r.back \in [Cells -> Cells \cup {SqNil}]
       /\ r.back[new] = m.back[old] /\ r.back[old] = old /\ r.back[a] = new
       /\ \A x \in Cells : x # new /\ x # old /\ x # a => r.back[x] = m.back[x]
  BY <1>1, <1>9, <1>10, <1>12
<1>15. r \in Mems
  BY <1>12, <1>13, <1>14 DEF Mems
<1>16. \A i \in 1..Len(list) : /\ list[i] \in Cells /\ list[i] # new /\ list[i] # old
                               /\ list[i] \in SqElms
  <2>1. \A i \in 1..Len(list) : list[i] \in SqElms
    BY <1>4, SeqFacts
  <2> QED  BY <2>1, SqAssumption DEF Cells
<1>17. Chain(r, new, list, sqKind)
  <2>1. \A i \in 2..Len(list) : i \in 1..Len(list) /\ i # 1
    BY <1>5
  <2>2. \A i \in 2..Len(list) : list[i] # a
    BY <1>4, <1>6, <1>7, <2>1 DEF Distinct
  <2>3. \A i \in 2..Len(list) : r.back[list[i]] = m.back[list[i]]
    BY <1>14, <1>16, <2>1, <2>2
  <2>4. \A i \in 1..Len(list) : r.fwd[list[i]] = m.fwd[list[i]]
    BY <1>13, <1>16
  <2>5. r.fwd[new] = m.fwd[old] /\ r.back[new] = m.back[old] /\ r.back[list[1]] = new
    BY <1>7, <1>8, <1>13, <1>14
  <2> QED  BY <1>4, <2>3, <2>4, <2>5, ChainMove
<1>18. Chain(r, old, << >>, sqKind)
  BY <1>13, <1>14, ChainEmpty
<1>19. ASSUME NEW g \in SqHeads, g # new, g # old
       PROVE  HeadIn(r, g, sqList[g], sqKind, sqHome[g])
  <2>1. sqList[g] \in Seq(SqElms) /\ HeadIn(m, g, sqList[g], sqKind, sqHome[g])
    BY <1>2 DEF SqSound
  <2>2. g \in Cells /\ g # a
    BY <1>8, SqAssumption DEF Cells
  <2>3. r.fwd[g] = m.fwd[g] /\ r.back[g] = m.back[g]
    BY <1>13, <1>14, <1>19, <2>2
  <2>4. ASSUME NEW i \in 1..Len(sqList[g])
        PROVE  /\ r.fwd[sqList[g][i]] = m.fwd[sqList[g][i]]
               /\ r.back[sqList[g][i]] = m.back[sqList[g][i]]
    <3>1. PICK x : x = sqList[g][i]
      OBVIOUS
    <3>2. x \in SqElms /\ Holds(sqList[g], x)
      BY <2>1, <3>1, SeqFacts DEF Holds
    <3>3. Holds(sqList[old], a)
      BY <1>3, <1>6, <1>7 DEF Holds
    <3>4. x \in Cells /\ x # new /\ x # old /\ x # a
      BY <1>19, <3>2, <3>3, SqAssumption DEF Cells, SqSound, Apart
    <3> QED  BY <1>13, <1>14, <3>1, <3>4
  <2>5. CASE sqHome[g] = g
    <3>1. Distinct(sqList[g]) /\ Chain(m, g, sqList[g], sqKind)
      BY <2>1, <2>5 DEF HeadIn, ListIn
    <3>2. Chain(r, g, sqList[g], sqKind)
      BY <2>1, <2>3, <2>4, <3>1, ChainFrame
    <3> QED  BY <1>15, <2>1, <2>5, <3>1, <3>2 DEF HeadIn, ListIn
  <2>6. CASE sqHome[g] # g
    BY <1>15, <2>1, <2>3, <2>6 DEF HeadIn, StrayIn
  <2> QED  BY <2>5, <2>6
<1>20. /\ sqList' \in [SqHeads -> Seq(SqElms)]
       /\ sqList'[new] = list /\ sqList'[old] = << >>
       /\ \A g \in SqHeads : g # new /\ g # old => sqList'[g] = sqList[g]
  <2>1. sqList \in [SqHeads -> Seq(SqElms)] /\ << >> \in Seq(SqElms)
    BY DEF SqSound
  <2> QED  BY <1>1, <1>3, <1>4, <2>1
<1>20a. /\ sqHome' \in [SqHeads -> SqHeads] /\ sqHome'[new] = new /\ sqHome'[old] = old
        /\ \A g \in SqHeads : g # new /\ g # old => sqHome'[g] = sqHome[g]
  BY <1>1 DEF SqSound
<1>21. \A x : ~Holds(<< >>, x)
  BY DEF Holds
<1>22. ListIn(r, new, list, sqKind) /\ ListIn(r, old, << >>, sqKind)
  <2>1. Distinct(<< >>) /\ << >> \in Seq(SqElms)
    BY DEF Distinct
  <2> QED  BY <1>4, <1>15, <1>17, <1>18, <2>1 DEF ListIn
<1>23. \A g \in SqHeads : HeadIn(sqMem', g, sqList'[g], sqKind', sqHome'[g])
  <2>1. HeadIn(r, new, list, sqKind, new) /\ HeadIn(r, old, << >>, sqKind, old)
    BY <1>22 DEF HeadIn
  <2> QED  BY <1>1, <1>11, <1>19, <1>20, <1>20a, <2>1
<1>24. ASSUME NEW f \in SqHeads, NEW g \in SqHeads, f # g
       PROVE  Apart(sqList'[f], sqList'[g])
  <2>1. SUFFICES ASSUME NEW x \in SqElms, Holds(sqList'[f], x), Holds(sqList'[g], x)
                 PROVE  FALSE
    BY DEF Apart
  <2>2. \A y \in SqHeads, z \in SqHeads : y # z => ~(Holds(sqList[y], x) /\ Holds(sqList[z], x))
    BY DEF SqSound, Apart
  <2>3. f # old /\ g # old
    BY <1>20, <1>21, <2>1
  <2>4. CASE f = new
    BY <1>3, <1>20, <1>24, <2>1, <2>2, <2>3, <2>4
  <2>5. CASE g = new
    BY <1>3, <1>20, <1>24, <2>1, <2>2, <2>3, <2>5
  <2>6. CASE f # new /\ g # new
    BY <1>20, <1>24, <2>1, <2>2, <2>3, <2>6
  <2> QED  BY <2>4, <2>5, <2>6
<1> QED  BY <1>1, <1>20, <1>20a, <1>23, <1>24 DEF SqSound

\* The move of an empty list: its last pointer, which leads to a head, is all
\* that the new head gets.
LEMMA MoveEmptyInv ==
    ASSUME SqSound, NEW new \in SqHeads, NEW old \in SqHeads, MoveList(new, old),
           sqList[old] = << >>
    PROVE  SqSound'
<1>1. /\ sqKind = "TAILQ" /\ sqKind' = sqKind /\ new # old /\ sqList[new] = << >>
      /\ sqMem' = INIT(TAILQ_MOVE(sqMem, new, old), old)
      /\ sqList' = [sqList EXCEPT ![new] = sqList[old], ![old] = << >>]
      /\ sqHome' = [sqHome EXCEPT ![new] = sqHome[old], ![old] = old] /\ sqLost' = sqLost
  BY DEF MoveList
<1>2. PICK m, r, o : m = sqMem /\ r = sqMem' /\ o = sqHome[old]
  OBVIOUS
<1>3. sqHome \in [SqHeads -> SqHeads] /\ sqList \in [SqHeads -> Seq(SqElms)] /\ sqLost = SqNil
      /\ o \in SqHeads
  BY <1>2 DEF SqSound
<1>4. m \in Mems /\ m.fwd[old] = SqNil /\ m.back[old] = o
  <2>1. HeadIn(m, old, << >>, sqKind, o)
    BY <1>2 DEF SqSound
  <2>2. CASE o = old
    <3>1. ListIn(m, old, << >>, sqKind) /\ Chain(m, old, << >>, sqKind)
      BY <2>1, <2>2 DEF HeadIn, ListIn
    <3>2. Len(<< >>) = 0 /\ 0 \in 0..0 /\ ~(0 < 0) /\ Node(old, << >>, 0) = old
      BY DEF Node
    <3> QED  BY <2>2, <3>1, <3>2 DEF Chain, ListIn
  <2>3. CASE o # old
    BY <2>1, <2>3 DEF HeadIn, StrayIn
  <2> QED  BY <2>2, <2>3
<1>5. new \in Cells /\ old \in Cells /\ o \in Cells
  BY <1>3 DEF Cells
<1>6. m.fwd \in [Cells -> Cells \cup {SqNil}] /\ m.back \in [Cells -> Cells \cup {SqNil}]
  BY <1>4, MemFacts
<1>7. /\ r.fwd = [[m.fwd EXCEPT ![new] = SqNil] EXCEPT ![old] = SqNil]
      /\ r.back = [[m.back EXCEPT ![new] = o] EXCEPT ![old] = old]
      /\ r = [fwd |-> r.fwd, back |-> r.back]
  BY <1>1, <1>2, <1>4 DEF INIT, TAILQ_MOVE
<1>8. /\ r.fwd \in [Cells -> Cells \cup {SqNil}]
      /\ r.fwd[new] = SqNil /\ r.fwd[old] = SqNil
      /\ \A x \in Cells : x # new /\ x # old => r.fwd[x] = m.fwd[x]
  BY <1>1, <1>5, <1>6, <1>7
<1>9. /\ r.back \in [Cells -> Cells \cup {SqNil}]
      /\ r.back[new] = o /\ r.back[old] = old
      /\ \A x \in Cells : x # new /\ x # old => r.back[x] = m.back[x]
  BY <1>1, <1>5, <1>6, <1>7
<1>10. r \in Mems
  BY <1>7, <1>8, <1>9 DEF Mems
<1>11. ASSUME NEW g \in SqHeads, r.fwd[g] = SqNil, r.back[g] = g
       PROVE  HeadIn(r, g, << >>, sqKind, g)
  <2>1. Distinct(<< >>) /\ << >> \in Seq(SqElms)
    BY DEF Distinct
  <2>2. Chain(r, g, << >>, sqKind)
    BY <1>11, ChainEmpty
  <2> QED  BY <1>10, <2>1, <2>2 DEF HeadIn, ListIn
<1>12. HeadIn(r, old, << >>, sqKind, old)
  BY <1>8, <1>9, <1>11
<1>13. HeadIn(r, new, << >>, sqKind, o)
  <2>1. CASE o = new
    BY <1>8, <1>9, <1>11, <2>1
  <2>2. CASE o # new
    BY <1>1, <1>8, <1>9, <1>10, <2>2 DEF HeadIn, StrayIn
  <2> QED  BY <2>1, <2>2
<1>14. ASSUME NEW g \in SqHeads, g # new, g # old
       PROVE  HeadIn(r, g, sqList[g], sqKind, sqHome[g])
  <2>1. sqList[g] \in Seq(SqElms) /\ HeadIn(m, g, sqList[g], sqKind, sqHome[g])
    BY <1>2 DEF SqSound
  <2>2. g \in Cells
    BY DEF Cells
  <2>3. r.fwd[g] = m.fwd[g] /\ r.back[g] = m.back[g]
    BY <1>8, <1>9, <1>14, <2>2
  <2>4. ASSUME NEW i \in 1..Len(sqList[g])
        PROVE  /\ r.fwd[sqList[g][i]] = m.fwd[sqList[g][i]]
               /\ r.back[sqList[g][i]] = m.back[sqList[g][i]]
    <3>1. PICK x : x = sqList[g][i]
      OBVIOUS
    <3>2. x \in SqElms
      BY <2>1, <3>1, SeqFacts
    <3>3. x \in Cells /\ x # new /\ x # old
      BY <3>2, SqAssumption DEF Cells
    <3> QED  BY <1>8, <1>9, <3>1, <3>3
  <2>5. CASE sqHome[g] = g
    <3>1. Distinct(sqList[g]) /\ Chain(m, g, sqList[g], sqKind)
      BY <2>1, <2>5 DEF HeadIn, ListIn
    <3>2. Chain(r, g, sqList[g], sqKind)
      BY <2>1, <2>3, <2>4, <3>1, ChainFrame
    <3> QED  BY <1>10, <2>1, <2>5, <3>1, <3>2 DEF HeadIn, ListIn
  <2>6. CASE sqHome[g] # g
    BY <1>10, <2>1, <2>3, <2>6 DEF HeadIn, StrayIn
  <2> QED  BY <2>5, <2>6
<1>15. sqList' = sqList
  <2>1. \A g \in SqHeads : sqList'[g] = sqList[g]
    BY <1>1, <1>3
  <2>2. sqList' \in [SqHeads -> Seq(SqElms)]
    BY <1>1, <1>3
  <2> QED  BY <1>3, <2>1, <2>2
<1>16. /\ sqHome' \in [SqHeads -> SqHeads] /\ sqHome'[new] = o /\ sqHome'[old] = old
       /\ \A g \in SqHeads : g # new /\ g # old => sqHome'[g] = sqHome[g]
  BY <1>1, <1>2, <1>3
<1>17. \A g \in SqHeads : HeadIn(sqMem', g, sqList'[g], sqKind', sqHome'[g])
  BY <1>1, <1>2, <1>12, <1>13, <1>14, <1>15, <1>16
<1> QED  BY <1>1, <1>3, <1>15, <1>16, <1>17 DEF SqSound

LEMMA InitAllInv ==
    ASSUME SqDamaged, InitAll
    PROVE  SqSound'
<1>1. PICK r : r = sqMem'
  OBVIOUS
<1>2. PICK f, b : /\ f = [x \in Cells |-> IF x \in SqHeads THEN SqNil ELSE sqMem.fwd[x]]
                  /\ b = [x \in Cells |-> IF x \in SqHeads THEN x ELSE sqMem.back[x]]
  OBVIOUS
<1>3. r = [fwd |-> f, back |-> b]
  BY <1>1, <1>2 DEF InitAll
<1>4. /\ sqMem.fwd \in [Cells -> Cells \cup {SqNil}]
      /\ sqMem.back \in [Cells -> Cells \cup {SqNil}]
  BY MemFacts DEF SqDamaged
<1>5. f \in [Cells -> Cells \cup {SqNil}] /\ b \in [Cells -> Cells \cup {SqNil}]
  BY <1>2, <1>4
<1>6. \A h \in SqHeads : f[h] = SqNil /\ b[h] = h
  BY <1>2 DEF Cells
<1>7. r \in Mems /\ \A h \in SqHeads : r.fwd[h] = SqNil /\ r.back[h] = h
  BY <1>3, <1>5, <1>6 DEF Mems
<1>8. << >> \in Seq(SqElms) /\ Distinct(<< >>) /\ \A x : ~Holds(<< >>, x)
  BY DEF Holds, Distinct
<1>9. /\ sqList' \in [SqHeads -> Seq(SqElms)] /\ \A h \in SqHeads : sqList'[h] = << >>
      /\ sqHome' \in [SqHeads -> SqHeads] /\ \A h \in SqHeads : sqHome'[h] = h
      /\ sqLost' = SqNil /\ sqKind' = sqKind
  BY <1>8 DEF InitAll
<1>10. ASSUME NEW h \in SqHeads PROVE HeadIn(r, h, << >>, sqKind, h)
  <2>1. Chain(r, h, << >>, sqKind)
    BY <1>7, ChainEmpty
  <2> QED  BY <1>7, <1>8, <2>1 DEF HeadIn, ListIn
<1>11. \A h \in SqHeads : HeadIn(sqMem', h, sqList'[h], sqKind', sqHome'[h])
  BY <1>1, <1>9, <1>10
<1>12. \A g, h \in SqHeads : Apart(sqList'[g], sqList'[h])
  BY <1>8, <1>9 DEF Apart
<1>13. sqKind \in {"TAILQ", "LIST", "SIMPLEQ"}
  BY DEF SqDamaged
<1> QED  BY <1>9, <1>11, <1>12, <1>13 DEF SqSound

LEMMA EmptyMem ==
    /\ EmptyLists \in Mems
    /\ \A h \in SqHeads : EmptyLists.fwd[h] = SqNil /\ EmptyLists.back[h] = h
<1>1. PICK f : f = [x \in Cells |-> SqNil]
  OBVIOUS
<1>2. PICK b : b = [x \in Cells |-> IF x \in SqHeads THEN x ELSE SqNil]
  OBVIOUS
<1>3. EmptyLists = [fwd |-> f, back |-> b]
  BY <1>1, <1>2 DEF EmptyLists
<1>4. f \in [Cells -> Cells \cup {SqNil}] /\ b \in [Cells -> Cells \cup {SqNil}]
  BY <1>1, <1>2
<1>5. \A h \in SqHeads : f[h] = SqNil /\ b[h] = h
  BY <1>1, <1>2 DEF Cells
<1> QED  BY <1>3, <1>4, <1>5 DEF Mems

LEMMA EmptyList ==
    ASSUME NEW h \in SqHeads, NEW kind
    PROVE  ListIn(EmptyLists, h, << >>, kind)
<1>1. Distinct(<< >>) /\ << >> \in Seq(SqElms)
  BY DEF Distinct
<1>2. Chain(EmptyLists, h, << >>, kind)
  BY EmptyMem, ChainEmpty
<1> QED  BY <1>1, <1>2, EmptyMem DEF ListIn

LEMMA SqInvInit == SqInit => SqInv
<1>1. SUFFICES ASSUME SqInit PROVE SqSound
  BY DEF SqInv
<1>2. << >> \in Seq(SqElms) /\ \A x : ~Holds(<< >>, x)
  BY DEF Holds
<1>3. /\ sqList \in [SqHeads -> Seq(SqElms)] /\ \A h \in SqHeads : sqList[h] = << >>
      /\ sqHome \in [SqHeads -> SqHeads] /\ \A h \in SqHeads : sqHome[h] = h
  BY <1>1, <1>2 DEF SqInit
<1>4. \A h \in SqHeads : HeadIn(sqMem, h, sqList[h], sqKind, sqHome[h])
  BY <1>1, <1>3, EmptyList DEF SqInit, HeadIn
<1>5. \A g, h \in SqHeads : Apart(sqList[g], sqList[h])
  BY <1>2, <1>3 DEF Apart
<1> QED  BY <1>1, <1>3, <1>4, <1>5 DEF SqSound, SqInit

LEMMA SqInvNext == SqInv /\ [SqNext]_sqVars => SqInv'
<1>1. SUFFICES ASSUME SqInv, [SqNext]_sqVars PROVE SqInv'
  OBVIOUS
<1>2. CASE UNCHANGED sqVars
  <2>1. /\ sqMem' = sqMem /\ sqKind' = sqKind /\ sqList' = sqList
        /\ sqHome' = sqHome /\ sqLost' = sqLost
    BY <1>2 DEF sqVars
  <2> QED  BY <1>1, <2>1 DEF SqInv, SqSound, SqDamaged, Strayed
<1>3. CASE InitAll
  <2>1. SqDamaged
    BY <1>1, <1>3 DEF InitAll, SqInv, SqSound
  <2> QED  BY <1>3, <2>1, InitAllInv DEF SqInv
<1>4. CASE SqNext /\ ~InitAll
  <2>1. PICK h \in SqHeads :
        \/ \E e \in Unlinked :
            \/ InsertHead(h, e) \/ InsertTail(h, e) \/ InsertSorted(h, e)
            \/ \E i \in DOMAIN sqList[h] : InsertAfter(h, i, e) \/ InsertBefore(h, i, e)
            \/ SimpleInsertTail(h, e)
            \/ \E i \in 0..Len(sqList[h]) : SimpleInsertAfter(h, i, e)
        \/ \E i \in DOMAIN sqList[h] : RemoveAny(h, i)
        \/ \E old \in SqHeads : MoveList(h, old)
        \/ SimpleRemoveHead(h)
    BY <1>4 DEF SqNext
  <2>2. SqSound
    BY <1>1, <1>4 DEF SqNext, SqInv, SqDamaged
  <2>3. ASSUME NEW old \in SqHeads, MoveList(h, old) PROVE SqSound'
    BY <2>2, <2>3, MoveFullInv, MoveEmptyInv
  <2>4. SqSound' => SqInv'
    BY DEF SqInv
  <2> QED  BY <2>1, <2>2, <2>3, <2>4, InsertionsInv, RemovalsInv
<1> QED  BY <1>1, <1>2, <1>3, <1>4

\* What TAILQ_FIRST and TAILQ_LAST find.
LEMMA LastIs ==
    ASSUME NEW m, NEW h, NEW list, NEW kind, ListIn(m, h, list, kind), kind # "SIMPLEQ"
    PROVE  /\ TAILQ_LAST(m, h) = IF Len(list) = 0 THEN SqNil ELSE list[Len(list)]
           /\ First(m, h) = IF Len(list) = 0 THEN SqNil ELSE list[1]
<1>1. list \in Seq(SqElms) /\ Chain(m, h, list, kind)
  BY DEF ListIn
<1>2. PICK n \in Nat : n = Len(list)
  BY <1>1, SeqFacts
<1>3. m.back[h] = IF n = 0 THEN h ELSE list[n]
  BY <1>1, <1>2 DEF Chain, Node
<1>4. \A i \in 0..n : m.fwd[Node(h, list, i)] = IF i < n THEN list[i + 1] ELSE SqNil
  BY <1>1, <1>2 DEF Chain
<1>5. m.fwd[h] = IF n = 0 THEN SqNil ELSE list[1]
  <2>1. 0 \in 0..n /\ 0 + 1 = 1 /\ (0 < n <=> n # 0)
    BY <1>2
  <2>2. Node(h, list, 0) = h
    BY DEF Node
  <2> QED  BY <1>4, <2>1, <2>2
<1>6. CASE n = 0
  BY <1>2, <1>3, <1>5, <1>6 DEF TAILQ_LAST, First
<1>7. CASE n # 0
  <2>1. n \in 1..n /\ n - 1 \in 0..n /\ n - 1 < n /\ (n - 1) + 1 = n
    BY <1>2, <1>7
  <2>2. m.back[list[n]] = Node(h, list, n - 1)
    BY <1>1, <1>2, <2>1 DEF Chain
  <2>3. m.fwd[Node(h, list, n - 1)] = list[n]
    BY <1>4, <2>1
  <2> QED  BY <1>2, <1>3, <1>5, <1>7, <2>2, <2>3 DEF TAILQ_LAST, First
<1> QED  BY <1>6, <1>7

LEMMA IntactWhenIn ==
    ASSUME SqSound, NEW h \in SqHeads, sqHome[h] = h
    PROVE  Intact(h, sqList[h], Len(sqList[h]))
<1>1. PICK list, n : list = sqList[h] /\ n = Len(list)
  OBVIOUS
<1>2. /\ ListIn(sqMem, h, list, sqKind) /\ list \in Seq(SqElms) /\ Distinct(list)
      /\ Chain(sqMem, h, list, sqKind)
  BY <1>1 DEF SqSound, HeadIn, ListIn
<1>3. n \in Nat /\ \A i \in 1..n : list[i] \in SqElms
  BY <1>1, <1>2, SeqFacts
<1>4. FOREACH(sqMem, h) = list
  BY <1>2, WalkIs
<1>5. sqMem.back[h] = IF n = 0 THEN sqHome[h] ELSE list[n]
  BY <1>1, <1>2 DEF Chain, Node
<1>6. ASSUME sqKind # "SIMPLEQ", NEW i \in 1..n
      PROVE  sqMem.back[list[i]] = IF i = 1 THEN h ELSE list[i - 1]
  <2>1. sqMem.back[list[i]] = Node(h, list, i - 1)
    BY <1>1, <1>2, <1>6 DEF Chain
  <2>2. i - 1 = 0 <=> i = 1
    BY <1>3
  <2> QED  BY <2>1, <2>2 DEF Node
<1>7. \A i \in 0..n : sqMem.fwd[Node(h, list, i)] = IF i < n THEN list[i + 1] ELSE SqNil
  BY <1>1, <1>2 DEF Chain
<1>8. sqMem.fwd[h] = IF 0 < n THEN list[1] ELSE SqNil
  <2>1. 0 \in 0..n /\ 0 + 1 = 1
    BY <1>3
  <2>2. Node(h, list, 0) = h
    BY DEF Node
  <2> QED  BY <1>7, <2>1, <2>2
<1>9. ASSUME NEW i \in 1..n
      PROVE  sqMem.fwd[list[i]] = IF i < n THEN list[i + 1] ELSE SqNil
  <2>1. i \in 0..n /\ i # 0
    BY <1>3
  <2>2. Node(h, list, i) = list[i]
    BY <2>1 DEF Node
  <2> QED  BY <1>7, <2>1, <2>2
<1>10. ASSUME sqKind = "TAILQ"
       PROVE  TAILQ_LAST(sqMem, h) = IF n = 0 THEN SqNil ELSE list[n]
  <2>1. sqKind # "SIMPLEQ"
    BY <1>10
  <2> QED  BY <1>1, <1>2, <2>1, LastIs
<1>11. ASSUME sqKind = "TAILQ", NEW i \in 1..n
       PROVE  /\ TAILQ_CIRC_NEXT(sqMem, h, list[i]) = list[(i % n) + 1]
              /\ TAILQ_CIRC_PREV(sqMem, h, list[(i % n) + 1]) = list[i]
  <2>1. n \in Int /\ n > 0 /\ i \in Int /\ 1 <= i /\ i <= n
    BY <1>3
  <2>2. \A a, b \in 1..n : list[a] = list[b] => a = b
    BY <1>1, <1>2 DEF Distinct
  <2>3. TAILQ_LAST(sqMem, h) = list[n] /\ First(sqMem, h) = list[1]
    BY <1>8, <1>10, <1>11, <2>1 DEF First
  <2>4. 1 \in 1..n /\ n \in 1..n
    BY <2>1
  <2>5. CASE i = n
    <3>1. i % n = 0
      BY <2>1, <2>5, Z3
    <3>2. list[(i % n) + 1] = list[1]
      BY <3>1
    <3>3. TAILQ_CIRC_NEXT(sqMem, h, list[i]) = list[1]
      BY <2>3, <2>5 DEF TAILQ_CIRC_NEXT
    <3>4. TAILQ_CIRC_PREV(sqMem, h, list[1]) = list[i]
      BY <2>3, <2>5 DEF TAILQ_CIRC_PREV
    <3> QED  BY <3>2, <3>3, <3>4
  <2>6. CASE i # n
    <3>1. i % n = i
      BY <2>1, <2>6, Z3
    <3>2. PICK j \in 1..n : j = i + 1 /\ j # 1 /\ j - 1 = i /\ i < n
      <4>1. i + 1 \in 1..n /\ i + 1 # 1 /\ (i + 1) - 1 = i /\ i < n
        BY <2>1, <2>6
      <4> QED  BY <4>1
    <3>3. (i % n) + 1 = j
      BY <3>1, <3>2
    <3>4. list[i] # list[n] /\ list[j] # list[1]
      BY <2>2, <2>4, <2>6, <3>2
    <3>5. sqMem.fwd[list[i]] = list[j]
      BY <1>9, <3>2
    <3>6. TAILQ_CIRC_NEXT(sqMem, h, list[i]) = list[j]
      BY <2>3, <3>4, <3>5 DEF TAILQ_CIRC_NEXT
    <3>7. sqMem.back[list[j]] = list[i]
      BY <1>6, <1>11, <3>2
    <3>8. sqMem.back[list[i]] = IF i = 1 THEN h ELSE list[i - 1]
      BY <1>6, <1>11
    <3>9. i # 1 => i - 1 \in 1..n /\ i - 1 < n /\ (i - 1) + 1 = i
      BY <2>1
    <3>10. sqMem.fwd[IF i = 1 THEN h ELSE list[i - 1]] = list[i]
      BY <1>8, <1>9, <2>1, <3>9
    <3>11. TAILQ_CIRC_PREV(sqMem, h, list[j]) = list[i]
      BY <2>3, <3>4, <3>7, <3>8, <3>10 DEF TAILQ_CIRC_PREV, TAILQ_PREV
    <3> QED  BY <3>3, <3>6, <3>11
  <2> QED  BY <2>5, <2>6
<1> QED  BY <1>1, <1>4, <1>5, <1>6, <1>10, <1>11 DEF Intact

LEMMA IntactWhenStray ==
    ASSUME SqSound, NEW h \in SqHeads, sqHome[h] # h
    PROVE  Intact(h, sqList[h], Len(sqList[h]))
<1>1. StrayIn(sqMem, h, << >>, sqKind, sqHome[h]) /\ sqList[h] = << >>
  BY DEF SqSound, HeadIn, StrayIn
<1>2. PICK w : w = [fwd |-> sqMem.fwd, back |-> [sqMem.back EXCEPT ![h] = h]]
  OBVIOUS
<1>3. h \in Cells
  BY DEF Cells
<1>4. w \in Mems /\ w.fwd = sqMem.fwd /\ w.back[h] = h /\ w.fwd[h] = SqNil
  BY <1>1, <1>2, <1>3 DEF Mems, StrayIn
<1>5. Distinct(<< >>) /\ << >> \in Seq(SqElms)
  BY DEF Distinct
<1>6. Chain(w, h, << >>, sqKind)
  BY <1>4, ChainEmpty
<1>7. FOREACH(w, h) = << >>
  BY <1>4, <1>5, <1>6, WalkIs DEF ListIn
<1>8. FOREACH(sqMem, h) = << >>
  BY <1>4, <1>7 DEF FOREACH
<1>9. Len(<< >>) = 0 /\ 1..0 = {}
  OBVIOUS
<1>10. sqMem.back[h] = sqHome[h]
  BY <1>1 DEF StrayIn
<1> QED  BY <1>1, <1>8, <1>9, <1>10 DEF Intact

LEMMA IntactByInv == SqInv => LinksAreIntact
<1>1. ASSUME SqSound PROVE LinksAreIntact
  <2>1. sqLost = SqNil
    BY <1>1 DEF SqSound
  <2>2. \A h \in SqHeads : Intact(h, sqList[h], Len(sqList[h]))
    BY <1>1, IntactWhenIn, IntactWhenStray
  <2> QED  BY <2>1, <2>2 DEF LinksAreIntact
<1>2. ASSUME SqDamaged PROVE LinksAreIntact
  BY <1>2 DEF SqDamaged, LinksAreIntact
<1> QED  BY <1>1, <1>2 DEF SqInv

\* After any sequence of the macros of rdsysqueue.h, on any number of lists and
\* elements, every list is walked in its order, in a TAILQ also backwards and
\* around, until TAILQ_INSERT_TAIL is used on a head to which TAILQ_MOVE gave
\* an empty list: that element goes to the old head, and only that does it.
THEOREM LinksStayIntact == SqSpec => []LinksAreIntact
<1>1. SqSpec => []SqInv
  BY SqInvInit, SqInvNext, PTL DEF SqSpec
<1> QED  BY <1>1, IntactByInv, PTL

-----------------------------------------------------------------------------
(* The LRU list.                                                           *)

\* The list's cells hold the entries in their order, and only they are in use.
LruHas(list) ==
    /\ ListIn(rlru_elms, LruHead, list, "TAILQ")
    /\ entries \in Seq(LruPtrs) /\ Len(entries) = Len(list)
    /\ \A i \in 1..Len(list) : entries[i] = rlrue_ptr[list[i]]
    /\ \A e \in SqElms : rlrue_ptr[e] # SqNil <=> Holds(list, e)
    /\ rlru_cnt = Len(list)

\* The inductive invariant.
LruInv ==
    /\ \E list : LruHas(list)
    /\ rlrue_ptr \in [SqElms -> LruPtrs \cup {SqNil}]
    /\ lruFault = FALSE

LEMMA LruHeadIs == LruHead \in SqHeads
BY SqAssumption DEF LruHead

LEMMA LruEmpty ==
    ASSUME rlru_elms = EmptyLists, entries = << >>, rlru_cnt = 0,
           \A e \in SqElms : rlrue_ptr[e] = SqNil
    PROVE  LruHas(<< >>)
<1>1. ListIn(EmptyLists, LruHead, << >>, "TAILQ")
  BY LruHeadIs, EmptyList
<1>2. /\ << >> \in Seq(LruPtrs) /\ Len(<< >>) = 0 /\ 1..0 = {} /\ \A x : ~Holds(<< >>, x)
  BY DEF Holds
<1> QED  BY <1>1, <1>2 DEF LruHas

LEMMA LruInitInv == LruInit => LruInv
<1>1. SUFFICES ASSUME LruInit PROVE LruInv
  OBVIOUS
<1>2. LruHas(<< >>)
  BY <1>1, LruEmpty DEF LruInit
<1> QED  BY <1>1, <1>2 DEF LruInv, LruInit

LEMMA LruPushInv ==
    ASSUME LruInv, NEW e \in SqElms, NEW ptr \in LruPtrs, rd_lru_push(e, ptr)
    PROVE  LruInv'
<1>1. /\ rlrue_ptr[e] = SqNil /\ rlrue_ptr' = [rlrue_ptr EXCEPT ![e] = ptr]
      /\ rlru_elms' = INSERT_HEAD(rlru_elms, LruHead, e) /\ rlru_cnt' = rlru_cnt + 1
      /\ entries' = <<ptr>> \o entries /\ lruFault' = lruFault
  BY DEF rd_lru_push
<1>2. PICK list : LruHas(list)
  BY DEF LruInv
<1>3. list \in Seq(SqElms) /\ ListIn(rlru_elms, LruHead, list, "TAILQ") /\ ~Holds(list, e)
  BY <1>1, <1>2 DEF LruHas, ListIn
<1>4. PICK n \in Nat : n = Len(list)
  BY <1>3, SeqFacts
<1>5. PICK z \in 0..Len(list) : z = 0
  BY <1>4
<1>6. PICK new : new = Ins(list, z, e)
  OBVIOUS
<1>7. /\ Len(new) = n + 1
      /\ \A i \in 1..n + 1 : new[i] =
            IF i <= z THEN list[i] ELSE IF i = z + 1 THEN e ELSE list[i - 1]
  <2>1. /\ Ins(list, z, e) \in Seq(SqElms) /\ Len(Ins(list, z, e)) = Len(list) + 1
        /\ \A i \in 1..Len(list) + 1 : Ins(list, z, e)[i] =
            IF i <= z THEN list[i] ELSE IF i = z + 1 THEN e ELSE list[i - 1]
    BY <1>3, InsFacts
  <2> QED  BY <1>4, <1>6, <2>1
<1>8. ListIn(rlru_elms', LruHead, new, "TAILQ")
  BY <1>1, <1>3, <1>5, <1>6, InsertHeadIs DEF Becoming
<1>9. /\ entries \in Seq(LruPtrs) /\ Len(entries) = n
      /\ \A i \in 1..n : entries[i] = rlrue_ptr[list[i]]
  BY <1>2, <1>4 DEF LruHas
<1>10. PICK es : es = Ins(entries, z, ptr)
  OBVIOUS
<1>11. entries' = es
  BY <1>1, <1>5, <1>9, <1>10, PrependIs
<1>12. /\ es \in Seq(LruPtrs) /\ Len(es) = n + 1
       /\ \A i \in 1..n + 1 : es[i] =
            IF i <= z THEN entries[i] ELSE IF i = z + 1 THEN ptr ELSE entries[i - 1]
  <2>1. z \in 0..Len(entries)
    BY <1>4, <1>9
  <2>2. /\ Ins(entries, z, ptr) \in Seq(LruPtrs) /\ Len(Ins(entries, z, ptr)) = Len(entries) + 1
        /\ \A i \in 1..Len(entries) + 1 : Ins(entries, z, ptr)[i] =
            IF i <= z THEN entries[i] ELSE IF i = z + 1 THEN ptr ELSE entries[i - 1]
    <3>1. entries \in Seq(LruPtrs)
      BY <1>9
    <3> QED  BY <2>1, <3>1, InsFacts
  <2> QED  BY <1>9, <1>10, <2>2
<1>13. /\ rlrue_ptr' \in [SqElms -> LruPtrs \cup {SqNil}] /\ rlrue_ptr'[e] = ptr
       /\ \A x \in SqElms : x # e => rlrue_ptr'[x] = rlrue_ptr[x]
  BY <1>1 DEF LruInv
<1>14. \A i \in 1..n : list[i] \in SqElms /\ list[i] # e
  BY <1>3, <1>4, SeqFacts DEF Holds
<1>15. ASSUME NEW i \in 1..n + 1 PROVE es[i] = rlrue_ptr'[new[i]]
  <2>1. CASE i = 1
    BY <1>5, <1>7, <1>12, <1>13, <2>1
  <2>2. CASE i # 1
    <3>1. PICK j \in 1..n : j = i - 1 /\ ~(i <= z) /\ i # z + 1
      <4>1. i - 1 \in 1..n /\ ~(i <= z) /\ i # z + 1
        BY <1>4, <1>5, <2>2
      <4> QED  BY <4>1
    <3>2. es[i] = entries[j] /\ new[i] = list[j]
      BY <1>7, <1>12, <3>1
    <3> QED  BY <1>9, <1>13, <1>14, <3>2
  <2> QED  BY <2>1, <2>2
<1>16. ASSUME NEW x \in SqElms PROVE rlrue_ptr'[x] # SqNil <=> Holds(new, x)
  <2>1. CASE x = e
    <3>1. 1 \in 1..n + 1 /\ new[1] = e
      BY <1>4, <1>5, <1>7
    <3>2. Holds(new, e)
      BY <1>7, <3>1 DEF Holds
    <3> QED  BY <1>13, <2>1, <3>2, LruAssumption
  <2>2. CASE x # e
    <3>1. Holds(new, x) => Holds(list, x)
      BY <1>3, <1>6, <2>2, HoldsIns
    <3>2. ASSUME Holds(list, x) PROVE Holds(new, x)
      <4>1. PICK j \in 1..n : list[j] = x
        BY <1>4, <3>2 DEF Holds
      <4>2. PICK i \in 1..n + 1 : i = j + 1 /\ ~(i <= z) /\ i # z + 1 /\ i - 1 = j
        <5>1. j + 1 \in 1..n + 1 /\ ~(j + 1 <= z) /\ j + 1 # z + 1 /\ (j + 1) - 1 = j
          BY <1>4, <1>5
        <5> QED  BY <5>1
      <4>3. new[i] = x
        BY <1>7, <4>1, <4>2
      <4> QED  BY <1>7, <4>3 DEF Holds
    <3> QED  BY <1>2, <1>13, <2>2, <3>1, <3>2 DEF LruHas
  <2> QED  BY <2>1, <2>2
<1>17. rlru_cnt' = n + 1
  BY <1>1, <1>2, <1>4 DEF LruHas
<1>18. LruHas(new)'
  BY <1>7, <1>8, <1>11, <1>12, <1>15, <1>16, <1>17 DEF LruHas
<1>19. lruFault' = FALSE
  BY <1>1 DEF LruInv
<1> QED  BY <1>13, <1>18, <1>19 DEF LruInv

\* The entry at place k is taken out.
LEMMA LruTakeInv ==
    ASSUME LruInv, NEW list, LruHas(list), NEW k \in 1..Len(list),
           rd_lru_elm_destroy(list[k], Del(entries, k))
    PROVE  LruInv'
<1>0. PICK e : e = list[k]
  OBVIOUS
<1>1. /\ rlrue_ptr' = [rlrue_ptr EXCEPT ![e] = SqNil]
      /\ rlru_elms' = REMOVE(rlru_elms, LruHead, e) /\ rlru_cnt' = rlru_cnt - 1
      /\ entries' = Del(entries, k) /\ lruFault' = (lruFault \/ rlru_cnt <= 0)
  BY <1>0 DEF rd_lru_elm_destroy
<1>3. list \in Seq(SqElms) /\ ListIn(rlru_elms, LruHead, list, "TAILQ") /\ Distinct(list)
  BY DEF LruHas, ListIn
<1>4. PICK n \in Nat : n = Len(list)
  BY <1>3, SeqFacts
<1>5. e \in SqElms /\ k \in 1..n
  BY <1>0, <1>3, <1>4, SeqFacts
<1>6. PICK new : new = Del(list, k)
  OBVIOUS
<1>7. /\ Len(new) = n - 1
      /\ \A i \in 1..n - 1 : new[i] = IF i < k THEN list[i] ELSE list[i + 1]
  <2>1. /\ Del(list, k) \in Seq(SqElms) /\ Len(Del(list, k)) = Len(list) - 1
        /\ \A i \in 1..Len(list) - 1 : Del(list, k)[i] =
            IF i < k THEN list[i] ELSE list[i + 1]
    BY <1>3, DelFacts
  <2> QED  BY <1>4, <1>6, <2>1
<1>8. ListIn(rlru_elms', LruHead, new, "TAILQ")
  <2>1. Becoming(rlru_elms, REMOVE(rlru_elms, LruHead, list[k]), LruHead, list, Del(list, k),
                 list[k], "TAILQ")
    BY <1>3, RemoveIs
  <2> QED  BY <1>0, <1>1, <1>6, <2>1 DEF Becoming
<1>9. /\ entries \in Seq(LruPtrs) /\ Len(entries) = n
      /\ \A i \in 1..n : entries[i] = rlrue_ptr[list[i]]
  BY <1>4 DEF LruHas
<1>10. PICK es : es = Del(entries, k)
  OBVIOUS
<1>11. entries' = es
  BY <1>1, <1>10
<1>12. /\ es \in Seq(LruPtrs) /\ Len(es) = n - 1
       /\ \A i \in 1..n - 1 : es[i] = IF i < k THEN entries[i] ELSE entries[i + 1]
  <2>1. k \in 1..Len(entries) /\ entries \in Seq(LruPtrs)
    BY <1>5, <1>9
  <2>2. /\ Del(entries, k) \in Seq(LruPtrs) /\ Len(Del(entries, k)) = Len(entries) - 1
        /\ \A i \in 1..Len(entries) - 1 : Del(entries, k)[i] =
            IF i < k THEN entries[i] ELSE entries[i + 1]
    BY <2>1, DelFacts
  <2> QED  BY <1>9, <1>10, <2>2
<1>13. /\ rlrue_ptr' \in [SqElms -> LruPtrs \cup {SqNil}] /\ rlrue_ptr'[e] = SqNil
       /\ \A x \in SqElms : x # e => rlrue_ptr'[x] = rlrue_ptr[x]
  BY <1>1, <1>5 DEF LruInv
<1>14. \A i \in 1..n : list[i] \in SqElms /\ (list[i] = e => i = k)
  BY <1>0, <1>3, <1>4, <1>5, SeqFacts DEF Distinct
<1>15. ASSUME NEW i \in 1..n - 1
       PROVE  \E j \in 1..n : /\ es[i] = entries[j] /\ new[i] = list[j]
                              /\ j # k /\ j = IF i < k THEN i ELSE i + 1
  <2>1. CASE i < k
    <3>1. i \in 1..n /\ i # k
      BY <1>5, <2>1
    <3> QED  BY <1>7, <1>12, <2>1, <3>1
  <2>2. CASE ~(i < k)
    <3>1. i + 1 \in 1..n /\ i + 1 # k
      BY <1>5, <2>2
    <3> QED  BY <1>7, <1>12, <2>2, <3>1
  <2> QED  BY <2>1, <2>2
<1>16. ASSUME NEW i \in 1..n - 1 PROVE es[i] = rlrue_ptr'[new[i]]
  <2>1. PICK j \in 1..n : es[i] = entries[j] /\ new[i] = list[j] /\ j # k
    BY <1>15
  <2> QED  BY <1>9, <1>13, <1>14, <2>1
<1>17. ASSUME NEW x \in SqElms PROVE rlrue_ptr'[x] # SqNil <=> Holds(new, x)
  <2>1. CASE x = e
    <3>1. ASSUME NEW i \in 1..n - 1 PROVE new[i] # e
      <4>1. PICK j \in 1..n : new[i] = list[j] /\ j # k
        BY <1>15
      <4> QED  BY <1>14, <4>1
    <3>2. ~Holds(new, e)
      BY <1>7, <3>1 DEF Holds
    <3> QED  BY <1>13, <2>1, <3>2
  <2>2. CASE x # e
    <3>1. Holds(new, x) => Holds(list, x)
      BY <1>3, <1>6, HoldsDel
    <3>2. ASSUME Holds(list, x) PROVE Holds(new, x)
      <4>1. PICK j \in 1..n : list[j] = x
        BY <1>4, <3>2 DEF Holds
      <4>2. j # k
        BY <1>0, <2>2, <4>1
      <4>3. CASE j < k
        <5>1. j \in 1..n - 1
          BY <1>5, <4>3
        <5>2. new[j] = x
          BY <1>7, <4>1, <4>3, <5>1
        <5> QED  BY <1>7, <5>1, <5>2 DEF Holds
      <4>4. CASE ~(j < k)
        <5>1. PICK i \in 1..n - 1 : i = j - 1 /\ i + 1 = j /\ ~(i < k)
          <6>1. j - 1 \in 1..n - 1 /\ (j - 1) + 1 = j /\ ~(j - 1 < k)
            BY <1>5, <4>2, <4>4
          <6> QED  BY <6>1
        <5>2. new[i] = x
          BY <1>7, <4>1, <5>1
        <5> QED  BY <1>7, <5>2 DEF Holds
      <4> QED  BY <4>3, <4>4
    <3> QED  BY <1>13, <2>2, <3>1, <3>2 DEF LruHas
  <2> QED  BY <2>1, <2>2
<1>18. rlru_cnt = n /\ rlru_cnt' = n - 1
  BY <1>1, <1>4 DEF LruHas
<1>19. LruHas(new)'
  BY <1>7, <1>8, <1>11, <1>12, <1>16, <1>17, <1>18 DEF LruHas
<1>20. lruFault' = FALSE
  <2>1. ~(rlru_cnt <= 0)
    BY <1>5, <1>18
  <2> QED  BY <1>1, <2>1 DEF LruInv
<1> QED  BY <1>13, <1>19, <1>20 DEF LruInv

LEMMA LruNextInv == LruInv /\ [LruNext]_lruVars => LruInv'
<1>1. SUFFICES ASSUME LruInv, [LruNext]_lruVars PROVE LruInv'
  OBVIOUS
<1>2. PICK list : LruHas(list)
  BY <1>1 DEF LruInv
<1>3. /\ list \in Seq(SqElms) /\ ListIn(rlru_elms, LruHead, list, "TAILQ")
      /\ Distinct(list) /\ Chain(rlru_elms, LruHead, list, "TAILQ")
  BY <1>2 DEF LruHas, ListIn
<1>4. PICK n \in Nat : n = Len(list)
  BY <1>3, SeqFacts
<1>5. /\ entries \in Seq(LruPtrs) /\ Len(entries) = n
      /\ rlru_cnt = n /\ (n # 0 => entries # << >>)
  BY <1>2, <1>4, SeqFacts DEF LruHas
<1>6. /\ Oldest(rlru_elms) = IF n = 0 THEN SqNil ELSE list[n]
      /\ First(rlru_elms, LruHead) = IF n = 0 THEN SqNil ELSE list[1]
  BY <1>3, <1>4, LastIs DEF Oldest
<1>7. CASE rd_lru_pop
  <2>1. n # 0
    BY <1>6, <1>7 DEF rd_lru_pop
  <2>2. Front(entries) = Del(entries, n) /\ n \in 1..Len(list)
    BY <1>4, <1>5, <2>1, FrontIs
  <2>3. rd_lru_elm_destroy(list[n], Del(entries, n))
    BY <1>6, <1>7, <2>1, <2>2 DEF rd_lru_pop
  <2> QED  BY <1>1, <1>2, <2>2, <2>3, LruTakeInv
<1>8. CASE rd_lru_shift
  <2>1. n # 0
    BY <1>6, <1>8 DEF rd_lru_shift
  <2>2. Tail(entries) = Del(entries, 1) /\ 1 \in 1..Len(list)
    BY <1>4, <1>5, <2>1, TailIs
  <2>3. rd_lru_elm_destroy(list[1], Del(entries, 1))
    BY <1>6, <1>8, <2>1, <2>2 DEF rd_lru_shift
  <2> QED  BY <1>1, <1>2, <2>2, <2>3, LruTakeInv
<1>9. CASE rd_lru_destroy
  <2>1. FOREACH(rlru_elms, LruHead) = list
    BY <1>3, LruHeadIs, WalkIs
  <2>2. /\ lruFault' = (lruFault \/ rlru_cnt < Len(list))
        /\ rlrue_ptr' = [e \in SqElms |-> IF e \in ToSet(list) THEN SqNil ELSE rlrue_ptr[e]]
        /\ rlru_elms' = EmptyLists /\ rlru_cnt' = 0 /\ entries' = << >>
    BY <1>9, <2>1 DEF rd_lru_destroy
  <2>3. ~(rlru_cnt < Len(list))
    BY <1>4, <1>5
  <2>4. \A e \in SqElms : Holds(list, e) <=> e \in ToSet(list)
    BY <1>3, SeqFacts DEF Holds, ToSet
  <2>5. \A e \in SqElms : rlrue_ptr'[e] = SqNil
    BY <1>2, <2>2, <2>4 DEF LruHas
  <2>6. rlrue_ptr' \in [SqElms -> LruPtrs \cup {SqNil}]
    BY <2>2, <2>5
  <2>7. LruHas(<< >>)'
    <3>1. ListIn(EmptyLists, LruHead, << >>, "TAILQ")
      BY LruHeadIs, EmptyList
    <3>2. /\ << >> \in Seq(LruPtrs) /\ Len(<< >>) = 0 /\ 1..0 = {} /\ \A x : ~Holds(<< >>, x)
      BY DEF Holds
    <3> QED  BY <2>2, <2>5, <3>1, <3>2 DEF LruHas
  <2>8. lruFault' = FALSE
    BY <1>1, <2>2, <2>3 DEF LruInv
  <2> QED  BY <2>6, <2>7, <2>8 DEF LruInv
<1>10. CASE UNCHANGED lruVars
  <2>1. LruHas(list)'
    BY <1>2, <1>10 DEF LruHas, lruVars
  <2> QED  BY <1>1, <1>10, <2>1 DEF LruInv, lruVars
<1>11. ASSUME NEW e \in SqElms, NEW ptr \in LruPtrs, rd_lru_push(e, ptr) PROVE LruInv'
  BY <1>1, <1>11, LruPushInv
<1> QED  BY <1>1, <1>7, <1>8, <1>9, <1>10, <1>11 DEF LruNext

LEMMA OrderByInv == LruInv => LruKeepsOrder
<1>1. SUFFICES ASSUME LruInv PROVE LruKeepsOrder
  OBVIOUS
<1>2. PICK list : LruHas(list)
  BY <1>1 DEF LruInv
<1>3. /\ list \in Seq(SqElms) /\ ListIn(rlru_elms, LruHead, list, "TAILQ")
      /\ Distinct(list) /\ Chain(rlru_elms, LruHead, list, "TAILQ")
  BY <1>2 DEF LruHas, ListIn
<1>4. PICK n \in Nat : n = Len(list) /\ DOMAIN list = 1..n
  BY <1>3, SeqFacts
<1>5. FOREACH(rlru_elms, LruHead) = list
  BY <1>3, LruHeadIs, WalkIs
<1>6. /\ entries \in Seq(LruPtrs) /\ Len(entries) = n /\ rlru_cnt = n
      /\ \A i \in 1..n : entries[i] = rlrue_ptr[list[i]]
  BY <1>2, <1>4 DEF LruHas
<1>7. [i \in DOMAIN list |-> rlrue_ptr[list[i]]] = entries
  <2>1. entries = [i \in 1..n |-> entries[i]]
    BY <1>6, LenProperties
  <2> QED  BY <1>4, <1>6, <2>1
<1>8. entries # << >> => rlrue_ptr[Oldest(rlru_elms)] = Last(entries)
  <2>1. entries # << >> => n # 0
    BY <1>6, SeqFacts
  <2>2. n # 0 => n \in 1..n
    BY <1>4
  <2>3. Oldest(rlru_elms) = IF n = 0 THEN SqNil ELSE list[n]
    BY <1>3, <1>4, LastIs DEF Oldest
  <2> QED  BY <1>6, <2>1, <2>2, <2>3 DEF Last
<1>9. {e \in SqElms : rlrue_ptr[e] # SqNil} = ToSet(list)
  <2>1. \A e \in SqElms : rlrue_ptr[e] # SqNil <=> Holds(list, e)
    BY <1>2 DEF LruHas
  <2>2. \A e : Holds(list, e) <=> e \in ToSet(list)
    BY <1>4 DEF Holds, ToSet
  <2>3. \A e : Holds(list, e) => e \in SqElms
    BY <1>3, SeqFacts DEF Holds
  <2> QED  BY <2>1, <2>2, <2>3
<1>10. ~lruFault
  BY <1>1 DEF LruInv
<1> QED  BY <1>5, <1>6, <1>7, <1>8, <1>9, <1>10 DEF LruKeepsOrder

\* An LRU list of any size gives its entries back in their order, whichever
\* ends they are taken from and whatever cells come back, and its count and
\* the cells in use match them.
THEOREM LruOrderIsKept == LruSpec => []LruKeepsOrder
<1>1. LruSpec => []LruInv
  BY LruInitInv, LruNextInv, PTL DEF LruSpec
<1> QED  BY <1>1, OrderByInv, PTL
=============================================================================
