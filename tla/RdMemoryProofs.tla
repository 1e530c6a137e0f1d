--------------------------- MODULE RdMemoryProofs ---------------------------
(***************************************************************************)
(* Proofs about the containers that keep accounts of bytes: buffers, whose *)
(* head keeps the sum of their lengths, and memory contexts, which count   *)
(* the bytes they have out.                                                *)
(*                                                                         *)
(* The sums and the concatenations are recursive functions over the places *)
(* of a sequence.  Upto is the induction they need, as a statement about a *)
(* set of places; from it follow that the functions exist and what they do *)
(* with a concatenation of sequences.                                      *)
(***************************************************************************)
EXTENDS RdContainersProofs, RdBuf, RdMemctx

-----------------------------------------------------------------------------
(* Induction over the places of a sequence.                                *)

LEMMA Upto ==
    ASSUME NEW n \in Nat, NEW T, 0 \in T, \A i \in 1..n : i - 1 \in T => i \in T
    PROVE  \A i \in 0..n : i \in T
<1>1. SUFFICES ASSUME ~(\A i \in 0..n : i \in T) PROVE FALSE
  OBVIOUS
<1>2. PICK R \in SUBSET Nat : R = {i \in 0..n : i \notin T}
  <2>1. {i \in 0..n : i \notin T} \in SUBSET Nat
    OBVIOUS
  <2> QED  BY <2>1
<1>3. R # {}
  BY <1>1, <1>2
<1>4. PICK k \in R : \A j \in R : k <= j
  BY <1>3, LeastExists
<1>5. k \in 0..n /\ k \notin T
  BY <1>2
<1>6. k \in 1..n /\ k - 1 \in 0..n /\ ~(k <= k - 1)
  BY <1>5
<1>7. k - 1 \in T
  BY <1>2, <1>4, <1>6
<1> QED  BY <1>5, <1>6, <1>7

\* The steps G from each place to the next, starting from a.
Steps(G, n, V, a) == G \in [1..n -> [V -> V]] /\ a \in V

\* A function defined by such steps exists.
LEMMA RecExists ==
    ASSUME NEW n \in Nat, NEW V, NEW a, NEW G, Steps(G, n, V, a)
    PROVE  \E f \in [0..n -> V] : f[0] = a /\ \A i \in 1..n : f[i] = G[i][f[i - 1]]
<1> DEFINE P(k) == \E f \in [0..k -> V] : f[0] = a /\ \A i \in 1..k : f[i] = G[i][f[i - 1]]
<1>0. G \in [1..n -> [V -> V]] /\ a \in V
  BY DEF Steps
<1>1. P(0)
  <2>1. [i \in 0..0 |-> a] \in [0..0 -> V] /\ [i \in 0..0 |-> a][0] = a /\ 1..0 = {}
    BY <1>0
  <2> QED  BY <2>1
<1>2. ASSUME NEW k \in 1..n, P(k - 1) PROVE P(k)
  <2>1. PICK f \in [0..(k - 1) -> V] :
            f[0] = a /\ \A i \in 1..(k - 1) : f[i] = G[i][f[i - 1]]
    BY <1>2
  <2>2. k - 1 \in 0..(k - 1) /\ 0 \in 0..(k - 1)
    BY <1>2
  <2>3. f[k - 1] \in V
    BY <2>1, <2>2
  <2>4. PICK x \in V : x = G[k][f[k - 1]]
    BY <1>0, <2>3
  <2>5. PICK g : g = [i \in 0..k |-> IF i = k THEN x ELSE f[i]]
    OBVIOUS
  <2>6. \A i \in 0..k : i # k => i \in 0..(k - 1)
    BY <1>2
  <2>7. g \in [0..k -> V] /\ \A i \in 0..k : g[i] = IF i = k THEN x ELSE f[i]
    BY <2>1, <2>5, <2>6
  <2>8. g[0] = a
    <3>1. 0 \in 0..k /\ 0 # k
      BY <1>2
    <3> QED  BY <2>1, <2>7, <3>1
  <2>9. ASSUME NEW i \in 1..k PROVE g[i] = G[i][g[i - 1]]
    <3>1. i \in 0..k /\ i - 1 \in 0..k /\ i - 1 # k /\ (i # k => i \in 1..(k - 1))
      BY <1>2
    <3>2. g[i - 1] = f[i - 1]
      BY <2>7, <3>1
    <3>3. g[i] = IF i = k THEN x ELSE f[i]
      BY <2>7, <3>1
    <3>4. CASE i = k
      BY <2>4, <3>2, <3>3, <3>4
    <3>5. CASE i # k
      BY <2>1, <3>1, <3>2, <3>3, <3>5
    <3> QED  BY <3>4, <3>5
  <2> QED  BY <2>7, <2>8, <2>9
<1> HIDE DEF P
<1>3. PICK T : T = {k \in 0..n : P(k)}
  OBVIOUS
<1>4. 0 \in T
  BY <1>1, <1>3
<1>5. ASSUME NEW i \in 1..n, i - 1 \in T PROVE i \in T
  BY <1>2, <1>3, <1>5
<1>6. n \in T
  <2>1. n \in 0..n
    OBVIOUS
  <2> QED  BY <1>4, <1>5, <2>1, Upto
<1> QED  BY <1>3, <1>6 DEF P

\* Two functions with the same beginning and the same step.
InStep(f, g, n) ==
    f[0] = g[0] /\ \A i \in 1..n : f[i - 1] = g[i - 1] => f[i] = g[i]

LEMMA RecSame ==
    ASSUME NEW n \in Nat, NEW f, NEW g, InStep(f, g, n)
    PROVE  \A i \in 0..n : f[i] = g[i]
<1>1. PICK T : T = {i \in 0..n : f[i] = g[i]}
  OBVIOUS
<1>2. 0 \in T
  BY <1>1 DEF InStep
<1>3. ASSUME NEW i \in 1..n, i - 1 \in T PROVE i \in T
  BY <1>1, <1>3 DEF InStep
<1>4. \A i \in 0..n : i \in T
  BY <1>2, <1>3, Upto
<1> QED  BY <1>1, <1>4

-----------------------------------------------------------------------------
(* Buffers.                                                                *)

BufBytes == DataBytes \cup {Junk, Nul}

\* A buffer is as long as its memory and uses a part of it.
Bufs ==
    {b \in [rb_len : Nat, rb_olen : Nat, rb_orig : Seq(BufBytes)] :
        b.rb_len <= b.rb_olen /\ Len(b.rb_orig) = b.rb_olen}

LEMMA BufFacts ==
    ASSUME NEW b \in Bufs
    PROVE  /\ b.rb_len \in Nat /\ b.rb_olen \in Nat /\ b.rb_orig \in Seq(BufBytes)
           /\ b.rb_len <= b.rb_olen /\ Len(b.rb_orig) = b.rb_olen
           /\ b = [rb_len |-> b.rb_len, rb_olen |-> b.rb_olen, rb_orig |-> b.rb_orig]
BY DEF Bufs

LEMMA UsedFacts ==
    ASSUME NEW b \in Bufs
    PROVE  /\ Used(b) \in Seq(BufBytes) /\ Len(Used(b)) = b.rb_len
           /\ \A i \in 1..b.rb_len : Used(b)[i] = b.rb_orig[i]
<1>1. PICK len \in Nat, orig \in Seq(BufBytes) :
            len = b.rb_len /\ orig = b.rb_orig /\ len <= Len(orig)
  BY BufFacts
<1>2. PICK one \in 1..Len(orig) + 1 : one = 1
  BY <1>1, SeqFacts
<1>3. len \in 0..Len(orig) /\ one <= len + 1
  BY <1>1, <1>2, SeqFacts
<1>4. /\ SubSeq(orig, one, len) \in Seq(BufBytes)
      /\ Len(SubSeq(orig, one, len)) = len - one + 1
      /\ \A i \in 1..(len - one + 1) : SubSeq(orig, one, len)[i] = orig[one + i - 1]
  BY <1>3, PartFacts
<1>5. len - one + 1 = len /\ \A i \in 1..len : one + i - 1 = i
  BY <1>1, <1>2
<1> QED  BY <1>1, <1>2, <1>4, <1>5 DEF Used

\* The function by which TotalLen sums up.
LEMMA TotalSteps ==
    ASSUME NEW bs \in Seq(Bufs)
    PROVE  \E S \in [0..Len(bs) -> Nat] :
              /\ TotalLen(bs) = S[Len(bs)] /\ S[0] = 0
              /\ \A i \in 1..Len(bs) : S[i] = S[i - 1] + bs[i].rb_len
<1>1. PICK n \in Nat : n = Len(bs)
  BY SeqFacts
<1>2. \A i \in 1..n : bs[i].rb_len \in Nat
  BY <1>1, SeqFacts, BufFacts
<1>3. PICK G : G = [i \in 1..n |-> [x \in Nat |-> x + bs[i].rb_len]]
  OBVIOUS
<1>4. G \in [1..n -> [Nat -> Nat]] /\ \A i \in 1..n, x \in Nat : G[i][x] = x + bs[i].rb_len
  BY <1>2, <1>3
<1>5. PICK S \in [0..n -> Nat] : S[0] = 0 /\ \A i \in 1..n : S[i] = G[i][S[i - 1]]
  <2>1. PICK z : z = 0
    OBVIOUS
  <2>2. PICK V : V = Nat
    OBVIOUS
  <2>3. Steps(G, n, V, z)
    BY <1>4, <2>1, <2>2 DEF Steps
  <2>4. \E f \in [0..n -> V] : f[0] = z /\ \A i \in 1..n : f[i] = G[i][f[i - 1]]
    BY <2>3, RecExists
  <2> QED  BY <2>1, <2>2, <2>4
<1>6. \A i \in 1..n : S[i] = S[i - 1] + bs[i].rb_len
  <2>1. \A i \in 1..n : i - 1 \in 0..n
    BY <1>1
  <2> QED  BY <1>4, <1>5, <2>1
<1> DEFINE Step(f) == [i \in 0..Len(bs) |-> IF i = 0 THEN 0 ELSE f[i - 1] + bs[i].rb_len]
<1>7. S = Step(S)
  <2>1. S = [i \in 0..n |-> S[i]]
    BY <1>5
  <2>2. \A i \in 0..n : S[i] = IF i = 0 THEN 0 ELSE S[i - 1] + bs[i].rb_len
    BY <1>1, <1>5, <1>6
  <2> QED  BY <1>1, <2>1, <2>2
<1>8. ASSUME NEW f, f = Step(f) PROVE f = S
  <2>1. f = [i \in 0..n |-> f[i]]
    BY <1>1, <1>8
  <2>2. \A i \in 0..n : f[i] = IF i = 0 THEN 0 ELSE f[i - 1] + bs[i].rb_len
    BY <1>1, <1>8
  <2>3. f[0] = S[0]
    BY <1>1, <1>5, <2>2
  <2>4. ASSUME NEW i \in 1..n, f[i - 1] = S[i - 1] PROVE f[i] = S[i]
    <3>1. i \in 0..n /\ i # 0
      BY <1>1
    <3> QED  BY <1>6, <2>2, <2>4, <3>1
  <2>5. \A i \in 0..n : f[i] = S[i]
    <3>1. InStep(f, S, n)
      BY <2>3, <2>4 DEF InStep
    <3> QED  BY <3>1, RecSame
  <2>6. S = [i \in 0..n |-> S[i]]
    BY <1>5
  <2> QED  BY <2>1, <2>5, <2>6
<1>9. (CHOOSE f : f = Step(f)) = S
  <2> HIDE DEF Step
  <2> QED  BY <1>7, <1>8
<1>10. TotalLen(bs) = S[Len(bs)]
  <2> DEFINE C == CHOOSE sum : sum = [i \in 0..Len(bs) |->
                        IF i = 0 THEN 0 ELSE sum[i - 1] + bs[i].rb_len]
  <2>1. C = S
    BY <1>9
  <2>2. TotalLen(bs) = C[Len(bs)]
    BY Zenon DEF TotalLen
  <2> HIDE DEF C
  <2> QED  BY <2>1, <2>2
<1> QED  BY <1>1, <1>5, <1>6, <1>10

LEMMA TotalType ==
    ASSUME NEW bs \in Seq(Bufs)
    PROVE  TotalLen(bs) \in Nat
<1>1. Len(bs) \in 0..Len(bs)
  BY SeqFacts
<1> QED  BY <1>1, TotalSteps

LEMMA TotalEmpty == TotalLen(<< >>) = 0
<1>1. << >> \in Seq(Bufs) /\ Len(<< >>) = 0
  OBVIOUS
<1> QED  BY <1>1, TotalSteps

LEMMA TotalOne ==
    ASSUME NEW b \in Bufs
    PROVE  TotalLen(<<b>>) = b.rb_len
<1>1. PICK s : s = <<b>>
  OBVIOUS
<1>2. s \in Seq(Bufs) /\ Len(s) = 1 /\ s[1] = b
  BY <1>1
<1>3. PICK S \in [0..Len(s) -> Nat] :
              /\ TotalLen(s) = S[Len(s)] /\ S[0] = 0
              /\ \A i \in 1..Len(s) : S[i] = S[i - 1] + s[i].rb_len
  BY <1>2, TotalSteps
<1>4. TotalLen(s) = S[1 - 1] + b.rb_len /\ 1 - 1 = 0
  BY <1>2, <1>3
<1>5. b.rb_len \in Nat
  BY BufFacts
<1> QED  BY <1>1, <1>3, <1>4, <1>5

\* The sum over two lists, one behind the other.
LEMMA TotalConcat ==
    ASSUME NEW s \in Seq(Bufs), NEW t \in Seq(Bufs)
    PROVE  TotalLen(s \o t) = TotalLen(s) + TotalLen(t)
<1>1. PICK a \in Nat, b \in Nat : a = Len(s) /\ b = Len(t)
  BY SeqFacts
<1>2. PICK u : u = s \o t
  OBVIOUS
<1>3. /\ u \in Seq(Bufs) /\ Len(u) = a + b
      /\ \A i \in 1..a : u[i] = s[i]
      /\ \A i \in 1..b : u[a + i] = t[i]
  <2>1. /\ s \o t \in Seq(Bufs) /\ Len(s \o t) = Len(s) + Len(t)
        /\ \A i \in 1..Len(s) : (s \o t)[i] = s[i]
        /\ \A i \in 1..Len(t) : (s \o t)[Len(s) + i] = t[i]
    BY ConcatFacts
  <2> QED  BY <1>1, <1>2, <2>1
<1>4. PICK S \in [0..a -> Nat] :
              /\ TotalLen(s) = S[a] /\ S[0] = 0
              /\ \A i \in 1..a : S[i] = S[i - 1] + s[i].rb_len
  BY <1>1, TotalSteps
<1>5. PICK T \in [0..b -> Nat] :
              /\ TotalLen(t) = T[b] /\ T[0] = 0
              /\ \A i \in 1..b : T[i] = T[i - 1] + t[i].rb_len
  BY <1>1, TotalSteps
<1>6. PICK U \in [0..Len(u) -> Nat] :
              /\ TotalLen(u) = U[Len(u)] /\ U[0] = 0
              /\ \A i \in 1..Len(u) : U[i] = U[i - 1] + u[i].rb_len
  BY <1>3, TotalSteps
<1>7. \A i \in 0..a : U[i] = S[i]
  <2>1. ASSUME NEW i \in 1..a, U[i - 1] = S[i - 1] PROVE U[i] = S[i]
    <3>1. i \in 1..Len(u)
      BY <1>1, <1>3
    <3> QED  BY <1>3, <1>4, <1>6, <2>1, <3>1
  <2>2. PICK f, g : f = U /\ g = S
    OBVIOUS
  <2>3. InStep(f, g, a)
    BY <1>4, <1>6, <2>1, <2>2 DEF InStep
  <2>4. \A i \in 0..a : f[i] = g[i]
    BY <2>3, RecSame
  <2> QED  BY <2>2, <2>4
<1>8. \A i \in 0..b : U[a + i] = S[a] + T[i]
  <2>1. PICK f : f = [i \in 0..b |-> U[a + i]]
    OBVIOUS
  <2>2. PICK g : g = [i \in 0..b |-> S[a] + T[i]]
    OBVIOUS
  <2>3. S[a] \in Nat /\ 0 \in 0..b /\ a + 0 = a /\ a \in 0..a
    BY <1>1, <1>4
  <2>4. f[0] = U[a + 0] /\ g[0] = S[a] + T[0]
    BY <2>1, <2>2, <2>3
  <2>5. f[0] = g[0]
    BY <1>5, <1>7, <2>3, <2>4
  <2>6. ASSUME NEW i \in 1..b, f[i - 1] = g[i - 1] PROVE f[i] = g[i]
    <3>1. i \in 0..b /\ i - 1 \in 0..b /\ a + i \in 1..Len(u) /\ (a + i) - 1 = a + (i - 1)
      BY <1>1, <1>3
    <3>2. f[i] = U[a + i] /\ f[i - 1] = U[a + (i - 1)]
      BY <2>1, <3>1
    <3>3. g[i] = S[a] + T[i] /\ g[i - 1] = S[a] + T[i - 1]
      BY <2>2, <3>1
    <3>4. PICK w \in Nat : w = t[i].rb_len
      BY <1>1, SeqFacts, BufFacts
    <3>5. U[a + i] = U[(a + i) - 1] + u[a + i].rb_len
      BY <1>6, <3>1
    <3>6. u[a + i] = t[i]
      BY <1>3
    <3>7. f[i] = g[i - 1] + w
      BY <2>6, <3>1, <3>2, <3>4, <3>5, <3>6
    <3>8. T[i] = T[i - 1] + w /\ T[i - 1] \in Nat
      BY <1>5, <3>1, <3>4
    <3>9. PICK x \in Nat, y \in Nat : x = S[a] /\ y = T[i - 1]
      BY <2>3, <3>8
    <3>10. f[i] = (x + y) + w /\ g[i] = x + (y + w)
      BY <3>3, <3>7, <3>8, <3>9
    <3> QED  BY <3>10
  <2>7. \A i \in 0..b : f[i] = g[i]
    <3>1. InStep(f, g, b)
      BY <2>5, <2>6 DEF InStep
    <3>2. ASSUME NEW i \in 0..b PROVE f[i] = g[i]
      BY <3>1, RecSame
    <3> QED  BY <3>2
  <2> QED  BY <2>1, <2>2, <2>7
<1>9. b \in 0..b
  BY <1>1
<1> QED  BY <1>2, <1>3, <1>4, <1>5, <1>6, <1>8, <1>9

\* The function by which Joined puts sequences together.
LEMMA JoinedSteps ==
    ASSUME NEW ss \in Seq(Seq(BufBytes))
    PROVE  \E S \in [0..Len(ss) -> Seq(BufBytes)] :
              /\ Joined(ss) = S[Len(ss)] /\ S[0] = << >>
              /\ \A i \in 1..Len(ss) : S[i] = S[i - 1] \o ss[i]
<1>1. PICK n \in Nat : n = Len(ss)
  BY SeqFacts
<1>2. \A i \in 1..n : ss[i] \in Seq(BufBytes)
  BY <1>1, SeqFacts
<1>3. PICK G : G = [i \in 1..n |-> [x \in Seq(BufBytes) |-> x \o ss[i]]]
  OBVIOUS
<1>4. /\ G \in [1..n -> [Seq(BufBytes) -> Seq(BufBytes)]]
      /\ \A i \in 1..n, x \in Seq(BufBytes) : G[i][x] = x \o ss[i]
  <2>1. \A i \in 1..n, x \in Seq(BufBytes) : x \o ss[i] \in Seq(BufBytes)
    BY <1>2, ConcatFacts
  <2> QED  BY <1>3, <2>1
<1>5. PICK S \in [0..n -> Seq(BufBytes)] :
            S[0] = << >> /\ \A i \in 1..n : S[i] = G[i][S[i - 1]]
  <2>1. PICK z : z = << >>
    OBVIOUS
  <2>2. PICK V : V = Seq(BufBytes)
    OBVIOUS
  <2>3. Steps(G, n, V, z)
    BY <1>4, <2>1, <2>2 DEF Steps
  <2>4. \E f \in [0..n -> V] : f[0] = z /\ \A i \in 1..n : f[i] = G[i][f[i - 1]]
    BY <2>3, RecExists
  <2> QED  BY <2>1, <2>2, <2>4
<1>6. \A i \in 1..n : S[i] = S[i - 1] \o ss[i]
  <2>1. \A i \in 1..n : i - 1 \in 0..n
    BY <1>1
  <2> QED  BY <1>4, <1>5, <2>1
<1> DEFINE Step(f) == [i \in 0..Len(ss) |-> IF i = 0 THEN << >> ELSE f[i - 1] \o ss[i]]
<1>7. S = Step(S)
  <2>1. S = [i \in 0..n |-> S[i]]
    BY <1>5
  <2>2. ASSUME NEW i \in 0..n PROVE S[i] = IF i = 0 THEN << >> ELSE S[i - 1] \o ss[i]
    <3>1. i # 0 => i \in 1..n
      BY <1>1
    <3>2. CASE i = 0
      BY <1>5, <3>2
    <3>3. CASE i # 0
      BY <1>6, <3>1, <3>3
    <3> QED  BY <3>2, <3>3
  <2> QED  BY <1>1, <2>1, <2>2
<1>8. ASSUME NEW f, f = Step(f) PROVE f = S
  <2>1. f = [i \in 0..n |-> f[i]]
    BY <1>1, <1>8
  <2>2. \A i \in 0..n : f[i] = IF i = 0 THEN << >> ELSE f[i - 1] \o ss[i]
    BY <1>1, <1>8
  <2>3. f[0] = S[0]
    BY <1>1, <1>5, <2>2
  <2>4. ASSUME NEW i \in 1..n, f[i - 1] = S[i - 1] PROVE f[i] = S[i]
    <3>1. i \in 0..n /\ i # 0
      BY <1>1
    <3> QED  BY <1>6, <2>2, <2>4, <3>1
  <2>5. \A i \in 0..n : f[i] = S[i]
    <3>1. InStep(f, S, n)
      BY <2>3, <2>4 DEF InStep
    <3> QED  BY <3>1, RecSame
  <2>6. S = [i \in 0..n |-> S[i]]
    BY <1>5
  <2> QED  BY <2>1, <2>5, <2>6
<1>9. (CHOOSE f : f = Step(f)) = S
  <2> HIDE DEF Step
  <2> QED  BY <1>7, <1>8
<1>10. Joined(ss) = S[Len(ss)]
  <2> DEFINE C == CHOOSE out : out = [i \in 0..Len(ss) |->
                        IF i = 0 THEN << >> ELSE out[i - 1] \o ss[i]]
  <2>1. C = S
    BY <1>9
  <2>2. Joined(ss) = C[Len(ss)]
    BY Zenon DEF Joined
  <2> HIDE DEF C
  <2> QED  BY <2>1, <2>2
<1> QED  BY <1>1, <1>5, <1>6, <1>10

\* The bytes in use in each buffer of a list.
UsedOf(bs) == [i \in DOMAIN bs |-> Used(bs[i])]

LEMMA UsedOfFacts ==
    ASSUME NEW bs \in Seq(Bufs)
    PROVE  /\ UsedOf(bs) \in Seq(Seq(BufBytes)) /\ Len(UsedOf(bs)) = Len(bs)
           /\ \A i \in 1..Len(bs) : UsedOf(bs)[i] = Used(bs[i])
<1>1. PICK n \in Nat : n = Len(bs) /\ DOMAIN bs = 1..n
  BY SeqFacts
<1>2. PICK f : f = UsedOf(bs)
  OBVIOUS
<1>3. /\ DOMAIN f = 1..n /\ f = [i \in 1..n |-> f[i]]
      /\ \A i \in 1..n : f[i] = Used(bs[i])
  BY <1>1, <1>2 DEF UsedOf
<1>4. \A i \in 1..n : f[i] \in Seq(BufBytes)
  BY <1>1, <1>3, SeqFacts, UsedFacts
<1>5. f \in Seq(Seq(BufBytes)) /\ Len(f) = n
  BY <1>3, <1>4, SeqBy
<1> QED  BY <1>1, <1>2, <1>3, <1>5

\* The function by which Copyout gathers the bytes.
LEMMA CopySteps ==
    ASSUME NEW bs \in Seq(Bufs)
    PROVE  \E S \in [0..Len(bs) -> Seq(BufBytes)] :
              /\ Copyout(bs) = S[Len(bs)] /\ S[0] = << >>
              /\ \A i \in 1..Len(bs) : S[i] = S[i - 1] \o Used(bs[i])
<1>1. PICK ss \in Seq(Seq(BufBytes)) :
            /\ ss = UsedOf(bs) /\ Len(ss) = Len(bs)
            /\ \A i \in 1..Len(bs) : ss[i] = Used(bs[i])
  BY UsedOfFacts
<1>2. PICK S \in [0..Len(ss) -> Seq(BufBytes)] :
              /\ Joined(ss) = S[Len(ss)] /\ S[0] = << >>
              /\ \A i \in 1..Len(ss) : S[i] = S[i - 1] \o ss[i]
  BY JoinedSteps
<1>3. Copyout(bs) = Joined(ss)
  BY <1>1 DEF Copyout, UsedOf
<1> QED  BY <1>1, <1>2, <1>3

LEMMA JoinAssoc ==
    ASSUME NEW x \in Seq(BufBytes), NEW y \in Seq(BufBytes), NEW w \in Seq(BufBytes)
    PROVE  (x \o y) \o w = x \o (y \o w)
<1>1. PICK B : B = BufBytes
  OBVIOUS
<1>2. x \in Seq(B) /\ y \in Seq(B) /\ w \in Seq(B)
  BY <1>1
<1> QED  BY <1>2, ConcatAssociative

LEMMA CopyType ==
    ASSUME NEW bs \in Seq(Bufs)
    PROVE  Copyout(bs) \in Seq(BufBytes)
<1>1. PICK n \in Nat : n = Len(bs) /\ n \in 0..n
  BY SeqFacts
<1>2. PICK S \in [0..Len(bs) -> Seq(BufBytes)] : Copyout(bs) = S[Len(bs)]
  BY CopySteps
<1>3. S[n] \in Seq(BufBytes)
  BY <1>1
<1> QED  BY <1>1, <1>2, <1>3

LEMMA CopyEmpty == Copyout(<< >>) = << >>
<1>1. << >> \in Seq(Bufs) /\ Len(<< >>) = 0
  OBVIOUS
<1> QED  BY <1>1, CopySteps

LEMMA CopyOne ==
    ASSUME NEW b \in Bufs
    PROVE  Copyout(<<b>>) = Used(b)
<1>1. PICK s : s = <<b>>
  OBVIOUS
<1>2. s \in Seq(Bufs) /\ Len(s) = 1 /\ s[1] = b
  BY <1>1
<1>3. PICK S \in [0..Len(s) -> Seq(BufBytes)] :
              /\ Copyout(s) = S[Len(s)] /\ S[0] = << >>
              /\ \A i \in 1..Len(s) : S[i] = S[i - 1] \o Used(s[i])
  BY <1>2, CopySteps
<1>4. Copyout(s) = S[1 - 1] \o Used(b) /\ 1 - 1 = 0
  BY <1>2, <1>3
<1>5. << >> \o Used(b) = Used(b)
  BY UsedFacts, ConcatEmptySeq
<1> QED  BY <1>1, <1>3, <1>4, <1>5

\* The bytes of two lists, one behind the other.
LEMMA CopyConcat ==
    ASSUME NEW s \in Seq(Bufs), NEW t \in Seq(Bufs)
    PROVE  Copyout(s \o t) = Copyout(s) \o Copyout(t)
<1>1. PICK a \in Nat, b \in Nat : a = Len(s) /\ b = Len(t)
  BY SeqFacts
<1>2. PICK u : u = s \o t
  OBVIOUS
<1>3. /\ u \in Seq(Bufs) /\ Len(u) = a + b
      /\ \A i \in 1..a : u[i] = s[i]
      /\ \A i \in 1..b : u[a + i] = t[i]
  <2>1. /\ s \o t \in Seq(Bufs) /\ Len(s \o t) = Len(s) + Len(t)
        /\ \A i \in 1..Len(s) : (s \o t)[i] = s[i]
        /\ \A i \in 1..Len(t) : (s \o t)[Len(s) + i] = t[i]
    BY ConcatFacts
  <2> QED  BY <1>1, <1>2, <2>1
<1>4. PICK S \in [0..a -> Seq(BufBytes)] :
              /\ Copyout(s) = S[a] /\ S[0] = << >>
              /\ \A i \in 1..a : S[i] = S[i - 1] \o Used(s[i])
  BY <1>1, CopySteps
<1>5. PICK T \in [0..b -> Seq(BufBytes)] :
              /\ Copyout(t) = T[b] /\ T[0] = << >>
              /\ \A i \in 1..b : T[i] = T[i - 1] \o Used(t[i])
  BY <1>1, CopySteps
<1>6. PICK U \in [0..Len(u) -> Seq(BufBytes)] :
              /\ Copyout(u) = U[Len(u)] /\ U[0] = << >>
              /\ \A i \in 1..Len(u) : U[i] = U[i - 1] \o Used(u[i])
  BY <1>3, CopySteps
<1>7. \A i \in 0..a : U[i] = S[i]
  <2>1. ASSUME NEW i \in 1..a, U[i - 1] = S[i - 1] PROVE U[i] = S[i]
    <3>1. i \in 1..Len(u)
      BY <1>1, <1>3
    <3> QED  BY <1>3, <1>4, <1>6, <2>1, <3>1
  <2>2. PICK f, g : f = U /\ g = S
    OBVIOUS
  <2>3. InStep(f, g, a)
    BY <1>4, <1>6, <2>1, <2>2 DEF InStep
  <2>4. \A i \in 0..a : f[i] = g[i]
    BY <2>3, RecSame
  <2> QED  BY <2>2, <2>4
<1>8. \A i \in 0..b : U[a + i] = S[a] \o T[i]
  <2>1. PICK f : f = [i \in 0..b |-> U[a + i]]
    OBVIOUS
  <2>2. PICK g : g = [i \in 0..b |-> S[a] \o T[i]]
    OBVIOUS
  <2>3. S[a] \in Seq(BufBytes) /\ 0 \in 0..b /\ a + 0 = a /\ a \in 0..a
    BY <1>1, <1>4
  <2>4. f[0] = U[a + 0] /\ g[0] = S[a] \o T[0]
    BY <2>1, <2>2, <2>3
  <2>5. f[0] = g[0]
    <3>1. S[a] \o << >> = S[a]
      BY <2>3, ConcatEmptySeq
    <3> QED  BY <1>5, <1>7, <2>3, <2>4, <3>1
  <2>6. ASSUME NEW i \in 1..b, f[i - 1] = g[i - 1] PROVE f[i] = g[i]
    <3>1. i \in 0..b /\ i - 1 \in 0..b /\ a + i \in 1..Len(u) /\ (a + i) - 1 = a + (i - 1)
      BY <1>1, <1>3
    <3>2. f[i] = U[a + i] /\ f[i - 1] = U[a + (i - 1)]
      BY <2>1, <3>1
    <3>3. g[i] = S[a] \o T[i] /\ g[i - 1] = S[a] \o T[i - 1]
      BY <2>2, <3>1
    <3>4. PICK w \in Seq(BufBytes) : w = Used(t[i])
      BY <1>1, SeqFacts, UsedFacts
    <3>5. U[a + i] = U[(a + i) - 1] \o Used(u[a + i])
      BY <1>6, <3>1
    <3>6. u[a + i] = t[i]
      BY <1>3
    <3>7. f[i] = g[i - 1] \o w
      BY <2>6, <3>1, <3>2, <3>4, <3>5, <3>6
    <3>8. T[i] = T[i - 1] \o w /\ T[i - 1] \in Seq(BufBytes)
      BY <1>5, <3>1, <3>4
    <3>9. PICK x \in Seq(BufBytes), y \in Seq(BufBytes) : x = S[a] /\ y = T[i - 1]
      BY <2>3, <3>8
    <3>10. f[i] = (x \o y) \o w /\ g[i] = x \o (y \o w)
      BY <3>3, <3>7, <3>8, <3>9
    <3>11. (x \o y) \o w = x \o (y \o w)
      BY JoinAssoc
    <3> QED  BY <3>10, <3>11
  <2>7. \A i \in 0..b : f[i] = g[i]
    <3>1. InStep(f, g, b)
      BY <2>5, <2>6 DEF InStep
    <3>2. ASSUME NEW i \in 0..b PROVE f[i] = g[i]
      BY <3>1, RecSame
    <3> QED  BY <3>2
  <2> QED  BY <2>1, <2>2, <2>7
<1>9. b \in 0..b
  BY <1>1
<1> QED  BY <1>2, <1>3, <1>4, <1>5, <1>6, <1>8, <1>9

\* The lengths of the buffers add up to the number of bytes copied out.
LEMMA LenCopy ==
    ASSUME NEW bs \in Seq(Bufs)
    PROVE  Len(Copyout(bs)) = TotalLen(bs)
<1>1. PICK n \in Nat : n = Len(bs)
  BY SeqFacts
<1>2. PICK S \in [0..n -> Seq(BufBytes)] :
              /\ Copyout(bs) = S[n] /\ S[0] = << >>
              /\ \A i \in 1..n : S[i] = S[i - 1] \o Used(bs[i])
  BY <1>1, CopySteps
<1>3. PICK T \in [0..n -> Nat] :
              /\ TotalLen(bs) = T[n] /\ T[0] = 0
              /\ \A i \in 1..n : T[i] = T[i - 1] + bs[i].rb_len
  BY <1>1, TotalSteps
<1>4. PICK f : f = [i \in 0..n |-> Len(S[i])]
  OBVIOUS
<1>5. f[0] = T[0]
  <2>1. 0 \in 0..n /\ Len(<< >>) = 0
    BY <1>1
  <2> QED  BY <1>2, <1>3, <1>4, <2>1
<1>6. ASSUME NEW i \in 1..n, f[i - 1] = T[i - 1] PROVE f[i] = T[i]
  <2>1. i \in 0..n /\ i - 1 \in 0..n
    BY <1>1
  <2>2. PICK x \in Seq(BufBytes) : x = S[i - 1]
    BY <1>2, <2>1
  <2>3. bs[i] \in Bufs
    BY <1>1, SeqFacts
  <2>4. PICK w \in Seq(BufBytes) : w = Used(bs[i]) /\ Len(w) = bs[i].rb_len
    BY <2>3, UsedFacts
  <2>5. Len(x \o w) = Len(x) + Len(w)
    BY ConcatFacts
  <2>6. S[i] = x \o w
    BY <1>2, <2>2, <2>4
  <2>7. f[i] = Len(x \o w) /\ f[i - 1] = Len(x)
    BY <1>4, <2>1, <2>2, <2>6
  <2> QED  BY <1>3, <1>6, <2>4, <2>5, <2>7
<1>7. \A i \in 0..n : f[i] = T[i]
  <2>1. PICK g : g = T
    OBVIOUS
  <2>2. InStep(f, g, n)
    BY <1>5, <1>6, <2>1 DEF InStep
  <2>3. \A i \in 0..n : f[i] = g[i]
    BY <2>2, RecSame
  <2> QED  BY <2>1, <2>3
<1>8. n \in 0..n
  BY <1>1
<1> QED  BY <1>2, <1>3, <1>4, <1>7, <1>8

-----------------------------------------------------------------------------
(* Cutting and joining sequences.                                          *)

LEMMA PrefixFacts ==
    ASSUME NEW S, NEW s \in Seq(S), NEW k \in 0..Len(s)
    PROVE  /\ SubSeq(s, 1, k) \in Seq(S) /\ Len(SubSeq(s, 1, k)) = k
           /\ \A i \in 1..k : SubSeq(s, 1, k)[i] = s[i]
<1>1. PICK n \in Nat : n = Len(s)
  BY SeqFacts
<1>2. PICK one \in 1..Len(s) + 1 : one = 1
  BY <1>1
<1>3. one <= k + 1 /\ k - one + 1 = k
  BY <1>1, <1>2
<1>4. PICK v : v = SubSeq(s, one, k)
  OBVIOUS
<1>5. /\ v \in Seq(S) /\ Len(v) = k - one + 1
      /\ \A i \in 1..(k - one + 1) : v[i] = s[one + i - 1]
  BY <1>3, <1>4, PartFacts
<1>6. ASSUME NEW i \in 1..k PROVE v[i] = s[i]
  <2>1. one + i - 1 = i
    BY <1>2
  <2> QED  BY <1>3, <1>5, <2>1
<1>7. SubSeq(s, 1, k) = v
  BY <1>2, <1>4
<1> QED  BY <1>3, <1>5, <1>6, <1>7

LEMMA SuffixFacts ==
    ASSUME NEW S, NEW s \in Seq(S), NEW k \in 0..Len(s)
    PROVE  /\ SubSeq(s, k + 1, Len(s)) \in Seq(S)
           /\ Len(SubSeq(s, k + 1, Len(s))) = Len(s) - k
           /\ \A i \in 1..(Len(s) - k) : SubSeq(s, k + 1, Len(s))[i] = s[k + i]
<1>1. PICK n \in Nat : n = Len(s)
  BY SeqFacts
<1>2. PICK kk \in 1..Len(s) + 1, z \in 0..Len(s) : kk = k + 1 /\ z = n
  BY <1>1
<1>3. kk <= z + 1 /\ z - kk + 1 = n - k
  BY <1>1, <1>2
<1>4. PICK v : v = SubSeq(s, kk, z)
  OBVIOUS
<1>5. /\ v \in Seq(S) /\ Len(v) = z - kk + 1
      /\ \A i \in 1..(z - kk + 1) : v[i] = s[kk + i - 1]
  BY <1>3, <1>4, PartFacts
<1>6. ASSUME NEW i \in 1..(n - k) PROVE v[i] = s[k + i]
  <2>1. kk + i - 1 = k + i
    BY <1>1, <1>2
  <2> QED  BY <1>3, <1>5, <2>1
<1>7. SubSeq(s, k + 1, Len(s)) = v
  BY <1>1, <1>2, <1>4
<1> QED  BY <1>1, <1>3, <1>5, <1>6, <1>7

LEMMA SplitAt ==
    ASSUME NEW S, NEW s \in Seq(S), NEW k \in 0..Len(s)
    PROVE  /\ SubSeq(s, 1, k) \in Seq(S) /\ Len(SubSeq(s, 1, k)) = k
           /\ SubSeq(s, k + 1, Len(s)) \in Seq(S)
           /\ s = SubSeq(s, 1, k) \o SubSeq(s, k + 1, Len(s))
<1>1. PICK n \in Nat : n = Len(s)
  BY SeqFacts
<1>2. PICK one \in 1..n + 1, kk \in 1..n + 1, z \in 0..n :
            one = 1 /\ kk = k + 1 /\ z = n
  BY <1>1
<1>3. /\ SubSeq(s, one, k) \in Seq(S) /\ Len(SubSeq(s, one, k)) = k - one + 1
      /\ SubSeq(s, kk, z) \in Seq(S)
  <2>1. one <= k + 1 /\ kk <= z + 1
    BY <1>1, <1>2
  <2> QED  BY <1>1, <2>1, PartFacts
<1>4. SubSeq(s, one, k) \o SubSeq(s, k + 1, z) = SubSeq(s, one, z)
  <2>1. one \in 1..Len(s) + 1 /\ k \in one - 1..Len(s) /\ z \in k..Len(s)
    BY <1>1, <1>2
  <2> QED  BY <2>1, ConcatAdjacentSubSeq
<1>5. SubSeq(s, 1, Len(s)) = s
  BY SubSeqFull
<1>6. k - one + 1 = k
  BY <1>1, <1>2
<1> QED  BY <1>1, <1>2, <1>3, <1>4, <1>5, <1>6

-----------------------------------------------------------------------------
(* What the operations do to one list.                                     *)

LEMMA WrittenFacts ==
    ASSUME NEW b \in Bufs, NEW bytes \in Seq(BufBytes), NEW n \in 0..Len(bytes),
           Len(bytes) <= b.rb_olen - b.rb_len
    PROVE  /\ Written(b, bytes, n) \in Bufs
           /\ Written(b, bytes, n).rb_len = b.rb_len + n
           /\ Used(Written(b, bytes, n)) = Used(b) \o SubSeq(bytes, 1, n)
<1>1. PICK len \in Nat, olen \in Nat, orig \in Seq(BufBytes), m \in Nat :
            /\ len = b.rb_len /\ olen = b.rb_olen /\ orig = b.rb_orig
            /\ len <= olen /\ Len(orig) = olen /\ m = Len(bytes)
            /\ b = [rb_len |-> len, rb_olen |-> olen, rb_orig |-> orig]
  BY BufFacts, SeqFacts
<1>2. m <= olen - len /\ DOMAIN bytes = 1..m /\ DOMAIN orig = 1..olen
      /\ (\A i \in 1..m : bytes[i] \in BufBytes) /\ (\A i \in 1..olen : orig[i] \in BufBytes)
  BY <1>1, SeqFacts
<1>3. PICK w : w = Written(b, bytes, n)
  OBVIOUS
<1>4. PICK new : new = [i \in 1..olen |-> IF i - len \in 1..m THEN bytes[i - len] ELSE orig[i]]
  OBVIOUS
<1>5. w = [rb_len |-> len + n, rb_olen |-> olen, rb_orig |-> new]
  <2>1. b.rb_len = len /\ b.rb_orig = orig
    BY <1>1
  <2> QED  BY <1>1, <1>2, <1>3, <1>4, <2>1 DEF Written
<1>6. /\ DOMAIN new = 1..olen /\ new = [i \in 1..olen |-> new[i]]
      /\ \A i \in 1..olen : new[i] = IF i - len \in 1..m THEN bytes[i - len] ELSE orig[i]
  BY <1>4
<1>7. \A i \in 1..olen : new[i] \in BufBytes
  BY <1>2, <1>6
<1>8. new \in Seq(BufBytes) /\ Len(new) = olen
  BY <1>6, <1>7, SeqBy
<1>9. n \in Nat /\ n <= m /\ len + n \in Nat /\ len + n <= olen
  BY <1>1, <1>2
<1>10. w.rb_len = len + n /\ w.rb_olen = olen /\ w.rb_orig = new
  BY <1>5
<1>11. w \in Bufs
  BY <1>5, <1>8, <1>9 DEF Bufs
<1>12. PICK s \in Seq(BufBytes) : s = Used(b) /\ Len(s) = len /\ \A i \in 1..len : s[i] = orig[i]
  BY <1>1, UsedFacts
<1>13. PICK t \in Seq(BufBytes) : t = SubSeq(bytes, 1, n) /\ Len(t) = n /\ \A i \in 1..n : t[i] = bytes[i]
  <2>1. /\ SubSeq(bytes, 1, n) \in Seq(BufBytes) /\ Len(SubSeq(bytes, 1, n)) = n
        /\ \A i \in 1..n : SubSeq(bytes, 1, n)[i] = bytes[i]
    BY PrefixFacts
  <2> QED  BY <2>1
<1>14. PICK u \in Seq(BufBytes) :
            u = Used(w) /\ Len(u) = len + n /\ \A i \in 1..len + n : u[i] = new[i]
  BY <1>10, <1>11, UsedFacts
<1>15. PICK v \in Seq(BufBytes) :
            /\ v = s \o t /\ Len(v) = len + n
            /\ \A i \in 1..len : v[i] = s[i]
            /\ \A i \in 1..n : v[len + i] = t[i]
  <2>1. /\ s \o t \in Seq(BufBytes) /\ Len(s \o t) = Len(s) + Len(t)
        /\ \A i \in 1..Len(s) : (s \o t)[i] = s[i]
        /\ \A i \in 1..Len(t) : (s \o t)[Len(s) + i] = t[i]
    BY ConcatFacts
  <2>2. Len(s) = len /\ Len(t) = n
    BY <1>12, <1>13
  <2>3. PICK v : v = s \o t
    OBVIOUS
  <2>4. /\ v \in Seq(BufBytes) /\ Len(v) = len + n
        /\ \A i \in 1..len : v[i] = s[i]
        /\ \A i \in 1..n : v[len + i] = t[i]
    BY <2>1, <2>2, <2>3
  <2> QED  BY <2>3, <2>4
<1>16. ASSUME NEW i \in 1..len + n PROVE u[i] = v[i]
  <2>1. i \in 1..olen
    BY <1>1, <1>9
  <2>2. CASE i <= len
    <3>1. i \in 1..len /\ i - len \notin 1..m
      BY <1>1, <2>2
    <3>2. u[i] = orig[i]
      BY <1>6, <1>14, <2>1, <3>1
    <3>3. v[i] = orig[i]
      BY <1>12, <1>15, <3>1
    <3> QED  BY <3>2, <3>3
  <2>3. CASE i > len
    <3>1. PICK j \in 1..n : j = i - len /\ i = len + j /\ j \in 1..m
      <4>1. i \in Int /\ len \in Int /\ n \in Int /\ m \in Int /\ i <= len + n /\ n <= m
        BY <1>1, <1>9, <1>16
      <4>2. i - len \in 1..n /\ i = len + (i - len) /\ i - len \in 1..m
        BY <2>3, <4>1
      <4> QED  BY <4>2
    <3>2. u[i] = bytes[j]
      BY <1>6, <1>14, <2>1, <3>1
    <3>3. v[len + j] = bytes[j]
      BY <1>13, <1>15
    <3> QED  BY <3>1, <3>2, <3>3
  <2> QED  BY <1>1, <2>2, <2>3
<1>17. u = v
  <2>1. Len(u) = Len(v) /\ \A i \in 1..Len(u) : u[i] = v[i]
    BY <1>14, <1>15, <1>16
  <2> QED  BY <2>1, SeqSame
<1> QED  BY <1>1, <1>3, <1>10, <1>11, <1>12, <1>13, <1>14, <1>15, <1>17

LEMMA RunFacts ==
    ASSUME NEW d \in BufBytes, NEW n \in Nat
    PROVE  Run(d, n) \in Seq(BufBytes) /\ Len(Run(d, n)) = n
<1>1. PICK f : f = Run(d, n)
  OBVIOUS
<1>2. DOMAIN f = 1..n /\ f = [i \in 1..n |-> f[i]] /\ \A i \in 1..n : f[i] \in BufBytes
  BY <1>1 DEF Run
<1>3. f \in Seq(BufBytes) /\ Len(f) = n
  BY <1>2, SeqBy
<1> QED  BY <1>1, <1>3

\* A new buffer has nothing in use and room for what it was asked for.
LEMMA NewFacts ==
    ASSUME NEW data \in Seq(BufBytes), NEW len \in Nat, NEW owner \in BOOLEAN,
           owner => Len(data) = len
    PROVE  /\ rd_buf_new(data, len, owner) \in Bufs
           /\ rd_buf_new(data, len, owner).rb_len = 0
           /\ len <= rd_buf_new(data, len, owner).rb_olen
<1>1. PICK b : b = rd_buf_new(data, len, owner)
  OBVIOUS
<1>2. MinLen \in Nat
  BY BufAssumption
<1>3. CASE owner
  <2>1. b = [rb_len |-> 0, rb_olen |-> len, rb_orig |-> data]
    BY <1>1, <1>3 DEF rd_buf_new
  <2>2. Len(data) = len
    BY <1>3
  <2>3. b \in Bufs
    BY <2>1, <2>2 DEF Bufs
  <2> QED  BY <1>1, <2>1, <2>3
<1>4. CASE ~owner
  <2>1. PICK olen \in Nat : olen = (IF len < MinLen THEN MinLen ELSE len) /\ len <= olen
    BY <1>2
  <2>2. b = [rb_len |-> 0, rb_olen |-> olen, rb_orig |-> Run(Junk, olen)]
    BY <1>1, <1>4, <2>1 DEF rd_buf_new
  <2>3. Run(Junk, olen) \in Seq(BufBytes) /\ Len(Run(Junk, olen)) = olen
    <3>1. Junk \in BufBytes
      BY DEF BufBytes
    <3> QED  BY <3>1, RunFacts
  <2>4. b \in Bufs
    BY <2>2, <2>3 DEF Bufs
  <2> QED  BY <1>1, <2>1, <2>2, <2>4
<1> QED  BY <1>3, <1>4

Entries == [pre : Seq(BufBytes), added : Seq(BufBytes)]

\* What was given for each buffer of a list, and the bytes it has in use.
Matches(bs, cs) ==
    /\ bs \in Seq(Bufs) /\ cs \in Seq(Entries) /\ Len(cs) = Len(bs)
    /\ \A i \in 1..Len(bs) : cs[i].added = Used(bs[i])

\* What a head keeps is right for its list of buffers.
HeadOk(bs, len, cs) ==
    bs \in Seq(Bufs) /\ len = TotalLen(bs) /\ Matches(bs, cs)

\* The list new is bs, or bs and an unused buffer, and has room for len more
\* bytes at its end.
RoomIn(new, bs, len) ==
    /\ new \in Seq(Bufs) /\ new # << >>
    /\ new = bs \/ \E b \in Bufs : b.rb_len = 0 /\ new = Append(bs, b)
    /\ len <= new[Len(new)].rb_olen - new[Len(new)].rb_len

LEMMA MatchesEmpty == Matches(<< >>, << >>)
<1>1. << >> \in Seq(Bufs) /\ << >> \in Seq(Entries) /\ 1..Len(<< >>) = {}
  OBVIOUS
<1> QED  BY <1>1 DEF Matches

LEMMA MatchesOne ==
    ASSUME NEW b \in Bufs, NEW c \in Entries, c.added = Used(b)
    PROVE  Matches(<<b>>, <<c>>)
<1>1. PICK s, t : s = <<b>> /\ t = <<c>>
  OBVIOUS
<1>2. /\ s \in Seq(Bufs) /\ Len(s) = 1 /\ s[1] = b
      /\ t \in Seq(Entries) /\ Len(t) = 1 /\ t[1] = c
  BY <1>1
<1>3. \A i \in 1..1 : i = 1
  OBVIOUS
<1> QED  BY <1>1, <1>2, <1>3 DEF Matches

LEMMA MatchesConcat ==
    ASSUME NEW s, NEW cs, Matches(s, cs), NEW t, NEW ct, Matches(t, ct)
    PROVE  Matches(s \o t, cs \o ct)
<1>1. PICK a \in Nat, b \in Nat :
            /\ a = Len(s) /\ b = Len(t) /\ a = Len(cs) /\ b = Len(ct)
            /\ s \in Seq(Bufs) /\ t \in Seq(Bufs)
            /\ cs \in Seq(Entries) /\ ct \in Seq(Entries)
  BY SeqFacts DEF Matches
<1>2. PICK u, v : u = s \o t /\ v = cs \o ct
  OBVIOUS
<1>3. /\ u \in Seq(Bufs) /\ Len(u) = a + b
      /\ \A i \in 1..a : u[i] = s[i]
      /\ \A i \in 1..b : u[a + i] = t[i]
  <2>1. PICK E : E = Bufs
    OBVIOUS
  <2>2. s \in Seq(E) /\ t \in Seq(E)
    BY <1>1, <2>1
  <2>3. /\ s \o t \in Seq(E) /\ Len(s \o t) = Len(s) + Len(t)
        /\ \A i \in 1..Len(s) : (s \o t)[i] = s[i]
        /\ \A i \in 1..Len(t) : (s \o t)[Len(s) + i] = t[i]
    BY <2>2, ConcatFacts
  <2> QED  BY <1>1, <1>2, <2>1, <2>3
<1>4. /\ v \in Seq(Entries) /\ Len(v) = a + b
      /\ \A i \in 1..a : v[i] = cs[i]
      /\ \A i \in 1..b : v[a + i] = ct[i]
  <2>1. PICK E : E = Entries
    OBVIOUS
  <2>2. cs \in Seq(E) /\ ct \in Seq(E)
    BY <1>1, <2>1
  <2>3. /\ cs \o ct \in Seq(E) /\ Len(cs \o ct) = Len(cs) + Len(ct)
        /\ \A i \in 1..Len(cs) : (cs \o ct)[i] = cs[i]
        /\ \A i \in 1..Len(ct) : (cs \o ct)[Len(cs) + i] = ct[i]
    BY <2>2, ConcatFacts
  <2> QED  BY <1>1, <1>2, <2>1, <2>3
<1>5. ASSUME NEW i \in 1..a + b PROVE v[i].added = Used(u[i])
  <2>1. CASE i <= a
    <3>1. i \in 1..a
      BY <1>1, <2>1
    <3> QED  BY <1>1, <1>3, <1>4, <3>1 DEF Matches
  <2>2. CASE i > a
    <3>1. PICK j \in 1..b : i = a + j
      <4>1. i - a \in 1..b /\ i = a + (i - a)
        BY <1>1, <2>2
      <4> QED  BY <4>1
    <3>2. v[a + j].added = Used(u[a + j])
      BY <1>1, <1>3, <1>4 DEF Matches
    <3> QED  BY <3>1, <3>2
  <2> QED  BY <1>1, <2>1, <2>2
<1> QED  BY <1>2, <1>3, <1>4, <1>5 DEF Matches

LEMMA MatchesCut ==
    ASSUME NEW bs, NEW cs, Matches(bs, cs), NEW k \in 0..Len(bs)
    PROVE  /\ Matches(SubSeq(bs, 1, k), SubSeq(cs, 1, k))
           /\ Matches(SubSeq(bs, k + 1, Len(bs)), SubSeq(cs, k + 1, Len(cs)))
<1>1. PICK n \in Nat : n = Len(bs) /\ n = Len(cs) /\ bs \in Seq(Bufs) /\ cs \in Seq(Entries)
  BY SeqFacts DEF Matches
<1>2. k \in 0..Len(bs) /\ k \in 0..Len(cs)
  BY <1>1
<1>3. PICK p, q, cp, cq :
            /\ p = SubSeq(bs, 1, k) /\ q = SubSeq(bs, k + 1, Len(bs))
            /\ cp = SubSeq(cs, 1, k) /\ cq = SubSeq(cs, k + 1, Len(cs))
  OBVIOUS
<1>4. p \in Seq(Bufs) /\ Len(p) = k /\ \A i \in 1..k : p[i] = bs[i]
  BY <1>1, <1>2, <1>3, PrefixFacts
<1>5. cp \in Seq(Entries) /\ Len(cp) = k /\ \A i \in 1..k : cp[i] = cs[i]
  BY <1>1, <1>2, <1>3, PrefixFacts
<1>6. q \in Seq(Bufs) /\ Len(q) = n - k /\ \A i \in 1..(n - k) : q[i] = bs[k + i]
  BY <1>1, <1>2, <1>3, SuffixFacts
<1>7. cq \in Seq(Entries) /\ Len(cq) = n - k /\ \A i \in 1..(n - k) : cq[i] = cs[k + i]
  BY <1>1, <1>2, <1>3, SuffixFacts
<1>8. /\ \A i \in 1..k : i \in 1..n
      /\ \A i \in 1..(n - k) : k + i \in 1..n
  BY <1>1, <1>2
<1>9. \A i \in 1..n : cs[i].added = Used(bs[i])
  BY <1>1 DEF Matches
<1>10. Matches(p, cp)
  BY <1>4, <1>5, <1>8, <1>9 DEF Matches
<1>11. Matches(q, cq)
  BY <1>6, <1>7, <1>8, <1>9 DEF Matches
<1> QED  BY <1>3, <1>10, <1>11

\* A buffer without bytes in use changes neither the sum nor the bytes.
LEMMA EmptyBuf ==
    ASSUME NEW bs \in Seq(Bufs), NEW b \in Bufs, b.rb_len = 0
    PROVE  TotalLen(bs \o <<b>>) = TotalLen(bs) /\ Copyout(bs \o <<b>>) = Copyout(bs)
<1>1. PICK t \in Seq(Bufs) : t = <<b>>
  <2>1. <<b>> \in Seq(Bufs)
    OBVIOUS
  <2> QED  BY <2>1
<1>2. TotalLen(t) = 0
  BY <1>1, TotalOne
<1>3. Copyout(t) = << >>
  <2>1. Used(b) \in Seq(BufBytes) /\ Len(Used(b)) = 0
    BY UsedFacts
  <2>2. Used(b) = << >>
    BY <2>1, SeqFacts
  <2> QED  BY <1>1, <2>2, CopyOne
<1>4. TotalLen(bs \o t) = TotalLen(bs) + 0 /\ TotalLen(bs) \in Nat
  BY <1>2, TotalConcat, TotalType
<1>5. Copyout(bs \o t) = Copyout(bs) \o << >> /\ Copyout(bs) \in Seq(BufBytes)
  BY <1>3, CopyConcat, CopyType
<1>6. Copyout(bs) \o << >> = Copyout(bs)
  BY <1>5, ConcatEmptySeq
<1> QED  BY <1>1, <1>4, <1>5, <1>6

LEMMA GetBufFacts ==
    ASSUME NEW bs \in Seq(Bufs), NEW data \in Seq(BufBytes), NEW len \in Nat,
           NEW owner \in BOOLEAN, owner => Len(data) = len
    PROVE  RoomIn(rd_bufh_get_buf(bs, data, len, owner), bs, len)
<1>1. PICK new : new = rd_bufh_get_buf(bs, data, len, owner)
  OBVIOUS
<1>2. CASE bs # << >> /\ ReusesTail(Last(bs), len, owner)
  <2>1. new = bs
    BY <1>1, <1>2 DEF rd_bufh_get_buf
  <2>2. rd_buf_remaining(bs[Len(bs)]) >= len
    BY <1>2 DEF ReusesTail, Last
  <2>3. bs[Len(bs)] \in Bufs
    <3>1. Len(bs) \in 1..Len(bs)
      BY <1>2, SeqFacts
    <3> QED  BY <3>1, SeqFacts
  <2>4. len <= bs[Len(bs)].rb_olen - bs[Len(bs)].rb_len
    BY <2>2, <2>3, BufFacts DEF rd_buf_remaining
  <2> QED  BY <1>1, <1>2, <2>1, <2>4 DEF RoomIn
<1>3. CASE ~(bs # << >> /\ ReusesTail(Last(bs), len, owner))
  <2>1. PICK b \in Bufs : b = rd_buf_new(data, len, owner) /\ b.rb_len = 0 /\ len <= b.rb_olen
    BY NewFacts
  <2>2. new = Append(bs, b)
    BY <1>1, <1>3, <2>1 DEF rd_bufh_get_buf
  <2>4. /\ Append(bs, b) \in Seq(Bufs) /\ Append(bs, b) # << >>
        /\ Len(Append(bs, b)) = Len(bs) + 1 /\ Append(bs, b)[Len(bs) + 1] = b
    BY AppendProperties
  <2>6. new[Len(new)] = b
    BY <2>2, <2>4
  <2>7. len <= b.rb_olen - b.rb_len
    BY <2>1, BufFacts
  <2> QED  BY <1>1, <2>1, <2>2, <2>4, <2>6, <2>7 DEF RoomIn
<1> QED  BY <1>2, <1>3

\* The list with room and what was given for it, before more is stored.
LEMMA RoomMatches ==
    ASSUME NEW new, NEW bs \in Seq(Bufs), NEW cs, Matches(bs, cs), NEW room,
           RoomIn(new, bs, room)
    PROVE  /\ TotalLen(new) = TotalLen(bs)
           /\ Matches(new, IF Len(cs) < Len(new)
                           THEN Append(cs, Given(<< >>, << >>)) ELSE cs)
<1>1. PICK a \in Nat : a = Len(bs) /\ a = Len(cs) /\ cs \in Seq(Entries) /\ ~(a < a)
  BY SeqFacts DEF Matches
<1>2. CASE new = bs
  BY <1>1, <1>2
<1>3. ASSUME NEW b \in Bufs, b.rb_len = 0, new = Append(bs, b)
      PROVE  /\ TotalLen(new) = TotalLen(bs)
             /\ Matches(new, IF Len(cs) < Len(new)
                             THEN Append(cs, Given(<< >>, << >>)) ELSE cs)
  <2>1. PICK e : e = Given(<< >>, << >>)
    OBVIOUS
  <2>2. e \in Entries /\ e.added = << >>
    BY <2>1 DEF Entries, Given
  <2>3. Used(b) = << >>
    <3>1. Used(b) \in Seq(BufBytes) /\ Len(Used(b)) = 0
      BY <1>3, UsedFacts
    <3> QED  BY <3>1, SeqFacts
  <2>4. Append(bs, b) = bs \o <<b>> /\ Append(cs, e) = cs \o <<e>>
    BY <1>1, <2>2, AppendIsConcat
  <2>5. Matches(<<b>>, <<e>>)
    BY <2>2, <2>3, MatchesOne
  <2>6. Matches(bs \o <<b>>, cs \o <<e>>)
    BY <2>5, MatchesConcat
  <2>7. Len(Append(bs, b)) = Len(bs) + 1
    BY AppendProperties
  <2>8. Len(cs) < Len(new)
    BY <1>1, <1>3, <2>7
  <2>9. TotalLen(bs \o <<b>>) = TotalLen(bs)
    BY <1>3, EmptyBuf
  <2> QED  BY <1>3, <2>1, <2>4, <2>6, <2>8, <2>9
<1> QED  BY <1>2, <1>3 DEF RoomIn

\* The list after bytes were written to the end of its last buffer.
LEMMA FillFacts ==
    ASSUME NEW new, NEW bs \in Seq(Bufs), NEW cs, Matches(bs, cs),
           NEW room \in Nat, RoomIn(new, bs, room),
           NEW bytes \in Seq(BufBytes), NEW n \in 0..Len(bytes), Len(bytes) <= room
    PROVE  HeadOk([new EXCEPT ![Len(new)] = Written(@, bytes, n)],
                  TotalLen(bs) + n, GivenMore(cs, Len(new), SubSeq(bytes, 1, n)))
<1>1. PICK k \in Nat : k = Len(new) /\ k # 0 /\ new \in Seq(Bufs)
  BY SeqFacts DEF RoomIn
<1>2. PICK j \in 0..Len(new) : j = k - 1 /\ j + 1 = k
  <2>1. k - 1 \in 0..k /\ (k - 1) + 1 = k
    BY <1>1
  <2> QED  BY <1>1, <2>1
<1>3. PICK b \in Bufs : b = new[k]
  <2>1. k \in 1..Len(new)
    BY <1>1
  <2> QED  BY <1>1, <2>1, SeqFacts
<1>4. PICK p \in Seq(Bufs) : /\ p = SubSeq(new, 1, j) /\ Len(p) = j
                             /\ \A i \in 1..j : p[i] = new[i]
  <2>1. /\ SubSeq(new, 1, j) \in Seq(Bufs) /\ Len(SubSeq(new, 1, j)) = j
        /\ \A i \in 1..j : SubSeq(new, 1, j)[i] = new[i]
    BY <1>1, PrefixFacts
  <2> QED  BY <2>1
<1>5. PICK w : w = Written(b, bytes, n)
  OBVIOUS
<1>6. /\ w \in Bufs /\ w.rb_len = b.rb_len + n
      /\ Used(w) = Used(b) \o SubSeq(bytes, 1, n)
  <2>1. PICK m \in Nat : m = Len(bytes)
    BY SeqFacts
  <2>2. room <= b.rb_olen - b.rb_len
    BY <1>1, <1>3 DEF RoomIn
  <2>3. PICK x \in Int : x = b.rb_olen - b.rb_len
    BY BufFacts
  <2>4. m <= room /\ room <= x
    BY <2>1, <2>2, <2>3
  <2>5. m <= x
    BY <2>4
  <2>6. Len(bytes) <= b.rb_olen - b.rb_len
    BY <2>1, <2>3, <2>5
  <2> QED  BY <1>5, <2>6, WrittenFacts
<1>7. PICK q \in Seq(Bufs), t \in Seq(Bufs) : q = <<b>> /\ t = <<w>>
  <2>1. <<b>> \in Seq(Bufs) /\ <<w>> \in Seq(Bufs)
    BY <1>6
  <2> QED  BY <2>1
<1>8. /\ Len(q) = 1 /\ q[1] = b /\ Len(t) = 1 /\ t[1] = w
      /\ TotalLen(q) = b.rb_len /\ TotalLen(t) = w.rb_len
      /\ Copyout(q) = Used(b) /\ Copyout(t) = Used(w)
  BY <1>6, <1>7, TotalOne, CopyOne
<1>9. ASSUME NEW r \in Seq(Bufs), Len(r) = 1
      PROVE  /\ p \o r \in Seq(Bufs) /\ Len(p \o r) = k
             /\ \A i \in 1..j : (p \o r)[i] = new[i]
             /\ (p \o r)[k] = r[1]
  <2>1. /\ p \o r \in Seq(Bufs) /\ Len(p \o r) = Len(p) + Len(r)
        /\ \A i \in 1..Len(p) : (p \o r)[i] = p[i]
        /\ \A i \in 1..Len(r) : (p \o r)[Len(p) + i] = r[i]
    BY ConcatFacts
  <2>2. Len(p) = j /\ j + 1 = k /\ 1 \in 1..Len(r)
    BY <1>2, <1>4, <1>9
  <2> QED  BY <1>4, <1>9, <2>1, <2>2
<1>10. \A i \in 1..k : i = k \/ i \in 1..j
  BY <1>1, <1>2
<1>11. new = p \o q
  <2>1. PICK v \in Seq(Bufs) : v = p \o q /\ Len(v) = k /\ (\A i \in 1..j : v[i] = new[i]) /\ v[k] = b
    BY <1>8, <1>9
  <2>2. Len(new) = Len(v) /\ \A i \in 1..Len(new) : new[i] = v[i]
    BY <1>1, <1>3, <1>10, <2>1
  <2>3. new = v
    BY <1>1, <2>2, SeqSame
  <2> QED  BY <2>1, <2>3
<1>12. PICK f : f = [new EXCEPT ![Len(new)] = Written(@, bytes, n)]
  OBVIOUS
<1>13. f = p \o t
  <2>1. PICK v \in Seq(Bufs) : v = p \o t /\ Len(v) = k /\ (\A i \in 1..j : v[i] = new[i]) /\ v[k] = w
    BY <1>8, <1>9
  <2>2. DOMAIN new = 1..k /\ k \in 1..k /\ \A i \in 1..j : i # k /\ i \in 1..k
    BY <1>1, <1>2, SeqFacts
  <2>3. DOMAIN f = 1..k /\ f = [i \in 1..k |-> f[i]] /\ f[k] = w /\ \A i \in 1..j : f[i] = new[i]
    BY <1>1, <1>3, <1>5, <1>12, <2>2
  <2>4. \A i \in 1..k : f[i] \in Bufs /\ f[i] = v[i]
    <3>1. \A i \in 1..k : f[i] = v[i]
      BY <1>10, <2>1, <2>3
    <3>2. \A i \in 1..k : v[i] \in Bufs
      BY <2>1, SeqFacts
    <3> QED  BY <3>1, <3>2
  <2>5. f \in Seq(Bufs) /\ Len(f) = k
    BY <2>3, <2>4, SeqBy
  <2>6. Len(f) = Len(v) /\ \A i \in 1..Len(f) : f[i] = v[i]
    BY <2>1, <2>4, <2>5
  <2>7. f = v
    BY <2>5, <2>6, SeqSame
  <2> QED  BY <2>1, <2>7
<1>14. f \in Seq(Bufs)
  BY <1>8, <1>9, <1>13
<1>15. TotalLen(f) = TotalLen(bs) + n
  <2>1. TotalLen(new) = TotalLen(p) + b.rb_len /\ TotalLen(f) = TotalLen(p) + w.rb_len
    BY <1>8, <1>11, <1>13, TotalConcat
  <2>2. PICK x \in Nat, y \in Nat : x = TotalLen(p) /\ y = b.rb_len
    BY TotalType, BufFacts
  <2>3. TotalLen(f) = x + (y + n) /\ TotalLen(bs) = x + y /\ n \in Int
    BY <1>6, <2>1, <2>2, RoomMatches
  <2> QED  BY <2>3
<1>16. PICK z \in Seq(BufBytes) : z = SubSeq(bytes, 1, n)
  BY PrefixFacts
<1>17. PICK all : all = IF Len(cs) < k THEN Append(cs, Given(<< >>, << >>)) ELSE cs
  OBVIOUS
<1>18. Matches(new, all)
  BY <1>1, <1>17, RoomMatches
<1>19. /\ all \in Seq(Entries) /\ Len(all) = k /\ DOMAIN all = 1..k /\ k \in 1..k
       /\ \A i \in 1..k : all[i] \in Entries /\ all[i].added = Used(new[i])
  BY <1>1, <1>18, SeqFacts DEF Matches
<1>20. PICK e : e = Given(all[k].pre, all[k].added \o z)
  OBVIOUS
<1>21. e \in Entries /\ e.added = Used(w)
  <2>1. PICK x \in Seq(BufBytes), y \in Seq(BufBytes) : x = all[k].pre /\ y = all[k].added
    BY <1>19 DEF Entries
  <2>2. y \o z \in Seq(BufBytes) /\ y = Used(b)
    BY <1>3, <1>19, <2>1, ConcatFacts
  <2>3. e = [pre |-> x, added |-> y \o z]
    BY <1>20, <2>1 DEF Given
  <2> QED  BY <1>6, <1>16, <2>2, <2>3 DEF Entries
<1>22. PICK g : g = [all EXCEPT ![k] = e]
  OBVIOUS
<1>23. /\ DOMAIN g = 1..k /\ g = [i \in 1..k |-> g[i]] /\ g[k] = e
       /\ \A i \in 1..k : i # k => g[i] = all[i]
  BY <1>19, <1>22
<1>24. g \in Seq(Entries) /\ Len(g) = k
  <2>1. \A i \in 1..k : g[i] \in Entries
    BY <1>19, <1>21, <1>23
  <2> QED  BY <1>23, <2>1, SeqBy
<1>25. Len(f) = k /\ f[k] = w /\ \A i \in 1..k : i # k => f[i] = new[i]
  BY <1>8, <1>9, <1>10, <1>13
<1>26. Matches(f, g)
  <2>1. \A i \in 1..k : g[i].added = Used(f[i])
    BY <1>19, <1>21, <1>23, <1>25
  <2> QED  BY <1>14, <1>24, <1>25, <2>1 DEF Matches
<1>27. GivenMore(cs, Len(new), SubSeq(bytes, 1, n)) = g
  BY <1>1, <1>16, <1>17, <1>20, <1>22 DEF GivenMore
<1> QED  BY <1>12, <1>14, <1>15, <1>26, <1>27 DEF HeadOk

\* The first i buffers are the ones before the i-th and that one.
LEMMA PrefixStep ==
    ASSUME NEW bs \in Seq(Bufs), NEW i \in 1..Len(bs)
    PROVE  /\ bs[i] \in Bufs
           /\ SubSeq(bs, 1, i - 1) \in Seq(Bufs) /\ SubSeq(bs, 1, i) \in Seq(Bufs)
           /\ SubSeq(bs, 1, i) = SubSeq(bs, 1, i - 1) \o <<bs[i]>>
           /\ TotalLen(SubSeq(bs, 1, i)) = TotalLen(SubSeq(bs, 1, i - 1)) + bs[i].rb_len
           /\ Copyout(SubSeq(bs, 1, i)) = Copyout(SubSeq(bs, 1, i - 1)) \o Used(bs[i])
<1>1. PICK n \in Nat : n = Len(bs)
  BY SeqFacts
<1>2. PICK k \in 0..Len(bs), j \in 0..Len(bs) : k = i /\ j = i - 1
  BY <1>1
<1>3. PICK b \in Bufs : b = bs[i]
  BY SeqFacts
<1>4. PICK p, s : p = SubSeq(bs, 1, j) /\ s = SubSeq(bs, 1, k)
  OBVIOUS
<1>5. p \in Seq(Bufs) /\ s \in Seq(Bufs)
  BY <1>4, PrefixFacts
<1>6. s = p \o <<b>>
  <2>1. PICK one \in 1..Len(bs) : one = 1
    BY <1>1
  <2>2. i \in one..Len(bs)
    BY <1>1, <2>1
  <2>3. SubSeq(bs, one, i) = SubSeq(bs, one, i - 1) \o <<bs[i]>>
    BY <2>2, SubSeqRecursiveSecond
  <2> QED  BY <1>2, <1>3, <1>4, <2>1, <2>3
<1>7. PICK t \in Seq(Bufs) : t = <<b>>
  <2>1. <<b>> \in Seq(Bufs)
    OBVIOUS
  <2> QED  BY <2>1
<1>8. TotalLen(s) = TotalLen(p) + b.rb_len
  BY <1>5, <1>6, <1>7, TotalConcat, TotalOne
<1>9. Copyout(s) = Copyout(p) \o Used(b)
  BY <1>5, <1>6, <1>7, CopyConcat, CopyOne
<1> QED  BY <1>2, <1>3, <1>4, <1>5, <1>6, <1>8, <1>9

\* The list after a buffer was put behind its i-th.
LEMMA InsertFacts ==
    ASSUME NEW bs \in Seq(Bufs), NEW cs, Matches(bs, cs), NEW i \in 0..Len(bs),
           NEW b \in Bufs, NEW c \in Entries, c.added = Used(b)
    PROVE  HeadOk(InsertAt(bs, i + 1, b), TotalLen(bs) + b.rb_len, InsertAt(cs, i + 1, c))
<1>1. PICK p, q, cp, cq :
            /\ p = SubSeq(bs, 1, i) /\ q = SubSeq(bs, i + 1, Len(bs))
            /\ cp = SubSeq(cs, 1, i) /\ cq = SubSeq(cs, i + 1, Len(cs))
  OBVIOUS
<1>2. p \in Seq(Bufs) /\ q \in Seq(Bufs) /\ bs = p \o q
  BY <1>1, SplitAt
<1>3. (i + 1) - 1 = i
  BY SeqFacts
<1>4. PICK t \in Seq(Bufs) : t = <<b>>
  <2>1. <<b>> \in Seq(Bufs)
    OBVIOUS
  <2> QED  BY <2>1
<1>5. PICK s, ct : s = p \o t /\ ct = <<c>>
  OBVIOUS
<1>6. s \in Seq(Bufs) /\ s \o q \in Seq(Bufs)
  BY <1>2, <1>4, <1>5, ConcatFacts
<1>7. InsertAt(bs, i + 1, b) = s \o q /\ InsertAt(cs, i + 1, c) = (cp \o ct) \o cq
  BY <1>1, <1>3, <1>4, <1>5 DEF InsertAt
<1>8. TotalLen(s \o q) = TotalLen(bs) + b.rb_len
  <2>1. PICK x \in Nat, y \in Nat, z \in Nat : x = TotalLen(p) /\ y = b.rb_len /\ z = TotalLen(q)
    BY <1>2, TotalType, BufFacts
  <2>2. TotalLen(s) = x + y
    BY <1>2, <1>4, <1>5, <2>1, TotalConcat, TotalOne
  <2>3. TotalLen(s \o q) = (x + y) + z
    BY <1>2, <1>6, <2>1, <2>2, TotalConcat
  <2>4. TotalLen(bs) = x + z
    BY <1>2, <2>1, TotalConcat
  <2> QED  BY <2>1, <2>3, <2>4
<1>9. Matches(p, cp) /\ Matches(q, cq)
  BY <1>1, MatchesCut
<1>10. Matches(t, ct)
  BY <1>4, <1>5, MatchesOne
<1>11. Matches(s, cp \o ct)
  BY <1>5, <1>9, <1>10, MatchesConcat
<1>12. Matches(s \o q, (cp \o ct) \o cq)
  BY <1>9, <1>11, MatchesConcat
<1> QED  BY <1>6, <1>7, <1>8, <1>12 DEF HeadOk

\* The list without its i-th buffer.
LEMMA RemoveFacts ==
    ASSUME NEW bs \in Seq(Bufs), NEW cs, Matches(bs, cs), NEW i \in 1..Len(bs)
    PROVE  HeadOk(RemoveAt(bs, i), TotalLen(bs) - bs[i].rb_len, RemoveAt(cs, i))
<1>1. PICK k \in 0..Len(bs), j \in 0..Len(bs) : k = i /\ j = i - 1
  <2>1. PICK n \in Nat : n = Len(bs)
    BY SeqFacts
  <2> QED  BY <2>1
<1>2. PICK p, s, q, cp, cq :
            /\ p = SubSeq(bs, 1, j) /\ s = SubSeq(bs, 1, k) /\ q = SubSeq(bs, k + 1, Len(bs))
            /\ cp = SubSeq(cs, 1, j) /\ cq = SubSeq(cs, k + 1, Len(cs))
  OBVIOUS
<1>3. p \in Seq(Bufs)
  BY <1>2, SplitAt
<1>4. s \in Seq(Bufs) /\ q \in Seq(Bufs) /\ bs = s \o q
  BY <1>2, SplitAt
<1>5. bs[i] \in Bufs /\ TotalLen(s) = TotalLen(p) + bs[i].rb_len
  BY <1>1, <1>2, PrefixStep
<1>6. PICK x \in Nat, y \in Nat, z \in Nat : x = TotalLen(p) /\ y = bs[i].rb_len /\ z = TotalLen(q)
  BY <1>3, <1>4, <1>5, TotalType, BufFacts
<1>7. RemoveAt(bs, i) = p \o q /\ RemoveAt(cs, i) = cp \o cq
  BY <1>1, <1>2 DEF RemoveAt
<1>8. p \o q \in Seq(Bufs)
  BY <1>3, <1>4, ConcatFacts
<1>9. TotalLen(p \o q) = TotalLen(bs) - bs[i].rb_len
  <2>1. TotalLen(p \o q) = x + z
    BY <1>3, <1>4, <1>6, TotalConcat
  <2>2. TotalLen(bs) = (x + y) + z
    BY <1>4, <1>5, <1>6, TotalConcat
  <2> QED  BY <1>6, <2>1, <2>2
<1>10. Matches(p, cp) /\ Matches(q, cq)
  BY <1>2, MatchesCut
<1>11. Matches(p \o q, cp \o cq)
  BY <1>10, MatchesConcat
<1> QED  BY <1>7, <1>8, <1>9, <1>11 DEF HeadOk

-----------------------------------------------------------------------------
(* The invariant.                                                          *)

\* What a serialization has written of the buffers pre it has passed.
Progress(pre, s) ==
    /\ s.rbh \in Heads /\ s.len \in Nat /\ s.out \in Seq(BufBytes) /\ s.whole \in BOOLEAN
    /\ Len(s.out) = s.len /\ s.len <= TotalLen(pre)
    /\ s.len = TotalLen(pre) => s.out = Copyout(pre)
    /\ s.whole => s.len = TotalLen(pre)

\* A serialization under way, or one that came to its end.
Serializing(s, bufs) ==
    /\ s = [st |-> s.st, rbh |-> s.rbh, at |-> s.at, len |-> s.len,
            out |-> s.out, whole |-> s.whole]
    /\ s.rbh \in Heads
    /\ \/ /\ s.st = "run"
          /\ s.at \in 1..Len(bufs[s.rbh]) + 1
          /\ Progress(SubSeq(bufs[s.rbh], 1, s.at - 1), s)
       \/ s.st = "done" /\ Progress(bufs[s.rbh], s)

HeadsOk ==
    /\ DOMAIN rbh_bufs = Heads /\ DOMAIN rbh_len = Heads /\ DOMAIN content = Heads
    /\ rbh_bufs = [h \in Heads |-> rbh_bufs[h]]
    /\ rbh_len = [h \in Heads |-> rbh_len[h]]
    /\ content = [h \in Heads |-> content[h]]
    /\ \A h \in Heads : HeadOk(rbh_bufs[h], rbh_len[h], content[h])

BufInv == HeadsOk /\ bufFault = "none" /\ (ser = NoSer \/ Serializing(ser, rbh_bufs))

LEMMA BufInitInv == BufInit => BufInv
<1>1. HeadOk(<< >>, 0, << >>)
  <2>1. << >> \in Seq(Bufs)
    OBVIOUS
  <2> QED  BY <2>1, TotalEmpty, MatchesEmpty DEF HeadOk
<1> QED  BY <1>1 DEF BufInit, BufInv, HeadsOk

\* A step that changes one head and leaves it right.
LEMMA OneHead ==
    ASSUME BufInv, NEW h \in Heads, NEW nb, NEW nl, NEW nc, HeadOk(nb, nl, nc),
           rbh_bufs' = [rbh_bufs EXCEPT ![h] = nb],
           rbh_len' = [rbh_len EXCEPT ![h] = nl],
           content' = [content EXCEPT ![h] = nc],
           ser' = NoSer, bufFault' = "none"
    PROVE  BufInv'
<1>1. /\ DOMAIN rbh_bufs' = Heads /\ DOMAIN rbh_len' = Heads /\ DOMAIN content' = Heads
      /\ rbh_bufs' = [g \in Heads |-> rbh_bufs'[g]]
      /\ rbh_len' = [g \in Heads |-> rbh_len'[g]]
      /\ content' = [g \in Heads |-> content'[g]]
  BY DEF BufInv, HeadsOk
<1>2. ASSUME NEW g \in Heads PROVE HeadOk(rbh_bufs'[g], rbh_len'[g], content'[g])
  <2>1. HeadOk(rbh_bufs[g], rbh_len[g], content[g])
    BY DEF BufInv, HeadsOk
  <2>2. CASE g = h
    <3>1. rbh_bufs'[g] = nb /\ rbh_len'[g] = nl /\ content'[g] = nc
      BY <2>2 DEF BufInv, HeadsOk
    <3> QED  BY <3>1
  <2>3. CASE g # h
    <3>1. rbh_bufs'[g] = rbh_bufs[g] /\ rbh_len'[g] = rbh_len[g] /\ content'[g] = content[g]
      BY <2>3 DEF BufInv, HeadsOk
    <3> QED  BY <2>1, <3>1
  <2> QED  BY <2>2, <2>3
<1> QED  BY <1>1, <1>2 DEF BufInv, HeadsOk

LEMMA HeadFacts ==
    ASSUME BufInv, NEW h \in Heads
    PROVE  /\ rbh_bufs[h] \in Seq(Bufs) /\ rbh_len[h] = TotalLen(rbh_bufs[h])
           /\ Matches(rbh_bufs[h], content[h])
           /\ DOMAIN rbh_bufs = Heads /\ DOMAIN rbh_len = Heads /\ DOMAIN content = Heads
BY DEF BufInv, HeadsOk, HeadOk

LEMMA FillInv ==
    ASSUME BufInv, NEW h \in Heads, NEW new, NEW room \in Nat,
           RoomIn(new, rbh_bufs[h], room),
           NEW bytes \in Seq(BufBytes), NEW n \in 0..Len(bytes), Len(bytes) <= room,
           Fill(h, new, bytes, room, n), ser' = NoSer
    PROVE  BufInv'
<1>1. PICK bs \in Seq(Bufs) : bs = rbh_bufs[h]
  BY HeadFacts
<1>2. ~(room > rd_buf_remaining(Last(new)))
  <2>1. new \in Seq(Bufs) /\ new # << >> /\ room <= new[Len(new)].rb_olen - new[Len(new)].rb_len
    BY DEF RoomIn
  <2>2. new[Len(new)] \in Bufs
    <3>1. Len(new) \in 1..Len(new)
      BY <2>1, SeqFacts
    <3> QED  BY <2>1, <3>1, SeqFacts
  <2>3. PICK x \in Int : x = new[Len(new)].rb_olen - new[Len(new)].rb_len
    BY <2>2, BufFacts
  <2>4. ~(room > x)
    BY <2>1, <2>3
  <2> QED  BY <2>3, <2>4 DEF rd_buf_remaining, Last
<1>3. PICK nb : nb = [new EXCEPT ![Len(new)] = Written(@, bytes, n)]
  OBVIOUS
<1>3a. PICK cs : cs = content[h] /\ Matches(bs, cs)
  BY <1>1, HeadFacts
<1>4. HeadOk(nb, TotalLen(bs) + n, GivenMore(cs, Len(new), SubSeq(bytes, 1, n)))
  BY <1>1, <1>3, <1>3a, FillFacts
<1>5. /\ rbh_bufs' = [rbh_bufs EXCEPT ![h] = nb]
      /\ rbh_len' = [rbh_len EXCEPT ![h] = @ + n]
      /\ content' = [content EXCEPT ![h] = GivenMore(@, Len(new), SubSeq(bytes, 1, n))]
      /\ bufFault' = bufFault
  BY <1>2, <1>3 DEF Fill
<1>6. /\ rbh_len' = [rbh_len EXCEPT ![h] = TotalLen(bs) + n]
      /\ content' = [content EXCEPT ![h] = GivenMore(cs, Len(new), SubSeq(bytes, 1, n))]
  BY <1>1, <1>3a, <1>5, HeadFacts
<1>7. bufFault' = "none"
  BY <1>5 DEF BufInv
<1> QED  BY <1>4, <1>5, <1>6, <1>7, OneHead

LEMMA AppendInv ==
    ASSUME BufInv, NEW h \in Heads, NEW d \in DataBytes, NEW len \in Lens,
           NEW owner \in BOOLEAN, rd_bufh_append(h, Run(d, len), owner)
    PROVE  BufInv'
<1>1. PICK m \in Nat, data \in Seq(BufBytes) : m = len /\ data = Run(d, len) /\ Len(data) = m
  BY BufAssumption, RunFacts DEF BufBytes
<1>2. PICK bs \in Seq(Bufs) : bs = rbh_bufs[h]
  BY HeadFacts
<1>3. PICK new : new = rd_bufh_get_buf(bs, data, m, owner)
  OBVIOUS
<1>4. RoomIn(new, bs, m)
  BY <1>1, <1>3, GetBufFacts
<1>5. Fill(h, new, data, m, m) /\ ser' = NoSer
  BY <1>1, <1>2, <1>3 DEF rd_bufh_append
<1>6. m \in 0..Len(data) /\ Len(data) <= m
  BY <1>1
<1> QED  BY <1>2, <1>4, <1>5, <1>6, FillInv

LEMMA RecvInv ==
    ASSUME BufInv, NEW h \in Heads, NEW d \in DataBytes, NEW len \in Lens, NEW r \in 0..len,
           rd_bufh_recv(h, d, len, r)
    PROVE  BufInv'
<1>1. PICK m \in Nat, k \in Nat, data \in Seq(BufBytes) :
            m = len /\ k = r /\ data = Run(d, r) /\ Len(data) = k /\ k <= m
  <2>1. len \in Nat /\ r \in Nat /\ r <= len /\ d \in BufBytes
    BY BufAssumption DEF BufBytes
  <2> QED  BY <2>1, RunFacts
<1>2. PICK bs \in Seq(Bufs) : bs = rbh_bufs[h]
  BY HeadFacts
<1>3. PICK new : new = rd_bufh_get_buf(bs, << >>, m, FALSE)
  OBVIOUS
<1>4. RoomIn(new, bs, m)
  <2>1. << >> \in Seq(BufBytes) /\ FALSE \in BOOLEAN
    OBVIOUS
  <2> QED  BY <1>3, <2>1, GetBufFacts
<1>5. Fill(h, new, data, m, k) /\ ser' = NoSer
  BY <1>1, <1>2, <1>3 DEF rd_bufh_recv
<1>6. k \in 0..Len(data) /\ Len(data) <= m
  BY <1>1
<1> QED  BY <1>2, <1>4, <1>5, <1>6, FillInv

\* A formatted string and its null.
LEMMA FormatFacts ==
    ASSUME NEW d \in DataBytes, NEW m \in Nat
    PROVE  /\ Append(Run(d, m), Nul) \in Seq(BufBytes)
           /\ Len(Append(Run(d, m), Nul)) = m + 1
<1>1. d \in BufBytes /\ Nul \in BufBytes
  BY DEF BufBytes
<1>2. PICK s \in Seq(BufBytes) : s = Run(d, m) /\ Len(s) = m
  BY <1>1, RunFacts
<1>3. Append(s, Nul) \in Seq(BufBytes) /\ Len(Append(s, Nul)) = Len(s) + 1
  BY <1>1, AppendProperties
<1> QED  BY <1>2, <1>3

LEMMA VsprintfInv ==
    ASSUME BufInv, NEW h \in Heads, NEW d \in DataBytes, NEW len \in Lens,
           rd_bufh_vsprintf(h, d, len)
    PROVE  BufInv'
<1>1. PICK m \in Nat : m = len
  BY BufAssumption
<1>2. PICK data \in Seq(BufBytes), k \in Nat : data = Append(Run(d, m), Nul) /\ k = m + 1 /\ Len(data) = k
  <2>1. /\ Append(Run(d, m), Nul) \in Seq(BufBytes)
        /\ Len(Append(Run(d, m), Nul)) = m + 1
    BY FormatFacts
  <2>2. m + 1 \in Nat
    OBVIOUS
  <2> QED  BY <2>1, <2>2
<1>3. PICK bs \in Seq(Bufs) : bs = rbh_bufs[h]
  BY HeadFacts
<1>4. PICK new : new = rd_bufh_get_buf(bs, << >>, k, FALSE)
  OBVIOUS
<1>5. RoomIn(new, bs, k)
  <2>1. << >> \in Seq(BufBytes) /\ FALSE \in BOOLEAN
    OBVIOUS
  <2> QED  BY <1>4, <2>1, GetBufFacts
<1>6. Fill(h, new, data, k, m) /\ ser' = NoSer
  BY <1>1, <1>2, <1>3, <1>4 DEF rd_bufh_vsprintf, FormatRoom
<1>7. m \in 0..Len(data) /\ Len(data) <= k
  BY <1>2
<1> QED  BY <1>3, <1>5, <1>6, <1>7, FillInv

LEMMA InsertBufInv ==
    ASSUME BufInv, NEW h \in Heads, NEW i \in 0..Len(rbh_bufs[h]), NEW b \in Bufs,
           NEW c \in Entries, c.added = Used(b),
           rd_bufh_buf_insert(h, i, b, c), ser' = NoSer, bufFault' = bufFault
    PROVE  BufInv'
<1>1. PICK bs, cs : /\ bs \in Seq(Bufs) /\ bs = rbh_bufs[h] /\ i \in 0..Len(bs)
                    /\ cs = content[h] /\ Matches(bs, cs)
  BY HeadFacts
<1>2. PICK nc : nc = InsertAt(cs, i + 1, c)
  OBVIOUS
<1>3. HeadOk(InsertAt(bs, i + 1, b), TotalLen(bs) + b.rb_len, nc)
  BY <1>1, <1>2, InsertFacts
<1>4. rbh_len[h] = TotalLen(bs)
  BY <1>1, HeadFacts
<1>5. /\ rbh_bufs' = [rbh_bufs EXCEPT ![h] = InsertAt(bs, i + 1, b)]
      /\ rbh_len' = [rbh_len EXCEPT ![h] = TotalLen(bs) + b.rb_len]
      /\ content' = [content EXCEPT ![h] = nc]
  BY <1>1, <1>2, <1>4, HeadFacts DEF rd_bufh_buf_insert
<1>6. bufFault' = "none"
  BY DEF BufInv
<1> QED  BY <1>3, <1>5, <1>6, OneHead

LEMMA PrependInv ==
    ASSUME BufInv, NEW h \in Heads, NEW d \in DataBytes, NEW len \in Lens,
           NEW owner \in BOOLEAN, rd_bufh_prepend(h, Run(d, len), owner)
    PROVE  BufInv'
<1>1. PICK m \in Nat, data \in Seq(BufBytes) : m = len /\ data = Run(d, len) /\ Len(data) = m
  BY BufAssumption, RunFacts DEF BufBytes
<1>2. PICK b \in Bufs : b = rd_buf_new(data, m, owner) /\ b.rb_len = 0
  BY <1>1, NewFacts
<1>2a. PICK c : c = Given(data, << >>)
  OBVIOUS
<1>2b. c \in Entries /\ c.added = Used(b)
  <2>1. Used(b) \in Seq(BufBytes) /\ Len(Used(b)) = 0
    BY <1>2, UsedFacts
  <2>2. Used(b) = << >>
    BY <2>1, SeqFacts
  <2> QED  BY <1>2a, <2>2 DEF Entries, Given
<1>3. PICK i \in 0..Len(rbh_bufs[h]) : i = 0
  BY HeadFacts, SeqFacts
<1>4. rd_bufh_buf_insert(h, i, b, c) /\ ser' = NoSer /\ bufFault' = bufFault
  BY <1>1, <1>2, <1>2a, <1>3 DEF rd_bufh_prepend
<1> QED  BY <1>2b, <1>4, InsertBufInv

LEMMA SprintfInv ==
    ASSUME BufInv, NEW h \in Heads, NEW d \in DataBytes, NEW len \in Lens,
           NEW i \in 0..Len(rbh_bufs[h]), rd_buf_sprintf(h, i, d, len)
    PROVE  BufInv'
<1>1. PICK m \in Nat : m = len
  BY BufAssumption
<1>2. PICK data \in Seq(BufBytes), k \in Nat : data = Append(Run(d, m), Nul) /\ k = m + 1 /\ Len(data) = k
  <2>1. /\ Append(Run(d, m), Nul) \in Seq(BufBytes)
        /\ Len(Append(Run(d, m), Nul)) = m + 1
    BY FormatFacts
  <2>2. m + 1 \in Nat
    OBVIOUS
  <2> QED  BY <2>1, <2>2
<1>3. PICK b \in Bufs : b = rd_buf_new(<< >>, k, FALSE) /\ b.rb_len = 0 /\ k <= b.rb_olen
  <2>1. << >> \in Seq(BufBytes) /\ FALSE \in BOOLEAN
    OBVIOUS
  <2> QED  BY <2>1, NewFacts
<1>4. PICK w \in Bufs : w = Written(b, data, m) /\ Used(w) = Used(b) \o SubSeq(data, 1, m)
  <2>1. m \in 0..Len(data)
    BY <1>2
  <2>2. Len(data) <= b.rb_olen - b.rb_len
    <3>1. PICK x \in Nat, y \in Nat : x = b.rb_olen /\ y = b.rb_len
      BY BufFacts
    <3>2. y = 0 /\ k <= x
      BY <1>3, <3>1
    <3>3. k <= x - y
      BY <3>2
    <3> QED  BY <1>2, <3>1, <3>3
  <2> QED  BY <2>1, <2>2, WrittenFacts
<1>5. PICK c : c = Given(<< >>, Run(d, m))
  OBVIOUS
<1>6. c \in Entries /\ c.added = Used(w)
  <2>1. PICK s \in Seq(BufBytes) : s = Run(d, m) /\ Len(s) = m
    BY RunFacts DEF BufBytes
  <2>2. Used(b) = << >>
    <3>1. Used(b) \in Seq(BufBytes) /\ Len(Used(b)) = 0
      BY <1>3, UsedFacts
    <3> QED  BY <3>1, SeqFacts
  <2>3. Nul \in BufBytes
    BY DEF BufBytes
  <2>4. /\ data = Append(s, Nul) /\ data \in Seq(BufBytes) /\ Len(data) = m + 1
        /\ \A j \in 1..m : data[j] = s[j]
    <3>1. \A j \in 1..Len(s) : Append(s, Nul)[j] = s[j]
      BY <2>3, AppendProperties
    <3> QED  BY <1>2, <2>1, <3>1
  <2>5. PICK t \in Seq(BufBytes) :
            t = SubSeq(data, 1, m) /\ Len(t) = m /\ \A j \in 1..m : t[j] = data[j]
    <3>1. m \in 0..Len(data)
      BY <2>4
    <3>2. /\ SubSeq(data, 1, m) \in Seq(BufBytes) /\ Len(SubSeq(data, 1, m)) = m
          /\ \A j \in 1..m : SubSeq(data, 1, m)[j] = data[j]
      BY <3>1, PrefixFacts
    <3> QED  BY <3>2
  <2>6. t = s
    <3>1. Len(t) = Len(s) /\ \A j \in 1..Len(t) : t[j] = s[j]
      BY <2>1, <2>4, <2>5
    <3> QED  BY <3>1, SeqSame
  <2>7. << >> \o t = t
    BY ConcatEmptySeq
  <2> QED  BY <1>4, <1>5, <2>1, <2>2, <2>5, <2>6, <2>7 DEF Entries, Given
<1>7. rd_bufh_buf_insert(h, i, w, c) /\ ser' = NoSer /\ bufFault' = bufFault
  BY <1>1, <1>2, <1>3, <1>4, <1>5 DEF rd_buf_sprintf
<1> QED  BY <1>6, <1>7, InsertBufInv

LEMMA DestroyInv ==
    ASSUME BufInv, NEW h \in Heads, NEW i \in DOMAIN rbh_bufs[h], rd_buf_destroy(h, i)
    PROVE  BufInv'
<1>1. PICK bs, cs : /\ bs \in Seq(Bufs) /\ bs = rbh_bufs[h]
                    /\ cs = content[h] /\ Matches(bs, cs)
  BY HeadFacts
<1>2. i \in 1..Len(bs)
  BY <1>1, SeqFacts
<1>3. PICK nc : nc = RemoveAt(cs, i)
  OBVIOUS
<1>4. HeadOk(RemoveAt(bs, i), TotalLen(bs) - bs[i].rb_len, nc)
  BY <1>1, <1>2, <1>3, RemoveFacts
<1>5. rbh_len[h] = TotalLen(bs)
  BY <1>1, HeadFacts
<1>6. /\ rbh_bufs' = [rbh_bufs EXCEPT ![h] = RemoveAt(bs, i)]
      /\ rbh_len' = [rbh_len EXCEPT ![h] = TotalLen(bs) - bs[i].rb_len]
      /\ content' = [content EXCEPT ![h] = nc]
      /\ ser' = NoSer /\ bufFault' = bufFault
  BY <1>1, <1>3, <1>5, HeadFacts DEF rd_buf_destroy
<1>7. bufFault' = "none"
  BY <1>6 DEF BufInv
<1> QED  BY <1>4, <1>6, <1>7, OneHead

LEMMA DestroyAllInv ==
    ASSUME BufInv, NEW h \in Heads, rd_bufh_destroy(h)
    PROVE  BufInv'
<1>1. PICK bs \in Seq(Bufs) : bs = rbh_bufs[h] /\ rbh_len[h] = TotalLen(bs)
  BY HeadFacts
<1>2. PICK x \in Nat : x = TotalLen(bs)
  BY TotalType
<1>3. x - x = 0
  BY <1>2
<1>4. HeadOk(<< >>, 0, << >>)
  <2>1. << >> \in Seq(Bufs)
    OBVIOUS
  <2> QED  BY <2>1, TotalEmpty, MatchesEmpty DEF HeadOk
<1>5. /\ rbh_bufs' = [rbh_bufs EXCEPT ![h] = << >>]
      /\ rbh_len' = [rbh_len EXCEPT ![h] = 0]
      /\ content' = [content EXCEPT ![h] = << >>]
      /\ ser' = NoSer
  BY <1>1, <1>2, <1>3, HeadFacts DEF rd_bufh_destroy
<1>6. bufFault' = "none"
  BY <1>1 DEF rd_bufh_destroy, BufInv
<1> QED  BY <1>4, <1>5, <1>6, OneHead

LEMMA MoveBufsInv ==
    ASSUME BufInv, NEW d \in Heads, NEW s \in Heads, rd_bufh_move(d, s)
    PROVE  BufInv'
<1>1. PICK p \in Seq(Bufs), q \in Seq(Bufs) : p = rbh_bufs[d] /\ q = rbh_bufs[s]
  BY HeadFacts
<1>1a. PICK cp, cq : cp = content[d] /\ cq = content[s] /\ Matches(p, cp) /\ Matches(q, cq)
  BY <1>1, HeadFacts
<1>2. /\ rbh_len[d] = TotalLen(p) /\ rbh_len[s] = TotalLen(q)
      /\ DOMAIN rbh_bufs = Heads /\ DOMAIN rbh_len = Heads /\ DOMAIN content = Heads
  BY <1>1, HeadFacts
<1>3. d # s /\ ser' = NoSer /\ bufFault' = "none"
  BY DEF rd_bufh_move, BufInv
<1>4. /\ rbh_bufs' = [rbh_bufs EXCEPT ![d] = p \o q, ![s] = << >>]
      /\ rbh_len' = [rbh_len EXCEPT ![d] = TotalLen(p) + TotalLen(q), ![s] = 0]
      /\ content' = [content EXCEPT ![d] = cp \o cq, ![s] = << >>]
  BY <1>1, <1>1a, <1>2, <1>3 DEF rd_bufh_move, Moved, LenAfterMove
<1>5. HeadOk(p \o q, TotalLen(p) + TotalLen(q), cp \o cq)
  BY <1>1a, ConcatFacts, TotalConcat, MatchesConcat DEF HeadOk
<1>6. HeadOk(<< >>, 0, << >>)
  <2>1. << >> \in Seq(Bufs)
    OBVIOUS
  <2> QED  BY <2>1, TotalEmpty, MatchesEmpty DEF HeadOk
<1>7. /\ DOMAIN rbh_bufs' = Heads /\ DOMAIN rbh_len' = Heads /\ DOMAIN content' = Heads
      /\ rbh_bufs' = [g \in Heads |-> rbh_bufs'[g]]
      /\ rbh_len' = [g \in Heads |-> rbh_len'[g]]
      /\ content' = [g \in Heads |-> content'[g]]
  BY <1>2, <1>4
<1>8. ASSUME NEW g \in Heads PROVE HeadOk(rbh_bufs'[g], rbh_len'[g], content'[g])
  <2>1. CASE g = s
    <3>1. rbh_bufs'[g] = << >> /\ rbh_len'[g] = 0 /\ content'[g] = << >>
      BY <1>2, <1>3, <1>4, <2>1
    <3> QED  BY <1>6, <3>1
  <2>2. CASE g = d
    <3>1. /\ rbh_bufs'[g] = p \o q /\ rbh_len'[g] = TotalLen(p) + TotalLen(q)
          /\ content'[g] = cp \o cq
      BY <1>2, <1>3, <1>4, <2>2
    <3> QED  BY <1>5, <3>1
  <2>3. CASE g # s /\ g # d
    <3>1. rbh_bufs'[g] = rbh_bufs[g] /\ rbh_len'[g] = rbh_len[g] /\ content'[g] = content[g]
      BY <1>2, <1>3, <1>4, <2>3
    <3>2. HeadOk(rbh_bufs[g], rbh_len[g], content[g])
      BY DEF BufInv, HeadsOk
    <3> QED  BY <3>1, <3>2
  <2> QED  BY <2>1, <2>2, <2>3
<1> QED  BY <1>3, <1>7, <1>8 DEF BufInv, HeadsOk

-----------------------------------------------------------------------------
(* Serialization.                                                          *)

\* The steps of a serialization leave the heads alone.
LEMMA SerInv ==
    ASSUME BufInv, UNCHANGED <<rbh_bufs, rbh_len, content, bufFault>>,
           ser' = NoSer \/ Serializing(ser', rbh_bufs)
    PROVE  BufInv'
BY DEF BufInv, HeadsOk, Serializing, HeadOk

LEMMA BeginInv ==
    ASSUME BufInv, NEW h \in Heads, SerializeBegin(h)
    PROVE  BufInv'
<1>1. PICK s : s = [st |-> "run", rbh |-> h, at |-> 1, len |-> 0, out |-> << >>, whole |-> TRUE]
  OBVIOUS
<1>2. PICK bs \in Seq(Bufs) : bs = rbh_bufs[h]
  BY HeadFacts
<1>3. SubSeq(bs, 1, 1 - 1) = << >>
  OBVIOUS
<1>4. /\ s.st = "run" /\ s.rbh = h /\ s.at = 1 /\ s.len = 0 /\ s.out = << >> /\ s.whole = TRUE
      /\ s = [st |-> s.st, rbh |-> s.rbh, at |-> s.at, len |-> s.len,
              out |-> s.out, whole |-> s.whole]
  BY <1>1
<1>5. Progress(<< >>, s)
  <2>1. << >> \in Seq(BufBytes) /\ Len(<< >>) = 0
    OBVIOUS
  <2>2. s.rbh \in Heads /\ s.len \in Nat /\ s.out \in Seq(BufBytes) /\ Len(s.out) = s.len
    BY <1>4, <2>1
  <2>3. s.whole \in BOOLEAN
    BY <1>4
  <2>4. TotalLen(<< >>) = s.len /\ s.out = Copyout(<< >>)
    BY <1>4, TotalEmpty, CopyEmpty
  <2>5. s.len <= TotalLen(<< >>)
    BY <2>2, <2>4
  <2> QED  BY <2>2, <2>3, <2>4, <2>5 DEF Progress
<1>6. 1 \in 1..Len(bs) + 1
  BY SeqFacts
<1>7. Serializing(s, rbh_bufs)
  BY <1>2, <1>3, <1>4, <1>5, <1>6 DEF Serializing
<1>8. ser' = s /\ UNCHANGED <<rbh_bufs, rbh_len, content, bufFault>>
  BY <1>1 DEF SerializeBegin
<1> QED  BY <1>7, <1>8, SerInv

\* What a step within the list finds.
LEMMA RunningFacts ==
    ASSUME BufInv, ser.st = "run"
    PROVE  /\ ser.rbh \in Heads /\ rbh_bufs[ser.rbh] \in Seq(Bufs)
           /\ ser.at \in 1..Len(rbh_bufs[ser.rbh]) + 1
           /\ Progress(SubSeq(rbh_bufs[ser.rbh], 1, ser.at - 1), ser)
           /\ ser = [st |-> ser.st, rbh |-> ser.rbh, at |-> ser.at, len |-> ser.len,
                     out |-> ser.out, whole |-> ser.whole]
<1>1. ser # NoSer
  BY DEF NoSer
<1>2. Serializing(ser, rbh_bufs)
  BY <1>1 DEF BufInv
<1> QED  BY <1>2, HeadFacts DEF Serializing

\* The same bytes written, seen from another place.
LEMMA ProgressSame ==
    ASSUME NEW p, NEW q, NEW s, NEW t, Progress(p, s),
           TotalLen(q) = TotalLen(p), Copyout(q) = Copyout(p),
           t.rbh = s.rbh, t.len = s.len, t.out = s.out, t.whole = s.whole
    PROVE  Progress(q, t)
BY DEF Progress

LEMMA SkipInv ==
    ASSUME BufInv, SerializeSkip
    PROVE  BufInv'
<1>1. PICK h \in Heads, bs \in Seq(Bufs) : h = ser.rbh /\ bs = rbh_bufs[h]
  BY RunningFacts DEF SerializeSkip
<1>2. PICK i \in 1..Len(bs) : i = ser.at
  <2>1. PICK n \in Nat : n = Len(bs)
    BY SeqFacts
  <2>2. ser.at \in 1..n + 1 /\ ser.at <= n
    BY <1>1, <2>1, RunningFacts DEF SerializeSkip
  <2>3. ser.at \in 1..n
    BY <2>1, <2>2
  <2> QED  BY <2>1, <2>3
<1>3. PICK p, q : p = SubSeq(bs, 1, i - 1) /\ q = SubSeq(bs, 1, i)
  OBVIOUS
<1>4. bs[i] \in Bufs /\ p \in Seq(Bufs) /\ q = p \o <<bs[i]>>
  BY <1>3, PrefixStep
<1>5. bs[i].rb_len = 0
  BY <1>1, <1>2 DEF SerializeSkip, Skipped
<1>6. TotalLen(q) = TotalLen(p) /\ Copyout(q) = Copyout(p)
  BY <1>4, <1>5, EmptyBuf
<1>7. PICK s : s = [ser EXCEPT !.at = @ + 1]
  OBVIOUS
<1>8. ser.st = "run" /\ ser' = s /\ UNCHANGED <<rbh_bufs, rbh_len, content, bufFault>>
  BY <1>7 DEF SerializeSkip
<1>9. /\ Progress(p, ser)
      /\ ser = [st |-> ser.st, rbh |-> ser.rbh, at |-> ser.at, len |-> ser.len,
                out |-> ser.out, whole |-> ser.whole]
  BY <1>1, <1>2, <1>3, <1>8, RunningFacts
<1>10. /\ s.st = "run" /\ s.rbh = h /\ s.at = i + 1
       /\ s.len = ser.len /\ s.out = ser.out /\ s.whole = ser.whole
       /\ s = [st |-> s.st, rbh |-> s.rbh, at |-> s.at, len |-> s.len,
               out |-> s.out, whole |-> s.whole]
  BY <1>1, <1>2, <1>7, <1>8, <1>9
<1>11. Progress(q, s)
  BY <1>1, <1>6, <1>9, <1>10, ProgressSame
<1>12. i + 1 \in 1..Len(bs) + 1 /\ (i + 1) - 1 = i
  BY <1>2, SeqFacts
<1>13. Serializing(s, rbh_bufs)
  BY <1>1, <1>3, <1>10, <1>11, <1>12 DEF Serializing
<1> QED  BY <1>8, <1>13, SerInv

LEMMA FailsInv ==
    ASSUME BufInv, SerializeFails
    PROVE  BufInv'
<1>1. ser' = NoSer /\ UNCHANGED <<rbh_bufs, rbh_len, content, bufFault>>
  BY DEF SerializeFails
<1> QED  BY <1>1, SerInv

LEMMA EndInv ==
    ASSUME BufInv, SerializeEnd
    PROVE  BufInv'
<1>1. PICK h \in Heads, bs \in Seq(Bufs) : h = ser.rbh /\ bs = rbh_bufs[h]
  BY RunningFacts DEF SerializeEnd
<1>2. SubSeq(bs, 1, ser.at - 1) = bs
  <2>1. PICK n \in Nat : n = Len(bs)
    BY SeqFacts
  <2>2. ser.at \in 1..n + 1 /\ ser.at > n
    BY <1>1, <2>1, RunningFacts DEF SerializeEnd
  <2>3. ser.at - 1 = Len(bs)
    BY <2>1, <2>2
  <2> QED  BY <2>3, SubSeqFull
<1>3. PICK s : s = [ser EXCEPT !.st = "done"]
  OBVIOUS
<1>4. ser.st = "run" /\ ser' = s /\ UNCHANGED <<rbh_bufs, rbh_len, content, bufFault>>
  BY <1>3 DEF SerializeEnd
<1>5. /\ Progress(bs, ser)
      /\ ser = [st |-> ser.st, rbh |-> ser.rbh, at |-> ser.at, len |-> ser.len,
                out |-> ser.out, whole |-> ser.whole]
  BY <1>1, <1>2, <1>4, RunningFacts
<1>6. /\ s.st = "done" /\ s.rbh = h
      /\ s.len = ser.len /\ s.out = ser.out /\ s.whole = ser.whole
      /\ s = [st |-> s.st, rbh |-> s.rbh, at |-> s.at, len |-> s.len,
              out |-> s.out, whole |-> s.whole]
  BY <1>1, <1>3, <1>4, <1>5
<1>7. Progress(bs, s)
  BY <1>1, <1>5, <1>6, ProgressSame
<1>8. Serializing(s, rbh_bufs)
  BY <1>1, <1>6, <1>7 DEF Serializing
<1> QED  BY <1>4, <1>8, SerInv

\* What one write() adds to the bytes that were written.
LEMMA WriteProgress ==
    ASSUME NEW p \in Seq(Bufs), NEW q \in Seq(Bufs), NEW b \in Bufs, NEW s, NEW t,
           TotalLen(q) = TotalLen(p) + b.rb_len, Copyout(q) = Copyout(p) \o Used(b),
           Progress(p, s), NEW r \in Nat, r <= b.rb_len,
           t.rbh = s.rbh, t.len = s.len + r, t.out = s.out \o SubSeq(b.rb_orig, 1, r),
           t.whole \in BOOLEAN, t.whole => s.whole, t.whole => r = b.rb_len
    PROVE  Progress(q, t)
<1>1. PICK x \in Nat, y \in Nat, n \in Nat, o \in Seq(BufBytes), g \in Seq(BufBytes) :
            /\ x = TotalLen(p) /\ y = b.rb_len /\ n = s.len /\ o = s.out
            /\ g = b.rb_orig /\ y <= Len(g) /\ Len(o) = n /\ n <= x
            /\ (n = x => o = Copyout(p))
  <2>1. s.len \in Nat /\ s.out \in Seq(BufBytes) /\ Len(s.out) = s.len /\ s.len <= TotalLen(p)
        /\ (s.len = TotalLen(p) => s.out = Copyout(p))
    BY DEF Progress
  <2>2. TotalLen(p) \in Nat
    BY TotalType
  <2>3. b.rb_len \in Nat /\ b.rb_orig \in Seq(BufBytes) /\ b.rb_len <= Len(b.rb_orig)
    BY BufFacts
  <2> QED  BY <2>1, <2>2, <2>3
<1>2. r \in 0..Len(g)
  <2>1. PICK l \in Nat : l = Len(g)
    BY SeqFacts
  <2>2. r <= y /\ y <= l
    BY <1>1, <2>1
  <2>3. r \in 0..l
    BY <2>1, <2>2
  <2> QED  BY <2>1, <2>3
<1>3. PICK e \in Seq(BufBytes) : e = SubSeq(g, 1, r) /\ Len(e) = r
  BY <1>2, PrefixFacts
<1>4. t.len = n + r /\ t.out = o \o e /\ r <= y /\ TotalLen(q) = x + y
  BY <1>1, <1>3
<1>5. o \o e \in Seq(BufBytes) /\ Len(o \o e) = n + r
  <2>1. o \o e \in Seq(BufBytes) /\ Len(o \o e) = Len(o) + Len(e)
    BY ConcatFacts
  <2>2. Len(o) = n /\ Len(e) = r
    BY <1>1, <1>3
  <2> QED  BY <2>1, <2>2
<1>6a. n <= x /\ r <= y
  BY <1>1, <1>4
<1>6. n + r \in Nat /\ n + r <= x + y
  BY <1>6a
<1>7. ASSUME n + r = x + y PROVE t.out = Copyout(q)
  <2>1. n = x /\ r = y
    BY <1>6a, <1>7
  <2>2. e = Used(b)
    BY <1>1, <1>3, <2>1 DEF Used
  <2> QED  BY <1>1, <1>4, <2>1, <2>2
<1>8. ASSUME t.whole PROVE n + r = x + y
  <2>1. s.whole /\ r = y
    BY <1>1, <1>8
  <2>2. n = x
    BY <1>1, <2>1 DEF Progress
  <2> QED  BY <2>1, <2>2
<1>9. t.rbh \in Heads
  BY DEF Progress
<1>10. t.len \in Nat /\ t.out \in Seq(BufBytes) /\ Len(t.out) = t.len /\ t.len <= TotalLen(q)
  BY <1>4, <1>5, <1>6
<1>11. t.len = TotalLen(q) => t.out = Copyout(q)
  BY <1>4, <1>7
<1>12. t.whole => t.len = TotalLen(q)
  BY <1>4, <1>8
<1> QED  BY <1>9, <1>10, <1>11, <1>12 DEF Progress

\* A write() that takes nothing ends the loop short of what there is.
LEMMA ShortProgress ==
    ASSUME NEW bs \in Seq(Bufs), NEW i \in 1..Len(bs), bs[i].rb_len # 0, NEW s, NEW t,
           Progress(SubSeq(bs, 1, i - 1), s),
           t.rbh = s.rbh, t.len = s.len + 0, t.out = s.out \o SubSeq(bs[i].rb_orig, 1, 0),
           t.whole = FALSE
    PROVE  Progress(bs, t)
<1>1. PICK p, q, u : p = SubSeq(bs, 1, i - 1) /\ q = SubSeq(bs, 1, i) /\ u = SubSeq(bs, i + 1, Len(bs))
  OBVIOUS
<1>2. PICK b \in Bufs : b = bs[i]
  BY SeqFacts
<1>3. p \in Seq(Bufs) /\ q \in Seq(Bufs) /\ TotalLen(q) = TotalLen(p) + b.rb_len
  BY <1>1, <1>2, PrefixStep
<1>4. u \in Seq(Bufs) /\ bs = q \o u
  <2>1. PICK k \in 0..Len(bs) : k = i
    BY SeqFacts
  <2>2. /\ SubSeq(bs, k + 1, Len(bs)) \in Seq(Bufs)
        /\ bs = SubSeq(bs, 1, k) \o SubSeq(bs, k + 1, Len(bs))
    BY SplitAt
  <2> QED  BY <1>1, <2>1, <2>2
<1>5. PICK x \in Nat, y \in Nat, z \in Nat : x = TotalLen(p) /\ y = b.rb_len /\ z = TotalLen(u)
  BY <1>3, <1>4, TotalType, BufFacts
<1>6. TotalLen(bs) = (x + y) + z
  BY <1>3, <1>4, <1>5, TotalConcat
<1>7. PICK n \in Nat, o \in Seq(BufBytes) : n = s.len /\ o = s.out /\ Len(o) = n /\ n <= x
  BY <1>1, <1>5 DEF Progress
<1>8. y # 0 /\ n < (x + y) + z
  BY <1>2, <1>5, <1>7
<1>9. t.len = n /\ t.out = o
  <2>1. SubSeq(bs[i].rb_orig, 1, 0) = << >>
    OBVIOUS
  <2>2. o \o << >> = o
    BY ConcatEmptySeq
  <2> QED  BY <1>7, <2>1, <2>2
<1>10. t.rbh \in Heads
  BY DEF Progress
<1>11. t.len \in Nat /\ t.out \in Seq(BufBytes) /\ Len(t.out) = t.len
  BY <1>7, <1>9
<1>12. t.len <= TotalLen(bs) /\ t.len # TotalLen(bs)
  BY <1>5, <1>6, <1>7, <1>8, <1>9
<1>13. t.whole \in BOOLEAN /\ ~t.whole
  OBVIOUS
<1> QED  BY <1>10, <1>11, <1>12, <1>13 DEF Progress

LEMMA WriteInv ==
    ASSUME BufInv, NEW r \in 0..MaxLen, SerializeWrite(r)
    PROVE  BufInv'
<1>1. PICK h \in Heads, bs \in Seq(Bufs) : h = ser.rbh /\ bs = rbh_bufs[h]
  BY RunningFacts DEF SerializeWrite
<1>2. PICK i \in 1..Len(bs) : i = ser.at
  <2>1. PICK n \in Nat : n = Len(bs)
    BY SeqFacts
  <2>2. ser.at \in 1..n + 1 /\ ser.at <= n
    BY <1>1, <2>1, RunningFacts DEF SerializeWrite
  <2>3. ser.at \in 1..n
    BY <2>1, <2>2
  <2> QED  BY <2>1, <2>3
<1>3. PICK b \in Bufs : b = bs[i]
  BY SeqFacts
<1>4. PICK p, q : p = SubSeq(bs, 1, i - 1) /\ q = SubSeq(bs, 1, i)
  OBVIOUS
<1>5. /\ p \in Seq(Bufs) /\ q \in Seq(Bufs)
      /\ TotalLen(q) = TotalLen(p) + b.rb_len /\ Copyout(q) = Copyout(p) \o Used(b)
  BY <1>3, <1>4, PrefixStep
<1>6. /\ ser.st = "run" /\ b.rb_len # 0 /\ r <= b.rb_len
      /\ ser' = [ser EXCEPT
                    !.st = IF r = 0 THEN "done" ELSE "run",
                    !.at = @ + 1,
                    !.len = @ + (IF r = 0 THEN 0 ELSE r),
                    !.out = @ \o SubSeq(b.rb_orig, 1, r),
                    !.whole = @ /\ r = b.rb_len]
      /\ UNCHANGED <<rbh_bufs, rbh_len, content, bufFault>>
  BY <1>1, <1>2, <1>3 DEF SerializeWrite, Skipped, Counted
<1>7. /\ Progress(p, ser)
      /\ ser = [st |-> ser.st, rbh |-> ser.rbh, at |-> ser.at, len |-> ser.len,
                out |-> ser.out, whole |-> ser.whole]
  BY <1>1, <1>2, <1>4, <1>6, RunningFacts
<1>8. PICK s : s = ser'
  OBVIOUS
<1>9. r \in Nat
  BY BufAssumption
<1>10. /\ s.st = IF r = 0 THEN "done" ELSE "run"
       /\ s.rbh = h /\ s.at = i + 1 /\ s.len = ser.len + r
       /\ s.out = ser.out \o SubSeq(b.rb_orig, 1, r)
       /\ s = [st |-> s.st, rbh |-> s.rbh, at |-> s.at, len |-> s.len,
               out |-> s.out, whole |-> s.whole]
  BY <1>1, <1>2, <1>6, <1>7, <1>8
<1>11. s.whole = (ser.whole /\ r = b.rb_len)
  BY <1>6, <1>7, <1>8
<1>12. i + 1 \in 1..Len(bs) + 1 /\ (i + 1) - 1 = i
  BY <1>2, SeqFacts
<1>13. CASE r = 0
  <2>1. s.whole = FALSE
    BY <1>6, <1>11, <1>13
  <2>2. Progress(bs, s)
    BY <1>1, <1>3, <1>4, <1>6, <1>7, <1>10, <1>13, <2>1, ShortProgress
  <2>3. Serializing(s, rbh_bufs)
    BY <1>1, <1>10, <1>13, <2>2 DEF Serializing
  <2> QED  BY <1>6, <1>8, <2>3, SerInv
<1>14. CASE r # 0
  <2>1. s.whole \in BOOLEAN
    BY <1>11
  <2>2. s.whole => ser.whole
    BY <1>11
  <2>3. s.whole => r = b.rb_len
    BY <1>11
  <2>4. Progress(q, s)
    BY <1>1, <1>5, <1>6, <1>7, <1>9, <1>10, <2>1, <2>2, <2>3, WriteProgress
  <2>5. Serializing(s, rbh_bufs)
    BY <1>1, <1>4, <1>10, <1>12, <1>14, <2>4 DEF Serializing
  <2> QED  BY <1>6, <1>8, <2>5, SerInv
<1> QED  BY <1>13, <1>14

-----------------------------------------------------------------------------
(* The theorems.                                                           *)

LEMMA BufNextInv == BufInv /\ [BufNext]_bufVars => BufInv'
<1> SUFFICES ASSUME BufInv, [BufNext]_bufVars PROVE BufInv'
  OBVIOUS
<1>1. ASSUME NEW h \in Heads, NEW d \in DataBytes, NEW len \in Lens,
             \/ \E owner \in BOOLEAN :
                    \/ rd_bufh_append(h, Run(d, len), owner)
                    \/ rd_bufh_prepend(h, Run(d, len), owner)
             \/ \E r \in 0..len : rd_bufh_recv(h, d, len, r)
             \/ rd_bufh_vsprintf(h, d, len)
             \/ \E i \in 0..Len(rbh_bufs[h]) : rd_buf_sprintf(h, i, d, len)
      PROVE  BufInv'
  <2>1. ASSUME NEW owner \in BOOLEAN, rd_bufh_append(h, Run(d, len), owner) PROVE BufInv'
    BY <2>1, AppendInv
  <2>2. ASSUME NEW owner \in BOOLEAN, rd_bufh_prepend(h, Run(d, len), owner) PROVE BufInv'
    BY <2>2, PrependInv
  <2>3. ASSUME NEW r \in 0..len, rd_bufh_recv(h, d, len, r) PROVE BufInv'
    BY <2>3, RecvInv
  <2>4. ASSUME rd_bufh_vsprintf(h, d, len) PROVE BufInv'
    BY <2>4, VsprintfInv
  <2>5. ASSUME NEW i \in 0..Len(rbh_bufs[h]), rd_buf_sprintf(h, i, d, len) PROVE BufInv'
    BY <2>5, SprintfInv
  <2> QED  BY <1>1, <2>1, <2>2, <2>3, <2>4, <2>5
<1>2. ASSUME NEW h \in Heads,
             \/ \E i \in DOMAIN rbh_bufs[h] : rd_buf_destroy(h, i)
             \/ rd_bufh_destroy(h)
             \/ \E g \in Heads : rd_bufh_move(h, g)
             \/ SerializeBegin(h)
      PROVE  BufInv'
  BY <1>2, DestroyInv, DestroyAllInv, MoveBufsInv, BeginInv
<1>3. CASE SerializeSkip
  BY <1>3, SkipInv
<1>4. ASSUME NEW r \in 0..MaxLen, SerializeWrite(r) PROVE BufInv'
  BY <1>4, WriteInv
<1>5. CASE SerializeFails
  BY <1>5, FailsInv
<1>6. CASE SerializeEnd
  BY <1>6, EndInv
<1>7. CASE UNCHANGED bufVars
  <2>1. /\ rbh_bufs' = rbh_bufs /\ rbh_len' = rbh_len /\ content' = content
        /\ ser' = ser /\ bufFault' = bufFault
    BY <1>7 DEF bufVars
  <2> QED  BY <2>1 DEF BufInv, HeadsOk, HeadOk, Serializing
<1> QED  BY <1>1, <1>2, <1>3, <1>4, <1>5, <1>6, <1>7 DEF BufNext

LEMMA BufAlways == BufSpec => []BufInv
BY BufInitInv, BufNextInv, PTL DEF BufSpec

\* rd_bufh_get_buf(), rd_bufh_update_len(), rd_bufh_buf_insert(),
\* rd_buf_destroy() and rd_bufh_move() keep a head's length equal to the sum of
\* its buffers' lengths, no buffer outgrows its memory and no write passes its
\* end, for any lengths, numbers of heads and buffers and least allocation.
THEOREM BufferLengthsAgree == BufSpec => []LengthsAgree
<1>1. BufInv => LengthsAgree
  <2> SUFFICES ASSUME BufInv PROVE LengthsAgree
    OBVIOUS
  <2>1. bufFault = "none"
    BY DEF BufInv
  <2>2. ASSUME NEW h \in Heads PROVE rbh_len[h] = TotalLen(rbh_bufs[h])
    BY HeadFacts
  <2>3. ASSUME NEW h \in Heads, NEW i \in DOMAIN rbh_bufs[h]
        PROVE  rbh_bufs[h][i].rb_len \in 0..rbh_bufs[h][i].rb_olen
    <3>1. PICK bs \in Seq(Bufs) : bs = rbh_bufs[h]
      BY HeadFacts
    <3>2. i \in 1..Len(bs)
      BY <3>1, SeqFacts
    <3>3. PICK b \in Bufs : b = bs[i]
      BY <3>2, SeqFacts
    <3>4. b.rb_len \in 0..b.rb_olen
      BY BufFacts
    <3> QED  BY <3>1, <3>3, <3>4
  <2> QED  BY <2>1, <2>2, <2>3 DEF LengthsAgree
<1> QED  BY <1>1, BufAlways, PTL

\* All that was given for each buffer of a list.
AllOf(cs) == [i \in DOMAIN cs |-> cs[i].pre \o cs[i].added]

LEMMA AllOfFacts ==
    ASSUME NEW cs \in Seq(Entries)
    PROVE  /\ AllOf(cs) \in Seq(Seq(BufBytes)) /\ Len(AllOf(cs)) = Len(cs)
           /\ \A i \in 1..Len(cs) : AllOf(cs)[i] = cs[i].pre \o cs[i].added
<1>1. PICK n \in Nat : n = Len(cs) /\ DOMAIN cs = 1..n /\ \A i \in 1..n : cs[i] \in Entries
  BY SeqFacts
<1>2. PICK f : f = AllOf(cs)
  OBVIOUS
<1>3. /\ DOMAIN f = 1..n /\ f = [i \in 1..n |-> f[i]]
      /\ \A i \in 1..n : f[i] = cs[i].pre \o cs[i].added
  BY <1>1, <1>2 DEF AllOf
<1>4. \A i \in 1..n : cs[i].pre \in Seq(BufBytes) /\ cs[i].added \in Seq(BufBytes)
  BY <1>1 DEF Entries
<1>5. \A i \in 1..n : f[i] \in Seq(BufBytes)
  BY <1>3, <1>4, ConcatFacts
<1>6. f \in Seq(Seq(BufBytes)) /\ Len(f) = n
  BY <1>3, <1>5, SeqBy
<1> QED  BY <1>1, <1>2, <1>3, <1>6

\* What is copied out is what was added to the buffers.
LEMMA CopyIsAdded ==
    ASSUME NEW bs, NEW cs, Matches(bs, cs)
    PROVE  Copyout(bs) = Added(cs)
<1>1. DOMAIN bs = DOMAIN cs /\ \A i \in DOMAIN bs : Used(bs[i]) = cs[i].added
  BY SeqFacts DEF Matches
<1>2. [i \in DOMAIN bs |-> Used(bs[i])] = [i \in DOMAIN cs |-> cs[i].added]
  BY <1>1
<1> QED  BY <1>2 DEF Copyout, Added

\* It is all that was given exactly if nothing came with rd_bufh_prepend().
LEMMA PrependedIsLost ==
    ASSUME NEW bs, NEW cs, Matches(bs, cs)
    PROVE  Copyout(bs) = AllGiven(cs) <=> \A i \in DOMAIN cs : cs[i].pre = << >>
<1>1. PICK n \in Nat : /\ n = Len(bs) /\ n = Len(cs) /\ bs \in Seq(Bufs)
                       /\ cs \in Seq(Entries) /\ DOMAIN cs = 1..n /\ DOMAIN bs = 1..n
  BY SeqFacts DEF Matches
<1>2. \A i \in 1..n : /\ cs[i].pre \in Seq(BufBytes) /\ cs[i].added \in Seq(BufBytes)
                       /\ cs[i].added = Used(bs[i])
  <2>1. \A i \in 1..n : cs[i] \in Entries
    BY <1>1, SeqFacts
  <2>2. \A i \in 1..n : cs[i].added = Used(bs[i])
    BY <1>1 DEF Matches
  <2> QED  BY <2>1, <2>2 DEF Entries
<1>3. AllGiven(cs) = Joined(AllOf(cs))
  BY DEF AllGiven, AllOf
<1>4. ASSUME \A i \in DOMAIN cs : cs[i].pre = << >> PROVE Copyout(bs) = AllGiven(cs)
  <2>1. \A i \in 1..n : cs[i].pre \o cs[i].added = Used(bs[i])
    BY <1>1, <1>2, <1>4, ConcatEmptySeq
  <2>2. [i \in DOMAIN bs |-> Used(bs[i])] = [i \in DOMAIN cs |-> cs[i].pre \o cs[i].added]
    BY <1>1, <2>1
  <2> QED  BY <2>2 DEF Copyout, AllGiven
<1>5. ASSUME NEW k \in 1..n, cs[k].pre # << >> PROVE Copyout(bs) # AllGiven(cs)
  <2>1. PICK S \in [0..n -> Seq(BufBytes)] :
              /\ Copyout(bs) = S[n] /\ S[0] = << >>
              /\ \A i \in 1..n : S[i] = S[i - 1] \o Used(bs[i])
    BY <1>1, CopySteps
  <2>2. PICK ss \in Seq(Seq(BufBytes)) :
              /\ ss = AllOf(cs) /\ Len(ss) = n
              /\ \A i \in 1..n : ss[i] = cs[i].pre \o cs[i].added
    BY <1>1, AllOfFacts
  <2>3. PICK A \in [0..n -> Seq(BufBytes)] :
              /\ Joined(ss) = A[n] /\ A[0] = << >>
              /\ \A i \in 1..n : A[i] = A[i - 1] \o ss[i]
    BY <2>2, JoinedSteps
  <2>4. ASSUME NEW i \in 1..n
        PROVE  /\ Len(S[i - 1]) \in Nat /\ Len(A[i - 1]) \in Nat
               /\ Len(cs[i].pre) \in Nat /\ Len(cs[i].added) \in Nat
               /\ Len(S[i]) = Len(S[i - 1]) + Len(cs[i].added)
               /\ Len(A[i]) = Len(A[i - 1]) + (Len(cs[i].pre) + Len(cs[i].added))
               /\ (Len(cs[i].pre) = 0 <=> cs[i].pre = << >>)
    <3>1. PICK s \in Seq(BufBytes), t \in Seq(BufBytes), p \in Seq(BufBytes), q \in Seq(BufBytes) :
              s = S[i - 1] /\ t = A[i - 1] /\ p = cs[i].pre /\ q = cs[i].added
      <4>1. i - 1 \in 0..n
        BY <1>1
      <4> QED  BY <1>2, <2>1, <2>3, <4>1
    <3>2. S[i] = s \o q /\ A[i] = t \o (p \o q)
      BY <1>2, <2>1, <2>2, <2>3, <3>1
    <3>3. Len(s \o q) = Len(s) + Len(q)
      BY ConcatFacts
    <3>4. p \o q \in Seq(BufBytes) /\ Len(p \o q) = Len(p) + Len(q)
      BY ConcatFacts
    <3>5. Len(t \o (p \o q)) = Len(t) + Len(p \o q)
      BY <3>4, ConcatFacts
    <3>6. Len(s) \in Nat /\ Len(t) \in Nat /\ Len(p) \in Nat /\ Len(q) \in Nat
          /\ (Len(p) = 0 <=> p = << >>)
      BY SeqFacts
    <3>7. Len(S[i]) = Len(s) + Len(q) /\ Len(A[i]) = Len(t) + (Len(p) + Len(q))
      BY <3>2, <3>3, <3>4, <3>5
    <3> QED  BY <3>1, <3>6, <3>7
  <2>5. PICK T : T = {i \in 0..n : /\ Len(S[i]) \in Nat /\ Len(A[i]) \in Nat
                                   /\ Len(S[i]) <= Len(A[i])
                                   /\ (k <= i => Len(S[i]) < Len(A[i]))}
    OBVIOUS
  <2>6. 0 \in T
    <3>1. Len(<< >>) = 0 /\ ~(k <= 0) /\ 0 \in 0..n
      BY <1>1
    <3> QED  BY <2>1, <2>3, <2>5, <3>1
  <2>7. ASSUME NEW i \in 1..n, i - 1 \in T PROVE i \in T
    <3>0. /\ Len(S[i - 1]) \in Nat /\ Len(A[i - 1]) \in Nat
          /\ Len(cs[i].pre) \in Nat /\ Len(cs[i].added) \in Nat
      BY <2>4
    <3>1. PICK x \in Nat, y \in Nat, u \in Nat, w \in Nat :
              /\ x = Len(S[i - 1]) /\ y = Len(A[i - 1])
              /\ u = Len(cs[i].pre) /\ w = Len(cs[i].added)
      BY <3>0
    <3>1a. /\ Len(S[i]) = x + w /\ Len(A[i]) = y + (u + w)
           /\ (u = 0 <=> cs[i].pre = << >>)
      BY <2>4, <3>1
    <3>2. x <= y /\ (k <= i - 1 => x < y)
      BY <2>5, <2>7, <3>1
    <3>3. k = i => u # 0
      BY <1>5, <3>1a
    <3>4. k <= i => k = i \/ k <= i - 1
      BY <1>5, <2>7
    <3>5. /\ x + w \in Nat /\ y + (u + w) \in Nat /\ x + w <= y + (u + w)
          /\ (k <= i => x + w < y + (u + w))
      BY <3>2, <3>3, <3>4
    <3>6. i \in 0..n
      BY <1>1
    <3> QED  BY <2>5, <3>1a, <3>5, <3>6
  <2>8. \A i \in 0..n : i \in T
    BY <1>1, <2>6, <2>7, Upto
  <2>9. n \in T /\ k <= n
    BY <1>1, <2>8
  <2>10. Len(S[n]) < Len(A[n]) /\ Len(S[n]) \in Nat
    BY <2>5, <2>9
  <2>11. Len(S[n]) # Len(A[n])
    BY <2>10
  <2> QED  BY <1>3, <2>1, <2>2, <2>3, <2>11
<1> QED  BY <1>1, <1>4, <1>5

\* rd_bufh_copyout() of a head always gives the bytes that were appended,
\* received, formatted or inserted and not destroyed, in order; those given to
\* rd_bufh_prepend() are missing, whatever the calls before and after it, for
\* any data, least allocation and numbers of heads and buffers.
THEOREM BufferContentIsKept == BufSpec => []ContentIsKept
<1>1. BufInv => ContentIsKept
  <2> SUFFICES ASSUME BufInv, NEW h \in Heads
               PROVE  /\ Copyout(rbh_bufs[h]) = Added(content[h])
                      /\ Copyout(rbh_bufs[h]) = AllGiven(content[h]) <=>
                            \A i \in DOMAIN content[h] : content[h][i].pre = << >>
    BY DEF ContentIsKept
  <2>1. Matches(rbh_bufs[h], content[h])
    BY HeadFacts
  <2> QED  BY <2>1, CopyIsAdded, PrependedIsLost
<1> QED  BY <1>1, BufAlways, PTL

\* The value rd_bufh_writeout_fd() returns equals rd_bufh_len() exactly when
\* every byte the head holds was written, whatever each write() took.
THEOREM ReturnAlwaysTellsLoss == BufSpec => []ReturnTellsLoss
<1>1. BufInv => ReturnTellsLoss
  <2> SUFFICES ASSUME BufInv, ser.st = "done"
               PROVE  /\ ser.len = rbh_len[ser.rbh] <=> ser.out = Added(content[ser.rbh])
                      /\ ser.whole => ser.out = Added(content[ser.rbh])
    BY DEF ReturnTellsLoss
  <2>1. ser # NoSer
    BY DEF NoSer
  <2>2. Serializing(ser, rbh_bufs)
    BY <2>1 DEF BufInv
  <2>3. PICK h \in Heads, bs \in Seq(Bufs) :
            h = ser.rbh /\ bs = rbh_bufs[h] /\ rbh_len[h] = TotalLen(bs) /\ Added(content[h]) = Copyout(bs)
    BY <2>2, HeadFacts, CopyIsAdded DEF Serializing
  <2>4. Progress(bs, ser)
    BY <2>2, <2>3 DEF Serializing
  <2>5. ser.len = TotalLen(bs) => ser.out = Copyout(bs)
    BY <2>4 DEF Progress
  <2>6. ASSUME ser.out = Copyout(bs) PROVE ser.len = TotalLen(bs)
    <3>1. Len(ser.out) = ser.len
      BY <2>4 DEF Progress
    <3>2. Len(Copyout(bs)) = TotalLen(bs)
      BY LenCopy
    <3> QED  BY <2>6, <3>1, <3>2
  <2>7. ASSUME ser.whole PROVE ser.out = Copyout(bs)
    <3>1. ser.len = TotalLen(bs)
      BY <2>4, <2>7 DEF Progress
    <3> QED  BY <2>5, <3>1
  <2>8. /\ ser.len = rbh_len[ser.rbh] <=> ser.len = TotalLen(bs)
        /\ ser.out = Added(content[ser.rbh]) <=> ser.out = Copyout(bs)
    BY <2>3
  <2> QED  BY <2>5, <2>6, <2>7, <2>8
<1> QED  BY <1>1, BufAlways, PTL

-----------------------------------------------------------------------------
(* Sums over finite sets.                                                  *)

\* g gives the sum of w over every subset of S.
IsSum(g, w, S) ==
    /\ g[{}] = 0
    /\ \A T \in SUBSET S : \A x \in T : g[T] = g[T \ {x}] + w[x]
    /\ \A T, U \in SUBSET S : T \subseteq U => g[T] <= g[U]

\* Adding up along an enumeration of S gives such sums.
LEMMA SumExists ==
    ASSUME NEW S, IsFiniteSet(S), NEW w \in [S -> Nat]
    PROVE  \E g \in [SUBSET S -> Nat] : IsSum(g, w, S)
<1>0. PICK n \in Nat : \E e : e \in Bijection(1..n, S)
  <2>1. Cardinality(S) \in Nat /\ ExistsBijection(1..Cardinality(S), S)
    BY FS_CardinalityType
  <2> QED  BY <2>1 DEF ExistsBijection
<1>1. PICK e : e \in Bijection(1..n, S)
  BY <1>0
<1>2. /\ e \in [1..n -> S]
      /\ \A i, j \in 1..n : e[i] = e[j] => i = j
      /\ \A x \in S : \E i \in 1..n : e[i] = x
  BY <1>1 DEF Bijection, Injection, Surjection, IsInjective
<1>3. PICK V : V = [SUBSET S -> Nat]
  OBVIOUS
<1>4. PICK A : A = [i \in 1..n |-> [T \in SUBSET S |-> IF e[i] \in T THEN w[e[i]] ELSE 0]]
  OBVIOUS
<1>5. \A i \in 1..n, T \in SUBSET S :
            A[i][T] \in Nat /\ A[i][T] = IF e[i] \in T THEN w[e[i]] ELSE 0
  BY <1>2, <1>4
<1>6. PICK G : G = [i \in 1..n |-> [u \in V |-> [T \in SUBSET S |-> u[T] + A[i][T]]]]
  OBVIOUS
<1>7. PICK z : z = [T \in SUBSET S |-> 0]
  OBVIOUS
<1>8. Steps(G, n, V, z)
  <2>1. ASSUME NEW i \in 1..n, NEW u \in V PROVE [T \in SUBSET S |-> u[T] + A[i][T]] \in V
    <3>1. \A T \in SUBSET S : u[T] \in Nat /\ A[i][T] \in Nat
      BY <1>3, <1>5
    <3>2. \A T \in SUBSET S : u[T] + A[i][T] \in Nat
      BY <3>1
    <3> QED  BY <1>3, <3>2
  <2>2. z \in V
    BY <1>3, <1>7
  <2>3. \A i \in 1..n : [u \in V |-> [T \in SUBSET S |-> u[T] + A[i][T]]] \in [V -> V]
    BY <2>1
  <2> QED  BY <1>6, <2>2, <2>3 DEF Steps
<1>9. PICK F \in [0..n -> V] : F[0] = z /\ \A i \in 1..n : F[i] = G[i][F[i - 1]]
  <2>1. \E f \in [0..n -> V] : f[0] = z /\ \A i \in 1..n : f[i] = G[i][f[i - 1]]
    BY <1>8, RecExists
  <2> QED  BY <2>1
<1>10. \A i \in 0..n, T \in SUBSET S : F[i][T] \in Nat
  BY <1>3
<1>11. ASSUME NEW i \in 1..n, NEW T \in SUBSET S PROVE F[i][T] = F[i - 1][T] + A[i][T]
  <2>1. PICK u \in V : u = F[i - 1]
    <3>1. i - 1 \in 0..n
      BY <1>1
    <3> QED  BY <3>1
  <2>2. G[i][u] = [X \in SUBSET S |-> u[X] + A[i][X]]
    BY <1>6
  <2> QED  BY <1>9, <2>1, <2>2
<1>12. PICK g : g = F[n]
  OBVIOUS
<1>13. g \in [SUBSET S -> Nat]
  <2>1. n \in 0..n
    BY <1>1
  <2> QED  BY <1>3, <1>12, <2>1
<1>14. g[{}] = 0
  <2>1. PICK E \in SUBSET S : E = {}
    OBVIOUS
  <2>2. PICK T : T = {i \in 0..n : F[i][E] = 0}
    OBVIOUS
  <2>3. 0 \in T
    BY <1>1, <1>7, <1>9, <2>2
  <2>4. ASSUME NEW i \in 1..n, i - 1 \in T PROVE i \in T
    <3>1. F[i][E] = F[i - 1][E] + A[i][E] /\ A[i][E] = 0
      BY <1>5, <1>11, <2>1
    <3> QED  BY <1>1, <2>2, <2>4, <3>1
  <2>5. n \in T
    <3>1. \A i \in 0..n : i \in T
      BY <2>3, <2>4, Upto
    <3> QED  BY <1>1, <3>1
  <2> QED  BY <1>12, <2>1, <2>2, <2>5
<1>15. ASSUME NEW X \in SUBSET S, NEW x \in X PROVE g[X] = g[X \ {x}] + w[x]
  <2>1. PICK k \in 1..n : e[k] = x
    BY <1>2
  <2>2. PICK R \in SUBSET S : R = X \ {x}
    OBVIOUS
  <2>3. PICK a \in Nat : a = w[x]
    OBVIOUS
  <2>4. PICK T : T = {i \in 0..n : F[i][X] = F[i][R] + (IF i < k THEN 0 ELSE a)}
    OBVIOUS
  <2>5. 0 \in T
    <3>1. 0 \in 0..n /\ 0 < k /\ F[0][X] = 0 /\ F[0][R] = 0
      BY <1>1, <1>7, <1>9, <2>1
    <3> QED  BY <2>4, <3>1
  <2>6. ASSUME NEW i \in 1..n, i - 1 \in T PROVE i \in T
    <3>1. i \in 0..n /\ i - 1 \in 0..n
      BY <1>1
    <3>2. PICK b \in Nat, c \in Nat : b = F[i - 1][X] /\ c = F[i - 1][R]
      BY <1>10, <3>1
    <3>3. b = c + (IF i - 1 < k THEN 0 ELSE a)
      BY <2>4, <2>6, <3>2
    <3>4. F[i][X] = b + A[i][X] /\ F[i][R] = c + A[i][R]
      BY <1>11, <3>2
    <3>5. CASE i = k
      <4>1. A[i][X] = a /\ A[i][R] = 0
        BY <1>5, <2>1, <2>2, <2>3, <3>5
      <4>2. b = c /\ ~(i < k)
        BY <2>1, <3>2, <3>3, <3>5
      <4>3. F[i][X] = F[i][R] + a
        BY <2>3, <3>2, <3>4, <4>1, <4>2
      <4> QED  BY <2>4, <3>1, <4>2, <4>3
    <3>6. CASE i # k
      <4>1. e[i] # x
        BY <1>2, <2>1, <3>6
      <4>2. PICK m \in Nat : m = A[i][X] /\ m = A[i][R]
        <5>1. e[i] \in X <=> e[i] \in R
          BY <2>2, <4>1
        <5> QED  BY <1>5, <5>1
      <4>3. i - 1 < k <=> i < k
        BY <1>1, <2>1, <3>6
      <4>4. PICK d \in Nat : d = IF i < k THEN 0 ELSE a
        BY <2>3
      <4>5. b = c + d
        BY <3>3, <4>3, <4>4
      <4>6. F[i][X] = (c + d) + m /\ F[i][R] = c + m
        BY <3>4, <4>2, <4>5
      <4>7. F[i][X] = F[i][R] + d
        <5>1. (c + d) + m = (c + m) + d
          OBVIOUS
        <5> QED  BY <4>6, <5>1
      <4> QED  BY <2>4, <3>1, <4>4, <4>7
    <3> QED  BY <3>5, <3>6
  <2>7. n \in T
    <3>1. \A i \in 0..n : i \in T
      BY <2>5, <2>6, Upto
    <3> QED  BY <1>1, <3>1
  <2>8. ~(n < k)
    BY <1>1, <2>1
  <2> QED  BY <1>12, <2>2, <2>3, <2>4, <2>7, <2>8
<1>16. ASSUME NEW X \in SUBSET S, NEW Y \in SUBSET S, X \subseteq Y PROVE g[X] <= g[Y]
  <2>1. PICK T : T = {i \in 0..n : F[i][X] <= F[i][Y]}
    OBVIOUS
  <2>2. 0 \in T
    <3>1. 0 \in 0..n /\ F[0][X] = 0 /\ F[0][Y] = 0
      BY <1>1, <1>7, <1>9
    <3> QED  BY <2>1, <3>1
  <2>3. ASSUME NEW i \in 1..n, i - 1 \in T PROVE i \in T
    <3>1. i \in 0..n /\ i - 1 \in 0..n
      BY <1>1
    <3>2. PICK b \in Nat, c \in Nat : b = F[i - 1][X] /\ c = F[i - 1][Y] /\ b <= c
      BY <1>10, <2>1, <2>3, <3>1
    <3>3. PICK p \in Nat, q \in Nat : p = A[i][X] /\ q = A[i][Y] /\ p <= q
      BY <1>5, <1>16
    <3>4. F[i][X] = b + p /\ F[i][Y] = c + q
      BY <1>11, <3>2, <3>3
    <3>5. b + p <= c + q
      <4>1. b <= c /\ p <= q
        BY <3>2, <3>3
      <4> QED  BY <4>1
    <3> QED  BY <2>1, <3>1, <3>4, <3>5
  <2>4. n \in T
    <3>1. \A i \in 0..n : i \in T
      BY <2>2, <2>3, Upto
    <3> QED  BY <1>1, <3>1
  <2> QED  BY <1>12, <2>1, <2>4
<1> QED  BY <1>13, <1>14, <1>15, <1>16 DEF IsSum

\* SumFunction computes them.
LEMMA SumUnique ==
    ASSUME NEW S, IsFiniteSet(S), NEW w \in [S -> Nat], NEW g \in [SUBSET S -> Nat],
           IsSum(g, w, S), NEW X \in SUBSET S
    PROVE  SumFunction([x \in X |-> w[x]]) = g[X]
<1>1. PICK v : v = [x \in X |-> w[x]]
  OBVIOUS
<1>2. DOMAIN v = X /\ \A x \in X : v[x] = w[x] /\ v[x] \in Nat
  BY <1>1
<1>3. PICK h : h = [s \in SUBSET X |-> g[s]]
  OBVIOUS
<1> DEFINE Step(f) == [s \in SUBSET X |-> IF s = {} THEN 0
                ELSE v[CHOOSE x \in s : TRUE] + f[s \ {CHOOSE x \in s : TRUE}]]
<1>4. ASSUME NEW s \in SUBSET X, s # {}
      PROVE  \E x \in s : x = CHOOSE y \in s : TRUE
  BY <1>4
<1>5. h = Step(h)
  <2>1. ASSUME NEW s \in SUBSET X
        PROVE  h[s] = IF s = {} THEN 0
                      ELSE v[CHOOSE x \in s : TRUE] + h[s \ {CHOOSE x \in s : TRUE}]
    <3>1. CASE s = {}
      BY <1>3, <3>1 DEF IsSum
    <3>2. CASE s # {}
      <4>1. PICK c \in s : c = CHOOSE y \in s : TRUE
        BY <1>4, <3>2
      <4>2. PICK r \in SUBSET X : r = s \ {c}
        OBVIOUS
      <4>3. g[s] = g[r] + w[c]
        BY <4>1, <4>2 DEF IsSum
      <4>4. PICK a \in Nat, b \in Nat : a = g[r] /\ b = w[c]
        BY <4>1, <4>2
      <4>5. h[s] = b + a
        BY <1>3, <4>3, <4>4
      <4>6. v[c] = b /\ h[r] = a
        BY <1>2, <1>3, <4>4
      <4> QED  BY <3>2, <4>1, <4>2, <4>5, <4>6
    <3> QED  BY <3>1, <3>2
  <2> QED  BY <1>3, <2>1
<1>6. ASSUME NEW f, f = Step(f) PROVE f = h
  <2>1. \A s \in SUBSET X : f[s] = IF s = {} THEN 0
                ELSE v[CHOOSE x \in s : TRUE] + f[s \ {CHOOSE x \in s : TRUE}]
    BY <1>6
  <2>2. \A s \in SUBSET X : h[s] = IF s = {} THEN 0
                ELSE v[CHOOSE x \in s : TRUE] + h[s \ {CHOOSE x \in s : TRUE}]
    BY <1>5
  <2>3. f = [s \in SUBSET X |-> f[s]] /\ h = [s \in SUBSET X |-> h[s]]
    BY <1>3, <1>6
  <2> HIDE DEF Step
  <2>4. SUFFICES ASSUME NEW bad \in SUBSET X, f[bad] # h[bad] PROVE FALSE
    BY <2>3
  <2>5. \A s \in SUBSET X : IsFiniteSet(s) /\ Cardinality(s) \in Nat
    BY FS_Subset, FS_CardinalityType
  <2>6. PICK R \in SUBSET Nat : R = {Cardinality(s) : s \in {t \in SUBSET X : f[t] # h[t]}}
    <3>1. {Cardinality(s) : s \in {t \in SUBSET X : f[t] # h[t]}} \in SUBSET Nat
      BY <2>5
    <3> QED  BY <3>1
  <2>7. R # {}
    BY <2>4, <2>6
  <2>8. PICK k \in R : \A j \in R : k <= j
    BY <2>7, LeastExists
  <2>9. PICK s \in SUBSET X : k = Cardinality(s) /\ f[s] # h[s]
    BY <2>6
  <2>10. s # {}
    BY <2>1, <2>2, <2>9
  <2>11. PICK c \in s : c = CHOOSE y \in s : TRUE
    BY <1>4, <2>10
  <2>12. PICK r \in SUBSET X : r = s \ {c}
    OBVIOUS
  <2>13. f[s] = v[c] + f[r] /\ h[s] = v[c] + h[r]
    BY <2>1, <2>2, <2>10, <2>11, <2>12
  <2>14. f[r] # h[r]
    BY <2>9, <2>13
  <2>15. Cardinality(r) = Cardinality(s) - 1
    BY <2>5, <2>11, <2>12, FS_RemoveElement
  <2>16. Cardinality(r) \in R
    BY <2>6, <2>14
  <2>17. k <= Cardinality(r) /\ k \in Nat
    BY <2>8, <2>16
  <2> QED  BY <2>9, <2>15, <2>17
<1>7. (CHOOSE f : f = Step(f)) = h
  <2> HIDE DEF Step
  <2> QED  BY <1>5, <1>6
<1>8. SumFunction(v) = h[X]
  <2> DEFINE C == CHOOSE iter : iter = [s \in SUBSET X |-> IF s = {} THEN 0
                    ELSE v[CHOOSE x \in s : TRUE] + iter[s \ {CHOOSE x \in s : TRUE}]]
  <2> DEFINE D == CHOOSE iter : iter = [s \in SUBSET DOMAIN v |-> IF s = {} THEN 0
                    ELSE v[CHOOSE x \in s : TRUE] + iter[s \ {CHOOSE x \in s : TRUE}]]
  <2>1. C = h
    BY <1>7
  <2>2. D = C
    BY <1>2
  <2>3. SumFunction(v) = D[DOMAIN v]
    BY Zenon DEF SumFunction, SumFunctionOnSet, FoldFunctionOnSet, MapThenFoldSet
  <2> HIDE DEF C, D
  <2> QED  BY <1>2, <2>1, <2>2, <2>3
<1> QED  BY <1>1, <1>3, <1>8

LEMMA SumFacts ==
    ASSUME NEW S, IsFiniteSet(S), NEW w \in [S -> Nat]
    PROVE  /\ SumFunction(w) \in Nat
           /\ \A x \in S : SumFunction(w) = SumFunction([y \in S \ {x} |-> w[y]]) + w[x]
           /\ \A T \in SUBSET S : /\ SumFunction([y \in T |-> w[y]]) \in Nat
                                  /\ SumFunction([y \in T |-> w[y]]) <= SumFunction(w)
<1>1. PICK g \in [SUBSET S -> Nat] : IsSum(g, w, S)
  BY SumExists
<1>2. \A T \in SUBSET S : SumFunction([y \in T |-> w[y]]) = g[T]
  BY <1>1, SumUnique
<1>3. SumFunction(w) = g[S]
  <2>1. PICK X \in SUBSET S : X = S
    OBVIOUS
  <2>2. w = [y \in X |-> w[y]]
    BY <2>1
  <2> QED  BY <1>2, <2>1, <2>2
<1>4. ASSUME NEW x \in S
      PROVE  SumFunction(w) = SumFunction([y \in S \ {x} |-> w[y]]) + w[x]
  <2>1. PICK R \in SUBSET S, X \in SUBSET S : R = S \ {x} /\ X = S
    OBVIOUS
  <2>2. g[X] = g[X \ {x}] + w[x]
    BY <1>1, <2>1 DEF IsSum
  <2>3. SumFunction([y \in R |-> w[y]]) = g[R]
    BY <1>2
  <2> QED  BY <1>3, <2>1, <2>2, <2>3
<1>5. ASSUME NEW T \in SUBSET S
      PROVE  /\ SumFunction([y \in T |-> w[y]]) \in Nat
             /\ SumFunction([y \in T |-> w[y]]) <= SumFunction(w)
  <2>1. PICK X \in SUBSET S : X = S
    OBVIOUS
  <2>2. g[T] <= g[X] /\ g[T] \in Nat
    BY <1>1, <2>1 DEF IsSum
  <2> QED  BY <1>2, <1>3, <2>1, <2>2
<1>6. S \in SUBSET S
  OBVIOUS
<1> QED  BY <1>3, <1>4, <1>5, <1>6

LEMMA SumNone ==
    ASSUME NEW w, w \in [{} -> Nat]
    PROVE  SumFunction(w) = 0
<1>1. PICK S : S = {}
  OBVIOUS
<1>2. IsFiniteSet(S) /\ w \in [S -> Nat] /\ w = [x \in S |-> w[x]] /\ S \in SUBSET S
  BY <1>1, FS_EmptySet
<1>3. PICK g \in [SUBSET S -> Nat] : IsSum(g, w, S)
  BY <1>2, SumExists
<1>4. SumFunction([x \in S |-> w[x]]) = g[S]
  BY <1>2, <1>3, SumUnique
<1> QED  BY <1>1, <1>2, <1>3, <1>4 DEF IsSum

\* The sum over the first n places of a list of numbers.
Upmost(w, n) == SumFunction([i \in 1..n |-> w[i]])

LEMMA UpmostFacts ==
    ASSUME NEW m \in Nat, NEW w \in [1..m -> Nat]
    PROVE  /\ \A n \in 0..m : Upmost(w, n) \in Nat
           /\ Upmost(w, 0) = 0
           /\ \A n \in 1..m : Upmost(w, n) = Upmost(w, n - 1) + w[n]
           /\ \A i, j \in 0..m : i <= j => Upmost(w, i) <= Upmost(w, j)
<1>1. PICK S : S = 1..m
  OBVIOUS
<1>2. IsFiniteSet(S) /\ w \in [S -> Nat]
  <2>1. PICK one \in Int : one = 1
    OBVIOUS
  <2>2. IsFiniteSet(one..m)
    BY FS_Interval
  <2> QED  BY <1>1, <2>1, <2>2
<1>3. PICK g \in [SUBSET S -> Nat] : IsSum(g, w, S)
  BY <1>2, SumExists
<1>4. \A T \in SUBSET S : SumFunction([x \in T |-> w[x]]) = g[T]
  BY <1>2, <1>3, SumUnique
<1>5. \A n \in 0..m : 1..n \in SUBSET S
  BY <1>1
<1>6. \A n \in 0..m : Upmost(w, n) = g[1..n] /\ g[1..n] \in Nat
  BY <1>4, <1>5 DEF Upmost
<1>7. Upmost(w, 0) = 0
  <2>1. 0 \in 0..m /\ 1..0 = {}
    OBVIOUS
  <2> QED  BY <1>3, <1>6, <2>1 DEF IsSum
<1>8. ASSUME NEW n \in 1..m PROVE Upmost(w, n) = Upmost(w, n - 1) + w[n]
  <2>1. n \in 0..m /\ n - 1 \in 0..m /\ (1..n) \ {n} = 1..(n - 1) /\ n \in 1..n
    OBVIOUS
  <2>2. PICK X \in SUBSET S : X = 1..n
    BY <1>5, <2>1
  <2>3. g[X] = g[X \ {n}] + w[n]
    BY <1>3, <2>1, <2>2 DEF IsSum
  <2> QED  BY <1>6, <2>1, <2>2, <2>3
<1>9. ASSUME NEW i \in 0..m, NEW j \in 0..m, i <= j PROVE Upmost(w, i) <= Upmost(w, j)
  <2>1. PICK X \in SUBSET S, Y \in SUBSET S : X = 1..i /\ Y = 1..j
    BY <1>5
  <2>2. X \subseteq Y
    BY <1>9, <2>1
  <2>3. g[X] <= g[Y]
    BY <1>3, <2>2 DEF IsSum
  <2> QED  BY <1>6, <2>1, <2>3
<1> QED  BY <1>6, <1>7, <1>8, <1>9

-----------------------------------------------------------------------------
(* Fields behind a struct.                                                 *)

Placed == [at : Nat, size : Nat]
Blocks == [ctx : Ctxs \cup {NoCtx}, size : Nat, base : Nat, fields : Seq(Placed)]

\* What FieldsFit says of one block.
Fits(b) ==
    \A i \in DOMAIN b.fields :
        /\ b.fields[i].at >= b.base /\ b.fields[i].at + b.fields[i].size <= b.size
        /\ \A j \in 1..(i - 1) : b.fields[j].at + b.fields[j].size <= b.fields[i].at

LEMMA FieldSizeType ==
    ASSUME NEW f \in Fields
    PROVE  FieldSize(f) \in Nat
<1>1. Sizes \subseteq Nat /\ Strings \subseteq Nat
  BY MemAssumption
<1>2. PICK n \in Nat : n = f.len
  BY <1>1 DEF Fields
<1>3. FieldSize(f) = n + 1 \/ FieldSize(f) = n
  BY <1>2 DEF FieldSize
<1> QED  BY <1>3

\* The block that rd_calloc_struct0() allocates.
StructBlock(c, base_size, fs) ==
    [ctx |-> c, size |-> base_size + FieldsSize(fs, Len(fs)), base |-> base_size,
     fields |-> IF base_size + FieldsSize(fs, Len(fs)) = base_size THEN << >>
                ELSE [i \in DOMAIN fs |->
                      [at |-> TailStart(base_size) + FieldsSize(fs, i - 1),
                       size |-> FieldSize(fs[i])]]]

LEMMA StructFits ==
    ASSUME NEW c \in Ctxs, NEW base \in Nat, NEW fs \in Seq(Fields)
    PROVE  /\ StructBlock(c, base, fs) \in Blocks /\ Fits(StructBlock(c, base, fs))
           /\ base + FieldsSize(fs, Len(fs)) \in Nat
<1>1. PICK m \in Nat : m = Len(fs)
  BY SeqFacts
<1>2. DOMAIN fs = 1..m /\ \A i \in 1..m : fs[i] \in Fields
  BY <1>1, SeqFacts
<1>3. PICK w : w = [i \in 1..m |-> FieldSize(fs[i])]
  OBVIOUS
<1>4. w \in [1..m -> Nat] /\ \A i \in 1..m : w[i] = FieldSize(fs[i])
  BY <1>2, <1>3, FieldSizeType
<1>5. \A n \in 0..m : FieldsSize(fs, n) = Upmost(w, n)
  <2>1. ASSUME NEW n \in 0..m PROVE FieldsSize(fs, n) = Upmost(w, n)
    <3>1. \A i \in 1..n : i \in 1..m
      OBVIOUS
    <3>2. [i \in 1..n |-> FieldSize(fs[i])] = [i \in 1..n |-> w[i]]
      BY <1>4, <3>1
    <3> QED  BY <3>2 DEF FieldsSize, Upmost
  <2> QED  BY <2>1
<1>6. PICK U \in [0..m -> Nat] : \A n \in 0..m : U[n] = FieldsSize(fs, n) /\ U[n] = Upmost(w, n)
  <2>1. \A n \in 0..m : Upmost(w, n) \in Nat
    BY <1>4, UpmostFacts
  <2>2. PICK U : U = [n \in 0..m |-> Upmost(w, n)]
    OBVIOUS
  <2> QED  BY <1>5, <2>1, <2>2
<1>7. /\ \A n \in 1..m : U[n] = U[n - 1] + w[n]
      /\ \A i, j \in 0..m : i <= j => U[i] <= U[j]
  <2>1. /\ \A n \in 1..m : Upmost(w, n) = Upmost(w, n - 1) + w[n]
        /\ \A i, j \in 0..m : i <= j => Upmost(w, i) <= Upmost(w, j)
    BY <1>4, UpmostFacts
  <2>2. \A n \in 1..m : n \in 0..m /\ n - 1 \in 0..m
    OBVIOUS
  <2> QED  BY <1>6, <2>1, <2>2
<1>8. PICK tot \in Nat : tot = base + FieldsSize(fs, Len(fs)) /\ tot = base + U[m]
  <2>1. m \in 0..m
    OBVIOUS
  <2> QED  BY <1>1, <1>6, <2>1
<1>9. PICK placed : placed = [i \in DOMAIN fs |->
                      [at |-> TailStart(base) + FieldsSize(fs, i - 1), size |-> FieldSize(fs[i])]]
  OBVIOUS
<1>10. /\ DOMAIN placed = 1..m /\ placed = [i \in 1..m |-> placed[i]]
       /\ \A i \in 1..m : placed[i].at = base + U[i - 1] /\ placed[i].size = w[i]
                            /\ placed[i] \in Placed
  <2>1. ASSUME NEW i \in 1..m
        PROVE  placed[i].at = base + U[i - 1] /\ placed[i].size = w[i] /\ placed[i] \in Placed
    <3>1. i - 1 \in 0..m
      OBVIOUS
    <3>2. placed[i] = [at |-> base + U[i - 1], size |-> w[i]]
      BY <1>2, <1>4, <1>6, <1>9, <3>1 DEF TailStart
    <3>3. base + U[i - 1] \in Nat /\ w[i] \in Nat
      BY <1>4, <3>1
    <3> QED  BY <3>2, <3>3 DEF Placed
  <2> QED  BY <1>2, <1>9, <2>1
<1>11. placed \in Seq(Placed) /\ << >> \in Seq(Placed)
  BY <1>10, SeqBy
<1>12. PICK fields \in Seq(Placed) :
            /\ fields = (IF tot = base THEN << >> ELSE placed)
            /\ fields = << >> \/ fields = placed
  BY <1>11
<1>13. PICK b : b = [ctx |-> c, size |-> tot, base |-> base, fields |-> fields]
  OBVIOUS
<1>14. b = StructBlock(c, base, fs)
  BY <1>8, <1>9, <1>12, <1>13 DEF StructBlock
<1>15. b \in Blocks /\ b.fields = fields /\ b.base = base /\ b.size = tot
  BY <1>13 DEF Blocks
<1>16. ASSUME NEW i \in 1..m
       PROVE  /\ placed[i].at >= base /\ placed[i].at + placed[i].size <= tot
              /\ \A j \in 1..(i - 1) : placed[j].at + placed[j].size <= placed[i].at
  <2>1. i \in 0..m /\ i - 1 \in 0..m /\ m \in 0..m /\ i <= m
    OBVIOUS
  <2>2. PICK x \in Nat, y \in Nat, s \in Nat : x = U[i - 1] /\ y = U[m] /\ s = w[i]
    BY <1>4, <2>1
  <2>3. x + s <= y
    BY <1>7, <2>1, <2>2
  <2>4. placed[i].at = base + x /\ placed[i].size = s /\ tot = base + y
    BY <1>8, <1>10, <2>2
  <2>5. base + x >= base /\ (base + x) + s <= base + y
    BY <2>3
  <2>6. ASSUME NEW j \in 1..(i - 1) PROVE placed[j].at + placed[j].size <= placed[i].at
    <3>1. j \in 1..m /\ j \in 0..m /\ j - 1 \in 0..m /\ j <= i - 1
      OBVIOUS
    <3>2. PICK u \in Nat, v \in Nat : u = U[j - 1] /\ v = w[j]
      BY <1>4, <3>1
    <3>3. U[j] = u + v /\ U[j] <= x
      BY <1>7, <2>1, <2>2, <3>1, <3>2
    <3>4. placed[j].at = base + u /\ placed[j].size = v
      BY <1>10, <3>1, <3>2
    <3>5. (base + u) + v <= base + x
      BY <3>3
    <3> QED  BY <2>4, <3>4, <3>5
  <2> QED  BY <2>4, <2>5, <2>6
<1>17. Fits(b)
  <2>1. CASE fields = << >>
    <3>1. DOMAIN fields = {}
      BY <2>1
    <3> QED  BY <1>15, <3>1 DEF Fits
  <2>2. CASE fields = placed
    BY <1>10, <1>15, <1>16, <2>2 DEF Fits
  <2> QED  BY <1>12, <2>1, <2>2
<1> QED  BY <1>8, <1>14, <1>15, <1>17

-----------------------------------------------------------------------------
(* The bytes of a set of addresses and of a list of them.                  *)

Total(hp, S) == SumFunction([p \in S |-> hp[p].size])
Sized(hp, S) == \A p \in S : hp[p].size \in Nat

LEMMA SetBytes ==
    ASSUME NEW S, IsFiniteSet(S), NEW hp, Sized(hp, S)
    PROVE  /\ Total(hp, S) \in Nat
           /\ \A p \in S : Total(hp, S) = Total(hp, S \ {p}) + hp[p].size
<1>1. PICK w : w = [p \in S |-> hp[p].size]
  OBVIOUS
<1>2. w \in [S -> Nat] /\ \A p \in S : w[p] = hp[p].size
  BY <1>1 DEF Sized
<1>3. /\ SumFunction(w) \in Nat
      /\ \A x \in S : SumFunction(w) = SumFunction([y \in S \ {x} |-> w[y]]) + w[x]
  BY <1>2, SumFacts
<1>4. \A x \in S : [y \in S \ {x} |-> w[y]] = [y \in S \ {x} |-> hp[y].size]
  BY <1>2
<1> QED  BY <1>1, <1>2, <1>3, <1>4 DEF Total

LEMMA NoBytes == ASSUME NEW hp PROVE Total(hp, {}) = 0
<1>1. [p \in {} |-> hp[p].size] \in [{} -> Nat]
  OBVIOUS
<1> QED  BY <1>1, SumNone DEF Total

LEMMA BytesSame ==
    ASSUME NEW S, NEW hp, NEW hq, \A p \in S : hq[p] = hp[p]
    PROVE  Total(hq, S) = Total(hp, S)
<1>1. [p \in S |-> hq[p].size] = [p \in S |-> hp[p].size]
  OBVIOUS
<1> QED  BY <1>1 DEF Total

\* list has every member of S once.
ListsAll(list, S) ==
    /\ list \in Seq(S)
    /\ \A i, j \in 1..Len(list) : list[i] = list[j] => i = j
    /\ \A p \in S : \E i \in 1..Len(list) : list[i] = p

LEMMA ListsLen ==
    ASSUME NEW list, NEW S, ListsAll(list, S)
    PROVE  IsFiniteSet(S) /\ Len(list) = Cardinality(S) /\ ToSet(list) = S
<1>1. PICK n \in Nat : n = Len(list)
  BY SeqFacts DEF ListsAll
<1>2. /\ DOMAIN list = 1..n /\ (\A i \in 1..n : list[i] \in S)
      /\ (\A i, j \in 1..n : list[i] = list[j] => i = j)
      /\ \A p \in S : \E i \in 1..n : list[i] = p
  BY <1>1, SeqFacts DEF ListsAll
<1>3. list \in [1..n -> S]
  <2>1. list \in [1..Len(list) -> S]
    BY DEF ListsAll
  <2> QED  BY <1>1, <2>1
<1>4. list \in Bijection(1..n, S)
  BY <1>2, <1>3 DEF Bijection, Injection, Surjection, IsInjective
<1>5. ExistsBijection(1..n, S)
  BY <1>4 DEF ExistsBijection
<1>6. IsFiniteSet(1..n) /\ Cardinality(1..n) = n
  <2>1. PICK one \in Int : one = 1
    OBVIOUS
  <2>2. IsFiniteSet(one..n) /\ Cardinality(one..n) = IF one > n THEN 0 ELSE n - one + 1
    BY FS_Interval
  <2>3. (IF one > n THEN 0 ELSE n - one + 1) = n
    BY <2>1
  <2> QED  BY <2>1, <2>2, <2>3
<1>7. IsFiniteSet(S) /\ Cardinality(S) = Cardinality(1..n)
  BY <1>5, <1>6, FS_Bijection
<1>8. ToSet(list) = S
  BY <1>2 DEF ToSet
<1> QED  BY <1>1, <1>6, <1>7, <1>8

LEMMA ListsAdd ==
    ASSUME NEW list, NEW S, ListsAll(list, S), NEW p, p \notin S
    PROVE  ListsAll(Append(list, p), S \cup {p})
<1>0. PICK n \in Nat : n = Len(list)
  BY SeqFacts DEF ListsAll
<1>1. PICK T : n = Len(list) /\ T = S \cup {p}
  BY <1>0
<1>2. PICK new : new = Append(list, p)
  OBVIOUS
<1>3. (\A i \in 1..n : list[i] \in S) /\ list \in Seq(T)
  <2>1. list \in Seq(S)
    BY DEF ListsAll
  <2>2. S \subseteq T
    BY <1>1
  <2> QED  BY <1>1, <2>1, <2>2, SeqFacts
<1>4. /\ new \in Seq(T) /\ Len(new) = n + 1
      /\ \A i \in 1..n : new[i] = list[i]
      /\ new[n + 1] = p
  BY <1>1, <1>2, <1>3, AppendProperties
<1>5. \A i \in 1..n + 1 : i \in 1..n \/ i = n + 1
  OBVIOUS
<1>6. ASSUME NEW i \in 1..n + 1, NEW j \in 1..n + 1, new[i] = new[j] PROVE i = j
  <2>1. CASE i \in 1..n /\ j \in 1..n
    BY <1>1, <1>4, <1>6, <2>1 DEF ListsAll
  <2>2. CASE i = n + 1 /\ j \in 1..n
    BY <1>3, <1>4, <1>6, <2>2
  <2>3. CASE i \in 1..n /\ j = n + 1
    BY <1>3, <1>4, <1>6, <2>3
  <2>4. CASE i = n + 1 /\ j = n + 1
    BY <2>4
  <2> QED  BY <1>5, <2>1, <2>2, <2>3, <2>4
<1>7. ASSUME NEW q \in T PROVE \E i \in 1..n + 1 : new[i] = q
  <2>1. CASE q = p
    <3>1. n + 1 \in 1..n + 1
      OBVIOUS
    <3> QED  BY <1>4, <2>1, <3>1
  <2>2. CASE q # p
    <3>1. q \in S
      BY <1>1, <2>2
    <3>2. PICK i \in 1..n : list[i] = q
      BY <1>1, <3>1 DEF ListsAll
    <3>3. i \in 1..n + 1
      OBVIOUS
    <3> QED  BY <1>4, <3>2, <3>3
  <2> QED  BY <2>1, <2>2
<1> QED  BY <1>1, <1>2, <1>4, <1>6, <1>7 DEF ListsAll

LEMMA ListsRemove ==
    ASSUME NEW list, NEW S, ListsAll(list, S), NEW p \in S
    PROVE  ListsAll(RemoveAt(list, CHOOSE i \in DOMAIN list : list[i] = p), S \ {p})
<1>1. PICK n \in Nat : n = Len(list)
  BY SeqFacts DEF ListsAll
<1>2. /\ list \in Seq(S) /\ DOMAIN list = 1..n /\ (\A i \in 1..n : list[i] \in S)
      /\ (\A i, j \in 1..n : list[i] = list[j] => i = j)
      /\ \A q \in S : \E i \in 1..n : list[i] = q
  BY <1>1, SeqFacts DEF ListsAll
<1>3. PICK k \in 1..n : k = (CHOOSE i \in DOMAIN list : list[i] = p) /\ list[k] = p
  <2>1. \E i \in DOMAIN list : list[i] = p
    BY <1>2
  <2>2. PICK k : k = CHOOSE i \in DOMAIN list : list[i] = p
    OBVIOUS
  <2>3. k \in DOMAIN list /\ list[k] = p
    BY <2>1, <2>2
  <2> QED  BY <1>2, <2>2, <2>3
<1>4. k \in 1..Len(list)
  BY <1>1
<1>5. PICK new : new = RemoveAt(list, k) /\ new = Del(list, k)
  BY <1>2, <1>4, RemoveAtIs
<1>6. PICK m \in Nat : m = n - 1
  <2>1. n - 1 \in Nat
    BY <1>3
  <2> QED  BY <2>1
<1>7. /\ new \in Seq(S) /\ Len(new) = m
      /\ \A i \in 1..m : new[i] = IF i < k THEN list[i] ELSE list[i + 1]
  <2>1. /\ Del(list, k) \in Seq(S)
        /\ Len(Del(list, k)) = Len(list) - 1
        /\ \A i \in 1..Len(list) - 1 : Del(list, k)[i] =
                IF i < k THEN list[i] ELSE list[i + 1]
    BY <1>2, <1>4, DelFacts
  <2>2. Len(list) - 1 = m
    BY <1>1, <1>6
  <2> QED  BY <1>5, <2>1, <2>2
<1>a. k \in Int /\ 1 <= k /\ k <= n /\ m = n - 1
  BY <1>3, <1>6
<1>8. ASSUME NEW i \in 1..m
      PROVE  i \in 1..n /\ i + 1 \in 1..n /\ i \in Int /\ (i < k => i # k) /\ (~(i < k) => i + 1 # k)
  BY <1>a
\* Where the element now at i was before.
<1>b. PICK old : old = [i \in 1..m |-> IF i < k THEN i ELSE i + 1]
  OBVIOUS
<1>c. ASSUME NEW i \in 1..m PROVE old[i] \in 1..n /\ old[i] # k /\ new[i] = list[old[i]]
  <2>1. CASE i < k
    BY <1>7, <1>8, <1>b, <2>1
  <2>2. CASE ~(i < k)
    BY <1>7, <1>8, <1>b, <2>2
  <2> QED  BY <2>1, <2>2
<1>9. ASSUME NEW i \in 1..m PROVE new[i] \in S \ {p}
  <2>1. PICK o \in 1..n : o # k /\ new[i] = list[o]
    BY <1>c
  <2>2. list[o] # list[k]
    BY <1>2, <2>1
  <2> QED  BY <1>2, <1>3, <2>1, <2>2
<1>10. new \in Seq(S \ {p})
  <2>1. DOMAIN new = 1..m /\ new = [i \in 1..m |-> new[i]]
    BY <1>7, SeqFacts
  <2>2. PICK T : T = S \ {p}
    OBVIOUS
  <2>3. \A i \in 1..m : new[i] \in T
    BY <1>9, <2>2
  <2>4. new \in Seq(T)
    BY <2>1, <2>3, SeqBy
  <2> QED  BY <2>2, <2>4
<1>11. ASSUME NEW i \in 1..m, NEW j \in 1..m, new[i] = new[j] PROVE i = j
  <2>1. old[i] = old[j]
    <3>1. PICK x \in 1..n, y \in 1..n : x = old[i] /\ y = old[j]
      BY <1>c
    <3>2. list[x] = list[y]
      BY <1>11, <1>c, <3>1
    <3> QED  BY <1>2, <3>1, <3>2
  <2>2. old[i] = (IF i < k THEN i ELSE i + 1) /\ old[j] = IF j < k THEN j ELSE j + 1
    BY <1>b
  <2>3. i \in Int /\ j \in Int
    BY <1>8
  <2>4. CASE i < k
    <3>1. i = IF j < k THEN j ELSE j + 1
      BY <2>1, <2>2, <2>4
    <3> QED  BY <1>a, <2>3, <2>4, <3>1
  <2>5. CASE ~(i < k)
    <3>1. i + 1 = IF j < k THEN j ELSE j + 1
      BY <2>1, <2>2, <2>5
    <3> QED  BY <1>a, <2>3, <2>5, <3>1
  <2> QED  BY <2>4, <2>5
<1>12. ASSUME NEW q \in S \ {p} PROVE \E i \in 1..m : new[i] = q
  <2>1. PICK j \in 1..n : list[j] = q
    BY <1>2
  <2>2. j # k
    BY <1>3, <2>1
  <2>3. CASE j < k
    <3>1. j \in 1..m
      BY <1>a, <2>3
    <3> QED  BY <1>7, <2>1, <2>3, <3>1
  <2>4. CASE ~(j < k)
    <3>1. PICK i \in 1..m : i = j - 1 /\ i + 1 = j /\ ~(i < k)
      <4>1. j - 1 \in 1..m /\ (j - 1) + 1 = j /\ ~(j - 1 < k)
        BY <1>a, <2>2, <2>4
      <4> QED  BY <4>1
    <3> QED  BY <1>7, <2>1, <3>1
  <2> QED  BY <2>3, <2>4
<1>13. PICK T : T = S \ {p}
  OBVIOUS
<1>14. /\ new \in Seq(T)
       /\ (\A i, j \in 1..Len(new) : new[i] = new[j] => i = j)
       /\ \A q \in T : \E i \in 1..Len(new) : new[i] = q
  BY <1>7, <1>10, <1>11, <1>12, <1>13
<1>15. ListsAll(new, T)
  BY <1>14 DEF ListsAll
<1> QED  BY <1>3, <1>5, <1>13, <1>15

\* Adding up along the list gives the bytes of the set.
LEMMA ListBytes ==
    ASSUME NEW list, NEW S, ListsAll(list, S), NEW hp, Sized(hp, S),
           NEW n \in Nat, n = Len(list), NEW v \in [1..n -> Nat],
           \A i \in 1..n : v[i] = hp[list[i]].size
    PROVE  Upmost(v, n) = Total(hp, S)
<1>1. /\ (\A i \in 1..n : list[i] \in S)
      /\ (\A i, j \in 1..n : list[i] = list[j] => i = j)
      /\ \A p \in S : \E i \in 1..n : list[i] = p
  BY SeqFacts DEF ListsAll
<1>2. IsFiniteSet(S)
  BY ListsLen
<1>3. PICK P : P = [i \in 0..n |-> {list[j] : j \in 1..i}]
  OBVIOUS
<1>4. \A i \in 0..n : P[i] = {list[j] : j \in 1..i} /\ P[i] \in SUBSET S
  BY <1>1, <1>3
<1>5. /\ Upmost(v, 0) = 0
      /\ \A i \in 1..n : Upmost(v, i) = Upmost(v, i - 1) + v[i]
  BY UpmostFacts
<1>6. PICK T : T = {i \in 0..n : Upmost(v, i) = Total(hp, P[i])}
  OBVIOUS
<1>7. 0 \in T
  <2>1. 0 \in 0..n /\ P[0] = {}
    BY <1>4
  <2> QED  BY <1>5, <1>6, <2>1, NoBytes
<1>8. ASSUME NEW i \in 1..n, i - 1 \in T PROVE i \in T
  <2>1. i \in 0..n /\ i - 1 \in 0..n
    OBVIOUS
  <2>2. PICK X \in SUBSET S, Y \in SUBSET S, p \in S : X = P[i] /\ Y = P[i - 1] /\ p = list[i]
    BY <1>1, <1>4, <2>1
  <2>3. p \in X /\ X \ {p} = Y
    <3>1. \A j \in 1..i : j \in 1..n /\ (j = i \/ j \in 1..(i - 1))
      OBVIOUS
    <3>2. \A j \in 1..(i - 1) : j \in 1..i /\ j # i
      OBVIOUS
    <3>3. X = {list[j] : j \in 1..i} /\ Y = {list[j] : j \in 1..(i - 1)}
      BY <1>4, <2>1, <2>2
    <3>4. p \in X
      BY <2>2, <3>3
    <3>5. \A x \in Y : x \in X /\ x # p
      BY <1>1, <2>2, <3>1, <3>2, <3>3
    <3>6. \A x \in X : x = p \/ x \in Y
      BY <2>2, <3>1, <3>3
    <3> QED  BY <3>4, <3>5, <3>6
  <2>4. IsFiniteSet(X) /\ Sized(hp, X)
    BY <1>2, FS_Subset DEF Sized
  <2>5. Total(hp, X) = Total(hp, X \ {p}) + hp[p].size
    BY <2>3, <2>4, SetBytes
  <2>6. Upmost(v, i) = Upmost(v, i - 1) + hp[p].size
    BY <1>5, <2>2
  <2>7. Upmost(v, i - 1) = Total(hp, Y)
    BY <1>6, <1>8, <2>2
  <2>8. Upmost(v, i) = Total(hp, P[i])
    BY <2>2, <2>3, <2>5, <2>6, <2>7
  <2> QED  BY <1>6, <2>1, <2>8
<1>9. \A i \in 0..n : i \in T
  BY <1>7, <1>8, Upto
<1>10. n \in 0..n /\ P[n] = S
  <2>1. n \in 0..n
    OBVIOUS
  <2>2. P[n] = {list[j] : j \in 1..n}
    BY <1>4, <2>1
  <2>3. \A p \in S : p \in P[n]
    BY <1>1, <2>2
  <2>4. \A p \in P[n] : p \in S
    BY <1>1, <2>2
  <2>5. P[n] = S
    BY <2>3, <2>4
  <2> QED  BY <2>1, <2>5
<1> QED  BY <1>6, <1>9, <1>10

\* The sum of sums.
LEMMA UpmostSum ==
    ASSUME NEW n \in Nat, NEW v \in [1..n -> Nat], NEW w \in [1..n -> Nat], NEW u \in [1..n -> Nat],
           \A i \in 1..n : v[i] = w[i] + u[i]
    PROVE  Upmost(v, n) = Upmost(w, n) + Upmost(u, n)
<1>1. /\ \A i \in 0..n : Upmost(w, i) \in Nat
      /\ Upmost(w, 0) = 0
      /\ \A i \in 1..n : Upmost(w, i) = Upmost(w, i - 1) + w[i]
  BY UpmostFacts
<1>2. /\ \A i \in 0..n : Upmost(v, i) \in Nat
      /\ Upmost(v, 0) = 0
      /\ \A i \in 1..n : Upmost(v, i) = Upmost(v, i - 1) + v[i]
  BY UpmostFacts
<1>3. /\ \A i \in 0..n : Upmost(u, i) \in Nat
      /\ Upmost(u, 0) = 0
      /\ \A i \in 1..n : Upmost(u, i) = Upmost(u, i - 1) + u[i]
  BY UpmostFacts
<1>4. PICK T : T = {i \in 0..n : Upmost(v, i) = Upmost(w, i) + Upmost(u, i)}
  OBVIOUS
<1>5. 0 \in T
  BY <1>1, <1>2, <1>3, <1>4
<1>6. ASSUME NEW i \in 1..n, i - 1 \in T PROVE i \in T
  <2>1. i \in 0..n /\ i - 1 \in 0..n
    OBVIOUS
  <2>2. PICK a \in Nat, b \in Nat, c \in Nat, d \in Nat, e \in Nat :
            a = Upmost(w, i - 1) /\ b = Upmost(v, i - 1) /\ e = Upmost(u, i - 1) /\ c = w[i] /\ d = u[i]
    BY <1>1, <1>2, <1>3, <2>1
  <2>3. b = a + e /\ v[i] = c + d
    BY <1>4, <1>6, <2>2
  <2>4. Upmost(w, i) = a + c /\ Upmost(v, i) = b + (c + d) /\ Upmost(u, i) = e + d
    BY <1>1, <1>2, <1>3, <2>2, <2>3
  <2>5. Upmost(v, i) = Upmost(w, i) + Upmost(u, i)
    BY <2>3, <2>4
  <2> QED  BY <1>4, <2>1, <2>5
<1>7. \A i \in 0..n : i \in T
  BY <1>5, <1>6, Upto
<1>8. n \in 0..n
  OBVIOUS
<1> QED  BY <1>4, <1>7, <1>8

-----------------------------------------------------------------------------
(* The accounts of a context.                                              *)

\* What a context has out: the allocations in S; miss bytes more are counted.
Account(S, hp, out, bytes, miss) ==
    /\ IsFiniteSet(S) /\ Sized(hp, S)
    /\ out = Cardinality(S)
    /\ miss \in Nat /\ bytes = Total(hp, S) + miss

\* The heaps hp and hq hold the same in S.
Agree(hp, hq, S) == \A p \in S : hq[p] = hp[p]

LEMMA AccountNone == ASSUME NEW hp, NEW miss \in Nat PROVE Account({}, hp, 0, miss, miss)
<1>1. IsFiniteSet({}) /\ Cardinality({}) = 0
  BY FS_EmptySet
<1>2. Total(hp, {}) = 0
  BY NoBytes
<1> QED  BY <1>1, <1>2 DEF Account, Sized

LEMMA AccountSame ==
    ASSUME NEW S, NEW hp, NEW hq, NEW out, NEW bytes, NEW miss, Account(S, hp, out, bytes, miss),
           Agree(hp, hq, S)
    PROVE  Account(S, hq, out, bytes, miss) /\ Total(hq, S) = Total(hp, S)
<1>1. Total(hq, S) = Total(hp, S)
  BY BytesSame DEF Agree
<1>2. Sized(hq, S)
  BY DEF Account, Agree, Sized
<1> QED  BY <1>1, <1>2 DEF Account

LEMMA AccountAdd ==
    ASSUME NEW S, NEW hp, NEW hq, NEW out, NEW bytes, NEW miss, Account(S, hp, out, bytes, miss),
           Agree(hp, hq, S), NEW p, p \notin S, NEW z \in Nat, hq[p].size = z
    PROVE  Account(S \cup {p}, hq, out + 1, bytes + z, miss)
<1>1. PICK T : T = S \cup {p}
  OBVIOUS
<1>2. T \ {p} = S /\ p \in T
  BY <1>1
<1>3. Account(S, hq, out, bytes, miss) /\ Total(hq, S) = Total(hp, S)
  BY AccountSame
<1>4. IsFiniteSet(S) /\ Cardinality(S) \in Nat
  BY FS_CardinalityType DEF Account
<1>5. IsFiniteSet(T) /\ Cardinality(T) = Cardinality(S) + 1
  BY <1>1, <1>4, FS_AddElement
<1>6. Sized(hq, T)
  BY <1>1, <1>3 DEF Account, Sized
<1>7. Total(hq, T) = Total(hq, T \ {p}) + hq[p].size
  BY <1>2, <1>5, <1>6, SetBytes
<1>8. Total(hq, S) \in Nat
  BY <1>3, <1>4, SetBytes DEF Account
<1>9. PICK a \in Nat, e \in Nat : a = Total(hq, S) /\ e = miss
  BY <1>8 DEF Account
<1>10. Total(hq, T) = a + z /\ bytes = a + e
  BY <1>2, <1>3, <1>7, <1>9 DEF Account
<1>11. bytes + z = (a + z) + e
  BY <1>10
<1>12. Account(T, hq, out + 1, bytes + z, miss)
  BY <1>3, <1>5, <1>6, <1>9, <1>10, <1>11 DEF Account
<1> QED  BY <1>1, <1>12

\* p leaves S, and z bytes are taken off for it.
Drops(S, hp, hq, p, z) == p \in S /\ Agree(hp, hq, S \ {p}) /\ z \in {0, hp[p].size}

LEMMA AccountDrop ==
    ASSUME NEW S, NEW hp, NEW hq, NEW out, NEW bytes, NEW miss, Account(S, hp, out, bytes, miss),
           NEW p, NEW z, Drops(S, hp, hq, p, z)
    PROVE  Account(S \ {p}, hq, out - 1, bytes - z, miss + (hp[p].size - z)) /\ out > 0
<1>0. p \in S /\ Agree(hp, hq, S \ {p}) /\ z \in {0, hp[p].size}
  BY DEF Drops
<1>1. PICK T : T = S \ {p}
  OBVIOUS
<1>2. IsFiniteSet(S) /\ Cardinality(S) \in Nat /\ IsFiniteSet(T) /\ Cardinality(T) \in Nat
  BY <1>1, FS_CardinalityType, FS_Subset DEF Account
<1>3. Cardinality(T) = Cardinality(S) - 1
  BY <1>0, <1>1, <1>2, FS_RemoveElement
<1>4. Sized(hp, T) /\ Sized(hq, T)
  BY <1>0, <1>1 DEF Account, Agree, Sized
<1>5. Total(hp, S) = Total(hp, T) + hp[p].size
  BY <1>0, <1>1, <1>2, SetBytes DEF Account
<1>6. Total(hq, T) = Total(hp, T)
  BY <1>0, <1>1, BytesSame DEF Agree
<1>7. Total(hp, T) \in Nat
  BY <1>2, <1>4, SetBytes
<1>8. PICK a \in Nat, e \in Nat, s \in Nat : a = Total(hp, T) /\ e = miss /\ s = hp[p].size
  BY <1>0, <1>7 DEF Account, Sized
<1>9. bytes = (a + s) + e
  BY <1>5, <1>8 DEF Account
<1>10. z = 0 \/ z = s
  BY <1>0, <1>8
<1>11. e + (s - z) \in Nat /\ bytes - z = a + (e + (s - z))
  BY <1>9, <1>10
<1>12. Account(T, hq, out - 1, bytes - z, e + (s - z))
  BY <1>2, <1>3, <1>4, <1>6, <1>8, <1>11 DEF Account
<1>13. out > 0
  <2>1. out = Cardinality(S) /\ Cardinality(S) - 1 >= 0
    BY <1>2, <1>3 DEF Account
  <2> QED  BY <1>2, <2>1
<1> QED  BY <1>1, <1>8, <1>12, <1>13

\* The remainder, and what it leaves of the number.
LEMMA ModSplits ==
    ASSUME NEW s \in Nat, NEW m \in Nat \ {0}
    PROVE  s % m \in Nat /\ m * (s \div m) \in Nat /\ s = (s % m) + m * (s \div m)
BY Z3

\* Along the list, w has the rmcp_size of each and u what that cuts off.
Split(hp, list, n, w, u) ==
    /\ w \in [1..n -> Nat] /\ u \in [1..n -> Nat]
    /\ \A i \in 1..n : hp[list[i]].size = w[i] + u[i]

\* Freeing along the list.
LEMMA AccountAll ==
    ASSUME NEW S, NEW hp, NEW out, NEW bytes, NEW miss, Account(S, hp, out, bytes, miss),
           NEW list, ListsAll(list, S), NEW n \in Nat, n = Len(list),
           NEW w, NEW u, Split(hp, list, n, w, u)
    PROVE  /\ out - n = 0
           /\ miss + Upmost(u, n) \in Nat /\ bytes - Upmost(w, n) = miss + Upmost(u, n)
           /\ \A i \in 1..n : out - (i - 1) > 0 /\ (w[i] # 0 => bytes - Upmost(w, i - 1) > 0)
<1>0. /\ w \in [1..n -> Nat] /\ u \in [1..n -> Nat]
      /\ \A i \in 1..n : hp[list[i]].size = w[i] + u[i]
  BY DEF Split
<1>1. out = n
  BY ListsLen DEF Account
<1>2. PICK v : v = [i \in 1..n |-> hp[list[i]].size]
  OBVIOUS
<1>3. \A i \in 1..n : list[i] \in S
  BY SeqFacts DEF ListsAll
<1>4. v \in [1..n -> Nat] /\ \A i \in 1..n : v[i] = hp[list[i]].size /\ v[i] = w[i] + u[i]
  BY <1>0, <1>2, <1>3 DEF Account, Sized
<1>5. Upmost(v, n) = Total(hp, S)
  BY <1>4, ListBytes DEF Account
<1>6. Upmost(v, n) = Upmost(w, n) + Upmost(u, n)
  BY <1>0, <1>4, UpmostSum
<1>7. /\ \A i \in 0..n : Upmost(w, i) \in Nat
      /\ \A i \in 1..n : Upmost(w, i) = Upmost(w, i - 1) + w[i]
      /\ \A i, j \in 0..n : i <= j => Upmost(w, i) <= Upmost(w, j)
  BY <1>0, UpmostFacts
<1>8. n \in 0..n
  OBVIOUS
<1>9. Upmost(u, n) \in Nat
  BY <1>0, <1>8, UpmostFacts
<1>10. PICK a \in Nat, e \in Nat, x \in Nat : a = Upmost(w, n) /\ e = miss /\ x = Upmost(u, n)
  BY <1>7, <1>8, <1>9 DEF Account
<1>11. bytes = (a + x) + e
  BY <1>5, <1>6, <1>10 DEF Account
<1>12. miss + Upmost(u, n) \in Nat /\ bytes - Upmost(w, n) = miss + Upmost(u, n)
  BY <1>10, <1>11
<1>13. ASSUME NEW i \in 1..n
       PROVE  out - (i - 1) > 0 /\ (w[i] # 0 => bytes - Upmost(w, i - 1) > 0)
  <2>1. i \in 0..n /\ i - 1 \in 0..n /\ n \in 0..n /\ i <= n
    OBVIOUS
  <2>2. PICK r \in Nat, y \in Nat, z \in Nat : r = Upmost(w, i - 1) /\ y = w[i] /\ z = Upmost(w, i)
    BY <1>0, <1>7, <2>1
  <2>3. z = r + y /\ z <= a
    BY <1>7, <1>10, <2>1, <2>2
  <2>4. y # 0 => bytes - r > 0
    BY <1>11, <2>3
  <2>5. n - (i - 1) > 0
    BY <2>1
  <2> QED  BY <1>1, <2>2, <2>4, <2>5
<1>14. out - n = 0
  BY <1>1
<1> QED  BY <1>12, <1>13, <1>14

-----------------------------------------------------------------------------
(* The heap: what a context has in it.                                     *)

Lives(hp, c) == {p \in Ptrs : hp[p] # NoMem /\ hp[p].ctx = c}

HeapOk(hp) ==
    /\ hp \in [Ptrs -> {NoMem} \cup Blocks]
    /\ \A p \in Ptrs : hp[p] # NoMem => Fits(hp[p])

\* A context d is not touched by a step from hp to hq.
Untouched(hp, hq, d) == Lives(hq, d) = Lives(hp, d) /\ Agree(hp, hq, Lives(hp, d))

LEMMA NoBlock == NoMem \notin Blocks
BY MemAssumption DEF Blocks, Placed

\* From hp to hq the block b of c is put at the free address p.
Puts(hp, hq, p, c, b) ==
    /\ HeapOk(hp) /\ hp[p] = NoMem
    /\ b.ctx = c /\ Fits(b)
    /\ hq = [hp EXCEPT ![p] = b]

LEMMA HeapPut ==
    ASSUME NEW hp, NEW hq, NEW p \in Ptrs, NEW c \in Ctxs, NEW b \in Blocks,
           Puts(hp, hq, p, c, b)
    PROVE  /\ HeapOk(hq)
           /\ Lives(hq, c) = Lives(hp, c) \cup {p} /\ p \notin Lives(hp, c)
           /\ Agree(hp, hq, Lives(hp, c)) /\ hq[p] = b
           /\ \A d \in Ctxs \ {c} : Untouched(hp, hq, d)
<1>0. HeapOk(hp) /\ hp[p] = NoMem /\ b.ctx = c /\ Fits(b) /\ hq = [hp EXCEPT ![p] = b]
  BY DEF Puts
<1>1. hp \in [Ptrs -> {NoMem} \cup Blocks] /\ b # NoMem
  BY <1>0, NoBlock DEF HeapOk
<1>2. hq[p] = b /\ \A q \in Ptrs : q # p => hq[q] = hp[q]
  BY <1>0, <1>1
<1>3. hq \in [Ptrs -> {NoMem} \cup Blocks]
  BY <1>0, <1>1
<1>4. HeapOk(hq)
  BY <1>0, <1>2, <1>3 DEF HeapOk
<1>5. p \notin Lives(hp, c) /\ Lives(hq, c) = Lives(hp, c) \cup {p}
  BY <1>0, <1>1, <1>2 DEF Lives
<1>6. \A d \in Ctxs : Agree(hp, hq, Lives(hp, d))
  BY <1>0, <1>2 DEF Agree, Lives
<1>7. \A d \in Ctxs \ {c} : Lives(hq, d) = Lives(hp, d)
  BY <1>0, <1>1, <1>2 DEF Lives
<1> QED  BY <1>2, <1>4, <1>5, <1>6, <1>7 DEF Untouched

\* From hp to hq the addresses in S, of the context c, are freed.
Takes(hp, hq, c, S) ==
    /\ HeapOk(hp) /\ S \subseteq Lives(hp, c)
    /\ hq = [q \in Ptrs |-> IF q \in S THEN NoMem ELSE hp[q]]

LEMMA HeapTake ==
    ASSUME NEW hp, NEW hq, NEW c \in Ctxs, NEW S, Takes(hp, hq, c, S)
    PROVE  /\ HeapOk(hq)
           /\ Lives(hq, c) = Lives(hp, c) \ S
           /\ Agree(hp, hq, Lives(hp, c) \ S)
           /\ \A d \in Ctxs \ {c} : Untouched(hp, hq, d)
<1>0. /\ HeapOk(hp) /\ S \subseteq Lives(hp, c)
      /\ hq = [q \in Ptrs |-> IF q \in S THEN NoMem ELSE hp[q]]
  BY DEF Takes
<1>1. hp \in [Ptrs -> {NoMem} \cup Blocks]
  BY <1>0 DEF HeapOk
<1>2. \A q \in Ptrs : (q \in S => hq[q] = NoMem) /\ (q \notin S => hq[q] = hp[q])
  BY <1>0
<1>3. hq \in [Ptrs -> {NoMem} \cup Blocks]
  BY <1>0, <1>1
<1>4. HeapOk(hq)
  BY <1>0, <1>2, <1>3 DEF HeapOk
<1>5. Lives(hq, c) = Lives(hp, c) \ S
  BY <1>2 DEF Lives
<1>6. Agree(hp, hq, Lives(hp, c) \ S)
  BY <1>2 DEF Agree, Lives
<1>7. \A d \in Ctxs \ {c} : Lives(hp, d) \cap S = {}
  BY <1>0 DEF Lives
<1>8. \A d \in Ctxs \ {c} : Agree(hp, hq, Lives(hp, d))
  BY <1>2, <1>7 DEF Agree, Lives
<1>9. \A d \in Ctxs \ {c} : Lives(hq, d) = Lives(hp, d)
  BY <1>2, <1>7 DEF Lives
<1> QED  BY <1>4, <1>5, <1>6, <1>8, <1>9 DEF Untouched

\* From hp to hq what c has there becomes memory of no context.
Forgets(hp, hq, c) ==
    /\ HeapOk(hp)
    /\ hq = [q \in Ptrs |-> IF q \in Lives(hp, c) THEN [hp[q] EXCEPT !.ctx = NoCtx] ELSE hp[q]]

LEMMA HeapForget ==
    ASSUME NEW hp, NEW hq, NEW c \in Ctxs, Forgets(hp, hq, c)
    PROVE  /\ HeapOk(hq) /\ Lives(hq, c) = {}
           /\ \A d \in Ctxs \ {c} : Untouched(hp, hq, d)
<1>1. /\ HeapOk(hp)
      /\ hq = [q \in Ptrs |-> IF q \in Lives(hp, c) THEN [hp[q] EXCEPT !.ctx = NoCtx] ELSE hp[q]]
  BY DEF Forgets
<1>2. NoCtx \notin Ctxs
  BY MemAssumption
<1>3. ASSUME NEW q \in Ptrs, q \in Lives(hp, c)
      PROVE  hq[q] \in Blocks /\ hq[q].ctx = NoCtx /\ Fits(hq[q])
  <2>1. PICK b : b = hp[q]
    OBVIOUS
  <2>2. b \in Blocks /\ Fits(b)
    BY <1>1, <1>3, <2>1 DEF HeapOk, Lives
  <2>3. PICK f : f = [b EXCEPT !.ctx = NoCtx]
    OBVIOUS
  <2>4. f \in Blocks /\ f.ctx = NoCtx /\ f.fields = b.fields /\ f.base = b.base /\ f.size = b.size
    BY <2>2, <2>3 DEF Blocks
  <2>5. Fits(f)
    BY <2>2, <2>4 DEF Fits
  <2> QED  BY <1>1, <1>3, <2>1, <2>3, <2>4, <2>5
<1>4. \A q \in Ptrs : q \notin Lives(hp, c) => hq[q] = hp[q]
  BY <1>1
<1>5. \A q \in Ptrs : hq[q] \in {NoMem} \cup Blocks /\ (hq[q] # NoMem => Fits(hq[q]))
  BY <1>1, <1>3, <1>4 DEF HeapOk
<1>6. HeapOk(hq)
  BY <1>1, <1>5 DEF HeapOk
<1>7. Lives(hq, c) = {}
  BY <1>2, <1>3, <1>4 DEF Lives
<1>8. ASSUME NEW d \in Ctxs \ {c} PROVE Lives(hq, d) = Lives(hp, d) /\ Agree(hp, hq, Lives(hp, d))
  <2>1. \A q \in Lives(hp, d) : q \in Ptrs /\ q \notin Lives(hp, c)
    BY DEF Lives
  <2>2. \A q \in Lives(hq, d) : q \in Ptrs /\ q \notin Lives(hp, c)
    BY <1>2, <1>3 DEF Lives
  <2> QED  BY <1>4, <2>1, <2>2 DEF Lives, Agree
<1> QED  BY <1>6, <1>7, <1>8 DEF Untouched

-----------------------------------------------------------------------------
(* The invariant.                                                          *)

\* A context, in the heap hp: its counters and its list match what is there.
Kept(hp, c, inited, track, out, bytes, list, miss) ==
    /\ Account(Lives(hp, c), hp, out, bytes, miss)
    /\ track => ListsAll(list, Lives(hp, c))
    /\ (track /\ ~inited) => Lives(hp, c) = {}

KeptAt(c) ==
    Kept(heap, c, rmc_inited[c], rmc_track[c], rmc_out[c], rmc_bytes_out[c], rmc_ptrs[c], missed[c])

\* The state of rdmem.c is per context.
PerCtx ==
    /\ DOMAIN rmc_inited = Ctxs /\ DOMAIN rmc_track = Ctxs /\ DOMAIN rmc_out = Ctxs
    /\ DOMAIN rmc_bytes_out = Ctxs /\ DOMAIN rmc_ptrs = Ctxs /\ DOMAIN missed = Ctxs

MemInv ==
    /\ HeapOk(heap) /\ memFault = "none" /\ PerCtx
    /\ \A c \in Ctxs : KeptAt(c)

\* A step leaves the variables of d alone.
SameAt(d) ==
    /\ rmc_inited'[d] = rmc_inited[d] /\ rmc_track'[d] = rmc_track[d] /\ rmc_out'[d] = rmc_out[d]
    /\ rmc_bytes_out'[d] = rmc_bytes_out[d] /\ rmc_ptrs'[d] = rmc_ptrs[d] /\ missed'[d] = missed[d]

LEMMA KeptSame ==
    ASSUME NEW hp, NEW hq, NEW d, NEW inited, NEW track, NEW out, NEW bytes, NEW list, NEW miss,
           Kept(hp, d, inited, track, out, bytes, list, miss), Untouched(hp, hq, d)
    PROVE  Kept(hq, d, inited, track, out, bytes, list, miss)
<1>1. Lives(hq, d) = Lives(hp, d) /\ Agree(hp, hq, Lives(hp, d))
  BY DEF Untouched
<1>2. Account(Lives(hp, d), hp, out, bytes, miss)
  BY DEF Kept
<1>3. Account(Lives(hp, d), hq, out, bytes, miss)
  BY <1>1, <1>2, AccountSame
<1> QED  BY <1>1, <1>3 DEF Kept

LEMMA MemStep ==
    ASSUME MemInv, NEW c \in Ctxs, HeapOk(heap'), memFault' = "none", PerCtx', KeptAt(c)',
           \A d \in Ctxs \ {c} : SameAt(d) /\ Untouched(heap, heap', d)
    PROVE  MemInv'
<1>1. ASSUME NEW d \in Ctxs \ {c} PROVE KeptAt(d)'
  <2>1. Kept(heap, d, rmc_inited[d], rmc_track[d], rmc_out[d], rmc_bytes_out[d], rmc_ptrs[d], missed[d])
    BY DEF MemInv, KeptAt
  <2>2. Kept(heap', d, rmc_inited[d], rmc_track[d], rmc_out[d], rmc_bytes_out[d], rmc_ptrs[d], missed[d])
    BY <2>1, KeptSame
  <2>3. Kept(heap', d, rmc_inited'[d], rmc_track'[d], rmc_out'[d], rmc_bytes_out'[d], rmc_ptrs'[d], missed'[d])
    BY <2>2 DEF SameAt
  <2> QED  BY <2>3 DEF KeptAt
<1>2. \A d \in Ctxs : KeptAt(d)'
  BY <1>1
<1> QED  BY <1>2 DEF MemInv

-----------------------------------------------------------------------------
(* Every operation keeps it.                                               *)

LEMMA MemInitInv == MemInit => MemInv
<1> SUFFICES ASSUME MemInit PROVE MemInv
  OBVIOUS
<1>1. heap = [p \in Ptrs |-> NoMem] /\ memFault = "none"
  BY DEF MemInit
<1>2. HeapOk(heap) /\ \A c \in Ctxs : Lives(heap, c) = {}
  BY <1>1 DEF HeapOk, Lives
<1>3. PerCtx
  BY DEF MemInit, PerCtx
<1>4. \A c \in Ctxs : rmc_track[c] = FALSE /\ rmc_out[c] = 0 /\ rmc_bytes_out[c] = 0 /\ missed[c] = 0
  BY DEF MemInit
<1>5. Account({}, heap, 0, 0, 0)
  BY AccountNone
<1>6. \A c \in Ctxs : KeptAt(c)
  BY <1>2, <1>4, <1>5 DEF KeptAt, Kept
<1> QED  BY <1>1, <1>2, <1>3, <1>6 DEF MemInv

LEMMA MemCtxInit ==
    ASSUME MemInv, NEW c \in Ctxs, NEW track, rd_memctx_init(c, track)
    PROVE  MemInv'
<1>1. /\ memFault' = "none"
      /\ heap' = [p \in Ptrs |-> IF p \in Lives(heap, c) THEN [heap[p] EXCEPT !.ctx = NoCtx] ELSE heap[p]]
      /\ rmc_inited' = [rmc_inited EXCEPT ![c] = TRUE]
      /\ rmc_track' = [rmc_track EXCEPT ![c] = track]
      /\ rmc_out' = [rmc_out EXCEPT ![c] = 0]
      /\ rmc_bytes_out' = [rmc_bytes_out EXCEPT ![c] = 0]
      /\ rmc_ptrs' = [rmc_ptrs EXCEPT ![c] = <<>>]
      /\ missed' = [missed EXCEPT ![c] = 0]
  BY DEF rd_memctx_init, Live, Lives
<1>2. PerCtx /\ HeapOk(heap)
  BY DEF MemInv
<1>3. PerCtx'
  BY <1>1, <1>2 DEF PerCtx
<1>4. Forgets(heap, heap', c)
  BY <1>1, <1>2 DEF Forgets
<1>5. /\ HeapOk(heap') /\ Lives(heap', c) = {}
      /\ \A d \in Ctxs \ {c} : Untouched(heap, heap', d)
  BY <1>4, HeapForget
<1>6. \A d \in Ctxs \ {c} : SameAt(d)
  BY <1>1, <1>2 DEF PerCtx, SameAt
<1>7. rmc_out'[c] = 0 /\ rmc_bytes_out'[c] = 0 /\ rmc_ptrs'[c] = << >> /\ missed'[c] = 0
  BY <1>1, <1>2 DEF PerCtx
<1>8. Account({}, heap', 0, 0, 0)
  BY AccountNone
<1>9. ListsAll(<< >>, {})
  BY DEF ListsAll
<1>10. KeptAt(c)'
  BY <1>5, <1>7, <1>8, <1>9 DEF KeptAt, Kept
<1> QED  BY <1>1, <1>3, <1>5, <1>6, <1>10, MemStep

LEMMA MemAlloc ==
    ASSUME MemInv, NEW c \in Ctxs, NEW p \in Ptrs, NEW size \in Nat, NEW base, NEW fields,
           [ctx |-> c, size |-> size, base |-> base, fields |-> fields] \in Blocks,
           Fits([ctx |-> c, size |-> size, base |-> base, fields |-> fields]),
           Alloc(c, p, size, base, fields)
    PROVE  MemInv'
<1>1. PICK b \in Blocks : b = [ctx |-> c, size |-> size, base |-> base, fields |-> fields]
  OBVIOUS
<1>2. b.ctx = c /\ b.size = size /\ Fits(b)
  BY <1>1
<1>3. /\ rmc_inited[c] /\ heap[p] = NoMem /\ memFault' = "none"
      /\ heap' = [heap EXCEPT ![p] = b]
      /\ rmc_ptrs' = [rmc_ptrs EXCEPT ![c] = IF rmc_track[c] THEN Append(@, p) ELSE @]
      /\ rmc_out' = [rmc_out EXCEPT ![c] = @ + 1]
      /\ rmc_bytes_out' = [rmc_bytes_out EXCEPT ![c] = @ + size]
      /\ rmc_inited' = rmc_inited /\ rmc_track' = rmc_track /\ missed' = missed
  BY <1>1 DEF Alloc
<1>4. PerCtx /\ HeapOk(heap) /\ KeptAt(c)
  BY DEF MemInv
<1>5. /\ HeapOk(heap')
      /\ Lives(heap', c) = Lives(heap, c) \cup {p} /\ p \notin Lives(heap, c)
      /\ Agree(heap, heap', Lives(heap, c)) /\ heap'[p] = b
      /\ \A d \in Ctxs \ {c} : Untouched(heap, heap', d)
  <2>1. HeapOk(heap) /\ heap[p] = NoMem /\ heap' = [heap EXCEPT ![p] = b]
    BY <1>3, <1>4
  <2>2. Puts(heap, heap', p, c, b)
    BY <1>2, <2>1 DEF Puts
  <2> QED  BY <2>2, HeapPut
<1>6. PICK S, T : S = Lives(heap, c) /\ T = Lives(heap', c)
  OBVIOUS
<1>7. Account(S, heap, rmc_out[c], rmc_bytes_out[c], missed[c])
  BY <1>4, <1>6 DEF KeptAt, Kept
<1>8. Account(S \cup {p}, heap', rmc_out[c] + 1, rmc_bytes_out[c] + size, missed[c])
  <2>1. heap'[p].size = size /\ Agree(heap, heap', S) /\ p \notin S
    BY <1>2, <1>5, <1>6
  <2>2. PICK out, bytes, miss : out = rmc_out[c] /\ bytes = rmc_bytes_out[c] /\ miss = missed[c]
    OBVIOUS
  <2>3. Account(S, heap, out, bytes, miss)
    BY <1>7, <2>2
  <2>4. Account(S \cup {p}, heap', out + 1, bytes + size, miss)
    BY <2>1, <2>3, AccountAdd
  <2> QED  BY <2>2, <2>4
<1>9. /\ rmc_out'[c] = rmc_out[c] + 1 /\ rmc_bytes_out'[c] = rmc_bytes_out[c] + size
      /\ rmc_track[c] => rmc_ptrs'[c] = Append(rmc_ptrs[c], p)
  BY <1>3, <1>4 DEF PerCtx
<1>10. rmc_track[c] => ListsAll(rmc_ptrs'[c], T)
  <2>1. SUFFICES ASSUME rmc_track[c] PROVE ListsAll(rmc_ptrs'[c], T)
    OBVIOUS
  <2>2. ListsAll(rmc_ptrs[c], S)
    BY <1>4, <1>6, <2>1 DEF KeptAt, Kept
  <2>3. ListsAll(Append(rmc_ptrs[c], p), S \cup {p})
    BY <1>5, <1>6, <2>2, ListsAdd
  <2> QED  BY <1>5, <1>6, <1>9, <2>1, <2>3
<1>11. Account(T, heap', rmc_out'[c], rmc_bytes_out'[c], missed'[c])
  BY <1>3, <1>5, <1>6, <1>8, <1>9
<1>12. rmc_inited'[c] /\ rmc_track'[c] = rmc_track[c]
  BY <1>3
<1>13. KeptAt(c)'
  BY <1>6, <1>10, <1>11, <1>12 DEF KeptAt, Kept
<1>14. PerCtx'
  BY <1>3, <1>4 DEF PerCtx
<1>15. \A d \in Ctxs \ {c} : SameAt(d)
  BY <1>3, <1>4 DEF PerCtx, SameAt
<1> QED  BY <1>3, <1>5, <1>13, <1>14, <1>15, MemStep

LEMMA MemFree ==
    ASSUME MemInv, NEW c \in Ctxs, NEW p, NEW size, rd_memctx_free0(c, p, size)
    PROVE  MemInv'
<1>1. /\ memFault = "none" /\ size \in {0, heap[p].size}
      /\ memFault' = IF rmc_out[c] > 0 THEN memFault ELSE "assert"
      /\ rmc_out' = [rmc_out EXCEPT ![c] = @ - 1]
      /\ rmc_bytes_out' = [rmc_bytes_out EXCEPT ![c] = rmc_bytes_out[c] - size]
      /\ rmc_ptrs' = [rmc_ptrs EXCEPT ![c] = IF rmc_track[c] THEN PtrsAfterFree(c, p) ELSE @]
      /\ heap' = [heap EXCEPT ![p] = NoMem]
      /\ rmc_inited' = rmc_inited /\ rmc_track' = rmc_track
  BY DEF rd_memctx_free0, BytesAfterFree
<1>2. missed' = [missed EXCEPT ![c] = @ + (heap[p].size - size)]
  BY DEF rd_memctx_free0
<1>3. p \in Lives(heap, c) /\ p \in Ptrs
  BY DEF rd_memctx_free0, Live, Lives
<1>4. PerCtx /\ HeapOk(heap) /\ KeptAt(c)
  BY DEF MemInv
<1>5. /\ HeapOk(heap')
      /\ Lives(heap', c) = Lives(heap, c) \ {p}
      /\ Agree(heap, heap', Lives(heap, c) \ {p})
      /\ \A d \in Ctxs \ {c} : Untouched(heap, heap', d)
  <2>1. heap' = [q \in Ptrs |-> IF q \in {p} THEN NoMem ELSE heap[q]]
    BY <1>1, <1>4 DEF HeapOk
  <2>2. PICK P : P = {p}
    OBVIOUS
  <2>3. P \subseteq Lives(heap, c) /\ heap' = [q \in Ptrs |-> IF q \in P THEN NoMem ELSE heap[q]]
    BY <1>3, <2>1, <2>2
  <2>4. /\ HeapOk(heap')
        /\ Lives(heap', c) = Lives(heap, c) \ P
        /\ Agree(heap, heap', Lives(heap, c) \ P)
        /\ \A d \in Ctxs \ {c} : Untouched(heap, heap', d)
    <3>1. Takes(heap, heap', c, P)
      BY <1>4, <2>3 DEF Takes
    <3> QED  BY <3>1, HeapTake
  <2> QED  BY <2>2, <2>4
<1>6. PICK S, T : S = Lives(heap, c) /\ T = Lives(heap', c) /\ T = S \ {p}
  BY <1>5
<1>7. Account(S, heap, rmc_out[c], rmc_bytes_out[c], missed[c])
  BY <1>4, <1>6 DEF KeptAt, Kept
<1>8. /\ Account(S \ {p}, heap', rmc_out[c] - 1, rmc_bytes_out[c] - size, missed[c] + (heap[p].size - size))
      /\ rmc_out[c] > 0
  <2>1. p \in S /\ Agree(heap, heap', S \ {p}) /\ size \in {0, heap[p].size}
    BY <1>1, <1>3, <1>5, <1>6
  <2>2. PICK out, bytes, miss : out = rmc_out[c] /\ bytes = rmc_bytes_out[c] /\ miss = missed[c]
    OBVIOUS
  <2>3. Account(S, heap, out, bytes, miss)
    BY <1>7, <2>2
  <2>4. Drops(S, heap, heap', p, size)
    BY <2>1 DEF Drops
  <2>5. Account(S \ {p}, heap', out - 1, bytes - size, miss + (heap[p].size - size)) /\ out > 0
    BY <2>3, <2>4, AccountDrop
  <2> QED  BY <2>2, <2>5
<1>9. /\ rmc_out'[c] = rmc_out[c] - 1 /\ rmc_bytes_out'[c] = rmc_bytes_out[c] - size
      /\ rmc_track[c] => rmc_ptrs'[c] = PtrsAfterFree(c, p)
  BY <1>1, <1>4 DEF PerCtx
<1>10. rmc_track[c] => ListsAll(rmc_ptrs'[c], T)
  <2>1. SUFFICES ASSUME rmc_track[c] PROVE ListsAll(rmc_ptrs'[c], T)
    OBVIOUS
  <2>2. PICK list : list = rmc_ptrs[c]
    OBVIOUS
  <2>3. ListsAll(list, S) /\ p \in S
    BY <1>3, <1>4, <1>6, <2>1, <2>2 DEF KeptAt, Kept
  <2>4. ListsAll(RemoveAt(list, CHOOSE i \in DOMAIN list : list[i] = p), S \ {p})
    BY <2>3, ListsRemove
  <2>5. rmc_ptrs'[c] = RemoveAt(list, CHOOSE i \in DOMAIN list : list[i] = p)
    BY <1>9, <2>1, <2>2 DEF PtrsAfterFree
  <2> QED  BY <1>6, <2>4, <2>5
<1>11. missed'[c] = missed[c] + (heap[p].size - size)
  BY <1>2, <1>4 DEF PerCtx
<1>12. Account(T, heap', rmc_out'[c], rmc_bytes_out'[c], missed'[c])
  BY <1>6, <1>8, <1>9, <1>11
<1>13. KeptAt(c)'
  <2>1. rmc_inited'[c] = rmc_inited[c] /\ rmc_track'[c] = rmc_track[c]
    BY <1>1
  <2>2. (rmc_track[c] /\ ~rmc_inited[c]) => S = {}
    BY <1>4, <1>6 DEF KeptAt, Kept
  <2> QED  BY <1>6, <1>10, <1>12, <2>1, <2>2 DEF KeptAt, Kept
<1>14. PerCtx'
  BY <1>1, <1>2, <1>4 DEF PerCtx
<1>15. \A d \in Ctxs \ {c} : SameAt(d)
  BY <1>1, <1>2, <1>4 DEF PerCtx, SameAt
<1>16. memFault' = "none"
  BY <1>1, <1>8
<1> QED  BY <1>5, <1>13, <1>14, <1>15, <1>16, MemStep

\* rd_memctx_freeall(), of a context that tracks.
LEMMA MemFreeall ==
    ASSUME MemInv, NEW c \in Ctxs, rmc_inited[c], rmc_track[c], Freeall(c)
    PROVE  /\ memFault' = "none"
           /\ HeapOk(heap') /\ Lives(heap', c) = {}
           /\ \A d \in Ctxs \ {c} : Untouched(heap, heap', d)
           /\ \E bytes \in Nat :
                /\ rmc_bytes_out' = [rmc_bytes_out EXCEPT ![c] = bytes]
                /\ missed' = [missed EXCEPT ![c] = bytes]
           /\ rmc_out' = [rmc_out EXCEPT ![c] = 0]
           /\ rmc_ptrs' = [rmc_ptrs EXCEPT ![c] = << >>]
<1>1. PerCtx /\ HeapOk(heap) /\ KeptAt(c) /\ memFault = "none"
  BY DEF MemInv
<1>2. PICK S, list, out, bytes, miss : S = Lives(heap, c) /\ list = rmc_ptrs[c] /\ out = rmc_out[c]
                                    /\ bytes = rmc_bytes_out[c] /\ miss = missed[c]
  OBVIOUS
<1>3. Account(S, heap, out, bytes, miss) /\ ListsAll(list, S)
  BY <1>1, <1>2 DEF KeptAt, Kept
<1>4. PICK n \in Nat : n = Len(list)
  BY <1>3, SeqFacts DEF ListsAll
<1>5. ToSet(list) = S /\ \A i \in 1..n : list[i] \in S
  BY <1>3, <1>4, ListsLen, SeqFacts DEF ListsAll
<1>6. PICK w, u : /\ w = [i \in 1..n |-> rmcp_size(list[i])]
                 /\ u = [i \in 1..n |-> Mod32 * (heap[list[i]].size \div Mod32)]
  OBVIOUS
<1>7. ASSUME NEW i \in 1..n
      PROVE  /\ w[i] = rmcp_size(list[i]) /\ w[i] \in Nat /\ u[i] \in Nat
             /\ u[i] = Mod32 * (heap[list[i]].size \div Mod32) /\ heap[list[i]].size = w[i] + u[i]
  <2>1. PICK s \in Nat, m \in Nat \ {0} : s = heap[list[i]].size /\ m = Mod32
    BY <1>3, <1>5, MemAssumption DEF Account, Sized
  <2>2. s % m \in Nat /\ m * (s \div m) \in Nat /\ s = (s % m) + m * (s \div m)
    BY ModSplits
  <2>3. w[i] = s % m /\ u[i] = m * (s \div m)
    BY <1>6, <2>1 DEF rmcp_size
  <2> QED  BY <1>6, <2>1, <2>2, <2>3
<1>8. Split(heap, list, n, w, u) /\ w \in [1..n -> Nat] /\ u \in [1..n -> Nat]
  BY <1>6, <1>7 DEF Split
<1>9. /\ out - n = 0
      /\ miss + Upmost(u, n) \in Nat /\ bytes - Upmost(w, n) = miss + Upmost(u, n)
      /\ \A i \in 1..n : out - (i - 1) > 0 /\ (w[i] # 0 => bytes - Upmost(w, i - 1) > 0)
  BY <1>3, <1>4, <1>8, AccountAll
<1>10. ASSUME NEW i \in 0..n PROVE SumOfSizes(c, i) = Upmost(w, i)
  <2>1. \A j \in 1..i : w[j] = rmcp_size(list[j])
    BY <1>7
  <2>2. [j \in 1..i |-> rmcp_size(rmc_ptrs[c][j])] = [j \in 1..i |-> w[j]]
    BY <1>2, <2>1
  <2> QED  BY <2>2 DEF SumOfSizes, Upmost
<1>11. /\ memFault' = IF \E i \in 1..n : PtrFreeFails(c, i) THEN "assert" ELSE memFault
       /\ rmc_out' = [rmc_out EXCEPT ![c] = @ - n]
       /\ rmc_bytes_out' = [rmc_bytes_out EXCEPT ![c] = @ - SumOfSizes(c, n)]
       /\ rmc_ptrs' = [rmc_ptrs EXCEPT ![c] = <<>>]
       /\ heap' = [p \in Ptrs |-> IF p \in S THEN NoMem ELSE heap[p]]
  BY <1>2, <1>4, <1>5 DEF Freeall, FreedByFreeall
<1>12. missed' = [missed EXCEPT ![c] = miss + Upmost(u, n)]
  <2>1. missed' = [missed EXCEPT ![c] = @ + CutOff(c)]
    BY DEF Freeall
  <2>2. PICK hy : hy = [p \in S |-> [size |-> Mod32 * (heap[p].size \div Mod32)]]
    OBVIOUS
  <2>3. \A p \in S : hy[p].size = Mod32 * (heap[p].size \div Mod32)
    BY <2>2
  <2>4. [p \in S |-> hy[p].size] = [p \in S |-> Mod32 * (heap[p].size \div Mod32)]
    BY <2>3
  <2>5. CutOff(c) = Total(hy, S)
    BY <1>2, <1>5, <2>4 DEF CutOff, FreedByFreeall, Total
  <2>6. Sized(hy, S)
    <3>1. ASSUME NEW p \in S PROVE hy[p].size \in Nat
      <4>1. PICK s \in Nat, m \in Nat \ {0} : s = heap[p].size /\ m = Mod32
        BY <1>3, MemAssumption DEF Account, Sized
      <4>2. m * (s \div m) \in Nat
        BY ModSplits
      <4> QED  BY <2>3, <4>1, <4>2
    <3> QED  BY <3>1 DEF Sized
  <2>7. \A i \in 1..n : u[i] = hy[list[i]].size
    BY <1>5, <1>7, <2>3
  <2>8. Upmost(u, n) = Total(hy, S)
    BY <1>3, <1>4, <1>8, <2>6, <2>7, ListBytes
  <2> QED  BY <1>2, <2>1, <2>5, <2>8
<1>13. ASSUME NEW i \in 1..n PROVE ~PtrFreeFails(c, i)
  <2>1. i - 1 \in 0..n
    OBVIOUS
  <2>2. PICK a, b : a = out - (i - 1) /\ b = bytes - Upmost(w, i - 1)
    OBVIOUS
  <2>3. a > 0 /\ (w[i] # 0 => b > 0)
    BY <1>9, <2>2
  <2>4. OutBeforeFreeing(c, i) = a /\ rmc_bytes_out[c] - SumOfSizes(c, i - 1) = b
    BY <1>2, <1>10, <2>1, <2>2 DEF OutBeforeFreeing
  <2>5. rmcp_size(rmc_ptrs[c][i]) = w[i]
    BY <1>2, <1>7
  <2>6. a \in Int /\ b \in Int
    <3>1. Upmost(w, i - 1) \in Nat
      BY <1>8, <2>1, UpmostFacts
    <3>2. Total(heap, S) \in Nat
      BY <1>3, SetBytes DEF Account
    <3>3. out = n /\ bytes \in Nat
      BY <1>3, <1>4, <3>2, ListsLen DEF Account
    <3> QED  BY <2>2, <3>1, <3>3
  <2>7. ~(a <= 0) /\ ~(w[i] # 0 /\ b <= 0)
    BY <2>3, <2>6
  <2> QED  BY <2>4, <2>5, <2>7 DEF PtrFreeFails
<1>14. memFault' = "none"
  BY <1>1, <1>11, <1>13
<1>15. /\ HeapOk(heap')
       /\ Lives(heap', c) = Lives(heap, c) \ S
       /\ Agree(heap, heap', Lives(heap, c) \ S)
       /\ \A d \in Ctxs \ {c} : Untouched(heap, heap', d)
  <2>1. S \subseteq Lives(heap, c) /\ heap' = [p \in Ptrs |-> IF p \in S THEN NoMem ELSE heap[p]]
    BY <1>2, <1>11
  <2>2. Takes(heap, heap', c, S)
    BY <1>1, <2>1 DEF Takes
  <2> QED  BY <2>2, HeapTake
<1>16. rmc_out' = [rmc_out EXCEPT ![c] = 0]
  BY <1>2, <1>9, <1>11
<1>17. n \in 0..n
  OBVIOUS
<1>18. PICK left \in Nat : left = miss + Upmost(u, n) /\ bytes - Upmost(w, n) = left
  BY <1>9
<1>19. rmc_bytes_out' = [rmc_bytes_out EXCEPT ![c] = left]
  BY <1>2, <1>10, <1>11, <1>17, <1>18
<1>20. missed' = [missed EXCEPT ![c] = left]
  BY <1>12, <1>18
<1>21. Lives(heap', c) = {}
  BY <1>2, <1>15
<1> QED  BY <1>11, <1>14, <1>15, <1>16, <1>19, <1>20, <1>21

LEMMA MemFreeallStep ==
    ASSUME MemInv, NEW c \in Ctxs, rmc_inited[c], rmc_track[c], Freeall(c),
           DOMAIN rmc_inited' = Ctxs, \A d \in Ctxs \ {c} : rmc_inited'[d] = rmc_inited[d],
           rmc_track' = rmc_track
    PROVE  MemInv'
<1>1. /\ memFault' = "none"
      /\ HeapOk(heap') /\ Lives(heap', c) = {}
      /\ \A d \in Ctxs \ {c} : Untouched(heap, heap', d)
      /\ \E bytes \in Nat :
                /\ rmc_bytes_out' = [rmc_bytes_out EXCEPT ![c] = bytes]
                /\ missed' = [missed EXCEPT ![c] = bytes]
      /\ rmc_out' = [rmc_out EXCEPT ![c] = 0]
      /\ rmc_ptrs' = [rmc_ptrs EXCEPT ![c] = << >>]
  BY MemFreeall
<1>2. PICK bytes \in Nat : /\ rmc_bytes_out' = [rmc_bytes_out EXCEPT ![c] = bytes]
                           /\ missed' = [missed EXCEPT ![c] = bytes]
  BY <1>1
<1>3. PerCtx
  BY DEF MemInv
<1>4. PerCtx'
  BY <1>1, <1>2, <1>3 DEF PerCtx
<1>5. \A d \in Ctxs \ {c} : SameAt(d)
  BY <1>1, <1>2, <1>3 DEF PerCtx, SameAt
<1>6. /\ rmc_out'[c] = 0 /\ rmc_bytes_out'[c] = bytes /\ rmc_ptrs'[c] = << >>
      /\ missed'[c] = bytes
  BY <1>1, <1>2, <1>3 DEF PerCtx
<1>7. Account({}, heap', 0, bytes, bytes)
  BY AccountNone
<1>8. ListsAll(<< >>, {})
  BY DEF ListsAll
<1>9. KeptAt(c)'
  BY <1>1, <1>6, <1>7, <1>8 DEF KeptAt, Kept
<1> QED  BY <1>1, <1>4, <1>5, <1>9, MemStep

LEMMA MemDestroy ==
    ASSUME MemInv, NEW c \in Ctxs, rd_memctx_destroy(c)
    PROVE  MemInv'
<1>1. /\ rmc_inited[c] /\ memFault = "none" /\ rmc_track' = rmc_track
      /\ rmc_inited' = [rmc_inited EXCEPT ![c] = FALSE]
  BY DEF rd_memctx_destroy
<1>2. CASE rmc_track[c] /\ Freeall(c)
  <2>1. DOMAIN rmc_inited' = Ctxs /\ \A d \in Ctxs \ {c} : rmc_inited'[d] = rmc_inited[d]
    BY <1>1 DEF MemInv, PerCtx
  <2> QED  BY <1>1, <1>2, <2>1, MemFreeallStep
<1>3. CASE ~rmc_track[c] /\ UNCHANGED <<rmc_out, rmc_bytes_out, rmc_ptrs, heap, missed, memFault>>
  <2>1. PerCtx /\ HeapOk(heap) /\ KeptAt(c)
    BY DEF MemInv
  <2>2. PerCtx'
    BY <1>1, <1>3, <2>1 DEF PerCtx
  <2>3. \A d \in Ctxs \ {c} : SameAt(d) /\ Untouched(heap, heap', d)
    BY <1>1, <1>3, <2>1 DEF PerCtx, SameAt, Untouched, Agree
  <2>4. KeptAt(c)'
    BY <1>1, <1>3, <2>1 DEF KeptAt, Kept
  <2>5. HeapOk(heap') /\ memFault' = "none"
    BY <1>1, <1>3, <2>1
  <2> QED  BY <2>2, <2>3, <2>4, <2>5, MemStep
<1> QED  BY <1>2, <1>3 DEF rd_memctx_destroy

LEMMA MemNextInv == MemInv /\ [MemNext]_memVars => MemInv'
<1> SUFFICES ASSUME MemInv, [MemNext]_memVars PROVE MemInv'
  OBVIOUS
<1>1. CASE UNCHANGED memVars
  BY <1>1 DEF MemInv, memVars, ctxVars, PerCtx, KeptAt
<1>2. ASSUME NEW c \in Ctxs, NEW track \in BOOLEAN, rd_memctx_init(c, track) PROVE MemInv'
  BY <1>2, MemCtxInit
<1>3. ASSUME NEW c \in Ctxs, NEW p \in Ptrs, NEW size \in Sizes, rd_memctx_alloc(c, p, size)
      PROVE  MemInv'
  <2>1. size \in Nat
    BY MemAssumption
  <2>2. PICK b : b = [ctx |-> c, size |-> size, base |-> size, fields |-> << >>]
    OBVIOUS
  <2>3. b.fields = << >> /\ b \in Blocks
    BY <2>1, <2>2 DEF Blocks
  <2>4. Fits(b)
    <3>1. DOMAIN b.fields = {}
      BY <2>3
    <3> QED  BY <3>1 DEF Fits
  <2>5. Alloc(c, p, size, size, << >>)
    BY <1>3 DEF rd_memctx_alloc
  <2> QED  BY <2>1, <2>2, <2>3, <2>4, <2>5, MemAlloc
<1>4. ASSUME NEW c \in Ctxs, NEW p \in Ptrs, NEW base \in Sizes,
             NEW fs \in BoundedSeq(Fields, MaxFields), rd_calloc_struct0(c, p, base, fs)
      PROVE  MemInv'
  <2>1. base \in Nat /\ fs \in Seq(Fields)
    <3>1. base \in Nat /\ MaxFields \in Nat
      BY MemAssumption
    <3>2. PICK n \in 0..MaxFields : fs \in [1..n -> Fields]
      BY Zenon DEF BoundedSeq, SeqOf
    <3>3. n \in Nat
      BY <3>1
    <3>4. fs \in Seq(Fields)
      BY <3>2, <3>3, SeqDef
    <3> QED  BY <3>1, <3>4
  <2>2. PICK tot, fields :
            /\ tot = base + FieldsSize(fs, Len(fs))
            /\ fields = IF base + FieldsSize(fs, Len(fs)) = base THEN << >>
                        ELSE [i \in DOMAIN fs |->
                               [at |-> TailStart(base) + FieldsSize(fs, i - 1),
                                size |-> FieldSize(fs[i])]]
    OBVIOUS
  <2>3. Alloc(c, p, tot, base, fields)
    BY <1>4, <2>2 DEF rd_calloc_struct0
  <2>4. StructBlock(c, base, fs) = [ctx |-> c, size |-> tot, base |-> base, fields |-> fields]
    BY <2>2 DEF StructBlock
  <2>5. /\ StructBlock(c, base, fs) \in Blocks /\ Fits(StructBlock(c, base, fs)) /\ tot \in Nat
    BY <2>1, <2>2, StructFits
  <2> QED  BY <2>3, <2>4, <2>5, MemAlloc
<1>5. ASSUME NEW c \in Ctxs, NEW p, NEW size, rd_memctx_free0(c, p, size) PROVE MemInv'
  BY <1>5, MemFree
<1>6. ASSUME NEW c \in Ctxs, rd_memctx_freeall(c) PROVE MemInv'
  <2>1. /\ rmc_inited[c] /\ rmc_track[c] /\ Freeall(c)
        /\ rmc_inited' = rmc_inited /\ rmc_track' = rmc_track
    BY <1>6 DEF rd_memctx_freeall
  <2>2. DOMAIN rmc_inited' = Ctxs /\ \A d \in Ctxs \ {c} : rmc_inited'[d] = rmc_inited[d]
    BY <2>1 DEF MemInv, PerCtx
  <2> QED  BY <2>1, <2>2, MemFreeallStep
<1>7. ASSUME NEW c \in Ctxs, rd_memctx_destroy(c) PROVE MemInv'
  BY <1>7, MemDestroy
<1> QED  BY <1>1, <1>2, <1>3, <1>4, <1>5, <1>6, <1>7 DEF MemNext

\* The fields that rd_calloc_struct0() lays out behind a struct stay within
\* the allocation and apart from each other and from the struct, whatever the
\* number of fields and their sizes.
THEOREM FieldsAlwaysFit == MemSpec => []FieldsFit
<1>1. MemInv => FieldsFit
  BY DEF MemInv, HeapOk, Fits, FieldsFit
<1> QED  BY <1>1, MemInitInv, MemNextInv, PTL DEF MemSpec

\* The counters and the list of every memory context match what it has out,
\* before and after it is destroyed, and no assertion of rdmem.c fails, for any
\* contexts, sizes and order of the operations.  Its bytes are those of what it
\* has out and, exactly, those that rd_memctx_free() and, for sizes that
\* rmcp_size cuts off, rd_memctx_freeall() freed without taking them off.
THEOREM AccountsAlwaysMatch == MemSpec => []AccountsMatchMemory
<1>1. ASSUME MemInv PROVE AccountsMatchMemory
  <2>1. memFault = "none"
    BY <1>1 DEF MemInv
  <2>2. ASSUME NEW c \in Ctxs
        PROVE  /\ rmc_out[c] = Cardinality(Live(c))
               /\ rmc_bytes_out[c] = TotalBytes(Live(c)) + missed[c]
               /\ rmc_track[c] => /\ ToSet(rmc_ptrs[c]) = Live(c)
                                  /\ Len(rmc_ptrs[c]) = Cardinality(Live(c))
                                  /\ ~rmc_inited[c] => Live(c) = {}
    <3>1. Live(c) = Lives(heap, c)
      BY DEF Live, Lives
    <3>2. TotalBytes(Live(c)) = Total(heap, Lives(heap, c))
      BY <3>1 DEF TotalBytes, Total
    <3>3. KeptAt(c)
      BY <1>1 DEF MemInv
    <3>4. (rmc_track[c] /\ ~rmc_inited[c]) => Live(c) = {}
      BY <3>1, <3>3 DEF KeptAt, Kept
    <3>5. rmc_out[c] = Cardinality(Live(c)) /\ rmc_bytes_out[c] = TotalBytes(Live(c)) + missed[c]
      BY <3>1, <3>2, <3>3 DEF KeptAt, Kept, Account
    <3>6. ASSUME rmc_track[c]
          PROVE  ToSet(rmc_ptrs[c]) = Live(c) /\ Len(rmc_ptrs[c]) = Cardinality(Live(c))
      <4>1. ListsAll(rmc_ptrs[c], Live(c))
        BY <3>1, <3>3, <3>6 DEF KeptAt, Kept
      <4> QED  BY <4>1, ListsLen
    <3> QED  BY <3>4, <3>5, <3>6
  <2> QED  BY <2>1, <2>2 DEF AccountsMatchMemory
<1> QED  BY <1>1, MemInitInv, MemNextInv, PTL DEF MemSpec
=============================================================================
