-------------------------- MODULE RdStringsProofs --------------------------
(***************************************************************************)
(* Proofs about strings, the texts of addresses and encodings.             *)
(*                                                                         *)
(* The ring of buffers behind rd_tsprintf(): for any number of buffers,    *)
(* any lengths and any limits for shrinking, the strings of the last       *)
(* RD_TSPRINTF_BUFCNT calls are intact and no buffer is lost.  The scans   *)
(* and comparisons of sized strings, for every string.  The lists of       *)
(* rd_getaddrinfo(): a shuffle is a permutation, and every round of turns  *)
(* goes through all of the list.  The texts of rd_sockaddr2str(), in a     *)
(* ring like the first, and how rd_addrinfo_prepare() splits them.         *)
(* Integers of variable length and hexadecimal text: what is written       *)
(* arrives, for any width and however the stream is cut.                   *)
(***************************************************************************)
EXTENDS RdStrings, RdAddr, RdEncoding, SequenceTheorems, FiniteSetTheorems, NaturalsInduction,
        WellFoundedInduction, TLAPS

N == RD_TSPRINTF_BUFCNT

\* The slot that was used d calls ago, when slot i was used last.
Ago(i, d) == IF d <= i THEN i - d ELSE i - d + N

BlockTexts == [id : TsIds \cup {NULL}, len : Nat]
HeapBlocks == [len : Nat, text : BlockTexts]
Results == [block : Blocks \cup {NULL}, text : BlockTexts]

RingType ==
    /\ cyc \in [size : {0, N}, buf : [RingSlots -> Blocks \cup {NULL}], i : RingSlots]
    /\ strHeap \in [Blocks -> HeapBlocks]
    /\ recent \in Seq(Results) /\ Len(recent) <= N

\* Before the first call and after a cleanup nothing is out.
RingEmpty == cyc.size = 0 => cyc.buf = EmptyRing /\ recent = <<>>

\* No two slots have the same buffer, and the buffers are the allocated blocks.
RingOwns ==
    /\ \A s, t \in RingSlots : cyc.buf[s] = cyc.buf[t] /\ cyc.buf[s] # NULL => s = t
    /\ \A b \in Blocks : strHeap[b] # NoBlock <=> \E s \in RingSlots : cyc.buf[s] = b

\* The k-th of the recent strings is in the slot used as many calls ago as
\* there were strings after it.
RecentOK(k) ==
    recent[k].block # NULL =>
        /\ recent[k].block = cyc.buf[Ago(cyc.i, Len(recent) - k)]
        /\ strHeap[recent[k].block].text = recent[k].text
        /\ strHeap[recent[k].block].len > recent[k].text.len

RingInv ==
    /\ RingType /\ RingEmpty /\ RingOwns
    /\ \A k \in 1..Len(recent) : RecentOK(k)

-----------------------------------------------------------------------------
LEMMA NFacts == N \in Nat \ {0}
  BY StringsAssumption DEF N

LEMMA NoBlockType == NoBlock \in HeapBlocks /\ NULL \notin Blocks /\ EmptyRing \in [RingSlots -> Blocks \cup {NULL}]
<1>1. NULL \notin Blocks
  BY StringsAssumption DEF NULL, Blocks
<1>2. NoBlock \in HeapBlocks
  BY DEF NoBlock, HeapBlocks, BlockTexts
<1>3. EmptyRing \in [RingSlots -> Blocks \cup {NULL}]
  BY DEF EmptyRing
<1> QED  BY <1>1, <1>2, <1>3

\* Going to the next slot makes every string one call older.
LEMMA NextAgo ==
    ASSUME NEW i \in RingSlots
    PROVE  /\ NextIndex(i) \in RingSlots
           /\ \A d \in 0..N - 1 : Ago(i, d) \in RingSlots
           /\ \A d \in 0..N - 2 : /\ Ago(NextIndex(i), d + 1) = Ago(i, d)
                                  /\ Ago(i, d) # NextIndex(i)
<1>1. N \in Nat \ {0} /\ i \in 0..N - 1
  BY NFacts DEF N, RingSlots
<1>2. NextIndex(i) = IF i + 1 = N THEN 0 ELSE i + 1
  <2>1. (i + 1) % N = IF i + 1 = N THEN 0 ELSE i + 1
    <3> HIDE DEF N
    <3> QED  BY <1>1
  <2> QED  BY <2>1 DEF NextIndex, N
<1>3. RingSlots = 0..N - 1
  BY DEF RingSlots, N
<1> HIDE DEF N
<1> QED  BY <1>1, <1>2, <1>3 DEF Ago

\* s is what a history of max members keeps when e is added: e last, and of
\* the old ones the max - 1 most recent, in their order.
Continues(s, max, hist, S, e) ==
    /\ s \in Seq(S) /\ Len(s) <= max
    /\ Len(s) \in 1..Len(hist) + 1
    /\ s[Len(s)] = e
    /\ \A k \in 1..Len(s) - 1 : /\ k + (Len(hist) + 1 - Len(s)) \in 1..Len(hist)
                                /\ s[k] = hist[k + (Len(hist) + 1 - Len(s))]

LEMMA LastOfFacts ==
    ASSUME NEW S, NEW hist \in Seq(S), NEW max \in Nat \ {0}, Len(hist) <= max, NEW e \in S
    PROVE  Continues(LastOf(max, hist, e), max, hist, S, e)
<1>1. PICK n \in Nat : n = Len(hist) /\ n <= max
  BY LenProperties
<1>2. PICK d \in Int : d = (IF n + 1 > max THEN 1 ELSE 0) /\ d \in {0, 1}
  OBVIOUS
<1>3. PICK all : all = Append(hist, e)
  OBVIOUS
<1>4. /\ all \in Seq(S) /\ Len(all) = n + 1 /\ all[n + 1] = e
      /\ \A k \in 1..n : all[k] = hist[k]
  BY <1>1, <1>3, AppendProperties
<1>5. PICK lo \in Int, hi \in Int : lo = 1 + d /\ hi = n + 1
  <2>1. 1 + d \in Int /\ n + 1 \in Int
    OBVIOUS
  <2> QED  BY <2>1
<1>6. PICK s : s = LastOf(max, hist, e) /\ s = SubSeq(all, lo, hi)
  <2>1. (IF n + 1 > max THEN 2 ELSE 1) = lo
    BY <1>2, <1>5
  <2> QED  BY <1>3, <1>4, <1>5, <2>1 DEF LastOf
<1>7. d <= n /\ n + 1 - d <= max /\ n + 1 - d >= 1 /\ n + 1 - d \in 1..n + 1
  BY <1>1, <1>2
<1>8. \A i \in lo..hi : all[i] \in S
  <2>1. \A i \in 1..n + 1 : all[i] \in S
    BY <1>4, ElementOfSeq
  <2>2. \A i \in lo..hi : i \in 1..n + 1
    BY <1>2, <1>5
  <2> QED  BY <2>1, <2>2
<1>9. /\ s \in Seq(S) /\ Len(s) = (IF lo <= hi THEN hi - lo + 1 ELSE 0)
      /\ \A k \in 1..hi - lo + 1 : s[k] = all[lo + k - 1]
  BY <1>6, <1>8, SubSeqProperties
<1>10. hi - lo + 1 = n + 1 - d /\ lo <= hi /\ \A k \in Int : lo + k - 1 = k + d
  BY <1>5, <1>7
<1>11. Len(s) = n + 1 - d /\ \A k \in 1..n + 1 - d : s[k] = all[k + d]
  <2>1. Len(s) = n + 1 - d
    BY <1>9, <1>10
  <2>2. ASSUME NEW k \in 1..n + 1 - d PROVE s[k] = all[k + d]
    <3>1. k \in 1..hi - lo + 1 /\ lo + k - 1 = k + d
      BY <1>10
    <3> QED  BY <1>9, <3>1
  <2> QED  BY <2>1, <2>2
<1>12. Len(s) <= max /\ Len(s) \in 1..n + 1 /\ n + 1 - Len(s) = d
  BY <1>7, <1>11
<1>13. s[Len(s)] = e
  <2>1. n + 1 - d \in 1..n + 1 - d /\ (n + 1 - d) + d = n + 1
    BY <1>7
  <2> QED  BY <1>4, <1>11, <2>1
<1>14. ASSUME NEW k \in 1..Len(s) - 1 PROVE k + d \in 1..n /\ s[k] = hist[k + d]
  <2>1. k \in 1..n + 1 - d /\ k + d \in 1..n
    BY <1>2, <1>7, <1>11
  <2> QED  BY <1>4, <1>11, <2>1
<1>15. Continues(s, max, hist, S, e)
  BY <1>1, <1>9, <1>12, <1>13, <1>14 DEF Continues
<1> QED  BY <1>6, <1>15

LEMMA RememberFacts ==
    ASSUME recent \in Seq(Results), Len(recent) <= N, NEW r \in Results
    PROVE  /\ Remember(r) \in Seq(Results) /\ Len(Remember(r)) <= N
           /\ Len(Remember(r)) \in 1..Len(recent) + 1
           /\ Remember(r)[Len(Remember(r))] = r
           /\ \A k \in 1..Len(Remember(r)) - 1 :
                LET d == Len(recent) + 1 - Len(Remember(r))
                IN  /\ k + d \in 1..Len(recent)
                    /\ Remember(r)[k] = recent[k + d]
<1>1. N \in Nat \ {0}
  BY NFacts
<1>2. Remember(r) = LastOf(N, recent, r)
  BY DEF Remember, LastOf, N
<1>3. PICK max \in Nat \ {0}, hist \in Seq(Results) : max = N /\ hist = recent /\ Len(hist) <= max
  BY <1>1
<1>4. PICK s : s = LastOf(max, hist, r) /\ s = Remember(r)
  BY <1>2, <1>3
<1>5. Continues(s, max, hist, Results, r)
  BY <1>3, <1>4, LastOfFacts
<1> HIDE DEF N
<1> QED  BY <1>3, <1>4, <1>5 DEF Continues

-----------------------------------------------------------------------------
LEMMA RingInitInv == StrInit => RingInv
<1> SUFFICES ASSUME StrInit PROVE RingInv
  OBVIOUS
<1>1. RingType
  <2>1. cyc \in [size : {0, N}, buf : [RingSlots -> Blocks \cup {NULL}], i : RingSlots]
    <3>1. 0 \in RingSlots
      BY StringsAssumption DEF RingSlots
    <3> QED  BY <3>1, NoBlockType DEF StrInit
  <2>2. strHeap \in [Blocks -> HeapBlocks]
    BY NoBlockType DEF StrInit
  <2>3. recent \in Seq(Results) /\ Len(recent) = 0
    BY EmptySeq DEF StrInit
  <2> QED  BY <2>1, <2>2, <2>3, NFacts DEF RingType
<1>2. RingEmpty
  BY DEF StrInit, RingEmpty
<1>3. RingOwns
  BY NoBlockType DEF StrInit, RingOwns, EmptyRing
<1>4. \A k \in 1..Len(recent) : RecentOK(k)
  BY EmptySeq DEF StrInit
<1> QED  BY <1>1, <1>2, <1>3, <1>4 DEF RingInv

\* rdstr_cyclic_get(): the slots keep their buffers, and the recent strings that
\* are still to be kept are not in the slot that is used now.
LEMMA GetFacts ==
    ASSUME RingInv, NEW c, c = rdstr_cyclic_get
    PROVE  /\ c.size = N /\ c.buf = cyc.buf /\ c.i \in RingSlots
           /\ c = [size |-> N, buf |-> cyc.buf, i |-> c.i]
           /\ \A k \in 1..Len(recent) : Len(recent) - k <= N - 2 =>
                 /\ Ago(c.i, Len(recent) + 1 - k) = Ago(cyc.i, Len(recent) - k)
                 /\ Ago(cyc.i, Len(recent) - k) \in RingSlots
                 /\ Ago(cyc.i, Len(recent) - k) # c.i
<1> USE DEF RingInv
<1>1. /\ cyc \in [size : {0, N}, buf : [RingSlots -> Blocks \cup {NULL}], i : RingSlots]
      /\ Len(recent) \in Nat /\ Len(recent) <= N /\ N \in Nat \ {0}
  BY LenProperties, NFacts DEF RingType
<1>2. CASE cyc.size = 0
  <2>1. c = [cyc EXCEPT !.size = N, !.buf = cyc.buf] /\ Len(recent) = 0
    BY <1>2, EmptySeq DEF rdstr_cyclic_get, RingEmpty, N
  <2>2. c.size = N /\ c.buf = cyc.buf /\ c.i = cyc.i /\ c = [size |-> N, buf |-> cyc.buf, i |-> c.i]
    BY <1>1, <2>1
  <2>3. \A k \in 1..Len(recent) : FALSE
    BY <2>1
  <2> QED  BY <1>1, <2>2, <2>3
<1>3. CASE cyc.size # 0
  <2>1. c = [cyc EXCEPT !.i = NextIndex(cyc.i)] /\ cyc.size = N
    BY <1>1, <1>3 DEF rdstr_cyclic_get
  <2>2. ASSUME NEW k \in 1..Len(recent), Len(recent) - k <= N - 2
        PROVE  /\ Ago(c.i, Len(recent) + 1 - k) = Ago(cyc.i, Len(recent) - k)
               /\ Ago(cyc.i, Len(recent) - k) \in RingSlots
               /\ Ago(cyc.i, Len(recent) - k) # c.i
    <3>1. PICK d \in 0..N - 2 : d = Len(recent) - k /\ d + 1 = Len(recent) + 1 - k
      <4>1. Len(recent) \in Nat /\ N \in Nat /\ k \in 1..Len(recent)
        BY <1>1
      <4>2. Len(recent) - k \in 0..N - 2 /\ Len(recent) - k + 1 = Len(recent) + 1 - k
        <5> HIDE DEF N
        <5> QED  BY <2>2, <4>1
      <4> QED  BY <4>2
    <3>2. /\ Ago(NextIndex(cyc.i), d + 1) = Ago(cyc.i, d)
          /\ Ago(cyc.i, d) # NextIndex(cyc.i)
      BY <1>1, <3>1, NextAgo
    <3>3. Ago(cyc.i, d) \in RingSlots
      <4>1. d \in 0..N - 1
        BY <3>1, NFacts
      <4> QED  BY <1>1, <4>1, NextAgo
    <3>4. c.i = NextIndex(cyc.i)
      BY <1>1, <2>1
    <3> QED  BY <3>1, <3>2, <3>3, <3>4
  <2>3. NextIndex(cyc.i) \in RingSlots
    BY <1>1, NextAgo
  <2> QED  BY <1>1, <2>1, <2>2, <2>3
<1> QED  BY <1>2, <1>3

\* The recent strings after a call that returned r, given that the last one is
\* right and that the slots of the others, and their blocks, were left alone.
LEMMA RecentStep ==
    ASSUME RingInv, NEW c, c = rdstr_cyclic_get, NEW r \in Results,
           recent' = Remember(r), cyc'.i = c.i,
           \A s \in RingSlots : s # c.i => cyc'.buf[s] = cyc.buf[s],
           \A s \in RingSlots : s # c.i /\ cyc.buf[s] # NULL =>
               strHeap'[cyc.buf[s]] = strHeap[cyc.buf[s]],
           r.block # NULL => /\ r.block = cyc'.buf[c.i]
                             /\ strHeap'[r.block].text = r.text
                             /\ strHeap'[r.block].len > r.text.len
    PROVE  /\ recent' \in Seq(Results) /\ Len(recent') <= N
           /\ \A k \in 1..Len(recent') : RecentOK(k)'
<1> USE DEF RingInv
<1> DEFINE n == Len(recent)
           m == Len(recent')
           e == n + 1 - m
<1>1. recent \in Seq(Results) /\ n \in Nat /\ n <= N /\ N \in Nat \ {0}
  BY LenProperties, NFacts DEF RingType
<1>2. /\ recent' \in Seq(Results) /\ m <= N /\ m \in 1..n + 1
      /\ recent'[m] = r
      /\ \A k \in 1..m - 1 : k + e \in 1..n /\ recent'[k] = recent[k + e]
  BY <1>1, RememberFacts
<1>3. ASSUME NEW k \in 1..m PROVE RecentOK(k)'
  <2>1. CASE k = m
    <3>1. Ago(c.i, m - k) = c.i
      <4>1. c.i \in Nat /\ m - k = 0
        BY <1>1, <1>2, <2>1, GetFacts, NFacts DEF RingSlots
      <4> HIDE DEF m
      <4> QED  BY <4>1 DEF Ago
    <3> QED  BY <1>2, <2>1, <3>1 DEF RecentOK
  <2>2. CASE k # m
    <3>1. k \in 1..m - 1 /\ k \in Nat /\ m \in Nat
      BY <1>1, <1>2, <2>2
    <3> HIDE DEF N, n, m, e
    <3>2. PICK j \in 1..n : j = k + e /\ recent'[k] = recent[j]
      BY <1>2, <3>1
    <3>3. n - j <= N - 2 /\ n + 1 - j = m - k /\ n - j = m - k - 1
      <4>1. e = n + 1 - m
        BY DEF e
      <4> QED  BY <1>1, <1>2, <3>1, <3>2, <4>1
    <3>4. RecentOK(j)
      BY <3>2 DEF n
    <3> DEFINE s == Ago(cyc.i, n - j)
    <3>5. Ago(c.i, m - k) = s /\ s \in RingSlots /\ s # c.i
      BY <3>2, <3>3, GetFacts DEF n
    <3>6. ASSUME recent[j].block # NULL
          PROVE  /\ recent[j].block = cyc'.buf[s] /\ cyc.buf[s] = recent[j].block
                 /\ strHeap'[recent[j].block] = strHeap[recent[j].block]
      <4>1. recent[j].block = cyc.buf[s]
        BY <3>4, <3>6 DEF RecentOK, n
      <4> HIDE DEF s
      <4> QED  BY <3>5, <3>6, <4>1
    <3>7. Ago(cyc'.i, Len(recent') - k) = s
      BY <3>5 DEF m
    <3> HIDE DEF s
    <3> QED  BY <3>2, <3>4, <3>6, <3>7 DEF RecentOK
  <2> QED  BY <2>1, <2>2
<1> QED  BY <1>2, <1>3

\* rd_tsprintf(): the slot's buffer is reused or replaced by a block that is
\* free, so that no other slot's buffer is written to.
LEMMA FormatStep ==
    ASSUME RingInv, NEW text \in TsTexts, rd_tsprintf(text)
    PROVE  RingInv'
<1> USE DEF RingInv
<1>1. PICK c : c = rdstr_cyclic_get
  OBVIOUS
<1>2. /\ c.size = N /\ c.buf = cyc.buf /\ c.i \in RingSlots
      /\ c = [size |-> N, buf |-> cyc.buf, i |-> c.i]
  BY <1>1, GetFacts
<1> DEFINE old == c.buf[c.i]
           need == text.len + 1
           replace == old = NULL \/ Unfit(strHeap[old].len, need)
           freed == IF replace /\ old # NULL THEN [strHeap EXCEPT ![old] = NoBlock] ELSE strHeap
<1>3. PICK b \in IF replace THEN {x \in Blocks : freed[x] = NoBlock} ELSE {old} :
          /\ cyc' = [c EXCEPT !.buf[c.i] = b]
          /\ strHeap' = [freed EXCEPT ![b] =
                            [len |-> IF replace THEN need ELSE @.len, text |-> text]]
          /\ recent' = Remember([block |-> b, text |-> text])
  BY <1>1 DEF rd_tsprintf
<1>4. /\ cyc \in [size : {0, N}, buf : [RingSlots -> Blocks \cup {NULL}], i : RingSlots]
      /\ strHeap \in [Blocks -> HeapBlocks] /\ NULL \notin Blocks
      /\ old \in Blocks \cup {NULL} /\ old = cyc.buf[c.i]
  BY <1>2, NoBlockType DEF RingType
<1>5. text \in BlockTexts /\ text.len \in Nat /\ need \in Nat /\ need > 0
  <2>1. text.id \in TsIds /\ text.len \in TsLens /\ text = [id |-> text.id, len |-> text.len]
    BY DEF TsTexts
  <2>2. text.len \in Nat
    BY <2>1, StringsAssumption
  <2>3. text \in BlockTexts
    BY <2>1, <2>2 DEF BlockTexts
  <2> QED  BY <2>2, <2>3
<1>6. freed \in [Blocks -> HeapBlocks]
  BY <1>4, NoBlockType
<1>7. b \in Blocks
  BY <1>3, <1>4
<1>8. /\ cyc'.size = N /\ cyc'.i = c.i /\ cyc'.buf = [cyc.buf EXCEPT ![c.i] = b]
      /\ cyc' \in [size : {0, N}, buf : [RingSlots -> Blocks \cup {NULL}], i : RingSlots]
      /\ cyc'.buf[c.i] = b
      /\ \A s \in RingSlots : s # c.i => cyc'.buf[s] = cyc.buf[s]
  <2>1. cyc' = [size |-> N, buf |-> [cyc.buf EXCEPT ![c.i] = b], i |-> c.i]
    BY <1>2, <1>3
  <2> QED  BY <1>2, <1>4, <1>7, <2>1
<1>9. PICK len \in Nat :
        /\ strHeap' = [freed EXCEPT ![b] = [len |-> len, text |-> text]]
        /\ len > text.len
  <2>1. CASE replace
    <3>1. need > text.len
      BY <1>5
    <3> HIDE DEF replace, need, freed
    <3>2. strHeap' = [freed EXCEPT ![b] = [len |-> need, text |-> text]]
      BY <1>3, <2>1
    <3> QED  BY <1>5, <3>1, <3>2
  <2>2. CASE ~replace
    <3>1. b = old /\ freed = strHeap /\ ~(strHeap[old].len < need) /\ old # NULL
      BY <1>3, <2>2 DEF Unfit
    <3>2. strHeap[old].len \in Nat
      BY <1>4, <3>1 DEF HeapBlocks
    <3> HIDE DEF replace, old, freed
    <3>3. strHeap' = [freed EXCEPT ![b] = [len |-> freed[b].len, text |-> text]]
      BY <1>3, <1>6, <1>7, <2>2
    <3>4. strHeap[old].len > text.len
      BY <1>5, <3>1, <3>2 DEF need
    <3> QED  BY <3>1, <3>2, <3>3, <3>4
  <2> QED  BY <2>1, <2>2
<1>10. /\ strHeap' \in [Blocks -> HeapBlocks]
       /\ strHeap'[b] = [len |-> len, text |-> text]
       /\ \A x \in Blocks : x # b => strHeap'[x] = freed[x]
       /\ strHeap'[b] # NoBlock
  <2>1. [len |-> len, text |-> text] \in HeapBlocks
    BY <1>5 DEF HeapBlocks
  <2>2. [len |-> len, text |-> text] # NoBlock
    <3>1. len # 0
      BY <1>5, <1>9
    <3> QED  BY <3>1 DEF NoBlock
  <2> HIDE DEF freed
  <2> QED  BY <1>6, <1>7, <1>9, <2>1, <2>2
\* no other slot has b, and the block of the slot is given up only if replaced
<1>11. \A s \in RingSlots : s # c.i /\ cyc.buf[s] # NULL =>
            cyc.buf[s] \in Blocks /\ cyc.buf[s] # b /\ cyc.buf[s] # old
                /\ freed[cyc.buf[s]] = strHeap[cyc.buf[s]]
  <2> SUFFICES ASSUME NEW s \in RingSlots, s # c.i, cyc.buf[s] # NULL
               PROVE  cyc.buf[s] \in Blocks /\ cyc.buf[s] # b /\ cyc.buf[s] # old
                        /\ freed[cyc.buf[s]] = strHeap[cyc.buf[s]]
    OBVIOUS
  <2>1. cyc.buf[s] \in Blocks /\ cyc.buf[s] # old
    BY <1>2, <1>4 DEF RingOwns
  <2>2. freed[cyc.buf[s]] = strHeap[cyc.buf[s]]
    BY <1>4, <2>1
  <2>3. strHeap[cyc.buf[s]] # NoBlock
    BY <2>1 DEF RingOwns
  <2>4. cyc.buf[s] # b
    BY <1>3, <2>1, <2>2, <2>3
  <2> QED  BY <2>1, <2>2, <2>4
<1>12. RingOwns'
  <2>1. \A s, t \in RingSlots : cyc'.buf[s] = cyc'.buf[t] /\ cyc'.buf[s] # NULL => s = t
    BY <1>4, <1>8, <1>11 DEF RingOwns
  <2>2. ASSUME NEW x \in Blocks
        PROVE  strHeap'[x] # NoBlock <=> \E s \in RingSlots : cyc'.buf[s] = x
    <3>1. CASE x = b
      BY <1>2, <1>8, <1>10, <3>1
    <3>2. CASE x # b
      <4>1. strHeap'[x] = freed[x]
        BY <1>10, <3>2
      <4>2. (\E s \in RingSlots : cyc'.buf[s] = x)
                <=> \E s \in RingSlots : s # c.i /\ cyc.buf[s] = x
        BY <1>8, <3>2
      <4>3. CASE x = old
        <5>1. freed[x] = NoBlock
          BY <1>3, <1>4, <3>2, <4>3
        <5>2. \A s \in RingSlots : s # c.i => cyc.buf[s] # x
          BY <1>4, <1>11, <4>3
        <5> QED  BY <4>1, <4>2, <5>1, <5>2
      <4>4. CASE x # old
        <5>1. freed[x] = strHeap[x]
          BY <1>4, <4>4
        <5>2. strHeap[x] # NoBlock <=> \E s \in RingSlots : cyc.buf[s] = x
          BY DEF RingOwns
        <5> QED  BY <1>4, <4>1, <4>2, <4>4, <5>1, <5>2
      <4> QED  BY <4>3, <4>4
    <3> QED  BY <3>1, <3>2
  <2> QED  BY <2>1, <2>2 DEF RingOwns
<1>13. /\ recent' \in Seq(Results) /\ Len(recent') <= N
       /\ \A k \in 1..Len(recent') : RecentOK(k)'
  <2>1. PICK r \in Results : r = [block |-> b, text |-> text]
    BY <1>5, <1>7 DEF Results
  <2>2. \A s \in RingSlots : s # c.i /\ cyc.buf[s] # NULL =>
               strHeap'[cyc.buf[s]] = strHeap[cyc.buf[s]]
    BY <1>10, <1>11
  <2>3. r.block = b /\ r.text = text /\ strHeap'[b].text = text /\ strHeap'[b].len > text.len
    BY <1>9, <1>10, <2>1
  <2> HIDE DEF old, need, replace, freed, RingInv
  <2>4. recent' = Remember(r) /\ cyc'.i = c.i
    BY <1>3, <1>8, <2>1
  <2>5. \A s \in RingSlots : s # c.i => cyc'.buf[s] = cyc.buf[s]
    BY <1>8
  <2>6. r.block # NULL => /\ r.block = cyc'.buf[c.i]
                          /\ strHeap'[r.block].text = r.text
                          /\ strHeap'[r.block].len > r.text.len
    BY <1>8, <2>3
  <2> QED  BY <1>1, <2>2, <2>4, <2>5, <2>6, RecentStep
<1>14. RingEmpty'
  BY <1>8, NFacts DEF RingEmpty
<1> QED  BY <1>8, <1>10, <1>12, <1>13, <1>14 DEF RingType

\* A call that fails leaves the buffer of its slot alone.
LEMMA FailStep ==
    ASSUME RingInv, rd_tsprintf_fails
    PROVE  RingInv'
<1> USE DEF RingInv
<1>1. PICK c : c = rdstr_cyclic_get
  OBVIOUS
<1>2. /\ c.size = N /\ c.buf = cyc.buf /\ c.i \in RingSlots
      /\ c = [size |-> N, buf |-> cyc.buf, i |-> c.i]
  BY <1>1, GetFacts
<1>3. /\ cyc' = c /\ strHeap' = strHeap
      /\ recent' = Remember([block |-> NULL, text |-> NoBlock.text])
  BY <1>1 DEF rd_tsprintf_fails
<1>4. PICK r \in Results : r = [block |-> NULL, text |-> NoBlock.text]
  <2>1. NoBlock.text \in BlockTexts
    BY DEF NoBlock, BlockTexts
  <2> QED  BY <2>1 DEF Results
<1>5. /\ recent' \in Seq(Results) /\ Len(recent') <= N
      /\ \A k \in 1..Len(recent') : RecentOK(k)'
  BY <1>1, <1>2, <1>3, <1>4, RecentStep
<1>6. cyc' \in [size : {0, N}, buf : [RingSlots -> Blocks \cup {NULL}], i : RingSlots]
  BY <1>2, <1>3 DEF RingType
<1>7. RingOwns'
  BY <1>2, <1>3 DEF RingOwns
<1>8. RingEmpty'
  BY <1>2, <1>3, NFacts DEF RingEmpty
<1> QED  BY <1>3, <1>5, <1>6, <1>7, <1>8 DEF RingType

LEMMA CleanupStep ==
    ASSUME RingInv, rd_string_thread_cleanup
    PROVE  RingInv'
<1> USE DEF RingInv
<1>1. /\ strHeap' = [b \in Blocks |-> IF b \in Range(cyc.buf) THEN NoBlock ELSE strHeap[b]]
      /\ cyc' = [cyc EXCEPT !.size = 0, !.buf = EmptyRing]
      /\ recent' = <<>>
  BY DEF rd_string_thread_cleanup
<1>2. /\ cyc \in [size : {0, N}, buf : [RingSlots -> Blocks \cup {NULL}], i : RingSlots]
      /\ strHeap \in [Blocks -> HeapBlocks]
  BY DEF RingType
<1>3. /\ cyc'.size = 0 /\ cyc'.buf = EmptyRing
      /\ cyc' \in [size : {0, N}, buf : [RingSlots -> Blocks \cup {NULL}], i : RingSlots]
  BY <1>1, <1>2, NoBlockType
<1>4. \A b \in Blocks : strHeap'[b] = NoBlock
  <2>1. ASSUME NEW b \in Blocks, strHeap[b] # NoBlock PROVE b \in Range(cyc.buf)
    <3>1. PICK s \in RingSlots : cyc.buf[s] = b
      BY <2>1 DEF RingOwns
    <3> QED  BY <1>2, <3>1 DEF Range
  <2> QED  BY <1>1, <2>1
<1>5. strHeap' \in [Blocks -> HeapBlocks]
  BY <1>1, <1>2, NoBlockType
<1>6. recent' \in Seq(Results) /\ Len(recent') = 0
  BY <1>1, EmptySeq
<1>7. RingOwns'
  BY <1>3, <1>4, NoBlockType DEF RingOwns, EmptyRing
<1>8. \A k \in 1..Len(recent') : RecentOK(k)'
  BY <1>6
<1> QED  BY <1>1, <1>3, <1>5, <1>6, <1>7, <1>8, NFacts DEF RingType, RingEmpty

LEMMA RingStutter ==
    ASSUME RingInv, UNCHANGED ringVars
    PROVE  RingInv'
  BY DEF RingInv, RingType, RingEmpty, RingOwns, RecentOK, ringVars

LEMMA RingInvariant == StrSpec => []RingInv
<1>1. RingInv /\ [RingNext \/ ScanNext]_strVars => RingInv'
  <2> SUFFICES ASSUME RingInv, [RingNext \/ ScanNext]_strVars PROVE RingInv'
    OBVIOUS
  <2>1. CASE RingNext
    BY <2>1, FormatStep, FailStep, CleanupStep DEF RingNext
  <2>2. CASE ScanNext
    <3>1. UNCHANGED ringVars
      BY <2>2 DEF ScanNext, Scan, Compare
    <3> QED  BY <3>1, RingStutter
  <2>3. CASE UNCHANGED strVars
    BY <2>3, RingStutter DEF strVars
  <2> QED  BY <2>1, <2>2, <2>3
<1> QED  BY <1>1, RingInitInv, PTL DEF StrSpec

\* What rdstring.h promises of rd_tsprintf(), for a ring of any size: the last
\* RD_TSPRINTF_BUFCNT strings stay allocated, long enough and unchanged, and
\* the allocated blocks are those of the ring.
THEOREM StringsStayIntact == StrSpec => []RecentStringsIntact
<1>1. RingInv => RecentStringsIntact
  <2> SUFFICES ASSUME RingInv PROVE RecentStringsIntact
    OBVIOUS
  <2> USE DEF RingInv
  <2>1. DOMAIN recent = 1..Len(recent)
    BY LenProperties DEF RingType
  <2>2. ASSUME NEW k \in DOMAIN recent, recent[k].block # NULL
        PROVE  /\ strHeap[recent[k].block].text = recent[k].text
               /\ strHeap[recent[k].block].len > strHeap[recent[k].block].text.len
    BY <2>1, <2>2 DEF RecentOK
  <2>3. {b \in Blocks : strHeap[b] # NoBlock} = Range(cyc.buf) \ {NULL}
    <3>1. cyc.buf \in [RingSlots -> Blocks \cup {NULL}] /\ NULL \notin Blocks
      BY NoBlockType DEF RingType
    <3>2. Range(cyc.buf) = {cyc.buf[s] : s \in RingSlots}
      BY <3>1 DEF Range
    <3> QED  BY <3>1, <3>2 DEF RingOwns
  <2> QED  BY <2>2, <2>3 DEF RecentStringsIntact
<1> QED  BY <1>1, RingInvariant, PTL

-----------------------------------------------------------------------------
(* Least and greatest numbers.                                             *)

LEMMA LeastExists ==
    ASSUME NEW T \in SUBSET Nat, T # {}
    PROVE  \E x \in T : \A y \in T : x <= y
<1>1. PICK x \in T : \A y \in T : ~(<<y, x>> \in OpToRel(<, Nat))
  BY WFMin, NatLessThanWellFounded
<1>2. \A y \in T : ~(y < x)
  BY <1>1 DEF OpToRel
<1> QED  BY <1>2

LEMMA MinIs ==
    ASSUME NEW T \in SUBSET Int, NEW m \in T, \A y \in T : m <= y
    PROVE  Min(T) = m
<1>1. \A x \in T : (\A y \in T : x <= y) => x = m
  OBVIOUS
<1> QED  BY <1>1 DEF Min

LEMMA MaxIs ==
    ASSUME NEW T \in SUBSET Int, NEW m \in T, \A y \in T : y <= m
    PROVE  Max(T) = m
<1>1. \A x \in T : (\A y \in T : x >= y) => x = m
  OBVIOUS
<1>2. \A y \in T : m >= y
  OBVIOUS
<1> QED  BY <1>1, <1>2 DEF Max

LEMMA MinOfTwo ==
    ASSUME NEW a \in Nat, NEW b \in Nat
    PROVE  /\ Min({a, b}) \in Nat /\ Min({a, b}) <= a /\ Min({a, b}) <= b
           /\ Min({a, b}) = a \/ Min({a, b}) = b
<1>1. CASE a <= b
  <2>1. PICK T \in SUBSET Int, m \in Int : T = {a, b} /\ m = a /\ m \in T
    <3>1. {a, b} \in SUBSET Int /\ a \in Int /\ a \in {a, b}
      OBVIOUS
    <3> QED  BY <3>1
  <2>2. \A y \in T : m <= y
    BY <1>1, <2>1
  <2>3. Min(T) = m
    BY <2>1, <2>2, MinIs
  <2> QED  BY <1>1, <2>1, <2>3
<1>2. CASE ~(a <= b)
  <2>1. PICK T \in SUBSET Int, m \in Int : T = {a, b} /\ m = b /\ m \in T
    <3>1. {a, b} \in SUBSET Int /\ b \in Int /\ b \in {a, b}
      OBVIOUS
    <3> QED  BY <3>1
  <2>2. \A y \in T : m <= y
    BY <1>2, <2>1
  <2>3. Min(T) = m
    BY <2>1, <2>2, MinIs
  <2> QED  BY <1>2, <2>1, <2>3
<1> QED  BY <1>1, <1>2

-----------------------------------------------------------------------------
(* Prefixes.                                                               *)

LEMMA PrefixFacts ==
    ASSUME NEW C, NEW s \in Seq(C), NEW l \in 0..Len(s)
    PROVE  /\ SubSeq(s, 1, l) \in Seq(C) /\ Len(SubSeq(s, 1, l)) = l
           /\ DOMAIN SubSeq(s, 1, l) = 1..l
           /\ \A i \in 1..l : SubSeq(s, 1, l)[i] = s[i]
<1>1. PICK n \in Nat : n = Len(s) /\ \A i \in 1..n : s[i] \in C
  BY LenProperties, ElementOfSeq
<1>2. l \in Nat /\ l \in Int /\ l <= n
  BY <1>1
<1>3. PICK one \in Int : one = 1
  OBVIOUS
<1>4. \A i \in one..l : s[i] \in C
  BY <1>1, <1>2, <1>3
<1>5. PICK p : p = SubSeq(s, one, l)
  OBVIOUS
<1>6. /\ p \in Seq(C)
      /\ Len(p) = IF one <= l THEN l - one + 1 ELSE 0
      /\ \A i \in 1..l - one + 1 : p[i] = s[one + i - 1]
  BY <1>2, <1>4, <1>5, SubSeqProperties
<1>7. Len(p) = l
  BY <1>2, <1>3, <1>6
<1>8. l - one + 1 = l /\ \A i \in 1..l : one + i - 1 = i
  BY <1>2, <1>3
<1>9. \A i \in 1..l : p[i] = s[i]
  BY <1>6, <1>8
<1>10. DOMAIN p = 1..l
  BY <1>6, <1>7, LenProperties
<1> QED  BY <1>3, <1>5, <1>6, <1>7, <1>9, <1>10

\* The first n of text are in the set, and no more.
SpanIs(text, set, n) ==
    /\ n \in 0..Len(text)
    /\ \A i \in 1..n : text[i] \in set
    /\ n = Len(text) \/ text[n + 1] \notin set

LEMMA LongestSpan ==
    ASSUME NEW C, NEW text \in Seq(C), NEW set, NEW n, SpanIs(text, set, n)
    PROVE  Max({Len(p) : p \in Spans(text, set)}) = n
<1>1. PICK m \in Nat : m = Len(text)
  BY LenProperties
<1>2. n \in 0..m /\ n \in Nat /\ (\A i \in 1..n : text[i] \in set) /\ (n = m \/ text[n + 1] \notin set)
  BY <1>1 DEF SpanIs
<1>3. PICK T : T = {Len(p) : p \in Spans(text, set)}
  OBVIOUS
<1>4. ASSUME NEW p \in Spans(text, set) PROVE Len(p) \in Int /\ Len(p) <= n
  <2>1. PICK l \in 0..m : p = SubSeq(text, 1, l)
    BY <1>1 DEF Spans, Prefixes
  <2>2. Len(p) = l /\ DOMAIN p = 1..l /\ \A i \in 1..l : p[i] = text[i]
    BY <1>1, <2>1, PrefixFacts
  <2>3. \A i \in 1..l : text[i] \in set
    BY <2>2 DEF Spans, Range
  <2>4. SUFFICES ASSUME ~(l <= n) PROVE FALSE
    BY <2>2
  <2>5. n + 1 \in 1..l /\ n # m
    BY <1>2, <2>4
  <2> QED  BY <1>2, <2>3, <2>5
<1>5. n \in T
  <2>1. PICK p : p = SubSeq(text, 1, n)
    OBVIOUS
  <2>2. Len(p) = n /\ DOMAIN p = 1..n /\ \A i \in 1..n : p[i] = text[i]
    BY <1>1, <1>2, <2>1, PrefixFacts
  <2>3. p \in Prefixes(text)
    BY <1>1, <1>2, <2>1 DEF Prefixes
  <2>4. Range(p) \subseteq set
    BY <1>2, <2>2 DEF Range
  <2> QED  BY <1>3, <2>2, <2>3, <2>4 DEF Spans
<1>6. T \in SUBSET Int /\ \A y \in T : y <= n
  BY <1>3, <1>4
<1>7. Max(T) = n
  BY <1>5, <1>6, MaxIs
<1> QED  BY <1>3, <1>7

\* The first n of s and t are the same, and no more.
CommonIs(s, t, n) ==
    /\ n \in 0..Len(s) /\ n \in 0..Len(t)
    /\ \A i \in 1..n : s[i] = t[i]
    /\ n = Len(s) \/ n = Len(t) \/ s[n + 1] # t[n + 1]

LEMMA LongestCommon ==
    ASSUME NEW C, NEW s \in Seq(C), NEW t \in Seq(C), NEW n, CommonIs(s, t, n)
    PROVE  Max({Len(p) : p \in Prefixes(s) \cap Prefixes(t)}) = n
<1>1. PICK a \in Nat, b \in Nat : a = Len(s) /\ b = Len(t)
  BY LenProperties
<1>2. /\ n \in 0..a /\ n \in 0..b /\ n \in Nat /\ (\A i \in 1..n : s[i] = t[i])
      /\ n = a \/ n = b \/ s[n + 1] # t[n + 1]
  BY <1>1 DEF CommonIs
<1>3. PICK T : T = {Len(p) : p \in Prefixes(s) \cap Prefixes(t)}
  OBVIOUS
<1>4. ASSUME NEW p \in Prefixes(s) \cap Prefixes(t) PROVE Len(p) \in Int /\ Len(p) <= n
  <2>1. PICK l \in 0..a : p = SubSeq(s, 1, l)
    BY <1>1 DEF Prefixes
  <2>2. PICK k \in 0..b : p = SubSeq(t, 1, k)
    BY <1>1 DEF Prefixes
  <2>3. Len(p) = l /\ \A i \in 1..l : p[i] = s[i]
    BY <1>1, <2>1, PrefixFacts
  <2>4. Len(p) = k /\ \A i \in 1..k : p[i] = t[i]
    BY <1>1, <2>2, PrefixFacts
  <2>5. k = l /\ \A i \in 1..l : s[i] = t[i]
    BY <2>3, <2>4
  <2>6. SUFFICES ASSUME ~(l <= n) PROVE FALSE
    BY <2>3
  <2>7. n + 1 \in 1..l /\ n # a /\ n # b
    BY <1>2, <2>5, <2>6
  <2> QED  BY <1>2, <2>5, <2>7
<1>5. n \in T
  <2>1. PICK p, q : p = SubSeq(s, 1, n) /\ q = SubSeq(t, 1, n)
    OBVIOUS
  <2>2. p \in Seq(C) /\ Len(p) = n /\ DOMAIN p = 1..n /\ \A i \in 1..n : p[i] = s[i]
    BY <1>1, <1>2, <2>1, PrefixFacts
  <2>3. q \in Seq(C) /\ Len(q) = n /\ DOMAIN q = 1..n /\ \A i \in 1..n : q[i] = t[i]
    BY <1>1, <1>2, <2>1, PrefixFacts
  <2>4. p = q
    BY <1>2, <2>2, <2>3, SeqEqual
  <2>5. p \in Prefixes(s) /\ q \in Prefixes(t)
    BY <1>1, <1>2, <2>1 DEF Prefixes
  <2> QED  BY <1>3, <2>2, <2>4, <2>5
<1>6. T \in SUBSET Int /\ \A y \in T : y <= n
  BY <1>3, <1>4
<1>7. Max(T) = n
  BY <1>5, <1>6, MaxIs
<1> QED  BY <1>3, <1>7

-----------------------------------------------------------------------------
(* Scans.                                                                  *)

Chars == ScanChars \cup {0}

\* What a scan of m sees ends after e characters.
EndIs(m, size, e) ==
    /\ e \in 0..Len(m)
    /\ \A i \in 1..e : m[i] # 0
    /\ size = -1 \/ e <= size
    /\ (size = -1 \/ e < size) => e < Len(m) /\ m[e + 1] = 0

LEMMA EndExists ==
    ASSUME NEW m \in Seq(Chars), NEW size \in SizesOf(m)
    PROVE  \E e \in Nat : EndIs(m, size, e)
<1>1. PICK n \in Nat : n = Len(m) /\ DOMAIN m = 1..n
  BY LenProperties
<1>2. CASE size = -1
  <2>1. 0 \in Range(m)
    <3>1. size \notin 0..Len(m)
      BY <1>1, <1>2
    <3> QED  BY <3>1 DEF SizesOf
  <2>2. PICK T \in SUBSET Nat : T = {i \in 1..n : m[i] = 0}
    <3>1. {i \in 1..n : m[i] = 0} \in SUBSET Nat
      OBVIOUS
    <3> QED  BY <3>1
  <2>3. T # {}
    BY <1>1, <2>1, <2>2 DEF Range
  <2>4. PICK k \in T : \A y \in T : k <= y
    BY <2>3, LeastExists
  <2>5. k \in 1..n /\ m[k] = 0
    BY <2>2
  <2>6. PICK e \in Nat : e = k - 1 /\ e + 1 = k /\ e < n /\ e \in 0..n
    <3>1. k - 1 \in Nat /\ (k - 1) + 1 = k /\ k - 1 < n /\ k - 1 \in 0..n
      BY <2>5
    <3> QED  BY <3>1
  <2>7. ASSUME NEW i \in 1..e PROVE m[i] # 0
    <3>1. i \in 1..n /\ ~(k <= i)
      BY <2>5, <2>6
    <3> QED  BY <2>2, <2>4, <3>1
  <2>8. EndIs(m, size, e)
    BY <1>1, <1>2, <2>5, <2>6, <2>7 DEF EndIs
  <2> QED  BY <2>8
<1>3. CASE size # -1
  <2>1. size \in 0..n /\ size \in Nat
    <3>1. size \in 0..Len(m)
      BY <1>3 DEF SizesOf
    <3> QED  BY <1>1, <3>1
  <2>2. PICK T \in SUBSET Nat : T = {i \in 0..size : i = size \/ m[i + 1] = 0}
    <3>1. {i \in 0..size : i = size \/ m[i + 1] = 0} \in SUBSET Nat
      OBVIOUS
    <3> QED  BY <3>1
  <2>3. size \in T
    BY <2>1, <2>2
  <2>4. PICK e \in T : \A y \in T : e <= y
    BY <2>3, LeastExists
  <2>5. e \in 0..size /\ e \in 0..n /\ e \in Nat /\ e <= size /\ (e < size => e < n /\ m[e + 1] = 0)
    BY <2>1, <2>2
  <2>6. ASSUME NEW i \in 1..e PROVE m[i] # 0
    <3>1. i - 1 \in 0..size /\ ~(e <= i - 1) /\ (i - 1) + 1 = i
      BY <2>1, <2>5
    <3>2. i - 1 \notin T
      BY <2>4, <3>1
    <3> QED  BY <2>2, <3>1, <3>2
  <2>7. EndIs(m, size, e)
    BY <1>1, <1>3, <2>5, <2>6 DEF EndIs
  <2> QED  BY <2>5, <2>7
<1> QED  BY <1>2, <1>3

LEMMA SeenIs ==
    ASSUME NEW m \in Seq(Chars), NEW size \in SizesOf(m), NEW e \in Nat, EndIs(m, size, e)
    PROVE  Seen(m, size) = SubSeq(m, 1, e)
<1>1. PICK len \in Nat : len = Len(m)
  BY LenProperties
<1>2. /\ e \in 0..len /\ (\A i \in 1..e : m[i] # 0) /\ (size = -1 \/ e <= size)
      /\ (size = -1 \/ e < size) => e < len /\ m[e + 1] = 0
  BY <1>1 DEF EndIs
<1>3. PICK n \in Nat : n = (IF size = -1 THEN len ELSE size) /\ e <= n
  <2>1. size # -1 => size \in Nat
    BY <1>1 DEF SizesOf
  <2>2. CASE size = -1
    BY <1>2, <2>2
  <2>3. CASE size # -1
    BY <1>2, <2>1, <2>3
  <2> QED  BY <2>2, <2>3
<1>4. PICK T : T = {n} \cup {i - 1 : i \in {i \in 1..len : m[i] = 0}}
  OBVIOUS
<1>5. \A y \in T : y \in Int /\ e <= y
  <2>1. ASSUME NEW i \in 1..len, m[i] = 0 PROVE i - 1 \in Int /\ e <= i - 1
    <3>1. ~(i \in 1..e)
      BY <1>2, <2>1
    <3> QED  BY <3>1
  <2> QED  BY <1>3, <1>4, <2>1
<1>6. e \in T
  <2>1. CASE e = n
    BY <1>4, <2>1
  <2>2. CASE e # n
    <3>1. e < len /\ m[e + 1] = 0
      BY <1>2, <1>3, <2>2
    <3>2. e + 1 \in 1..len /\ (e + 1) - 1 = e
      BY <3>1
    <3> QED  BY <1>4, <3>1, <3>2
  <2> QED  BY <2>1, <2>2
<1>7. T \in SUBSET Int /\ \A y \in T : e <= y
  BY <1>5
<1>8. Min(T) = e
  BY <1>6, <1>7, MinIs
<1>9. Seen(m, size) = SubSeq(m, 1, Min(T))
  BY <1>1, <1>3, <1>4 DEF Seen
<1> QED  BY <1>8, <1>9

\* The scan of what ends after e stops after l characters.
LeftIs(m, e, stops, l) ==
    /\ l \in 0..e
    /\ \A i \in 1..l : m[i] \notin stops
    /\ l = e \/ m[l + 1] \in stops

LEMMA LeftExists ==
    ASSUME NEW m, NEW e \in Nat, NEW stops
    PROVE  \E l \in Nat : LeftIs(m, e, stops, l)
<1>1. PICK T \in SUBSET Nat : T = {i \in 0..e : i = e \/ m[i + 1] \in stops}
  <2>1. {i \in 0..e : i = e \/ m[i + 1] \in stops} \in SUBSET Nat
    OBVIOUS
  <2> QED  BY <2>1
<1>2. e \in T
  BY <1>1
<1>3. PICK l \in T : \A y \in T : l <= y
  BY <1>2, LeastExists
<1>4. l \in 0..e /\ l \in Nat /\ (l = e \/ m[l + 1] \in stops)
  BY <1>1
<1>5. ASSUME NEW i \in 1..l PROVE m[i] \notin stops
  <2>1. i - 1 \in 0..e /\ ~(l <= i - 1) /\ (i - 1) + 1 = i
    BY <1>4
  <2>2. i - 1 \notin T
    BY <1>3, <2>1
  <2> QED  BY <1>1, <2>1, <2>2
<1> QED  BY <1>4, <1>5 DEF LeftIs

LEMMA LeftFacts ==
    ASSUME NEW m \in Seq(Chars), NEW size \in SizesOf(m), NEW e \in Nat, EndIs(m, size, e),
           NEW stops \in SUBSET ScanChars, NEW l \in Nat, LeftIs(m, e, stops, l)
    PROVE  /\ Left(m, size, stops) = l
           /\ (size = -1 \/ l < size) /\ m[l + 1] # 0 <=> l < e
<1>1. PICK len \in Nat : len = Len(m)
  BY LenProperties
<1>2. /\ e \in 0..len /\ (\A i \in 1..e : m[i] # 0) /\ (size = -1 \/ e <= size)
      /\ (size = -1 \/ e < size) => e < len /\ m[e + 1] = 0
  BY <1>1 DEF EndIs
<1>3. l \in 0..e /\ (\A i \in 1..l : m[i] \notin stops) /\ (l = e \/ m[l + 1] \in stops)
  BY DEF LeftIs
<1>4. size = -1 \/ size \in Nat
  BY <1>1 DEF SizesOf
<1> DEFINE In(i) == size = -1 \/ i < size
<1> DEFINE Halt(i) == m[i + 1] \in stops \cup {0}
<1> DEFINE P(i) == (In(i) => Halt(i)) /\ \A j \in 0..i - 1 : In(j) /\ ~Halt(j)
<1>5. \A j \in 0..len : j < e => In(j)
  BY <1>2, <1>4
<1>6. \A j \in 0..len : j < l => ~Halt(j)
  <2>1. ASSUME NEW j \in 0..len, j < l PROVE ~Halt(j)
    <3>1. j + 1 \in 1..l /\ j + 1 \in 1..e
      BY <1>3, <2>1
    <3> QED  BY <1>2, <1>3, <3>1
  <2> QED  BY <2>1
<1>7. In(l) => Halt(l)
  <2>1. CASE l = e
    BY <1>2, <2>1
  <2>2. CASE l # e
    BY <1>3, <2>2
  <2> QED  BY <2>1, <2>2
<1>8. l \in 0..len /\ l <= e
  BY <1>2, <1>3
<1>9. \A i \in 0..len : In(i) \in BOOLEAN /\ Halt(i) \in BOOLEAN
  OBVIOUS
<1> HIDE DEF In, Halt
<1>10. P(l)
  <2>1. \A j \in 0..l - 1 : j \in 0..len /\ j < l /\ j < e
    BY <1>8
  <2> QED  BY <1>5, <1>6, <1>7, <2>1
<1>11. ASSUME NEW i \in 0..len, P(i) PROVE i = l
  <2>1. ~(l < i)
    <3>1. SUFFICES ASSUME l < i PROVE FALSE
      OBVIOUS
    <3>2. l \in 0..i - 1
      BY <3>1
    <3> QED  BY <1>7, <1>11, <3>2
  <2>2. ~(i < l)
    <3>1. SUFFICES ASSUME i < l PROVE FALSE
      OBVIOUS
    <3>2. i < e
      BY <1>8, <3>1
    <3> QED  BY <1>5, <1>6, <1>11, <3>1, <3>2
  <2> QED  BY <2>1, <2>2
<1>12. Left(m, size, stops) = CHOOSE i \in 0..len : P(i)
  BY <1>1 DEF Left, In, Halt
<1>13. Left(m, size, stops) = l
  <2> HIDE DEF P
  <2> QED  BY <1>8, <1>10, <1>11, <1>12
<1>14. (size = -1 \/ l < size) /\ m[l + 1] # 0 <=> l < e
  <2>1. CASE l = e
    BY <1>2, <2>1
  <2>2. CASE l # e
    <3>1. l < e /\ l + 1 \in 1..e
      BY <1>8, <2>2
    <3>2. In(l)
      BY <1>5, <1>8, <3>1
    <3> QED  BY <1>2, <3>1, <3>2 DEF In
  <2> QED  BY <2>1, <2>2
<1> QED  BY <1>13, <1>14

\* The results of one Scan, as ScansMatchReference has them.
ScanMatches(m, size, set, chrs, eol, spn, cspn) ==
    LET text == Seen(m, size)
    IN /\ spn \in Possible(text, set)
       /\ cspn \in Possible(text, ScanChars \ set)
       /\ eol = Longest(text, ScanChars \ Mapped(set))
       /\ chrs = IF eol < Len(text) THEN eol ELSE NULL

\* A scan leaves where the longest prefix without a stop ends.
LEMMA LeftIsLongest ==
    ASSUME NEW m \in Seq(Chars), NEW size \in SizesOf(m), NEW stops \in SUBSET ScanChars
    PROVE  \E l \in Nat :
               /\ Left(m, size, stops) = l /\ Longest(Seen(m, size), ScanChars \ stops) = l
               /\ (size = -1 \/ l < size) /\ m[l + 1] # 0 <=> l < Len(Seen(m, size))
<1>1. PICK e \in Nat : EndIs(m, size, e)
  BY EndExists
<1>2. PICK text : text = Seen(m, size)
  OBVIOUS
<1>3. /\ text \in Seq(Chars) /\ Len(text) = e
      /\ \A i \in 1..e : text[i] = m[i] /\ text[i] \in ScanChars
  <2>1. e \in 0..Len(m) /\ \A i \in 1..e : m[i] # 0
    BY <1>1 DEF EndIs
  <2>2. text = SubSeq(m, 1, e)
    BY <1>1, <1>2, SeenIs
  <2>3. text \in Seq(Chars) /\ Len(text) = e /\ \A i \in 1..e : text[i] = m[i]
    BY <2>1, <2>2, PrefixFacts
  <2>4. \A i \in 1..e : text[i] \in Chars
    BY <2>3, ElementOfSeq
  <2> QED  BY <2>1, <2>3, <2>4 DEF Chars
<1>4. PICK out \in SUBSET ScanChars : out = ScanChars \ stops
  OBVIOUS
<1>5. PICK l \in Nat : LeftIs(m, e, stops, l)
  BY LeftExists
<1>6. Left(m, size, stops) = l /\ ((size = -1 \/ l < size) /\ m[l + 1] # 0 <=> l < e)
  BY <1>1, <1>5, LeftFacts
<1>7. SpanIs(text, out, l)
  <2>1. l \in 0..e /\ (\A i \in 1..l : m[i] \notin stops) /\ (l = e \/ m[l + 1] \in stops)
    BY <1>5 DEF LeftIs
  <2>2. \A i \in 1..l : i \in 1..e
    BY <2>1
  <2>3. \A i \in 1..l : text[i] \in out
    BY <1>3, <1>4, <2>1, <2>2
  <2>4. l = e \/ text[l + 1] \notin out
    <3>1. l # e => l + 1 \in 1..e
      BY <2>1
    <3> QED  BY <1>3, <1>4, <2>1, <3>1
  <2> QED  BY <1>3, <2>1, <2>3, <2>4 DEF SpanIs
<1>8. Longest(text, out) = l
  <2>1. Max({Len(p) : p \in Spans(text, out)}) = l
    BY <1>3, <1>7, LongestSpan
  <2> QED  BY <2>1 DEF Longest
<1> QED  BY <1>2, <1>3, <1>4, <1>6, <1>8

\* What a span counts, with the high characters that are not stray.
LEMMA StopsAndSpans ==
    ASSUME NEW set \in SUBSET ScanChars, NEW stray \in SUBSET HighChars
    PROVE  /\ stray \cup Mapped(ScanChars \ Mapped(set)) \in SUBSET ScanChars
           /\ ScanChars \ (stray \cup Mapped(ScanChars \ Mapped(set))) =
                  Mapped(set) \cup (HighChars \ stray)
           /\ stray \cup Mapped(Mapped(set)) \in SUBSET ScanChars
           /\ ScanChars \ (stray \cup Mapped(Mapped(set))) =
                  Mapped(ScanChars \ set) \cup (HighChars \ stray)
           /\ Mapped(set) \in SUBSET ScanChars
  BY DEF Mapped, HighChars

LEMMA ScanRight ==
    ASSUME NEW m \in Seq(Chars), NEW size \in SizesOf(m), NEW set \in SUBSET ScanChars,
           NEW stray \in SUBSET HighChars, NEW cstray \in SUBSET HighChars
    PROVE  ScanMatches(m, size, set, rd_strnchrs(m, size, set, FALSE),
                rd_strnchrs(m, size, set, TRUE), rd_strnspn(m, size, set, stray),
                rd_strncspn(m, size, set, cstray))
<1>1. PICK text : text = Seen(m, size)
  OBVIOUS
<1>2. PICK spn, cspn : spn = rd_strnspn(m, size, set, stray) /\ cspn = rd_strncspn(m, size, set, cstray)
  OBVIOUS
<1>3. spn \in Possible(text, set)
  <2>1. PICK stops \in SUBSET ScanChars : stops = stray \cup Mapped(ScanChars \ Mapped(set))
    BY StopsAndSpans
  <2>2. Left(m, size, stops) = Longest(text, ScanChars \ stops)
    BY <1>1, LeftIsLongest
  <2>3. ScanChars \ stops = Mapped(set) \cup (HighChars \ stray)
    BY <2>1, StopsAndSpans
  <2>4. spn = Longest(text, Mapped(set) \cup (HighChars \ stray))
    BY <1>2, <2>1, <2>2, <2>3 DEF rd_strnspn, rd_strnspn_map
  <2>5. HighChars \ stray \in SUBSET HighChars
    OBVIOUS
  <2> QED  BY <2>4, <2>5 DEF Possible
<1>4. cspn \in Possible(text, ScanChars \ set)
  <2>1. PICK stops \in SUBSET ScanChars : stops = cstray \cup Mapped(Mapped(set))
    BY StopsAndSpans
  <2>2. Left(m, size, stops) = Longest(text, ScanChars \ stops)
    BY <1>1, LeftIsLongest
  <2>3. ScanChars \ stops = Mapped(ScanChars \ set) \cup (HighChars \ cstray)
    BY <2>1, StopsAndSpans
  <2>4. cspn = Longest(text, Mapped(ScanChars \ set) \cup (HighChars \ cstray))
    BY <1>2, <2>1, <2>2, <2>3 DEF rd_strncspn, rd_strnspn_map
  <2>5. HighChars \ cstray \in SUBSET HighChars
    OBVIOUS
  <2> QED  BY <2>4, <2>5 DEF Possible
<1>5. PICK stops \in SUBSET ScanChars : stops = Mapped(set)
  BY StopsAndSpans
<1>6. PICK l \in Nat :
          /\ Left(m, size, stops) = l /\ Longest(text, ScanChars \ stops) = l
          /\ (size = -1 \/ l < size) /\ m[l + 1] # 0 <=> l < Len(text)
  BY <1>1, LeftIsLongest
<1>7. rd_strnchrs(m, size, set, TRUE) = l
  BY <1>5, <1>6 DEF rd_strnchrs
<1>8. rd_strnchrs(m, size, set, FALSE) = IF l < Len(text) THEN l ELSE NULL
  BY <1>5, <1>6 DEF rd_strnchrs
<1> QED  BY <1>1, <1>2, <1>3, <1>4, <1>5, <1>6, <1>7, <1>8 DEF ScanMatches

-----------------------------------------------------------------------------
(* Comparisons.                                                            *)

LEMMA CommonExists ==
    ASSUME NEW s \in Seq(ScanChars), NEW t \in Seq(ScanChars)
    PROVE  \E n \in Nat : CommonIs(s, t, n)
<1>1. PICK a \in Nat, b \in Nat : a = Len(s) /\ b = Len(t)
  BY LenProperties
<1>2. PICK c \in Nat : c <= a /\ c <= b /\ (c = a \/ c = b)
  <2>1. a <= b \/ b <= a
    OBVIOUS
  <2> QED  BY <2>1
<1>3. PICK T \in SUBSET Nat : T = {i \in 0..c : i = c \/ s[i + 1] # t[i + 1]}
  <2>1. {i \in 0..c : i = c \/ s[i + 1] # t[i + 1]} \in SUBSET Nat
    OBVIOUS
  <2> QED  BY <2>1
<1>4. c \in T
  BY <1>3
<1>5. PICK n \in T : \A y \in T : n <= y
  BY <1>4, LeastExists
<1>6. n \in 0..c /\ n \in Nat /\ (n = c \/ s[n + 1] # t[n + 1])
  BY <1>3
<1>7. ASSUME NEW i \in 1..n PROVE s[i] = t[i]
  <2>1. i - 1 \in 0..c /\ ~(n <= i - 1) /\ (i - 1) + 1 = i
    BY <1>6
  <2>2. i - 1 \notin T
    BY <1>5, <2>1
  <2> QED  BY <1>3, <2>1, <2>2
<1>8. n \in 0..a /\ n \in 0..b
  BY <1>2, <1>6
<1> QED  BY <1>1, <1>2, <1>6, <1>7, <1>8 DEF CommonIs

\* What follows the first n characters, as ScansMatchReference has it.
Following(u, n) == IF n < Len(u) THEN u[n + 1] ELSE 0

\* What the longest common prefix says of two strings.
Compared(s, t, n) ==
    /\ n \in Nat /\ CommonIs(s, t, n)
    /\ s = t <=> n = Len(s) /\ n = Len(t)
    /\ Following(s, n) \in Nat /\ Following(t, n) \in Nat
    /\ Following(s, n) = Following(t, n) <=> s = t

LEMMA ComparedFacts ==
    ASSUME NEW s \in Seq(ScanChars), NEW t \in Seq(ScanChars), NEW n \in Nat, CommonIs(s, t, n)
    PROVE  Compared(s, t, n)
<1>1. PICK a \in Nat, b \in Nat : a = Len(s) /\ b = Len(t)
  BY LenProperties
<1>2. /\ n \in 0..a /\ n \in 0..b /\ (\A i \in 1..n : s[i] = t[i])
      /\ n = a \/ n = b \/ s[n + 1] # t[n + 1]
  BY <1>1 DEF CommonIs
<1>3. /\ \A i \in 1..a : s[i] \in Nat \ {0}
      /\ \A i \in 1..b : t[i] \in Nat \ {0}
  BY <1>1, ElementOfSeq, StringsAssumption
<1>4. n = a /\ n = b => s = t
  <2>1. SUFFICES ASSUME n = a, n = b PROVE s = t
    OBVIOUS
  <2>2. Len(s) = Len(t) /\ \A i \in 1..Len(s) : s[i] = t[i]
    BY <1>1, <1>2, <2>1
  <2> QED  BY <2>2, SeqEqual
<1>5. s = t => n = a /\ n = b
  BY <1>1, <1>2
<1>6. n < a => n + 1 \in 1..a
  BY <1>2
<1>7. n < b => n + 1 \in 1..b
  BY <1>2
<1>8. Following(s, n) \in Nat /\ (Following(s, n) = 0 <=> n = a)
  <2>1. CASE n < a
    <3>1. Following(s, n) = s[n + 1]
      BY <1>1, <2>1 DEF Following
    <3> QED  BY <1>3, <1>6, <2>1, <3>1
  <2>2. CASE ~(n < a)
    <3>1. Following(s, n) = 0 /\ n = a
      BY <1>1, <1>2, <2>2 DEF Following
    <3> QED  BY <3>1
  <2> QED  BY <2>1, <2>2
<1>9. Following(t, n) \in Nat /\ (Following(t, n) = 0 <=> n = b)
  <2>1. CASE n < b
    <3>1. Following(t, n) = t[n + 1]
      BY <1>1, <2>1 DEF Following
    <3> QED  BY <1>3, <1>7, <2>1, <3>1
  <2>2. CASE ~(n < b)
    <3>1. Following(t, n) = 0 /\ n = b
      BY <1>1, <1>2, <2>2 DEF Following
    <3> QED  BY <3>1
  <2> QED  BY <2>1, <2>2
<1>10. Following(s, n) = Following(t, n) => s = t
  <2>1. SUFFICES ASSUME Following(s, n) = Following(t, n) PROVE s = t
    OBVIOUS
  <2>2. n = a <=> n = b
    BY <1>8, <1>9, <2>1
  <2>3. CASE n = a
    BY <1>4, <2>2, <2>3
  <2>4. CASE n # a
    <3>1. n # b /\ n < a /\ n < b
      BY <1>2, <2>2, <2>4
    <3>2. Following(s, n) = s[n + 1] /\ Following(t, n) = t[n + 1]
      BY <1>1, <3>1 DEF Following
    <3>3. s[n + 1] # t[n + 1]
      BY <1>2, <3>1
    <3> QED  BY <2>1, <3>2, <3>3
  <2> QED  BY <2>3, <2>4
<1>11. s = t => Following(s, n) = Following(t, n)
  OBVIOUS
<1>12. s = t <=> n = Len(s) /\ n = Len(t)
  BY <1>1, <1>4, <1>5
<1> QED  BY <1>8, <1>9, <1>10, <1>11, <1>12 DEF Compared

\* The lengths, the common prefix and what both have at a place.
LEMMA ComparedParts ==
    ASSUME NEW s \in Seq(ScanChars), NEW t \in Seq(ScanChars), NEW n, Compared(s, t, n),
           NEW a \in Nat, a = Len(s), NEW b \in Nat, b = Len(t)
    PROVE  /\ n \in 0..a /\ n \in 0..b /\ (\A i \in 1..n : s[i] = t[i])
           /\ n = a \/ n = b \/ s[n + 1] # t[n + 1]
           /\ n \in Nat /\ (s = t <=> n = a /\ n = b)
           /\ \A i \in 1..a : s[i] \in Nat /\ s[i] # 0
           /\ \A i \in 1..b : t[i] \in Nat /\ t[i] # 0
<1>1. \A i \in 1..a : s[i] \in Nat /\ s[i] # 0
  BY ElementOfSeq, StringsAssumption
<1>2. \A i \in 1..b : t[i] \in Nat /\ t[i] # 0
  BY ElementOfSeq, StringsAssumption
<1>3. CommonIs(s, t, n) /\ n \in Nat /\ (s = t <=> n = a /\ n = b)
  BY DEF Compared
<1> QED  BY <1>1, <1>2, <1>3 DEF CommonIs

LEMMA ndiffRight ==
    ASSUME NEW s \in Seq(ScanChars), NEW t \in Seq(ScanChars), NEW n, Compared(s, t, n)
    PROVE  rd_strndiffpos(s, t) = IF s = t THEN -1 ELSE n
<1>1. PICK a \in Nat, b \in Nat : a = Len(s) /\ b = Len(t)
  BY LenProperties
<1>2. /\ n \in 0..a /\ n \in 0..b /\ (\A i \in 1..n : s[i] = t[i])
      /\ n = a \/ n = b \/ s[n + 1] # t[n + 1]
      /\ n \in Nat /\ (s = t <=> n = a /\ n = b)
  BY <1>1, ComparedParts
<1>3. PICK c \in Nat : c = Min({a, b}) /\ c <= a /\ c <= b /\ (c = a \/ c = b)
  BY MinOfTwo
<1>4. PICK T \in SUBSET Int : T = {i \in 0..c - 1 : s[i + 1] # t[i + 1]}
  <2>1. {i \in 0..c - 1 : s[i + 1] # t[i + 1]} \in SUBSET Int
    OBVIOUS
  <2> QED  BY <2>1
<1>5. rd_strndiffpos(s, t) = IF T # {} THEN Min(T) ELSE IF a # b THEN c ELSE -1
  BY <1>1, <1>3, <1>4 DEF rd_strndiffpos
<1>6. \A i \in T : n <= i
  <2>1. ASSUME NEW i \in T, ~(n <= i) PROVE FALSE
    <3>1. i \in 0..c - 1 /\ s[i + 1] # t[i + 1]
      BY <1>4
    <3>2. i + 1 \in 1..n
      BY <1>2, <2>1, <3>1
    <3> QED  BY <1>2, <3>1, <3>2
  <2> QED  BY <2>1
<1>7. CASE n # a /\ n # b
  <2>1. n \in T
    <3>1. n \in 0..c - 1
      BY <1>2, <1>3, <1>7
    <3> QED  BY <1>2, <1>4, <1>7, <3>1
  <2>2. Min(T) = n
    BY <1>6, <2>1, MinIs
  <2> QED  BY <1>2, <1>5, <1>7, <2>1, <2>2
<1>8. CASE n = a \/ n = b
  <2>1. n = c
    BY <1>2, <1>3, <1>8
  <2>2. T = {}
    <3>1. ASSUME NEW i \in T PROVE FALSE
      <4>1. i \in 0..c - 1 /\ n <= i
        BY <1>4, <1>6
      <4> QED  BY <2>1, <4>1
    <3> QED  BY <3>1
  <2>3. a = b <=> n = a /\ n = b
    BY <1>8
  <2> QED  BY <1>2, <1>5, <2>1, <2>2, <2>3
<1> QED  BY <1>7, <1>8

\* A string with its nul has Following() at the end of a prefix.
LEMMA WithNul ==
    ASSUME NEW s \in Seq(ScanChars), NEW n \in 0..Len(s)
    PROVE  /\ Len(Append(s, 0)) = Len(s) + 1
           /\ Append(s, 0)[n + 1] = Following(s, n)
<1>1. PICK a \in Nat : a = Len(s)
  BY LenProperties
<1>2. s \in Seq(Chars) /\ 0 \in Chars
  <2>1. ScanChars \subseteq Chars /\ 0 \in Chars
    BY DEF Chars
  <2> QED  BY <2>1
<1>3. PICK u : u = Append(s, 0)
  OBVIOUS
<1>4. Len(u) = a + 1 /\ (\A i \in 1..a : u[i] = s[i]) /\ u[a + 1] = 0
  BY <1>1, <1>2, <1>3, AppendProperties
<1>5. CASE n = a
  BY <1>1, <1>3, <1>4, <1>5 DEF Following
<1>6. CASE n # a
  <2>1. n < a /\ n + 1 \in 1..a
    BY <1>1, <1>6
  <2>2. Following(s, n) = s[n + 1]
    BY <1>1, <2>1 DEF Following
  <2> QED  BY <1>1, <1>3, <1>4, <2>1, <2>2
<1> QED  BY <1>5, <1>6

LEMMA diffRight ==
    ASSUME NEW s \in Seq(ScanChars), NEW t \in Seq(ScanChars), NEW n, Compared(s, t, n)
    PROVE  rd_strdiffpos(Append(s, 0), Append(t, 0)) = IF s = t THEN -1 ELSE n
<1>1. PICK a \in Nat, b \in Nat : a = Len(s) /\ b = Len(t)
  BY LenProperties
<1>2. /\ n \in 0..a /\ n \in 0..b /\ (\A i \in 1..n : s[i] = t[i])
      /\ n \in Nat /\ (s = t <=> n = a /\ n = b)
      /\ \A i \in 1..a : s[i] # 0
  BY <1>1, ComparedParts
<1>3. PICK u, v : u = Append(s, 0) /\ v = Append(t, 0)
  OBVIOUS
<1>4. Len(u) = a + 1 /\ u[n + 1] = Following(s, n) /\ v[n + 1] = Following(t, n)
  BY <1>1, <1>2, <1>3, WithNul
<1>5. ASSUME NEW j \in Int, 0 <= j, j < n PROVE u[j + 1] = v[j + 1] /\ u[j + 1] # 0
  <2>1. j \in 0..a /\ j \in 0..b /\ j < a /\ j < b /\ j + 1 \in 1..n /\ j + 1 \in 1..a
    BY <1>2, <1>5
  <2>2. u[j + 1] = Following(s, j) /\ v[j + 1] = Following(t, j)
    BY <1>1, <1>3, <2>1, WithNul
  <2>3. Following(s, j) = s[j + 1] /\ Following(t, j) = t[j + 1]
    BY <1>1, <2>1 DEF Following
  <2> QED  BY <1>2, <2>1, <2>2, <2>3
<1>6. u[n + 1] = v[n + 1] <=> s = t
  BY <1>4 DEF Compared
<1>7. s = t => u[n + 1] = 0
  BY <1>1, <1>2, <1>4 DEF Following
<1> DEFINE P(i) == /\ \A j \in 0..i - 1 : u[j + 1] = v[j + 1] /\ u[j + 1] # 0
                   /\ u[i + 1] # v[i + 1] \/ u[i + 1] = 0
<1>8. P(n)
  <2>1. \A j \in 0..n - 1 : j \in Int /\ 0 <= j /\ j < n
    BY <1>2
  <2> QED  BY <1>5, <1>6, <1>7, <2>1
<1>9. ASSUME NEW i \in 0..a, P(i) PROVE i = n
  <2>1. ~(n < i)
    <3>1. SUFFICES ASSUME n < i PROVE FALSE
      OBVIOUS
    <3>2. n \in 0..i - 1
      BY <1>2, <3>1
    <3>3. u[n + 1] = v[n + 1] /\ u[n + 1] # 0
      BY <1>9, <3>2
    <3> QED  BY <1>6, <1>7, <3>3
  <2>2. ~(i < n)
    <3>1. SUFFICES ASSUME i < n PROVE FALSE
      OBVIOUS
    <3>2. u[i + 1] = v[i + 1] /\ u[i + 1] # 0
      BY <1>5, <3>1
    <3> QED  BY <1>9, <3>2
  <2> QED  BY <1>2, <2>1, <2>2
<1>10. PICK D : D = 0..Len(u) - 1 /\ D = 0..a
  BY <1>4
<1>11. rd_strdiffpos(u, v) =
            IF u[(CHOOSE i \in 0..Len(u) - 1 : P(i)) + 1] = v[(CHOOSE i \in 0..Len(u) - 1 : P(i)) + 1]
            THEN -1 ELSE CHOOSE i \in 0..Len(u) - 1 : P(i)
  BY Zenon DEF rd_strdiffpos
<1>12. (CHOOSE i \in 0..Len(u) - 1 : P(i)) = n
  <2> HIDE DEF P
  <2>1. n \in D /\ \A i \in D : P(i) => i = n
    BY <1>2, <1>9, <1>10
  <2>2. (CHOOSE i \in D : P(i)) = n
    BY <1>8, <2>1
  <2> QED  BY <1>10, <2>2
<1>13. rd_strdiffpos(u, v) = IF u[n + 1] = v[n + 1] THEN -1 ELSE n
  <2> HIDE DEF P
  <2> QED  BY <1>11, <1>12
<1> QED  BY <1>3, <1>6, <1>13

LEMMA ncmpRight ==
    ASSUME NEW s \in Seq(ScanChars), NEW t \in Seq(ScanChars), NEW n, Compared(s, t, n)
    PROVE  /\ rd_strnncmp(s, t) \in Int
           /\ rd_strnncmp(s, t) < 0 <=> Following(s, n) < Following(t, n)
           /\ rd_strnncmp(s, t) = 0 <=> s = t
<1>1. PICK a \in Nat, b \in Nat : a = Len(s) /\ b = Len(t)
  BY LenProperties
<1>2. /\ n \in 0..a /\ n \in 0..b /\ (\A i \in 1..n : s[i] = t[i])
      /\ n = a \/ n = b \/ s[n + 1] # t[n + 1]
      /\ n \in Nat /\ (s = t <=> n = a /\ n = b)
      /\ \A i \in 1..a : s[i] \in Nat /\ s[i] # 0
      /\ \A i \in 1..b : t[i] \in Nat /\ t[i] # 0
  BY <1>1, ComparedParts
<1>3. PICK c \in Nat : c = Min({a, b}) /\ c <= a /\ c <= b /\ (c = a \/ c = b)
  BY MinOfTwo
<1>4. PICK T \in SUBSET Int : T = {i \in 1..c : s[i] # t[i] \/ s[i] = 0}
  <2>1. {i \in 1..c : s[i] # t[i] \/ s[i] = 0} \in SUBSET Int
    OBVIOUS
  <2> QED  BY <2>1
<1>5. PICK r : r = IF T = {} THEN 0 ELSE s[Min(T)] - t[Min(T)]
  OBVIOUS
<1>6. rd_strnncmp(s, t) = IF r # 0 THEN r ELSE a - b
  BY <1>1, <1>3, <1>4, <1>5 DEF rd_strnncmp, strncmp
<1>7. \A i \in T : n + 1 <= i
  <2>1. ASSUME NEW i \in T, ~(n + 1 <= i) PROVE FALSE
    <3>1. i \in 1..c /\ (s[i] # t[i] \/ s[i] = 0)
      BY <1>4
    <3>2. i \in 1..n /\ i \in 1..a
      BY <1>2, <1>3, <2>1, <3>1
    <3> QED  BY <1>2, <3>1, <3>2
  <2> QED  BY <2>1
<1>8. CASE n # a /\ n # b
  <2>1. n + 1 \in 1..c /\ n + 1 \in 1..a /\ n + 1 \in 1..b /\ n < a /\ n < b
    BY <1>2, <1>3, <1>8
  <2>2. PICK k \in T : k = n + 1
    BY <1>2, <1>4, <1>8, <2>1
  <2>3. Min(T) = k
    BY <1>7, <2>2, MinIs
  <2>4. PICK x \in Nat, y \in Nat : x = s[n + 1] /\ y = t[n + 1] /\ x # y
    BY <1>2, <1>8, <2>1
  <2>5. r = x - y
    BY <1>5, <2>2, <2>3, <2>4
  <2>6. Following(s, n) = x /\ Following(t, n) = y
    BY <1>1, <2>1, <2>4 DEF Following
  <2>7. rd_strnncmp(s, t) = x - y
    <3>1. x - y # 0
      BY <2>4
    <3> QED  BY <1>6, <2>5, <3>1
  <2>8. x - y \in Int /\ (x - y < 0 <=> x < y) /\ x - y # 0
    BY <2>4
  <2> QED  BY <1>2, <1>8, <2>6, <2>7, <2>8
<1>9. CASE n = a \/ n = b
  <2>1. n = c
    BY <1>2, <1>3, <1>9
  <2>2. T = {}
    <3>1. ASSUME NEW i \in T PROVE FALSE
      <4>1. i \in 1..c /\ n + 1 <= i
        BY <1>4, <1>7
      <4> QED  BY <2>1, <4>1
    <3> QED  BY <3>1
  <2>3. rd_strnncmp(s, t) = a - b
    BY <1>5, <1>6, <2>2
  <2>4. PICK f \in Nat, g \in Nat : f = Following(s, n) /\ g = Following(t, n)
    BY DEF Compared
  <2>5. f = 0 <=> n = a
    <3>1. CASE n = a
      BY <1>1, <2>4, <3>1 DEF Following
    <3>2. CASE n # a
      <4>1. n < a /\ n + 1 \in 1..a
        BY <1>2, <3>2
      <4> QED  BY <1>1, <1>2, <2>4, <3>2, <4>1 DEF Following
    <3> QED  BY <3>1, <3>2
  <2>6. g = 0 <=> n = b
    <3>1. CASE n = b
      BY <1>1, <2>4, <3>1 DEF Following
    <3>2. CASE n # b
      <4>1. n < b /\ n + 1 \in 1..b
        BY <1>2, <3>2
      <4> QED  BY <1>1, <1>2, <2>4, <3>2, <4>1 DEF Following
    <3> QED  BY <3>1, <3>2
  <2>7. n <= a /\ n <= b
    BY <1>2
  <2>8. a - b \in Int /\ (a - b < 0 <=> f < g) /\ (a - b = 0 <=> n = a /\ n = b)
    BY <1>9, <2>5, <2>6, <2>7
  <2> QED  BY <1>2, <2>3, <2>4, <2>8
<1> QED  BY <1>8, <1>9

-----------------------------------------------------------------------------
(* The results of one Compare, as ScansMatchReference has them.            *)

CompareMatches(s, t, ndiff, diff, ncmp) ==
    LET common == Prefixes(s) \cap Prefixes(t)
        n == Max({Len(p) : p \in common})
        After(u) == IF n < Len(u) THEN u[n + 1] ELSE 0
    IN /\ ndiff = IF s = t THEN -1 ELSE n
       /\ diff = ndiff
       /\ (ncmp < 0) = (After(s) < After(t))
       /\ (ncmp = 0) = (s = t)

LEMMA CompareRight ==
    ASSUME NEW s \in Seq(ScanChars), NEW t \in Seq(ScanChars)
    PROVE  CompareMatches(s, t, rd_strndiffpos(s, t),
                rd_strdiffpos(Append(s, 0), Append(t, 0)), rd_strnncmp(s, t))
<1>1. PICK n \in Nat : CommonIs(s, t, n)
  BY CommonExists
<1>2. Compared(s, t, n)
  BY <1>1, ComparedFacts
<1>3. Max({Len(p) : p \in Prefixes(s) \cap Prefixes(t)}) = n
  BY <1>1, LongestCommon
<1>4. PICK ndiff, diff, ncmp : ndiff = rd_strndiffpos(s, t)
            /\ diff = rd_strdiffpos(Append(s, 0), Append(t, 0)) /\ ncmp = rd_strnncmp(s, t)
  OBVIOUS
<1>5. ndiff = (IF s = t THEN -1 ELSE n) /\ diff = IF s = t THEN -1 ELSE n
  BY <1>2, <1>4, ndiffRight, diffRight
<1>6. (ncmp < 0 <=> Following(s, n) < Following(t, n)) /\ (ncmp = 0 <=> s = t)
  BY <1>2, <1>4, ncmpRight
<1>7. (ncmp < 0) = ((IF n < Len(s) THEN s[n + 1] ELSE 0) < (IF n < Len(t) THEN t[n + 1] ELSE 0))
  BY <1>6 DEF Following
<1>8. (ncmp = 0) = (s = t)
  BY <1>6
<1>9. CompareMatches(s, t, ndiff, diff, ncmp)
  BY <1>3, <1>5, <1>7, <1>8 DEF CompareMatches
<1> QED  BY <1>4, <1>9

LEMMA Bounded ==
    ASSUME NEW C, NEW n \in Nat, NEW s \in BoundedSeq(C, n)
    PROVE  s \in Seq(C)
<1>1. PICK k \in 0..n : s \in [1..k -> C]
  BY Zenon DEF BoundedSeq, SeqOf
<1>2. k \in Nat
  OBVIOUS
<1> QED  BY <1>1, <1>2, SeqDef

\* A record of a scan or of a comparison is right.
ScanOk(r) ==
    /\ r.fn = "scan" => ScanMatches(r.m, r.size, r.set, r.chrs, r.eol, r.spn, r.cspn)
    /\ r.fn = "compare" => CompareMatches(r.s, r.t, r.ndiff, r.diff, r.ncmp)

LEMMA ScanStep == ASSUME Scan PROVE ScanOk(scan')
<1>1. PICK m \in Memories, set \in SUBSET ScanChars, stray \in SUBSET HighChars,
           cstray \in SUBSET HighChars : \E size \in SizesOf(m) :
          scan' = [fn |-> "scan", m |-> m, size |-> size, set |-> set,
                   chrs |-> rd_strnchrs(m, size, set, FALSE),
                   eol |-> rd_strnchrs(m, size, set, TRUE),
                   spn |-> rd_strnspn(m, size, set, stray),
                   cspn |-> rd_strncspn(m, size, set, cstray)]
  BY DEF Scan
<1>2. PICK size \in SizesOf(m) :
          scan' = [fn |-> "scan", m |-> m, size |-> size, set |-> set,
                   chrs |-> rd_strnchrs(m, size, set, FALSE),
                   eol |-> rd_strnchrs(m, size, set, TRUE),
                   spn |-> rd_strnspn(m, size, set, stray),
                   cspn |-> rd_strncspn(m, size, set, cstray)]
  BY <1>1
<1>3. m \in Seq(Chars)
  <2>1. MaxScanLen \in Nat /\ m \in BoundedSeq(Chars, MaxScanLen)
    BY StringsAssumption DEF Memories, Chars
  <2> QED  BY <2>1, Bounded
<1>4. PICK chrs, eol, spn, cspn :
            /\ chrs = rd_strnchrs(m, size, set, FALSE) /\ eol = rd_strnchrs(m, size, set, TRUE)
            /\ spn = rd_strnspn(m, size, set, stray) /\ cspn = rd_strncspn(m, size, set, cstray)
  OBVIOUS
<1>5. ScanMatches(m, size, set, chrs, eol, spn, cspn)
  BY <1>3, <1>4, ScanRight
<1>6. PICK r : r = scan'
  OBVIOUS
<1>7. r = [fn |-> "scan", m |-> m, size |-> size, set |-> set,
           chrs |-> chrs, eol |-> eol, spn |-> spn, cspn |-> cspn]
  BY <1>2, <1>4, <1>6
<1>8. /\ r.fn = "scan" /\ r.m = m /\ r.size = size /\ r.set = set
      /\ r.chrs = chrs /\ r.eol = eol /\ r.spn = spn /\ r.cspn = cspn
  BY <1>7
<1>9. ScanOk(r)
  BY <1>5, <1>8 DEF ScanOk
<1> QED  BY <1>6, <1>9

LEMMA CompareStep == ASSUME Compare PROVE ScanOk(scan')
<1>1. PICK s \in BoundedSeq(ScanChars, MaxScanLen), t \in BoundedSeq(ScanChars, MaxScanLen) :
          scan' = [fn |-> "compare", s |-> s, t |-> t,
                   ndiff |-> rd_strndiffpos(s, t),
                   diff |-> rd_strdiffpos(Append(s, 0), Append(t, 0)),
                   ncmp |-> rd_strnncmp(s, t)]
  BY DEF Compare
<1>2. s \in Seq(ScanChars) /\ t \in Seq(ScanChars)
  <2>1. MaxScanLen \in Nat
    BY StringsAssumption
  <2> QED  BY <2>1, Bounded
<1>3. PICK ndiff, diff, ncmp : ndiff = rd_strndiffpos(s, t)
            /\ diff = rd_strdiffpos(Append(s, 0), Append(t, 0)) /\ ncmp = rd_strnncmp(s, t)
  OBVIOUS
<1>4. CompareMatches(s, t, ndiff, diff, ncmp)
  BY <1>2, <1>3, CompareRight
<1>5. PICK r : r = scan'
  OBVIOUS
<1>6. r = [fn |-> "compare", s |-> s, t |-> t, ndiff |-> ndiff, diff |-> diff, ncmp |-> ncmp]
  BY <1>1, <1>3, <1>5
<1>7. /\ r.fn = "compare" /\ r.s = s /\ r.t = t
      /\ r.ndiff = ndiff /\ r.diff = diff /\ r.ncmp = ncmp
  BY <1>6
<1>8. ScanOk(r)
  BY <1>4, <1>7 DEF ScanOk
<1> QED  BY <1>5, <1>8

\* The scanning and comparing functions of rdstring.c return what their
\* definitions by prefixes say, for memory of any length and content, true
\* sizes and -1, any set of characters and any two strings.  Characters that
\* are negative as a char are the exception the property states: rd_strnchrs()
\* never finds one, and one in the text may end a span of rd_strnspn() or
\* rd_strncspn() or not.
THEOREM ScansAlwaysMatch == StrSpec => []ScansMatchReference
<1>1. ScanOk(scan) <=> ScansMatchReference
  BY DEF ScanOk, ScanMatches, CompareMatches, ScansMatchReference
<1>2. StrInit => ScanOk(scan)
  BY DEF StrInit, NotScanned, ScanOk
<1>3. ScanOk(scan) /\ [RingNext \/ ScanNext]_strVars => ScanOk(scan)'
  <2> SUFFICES ASSUME ScanOk(scan), [RingNext \/ ScanNext]_strVars PROVE ScanOk(scan')
    OBVIOUS
  <2>1. CASE RingNext
    <3>1. scan' = scan
      BY <2>1 DEF RingNext, rd_tsprintf, rd_tsprintf_fails, rd_string_thread_cleanup
    <3> QED  BY <3>1
  <2>2. CASE ScanNext
    BY <2>2, ScanStep, CompareStep DEF ScanNext
  <2>3. CASE UNCHANGED strVars
    BY <2>3 DEF strVars
  <2> QED  BY <2>1, <2>2, <2>3
<1> QED  BY <1>1, <1>2, <1>3, PTL DEF StrSpec

-----------------------------------------------------------------------------
(***************************************************************************)
(* Lists of addresses: a list is a permutation of what the resolver        *)
(* answered, and its turns go around it.                                   *)
(***************************************************************************)

LEMMA Upto ==
    ASSUME NEW n \in Nat, NEW T, 0 \in T, \A i \in 1..n : i - 1 \in T => i \in T
    PROVE  \A i \in 0..n : i \in T
<1>1. SUFFICES ASSUME ~(\A i \in 0..n : i \in T) PROVE FALSE
  OBVIOUS
<1>2. PICK R \in SUBSET Nat : R = {i \in 0..n : i \notin T}
  <2>1. {i \in 0..n : i \notin T} \in SUBSET Nat
    OBVIOUS
  <2> QED  BY <2>1
<1>3. R # {}
  BY <1>1, <1>2
<1>4. PICK k \in R : \A j \in R : k <= j
  BY <1>3, LeastExists
<1>5. k \in 0..n /\ k \notin T
  BY <1>2
<1>6. k \in 1..n /\ k - 1 \in 0..n /\ ~(k <= k - 1)
  BY <1>5
<1>7. k - 1 \in T
  BY <1>2, <1>4, <1>6
<1> QED  BY <1>5, <1>6, <1>7

\* The steps G from each place to the next, starting from a.
Steps(G, n, V, a) == G \in [1..n -> [V -> V]] /\ a \in V

\* A function defined by such steps exists.
LEMMA RecExists ==
    ASSUME NEW n \in Nat, NEW V, NEW a, NEW G, Steps(G, n, V, a)
    PROVE  \E f \in [0..n -> V] : f[0] = a /\ \A i \in 1..n : f[i] = G[i][f[i - 1]]
<1> DEFINE P(k) == \E f \in [0..k -> V] : f[0] = a /\ \A i \in 1..k : f[i] = G[i][f[i - 1]]
<1>0. G \in [1..n -> [V -> V]] /\ a \in V
  BY DEF Steps
<1>1. P(0)
  <2>1. [i \in 0..0 |-> a] \in [0..0 -> V] /\ [i \in 0..0 |-> a][0] = a /\ 1..0 = {}
    BY <1>0
  <2> QED  BY <2>1
<1>2. ASSUME NEW k \in 1..n, P(k - 1) PROVE P(k)
  <2>1. PICK f \in [0..(k - 1) -> V] :
            f[0] = a /\ \A i \in 1..(k - 1) : f[i] = G[i][f[i - 1]]
    BY <1>2
  <2>2. k - 1 \in 0..(k - 1) /\ 0 \in 0..(k - 1)
    BY <1>2
  <2>3. f[k - 1] \in V
    BY <2>1, <2>2
  <2>4. PICK x \in V : x = G[k][f[k - 1]]
    BY <1>0, <2>3
  <2>5. PICK g : g = [i \in 0..k |-> IF i = k THEN x ELSE f[i]]
    OBVIOUS
  <2>6. \A i \in 0..k : i # k => i \in 0..(k - 1)
    BY <1>2
  <2>7. g \in [0..k -> V] /\ \A i \in 0..k : g[i] = IF i = k THEN x ELSE f[i]
    BY <2>1, <2>5, <2>6
  <2>8. g[0] = a
    <3>1. 0 \in 0..k /\ 0 # k
      BY <1>2
    <3> QED  BY <2>1, <2>7, <3>1
  <2>9. ASSUME NEW i \in 1..k PROVE g[i] = G[i][g[i - 1]]
    <3>1. i \in 0..k /\ i - 1 \in 0..k /\ i - 1 # k /\ (i # k => i \in 1..(k - 1))
      BY <1>2
    <3>2. g[i - 1] = f[i - 1]
      BY <2>7, <3>1
    <3>3. g[i] = IF i = k THEN x ELSE f[i]
      BY <2>7, <3>1
    <3>4. CASE i = k
      BY <2>4, <3>2, <3>3, <3>4
    <3>5. CASE i # k
      BY <2>1, <3>1, <3>2, <3>3, <3>5
    <3> QED  BY <3>4, <3>5
  <2> QED  BY <2>7, <2>8, <2>9
<1> HIDE DEF P
<1>3. PICK T : T = {k \in 0..n : P(k)}
  OBVIOUS
<1>4. 0 \in T
  BY <1>1, <1>3
<1>5. ASSUME NEW i \in 1..n, i - 1 \in T PROVE i \in T
  BY <1>2, <1>3, <1>5
<1>6. n \in T
  <2>1. n \in 0..n
    OBVIOUS
  <2> QED  BY <1>4, <1>5, <2>1, Upto
<1> QED  BY <1>3, <1>6 DEF P

\* p goes through 1..n in another order.
Permutes(p, n) ==
    /\ p \in [1..n -> 1..n]
    /\ \A i, j \in 1..n : p[i] = p[j] => i = j
    /\ \A k \in 1..n : \E i \in 1..n : p[i] = k

\* The arrays that have what a has, in some order.
Rearranged(a, n) ==
    {x \in [1..n -> Addresses] : \E p \in [1..n -> 1..n] : Permutes(p, n) /\ \A i \in 1..n : x[i] = a[p[i]]}

LEMMA ExchangeFacts ==
    ASSUME NEW n \in Nat, NEW a, NEW x \in Rearranged(a, n), NEW i \in 1..n, NEW j \in 1..n
    PROVE  Exchanged(x, i, j) \in Rearranged(a, n)
<1>1. x \in [1..n -> Addresses]
  BY DEF Rearranged
<1>2. PICK p \in [1..n -> 1..n] : Permutes(p, n) /\ \A k \in 1..n : x[k] = a[p[k]]
  BY DEF Rearranged
<1>3. PICK sw : sw = [k \in 1..n |-> IF k = j THEN i ELSE IF k = i THEN j ELSE k]
  OBVIOUS
<1>4. sw \in [1..n -> 1..n] /\ \A k \in 1..n : sw[sw[k]] = k
  BY <1>3
<1>5. PICK q : q = [k \in 1..n |-> p[sw[k]]]
  OBVIOUS
<1>6. q \in [1..n -> 1..n] /\ \A k \in 1..n : q[k] = p[sw[k]]
  BY <1>2, <1>4, <1>5
<1>7. Permutes(q, n)
  <2>1. ASSUME NEW k \in 1..n, NEW l \in 1..n, q[k] = q[l] PROVE k = l
    <3>1. PICK s \in 1..n, t \in 1..n : s = sw[k] /\ t = sw[l]
      BY <1>4
    <3>2. p[s] = p[t]
      BY <1>6, <2>1, <3>1
    <3>3. s = t
      BY <1>2, <3>2 DEF Permutes
    <3> QED  BY <1>4, <3>1, <3>3
  <2>2. ASSUME NEW k \in 1..n PROVE \E l \in 1..n : q[l] = k
    <3>1. PICK s \in 1..n : p[s] = k
      BY <1>2 DEF Permutes
    <3>2. PICK l \in 1..n : l = sw[s]
      BY <1>4
    <3>3. q[l] = k
      BY <1>4, <1>6, <3>1, <3>2
    <3> QED  BY <3>3
  <2> QED  BY <1>6, <2>1, <2>2 DEF Permutes
<1>8. PICK y : y = Exchanged(x, i, j)
  OBVIOUS
<1>9. y \in [1..n -> Addresses] /\ \A k \in 1..n : y[k] = x[sw[k]]
  BY <1>1, <1>3, <1>8 DEF Exchanged
<1>10. \A k \in 1..n : y[k] = a[q[k]]
  BY <1>2, <1>4, <1>6, <1>9
<1>11. y \in Rearranged(a, n)
  BY <1>6, <1>7, <1>9, <1>10 DEF Rearranged
<1> QED  BY <1>8, <1>11

LEMMA SameArranged ==
    ASSUME NEW n \in Nat, NEW a \in [1..n -> Addresses]
    PROVE  a \in Rearranged(a, n)
<1>1. PICK p : p = [i \in 1..n |-> i]
  OBVIOUS
<1>2. p \in [1..n -> 1..n] /\ Permutes(p, n) /\ \A i \in 1..n : a[i] = a[p[i]]
  BY <1>1 DEF Permutes
<1> QED  BY <1>2 DEF Rearranged

\* What rd_array_shuffle() leaves has what the array had.
LEMMA ShuffleFacts ==
    ASSUME NEW n \in Nat \ {0}, NEW a \in [1..n -> Addresses], Len(a) = n,
           NEW x \in rd_array_shuffle(a)
    PROVE  x \in Rearranged(a, n)
<1> DEFINE Step(f) == [i \in 1..Len(a) |->
                        IF i = Len(a) THEN {a}
                        ELSE Refilled(f[i + 1], i)]
<1>1. PICK m \in Nat : m = n - 1 /\ n = m + 1
  <2>1. n - 1 \in Nat /\ n = (n - 1) + 1
    OBVIOUS
  <2> QED  BY <2>1
<1>2. PICK V : V = SUBSET Rearranged(a, n)
  OBVIOUS
<1>3. PICK G : G = [k \in 1..m |-> [X \in V |-> Refilled(X, n - k)]]
  OBVIOUS
<1>4. ASSUME NEW X \in V, NEW i \in 1..m
      PROVE  Refilled(X, i) \in V
  <2>1. ASSUME NEW y \in X, NEW j \in 1..i + 1 PROVE Exchanged(y, i + 1, j) \in Rearranged(a, n)
    <3>1. i + 1 \in 1..n /\ j \in 1..n /\ y \in Rearranged(a, n)
      BY <1>1, <1>2
    <3> QED  BY <3>1, ExchangeFacts
  <2> QED  BY <1>2, <2>1 DEF Refilled
<1>5. {a} \in V
  BY <1>2, SameArranged
<1>6. \A k \in 1..m : n - k \in 1..m /\ n - (n - k) = k /\ n - (k - 1) = (n - k) + 1
  BY <1>1
<1>7. Steps(G, m, V, {a})
  <2>1. ASSUME NEW k \in 1..m PROVE G[k] \in [V -> V]
    <3>1. PICK i \in 1..m : i = n - k
      BY <1>6
    <3>2. G[k] = [X \in V |-> Refilled(X, i)]
      BY <1>3, <3>1
    <3> QED  BY <1>4, <3>2
  <2>2. G \in [1..m -> [V -> V]]
    BY <1>3, <2>1
  <2> QED  BY <1>5, <2>2 DEF Steps
<1>8. PICK g \in [0..m -> V] : g[0] = {a} /\ \A k \in 1..m : g[k] = G[k][g[k - 1]]
  BY <1>7, RecExists
<1>9. PICK h : h = [i \in 1..n |-> g[n - i]]
  OBVIOUS
<1>10. \A i \in 1..n : n - i \in 0..m /\ (i # n => i \in 1..m /\ n - i \in 1..m /\ n - (i + 1) = (n - i) - 1
                                              /\ i + 1 \in 1..n /\ n - (n - i) = i)
  BY <1>1
<1>11. h = Step(h)
  <2>1. ASSUME NEW i \in 1..n
        PROVE  h[i] = IF i = n THEN {a}
                      ELSE Refilled(h[i + 1], i)
    <3>1. CASE i = n
      <4>1. n - i = 0
        BY <3>1
      <4> QED  BY <1>8, <1>9, <3>1, <4>1
    <3>2. CASE i # n
      <4>1. i \in 1..m /\ n - i \in 1..m /\ n - (i + 1) = (n - i) - 1 /\ i + 1 \in 1..n
        BY <1>10, <3>2
      <4>2. PICK k \in 1..m : k = n - i /\ n - k = i /\ k - 1 \in 0..m
        <5>1. n - (n - i) = i /\ (n - i) - 1 \in 0..m
          BY <4>1
        <5> QED  BY <4>1, <5>1
      <4>3. h[i] = g[k] /\ h[i + 1] = g[k - 1]
        BY <1>9, <4>1, <4>2
      <4>4. g[k - 1] \in V
        BY <4>2
      <4>5. g[k] = Refilled(g[k - 1], i)
        BY <1>3, <1>8, <4>2, <4>4
      <4> QED  BY <3>2, <4>3, <4>5
    <3> QED  BY <3>1, <3>2
  <2>2. h = [i \in 1..n |-> IF i = n THEN {a}
                      ELSE Refilled(h[i + 1], i)]
    BY <1>9, <2>1
  <2> QED  BY <2>2
<1>12. PICK f : f = Step(f) /\ f = CHOOSE ff : ff = Step(ff)
  <2> HIDE DEF Step
  <2> QED  BY <1>11
<1>13. rd_array_shuffle(a) = f[1]
  <2>1. rd_array_shuffle(a) = (CHOOSE ff : ff = Step(ff))[1]
    BY Zenon DEF rd_array_shuffle
  <2> QED  BY <1>12, <2>1
<1>14. f = [i \in 1..n |-> IF i = n THEN {a}
                ELSE Refilled(f[i + 1], i)]
  BY <1>12
<1>15. PICK T : T = {k \in 0..m : f[n - k] \in V}
  OBVIOUS
<1>16. 0 \in T
  <2>1. n - 0 = n /\ n \in 1..n /\ 0 \in 0..m
    OBVIOUS
  <2>2. f[n] = {a}
    BY <1>14, <2>1
  <2> QED  BY <1>5, <1>15, <2>1, <2>2
<1>17. ASSUME NEW k \in 1..m, k - 1 \in T PROVE k \in T
  <2>1. PICK i \in 1..m : i = n - k /\ i # n /\ i \in 1..n /\ n - (k - 1) = i + 1
    <3>1. n - k \in 1..m /\ n - k # n /\ n - k \in 1..n /\ n - (k - 1) = (n - k) + 1
      BY <1>1
    <3> QED  BY <3>1
  <2>2. f[i + 1] \in V
    BY <1>15, <1>17, <2>1
  <2>3. PICK X \in V : X = f[i + 1]
    BY <2>2
  <2>4. f[i] = Refilled(X, i)
    BY <1>14, <2>1, <2>3
  <2>5. f[i] \in V
    BY <1>4, <2>4
  <2>6. k \in 0..m
    OBVIOUS
  <2> QED  BY <1>15, <2>1, <2>5, <2>6
<1>18. \A k \in 0..m : k \in T
  BY <1>16, <1>17, Upto
<1>19. m \in 0..m /\ n - m = 1
  BY <1>1
<1>20. f[1] \in V
  BY <1>15, <1>18, <1>19
<1> QED  BY <1>2, <1>13, <1>20

-----------------------------------------------------------------------------
\* The place d turns before the place i in a ring of n.
Back(n, i, d) == IF d <= i THEN i - d ELSE i - d + n

LEMMA BackFacts ==
    ASSUME NEW n \in Nat \ {0}, NEW i \in 0..n - 1
    PROVE  /\ (i + 1) % n \in 0..n - 1
           /\ \A d \in 0..n - 1 : Back(n, i, d) \in 0..n - 1
           /\ \A d \in 0..n - 2 : /\ Back(n, (i + 1) % n, d + 1) = Back(n, i, d)
                                  /\ Back(n, i, d) # (i + 1) % n
           /\ \A j \in 0..n - 1 : Back(n, i, Back(n, i, j)) = j
<1>1. PICK k \in 0..n - 1 : k = (i + 1) % n /\ k = IF i + 1 = n THEN 0 ELSE i + 1
  <2>1. (i + 1) % n = IF i + 1 = n THEN 0 ELSE i + 1
    OBVIOUS
  <2>2. (IF i + 1 = n THEN 0 ELSE i + 1) \in 0..n - 1
    OBVIOUS
  <2> QED  BY <2>1, <2>2
<1>2. \A d \in 0..n - 1 : Back(n, i, d) \in 0..n - 1
  BY DEF Back
<1>3. \A d \in 0..n - 2 : Back(n, k, d + 1) = Back(n, i, d) /\ Back(n, i, d) # k
  BY <1>1 DEF Back
<1>4. \A j \in 0..n - 1 : Back(n, i, Back(n, i, j)) = j
  BY DEF Back
<1> QED  BY <1>1, <1>2, <1>3, <1>4

\* The turns went around the list and ended at curr.
Round(n, addr, curr, ts) ==
    /\ curr \in 0..n - 1
    /\ ts \in Seq(Addresses) /\ Len(ts) <= n
    /\ \A k \in 1..Len(ts) : ts[k] = addr[Back(n, curr, Len(ts) - k) + 1]

LEMMA RoundStep ==
    ASSUME NEW n \in Nat \ {0}, NEW addr \in [1..n -> Addresses], NEW curr, NEW ts,
           Round(n, addr, curr, ts)
    PROVE  Round(n, addr, (curr + 1) % n, LastOf(n, ts, addr[((curr + 1) % n) + 1]))
<1>1. curr \in 0..n - 1 /\ ts \in Seq(Addresses) /\ Len(ts) <= n
  BY DEF Round
<1>2. PICK next : next = (curr + 1) % n
  OBVIOUS
<1>3. /\ next \in 0..n - 1
      /\ \A d \in 0..n - 2 : Back(n, next, d + 1) = Back(n, curr, d)
  BY <1>1, <1>2, BackFacts
<1>4. PICK e \in Addresses : e = addr[next + 1]
  <2>1. next + 1 \in 1..n
    BY <1>3
  <2> QED  BY <2>1
<1>5. PICK new : new = LastOf(n, ts, e)
  OBVIOUS
<1>6. Continues(new, n, ts, Addresses, e)
  BY <1>1, <1>5, LastOfFacts
<1>7. PICK l \in Nat, m \in Nat : l = Len(ts) /\ m = Len(new)
  BY <1>1, <1>6, LenProperties DEF Continues
<1>8. PICK s \in Int : s = l + 1 - m
  <2>1. l + 1 - m \in Int
    OBVIOUS
  <2> QED  BY <2>1
<1>9. /\ new \in Seq(Addresses) /\ m <= n /\ m \in 1..l + 1 /\ new[m] = e
      /\ \A k \in 1..m - 1 : k + s \in 1..l /\ new[k] = ts[k + s]
  BY <1>6, <1>7, <1>8 DEF Continues
<1>10. ASSUME NEW k \in 1..m PROVE new[k] = addr[Back(n, next, m - k) + 1]
  <2>1. CASE k = m
    <3>1. m - k = 0 /\ 0 <= next /\ next - 0 = next
      BY <1>3, <2>1
    <3>2. Back(n, next, m - k) = next
      BY <3>1 DEF Back
    <3> QED  BY <1>4, <1>9, <2>1, <3>2
  <2>2. CASE k # m
    <3>1. PICK j \in 1..l : j = k + s /\ new[k] = ts[j]
      <4>1. k \in 1..m - 1
        BY <2>2
      <4> QED  BY <1>9, <4>1
    <3>2. PICK d \in 0..n - 2 : d = l - j /\ d + 1 = m - k
      <4>1. l - j \in 0..n - 2 /\ (l - j) + 1 = m - k
        <5>1. l - j = m - k - 1
          BY <1>8, <3>1
        <5> QED  BY <1>9, <2>2, <5>1
      <4> QED  BY <4>1
    <3>3. ts[j] = addr[Back(n, curr, d) + 1]
      BY <1>7, <3>1, <3>2 DEF Round
    <3> QED  BY <1>3, <3>1, <3>2, <3>3
  <2> QED  BY <2>1, <2>2
<1>11. Round(n, addr, next, new)
  BY <1>3, <1>7, <1>9, <1>10 DEF Round
<1> QED  BY <1>2, <1>4, <1>5, <1>11

\* How often a sequence has a member.
Times(s, v) == Cardinality({i \in DOMAIN s : s[i] = v})

\* A full round has every address as often as the answer.
LEMMA RoundCounts ==
    ASSUME NEW n \in Nat \ {0}, NEW answer \in Seq(Addresses), Len(answer) = n,
           NEW addr \in Rearranged(answer, n), NEW curr, NEW ts, Round(n, addr, curr, ts),
           Len(ts) = n, NEW v
    PROVE  Times(ts, v) = Times(answer, v)
<1>1. curr \in 0..n - 1 /\ ts \in Seq(Addresses)
  BY DEF Round
<1>2. DOMAIN ts = 1..n /\ DOMAIN answer = 1..n
  BY <1>1, LenProperties
<1>3. PICK p \in [1..n -> 1..n] : Permutes(p, n) /\ \A i \in 1..n : addr[i] = answer[p[i]]
  BY DEF Rearranged
<1>4. PICK B : B = [k \in 1..n |-> Back(n, curr, n - k) + 1]
  OBVIOUS
<1>5. ASSUME NEW k \in 1..n PROVE B[k] \in 1..n /\ n - Back(n, curr, B[k] - 1) = k
  <2>1. n - k \in 0..n - 1 /\ n - (n - k) = k
    OBVIOUS
  <2>2. PICK d \in 0..n - 1 : d = Back(n, curr, n - k) /\ Back(n, curr, d) = n - k
    BY <1>1, <2>1, BackFacts
  <2>3. B[k] = d + 1
    BY <1>4, <2>2
  <2>4. (d + 1) - 1 = d /\ d + 1 \in 1..n
    OBVIOUS
  <2> QED  BY <2>1, <2>2, <2>3, <2>4
<1>6. ASSUME NEW j \in 1..n PROVE \E k \in 1..n : B[k] = j
  <2>1. j - 1 \in 0..n - 1 /\ (j - 1) + 1 = j
    OBVIOUS
  <2>2. PICK d \in 0..n - 1 : d = Back(n, curr, j - 1) /\ Back(n, curr, d) = j - 1
    BY <1>1, <2>1, BackFacts
  <2>3. PICK k \in 1..n : k = n - d /\ n - k = d
    <3>1. n - d \in 1..n /\ n - (n - d) = d
      OBVIOUS
    <3> QED  BY <3>1
  <2>4. B[k] = j
    BY <1>4, <2>1, <2>2, <2>3
  <2> QED  BY <2>4
<1>7. \A k \in 1..n : ts[k] = answer[p[B[k]]]
  <2>1. ASSUME NEW k \in 1..n PROVE ts[k] = answer[p[B[k]]]
    <3>1. ts[k] = addr[B[k]]
      BY <1>4 DEF Round
    <3> QED  BY <1>3, <1>5, <3>1
  <2> QED  BY <2>1
<1>8. PICK S, T : S = {i \in 1..n : ts[i] = v} /\ T = {i \in 1..n : answer[i] = v}
  OBVIOUS
<1>9. PICK F : F = [k \in S |-> p[B[k]]]
  OBVIOUS
<1>10. ASSUME NEW k \in S PROVE k \in 1..n /\ F[k] = p[B[k]] /\ F[k] \in T
  BY <1>3, <1>5, <1>7, <1>8, <1>9
<1>11. ASSUME NEW k \in S, NEW l \in S, F[k] = F[l] PROVE k = l
  <2>1. k \in 1..n /\ l \in 1..n /\ p[B[k]] = p[B[l]]
    BY <1>10, <1>11
  <2>2. PICK x \in 1..n, y \in 1..n : x = B[k] /\ y = B[l]
    BY <1>5, <2>1
  <2>3. x = y
    BY <1>3, <2>1, <2>2 DEF Permutes
  <2>4. n - Back(n, curr, x - 1) = k /\ n - Back(n, curr, y - 1) = l
    BY <1>5, <2>1, <2>2
  <2> QED  BY <2>3, <2>4
<1>12. ASSUME NEW j \in T PROVE \E k \in S : F[k] = j
  <2>1. j \in 1..n /\ answer[j] = v
    BY <1>8
  <2>2. PICK x \in 1..n : p[x] = j
    BY <1>3, <2>1 DEF Permutes
  <2>3. PICK k \in 1..n : B[k] = x
    BY <1>6
  <2>4. k \in S
    BY <1>7, <1>8, <2>1, <2>2, <2>3
  <2> QED  BY <1>9, <2>2, <2>3, <2>4
<1>13. F \in Bijection(S, T)
  <2>1. F \in [S -> T]
    BY <1>9, <1>10
  <2> QED  BY <1>11, <1>12, <2>1 DEF Bijection, Injection, Surjection, IsInjective
<1>14. ExistsBijection(S, T)
  BY <1>13 DEF ExistsBijection
<1>15. IsFiniteSet(S)
  <2>1. PICK one \in Int : one = 1
    OBVIOUS
  <2>2. IsFiniteSet(one..n)
    BY FS_Interval
  <2>3. S \subseteq one..n
    BY <1>8, <2>1
  <2> QED  BY <2>2, <2>3, FS_Subset
<1>16. Cardinality(T) = Cardinality(S)
  BY <1>14, <1>15, FS_Bijection
<1> QED  BY <1>2, <1>8, <1>16 DEF Times

-----------------------------------------------------------------------------
\* The list has the addresses of the answer, and the turns went around it.
ListOf(list, answer, ts) ==
    \E n \in Nat \ {0} :
        /\ answer \in Resolved /\ answer \in Seq(Addresses) /\ Len(answer) = n
        /\ list = [curr |-> list.curr, addr |-> list.addr]
        /\ list.addr \in Rearranged(answer, n)
        /\ Round(n, list.addr, list.curr, ts)

ListInv == rsal = NoList \/ ListOf(rsal, query.answer, turns)

LEMMA ArrayFacts ==
    ASSUME NEW n \in Nat, NEW a, NEW x \in Rearranged(a, n)
    PROVE  x \in [1..n -> Addresses] /\ x \in Seq(Addresses) /\ Len(x) = n
<1>1. x \in [1..n -> Addresses]
  BY DEF Rearranged
<1> QED  BY <1>1

LEMMA AnsweredList ==
    ASSUME NEW answer \in Resolved, NEW addr \in {answer} \cup rd_array_shuffle(answer)
    PROVE  ListOf([curr |-> 0, addr |-> addr], answer, <<>>)
<1>1. answer \in Seq(Addresses) /\ answer # <<>>
  BY AddrAssumption
<1>2. PICK n \in Nat \ {0} : n = Len(answer)
  BY <1>1, EmptySeq, LenProperties
<1>3. answer \in [1..n -> Addresses]
  BY <1>1, <1>2, LenProperties
<1>4. addr \in Rearranged(answer, n)
  <2>1. CASE addr = answer
    BY <1>3, <2>1, SameArranged
  <2>2. CASE addr \in rd_array_shuffle(answer)
    <3>1. Len(answer) = n
      BY <1>2
    <3> QED  BY <1>3, <2>2, <3>1, ShuffleFacts
  <2> QED  BY <2>1, <2>2
<1>5. PICK ts : ts = <<>>
  OBVIOUS
<1>6. ts \in Seq(Addresses) /\ Len(ts) = 0
  BY <1>5
<1>7. 0 \in 0..n - 1 /\ 0 <= n /\ \A k \in 1..0 : FALSE
  OBVIOUS
<1>8. Round(n, addr, 0, ts)
  BY <1>6, <1>7 DEF Round
<1>9. PICK list : list = [curr |-> 0, addr |-> addr]
  OBVIOUS
<1>10. list.curr = 0 /\ list.addr = addr
  BY <1>9
<1>11. ListOf(list, answer, ts)
  BY <1>1, <1>2, <1>4, <1>8, <1>9, <1>10 DEF ListOf
<1> QED  BY <1>5, <1>9, <1>11

LEMMA NextOfList ==
    ASSUME NEW list, NEW answer, NEW ts, ListOf(list, answer, ts),
           NEW curr, curr = (list.curr + 1) % Len(list.addr)
    PROVE  ListOf([list EXCEPT !.curr = curr], answer, LastOf(Len(list.addr), ts, list.addr[curr + 1]))
<1>1. PICK n \in Nat \ {0} :
        /\ answer \in Resolved /\ answer \in Seq(Addresses) /\ Len(answer) = n
        /\ list = [curr |-> list.curr, addr |-> list.addr]
        /\ list.addr \in Rearranged(answer, n)
        /\ Round(n, list.addr, list.curr, ts)
  BY DEF ListOf
<1>2. PICK addr, old : addr = list.addr /\ old = list.curr
  OBVIOUS
<1>3. addr \in [1..n -> Addresses] /\ Len(addr) = n
  BY <1>1, <1>2, ArrayFacts
<1>4. curr = (old + 1) % n
  BY <1>2, <1>3
<1>5. Round(n, addr, old, ts)
  BY <1>1, <1>2
<1>6. Round(n, addr, (old + 1) % n, LastOf(n, ts, addr[((old + 1) % n) + 1]))
  BY <1>3, <1>5, RoundStep
<1>7. PICK new : new = [list EXCEPT !.curr = curr]
  OBVIOUS
<1>8. list = [curr |-> old, addr |-> addr]
  BY <1>1, <1>2
<1>9. new = [curr |-> curr, addr |-> addr]
  BY <1>7, <1>8
<1>10. new.curr = curr /\ new.addr = addr
  BY <1>9
<1>11. PICK tt : tt = LastOf(n, ts, addr[curr + 1])
  OBVIOUS
<1>12. Round(n, addr, curr, tt)
  BY <1>4, <1>6, <1>11
<1>13. ListOf(new, answer, tt)
  BY <1>1, <1>2, <1>9, <1>10, <1>12 DEF ListOf
<1> QED  BY <1>2, <1>3, <1>7, <1>11, <1>13

LEMMA ListStep ==
    ASSUME ListInv, [TextNext \/ ListNext]_addrVars
    PROVE  ListInv'
<1>1. CASE UNCHANGED listVars
  BY <1>1 DEF ListInv, listVars
<1>2. ASSUME NEW s, NEW previous, rd_getaddrinfo(s, previous) PROVE ListInv'
  <2>1. CASE rsal' = NoList
    BY <2>1 DEF ListInv
  <2>2. CASE rsal' # NoList
    <3>1. PICK answer \in Resolved : query'.answer = answer /\ turns' = <<>>
            /\ \E addr \in {answer} \cup rd_array_shuffle(answer) : rsal' = [curr |-> 0, addr |-> addr]
      BY <1>2, <2>2 DEF rd_getaddrinfo, rd_getaddrinfo_fails
    <3>2. PICK addr \in {answer} \cup rd_array_shuffle(answer) : rsal' = [curr |-> 0, addr |-> addr]
      BY <3>1
    <3>3. ListOf([curr |-> 0, addr |-> addr], answer, <<>>)
      BY AnsweredList
    <3> QED  BY <3>1, <3>2, <3>3 DEF ListInv
  <2> QED  BY <2>1, <2>2
<1>3. CASE rd_sockaddr_list_next
  <2>1. rsal # NoList /\ query' = query
    BY <1>3 DEF rd_sockaddr_list_next
  <2>2. ListOf(rsal, query.answer, turns)
    BY <2>1 DEF ListInv
  <2>3. PICK curr : curr = (rsal.curr + 1) % Len(rsal.addr)
    OBVIOUS
  <2>4. /\ rsal' = [rsal EXCEPT !.curr = curr]
        /\ turns' = LastOf(Len(rsal.addr), turns, rsal.addr[curr + 1])
    BY <1>3, <2>3 DEF rd_sockaddr_list_next
  <2>5. ListOf([rsal EXCEPT !.curr = curr], query.answer, LastOf(Len(rsal.addr), turns, rsal.addr[curr + 1]))
    BY <2>2, <2>3, NextOfList
  <2> QED  BY <2>1, <2>4, <2>5 DEF ListInv
<1>4. CASE rd_sockaddr_list_destroy
  BY <1>4 DEF rd_sockaddr_list_destroy, ListInv
<1>5. CASE TextNext
  BY <1>1, <1>5 DEF TextNext, rd_sockaddr2str
<1>6. CASE ListNext
  BY <1>2, <1>3, <1>4, <1>6 DEF ListNext
<1>7. CASE UNCHANGED addrVars
  BY <1>1, <1>7 DEF addrVars
<1> QED  BY <1>5, <1>6, <1>7

LEMMA ListCounts ==
    ASSUME ListInv
    PROVE  EveryAddressInTurn
<1>1. SUFFICES ASSUME rsal # NoList, Len(turns) = Len(rsal.addr), NEW a
               PROVE  Cardinality({i \in DOMAIN turns : turns[i] = a})
                        = Cardinality({i \in DOMAIN query.answer : query.answer[i] = a})
  BY DEF EveryAddressInTurn
<1>2. ListOf(rsal, query.answer, turns)
  BY <1>1 DEF ListInv
<1>3. PICK answer, ts, addr, curr : answer = query.answer /\ ts = turns /\ addr = rsal.addr /\ curr = rsal.curr
  OBVIOUS
<1>4. PICK n \in Nat \ {0} : /\ answer \in Seq(Addresses) /\ Len(answer) = n
                             /\ addr \in Rearranged(answer, n) /\ Round(n, addr, curr, ts)
  BY <1>2, <1>3 DEF ListOf
<1>5. Len(ts) = n
  BY <1>1, <1>3, <1>4, ArrayFacts
<1>6. Times(ts, a) = Times(answer, a)
  BY <1>4, <1>5, RoundCounts
<1> QED  BY <1>3, <1>6 DEF Times

\* Whatever order rd_array_shuffle() leaves the addresses of rd_getaddrinfo()
\* in, rd_sockaddr_list_next() hands out each of them as often as the resolver
\* answered it in every round, for every list and any number of rounds.
THEOREM AddressesAlwaysInTurn == AddrSpec => []EveryAddressInTurn
<1>1. AddrInit => ListInv
  BY DEF AddrInit, ListInv
<1>2. ListInv /\ [TextNext \/ ListNext]_addrVars => ListInv'
  BY ListStep
<1>3. ListInv => EveryAddressInTurn
  BY ListCounts
<1> QED  BY <1>1, <1>2, <1>3, PTL DEF AddrSpec

-----------------------------------------------------------------------------
(* How rd_addrinfo_prepare() splits the texts of the documented forms.     *)

Symbols == STRING \cup {"[", "]", ":"}
Texts == Seq(Symbols)

\* The part of a text from a to b.
LEMMA PartFacts ==
    ASSUME NEW s \in Texts, NEW a \in Int, NEW b \in Int, 1 <= a, a <= b + 1, b <= Len(s)
    PROVE  /\ SubSeq(s, a, b) \in Texts /\ Len(SubSeq(s, a, b)) = b - a + 1
           /\ \A i \in 1..b - a + 1 : SubSeq(s, a, b)[i] = s[a + i - 1]
<1>1. PICK n \in Nat : n = Len(s) /\ \A i \in 1..n : s[i] \in Symbols
  BY LenProperties, ElementOfSeq DEF Texts
<1>2. \A i \in a..b : s[i] \in Symbols
  BY <1>1
<1>3. PICK p : p = SubSeq(s, a, b)
  OBVIOUS
<1>4. /\ p \in Seq(Symbols) /\ Len(p) = IF a <= b THEN b - a + 1 ELSE 0
      /\ \A i \in 1..b - a + 1 : p[i] = s[a + i - 1]
  BY <1>2, <1>3, SubSeqProperties
<1>5. Len(p) = b - a + 1
  BY <1>4
<1> QED  BY <1>3, <1>4, <1>5 DEF Texts

\* The colon at i ends the node and is the last one.
LastColon(s, i) ==
    /\ i \in 2..Len(s) - 1 /\ s[i] = ":"
    /\ \A k \in i + 1..Len(s) : s[k] # ":"
    /\ Len(s) - i < SsvcSize

LEMMA PlainSplit ==
    ASSUME NEW s \in Texts, NEW i, LastColon(s, i), s[1] # "[", s[i - 1] # ":", NEW previous
    PROVE  rd_addrinfo_prepare(s, previous) = Split("none", SubSeq(s, 1, i - 1), SubSeq(s, i + 1, Len(s)))
<1>1. PICK n \in Nat : n = Len(s)
  BY LenProperties DEF Texts
<1>2. /\ i \in 2..n - 1 /\ s[i] = ":" /\ n - i < SsvcSize
      /\ \A k \in i + 1..n : s[k] # ":"
  BY <1>1 DEF LastColon
<1>3. PICK P \in SUBSET Int : P = Places(s, ":", 1) /\ i \in P /\ \A k \in P : k <= i
  <2>1. Places(s, ":", 1) \in SUBSET Int /\ i \in Places(s, ":", 1)
    BY <1>1, <1>2 DEF Places
  <2>2. \A k \in Places(s, ":", 1) : k <= i
    BY <1>1, <1>2 DEF Places
  <2> QED  BY <2>1, <2>2
<1>4. Max(P) = i /\ P # {}
  BY <1>3, MaxIs
<1>5. PICK v : v = SubSeq(s, i + 1, n) /\ Len(v) = n - i
  <2>1. PICK a \in Int, b \in Int : a = i + 1 /\ b = n /\ 1 <= a /\ a <= b + 1 /\ b <= n
    <3>1. i + 1 \in Int /\ n \in Int /\ 1 <= i + 1 /\ i + 1 <= n + 1 /\ n <= n
      BY <1>2
    <3> QED  BY <3>1
  <2>2. Len(SubSeq(s, a, b)) = b - a + 1
    BY <1>1, <2>1, PartFacts
  <2>3. b - a + 1 = n - i
    BY <1>2, <2>1
  <2> QED  BY <2>1, <2>2, <2>3
<1>6. SsvcSize \in Nat
  BY AddrAssumption
<1>7. ~(n - i >= SsvcSize) /\ i # 1 /\ i < n /\ 1 + (i - 1) - 1 = i - 1
  BY <1>2, <1>6
<1> QED  BY <1>1, <1>3, <1>4, <1>5, <1>7 DEF rd_addrinfo_prepare

LEMMA EnvelopedSplit ==
    ASSUME NEW s \in Texts, NEW i, LastColon(s, i), i >= 4, s[1] = "[", s[i - 1] = "]",
           \A k \in 1..i - 2 : s[k] # "]", NEW previous
    PROVE  rd_addrinfo_prepare(s, previous) = Split("none", SubSeq(s, 2, i - 2), SubSeq(s, i + 1, Len(s)))
<1>1. PICK n \in Nat : n = Len(s)
  BY LenProperties DEF Texts
<1>2. /\ i \in 4..n - 1 /\ s[i] = ":" /\ n - i < SsvcSize
      /\ \A k \in i + 1..n : s[k] # ":"
  BY <1>1 DEF LastColon
<1>3. PICK C \in SUBSET Int, e \in Int : C = Places(s, "]", 1) /\ e = i - 1 /\ e \in C /\ \A k \in C : e <= k
  <2>1. Places(s, "]", 1) \in SUBSET Int /\ i - 1 \in Places(s, "]", 1) /\ i - 1 \in Int
    BY <1>1, <1>2 DEF Places
  <2>2. ASSUME NEW k \in Places(s, "]", 1) PROVE i - 1 <= k
    <3>1. k \in 1..n /\ s[k] = "]"
      BY <1>1 DEF Places
    <3>2. k \notin 1..i - 2
      BY <3>1
    <3> QED  BY <1>2, <3>1, <3>2
  <2> QED  BY <2>1, <2>2
<1>4. Min(C) = e /\ C # {}
  BY <1>3, MinIs
<1>5. PICK P \in SUBSET Int : P = Places(s, ":", e + 1) /\ i \in P /\ \A k \in P : k <= i
  <2>1. e + 1 = i
    BY <1>2, <1>3
  <2>2. Places(s, ":", i) \in SUBSET Int /\ i \in Places(s, ":", i)
    BY <1>1, <1>2 DEF Places
  <2>3. \A k \in Places(s, ":", i) : k <= i
    BY <1>1, <1>2 DEF Places
  <2> QED  BY <2>1, <2>2, <2>3
<1>6. Max(P) = i /\ P # {}
  BY <1>5, MaxIs
<1>7. PICK v : v = SubSeq(s, i + 1, n) /\ Len(v) = n - i
  <2>1. PICK a \in Int, b \in Int : a = i + 1 /\ b = n /\ 1 <= a /\ a <= b + 1 /\ b <= n
    <3>1. i + 1 \in Int /\ n \in Int /\ 1 <= i + 1 /\ i + 1 <= n + 1 /\ n <= n
      BY <1>2
    <3> QED  BY <3>1
  <2>2. Len(SubSeq(s, a, b)) = b - a + 1
    BY <1>1, <2>1, PartFacts
  <2>3. b - a + 1 = n - i
    BY <1>2, <2>1
  <2> QED  BY <2>1, <2>2, <2>3
<1>8. SsvcSize \in Nat
  BY AddrAssumption
<1>9. ~(n - i >= SsvcSize) /\ i # 1 /\ i < n /\ e - 2 # 0 /\ 2 + (e - 2) - 1 = i - 2
  BY <1>2, <1>3, <1>8
<1>10. s # <<>>
  BY <1>1, <1>2
<1> QED  BY <1>1, <1>3, <1>4, <1>5, <1>6, <1>7, <1>9, <1>10 DEF rd_addrinfo_prepare

LEMMA NodeSplit ==
    ASSUME NEW s \in Texts, NEW previous
    PROVE  /\ Enveloped(s) => rd_addrinfo_prepare(s, previous) = Split("none", SubSeq(s, 2, Len(s) - 1), <<>>)
           /\ Places(s, ":", 1) = {} /\ Plain(s) => rd_addrinfo_prepare(s, previous) = Split("none", s, <<>>)
<1>1. PICK n \in Nat : n = Len(s)
  BY LenProperties DEF Texts
<1>2. SsvcSize \in Nat /\ ~(0 >= SsvcSize)
  BY AddrAssumption
<1>3. Len(<<>>) = 0
  OBVIOUS
<1>4. ASSUME Enveloped(s)
      PROVE  rd_addrinfo_prepare(s, previous) = Split("none", SubSeq(s, 2, Len(s) - 1), <<>>)
  <2>1. n > 2 /\ s[1] = "[" /\ Places(s, "]", 1) = {n}
    BY <1>1, <1>4 DEF Enveloped
  <2>2. PICK C \in SUBSET Int, e \in Int : C = Places(s, "]", 1) /\ e = n /\ e \in C /\ \A k \in C : e <= k
    <3>1. {n} \in SUBSET Int /\ n \in Int /\ n \in {n} /\ n <= n
      OBVIOUS
    <3> QED  BY <2>1, <3>1
  <2>3. Min(C) = e /\ C # {}
    BY <2>2, MinIs
  <2>4. PICK P : P = Places(s, ":", e + 1) /\ P = {}
    BY <1>1, <2>2 DEF Places
  <2>5. e - 2 # 0 /\ 2 + (e - 2) - 1 = n - 1
    BY <2>1, <2>2
  <2>6. s # <<>> /\ s[1] = "["
    BY <1>1, <2>1
  <2> DEFINE inside == IF s # <<>> /\ s[1] = "[" THEN Min(Places(s, "]", 1)) - 2 ELSE 0
             colons == Places(s, ":", IF s # <<>> /\ s[1] = "[" THEN Min(Places(s, "]", 1)) + 1 ELSE 1)
             hasSvc == /\ colons # {} /\ Max(colons) < Len(s)
                       /\ (IF Max(colons) = 1 THEN previous ELSE s[Max(colons) - 1]) # ":"
  <2>7. inside = e - 2
    BY <2>2, <2>3, <2>6
  <2>8. colons = {}
    BY <2>2, <2>3, <2>4, <2>6
  <2>9. ~hasSvc
    BY <2>8
  <2>10. rd_addrinfo_prepare(s, previous) =
          IF Len(IF hasSvc THEN SubSeq(s, Max(colons) + 1, Len(s)) ELSE <<>>) >= SsvcSize
            THEN Split("Service name too long", <<>>, <<>>)
            ELSE Split("none", SubSeq(s, 2, 2 + (IF inside # 0 THEN inside
                                                 ELSE IF hasSvc THEN Max(colons) - 2 ELSE Len(s) - 2 + 1) - 1),
                       IF hasSvc THEN SubSeq(s, Max(colons) + 1, Len(s)) ELSE <<>>)
    BY <2>2, <2>3, <2>6 DEF rd_addrinfo_prepare
  <2> HIDE DEF inside, colons, hasSvc
  <2>11. rd_addrinfo_prepare(s, previous) = Split("none", SubSeq(s, 2, 2 + inside - 1), <<>>)
    BY <1>2, <1>3, <2>5, <2>7, <2>9, <2>10
  <2> QED  BY <1>1, <2>5, <2>7, <2>11
<1>5. ASSUME Places(s, ":", 1) = {}, Plain(s)
      PROVE  rd_addrinfo_prepare(s, previous) = Split("none", s, <<>>)
  <2>1. s # <<>> /\ s[1] # "["
    BY <1>5 DEF Plain
  <2>2. n - 1 + 1 = n /\ 1 + n - 1 = n
    OBVIOUS
  <2>3. SubSeq(s, 1, n) = s
    BY <1>1, SubSeqFull DEF Texts
  <2> QED  BY <1>1, <1>2, <1>3, <1>5, <2>1, <2>2, <2>3 DEF rd_addrinfo_prepare
<1> QED  BY <1>4, <1>5

\* A text of the documented form is split as meant.
SplitAsMeant(s, split) == \A m \in Meant(s) : split = m \/ Len(m.svc) >= SsvcSize

LEMMA SplitSvc ==
    ASSUME NEW node, NEW svc
    PROVE  Split("none", node, svc).svc = svc
BY DEF Split

LEMMA ColonMeant ==
    ASSUME NEW s \in Texts, NEW previous, NEW i \in Places(s, ":", 1),
           Svc(s, i) # <<>>, Places(s, ":", i + 1) = {},
           Plain(NodePart(s, i)) \/ Enveloped(NodePart(s, i)), Len(Svc(s, i)) < SsvcSize
    PROVE  rd_addrinfo_prepare(s, previous) = Split("none", Bare(NodePart(s, i)), Svc(s, i))
<1>1. PICK n \in Nat : n = Len(s)
  BY LenProperties DEF Texts
<1>2. i \in 1..n /\ i \in Int /\ s[i] = ":" /\ \A k \in i + 1..n : s[k] # ":"
  BY <1>1 DEF Places
<1>3. PICK j \in Int, l \in Int, one \in Int : j = i + 1 /\ l = i - 1 /\ one = 1
  <2>1. i + 1 \in Int /\ i - 1 \in Int
    BY <1>2
  <2> QED  BY <2>1
<1>4. PICK v : v = SubSeq(s, j, n) /\ v = Svc(s, i) /\ v \in Texts /\ Len(v) = n - i
  <2>1. n \in Int /\ 1 <= j /\ j <= n + 1 /\ n <= n /\ n - j + 1 = n - i
    BY <1>2, <1>3
  <2>2. SubSeq(s, j, n) \in Texts /\ Len(SubSeq(s, j, n)) = n - j + 1
    BY <1>1, <2>1, PartFacts
  <2> QED  BY <1>1, <1>3, <2>1, <2>2 DEF Svc
<1>5. PICK u : /\ u = SubSeq(s, one, l) /\ u = NodePart(s, i) /\ u \in Texts /\ Len(u) = l
               /\ \A k \in 1..l : u[k] = s[k]
  <2>1. 1 <= one /\ one <= l + 1 /\ l <= n /\ l - one + 1 = l /\ \A k \in 1..l : one + k - 1 = k
    BY <1>2, <1>3
  <2>2. /\ SubSeq(s, one, l) \in Texts /\ Len(SubSeq(s, one, l)) = l - one + 1
        /\ \A k \in 1..l - one + 1 : SubSeq(s, one, l)[k] = s[one + k - 1]
    BY <1>1, <2>1, PartFacts
  <2>3. PICK u : u = SubSeq(s, one, l)
    OBVIOUS
  <2>4. u \in Texts /\ Len(u) = l /\ \A k \in 1..l : u[k] = s[one + k - 1]
    BY <2>1, <2>2, <2>3
  <2>5. \A k \in 1..l : u[k] = s[k]
    BY <2>1, <2>4
  <2>6. u = NodePart(s, i)
    BY <1>3, <2>3 DEF NodePart
  <2> QED  BY <2>3, <2>4, <2>5, <2>6
<1>6. SsvcSize \in Nat
  BY AddrAssumption
<1>7. i < n /\ n - i < SsvcSize
  <2>1. n - i # 0
    BY <1>4, EmptySeq DEF Texts
  <2>2. n - i < SsvcSize
    BY <1>4
  <2> QED  BY <1>2, <2>1, <2>2
<1>8. CASE Plain(u)
  <2>1. u # <<>> /\ u[1] # "[" /\ u[l] # ":"
    BY <1>5, <1>8 DEF Plain
  <2>2. l # 0
    BY <1>5, <2>1, EmptySeq DEF Texts
  <2>3. l \in 1..l /\ 1 \in 1..l /\ i \in 2..n - 1
    BY <1>2, <1>3, <1>7, <2>2
  <2>4. s[1] # "[" /\ s[i - 1] # ":"
    BY <1>3, <1>5, <2>1, <2>3
  <2>5. LastColon(s, i)
    BY <1>1, <1>2, <1>7, <2>3 DEF LastColon
  <2>6. rd_addrinfo_prepare(s, previous) = Split("none", SubSeq(s, 1, i - 1), SubSeq(s, i + 1, Len(s)))
    BY <2>4, <2>5, PlainSplit
  <2>7. Bare(u) = u
    BY <2>1 DEF Bare, Enveloped
  <2> QED  BY <1>1, <1>3, <1>4, <1>5, <2>6, <2>7
<1>9. CASE Enveloped(u)
  <2>1. l > 2 /\ u[1] = "[" /\ Places(u, "]", 1) = {l}
    BY <1>5, <1>9 DEF Enveloped
  <2>2. u[l] = "]" /\ \A k \in 1..l - 1 : u[k] # "]"
    <3>1. l \in Places(u, "]", 1)
      BY <2>1
    <3>2. u[l] = "]"
      BY <3>1 DEF Places
    <3>3. ASSUME NEW k \in 1..l - 1, u[k] = "]" PROVE FALSE
      <4>1. k \in 1..l /\ k # l
        BY <2>1
      <4>2. k \in Places(u, "]", 1)
        BY <1>5, <3>3, <4>1 DEF Places
      <4> QED  BY <2>1, <4>1, <4>2
    <3> QED  BY <3>2, <3>3
  <2>3. l \in 1..l /\ 1 \in 1..l /\ i \in 2..n - 1 /\ i >= 4 /\ i - 2 = l - 1
    BY <1>2, <1>3, <1>7, <2>1
  <2>4. s[1] = "[" /\ s[i - 1] = "]"
    BY <1>3, <1>5, <2>1, <2>2, <2>3
  <2>5. \A k \in 1..i - 2 : s[k] # "]"
    <3>1. \A k \in 1..l - 1 : k \in 1..l
      BY <2>1
    <3> QED  BY <1>5, <2>2, <2>3, <3>1
  <2>6. LastColon(s, i)
    BY <1>1, <1>2, <1>7, <2>3 DEF LastColon
  <2>7. rd_addrinfo_prepare(s, previous) = Split("none", SubSeq(s, 2, i - 2), SubSeq(s, i + 1, Len(s)))
    BY <2>3, <2>4, <2>5, <2>6, EnvelopedSplit
  <2>8. Bare(u) = SubSeq(u, 2, l - 1)
    BY <1>5, <1>9 DEF Bare
  <2>9. SubSeq(u, 2, l - 1) = SubSeq(s, 2, i - 2)
    <3>1. PICK two \in Int, h \in Int : two = 2 /\ h = l - 1
      <4>1. l - 1 \in Int
        BY <1>3
      <4> QED  BY <4>1
    <3>2. 1 <= two /\ two <= h + 1 /\ h <= n /\ h <= l
      BY <1>2, <1>3, <2>1, <3>1
    <3>3. PICK x, y : x = SubSeq(u, two, h) /\ y = SubSeq(s, two, h)
      OBVIOUS
    <3>4. PICK w \in Int : w = h - two + 1
      <4>1. h - two + 1 \in Int
        OBVIOUS
      <4> QED  BY <4>1
    <3>5. x \in Texts /\ Len(x) = w /\ \A k \in 1..w : x[k] = u[two + k - 1]
      BY <1>5, <3>2, <3>3, <3>4, PartFacts
    <3>6. y \in Texts /\ Len(y) = w /\ \A k \in 1..w : y[k] = s[two + k - 1]
      BY <1>1, <3>2, <3>3, <3>4, PartFacts
    <3>7. \A k \in 1..w : two + k - 1 \in 1..l
      BY <3>1, <3>2, <3>4
    <3>8. \A k \in 1..w : x[k] = y[k]
      BY <1>5, <3>5, <3>6, <3>7
    <3>9. x = y
      BY <3>5, <3>6, <3>8, SeqEqual DEF Texts
    <3> QED  BY <2>3, <3>1, <3>3, <3>9
  <2> QED  BY <1>1, <1>3, <1>4, <1>5, <2>7, <2>8, <2>9
<1> QED  BY <1>5, <1>8, <1>9

LEMMA MeantSplit ==
    ASSUME NEW s \in Texts, NEW previous
    PROVE  SplitAsMeant(s, rd_addrinfo_prepare(s, previous))
<1>1. SUFFICES ASSUME NEW m \in Meant(s), ~(Len(m.svc) >= SsvcSize)
               PROVE  rd_addrinfo_prepare(s, previous) = m
  BY DEF SplitAsMeant
<1>2. CASE \E i \in Places(s, ":", 1) :
              /\ Svc(s, i) # <<>> /\ Places(s, ":", i + 1) = {}
              /\ Plain(NodePart(s, i)) \/ Enveloped(NodePart(s, i))
              /\ m = Split("none", Bare(NodePart(s, i)), Svc(s, i))
  <2>1. PICK i \in Places(s, ":", 1) :
              /\ Svc(s, i) # <<>> /\ Places(s, ":", i + 1) = {}
              /\ Plain(NodePart(s, i)) \/ Enveloped(NodePart(s, i))
              /\ m = Split("none", Bare(NodePart(s, i)), Svc(s, i))
    BY <1>2
  <2>2. m.svc = Svc(s, i)
    BY <2>1, SplitSvc
  <2>3. SsvcSize \in Nat
    BY AddrAssumption
  <2>4. Len(Svc(s, i)) \in Nat
    <3>1. PICK n \in Nat : n = Len(s)
      BY LenProperties DEF Texts
    <3>2. i \in 1..n
      BY <3>1 DEF Places
    <3>3. PICK j \in Int : j = i + 1
      <4>1. i + 1 \in Int
        BY <3>2
      <4> QED  BY <4>1
    <3>4. n \in Int /\ 1 <= j /\ j <= n + 1 /\ n <= n /\ n - j + 1 \in Nat
      BY <3>2, <3>3
    <3>5. Len(SubSeq(s, j, n)) = n - j + 1
      BY <3>1, <3>4, PartFacts
    <3> QED  BY <3>1, <3>3, <3>4, <3>5 DEF Svc
  <2>5. Len(Svc(s, i)) < SsvcSize
    BY <1>1, <2>2, <2>3, <2>4
  <2> QED  BY <2>1, <2>5, ColonMeant
<1>3. CASE (Enveloped(s) \/ (Places(s, ":", 1) = {} /\ Plain(s))) /\ m = Split("none", Bare(s), <<>>)
  <2>1. CASE Enveloped(s)
    BY <1>3, <2>1, NodeSplit DEF Bare
  <2>2. CASE Places(s, ":", 1) = {} /\ Plain(s)
    <3>1. Bare(s) = s
      BY <2>2 DEF Bare, Enveloped, Plain
    <3> QED  BY <1>3, <2>2, <3>1, NodeSplit
  <2> QED  BY <1>3, <2>1, <2>2
<1> QED  BY <1>2, <1>3 DEF Meant

-----------------------------------------------------------------------------
(* What rd_sockaddr2str() prints can be given to rd_getaddrinfo().         *)

\* What the record r of a call promises of its text.
ReadsBack(r) ==
    "PORT" \in r.flags /\ "FAMILY" \notin r.flags /\ r.name # <<>> =>
        \/ "RESOLVE" \in r.flags /\ Len(r.text) = RetSize - 1
        \/ \A previous \in {":", "a"} :
              rd_addrinfo_prepare(r.text, previous) = Split("none", r.name, Port)

LEMMA StringIsText ==
    ASSUME NEW t \in Seq(STRING)
    PROVE  t \in Texts
BY DEF Texts, Symbols

LEMMA PortFacts ==
    /\ Port \in Texts /\ Len(Port) \in Nat \ {0} /\ Len(Port) < SsvcSize
    /\ SsvcSize \in Nat /\ RetSize \in Nat \ {0}
    /\ \A k \in 1..Len(Port) : Port[k] # ":"
<1>1. Port \in Seq(STRING) /\ Port # <<>> /\ ":" \notin Range(Port) /\ Len(Port) < SsvcSize
  BY AddrAssumption DEF AddrTexts
<1>2. Len(Port) \in Nat \ {0}
  BY <1>1, EmptySeq, LenProperties
<1>3. \A k \in 1..Len(Port) : Port[k] # ":"
  BY <1>1 DEF Range
<1>4. Port \in Texts
  BY <1>1, StringIsText
<1> QED  BY <1>1, <1>2, <1>3, <1>4, AddrAssumption

\* Nothing of c is in the text.
Without(t, c) == \A k \in 1..Len(t) : t[k] # c

LEMMA RangeWithout ==
    ASSUME NEW t \in Texts, NEW c, c \notin Range(t)
    PROVE  Without(t, c)
BY DEF Texts, Range, Without

LEMMA JoinFacts ==
    ASSUME NEW a \in Texts, NEW b \in Texts, NEW n \in Nat, NEW m \in Nat, n = Len(a), m = Len(b)
    PROVE  /\ a \o b \in Texts /\ Len(a \o b) = n + m
           /\ \A k \in 1..n : (a \o b)[k] = a[k]
           /\ \A k \in 1..m : (a \o b)[n + k] = b[k]
<1>1. PICK s : s = a \o b
  OBVIOUS
<1>2. /\ s \in Texts /\ Len(s) = Len(a) + Len(b)
      /\ \A k \in 1..Len(a) + Len(b) : s[k] = IF k <= Len(a) THEN a[k] ELSE b[k - Len(a)]
  <2>1. a \in Seq(Symbols) /\ b \in Seq(Symbols)
    BY DEF Texts
  <2>2. /\ a \o b \in Seq(Symbols) /\ Len(a \o b) = Len(a) + Len(b)
        /\ \A i \in 1 .. Len(a) + Len(b) : (a \o b)[i] =
                     IF i <= Len(a) THEN a[i] ELSE b[i - Len(a)]
    BY <2>1, ConcatProperties
  <2> QED  BY <1>1, <2>2 DEF Texts
<1>3. ASSUME NEW k \in 1..n PROVE s[k] = a[k]
  <2>1. k \in 1..n + m /\ k <= n
    OBVIOUS
  <2> QED  BY <1>2, <2>1
<1>4. ASSUME NEW k \in 1..m PROVE s[n + k] = b[k]
  <2>1. n + k \in 1..n + m /\ ~(n + k <= n) /\ (n + k) - n = k
    OBVIOUS
  <2> QED  BY <1>2, <2>1
<1> QED  BY <1>1, <1>2, <1>3, <1>4

LEMMA SignFacts ==
    /\ <<":">> \in Texts /\ Len(<<":">>) = 1 /\ <<":">>[1] = ":"
    /\ <<"[">> \in Texts /\ Len(<<"[">>) = 1 /\ <<"[">>[1] = "["
    /\ <<"]", ":">> \in Texts /\ Len(<<"]", ":">>) = 2 /\ <<"]", ":">>[1] = "]" /\ <<"]", ":">>[2] = ":"
    /\ <<>> \in Texts /\ Len(<<>>) = 0
<1>1. ":" \in Symbols /\ "[" \in Symbols /\ "]" \in Symbols
  BY DEF Symbols
<1>2. PICK c \in Symbols, o \in Symbols, e \in Symbols : c = ":" /\ o = "[" /\ e = "]"
  BY <1>1
<1>3. <<c>> \in Seq(Symbols) /\ <<o>> \in Seq(Symbols) /\ <<e, c>> \in Seq(Symbols) /\ <<>> \in Seq(Symbols)
  BY <1>2
<1>4. Len(<<c>>) = 1 /\ <<c>>[1] = c /\ Len(<<o>>) = 1 /\ <<o>>[1] = o
  OBVIOUS
<1>5. Len(<<e, c>>) = 2 /\ <<e, c>>[1] = e /\ <<e, c>>[2] = c /\ Len(<<>>) = 0
  OBVIOUS
<1> QED  BY <1>2, <1>3, <1>4, <1>5 DEF Texts

\* The text s is str, then sep, which ends with a colon at i, then the port.
Printed(s, str, sep, i) ==
    /\ s \in Texts /\ LastColon(s, i)
    /\ \A k \in 1..Len(str) : s[k] = str[k]
    /\ \A k \in 1..Len(sep) : s[Len(str) + k] = sep[k]
    /\ SubSeq(s, i + 1, Len(s)) = Port

LEMMA PortBehind ==
    ASSUME NEW str \in Texts, NEW sep \in Texts, NEW n \in Nat \ {0}, n = Len(str),
           NEW d \in Nat \ {0}, d = Len(sep), sep[d] = ":"
    PROVE  Printed(str \o (sep \o Port), str, sep, n + d)
<1>1. PICK p \in Nat \ {0} : p = Len(Port) /\ p < SsvcSize /\ Port \in Texts /\ \A k \in 1..p : Port[k] # ":"
  BY PortFacts
<1>2. PICK t : t = sep \o Port
  OBVIOUS
<1>3. /\ t \in Texts /\ Len(t) = d + p
      /\ \A k \in 1..d : t[k] = sep[k]
      /\ \A k \in 1..p : t[d + k] = Port[k]
  BY <1>1, <1>2, JoinFacts
<1>4. PICK s : s = str \o t
  OBVIOUS
<1>5. PICK m \in Nat : m = d + p /\ m = Len(t)
  <2>1. d + p \in Nat
    OBVIOUS
  <2> QED  BY <1>3, <2>1
<1>6. /\ s \in Texts /\ Len(s) = n + m
      /\ \A k \in 1..n : s[k] = str[k]
      /\ \A k \in 1..m : s[n + k] = t[k]
  <2>1. t \in Texts /\ m = Len(t) /\ n \in Nat
    BY <1>3, <1>5
  <2>2. /\ str \o t \in Texts /\ Len(str \o t) = n + m
        /\ \A k \in 1..n : (str \o t)[k] = str[k]
        /\ \A k \in 1..m : (str \o t)[n + k] = t[k]
    BY <2>1, JoinFacts
  <2> QED  BY <1>4, <2>2
<1>7. PICK i \in Int : i = n + d
  <2>1. n + d \in Int
    OBVIOUS
  <2> QED  BY <2>1
<1>8. ASSUME NEW k \in 1..d PROVE s[n + k] = sep[k]
  <2>1. k \in 1..m
    BY <1>5
  <2> QED  BY <1>3, <1>6, <2>1
<1>9. ASSUME NEW k \in 1..p PROVE s[i + k] = Port[k]
  <2>1. d + k \in 1..m /\ n + (d + k) = i + k
    BY <1>5, <1>7
  <2> QED  BY <1>3, <1>6, <2>1
<1>10. PICK l \in Nat : l = Len(s) /\ l = i + p
  <2>1. n + m \in Nat /\ n + m = i + p
    BY <1>5, <1>7
  <2> QED  BY <1>6, <2>1
<1>11. LastColon(s, i)
  <2>1. ASSUME NEW k \in i + 1..l PROVE s[k] # ":"
    <3>1. k - i \in 1..p /\ i + (k - i) = k
      BY <1>10
    <3> QED  BY <1>1, <1>9, <3>1
  <2>2. s[i] = ":"
    <3>1. d \in 1..d
      OBVIOUS
    <3> QED  BY <1>7, <1>8, <3>1
  <2>3. i \in 2..l - 1 /\ l - i = p
    BY <1>7, <1>10
  <2> QED  BY <1>1, <1>10, <2>1, <2>2, <2>3 DEF LastColon
<1>12. SubSeq(s, i + 1, l) = Port
  <2>1. PICK a \in Int : a = i + 1
    <3>1. i + 1 \in Int
      OBVIOUS
    <3> QED  BY <3>1
  <2>2. l \in Int /\ 1 <= a /\ a <= l + 1 /\ l <= Len(s) /\ l - a + 1 = p /\ \A k \in 1..p : a + k - 1 = i + k
    BY <1>7, <1>10, <2>1
  <2>3. PICK x : x = SubSeq(s, a, l)
    OBVIOUS
  <2>4. x \in Texts /\ Len(x) = l - a + 1 /\ \A k \in 1..l - a + 1 : x[k] = s[a + k - 1]
    BY <1>6, <2>2, <2>3, PartFacts
  <2>5. Len(x) = p /\ \A k \in 1..p : x[k] = Port[k]
    BY <1>9, <2>2, <2>4
  <2>6. x = Port
    BY <1>1, <2>4, <2>5, SeqEqual DEF Texts
  <2> QED  BY <2>1, <2>3, <2>6
<1>13. Printed(s, str, sep, i)
  BY <1>6, <1>8, <1>10, <1>11, <1>12 DEF Printed
<1> QED  BY <1>2, <1>4, <1>7, <1>13

\* The text of an IPv4 address with its port.
LEMMA PlainReadsBack ==
    ASSUME NEW name \in Texts, name # <<>>, Without(name, "["), Without(name, ":"), NEW previous
    PROVE  rd_addrinfo_prepare(name \o (<<":">> \o Port), previous) = Split("none", name, Port)
<1>1. PICK n \in Nat \ {0} : n = Len(name)
  BY EmptySeq, LenProperties DEF Texts
<1>2. PICK sep \in Texts, one \in Nat \ {0} : sep = <<":">> /\ one = 1 /\ one = Len(sep) /\ sep[one] = ":"
  BY SignFacts
<1>3. PICK s, i : s = name \o (sep \o Port) /\ i = n + one
  OBVIOUS
<1>4. Printed(s, name, sep, i)
  BY <1>1, <1>2, <1>3, PortBehind
<1>5. s \in Texts /\ LastColon(s, i) /\ (\A k \in 1..n : s[k] = name[k]) /\ SubSeq(s, i + 1, Len(s)) = Port
  BY <1>1, <1>4 DEF Printed
<1>6. 1 \in 1..n /\ n \in 1..n /\ i - 1 = n
  BY <1>2, <1>3
<1>7. s[1] # "[" /\ s[i - 1] # ":"
  BY <1>1, <1>5, <1>6 DEF Without
<1>8. rd_addrinfo_prepare(s, previous) = Split("none", SubSeq(s, 1, i - 1), SubSeq(s, i + 1, Len(s)))
  BY <1>5, <1>7, PlainSplit
<1>9. SubSeq(s, 1, n) = name
  <2>1. PICK a \in Int : a = 1
    OBVIOUS
  <2>2. n <= Len(s)
    <3>1. i \in 2..Len(s) - 1 /\ Len(s) \in Nat
      BY <1>5, LenProperties DEF LastColon, Texts
    <3> QED  BY <1>6, <3>1
  <2>3. n \in Int /\ 1 <= a /\ a <= n + 1 /\ n - a + 1 = n /\ \A k \in 1..n : a + k - 1 = k
    BY <2>1
  <2>4. PICK x : x = SubSeq(s, a, n)
    OBVIOUS
  <2>5. x \in Texts /\ Len(x) = n - a + 1 /\ \A k \in 1..n - a + 1 : x[k] = s[a + k - 1]
    BY <1>5, <2>2, <2>3, <2>4, PartFacts
  <2>6. Len(x) = n /\ \A k \in 1..n : x[k] = name[k]
    BY <1>5, <2>3, <2>5
  <2>7. x = name
    BY <1>1, <2>5, <2>6, SeqEqual DEF Texts
  <2> QED  BY <2>1, <2>4, <2>7
<1> QED  BY <1>2, <1>3, <1>5, <1>6, <1>8, <1>9

\* The text of an IPv6 address, in brackets, with its port.
LEMMA EnvelopedReadsBack ==
    ASSUME NEW name \in Texts, name # <<>>, Without(name, "]"), NEW previous
    PROVE  rd_addrinfo_prepare((<<"[">> \o name) \o (<<"]", ":">> \o Port), previous) = Split("none", name, Port)
<1>1. PICK n \in Nat \ {0} : n = Len(name)
  BY EmptySeq, LenProperties DEF Texts
<1>2. PICK sep \in Texts, two \in Nat \ {0} :
        sep = <<"]", ":">> /\ two = 2 /\ two = Len(sep) /\ sep[1] = "]" /\ sep[two] = ":"
  <2>1. PICK sep : sep = <<"]", ":">>
    OBVIOUS
  <2>2. sep \in Texts /\ Len(sep) = 2 /\ sep[1] = "]" /\ sep[2] = ":"
    BY <2>1, SignFacts
  <2>3. 2 \in Nat \ {0}
    OBVIOUS
  <2> QED  BY <2>1, <2>2, <2>3
<1>3. PICK open \in Texts, one \in Nat : open = <<"[">> /\ one = 1 /\ one = Len(open) /\ open[1] = "["
  <2>1. PICK open : open = <<"[">>
    OBVIOUS
  <2>2. open \in Texts /\ Len(open) = 1 /\ open[1] = "["
    BY <2>1, SignFacts
  <2>3. 1 \in Nat
    OBVIOUS
  <2> QED  BY <2>1, <2>2, <2>3
<1>4. PICK str : str = open \o name
  OBVIOUS
<1>5. /\ str \in Texts /\ Len(str) = one + n
      /\ \A k \in 1..one : str[k] = open[k]
      /\ \A k \in 1..n : str[one + k] = name[k]
  <2>1. open \in Texts /\ one = Len(open) /\ n \in Nat /\ n = Len(name)
    BY <1>1, <1>3
  <2>2. /\ open \o name \in Texts /\ Len(open \o name) = one + n
        /\ \A k \in 1..one : (open \o name)[k] = open[k]
        /\ \A k \in 1..n : (open \o name)[one + k] = name[k]
    BY <2>1, JoinFacts
  <2> QED  BY <1>4, <2>2
<1>6. PICK l \in Nat \ {0} : l = one + n /\ l = Len(str)
  <2>1. one + n \in Nat \ {0}
    OBVIOUS
  <2> QED  BY <1>5, <2>1
<1>7. PICK s, i : s = str \o (sep \o Port) /\ i = l + two
  OBVIOUS
<1>8. Printed(s, str, sep, i)
  BY <1>2, <1>5, <1>6, <1>7, PortBehind
<1>9. /\ s \in Texts /\ LastColon(s, i) /\ SubSeq(s, i + 1, Len(s)) = Port
      /\ \A k \in 1..l : s[k] = str[k]
      /\ \A k \in 1..two : s[l + k] = sep[k]
  BY <1>2, <1>6, <1>8 DEF Printed
<1>10. /\ i \in Int /\ i >= 4 /\ i - 2 = l /\ i - 1 = l + 1 /\ 1 \in 1..l /\ 1 \in 1..one /\ 1 \in 1..two
       /\ l = n + 1
  BY <1>2, <1>3, <1>6, <1>7
<1>11. s[1] = "[" /\ s[i - 1] = "]"
  BY <1>2, <1>3, <1>5, <1>9, <1>10
<1>12. ASSUME NEW k \in 1..n PROVE s[k + 1] = name[k]
  <2>1. one + k \in 1..l /\ one + k = k + 1
    BY <1>3, <1>6
  <2> QED  BY <1>5, <1>9, <2>1
<1>13. ASSUME NEW k \in 1..i - 2 PROVE s[k] # "]"
  <2>1. CASE k = 1
    BY <1>11, <2>1
  <2>2. CASE k # 1
    <3>1. k - 1 \in 1..n /\ (k - 1) + 1 = k
      BY <1>10, <2>2
    <3> QED  BY <1>1, <1>12, <3>1 DEF Without
  <2> QED  BY <2>1, <2>2
<1>14. rd_addrinfo_prepare(s, previous) = Split("none", SubSeq(s, 2, i - 2), SubSeq(s, i + 1, Len(s)))
  BY <1>9, <1>10, <1>11, <1>13, EnvelopedSplit
<1>15. SubSeq(s, 2, l) = name
  <2>1. PICK a \in Int : a = 2
    OBVIOUS
  <2>2. l <= Len(s)
    <3>1. i \in 2..Len(s) - 1 /\ Len(s) \in Nat
      BY <1>9, LenProperties DEF LastColon, Texts
    <3> QED  BY <1>10, <3>1
  <2>3. l \in Int /\ 1 <= a /\ a <= l + 1 /\ l - a + 1 = n /\ \A k \in 1..n : a + k - 1 = k + 1
    BY <1>10, <2>1
  <2>4. PICK x : x = SubSeq(s, a, l)
    OBVIOUS
  <2>5. x \in Texts /\ Len(x) = l - a + 1 /\ \A k \in 1..l - a + 1 : x[k] = s[a + k - 1]
    BY <1>9, <2>2, <2>3, <2>4, PartFacts
  <2>6. Len(x) = n /\ \A k \in 1..n : x[k] = name[k]
    BY <1>12, <2>3, <2>5
  <2>7. x = name
    BY <1>1, <2>5, <2>6, SeqEqual DEF Texts
  <2> QED  BY <2>1, <2>4, <2>7
<1> QED  BY <1>2, <1>3, <1>4, <1>7, <1>9, <1>10, <1>14, <1>15

\* rd_snprintf_cat() adds everything, or fills the buffer.
LEMMA FitsOrFills ==
    ASSUME NEW str \in Texts, NEW more \in Texts, NEW n \in Nat, n = Len(str), NEW m \in Nat, m = Len(more),
           n < RetSize
    PROVE  \/ rd_snprintf_cat(str, RetSize, more) = str \o more
           \/ n + m >= RetSize /\ Len(rd_snprintf_cat(str, RetSize, more)) = RetSize - 1
<1>1. PICK size \in Nat \ {0} : size = RetSize /\ n < size
  BY PortFacts
<1>2. PICK r \in Nat : r = size - n - 1
  <2>1. size - n - 1 \in Nat
    BY <1>1
  <2> QED  BY <2>1
<1>3. PICK q : q = Min({m, r})
  OBVIOUS
<1>4. q \in Nat /\ q <= m /\ q <= r /\ (q = m \/ q = r)
  BY <1>3, MinOfTwo
<1>5. rd_snprintf_cat(str, RetSize, more) = str \o SubSeq(more, 1, q)
  <2>1. ~(Len(str) >= RetSize)
    BY <1>1
  <2>2. q = Min({Len(more), RetSize - Len(str) - 1})
    BY <1>1, <1>2, <1>3
  <2> QED  BY <2>1, <2>2 DEF rd_snprintf_cat
<1>6. CASE q = m
  <2>1. SubSeq(more, 1, q) = more
    BY <1>6, SubSeqFull DEF Texts
  <2> QED  BY <1>5, <2>1
<1>7. CASE q # m
  <2>1. q = r /\ q < m /\ n + m >= size /\ n + q = size - 1
    BY <1>2, <1>4, <1>7
  <2>2. PICK part : part = SubSeq(more, 1, q) /\ part \in Texts /\ Len(part) = q
    <3>1. PICK one \in Int : one = 1
      OBVIOUS
    <3>2. q \in Int /\ 1 <= one /\ one <= q + 1 /\ q <= m /\ q - one + 1 = q
      BY <1>4, <3>1
    <3>3. SubSeq(more, one, q) \in Texts /\ Len(SubSeq(more, one, q)) = q - one + 1
      BY <3>1, <3>2, PartFacts
    <3> QED  BY <3>1, <3>2, <3>3
  <2>3. q \in Nat /\ q = Len(part)
    BY <1>4, <2>2
  <2>4. Len(str \o part) = n + q
    <3>1. str \in Texts /\ part \in Texts /\ n \in Nat /\ n = Len(str)
      BY <1>1, <2>2
    <3> QED  BY <2>3, <3>1, JoinFacts
  <2> QED  BY <1>1, <1>5, <2>1, <2>2, <2>4
<1> QED  BY <1>6, <1>7

\* The addresses that the code prints, and of which family.
Host(family, host) == (family = "inet" /\ host \in V4Hosts) \/ (family = "inet6" /\ host \in V6Hosts)

LEMMA NameFacts ==
    ASSUME NEW family, NEW host, Host(family, host), NEW flags, NEW room,
           NEW name \in getnameinfo(host, flags, room)
    PROVE  /\ name \in Texts /\ Len(name) < room
           /\ Without(name, "[") /\ Without(name, "]") /\ (family = "inet" => Without(name, ":"))
           /\ "RESOLVE" \notin flags => Len(name) + Len(Port) + 3 < RetSize
<1>1. (name = host \/ (name \in HostNames /\ "RESOLVE" \in flags)) /\ Len(name) < room
  BY DEF getnameinfo
<1>2. name \in Seq(STRING) /\ "[" \notin Range(name) /\ "]" \notin Range(name)
      /\ (family = "inet" => ":" \notin Range(name))
  <2>1. CASE name = host /\ family = "inet"
    <3>1. name \in V4Hosts
      BY <2>1 DEF Host
    <3> QED  BY <3>1, AddrAssumption DEF AddrTexts
  <2>2. CASE name = host /\ family = "inet6"
    <3>1. name \in V6Hosts
      BY <2>2 DEF Host
    <3> QED  BY <2>2, <3>1, AddrAssumption DEF AddrTexts
  <2>3. CASE name \in HostNames
    BY <2>3, AddrAssumption DEF AddrTexts
  <2> QED  BY <1>1, <2>1, <2>2, <2>3 DEF Host
<1>3. name \in Texts
  BY <1>2, StringIsText
<1>4. ASSUME "RESOLVE" \notin flags PROVE Len(name) + Len(Port) + 3 < RetSize
  <2>1. name \in V4Hosts \cup V6Hosts
    BY <1>1, <1>4 DEF Host
  <2> QED  BY <2>1, AddrAssumption
<1> QED  BY <1>1, <1>2, <1>3, <1>4, RangeWithout

\* What rd_sockaddr2str() returns for an address is read back.
LEMMA TextReadsBack ==
    ASSUME NEW family, NEW host, Host(family, host), NEW flags, NEW r,
           NEW name \in getnameinfo(host, flags, RetSize - Len(Start(family, flags))),
           r.flags = flags, r.name = name,
           r.text = rd_snprintf_cat(Start(family, flags) \o name, RetSize, End(family, flags))
    PROVE  ReadsBack(r)
<1>1. SUFFICES ASSUME "PORT" \in flags, "FAMILY" \notin flags, name # <<>>
               PROVE  \/ "RESOLVE" \in flags /\ Len(r.text) = RetSize - 1
                      \/ \A previous \in {":", "a"} :
                            rd_addrinfo_prepare(r.text, previous) = Split("none", name, Port)
  BY DEF ReadsBack
<1>2. PICK n \in Nat : n = Len(name) /\ name \in Texts
  BY NameFacts, LenProperties DEF Texts
<1>3. PICK p \in Nat : p = Len(Port) /\ Port \in Texts
  BY PortFacts
<1>4. RetSize \in Nat \ {0}
  BY PortFacts
<1>5. "RESOLVE" \notin flags => n + p + 3 < RetSize
  BY <1>2, <1>3, NameFacts
<1>6. CASE family = "inet"
  <2>1. Start(family, flags) = <<>> /\ End(family, flags) = <<":">> \o Port
    <3>1. Opening(family, flags) = <<>>
      BY <1>6 DEF Opening
    <3>2. End(family, flags) = <<":">> \o Port
      BY <1>1, <1>6 DEF End
    <3>3. Start(family, flags) = <<>> \o <<>>
      BY <1>1, <3>1 DEF Start
    <3> QED  BY <3>2, <3>3, SignFacts, ConcatEmptySeq DEF Texts
  <2>2. <<>> \o name = name
    BY <1>2, ConcatEmptySeq DEF Texts
  <2>3. n < RetSize
    <3>1. n < RetSize - Len(Start(family, flags))
      BY <1>2, NameFacts
    <3> QED  BY <1>4, <2>1, <3>1, SignFacts
  <2>4. PICK sep \in Texts, one \in Nat : sep = <<":">> /\ one = 1 /\ one = Len(sep)
    BY SignFacts
  <2>5. PICK more : more = sep \o Port
    OBVIOUS
  <2>6. more \in Texts /\ Len(more) = one + p
    <3>1. sep \in Texts /\ one = Len(sep) /\ Port \in Texts /\ p = Len(Port)
      BY <1>3, <2>4
    <3>2. sep \o Port \in Texts /\ Len(sep \o Port) = one + p
      BY <3>1, JoinFacts
    <3> QED  BY <2>5, <3>2
  <2>7. PICK m \in Nat : m = Len(more) /\ m = 1 + p
    <3>1. 1 + p \in Nat
      OBVIOUS
    <3> QED  BY <2>4, <2>6, <3>1
  <2>8. r.text = rd_snprintf_cat(name, RetSize, more)
    BY <2>1, <2>2, <2>4, <2>5
  <2>9. \/ rd_snprintf_cat(name, RetSize, more) = name \o more
        \/ n + m >= RetSize /\ Len(rd_snprintf_cat(name, RetSize, more)) = RetSize - 1
    <3>1. name \in Texts /\ more \in Texts /\ n = Len(name) /\ m = Len(more) /\ n < RetSize
      BY <1>2, <2>3, <2>6, <2>7
    <3> QED  BY <3>1, FitsOrFills
  <2>10. CASE n + m >= RetSize
    <3>1. "RESOLVE" \in flags
      BY <1>4, <1>5, <2>7, <2>10
    <3>2. CASE r.text = name \o more
      <4>1. ASSUME NEW previous PROVE rd_addrinfo_prepare(name \o (<<":">> \o Port), previous) = Split("none", name, Port)
        BY <1>1, <1>2, <1>6, NameFacts, PlainReadsBack
      <4> QED  BY <2>4, <2>5, <3>2, <4>1
    <3> QED  BY <2>8, <2>9, <3>1, <3>2
  <2>11. CASE ~(n + m >= RetSize)
    <3>1. r.text = name \o (<<":">> \o Port)
      BY <2>4, <2>5, <2>8, <2>9, <2>11
    <3>2. ASSUME NEW previous PROVE rd_addrinfo_prepare(name \o (<<":">> \o Port), previous) = Split("none", name, Port)
      BY <1>1, <1>2, <1>6, NameFacts, PlainReadsBack
    <3> QED  BY <3>1, <3>2
  <2> QED  BY <2>10, <2>11
<1>7. CASE family = "inet6"
  <2>1. PICK open \in Texts, one \in Nat : open = <<"[">> /\ one = 1 /\ one = Len(open)
    BY SignFacts
  <2>2. Start(family, flags) = open /\ End(family, flags) = <<"]", ":">> \o Port
    <3>1. Opening(family, flags) = open
      BY <1>1, <1>7, <2>1 DEF Opening
    <3>2. End(family, flags) = <<"]", ":">> \o Port
      BY <1>1, <1>7 DEF End
    <3>3. Start(family, flags) = <<>> \o open
      BY <1>1, <3>1 DEF Start
    <3> QED  BY <2>1, <3>2, <3>3, ConcatEmptySeq DEF Texts
  <2>3. PICK str : str = open \o name
    OBVIOUS
  <2>4. str \in Texts /\ Len(str) = one + n
    <3>1. open \in Texts /\ one = Len(open) /\ name \in Texts /\ n = Len(name)
      BY <1>2, <2>1
    <3>2. open \o name \in Texts /\ Len(open \o name) = one + n
      BY <3>1, JoinFacts
    <3> QED  BY <2>3, <3>2
  <2>5. PICK l \in Nat : l = Len(str) /\ l = n + 1
    <3>1. n + 1 \in Nat /\ one + n = n + 1
      BY <2>1
    <3> QED  BY <2>4, <3>1
  <2>6. l < RetSize
    <3>1. n < RetSize - Len(Start(family, flags))
      BY <1>2, NameFacts
    <3> QED  BY <1>4, <2>1, <2>2, <2>5, <3>1
  <2>7. PICK sep \in Texts, two \in Nat : sep = <<"]", ":">> /\ two = 2 /\ two = Len(sep)
    <3>1. PICK sep : sep = <<"]", ":">>
      OBVIOUS
    <3>2. sep \in Texts /\ Len(sep) = 2
      BY <3>1, SignFacts
    <3>3. 2 \in Nat
      OBVIOUS
    <3> QED  BY <3>1, <3>2, <3>3
  <2>8. PICK more : more = sep \o Port
    OBVIOUS
  <2>9. more \in Texts /\ Len(more) = two + p
    <3>1. sep \in Texts /\ two = Len(sep) /\ Port \in Texts /\ p = Len(Port)
      BY <1>3, <2>7
    <3>2. sep \o Port \in Texts /\ Len(sep \o Port) = two + p
      BY <3>1, JoinFacts
    <3> QED  BY <2>8, <3>2
  <2>10. PICK m \in Nat : m = Len(more) /\ m = 2 + p
    <3>1. 2 + p \in Nat
      OBVIOUS
    <3> QED  BY <2>7, <2>9, <3>1
  <2>11. r.text = rd_snprintf_cat(str, RetSize, more)
    BY <2>2, <2>3, <2>7, <2>8
  <2>12. \/ rd_snprintf_cat(str, RetSize, more) = str \o more
         \/ l + m >= RetSize /\ Len(rd_snprintf_cat(str, RetSize, more)) = RetSize - 1
    <3>1. str \in Texts /\ more \in Texts /\ l = Len(str) /\ m = Len(more) /\ l < RetSize
      BY <2>4, <2>5, <2>6, <2>9, <2>10
    <3> QED  BY <3>1, FitsOrFills
  <2>13. ASSUME NEW previous
         PROVE  rd_addrinfo_prepare((<<"[">> \o name) \o (<<"]", ":">> \o Port), previous) = Split("none", name, Port)
    BY <1>1, <1>2, NameFacts, EnvelopedReadsBack
  <2>14. ASSUME NEW previous, r.text = str \o more
         PROVE  rd_addrinfo_prepare(r.text, previous) = Split("none", name, Port)
    BY <2>1, <2>3, <2>7, <2>8, <2>13, <2>14
  <2>15. CASE r.text = str \o more
    BY <2>14, <2>15
  <2>16. CASE r.text # str \o more
    <3>1. l + m >= RetSize /\ Len(r.text) = RetSize - 1
      BY <2>11, <2>12, <2>16
    <3>2. "RESOLVE" \in flags
      BY <1>4, <1>5, <2>5, <2>10, <3>1
    <3> QED  BY <3>1, <3>2
  <2> QED  BY <2>15, <2>16
<1> QED  BY <1>6, <1>7 DEF Host

-----------------------------------------------------------------------------
\* The calls that are remembered used the slots behind reti in their order,
\* and their texts are there.
Reads(s, rs, i) ==
    /\ i \in 0..RetCnt - 1 /\ DOMAIN rs = 0..RetCnt - 1
    /\ (\E S : s \in Seq(S)) /\ Len(s) <= RetCnt
    /\ \A k \in 1..Len(s) : /\ s[k].i = Back(RetCnt, i, Len(s) - k)
                            /\ rs[s[k].i] = s[k].text /\ ReadsBack(s[k])

TextInv == Reads(shown, ret, reti)
SplitInv == SplitAsMeant(query.nodesvc, query.split)

LEMMA ReadsStep ==
    ASSUME NEW s, NEW rs, NEW i, Reads(s, rs, i), NEW e, e.i = (i + 1) % RetCnt, ReadsBack(e)
    PROVE  Reads(LastOf(RetCnt, s, e), [rs EXCEPT ![e.i] = e.text], e.i)
<1>1. PICK n \in Nat \ {0} : n = RetCnt
  BY AddrAssumption
<1>2. PICK S : s \in Seq(S)
  BY DEF Reads
<1>3. i \in 0..n - 1 /\ DOMAIN rs = 0..n - 1 /\ Len(s) <= n
  BY <1>1 DEF Reads
<1>4. PICK next : next = e.i /\ next = (i + 1) % n
  BY <1>1
<1>5. /\ next \in 0..n - 1
      /\ \A d \in 0..n - 2 : Back(n, next, d + 1) = Back(n, i, d) /\ Back(n, i, d) # next
      /\ \A d \in 0..n - 1 : Back(n, i, d) \in 0..n - 1
  <2>1. /\ (i + 1) % n \in 0..n - 1
        /\ \A d \in 0..n - 2 : Back(n, (i + 1) % n, d + 1) = Back(n, i, d) /\ Back(n, i, d) # (i + 1) % n
        /\ \A d \in 0..n - 1 : Back(n, i, d) \in 0..n - 1
    BY <1>3, BackFacts
  <2> QED  BY <1>4, <2>1
<1>6. PICK T : T = S \cup {e} /\ s \in Seq(T) /\ e \in T
  <2>1. s \in Seq(S \cup {e})
    BY <1>2
  <2> QED  BY <2>1
<1>7. PICK new : new = LastOf(n, s, e)
  OBVIOUS
<1>8. Continues(new, n, s, T, e)
  BY <1>3, <1>6, <1>7, LastOfFacts
<1>9. PICK l \in Nat, m \in Nat : l = Len(s) /\ m = Len(new)
  BY <1>6, <1>8, LenProperties DEF Continues
<1>10. PICK o \in Int : o = l + 1 - m
  <2>1. l + 1 - m \in Int
    OBVIOUS
  <2> QED  BY <2>1
<1>11. /\ new \in Seq(T) /\ m <= n /\ m \in 1..l + 1 /\ new[m] = e
       /\ \A k \in 1..m - 1 : k + o \in 1..l /\ new[k] = s[k + o]
  BY <1>8, <1>9, <1>10 DEF Continues
<1>12. PICK rs2 : rs2 = [rs EXCEPT ![next] = e.text]
  OBVIOUS
<1>13. ASSUME NEW k \in 1..m
       PROVE  /\ new[k].i = Back(n, next, m - k)
              /\ rs2[new[k].i] = new[k].text /\ ReadsBack(new[k])
  <2>1. CASE k = m
    <3>1. m - k = 0 /\ 0 <= next /\ next - 0 = next
      BY <1>5, <2>1
    <3>2. Back(n, next, m - k) = next
      BY <3>1 DEF Back
    <3>3. new[k] = e /\ rs2[next] = e.text
      BY <1>3, <1>5, <1>11, <1>12, <2>1
    <3> QED  BY <1>4, <3>2, <3>3
  <2>2. CASE k # m
    <3>1. PICK j \in 1..l : j = k + o /\ new[k] = s[j]
      <4>1. k \in 1..m - 1
        BY <2>2
      <4> QED  BY <1>11, <4>1
    <3>2. PICK d \in 0..n - 2 : d = l - j /\ d + 1 = m - k
      <4>1. l - j \in 0..n - 2 /\ (l - j) + 1 = m - k
        <5>1. l - j = m - k - 1
          BY <1>10, <3>1
        <5> QED  BY <1>11, <2>2, <5>1
      <4> QED  BY <4>1
    <3>3. s[j].i = Back(n, i, d) /\ rs[s[j].i] = s[j].text /\ ReadsBack(s[j])
      BY <1>1, <1>9, <3>1, <3>2 DEF Reads
    <3>4. PICK b \in 0..n - 1 : b = Back(n, i, d) /\ b = Back(n, next, d + 1) /\ b # next
      <4>1. d \in 0..n - 1
        OBVIOUS
      <4> QED  BY <1>5, <4>1
    <3>5. rs2[b] = rs[b]
      BY <1>3, <1>12, <3>4
    <3> QED  BY <3>1, <3>2, <3>3, <3>4, <3>5
  <2> QED  BY <2>1, <2>2
<1>14. DOMAIN rs2 = 0..n - 1
  BY <1>3, <1>12
<1>15. Reads(new, rs2, next)
  BY <1>1, <1>5, <1>9, <1>11, <1>13, <1>14 DEF Reads
<1> QED  BY <1>1, <1>4, <1>7, <1>12, <1>15

LEMMA PrintStep ==
    ASSUME TextInv, NEW family, NEW host, NEW flags, rd_sockaddr2str(family, host, flags),
           Host(family, host) \/ family = "other"
    PROVE  TextInv' /\ UNCHANGED listVars
<1>1. PICK i, text, name :
        /\ i = (reti + 1) % RetCnt
        /\ reti' = i /\ ret' = [ret EXCEPT ![i] = text]
        /\ shown' = LastOf(RetCnt, shown, [i |-> i, text |-> text, flags |-> flags, name |-> name])
        /\ \/ /\ family # "other"
              /\ name \in getnameinfo(host, flags, RetSize - Len(Start(family, flags)))
              /\ text = rd_snprintf_cat(Start(family, flags) \o name, RetSize, End(family, flags))
           \/ name = <<>>
        /\ UNCHANGED listVars
  BY DEF rd_sockaddr2str
<1>2. PICK e : e = [i |-> i, text |-> text, flags |-> flags, name |-> name]
  OBVIOUS
<1>3. e.i = i /\ e.text = text /\ e.flags = flags /\ e.name = name
  BY <1>2
<1>4. ReadsBack(e)
  <2>1. CASE name = <<>>
    BY <1>3, <2>1 DEF ReadsBack
  <2>2. CASE name # <<>>
    <3>1. /\ Host(family, host)
          /\ name \in getnameinfo(host, flags, RetSize - Len(Start(family, flags)))
          /\ e.text = rd_snprintf_cat(Start(family, flags) \o name, RetSize, End(family, flags))
      BY <1>1, <1>3, <2>2
    <3> QED  BY <1>3, <3>1, TextReadsBack
  <2> QED  BY <2>1, <2>2
<1>5. Reads(LastOf(RetCnt, shown, e), [ret EXCEPT ![e.i] = e.text], e.i)
  <2>1. Reads(shown, ret, reti) /\ e.i = (reti + 1) % RetCnt
    BY <1>1, <1>3 DEF TextInv
  <2> QED  BY <1>4, <2>1, ReadsStep
<1> QED  BY <1>1, <1>2, <1>3, <1>5 DEF TextInv

LEMMA NoQueryMeant == SplitAsMeant(<<>>, Split("none", <<>>, <<>>))
<1>1. <<>> \in Texts
  BY SignFacts
<1>2. Places(<<>>, ":", 1) = {}
  BY DEF Places
<1>3. ~Enveloped(<<>>) /\ ~Plain(<<>>)
  BY DEF Enveloped, Plain
<1>4. Meant(<<>>) = {}
  BY <1>2, <1>3 DEF Meant
<1> QED  BY <1>4 DEF SplitAsMeant

LEMMA QueryStep ==
    ASSUME TextInv, SplitInv, ListNext
    PROVE  TextInv' /\ SplitInv'
<1>1. ASSUME NEW s \in NodeSvcs, NEW previous, rd_getaddrinfo(s, previous)
      PROVE  TextInv' /\ SplitInv'
  <2>1. query'.nodesvc = s /\ query'.split = rd_addrinfo_prepare(s, previous) /\ UNCHANGED textVars
    BY <1>1 DEF rd_getaddrinfo, rd_getaddrinfo_fails
  <2>2. s \in Texts
    <3>1. s \in Seq(STRING)
      BY AddrAssumption DEF AddrTexts
    <3> QED  BY <3>1, StringIsText
  <2>3. SplitAsMeant(s, rd_addrinfo_prepare(s, previous))
    BY <2>2, MeantSplit
  <2> QED  BY <2>1, <2>3 DEF TextInv, SplitInv, textVars
<1>2. CASE rd_sockaddr_list_next
  BY <1>2 DEF rd_sockaddr_list_next, TextInv, SplitInv, textVars
<1>3. CASE rd_sockaddr_list_destroy
  <2>1. query' = NoQuery /\ UNCHANGED textVars
    BY <1>3 DEF rd_sockaddr_list_destroy
  <2> QED  BY <2>1, NoQueryMeant DEF NoQuery, TextInv, SplitInv, textVars
<1> QED  BY <1>1, <1>2, <1>3 DEF ListNext

LEMMA TextStart == AddrInit => TextInv /\ SplitInv
<1> SUFFICES ASSUME AddrInit PROVE TextInv /\ SplitInv
  OBVIOUS
<1>1. RetCnt \in Nat \ {0}
  BY AddrAssumption
<1>2. shown = <<>> /\ reti = 0 /\ DOMAIN ret = 0..RetCnt - 1 /\ query = NoQuery
  BY DEF AddrInit
<1>3. shown \in Seq({}) /\ Len(shown) = 0
  BY <1>2
<1>4. 0 \in 0..RetCnt - 1 /\ 0 <= RetCnt /\ \A k \in 1..0 : FALSE
  BY <1>1
<1>5. TextInv
  BY <1>2, <1>3, <1>4 DEF TextInv, Reads
<1> QED  BY <1>2, <1>5, NoQueryMeant DEF NoQuery, SplitInv

\* For any number and size of buffers, any names and addresses: the texts of
\* the last RetCnt calls of rd_sockaddr2str() are intact, those with a port are
\* split by rd_addrinfo_prepare() into the address and the port, and a text of
\* the documented form is split as meant.
THEOREM AddressTextsAlwaysReadBack == AddrSpec => []AddressTextsReadBack
<1>1. TextInv /\ SplitInv /\ [TextNext \/ ListNext]_addrVars => (TextInv /\ SplitInv)'
  <2> SUFFICES ASSUME TextInv, SplitInv, [TextNext \/ ListNext]_addrVars PROVE TextInv' /\ SplitInv'
    OBVIOUS
  <2>1. CASE TextNext
    <3>1. PICK flags, family, host : rd_sockaddr2str(family, host, flags) /\ (Host(family, host) \/ family = "other")
      BY <2>1 DEF TextNext, Host
    <3>2. TextInv' /\ UNCHANGED listVars
      BY <3>1, PrintStep
    <3> QED  BY <3>2 DEF SplitInv, listVars
  <2>2. CASE ListNext
    BY <2>2, QueryStep
  <2>3. CASE UNCHANGED addrVars
    BY <2>3 DEF addrVars, textVars, listVars, TextInv, SplitInv
  <2> QED  BY <2>1, <2>2, <2>3
<1>2. TextInv /\ SplitInv => AddressTextsReadBack
  <2> SUFFICES ASSUME TextInv, SplitInv PROVE AddressTextsReadBack
    OBVIOUS
  <2>1. DOMAIN shown = 1..Len(shown)
    BY LenProperties DEF TextInv, Reads
  <2>2. \A k \in DOMAIN shown : ret[shown[k].i] = shown[k].text /\ ReadsBack(shown[k])
    BY <2>1 DEF TextInv, Reads
  <2> QED  BY <2>2 DEF SplitInv, SplitAsMeant, ReadsBack, AddressTextsReadBack
<1> QED  BY <1>1, <1>2, TextStart, PTL DEF AddrSpec

-----------------------------------------------------------------------------
(* Variable-length integers.                                               *)

\* The number of integers.
Modulus == 2 ^ VBits

LEMMA PowerFacts ==
    /\ Radix \in Nat /\ Radix > 1
    /\ Modulus \in Nat /\ Modulus > 0 /\ Unsigneds = 0..Modulus - 1
    /\ MaxVlen \in Nat
<1>1. PICK h \in Nat \ {0} : h = 2 ^ (VBits - 1) /\ Modulus = 2 * h
  BY EncAssumption DEF Modulus
<1>2. Modulus \in Nat /\ Modulus > 0
  BY <1>1
<1>3. Radix \in Nat /\ Radix > 1
  BY EncAssumption DEF Radix
<1>4. VBits \in Nat /\ VGroup \in Nat \ {0}
  BY EncAssumption
<1>5. MaxVlen \in Nat
  BY <1>4 DEF MaxVlen
<1> QED  BY <1>2, <1>3, <1>5 DEF Unsigneds, Modulus

LEMMA QuotientFacts ==
    ASSUME NEW r \in Nat \ {0}, NEW u \in Nat
    PROVE  /\ u \div r \in Nat /\ u % r \in Nat /\ u % r < r
           /\ u = r * (u \div r) + (u % r)
<1>1. u = r * (u \div r) + (u % r) /\ u % r \in 0..r - 1 /\ u \div r \in Nat
  OBVIOUS
<1> QED  BY <1>1

LEMMA SmallFacts ==
    ASSUME NEW r \in Nat \ {0}, NEW d \in Nat, d < r
    PROVE  d % r = d /\ (d + r) % r = d
<1>1. d % r = d
  BY Z3
<1>2. PICK q \in Nat, x \in Nat : q = (d + r) \div r /\ x = (d + r) % r /\ x < r /\ d + r = r * q + x
  <2>1. PICK u \in Nat : u = d + r
    <3>1. d + r \in Nat
      OBVIOUS
    <3> QED  BY <3>1
  <2>2. u \div r \in Nat /\ u % r \in Nat /\ u % r < r /\ u = r * (u \div r) + (u % r)
    BY QuotientFacts
  <2> QED  BY <2>1, <2>2
<1>3. q = 1
  <2>1. CASE q = 0
    <3>1. r * q = 0
      BY <2>1
    <3> QED  BY <1>2, <3>1
  <2>2. CASE q >= 2
    <3>1. r * q >= 2 * r
      BY <2>2, Z3
    <3> QED  BY <1>2, <3>1
  <2> QED  BY <2>1, <2>2
<1>4. r * q = r
  BY <1>3
<1> QED  BY <1>1, <1>2, <1>4

LEMMA QuotientLess ==
    ASSUME NEW r \in Nat \ {0}, r > 1, NEW u \in Nat, u > 0
    PROVE  u \div r < u
<1>1. PICK q \in Nat, d \in Nat : q = u \div r /\ u = r * q + d
  <2>1. u \div r \in Nat /\ u % r \in Nat /\ u = r * (u \div r) + (u % r)
    BY QuotientFacts
  <2> QED  BY <2>1
<1>2. r * q >= 2 * q
  BY Z3
<1> QED  BY <1>1, <1>2

\* The groups of s add up to u: v[i] is the sum of the first i, and w[i] what
\* the next one counts for.
AddUp(s, n, w, v) ==
    /\ w \in [0..n -> Nat] /\ v \in [0..n -> Nat]
    /\ w[0] = 1 /\ v[0] = 0
    /\ \A i \in 1..n : w[i] = Radix * w[i - 1] /\ v[i] = v[i - 1] + (s[i] % Radix) * w[i - 1]

\* The bytes s are those of u: the last one, and no other, is below Radix.
Coded(s, u) ==
    /\ s \in Seq(Nat) /\ s # <<>>
    /\ s[Len(s)] < Radix /\ \A i \in 1..Len(s) - 1 : ~(s[i] < Radix)
    /\ \E w, v : AddUp(s, Len(s), w, v) /\ v[Len(s)] = u

LEMMA CodedOne ==
    ASSUME NEW u \in Nat, u < Radix
    PROVE  Coded(<<u>>, u)
<1>1. PICK s : s = <<u>>
  OBVIOUS
<1>2. s \in Seq(Nat) /\ s # <<>> /\ Len(s) = 1 /\ s[1] = u
  BY <1>1
<1>3. u % Radix = u /\ Radix \in Nat
  <2>1. PICK r \in Nat \ {0} : r = Radix
    BY PowerFacts
  <2> QED  BY <2>1, SmallFacts
<1>4. PICK w, v : w = [i \in 0..1 |-> IF i = 0 THEN 1 ELSE Radix] /\ v = [i \in 0..1 |-> IF i = 0 THEN 0 ELSE u]
  OBVIOUS
<1>5. w \in [0..1 -> Nat] /\ v \in [0..1 -> Nat] /\ w[0] = 1 /\ v[0] = 0 /\ w[1] = Radix /\ v[1] = u
  BY <1>3, <1>4
<1>6. w[1] = Radix * w[0] /\ v[1] = v[0] + (s[1] % Radix) * w[0]
  <2>1. Radix * 1 = Radix /\ 0 + u * 1 = u
    BY <1>3
  <2> QED  BY <1>2, <1>3, <1>5, <2>1
<1>7. \A i \in 1..1 : i = 1 /\ i - 1 = 0
  OBVIOUS
<1>8. AddUp(s, 1, w, v)
  BY <1>5, <1>6, <1>7 DEF AddUp
<1>9. \A i \in 1..1 - 1 : FALSE
  OBVIOUS
<1>10. Coded(s, u)
  BY <1>2, <1>5, <1>8, <1>9 DEF Coded
<1> QED  BY <1>1, <1>10

\* One group more in front.
LEMMA CodedMore ==
    ASSUME NEW q \in Nat, NEW s, Coded(s, q), NEW d \in Nat, d < Radix
    PROVE  Coded(<<d + Radix>> \o s, Radix * q + d)
<1>1. PICK r \in Nat \ {0} : r = Radix /\ r > 1
  BY PowerFacts
<1>2. PICK n \in Nat \ {0} : n = Len(s) /\ s \in Seq(Nat)
  BY EmptySeq, LenProperties DEF Coded
<1>3. PICK w, v : AddUp(s, n, w, v) /\ v[n] = q
  BY <1>2 DEF Coded
<1>4. PICK b \in Nat : b = d + r /\ b % r = d /\ ~(b < r)
  <2>1. d + r \in Nat /\ ~(d + r < r)
    OBVIOUS
  <2>2. (d + r) % r = d
    BY <1>1, SmallFacts
  <2> QED  BY <2>1, <2>2
<1>5. PICK t : t = <<b>> \o s
  OBVIOUS
<1>6. /\ t \in Seq(Nat) /\ Len(t) = n + 1 /\ t[1] = b
      /\ \A i \in 1..n : t[i + 1] = s[i]
  <2>1. PICK c : c = <<b>>
    OBVIOUS
  <2>2. c \in Seq(Nat) /\ Len(c) = 1 /\ c[1] = b
    BY <2>1
  <2>3. /\ c \o s \in Seq(Nat) /\ Len(c \o s) = Len(c) + Len(s)
        /\ \A i \in 1 .. Len(c) + Len(s) : (c \o s)[i] =
                     IF i <= Len(c) THEN c[i] ELSE s[i - Len(c)]
    BY <1>2, <2>2, ConcatProperties
  <2>4. t \in Seq(Nat) /\ Len(t) = 1 + n /\ \A i \in 1..1 + n : t[i] = IF i <= 1 THEN c[i] ELSE s[i - 1]
    BY <1>2, <1>5, <2>1, <2>2, <2>3
  <2>5. t[1] = b
    BY <2>2, <2>4
  <2>6. ASSUME NEW i \in 1..n PROVE t[i + 1] = s[i]
    <3>1. i + 1 \in 1..1 + n /\ ~(i + 1 <= 1) /\ (i + 1) - 1 = i
      OBVIOUS
    <3> QED  BY <2>4, <3>1
  <2> QED  BY <2>4, <2>5, <2>6
<1>7. /\ w \in [0..n -> Nat] /\ v \in [0..n -> Nat] /\ w[0] = 1 /\ v[0] = 0
      /\ \A i \in 1..n : w[i] = r * w[i - 1] /\ v[i] = v[i - 1] + (s[i] % r) * w[i - 1]
  BY <1>1, <1>3 DEF AddUp
<1>8. PICK ww, vv : /\ ww = [i \in 0..n + 1 |-> IF i = 0 THEN 1 ELSE r * w[i - 1]]
                    /\ vv = [i \in 0..n + 1 |-> IF i = 0 THEN 0 ELSE d + r * v[i - 1]]
  OBVIOUS
<1>9. \A i \in 1..n + 1 : i \in 0..n + 1 /\ i # 0 /\ i - 1 \in 0..n
  OBVIOUS
<1>10. /\ ww[0] = 1 /\ vv[0] = 0
       /\ \A i \in 1..n + 1 : ww[i] = r * w[i - 1] /\ vv[i] = d + r * v[i - 1]
  <2>1. 0 \in 0..n + 1
    OBVIOUS
  <2> QED  BY <1>8, <1>9, <2>1
<1>11. ww \in [0..n + 1 -> Nat] /\ vv \in [0..n + 1 -> Nat]
  <2>1. ASSUME NEW i \in 0..n + 1, i # 0
        PROVE  r * w[i - 1] \in Nat /\ d + r * v[i - 1] \in Nat
    <3>1. PICK x \in Nat, y \in Nat : x = w[i - 1] /\ y = v[i - 1]
      <4>1. i - 1 \in 0..n
        BY <2>1
      <4> QED  BY <1>7, <4>1
    <3>2. r * x \in Nat /\ d + r * y \in Nat
      OBVIOUS
    <3> QED  BY <3>1, <3>2
  <2> QED  BY <1>8, <2>1
<1>12. ASSUME NEW i \in 1..n + 1
       PROVE  ww[i] = r * ww[i - 1] /\ vv[i] = vv[i - 1] + (t[i] % r) * ww[i - 1]
  <2>1. CASE i = 1
    <3>1. ww[1] = r * 1 /\ vv[1] = d + r * 0
      <4>1. 1 \in 1..n + 1 /\ 1 - 1 = 0
        OBVIOUS
      <4> QED  BY <1>7, <1>10, <4>1
    <3>2. t[1] % r = d
      BY <1>4, <1>6
    <3>3. d + r * 0 = 0 + d * 1
      OBVIOUS
    <3>4. i - 1 = 0
      BY <2>1
    <3> QED  BY <1>10, <2>1, <3>1, <3>2, <3>3, <3>4
  <2>2. CASE i # 1
    <3>1. PICK j \in 1..n : j = i - 1 /\ j + 1 = i /\ j \in 1..n + 1 /\ j - 1 \in 0..n
      <4>1. i - 1 \in 1..n /\ (i - 1) + 1 = i /\ i - 1 \in 1..n + 1 /\ (i - 1) - 1 \in 0..n
        BY <2>2
      <4> QED  BY <4>1
    <3>2. PICK x \in Nat, y \in Nat : x = w[j - 1] /\ y = v[j - 1]
      BY <1>7, <3>1
    <3>3. PICK g \in Nat : g = s[j] % r
      <4>1. s[j] \in Nat
        BY <1>2, <3>1, ElementOfSeq
      <4>2. s[j] % r \in Nat
        BY <1>1, <4>1, QuotientFacts
      <4> QED  BY <4>2
    <3>4. w[j] = r * x /\ v[j] = y + g * x
      BY <1>7, <3>1, <3>2, <3>3
    <3>5. ww[j] = r * x /\ vv[j] = d + r * y /\ t[i] % r = g
      BY <1>6, <1>10, <3>1, <3>2, <3>3
    <3>6. ww[i] = r * (r * x) /\ vv[i] = d + r * (y + g * x)
      BY <1>10, <3>1, <3>4
    <3>7. d + r * (y + g * x) = (d + r * y) + g * (r * x)
      OBVIOUS
    <3> QED  BY <3>1, <3>5, <3>6, <3>7
  <2> QED  BY <2>1, <2>2
<1>13. PICK m \in Nat : m = n + 1 /\ m = Len(t)
  <2>1. n + 1 \in Nat
    OBVIOUS
  <2> QED  BY <1>6, <2>1
<1>14. AddUp(t, m, ww, vv)
  BY <1>1, <1>10, <1>11, <1>12, <1>13 DEF AddUp
<1>15. vv[m] = r * q + d
  <2>1. n + 1 \in 1..n + 1 /\ (n + 1) - 1 = n
    OBVIOUS
  <2>2. vv[m] = d + r * q
    BY <1>3, <1>10, <1>13, <2>1
  <2> QED  BY <2>2
<1>16. t[m] < r /\ \A i \in 1..m - 1 : ~(t[i] < r)
  <2>1. n \in 1..n /\ s[n] < r /\ \A i \in 1..n - 1 : ~(s[i] < r)
    BY <1>1, <1>2 DEF Coded
  <2>2. t[m] < r
    BY <1>6, <1>13, <2>1
  <2>3. ASSUME NEW i \in 1..m - 1 PROVE ~(t[i] < r)
    <3>1. CASE i = 1
      BY <1>4, <1>6, <3>1
    <3>2. CASE i # 1
      <4>1. i - 1 \in 1..n - 1 /\ i - 1 \in 1..n /\ (i - 1) + 1 = i
        BY <1>13, <3>2
      <4>2. t[i] = s[i - 1]
        BY <1>6, <4>1
      <4> QED  BY <2>1, <4>1, <4>2
    <3> QED  BY <3>1, <3>2
  <2> QED  BY <2>2, <2>3
<1>17. t # <<>>
  BY <1>6, EmptySeq
<1>18. PICK u : u = r * q + d
  OBVIOUS
<1>19. Coded(t, u)
  BY <1>1, <1>6, <1>13, <1>14, <1>15, <1>16, <1>17, <1>18 DEF Coded
<1> QED  BY <1>1, <1>4, <1>5, <1>18, <1>19

\* What rd_varint_encode_u64() writes for u, if f is what it writes for less.
Groups(f, u) == IF u < Radix THEN <<u>> ELSE <<(u % Radix) + Radix>> \o f[u \div Radix]

LEMMA RestIsLess ==
    ASSUME NEW u \in Nat, ~(u < Radix)
    PROVE  u \div Radix \in 0..u - 1
<1>1. PICK r \in Nat \ {0} : r = Radix /\ r > 1
  BY PowerFacts
<1>2. PICK q \in Nat : q = u \div r
  BY QuotientFacts
<1>3. q < u
  BY <1>1, <1>2, QuotientLess
<1> QED  BY <1>1, <1>2, <1>3

LEMMA VarintExists ==
    ASSUME NEW m \in Nat
    PROVE  \E f : f = [u \in 0..m |-> Groups(f, u)]
<1>1. PICK T : T = {n \in Nat : \E f : f = [u \in 0..n |-> Groups(f, u)]}
  OBVIOUS
<1>2. 0 \in T
  <2>1. PICK f : f = [u \in 0..0 |-> <<u>>]
    OBVIOUS
  <2>2. \A u \in 0..0 : Groups(f, u) = <<u>>
    BY PowerFacts DEF Groups
  <2>3. f = [u \in 0..0 |-> Groups(f, u)]
    BY <2>1, <2>2
  <2>4. \E g : g = [u \in 0..0 |-> Groups(g, u)]
    BY <2>3
  <2> QED  BY <1>1, <2>4
<1>3. ASSUME NEW i \in 1..m, i - 1 \in T PROVE i \in T
  <2>1. PICK f : f = [u \in 0..i - 1 |-> Groups(f, u)]
    BY <1>1, <1>3
  <2>2. PICK g : g = [u \in 0..i |-> IF u = i THEN Groups(f, i) ELSE f[u]]
    OBVIOUS
  <2>3. \A u \in 0..i - 1 : u \in 0..i /\ u # i
    OBVIOUS
  <2>4. \A u \in 0..i - 1 : g[u] = f[u]
    BY <2>2, <2>3
  <2>5. ASSUME NEW u \in 0..i PROVE Groups(g, u) = Groups(f, u)
    <3>1. CASE u < Radix
      BY <3>1 DEF Groups
    <3>2. CASE ~(u < Radix)
      <4>1. u \div Radix \in 0..u - 1
        BY <3>2, RestIsLess
      <4>2. u \div Radix \in 0..i - 1
        BY <4>1
      <4> QED  BY <2>4, <4>2 DEF Groups
    <3> QED  BY <3>1, <3>2
  <2>6. ASSUME NEW u \in 0..i PROVE g[u] = Groups(g, u)
    <3>1. CASE u = i
      BY <2>2, <2>5, <3>1
    <3>2. CASE u # i
      <4>1. u \in 0..i - 1
        BY <3>2
      <4>2. f[u] = Groups(f, u)
        BY <2>1, <4>1
      <4> QED  BY <2>4, <2>5, <4>1, <4>2
    <3> QED  BY <3>1, <3>2
  <2>7. g = [u \in 0..i |-> Groups(g, u)]
    BY <2>2, <2>6
  <2>8. \E h : h = [u \in 0..i |-> Groups(h, u)]
    BY <2>7
  <2> QED  BY <1>1, <2>8
<1>4. \A i \in 0..m : i \in T
  BY <1>2, <1>3, Upto
<1>5. m \in T
  BY <1>4
<1> QED  BY <1>1, <1>5

LEMMA VarintIs == \A u \in Unsigneds : VarintBytes[u] = Groups(VarintBytes, u)
<1>1. PICK m \in Nat : Unsigneds = 0..m
  <2>1. Modulus - 1 \in Nat /\ Unsigneds = 0..Modulus - 1
    BY PowerFacts
  <2> QED  BY <2>1
<1>2. PICK f : f = [u \in Unsigneds |-> Groups(f, u)]
  BY <1>1, VarintExists
<1>3. \E g : g = [u \in Unsigneds |-> IF u < Radix THEN <<u>>
                                       ELSE <<(u % Radix) + Radix>> \o g[u \div Radix]]
  BY <1>2 DEF Groups
<1>4. VarintBytes = [u \in Unsigneds |-> IF u < Radix THEN <<u>>
                                ELSE <<(u % Radix) + Radix>> \o VarintBytes[u \div Radix]]
  BY <1>3 DEF VarintBytes
<1> QED  BY <1>4 DEF Groups

\* What is written for a value adds up to it.
LEMMA VarintCoded ==
    ASSUME NEW u \in Unsigneds
    PROVE  Coded(VarintBytes[u], u)
<1>1. PICK m \in Nat : Unsigneds = 0..m
  <2>1. Modulus - 1 \in Nat /\ Unsigneds = 0..Modulus - 1
    BY PowerFacts
  <2> QED  BY <2>1
<1>2. PICK T : T = {n \in Nat : \A x \in 0..n : Coded(VarintBytes[x], x)}
  OBVIOUS
<1>3. ASSUME NEW x \in Unsigneds, \A y \in 0..x - 1 : Coded(VarintBytes[y], y)
      PROVE  Coded(VarintBytes[x], x)
  <2>1. x \in Nat
    BY <1>1
  <2>2. CASE x < Radix
    <3>1. VarintBytes[x] = <<x>>
      BY <2>2, VarintIs DEF Groups
    <3> QED  BY <2>1, <2>2, <3>1, CodedOne
  <2>3. CASE ~(x < Radix)
    <3>1. PICK r \in Nat \ {0} : r = Radix
      BY PowerFacts
    <3>2. PICK q \in Nat, d \in Nat : q = x \div r /\ d = x % r /\ d < r /\ x = r * q + d
      BY <2>1, QuotientFacts
    <3>3. VarintBytes[x] = <<d + Radix>> \o VarintBytes[q]
      BY <2>3, <3>1, <3>2, VarintIs DEF Groups
    <3>4. q \in 0..x - 1
      BY <2>1, <2>3, <3>1, <3>2, RestIsLess
    <3>5. PICK s : s = VarintBytes[q]
      OBVIOUS
    <3>6. Coded(s, q)
      BY <1>3, <3>4, <3>5
    <3>7. Coded(<<d + Radix>> \o s, Radix * q + d)
      BY <3>1, <3>2, <3>6, CodedMore
    <3> QED  BY <3>1, <3>2, <3>3, <3>5, <3>7
  <2> QED  BY <2>2, <2>3
<1>4. 0 \in T
  <2>1. \A y \in 0..0 - 1 : Coded(VarintBytes[y], y)
    OBVIOUS
  <2>2. 0 \in Unsigneds
    BY <1>1
  <2>3. Coded(VarintBytes[0], 0)
    BY <1>3, <2>1, <2>2
  <2>4. \A x \in 0..0 : x = 0
    OBVIOUS
  <2>5. \A x \in 0..0 : Coded(VarintBytes[x], x)
    BY <2>3, <2>4
  <2> QED  BY <1>2, <2>5
<1>5. ASSUME NEW i \in 1..m, i - 1 \in T PROVE i \in T
  <2>1. i \in Unsigneds /\ \A y \in 0..i - 1 : Coded(VarintBytes[y], y)
    BY <1>1, <1>2, <1>5
  <2>2. Coded(VarintBytes[i], i)
    BY <1>3, <2>1
  <2>3. \A x \in 0..i : x = i \/ x \in 0..i - 1
    OBVIOUS
  <2>4. \A x \in 0..i : Coded(VarintBytes[x], x)
    BY <2>1, <2>2, <2>3
  <2> QED  BY <1>2, <2>4
<1>6. \A i \in 0..m : i \in T
  BY <1>4, <1>5, Upto
<1>7. u \in 0..m /\ u \in 0..u
  BY <1>1
<1> QED  BY <1>2, <1>6, <1>7

\* The functions that rd_varint_decode_u64() builds up.
Weights(n) == CHOOSE f : f = [i \in 0..n |-> IF i = 0 THEN 1 ELSE Radix * f[i - 1]]
Sums(a, n, w) ==
    CHOOSE f : f = [i \in 0..n |-> IF i = 0 THEN 0 ELSE f[i - 1] + (a[i] % Radix) * w[i - 1]]

LEMMA AccumulatedIs ==
    ASSUME NEW a, NEW n \in Nat, NEW w, NEW v, AddUp(a, n, w, v)
    PROVE  Accumulated(a, n) = v[n]
<1>1. /\ w \in [0..n -> Nat] /\ v \in [0..n -> Nat] /\ w[0] = 1 /\ v[0] = 0
      /\ \A i \in 1..n : w[i] = Radix * w[i - 1] /\ v[i] = v[i - 1] + (a[i] % Radix) * w[i - 1]
  BY DEF AddUp
<1>2. \A i \in 0..n : i = 0 \/ i \in 1..n
  OBVIOUS
<1>3. \A i \in 1..n : i \in 0..n /\ i # 0
  OBVIOUS
<1>4. ASSUME NEW f, f = [i \in 0..n |-> IF i = 0 THEN 1 ELSE Radix * f[i - 1]]
      PROVE  f = w
  <2>1. PICK T : T = {i \in Nat : f[i] = w[i]}
    OBVIOUS
  <2>2. 0 \in 0..n
    OBVIOUS
  <2>3. f[0] = 1
    BY <1>4, <2>2
  <2>4. 0 \in T
    BY <1>1, <2>1, <2>3
  <2>5. ASSUME NEW i \in 1..n, i - 1 \in T PROVE i \in T
    <3>1. f[i] = Radix * f[i - 1]
      BY <1>3, <1>4
    <3>2. f[i - 1] = w[i - 1]
      BY <2>1, <2>5
    <3>3. f[i] = w[i]
      BY <1>1, <3>1, <3>2
    <3> QED  BY <2>1, <3>3
  <2>6. \A i \in 0..n : i \in T
    BY <2>4, <2>5, Upto
  <2>7. \A i \in 0..n : f[i] = w[i]
    BY <2>1, <2>6
  <2>8. f = [i \in 0..n |-> f[i]] /\ w = [i \in 0..n |-> w[i]]
    BY <1>1, <1>4
  <2> QED  BY <2>7, <2>8
<1>5. ASSUME NEW f, f = [i \in 0..n |-> IF i = 0 THEN 0 ELSE f[i - 1] + (a[i] % Radix) * w[i - 1]]
      PROVE  f = v
  <2>1. PICK T : T = {i \in Nat : f[i] = v[i]}
    OBVIOUS
  <2>2. 0 \in 0..n
    OBVIOUS
  <2>3. f[0] = 0
    BY <1>5, <2>2
  <2>4. 0 \in T
    BY <1>1, <2>1, <2>3
  <2>5. ASSUME NEW i \in 1..n, i - 1 \in T PROVE i \in T
    <3>1. f[i] = f[i - 1] + (a[i] % Radix) * w[i - 1]
      BY <1>3, <1>5
    <3>2. f[i - 1] = v[i - 1]
      BY <2>1, <2>5
    <3>3. f[i] = v[i]
      BY <1>1, <3>1, <3>2
    <3> QED  BY <2>1, <3>3
  <2>6. \A i \in 0..n : i \in T
    BY <2>4, <2>5, Upto
  <2>7. \A i \in 0..n : f[i] = v[i]
    BY <2>1, <2>6
  <2>8. f = [i \in 0..n |-> f[i]] /\ v = [i \in 0..n |-> v[i]]
    BY <1>1, <1>5
  <2> QED  BY <2>7, <2>8
<1>6. w = [i \in 0..n |-> IF i = 0 THEN 1 ELSE Radix * w[i - 1]]
  BY <1>1, <1>2
<1>7. v = [i \in 0..n |-> IF i = 0 THEN 0 ELSE v[i - 1] + (a[i] % Radix) * w[i - 1]]
  BY <1>1, <1>2
<1>8. Weights(n) = w
  <2>1. \E f : f = [i \in 0..n |-> IF i = 0 THEN 1 ELSE Radix * f[i - 1]]
    BY <1>6
  <2> QED  BY <1>4, <2>1 DEF Weights
<1>9. Sums(a, n, w) = v
  <2>1. \E f : f = [i \in 0..n |-> IF i = 0 THEN 0 ELSE f[i - 1] + (a[i] % Radix) * w[i - 1]]
    BY <1>7
  <2> QED  BY <1>5, <2>1 DEF Sums
<1>10. Accumulated(a, n) = Sums(a, n, Weights(n))[n]
  BY DEF Accumulated, Sums, Weights
<1> QED  BY <1>8, <1>9, <1>10

\* a and s have the same bytes as far as both go.
Agree(a, s) == \A i \in 1..Len(s) : i <= Len(a) => a[i] = s[i]

LEMMA LastByteIs ==
    ASSUME NEW a \in Seq(Nat), NEW s, NEW u, Coded(s, u), Agree(a, s)
    PROVE  LastByte(a) = IF Len(s) <= Len(a) THEN Len(s) ELSE 0
<1>1. PICK n \in Nat \ {0} : n = Len(s) /\ s \in Seq(Nat)
  BY EmptySeq, LenProperties DEF Coded
<1>2. PICK m \in Nat : m = Len(a)
  BY LenProperties
<1>3. s[n] < Radix /\ \A i \in 1..n - 1 : ~(s[i] < Radix)
  BY <1>1 DEF Coded
<1>4. PICK E : E = {i \in 1..Len(a) : a[i] < Radix}
  OBVIOUS
<1>5. LastByte(a) = IF E # {} THEN Min(E) ELSE 0
  BY <1>4 DEF LastByte, SelectInSeq
<1>6. \A i \in 1..n : i <= m => a[i] = s[i]
  BY <1>1, <1>2 DEF Agree
<1>7. CASE n <= m
  <2>1. n \in 1..m /\ a[n] = s[n]
    BY <1>6, <1>7
  <2>2. n \in E
    BY <1>2, <1>3, <1>4, <2>1
  <2>3. ASSUME NEW y \in E PROVE n <= y
    <3>1. y \in 1..m /\ a[y] < Radix
      BY <1>2, <1>4
    <3>2. SUFFICES ASSUME y < n PROVE FALSE
      BY <3>1
    <3>3. y \in 1..n - 1 /\ y \in 1..n /\ y <= m
      BY <3>1, <3>2
    <3>4. a[y] = s[y]
      BY <1>6, <3>3
    <3> QED  BY <1>3, <3>1, <3>3, <3>4
  <2>4. E \in SUBSET Int
    BY <1>2, <1>4
  <2>5. Min(E) = n
    BY <2>2, <2>3, <2>4, MinIs
  <2> QED  BY <1>1, <1>2, <1>5, <1>7, <2>2, <2>5
<1>8. CASE ~(n <= m)
  <2>1. ASSUME NEW i \in 1..m PROVE ~(a[i] < Radix)
    <3>1. i \in 1..n - 1 /\ i \in 1..n /\ i <= m
      BY <1>8
    <3>2. a[i] = s[i]
      BY <1>6, <3>1
    <3> QED  BY <1>3, <3>1, <3>2
  <2>2. E = {}
    BY <1>2, <1>4, <2>1
  <2> QED  BY <1>1, <1>2, <1>5, <1>8, <2>2
<1> QED  BY <1>7, <1>8

\* A value that has arrived is decoded, and one that has arrived in part is not.
LEMMA DecodeIs ==
    ASSUME NEW a \in Seq(Nat), NEW s, NEW u \in Unsigneds, Coded(s, u), Agree(a, s),
           Len(s) <= MaxVlen
    PROVE  /\ Len(s) <= Len(a) => rd_varint_decode_u64(a) = [val |-> u, vlen |-> Len(s)]
           /\ ~(Len(s) <= Len(a)) => rd_varint_decode_u64(a) = [val |-> 0, vlen |-> -(Len(a) + 1)]
<1>1. PICK n \in Nat \ {0} : n = Len(s) /\ s \in Seq(Nat)
  BY EmptySeq, LenProperties DEF Coded
<1>2. PICK m \in Nat : m = Len(a)
  BY LenProperties
<1>3. LastByte(a) = IF n <= m THEN n ELSE 0
  BY <1>1, <1>2, LastByteIs
<1>4. CASE ~(n <= m)
  <2>1. LastByte(a) = 0
    BY <1>3, <1>4
  <2> QED  BY <1>1, <1>2, <1>4, <2>1 DEF rd_varint_decode_u64
<1>5. CASE n <= m
  <2>1. LastByte(a) = n
    BY <1>3, <1>5
  <2>2. n # 0 /\ ~TooLong(n)
    BY <1>1, PowerFacts DEF TooLong
  <2>3. PICK w, v : AddUp(s, n, w, v) /\ v[n] = u
    BY <1>1 DEF Coded
  <2>4. \A i \in 1..n : a[i] = s[i]
    BY <1>1, <1>2, <1>5 DEF Agree
  <2>5. AddUp(a, n, w, v)
    BY <2>3, <2>4 DEF AddUp
  <2>6. Accumulated(a, n) = u
    BY <2>3, <2>5, AccumulatedIs
  <2>7. u % 2 ^ VBits = u
    <3>1. PICK k \in Nat \ {0} : k = Modulus /\ u \in Nat /\ u < k
      BY PowerFacts
    <3>2. u % k = u
      BY <3>1, SmallFacts
    <3> QED  BY <3>1, <3>2 DEF Modulus
  <2>8. rd_varint_decode_u64(a) = [val |-> Accumulated(a, n) % 2 ^ VBits, vlen |-> n]
    BY <2>1, <2>2 DEF rd_varint_decode_u64
  <2> QED  BY <1>1, <1>2, <1>5, <2>6, <2>7, <2>8
<1> QED  BY <1>4, <1>5

-----------------------------------------------------------------------------
(* A stream of integers.                                                   *)

LEMMA ConcatParts ==
    ASSUME NEW S, NEW a \in Seq(S), NEW b \in Seq(S)
    PROVE  /\ a \o b \in Seq(S) /\ Len(a \o b) = Len(a) + Len(b)
           /\ \A i \in 1..Len(a) : (a \o b)[i] = a[i]
           /\ \A i \in 1..Len(b) : (a \o b)[Len(a) + i] = b[i]
<1>1. PICK m \in Nat, n \in Nat : m = Len(a) /\ n = Len(b)
  BY LenProperties
<1>2. PICK c : c = a \o b
  OBVIOUS
<1>3. c \in Seq(S) /\ Len(c) = m + n /\ \A i \in 1..m + n : c[i] = IF i <= m THEN a[i] ELSE b[i - m]
  <2>1. /\ a \o b \in Seq(S) /\ Len(a \o b) = Len(a) + Len(b)
        /\ \A i \in 1..Len(a) + Len(b) : (a \o b)[i] = IF i <= Len(a) THEN a[i] ELSE b[i - Len(a)]
    BY ConcatProperties
  <2> QED  BY <1>1, <1>2, <2>1
<1>4. \A i \in 1..m : c[i] = a[i]
  <2>1. \A i \in 1..m : i \in 1..m + n /\ i <= m
    OBVIOUS
  <2> QED  BY <1>3, <2>1
<1>5. \A i \in 1..n : c[m + i] = b[i]
  <2>1. \A i \in 1..n : m + i \in 1..m + n /\ ~(m + i <= m) /\ (m + i) - m = i
    OBVIOUS
  <2> QED  BY <1>3, <2>1
<1> QED  BY <1>1, <1>2, <1>3, <1>4, <1>5

LEMMA Shifted ==
    ASSUME NEW m \in Nat, NEW n \in 0..m, NEW p \in n..m, NEW z \in Nat, p + z <= m, NEW i \in 1..z
    PROVE  (p - n) + i \in 1..m - n /\ n + ((p - n) + i) = p + i
<1>1. n \in Int /\ p \in Int /\ i \in Int /\ 0 <= n /\ n <= p /\ 1 <= i /\ i <= z
  OBVIOUS
<1> QED  BY <1>1

\* What is written into a stream, and the integer that stands for it there.
ValuesOf(mode) == IF mode = "u64" THEN Unsigneds ELSE SignedValues
NumberFor(mode, x) == IF mode = "u64" THEN x ELSE 2 * x
DecodeOf(mode, a) == IF mode = "u64" THEN rd_varint_decode_u64(a) ELSE rd_varint_decode_s64(a)

\* The bytes of u are in b, between two places.
Piece(b, from, to, u) ==
    \E s : /\ Coded(s, u) /\ Len(s) <= MaxVlen /\ to = from + Len(s)
           /\ \A i \in 1..Len(s) : b[from + i] = s[i]

\* b is the bytes of the values after the k-th; cut is where they end.
Carried(mode, b, vals, k, cut) ==
    /\ cut \in [k..Len(vals) -> 0..Len(b)] /\ cut[k] = 0 /\ cut[Len(vals)] = Len(b)
    /\ \A i, j \in k..Len(vals) : i <= j => cut[i] <= cut[j]
    /\ \A j \in k + 1..Len(vals) : Piece(b, cut[j - 1], cut[j], NumberFor(mode, vals[j]))

LEMMA NumberForFacts ==
    ASSUME SignedValues \subseteq Nat, NEW mode, NEW x \in ValuesOf(mode)
    PROVE  NumberFor(mode, x) \in Unsigneds
<1>1. PICK h \in Nat \ {0} : h = 2 ^ (VBits - 1) /\ Modulus = 2 * h /\ Unsigneds = 0..2 * h - 1
  BY EncAssumption, PowerFacts DEF Modulus
<1>2. CASE mode = "u64"
  BY <1>2 DEF NumberFor, ValuesOf
<1>3. CASE mode # "u64"
  <2>1. x \in Nat /\ x <= h - 1
    BY <1>1, <1>3, EncAssumption DEF ValuesOf
  <2>2. 2 * x \in 0..2 * h - 1
    BY <2>1
  <2> QED  BY <1>1, <1>3, <2>2 DEF NumberFor
<1> QED  BY <1>2, <1>3

\* One more value is written.
LEMMA StreamGrows ==
    ASSUME NEW mode, NEW b \in Seq(Nat), NEW V, NEW vals \in Seq(V), NEW k \in 0..Len(vals),
           NEW cut, Carried(mode, b, vals, k, cut),
           NEW x \in V, NEW t, Coded(t, NumberFor(mode, x)), Len(t) <= MaxVlen
    PROVE  \E c : Carried(mode, b \o t, Append(vals, x), k, c)
<1>1. PICK l \in Nat, m \in Nat : l = Len(vals) /\ m = Len(b) /\ k \in 0..l
  BY LenProperties
<1>2. PICK n \in Nat : n = Len(t) /\ t \in Seq(Nat)
  BY LenProperties DEF Coded
<1>3. PICK bb : bb = b \o t
  OBVIOUS
<1>4. /\ bb \in Seq(Nat) /\ Len(bb) = m + n
      /\ \A i \in 1..m : bb[i] = b[i]
      /\ \A i \in 1..n : bb[m + i] = t[i]
  BY <1>1, <1>2, <1>3, ConcatParts
<1>5. PICK vv : vv = Append(vals, x)
  OBVIOUS
<1>6. /\ vv \in Seq(V) /\ Len(vv) = l + 1 /\ vv[l + 1] = x
      /\ \A i \in 1..l : vv[i] = vals[i]
  BY <1>1, <1>5, AppendProperties
<1>7. /\ cut \in [k..l -> 0..m] /\ cut[k] = 0 /\ cut[l] = m
      /\ \A i, j \in k..l : i <= j => cut[i] <= cut[j]
      /\ \A j \in k + 1..l : Piece(b, cut[j - 1], cut[j], NumberFor(mode, vals[j]))
  BY <1>1 DEF Carried
<1>8. PICK c : c = [i \in k..l + 1 |-> IF i = l + 1 THEN m + n ELSE cut[i]]
  OBVIOUS
<1>9. \A i \in k..l : i \in k..l + 1 /\ i # l + 1
  BY <1>1
<1>10. l + 1 \in k..l + 1 /\ k \in k..l /\ l \in k..l
  BY <1>1
<1>11. c[l + 1] = m + n /\ \A i \in k..l : c[i] = cut[i]
  BY <1>8, <1>9, <1>10
<1>12. \A i \in k..l + 1 : i = l + 1 \/ i \in k..l
  BY <1>1
<1>13. c \in [k..l + 1 -> 0..m + n]
  <2>1. \A i \in k..l : cut[i] \in 0..m + n
    BY <1>7
  <2>2. m + n \in 0..m + n
    OBVIOUS
  <2> QED  BY <1>8, <1>12, <2>1, <2>2
<1>14. ASSUME NEW i \in k..l + 1, NEW j \in k..l + 1, i <= j PROVE c[i] <= c[j]
  <2>1. CASE j = l + 1
    BY <1>11, <1>13, <2>1
  <2>2. CASE j # l + 1
    <3>1. i \in k..l /\ j \in k..l
      BY <1>1, <1>14, <2>2
    <3> QED  BY <1>7, <1>11, <1>14, <3>1
  <2> QED  BY <2>1, <2>2
<1>15. ASSUME NEW j \in k + 1..l + 1 PROVE Piece(bb, c[j - 1], c[j], NumberFor(mode, vv[j]))
  <2>1. CASE j = l + 1
    <3>1. c[j] = m + n /\ c[j - 1] = m /\ vv[j] = x
      <4>1. j - 1 = l
        BY <2>1
      <4> QED  BY <1>6, <1>7, <1>10, <1>11, <2>1, <4>1
    <3> QED  BY <1>2, <1>4, <3>1 DEF Piece
  <2>2. CASE j # l + 1
    <3>1. j \in k + 1..l /\ j \in k..l /\ j - 1 \in k..l /\ j \in 1..l
      BY <1>1, <2>2
    <3>2. PICK p \in 0..m, q \in 0..m : p = cut[j - 1] /\ q = cut[j]
      BY <1>7, <3>1
    <3>3. Piece(b, p, q, NumberFor(mode, vals[j]))
      BY <1>7, <3>1, <3>2
    <3>4. PICK s : /\ Coded(s, NumberFor(mode, vals[j])) /\ Len(s) <= MaxVlen /\ q = p + Len(s)
                   /\ \A i \in 1..Len(s) : b[p + i] = s[i]
      BY <3>3 DEF Piece
    <3>5. PICK z \in Nat : z = Len(s) /\ q = p + z
      BY <3>4, LenProperties DEF Coded
    <3>6. ASSUME NEW i \in 1..Len(s) PROVE bb[p + i] = s[i]
      <4>1. i \in 1..z /\ p \in 0..m /\ q \in 0..m /\ q = p + z
        BY <3>5
      <4>2. p + i \in 1..m
        BY <4>1
      <4> QED  BY <1>4, <3>4, <4>2
    <3>7. Piece(bb, p, q, NumberFor(mode, vals[j]))
      BY <3>4, <3>6 DEF Piece
    <3> QED  BY <1>6, <1>11, <3>1, <3>2, <3>7
  <2> QED  BY <2>1, <2>2
<1>16. Carried(mode, bb, vv, k, c)
  <2>1. PICK ll, mm : ll = l + 1 /\ mm = m + n
    OBVIOUS
  <2>2. /\ c \in [k..ll -> 0..mm] /\ c[k] = 0 /\ c[ll] = mm
        /\ \A i, j \in k..ll : i <= j => c[i] <= c[j]
        /\ \A j \in k + 1..ll : Piece(bb, c[j - 1], c[j], NumberFor(mode, vv[j]))
    BY <1>7, <1>10, <1>11, <1>13, <1>14, <1>15, <2>1
  <2>3. Len(vv) = ll /\ Len(bb) = mm
    BY <1>4, <1>6, <2>1
  <2> QED  BY <2>2, <2>3 DEF Carried
<1> QED  BY <1>3, <1>5, <1>16

\* The first value is taken out.
LEMMA StreamShrinks ==
    ASSUME NEW mode, NEW b \in Seq(Nat), NEW V, NEW vals \in Seq(V), NEW k \in 0..Len(vals),
           NEW cut, Carried(mode, b, vals, k, cut), k < Len(vals),
           NEW n, n = cut[k + 1], NEW bb \in Seq(Nat), Len(bb) = Len(b) - n,
           \A i \in 1..Len(bb) : bb[i] = b[n + i]
    PROVE  \E c : Carried(mode, bb, vals, k + 1, c)
<1>1. PICK l \in Nat, m \in Nat : l = Len(vals) /\ m = Len(b) /\ k \in 0..l - 1
  BY LenProperties
<1>2. /\ cut \in [k..l -> 0..m] /\ cut[k] = 0 /\ cut[l] = m
      /\ \A i, j \in k..l : i <= j => cut[i] <= cut[j]
      /\ \A j \in k + 1..l : Piece(b, cut[j - 1], cut[j], NumberFor(mode, vals[j]))
  BY <1>1 DEF Carried
<1>3. n \in 0..m
  <2>1. k + 1 \in k..l
    BY <1>1
  <2> QED  BY <1>2, <2>1
<1>4. \A i \in k + 1..l : i \in k..l /\ k + 1 \in k..l /\ k + 1 <= i
  BY <1>1
<1>5. \A i \in k + 1..l : cut[i] \in n..m
  <2>1. \A i \in k + 1..l : cut[k + 1] <= cut[i] /\ cut[i] \in 0..m
    BY <1>2, <1>4
  <2> QED  BY <1>3, <2>1
<1>6. PICK c : c = [i \in k + 1..l |-> cut[i] - n]
  OBVIOUS
<1>7. c \in [k + 1..l -> 0..m - n]
  <2>1. \A i \in k + 1..l : cut[i] - n \in 0..m - n
    BY <1>3, <1>5
  <2> QED  BY <1>6, <2>1
<1>8. c[k + 1] = 0 /\ c[l] = m - n
  <2>1. k + 1 \in k + 1..l /\ l \in k + 1..l /\ n - n = 0
    BY <1>1, <1>3
  <2> QED  BY <1>2, <1>6, <2>1
<1>9. ASSUME NEW i \in k + 1..l, NEW j \in k + 1..l, i <= j PROVE c[i] <= c[j]
  <2>1. cut[i] <= cut[j] /\ cut[i] \in n..m /\ cut[j] \in n..m
    BY <1>2, <1>4, <1>5, <1>9
  <2>2. cut[i] - n <= cut[j] - n
    BY <1>3, <2>1
  <2> QED  BY <1>6, <2>2
<1>10. ASSUME NEW j \in (k + 1) + 1..l PROVE Piece(bb, c[j - 1], c[j], NumberFor(mode, vals[j]))
  <2>1. j \in k + 1..l /\ j - 1 \in k + 1..l
    BY <1>1
  <2>2. PICK p \in n..m, q \in n..m : p = cut[j - 1] /\ q = cut[j]
    BY <1>5, <2>1
  <2>3. Piece(b, p, q, NumberFor(mode, vals[j]))
    BY <1>2, <2>1, <2>2
  <2>4. PICK s : /\ Coded(s, NumberFor(mode, vals[j])) /\ Len(s) <= MaxVlen /\ q = p + Len(s)
                 /\ \A i \in 1..Len(s) : b[p + i] = s[i]
    BY <2>3 DEF Piece
  <2>5. PICK z \in Nat : z = Len(s) /\ q = p + z
    BY <2>4, LenProperties DEF Coded
  <2>6. ASSUME NEW i \in 1..Len(s) PROVE bb[(p - n) + i] = s[i]
    <3>1. i \in 1..z /\ n \in 0..m /\ p \in n..m /\ q \in n..m /\ q = p + z
      BY <1>3, <2>5
    <3>2. p + z <= m
      BY <3>1
    <3>3. (p - n) + i \in 1..m - n /\ n + ((p - n) + i) = p + i
      BY <3>1, <3>2, Shifted
    <3> QED  BY <1>1, <2>4, <3>3
  <2>7. q - n = (p - n) + Len(s)
    <3>1. n \in 0..m /\ p \in n..m /\ q = p + z
      BY <1>3, <2>5
    <3>2. q - n = (p - n) + z
      BY <3>1
    <3> QED  BY <2>5, <3>2
  <2>8. Piece(bb, p - n, q - n, NumberFor(mode, vals[j]))
    BY <2>4, <2>6, <2>7 DEF Piece
  <2> QED  BY <1>6, <2>1, <2>2, <2>8
<1>11. Carried(mode, bb, vals, k + 1, c)
  <2>1. PICK kk, mm : kk = k + 1 /\ mm = m - n
    OBVIOUS
  <2>2. /\ c \in [kk..l -> 0..mm] /\ c[kk] = 0 /\ c[l] = mm
        /\ \A i, j \in kk..l : i <= j => c[i] <= c[j]
        /\ \A j \in kk + 1..l : Piece(bb, c[j - 1], c[j], NumberFor(mode, vals[j]))
    BY <1>7, <1>8, <1>9, <1>10, <2>1
  <2>3. Len(vals) = l /\ Len(bb) = mm
    BY <1>1, <2>1
  <2>4. Carried(mode, bb, vals, kk, c)
    BY <2>2, <2>3 DEF Carried
  <2> QED  BY <2>1, <2>4
<1> QED  BY <1>11

LEMMA Halved ==
    ASSUME NEW x \in Nat
    PROVE  (2 * x) % 2 = 0 /\ (2 * x) \div 2 = x
  OBVIOUS

LEMMA NothingDecodes ==
    ASSUME NEW mode, NEW a, a = <<>>
    PROVE  DecodeOf(mode, a).vlen = -1
<1>1. Len(a) = 0 /\ {i \in 1..Len(a) : a[i] < Radix} = {}
  BY EmptySeq
<1>2. LastByte(a) = 0
  BY <1>1 DEF LastByte, SelectInSeq
<1>3. rd_varint_decode_u64(a).vlen = -1
  BY <1>1, <1>2 DEF rd_varint_decode_u64
<1>4. rd_varint_decode_s64(a).vlen = -1
  BY <1>3 DEF rd_varint_decode_s64
<1> QED  BY <1>3, <1>4 DEF DecodeOf

\* The reader gets the first value when all of it has arrived, and not before.
LEMMA FrontDecodes ==
    ASSUME SignedValues \subseteq Nat,
           NEW mode, NEW a \in Seq(Nat), NEW ww \in Seq(Nat), NEW vals \in Seq(ValuesOf(mode)),
           NEW k \in 0..Len(vals), k < Len(vals), NEW cut, Carried(mode, a \o ww, vals, k, cut)
    PROVE  /\ cut[k + 1] \in Nat /\ cut[k + 1] > 0 /\ cut[k + 1] <= Len(a) + Len(ww)
           /\ cut[k + 1] <= Len(a) => DecodeOf(mode, a) = [val |-> vals[k + 1], vlen |-> cut[k + 1]]
           /\ ~(cut[k + 1] <= Len(a)) => DecodeOf(mode, a).vlen = -(Len(a) + 1)
<1>1. PICK l \in Nat, m \in Nat, z \in Nat : l = Len(vals) /\ m = Len(a) /\ z = Len(ww) /\ k \in 0..l - 1
  BY LenProperties
<1>2. PICK b : b = a \o ww
  OBVIOUS
<1>3. b \in Seq(Nat) /\ Len(b) = m + z /\ \A i \in 1..m : b[i] = a[i]
  BY <1>1, <1>2, ConcatParts
<1>4. k + 1 \in k + 1..l /\ k + 1 \in k..l /\ (k + 1) - 1 = k /\ k + 1 \in 1..l
  BY <1>1
<1>5. PICK x : x = vals[k + 1]
  OBVIOUS
<1>6. PICK u \in Unsigneds : u = NumberFor(mode, x) /\ x \in ValuesOf(mode)
  <2>1. x \in ValuesOf(mode)
    BY <1>1, <1>4, <1>5, ElementOfSeq
  <2> QED  BY <2>1, NumberForFacts
<1>7. PICK n : n = cut[k + 1]
  OBVIOUS
<1>8. n \in 0..m + z /\ Piece(b, 0, n, u)
  <2>1. /\ cut \in [k..l -> 0..m + z] /\ cut[k] = 0
        /\ \A j \in k + 1..l : Piece(b, cut[j - 1], cut[j], NumberFor(mode, vals[j]))
    BY <1>1, <1>2, <1>3 DEF Carried
  <2> QED  BY <1>4, <1>5, <1>6, <1>7, <2>1
<1>9. PICK s : /\ Coded(s, u) /\ Len(s) <= MaxVlen /\ n = 0 + Len(s)
               /\ \A i \in 1..Len(s) : b[0 + i] = s[i]
  BY <1>8 DEF Piece
<1>10. Len(s) \in Nat /\ Len(s) # 0
  BY <1>9, EmptySeq, LenProperties DEF Coded
<1>11. n = Len(s)
  BY <1>9, <1>10
<1>12. Agree(a, s)
  <2>1. ASSUME NEW i \in 1..Len(s), i <= Len(a) PROVE a[i] = s[i]
    <3>1. i \in 1..m /\ 0 + i = i
      BY <1>1, <1>10, <2>1
    <3> QED  BY <1>3, <1>9, <3>1
  <2> QED  BY <2>1 DEF Agree
<1>13. PICK d : d = rd_varint_decode_u64(a)
  OBVIOUS
<1>14. n <= m => d = [val |-> u, vlen |-> n]
  BY <1>1, <1>9, <1>11, <1>12, <1>13, DecodeIs
<1>15. ~(n <= m) => d = [val |-> 0, vlen |-> -(m + 1)]
  BY <1>1, <1>9, <1>11, <1>12, <1>13, DecodeIs
<1>16. n \in Nat /\ n > 0 /\ n <= m + z
  BY <1>8, <1>10, <1>11
<1>17. CASE mode = "u64"
  <2>1. DecodeOf(mode, a) = d /\ u = x
    BY <1>6, <1>13, <1>17 DEF DecodeOf, NumberFor
  <2>2. ~(n <= m) => d.vlen = -(m + 1)
    BY <1>15
  <2> QED  BY <1>1, <1>5, <1>7, <1>14, <1>16, <2>1, <2>2
<1>18. CASE mode # "u64"
  <2>1. x \in Nat /\ u = 2 * x
    BY <1>6, <1>18 DEF ValuesOf, NumberFor
  <2>2. u % 2 = 0 /\ u \div 2 = x
    BY <2>1, Halved
  <2>3. DecodeOf(mode, a) = [vlen |-> d.vlen, val |-> IF d.vlen <= 0 \/ d.val % 2 = 1 THEN 0 ELSE d.val \div 2]
    BY <1>13, <1>18 DEF DecodeOf, rd_varint_decode_s64
  <2>4. ASSUME n <= m PROVE DecodeOf(mode, a) = [val |-> x, vlen |-> n]
    <3>1. d.vlen = n /\ d.val = u
      BY <1>14, <2>4
    <3>2. ~(d.vlen <= 0 \/ d.val % 2 = 1)
      BY <1>16, <2>2, <3>1
    <3> QED  BY <2>2, <2>3, <3>1, <3>2
  <2>5. ASSUME ~(n <= m) PROVE DecodeOf(mode, a).vlen = -(m + 1)
    <3>1. d.vlen = -(m + 1)
      BY <1>15, <2>5
    <3> QED  BY <2>3, <3>1
  <2> QED  BY <1>1, <1>5, <1>7, <1>16, <2>4, <2>5
<1> QED  BY <1>17, <1>18

-----------------------------------------------------------------------------
\* What has been read is what was sent, and what is under way is the bytes of
\* the rest.
StreamOK ==
    /\ sent \in Seq(ValuesOf(encMode)) /\ wire \in Seq(Nat) /\ arrived \in Seq(Nat)
    /\ received \in Seq(ValuesOf(encMode)) /\ Len(received) <= Len(sent)
    /\ \A j \in 1..Len(received) : received[j] = sent[j]
    /\ \E cut : Carried(encMode, arrived \o wire, sent, Len(received), cut)

LEMMA StreamStarts ==
    ASSUME sent = <<>>, wire = <<>>, arrived = <<>>, received = <<>>
    PROVE  StreamOK
<1>1. arrived \o wire = <<>>
  OBVIOUS
<1>2. PICK e : e = <<>>
  OBVIOUS
<1>3. Len(e) = 0 /\ \A S : e \in Seq(S)
  BY <1>2
<1>4. PICK c : c = [i \in 0..0 |-> 0]
  OBVIOUS
<1>5. c \in [0..0 -> 0..0] /\ c[0] = 0 /\ \A i, j \in 0..0 : c[i] <= c[j]
  BY <1>4
<1>6. \A j \in 0 + 1..0 : FALSE
  OBVIOUS
<1>7. Carried(encMode, e, e, 0, c)
  BY <1>3, <1>5, <1>6 DEF Carried
<1>8. \A j \in 1..Len(e) : FALSE
  BY <1>3
<1> QED  BY <1>1, <1>2, <1>3, <1>7, <1>8 DEF StreamOK

LEMMA WriteStep ==
    ASSUME StreamOK, NEW x \in ValuesOf(encMode), NEW t, Coded(t, NumberFor(encMode, x)),
           Len(t) <= MaxVlen, Write(x, t)
    PROVE  StreamOK'
<1>1. /\ sent' = Append(sent, x) /\ wire' = wire \o t
      /\ encMode' = encMode /\ arrived' = arrived /\ received' = received
  BY DEF Write
<1>2. PICK l \in Nat, k \in Nat : l = Len(sent) /\ k = Len(received) /\ k \in 0..l
  BY LenProperties DEF StreamOK
<1>3. PICK V : V = ValuesOf(encMode)
  OBVIOUS
<1>4. sent \in Seq(V) /\ received \in Seq(V) /\ x \in V /\ wire \in Seq(Nat) /\ arrived \in Seq(Nat)
  BY <1>3 DEF StreamOK
<1>5. PICK ss : ss = Append(sent, x)
  OBVIOUS
<1>6. ss \in Seq(V) /\ Len(ss) = l + 1 /\ \A j \in 1..l : ss[j] = sent[j]
  BY <1>2, <1>4, <1>5, AppendProperties
<1>7. t \in Seq(Nat)
  BY DEF Coded
<1>8. wire \o t \in Seq(Nat) /\ arrived \o wire \in Seq(Nat)
  BY <1>4, <1>7, ConcatParts
<1>9. arrived \o (wire \o t) = (arrived \o wire) \o t
  BY <1>4, <1>7, ConcatAssociative
<1>10. PICK cut : Carried(encMode, arrived \o wire, sent, k, cut)
  BY <1>2 DEF StreamOK
<1>11. PICK b \in Seq(Nat) : b = arrived \o wire
  BY <1>8
<1>12. PICK c : Carried(encMode, b \o t, ss, k, c)
  <2>1. Carried(encMode, b, sent, k, cut)
    BY <1>10, <1>11
  <2>2. k \in 0..Len(sent)
    BY <1>2
  <2>3. \E c : Carried(encMode, b \o t, Append(sent, x), k, c)
    BY <1>4, <2>1, <2>2, StreamGrows
  <2> QED  BY <1>5, <2>3
<1>13. \A j \in 1..k : received[j] = ss[j]
  <2>1. \A j \in 1..k : received[j] = sent[j] /\ j \in 1..l
    BY <1>2 DEF StreamOK
  <2> QED  BY <1>6, <2>1
<1>14. Carried(encMode', arrived' \o wire', sent', Len(received'), c)
  BY <1>1, <1>2, <1>5, <1>9, <1>11, <1>12
<1>15. Len(received') <= Len(sent')
  BY <1>1, <1>2, <1>5, <1>6
<1> QED  BY <1>1, <1>2, <1>3, <1>4, <1>5, <1>6, <1>8, <1>13, <1>14, <1>15 DEF StreamOK, ValuesOf

LEMMA ArriveStep ==
    ASSUME StreamOK, Arrive
    PROVE  StreamOK'
<1>1. /\ wire # <<>> /\ arrived' = Append(arrived, Head(wire)) /\ wire' = Tail(wire)
      /\ encMode' = encMode /\ sent' = sent /\ received' = received
  BY DEF Arrive
<1>2. wire \in Seq(Nat) /\ arrived \in Seq(Nat)
  BY DEF StreamOK
<1>3. PICK h, t : h = Head(wire) /\ t = Tail(wire)
  OBVIOUS
<1>4. h \in Nat /\ t \in Seq(Nat) /\ wire = <<h>> \o t
  <2>1. h \in Nat /\ t \in Seq(Nat)
    BY <1>1, <1>2, <1>3, HeadTailProperties
  <2>2. PICK n \in Nat \ {0} : n = Len(wire)
    BY <1>1, <1>2, EmptySeq, LenProperties
  <2>3. h = wire[1] /\ Len(t) = n - 1 /\ \A i \in 1..n - 1 : t[i] = wire[i + 1]
    BY <1>1, <1>2, <1>3, <2>2, HeadTailProperties
  <2>4. PICK c : c = <<h>>
    OBVIOUS
  <2>5. c \in Seq(Nat) /\ Len(c) = 1 /\ c[1] = h
    BY <2>1, <2>4
  <2>6. PICK w : w = c \o t
    OBVIOUS
  <2>7. /\ w \in Seq(Nat) /\ Len(w) = 1 + (n - 1)
        /\ \A i \in 1..1 : w[i] = c[i]
        /\ \A i \in 1..n - 1 : w[1 + i] = t[i]
    <3>1. /\ c \o t \in Seq(Nat) /\ Len(c \o t) = Len(c) + Len(t)
          /\ \A i \in 1..Len(c) : (c \o t)[i] = c[i]
          /\ \A i \in 1..Len(t) : (c \o t)[Len(c) + i] = t[i]
      <4>1. c \in Seq(Nat) /\ t \in Seq(Nat)
        BY <2>1, <2>5
      <4> QED  BY <4>1, ConcatParts
    <3> QED  BY <2>3, <2>5, <2>6, <3>1
  <2>8. Len(w) = n
    BY <2>7
  <2>9. ASSUME NEW i \in 1..n PROVE w[i] = wire[i]
    <3>1. CASE i = 1
      BY <2>3, <2>5, <2>7, <3>1
    <3>2. CASE i # 1
      <4>1. i - 1 \in 1..n - 1 /\ 1 + (i - 1) = i /\ (i - 1) + 1 = i
        BY <3>2
      <4> QED  BY <2>3, <2>7, <4>1
    <3> QED  BY <3>1, <3>2
  <2>10. w = wire
    BY <1>2, <2>2, <2>7, <2>8, <2>9, SeqEqual
  <2> QED  BY <2>1, <2>4, <2>6, <2>10
<1>5. arrived' \o wire' = arrived \o wire
  <2>1. PICK c \in Seq(Nat) : c = <<h>>
    <3>1. <<h>> \in Seq(Nat)
      BY <1>4
    <3> QED  BY <3>1
  <2>2. Append(arrived, h) = arrived \o c
    BY <1>2, <1>4, <2>1, AppendIsConcat
  <2>3. (arrived \o c) \o t = arrived \o (c \o t)
    BY <1>2, <1>4, <2>1, ConcatAssociative
  <2> QED  BY <1>1, <1>3, <1>4, <2>1, <2>2, <2>3
<1>6. arrived' \in Seq(Nat) /\ wire' \in Seq(Nat)
  BY <1>1, <1>2, <1>3, <1>4, AppendProperties
<1> QED  BY <1>1, <1>5, <1>6 DEF StreamOK, ValuesOf

LEMMA ReadStep ==
    ASSUME SignedValues \subseteq Nat, StreamOK, Read
    PROVE  StreamOK'
<1>1. PICK V, d : V = ValuesOf(encMode) /\ d = Decoded
  OBVIOUS
<1>2. /\ d.vlen > 0 /\ received' = Append(received, d.val)
      /\ arrived' = SubSeq(arrived, d.vlen + 1, Len(arrived))
      /\ encMode' = encMode /\ sent' = sent /\ wire' = wire
  BY <1>1 DEF Read
<1>3. d = DecodeOf(encMode, arrived)
  BY <1>1 DEF Decoded, DecodeOf
<1>4. PICK l \in Nat, k \in Nat, m \in Nat, z \in Nat :
        l = Len(sent) /\ k = Len(received) /\ k \in 0..l /\ m = Len(arrived) /\ z = Len(wire)
  BY LenProperties DEF StreamOK
<1>5. sent \in Seq(V) /\ received \in Seq(V) /\ wire \in Seq(Nat) /\ arrived \in Seq(Nat)
  BY <1>1 DEF StreamOK
<1>6. PICK cut : Carried(encMode, arrived \o wire, sent, k, cut)
  BY <1>4 DEF StreamOK
<1>7. PICK b : b = arrived \o wire
  OBVIOUS
<1>8. /\ b \in Seq(Nat) /\ Len(b) = m + z
      /\ \A i \in 1..m : b[i] = arrived[i]
      /\ \A i \in 1..z : b[m + i] = wire[i]
  BY <1>4, <1>5, <1>7, ConcatParts
<1>9. k < l
  <2>1. SUFFICES ASSUME k = l PROVE FALSE
    BY <1>4
  <2>2. cut[k] = 0 /\ cut[l] = Len(b)
    BY <1>4, <1>6, <1>7 DEF Carried
  <2>3. m = 0
    BY <1>8, <2>1, <2>2
  <2>4. arrived = <<>>
    BY <1>4, <1>5, <2>3, EmptySeq
  <2>5. d.vlen = -1
    BY <1>3, <2>4, NothingDecodes
  <2> QED  BY <1>2, <2>5
<1>10. PICK n : n = cut[k + 1]
  OBVIOUS
<1>11. /\ n \in Nat /\ n > 0 /\ n <= m + z
       /\ n <= m => d = [val |-> sent[k + 1], vlen |-> n]
       /\ ~(n <= m) => d.vlen = -(m + 1)
  <2>1. k \in 0..Len(sent) /\ k < Len(sent) /\ sent \in Seq(ValuesOf(encMode))
    BY <1>1, <1>4, <1>5, <1>9
  <2>2. /\ cut[k + 1] \in Nat /\ cut[k + 1] > 0 /\ cut[k + 1] <= Len(arrived) + Len(wire)
        /\ cut[k + 1] <= Len(arrived) =>
              DecodeOf(encMode, arrived) = [val |-> sent[k + 1], vlen |-> cut[k + 1]]
        /\ ~(cut[k + 1] <= Len(arrived)) => DecodeOf(encMode, arrived).vlen = -(Len(arrived) + 1)
    BY <1>5, <1>6, <2>1, FrontDecodes
  <2> QED  BY <1>3, <1>4, <1>10, <2>2
<1>12. n <= m /\ d.val = sent[k + 1] /\ d.vlen = n
  <2>1. n <= m
    <3>1. SUFFICES ASSUME ~(n <= m) PROVE FALSE
      OBVIOUS
    <3>2. d.vlen = -(m + 1) /\ d.vlen > 0
      BY <1>2, <1>11, <3>1
    <3> QED  BY <3>2
  <2> QED  BY <1>11, <2>1
<1>13. PICK a : a = SubSeq(arrived, n + 1, m)
  OBVIOUS
<1>14. a \in Seq(Nat) /\ Len(a) = m - n /\ \A i \in 1..m - n : a[i] = arrived[n + i]
  <2>1. PICK from \in Nat : from = n + 1
    BY <1>11
  <2>2. from \in 1..m + 1
    BY <1>11, <1>12, <2>1
  <2>3. /\ SubSeq(arrived, from, m) \in Seq(Nat)
        /\ Len(SubSeq(arrived, from, m)) = IF from <= m THEN m - from + 1 ELSE 0
        /\ \A i \in 1..m - from + 1 : SubSeq(arrived, from, m)[i] = arrived[from + i - 1]
    BY <1>4, <1>5, <2>2, SubSeqProperties
  <2>4. (IF from <= m THEN m - from + 1 ELSE 0) = m - n /\ m - from + 1 = m - n
    BY <1>11, <1>12, <2>1
  <2>5. \A i \in 1..m - n : from + i - 1 = n + i
    BY <1>11, <2>1
  <2> QED  BY <1>13, <2>1, <2>3, <2>4, <2>5
<1>15. PICK bb : bb = a \o wire
  OBVIOUS
<1>16. /\ bb \in Seq(Nat) /\ Len(bb) = (m - n) + z
       /\ \A i \in 1..m - n : bb[i] = a[i]
       /\ \A i \in 1..z : bb[(m - n) + i] = wire[i]
  <2>1. /\ a \o wire \in Seq(Nat) /\ Len(a \o wire) = Len(a) + Len(wire)
        /\ \A i \in 1..Len(a) : (a \o wire)[i] = a[i]
        /\ \A i \in 1..Len(wire) : (a \o wire)[Len(a) + i] = wire[i]
    <3>1. a \in Seq(Nat) /\ wire \in Seq(Nat)
      BY <1>5, <1>14
    <3> QED  BY <3>1, ConcatParts
  <2> QED  BY <1>4, <1>14, <1>15, <2>1
<1>17. Len(bb) = Len(b) - n
  BY <1>8, <1>11, <1>12, <1>16
<1>18. ASSUME NEW i \in 1..Len(bb) PROVE bb[i] = b[n + i]
  <2>1. CASE i <= m - n
    <3>1. i \in 1..m - n /\ n + i \in 1..m
      BY <1>11, <1>12, <1>16, <2>1
    <3> QED  BY <1>8, <1>14, <1>16, <3>1
  <2>2. CASE ~(i <= m - n)
    <3>1. PICK j \in 1..z : i = (m - n) + j
      <4>1. i - (m - n) \in 1..z /\ i = (m - n) + (i - (m - n))
        BY <1>11, <1>12, <1>16, <2>2
      <4> QED  BY <4>1
    <3>2. n + i = m + j
      BY <1>11, <1>12, <3>1
    <3>3. bb[i] = wire[j]
      BY <1>16, <3>1
    <3> QED  BY <1>8, <3>2, <3>3
  <2> QED  BY <2>1, <2>2
<1>19. PICK c : Carried(encMode, bb, sent, k + 1, c)
  <2>1. Carried(encMode, b, sent, k, cut) /\ k \in 0..Len(sent) /\ k < Len(sent)
    BY <1>4, <1>6, <1>7, <1>9
  <2>2. b \in Seq(Nat) /\ bb \in Seq(Nat) /\ \A i \in 1..Len(bb) : bb[i] = b[n + i]
    BY <1>8, <1>16, <1>18
  <2>3. sent \in Seq(V) /\ n = cut[k + 1] /\ Len(bb) = Len(b) - n
    BY <1>5, <1>10, <1>17
  <2>4. \E c : Carried(encMode, bb, sent, k + 1, c)
    BY <2>1, <2>2, <2>3, StreamShrinks
  <2> QED  BY <2>4
<1>20. PICK rr : rr = Append(received, d.val)
  OBVIOUS
<1>21. d.val \in V
  <2>1. k + 1 \in 1..Len(sent)
    BY <1>4, <1>9
  <2> QED  BY <1>5, <1>12, <2>1, ElementOfSeq
<1>22. rr \in Seq(V) /\ Len(rr) = k + 1 /\ rr[k + 1] = sent[k + 1] /\ \A j \in 1..k : rr[j] = received[j]
  BY <1>4, <1>5, <1>12, <1>20, <1>21, AppendProperties
<1>23. ASSUME NEW j \in 1..k + 1 PROVE rr[j] = sent[j]
  <2>1. CASE j = k + 1
    BY <1>22, <2>1
  <2>2. CASE j # k + 1
    <3>1. j \in 1..k
      BY <2>2
    <3>2. received[j] = sent[j]
      BY <1>4, <3>1 DEF StreamOK
    <3> QED  BY <1>22, <3>1, <3>2
  <2> QED  BY <2>1, <2>2
<1>24. arrived' = a /\ wire' = wire /\ received' = rr /\ sent' = sent /\ encMode' = encMode
  BY <1>2, <1>4, <1>12, <1>13, <1>20
<1>25. Carried(encMode', arrived' \o wire', sent', Len(received'), c)
  BY <1>15, <1>19, <1>22, <1>24
<1>26. Len(received') <= Len(sent')
  BY <1>4, <1>9, <1>22, <1>24
<1>27. ValuesOf(encMode)' = V
  BY <1>1, <1>24 DEF ValuesOf
<1> QED  BY <1>5, <1>14, <1>22, <1>23, <1>24, <1>25, <1>26, <1>27 DEF StreamOK

\* Nothing is left behind when the reader has had all and can decode no more.
LEMMA StreamComplete ==
    ASSUME SignedValues \subseteq Nat, StreamOK
    PROVE  /\ IsPrefix(received, sent)
           /\ (wire = <<>> /\ Decoded.vlen <= 0) => received = sent
<1>1. PICK V, d : V = ValuesOf(encMode) /\ d = Decoded /\ d = DecodeOf(encMode, arrived)
  BY DEF Decoded, DecodeOf
<1>2. PICK l \in Nat, k \in Nat, m \in Nat, z \in Nat :
        l = Len(sent) /\ k = Len(received) /\ k \in 0..l /\ m = Len(arrived) /\ z = Len(wire)
  BY LenProperties DEF StreamOK
<1>3. sent \in Seq(V) /\ received \in Seq(V) /\ wire \in Seq(Nat) /\ arrived \in Seq(Nat)
  BY <1>1 DEF StreamOK
<1>4. PICK cut : Carried(encMode, arrived \o wire, sent, k, cut)
  BY <1>2 DEF StreamOK
<1>5. \A j \in 1..k : received[j] = sent[j]
  BY <1>2 DEF StreamOK
<1>6. IsPrefix(received, sent)
  <2>1. k \in 0..Len(received) /\ k \in 0..Len(sent)
    BY <1>2
  <2>2. PICK p, q : p = SubSeq(received, 1, k) /\ q = SubSeq(sent, 1, k)
    OBVIOUS
  <2>3. p \in Seq(V) /\ Len(p) = k /\ \A i \in 1..k : p[i] = received[i]
    BY <1>3, <2>1, <2>2, PrefixFacts
  <2>4. q \in Seq(V) /\ Len(q) = k /\ \A i \in 1..k : q[i] = sent[i]
    BY <1>3, <2>1, <2>2, PrefixFacts
  <2>5. p = q
    BY <1>5, <2>3, <2>4, SeqEqual
  <2>6. Len(received) <= Len(sent)
    BY <1>2
  <2> QED  BY <1>2, <2>2, <2>5, <2>6 DEF IsPrefix
<1>7. ASSUME wire = <<>>, d.vlen <= 0 PROVE received = sent
  <2>1. z = 0
    BY <1>2, <1>7, EmptySeq
  <2>2. k = l
    <3>1. SUFFICES ASSUME k < l PROVE FALSE
      BY <1>2
    <3>2. PICK n : n = cut[k + 1]
      OBVIOUS
    <3>3. /\ n \in Nat /\ n > 0 /\ n <= m + z
          /\ n <= m => d = [val |-> sent[k + 1], vlen |-> n]
      <4>1. k \in 0..Len(sent) /\ k < Len(sent) /\ sent \in Seq(ValuesOf(encMode))
        BY <1>1, <1>2, <1>3, <3>1
      <4>2. /\ cut[k + 1] \in Nat /\ cut[k + 1] > 0 /\ cut[k + 1] <= Len(arrived) + Len(wire)
            /\ cut[k + 1] <= Len(arrived) =>
                  DecodeOf(encMode, arrived) = [val |-> sent[k + 1], vlen |-> cut[k + 1]]
        BY <1>3, <1>4, <4>1, FrontDecodes
      <4> QED  BY <1>1, <1>2, <3>2, <4>2
    <3>4. n <= m
      BY <2>1, <3>3
    <3>5. d.vlen = n
      BY <3>3, <3>4
    <3> QED  BY <1>7, <3>3, <3>5
  <2> QED  BY <1>2, <1>3, <1>5, <2>2, SeqEqual
<1> QED  BY <1>1, <1>6, <1>7

LEMMA UnsignedStep ==
    ASSUME StreamOK, NEW u \in Unsigneds, NEW size \in 0..MaxVlen, WriteUnsigned(u, size)
    PROVE  StreamOK'
<1>1. PICK t : t = VarintBytes[u]
  OBVIOUS
<1>2. Coded(t, u)
  BY <1>1, VarintCoded
<1>3. Len(t) \in Nat
  BY <1>2, LenProperties DEF Coded
<1>4. encMode = "u64" /\ Len(t) <= size /\ Write(u, t)
  BY <1>1, <1>3 DEF WriteUnsigned, rd_varint_encode_u64, Write
<1>5. Len(t) <= MaxVlen
  BY <1>3, <1>4, PowerFacts
<1>6. u \in ValuesOf(encMode) /\ Coded(t, NumberFor(encMode, u))
  BY <1>2, <1>4 DEF ValuesOf, NumberFor
<1> QED  BY <1>4, <1>5, <1>6, WriteStep

LEMMA SignedStep ==
    ASSUME SignedValues \subseteq Nat, StreamOK, NEW x \in SignedValues, NEW size \in 0..MaxVlen,
           WriteSigned(x, size)
    PROVE  StreamOK'
<1>1. encMode = "s64" /\ encMode # "u64"
  BY DEF WriteSigned
<1>2. x \in ValuesOf(encMode) /\ NumberFor(encMode, x) = 2 * x
  BY <1>1 DEF ValuesOf, NumberFor
<1>3. PICK u \in Unsigneds : u = 2 * x
  BY <1>2, NumberForFacts
<1>4. PICK t : t = VarintBytes[u]
  OBVIOUS
<1>5. Coded(t, u)
  BY <1>4, VarintCoded
<1>6. Len(t) \in Nat
  BY <1>5, LenProperties DEF Coded
<1>7. (2 * x) % 2 ^ VBits = u
  <2>1. PICK k \in Nat \ {0} : k = Modulus /\ u \in Nat /\ u < k
    BY PowerFacts
  <2>2. u % k = u
    BY <2>1, SmallFacts
  <2> QED  BY <1>3, <2>1, <2>2 DEF Modulus
<1>8. rd_varint_encode_s64(x, size) = rd_varint_encode_u64(u, size)
  <2>1. ~(x < 0)
    OBVIOUS
  <2> QED  BY <1>7, <2>1 DEF rd_varint_encode_s64
<1>9. Len(t) <= size /\ Write(x, t)
  BY <1>4, <1>6, <1>8 DEF WriteSigned, rd_varint_encode_u64, Write
<1>10. Len(t) <= MaxVlen
  BY <1>6, <1>9, PowerFacts
<1> QED  BY <1>2, <1>3, <1>5, <1>9, <1>10, WriteStep

-----------------------------------------------------------------------------
(* Hexadecimal text.                                                       *)

\* t is the digits of the first m bytes of bin.
DigitsOf(t, bin, m) ==
    /\ t \in Seq(0..15) /\ Len(t) = 2 * m
    /\ \A i \in 1..m : t[2 * i - 1] = bin[i] \div 16 /\ t[2 * i] = bin[i] % 16

LEMMA ByteFacts ==
    ASSUME NEW x \in 0..255
    PROVE  x \div 16 \in 0..15 /\ x % 16 \in 0..15 /\ 16 * (x \div 16) + (x % 16) = x
  OBVIOUS

LEMMA ParityFacts ==
    ASSUME NEW i \in Nat \ {0}
    PROVE  /\ (2 * i - 1) % 2 = 1 /\ ((2 * i - 1) + 1) \div 2 = i
           /\ (2 * i) % 2 = 0 /\ (2 * i + 1) \div 2 = i
  OBVIOUS

\* m is how many of n bytes have their digits in dstlen characters.
Fits(m, n, dstlen) ==
    /\ m \in 0..n
    /\ m < n => dstlen <= 2 * m + 3
    /\ m > 0 => dstlen >= 2 * m + 2

LEMMA RoomIs ==
    ASSUME NEW n \in Nat, NEW dstlen \in Nat
    PROVE  Fits(RoomFor(n, dstlen), n, dstlen)
<1>1. PICK C : C = {i \in 1..n : 2 * (i - 1) + 3 < dstlen}
  OBVIOUS
<1>2. RoomFor(n, dstlen) = Cardinality(C)
  BY <1>1 DEF RoomFor
<1>3. \E m \in 0..n : Fits(m, n, dstlen)
  <2>1. CASE dstlen < 4
    <3>1. Fits(0, n, dstlen)
      BY <2>1 DEF Fits
    <3> QED  BY <3>1
  <2>2. CASE dstlen >= 2 * n + 2
    <3>1. Fits(n, n, dstlen)
      BY <2>2 DEF Fits
    <3> QED  BY <3>1
  <2>3. CASE dstlen >= 4 /\ dstlen < 2 * n + 2
    <3>1. PICK h \in Nat : h = dstlen \div 2 /\ 2 * h <= dstlen /\ dstlen <= 2 * h + 1
      OBVIOUS
    <3>2. h - 1 \in 0..n /\ Fits(h - 1, n, dstlen)
      BY <2>3, <3>1 DEF Fits
    <3> QED  BY <3>2
  <2> QED  BY <2>1, <2>2, <2>3
<1>4. PICK m \in 0..n : Fits(m, n, dstlen)
  BY <1>3
<1>5. C = 1..m
  <2>1. \A i \in 1..n : (2 * (i - 1) + 3 < dstlen) <=> i <= m
    BY <1>4 DEF Fits
  <2> QED  BY <1>1, <2>1
<1>6. Cardinality(1..m) = m
  <2>1. m \in Int /\ 1 \in Int
    OBVIOUS
  <2>2. Cardinality(1..m) = IF 1 > m THEN 0 ELSE m - 1 + 1
    BY <2>1, FS_Interval
  <2> QED  BY <2>2
<1> QED  BY <1>2, <1>4, <1>5, <1>6

LEMMA Bin2HexIs ==
    ASSUME NEW bin \in Seq(0..255), NEW dstlen \in Nat
    PROVE  DigitsOf(rd_bin2hex(bin, dstlen), bin, RoomFor(Len(bin), dstlen))
<1>1. PICK n \in Nat : n = Len(bin)
  BY LenProperties
<1>2. PICK m \in 0..n : m = RoomFor(Len(bin), dstlen)
  BY <1>1, RoomIs DEF Fits
<1>3. PICK t : t = rd_bin2hex(bin, dstlen)
  OBVIOUS
<1>4. t = [i \in 1..2 * m |-> IF i % 2 = 1 THEN bin[(i + 1) \div 2] \div 16 ELSE bin[(i + 1) \div 2] % 16]
  BY <1>2, <1>3 DEF rd_bin2hex
<1>5. \A i \in 1..n : bin[i] \in 0..255
  BY <1>1, ElementOfSeq
<1>6. ASSUME NEW i \in 1..2 * m
      PROVE  (IF i % 2 = 1 THEN bin[(i + 1) \div 2] \div 16 ELSE bin[(i + 1) \div 2] % 16) \in 0..15
  <2>1. (i + 1) \div 2 \in 1..m
    OBVIOUS
  <2>2. (i + 1) \div 2 \in 1..n
    BY <2>1
  <2>3. PICK x \in 0..255 : x = bin[(i + 1) \div 2]
    BY <1>5, <2>2
  <2>4. x \div 16 \in 0..15 /\ x % 16 \in 0..15
    BY ByteFacts
  <2> QED  BY <2>3, <2>4
<1>7. PICK k \in Nat : k = 2 * m
  <2>1. 2 * m \in Nat
    OBVIOUS
  <2> QED  BY <2>1
<1>8. t \in [1..k -> 0..15]
  BY <1>4, <1>6, <1>7
<1>9. t \in Seq(0..15) /\ Len(t) = 2 * m
  BY <1>7, <1>8
<1>10. ASSUME NEW i \in 1..m PROVE t[2 * i - 1] = bin[i] \div 16 /\ t[2 * i] = bin[i] % 16
  <2>1. PICK o \in Nat, e \in Nat : o = 2 * i - 1 /\ e = 2 * i
    <3>1. 2 * i - 1 \in Nat /\ 2 * i \in Nat
      OBVIOUS
    <3> QED  BY <3>1
  <2>2. o \in 1..2 * m /\ e \in 1..2 * m
    BY <2>1
  <2>3. o % 2 = 1 /\ (o + 1) \div 2 = i /\ e % 2 = 0 /\ (e + 1) \div 2 = i
    BY <2>1, ParityFacts
  <2>4. t[o] = bin[i] \div 16
    BY <1>4, <2>2, <2>3
  <2>5. t[e] = bin[i] % 16
    <3>1. ~(e % 2 = 1)
      BY <2>3
    <3> QED  BY <1>4, <2>2, <2>3, <3>1
  <2> QED  BY <2>1, <2>4, <2>5
<1>11. DigitsOf(t, bin, m)
  BY <1>9, <1>10 DEF DigitsOf
<1> QED  BY <1>2, <1>3, <1>11

\* f[i] is the digits among the first i characters.
CollectsDigits(f, text) ==
    f = [i \in 0..Len(text) |-> IF i = 0 THEN <<>>
                            ELSE IF IsDigit(text[i]) THEN Append(f[i - 1], text[i]) ELSE f[i - 1]]

LEMMA DigitsUnique ==
    ASSUME NEW text, NEW n \in Nat, n = Len(text), NEW f, CollectsDigits(f, text)
    PROVE  Digits(text) = f[n]
<1>1. PICK g : g = CHOOSE h : h = [i \in 0..Len(text) |-> IF i = 0 THEN <<>>
                       ELSE IF IsDigit(text[i]) THEN Append(h[i - 1], text[i]) ELSE h[i - 1]]
  OBVIOUS
<1>2. /\ g = [i \in 0..n |-> IF i = 0 THEN <<>>
                       ELSE IF IsDigit(text[i]) THEN Append(g[i - 1], text[i]) ELSE g[i - 1]]
      /\ f = [i \in 0..n |-> IF i = 0 THEN <<>>
                       ELSE IF IsDigit(text[i]) THEN Append(f[i - 1], text[i]) ELSE f[i - 1]]
  BY <1>1 DEF CollectsDigits
<1>3. Digits(text) = g[n]
  BY <1>1 DEF Digits
<1>4. PICK T : T = {i \in Nat : g[i] = f[i]}
  OBVIOUS
<1>5. 0 \in T
  <2>1. 0 \in 0..n
    OBVIOUS
  <2>2. g[0] = <<>> /\ f[0] = <<>>
    BY <1>2, <2>1
  <2> QED  BY <1>4, <2>2
<1>6. ASSUME NEW i \in 1..n, i - 1 \in T PROVE i \in T
  <2>1. i \in 0..n /\ i # 0
    OBVIOUS
  <2>2. g[i] = IF IsDigit(text[i]) THEN Append(g[i - 1], text[i]) ELSE g[i - 1]
    BY <1>2, <2>1
  <2>3. f[i] = IF IsDigit(text[i]) THEN Append(f[i - 1], text[i]) ELSE f[i - 1]
    BY <1>2, <2>1
  <2>4. g[i - 1] = f[i - 1]
    BY <1>4, <1>6
  <2>5. g[i] = f[i]
    BY <2>2, <2>3, <2>4
  <2> QED  BY <1>4, <2>5
<1>7. \A i \in 0..n : i \in T
  BY <1>5, <1>6, Upto
<1>8. n \in T
  BY <1>7
<1> QED  BY <1>3, <1>4, <1>8

LEMMA OneMore ==
    ASSUME NEW S, NEW t \in Seq(S), NEW i \in 1..Len(t)
    PROVE  Append(SubSeq(t, 1, i - 1), t[i]) = SubSeq(t, 1, i)
<1>1. PICK n \in Nat : n = Len(t)
  BY LenProperties
<1>2. i \in 0..Len(t) /\ i - 1 \in 0..Len(t) /\ i \in Nat
  BY <1>1
<1>3. PICK p, q : p = SubSeq(t, 1, i - 1) /\ q = SubSeq(t, 1, i)
  OBVIOUS
<1>4. p \in Seq(S) /\ Len(p) = i - 1 /\ \A j \in 1..i - 1 : p[j] = t[j]
  <2>1. PICK z \in 0..Len(t) : z = i - 1
    BY <1>2
  <2>2. SubSeq(t, 1, z) \in Seq(S) /\ Len(SubSeq(t, 1, z)) = z /\ \A j \in 1..z : SubSeq(t, 1, z)[j] = t[j]
    BY PrefixFacts
  <2> QED  BY <1>3, <2>1, <2>2
<1>5. q \in Seq(S) /\ Len(q) = i /\ \A j \in 1..i : q[j] = t[j]
  BY <1>2, <1>3, PrefixFacts
<1>6. t[i] \in S
  BY <1>1, ElementOfSeq
<1>7. PICK r : r = Append(p, t[i])
  OBVIOUS
<1>8. r \in Seq(S) /\ Len(r) = (i - 1) + 1 /\ r[(i - 1) + 1] = t[i] /\ \A j \in 1..i - 1 : r[j] = p[j]
  BY <1>4, <1>6, <1>7, AppendProperties
<1>9. (i - 1) + 1 = i
  BY <1>2
<1>10. Len(r) = i /\ r[i] = t[i]
  BY <1>8, <1>9
<1>11. ASSUME NEW j \in 1..i PROVE r[j] = q[j]
  <2>1. CASE j = i
    BY <1>5, <1>10, <2>1
  <2>2. CASE j # i
    <3>1. j \in 1..i - 1
      BY <1>2, <2>2
    <3> QED  BY <1>4, <1>5, <1>8, <3>1
  <2> QED  BY <2>1, <2>2
<1>12. r = q
  BY <1>5, <1>8, <1>10, <1>11, SeqEqual
<1> QED  BY <1>3, <1>7, <1>12

\* r is the digits t with a separator at some place.
Spaced(r, t, at) ==
    /\ r \in Seq(0..17) /\ Len(r) = Len(t) + 1
    /\ \A i \in 1..at - 1 : r[i] = t[i]
    /\ r[at] = Separator
    /\ \A i \in at..Len(t) : r[i + 1] = t[i]

LEMMA InsertAtIs ==
    ASSUME NEW t \in Seq(0..15), NEW at \in 1..Len(t) + 1
    PROVE  Spaced(InsertAt(t, at, Separator), t, at)
<1>1. PICK n \in Nat : n = Len(t) /\ at \in 1..n + 1
  BY LenProperties
<1>2. PICK p, c, q : p = SubSeq(t, 1, at - 1) /\ c = <<Separator>> /\ q = SubSeq(t, at, n)
  OBVIOUS
<1>3. t \in Seq(0..17)
  BY SeqMonotonic
<1>4. p \in Seq(0..17) /\ Len(p) = at - 1 /\ \A i \in 1..at - 1 : p[i] = t[i]
  <2>1. PICK z \in 0..Len(t) : z = at - 1
    BY <1>1
  <2>2. SubSeq(t, 1, z) \in Seq(0..17) /\ Len(SubSeq(t, 1, z)) = z /\ \A j \in 1..z : SubSeq(t, 1, z)[j] = t[j]
    BY <1>3, PrefixFacts
  <2> QED  BY <1>2, <2>1, <2>2
<1>5. c \in Seq(0..17) /\ Len(c) = 1 /\ c[1] = Separator
  BY <1>2 DEF Separator
<1>6. q \in Seq(0..17) /\ Len(q) = n + 1 - at /\ \A i \in 1..n + 1 - at : q[i] = t[at + i - 1]
  <2>1. /\ SubSeq(t, at, n) \in Seq(0..17)
        /\ Len(SubSeq(t, at, n)) = IF at <= n THEN n - at + 1 ELSE 0
        /\ \A i \in 1..n - at + 1 : SubSeq(t, at, n)[i] = t[at + i - 1]
    BY <1>1, <1>3, SubSeqProperties
  <2>2. (IF at <= n THEN n - at + 1 ELSE 0) = n + 1 - at /\ n - at + 1 = n + 1 - at
    BY <1>1
  <2> QED  BY <1>2, <2>1, <2>2
<1>7. PICK h : h = p \o c
  OBVIOUS
<1>8. h \in Seq(0..17) /\ Len(h) = at /\ h[at] = Separator /\ \A i \in 1..at - 1 : h[i] = t[i]
  <2>1. /\ p \o c \in Seq(0..17) /\ Len(p \o c) = Len(p) + Len(c)
        /\ \A i \in 1..Len(p) : (p \o c)[i] = p[i]
        /\ \A i \in 1..Len(c) : (p \o c)[Len(p) + i] = c[i]
    <3>1. p \in Seq(0..17) /\ c \in Seq(0..17)
      BY <1>4, <1>5
    <3> QED  BY <3>1, ConcatParts
  <2>2. Len(p) + Len(c) = at /\ Len(p) + 1 = at /\ 1 \in 1..Len(c)
    BY <1>1, <1>4, <1>5
  <2>3. h[at] = c[1]
    BY <1>7, <2>1, <2>2
  <2> QED  BY <1>4, <1>5, <1>7, <2>1, <2>2, <2>3
<1>9. PICK r : r = h \o q
  OBVIOUS
<1>10. /\ r \in Seq(0..17) /\ Len(r) = at + (n + 1 - at)
       /\ \A i \in 1..at : r[i] = h[i]
       /\ \A i \in 1..n + 1 - at : r[at + i] = q[i]
  <2>1. /\ h \o q \in Seq(0..17) /\ Len(h \o q) = Len(h) + Len(q)
        /\ \A i \in 1..Len(h) : (h \o q)[i] = h[i]
        /\ \A i \in 1..Len(q) : (h \o q)[Len(h) + i] = q[i]
    <3>1. h \in Seq(0..17) /\ q \in Seq(0..17)
      BY <1>6, <1>8
    <3> QED  BY <3>1, ConcatParts
  <2> QED  BY <1>6, <1>8, <1>9, <2>1
<1>11. Len(r) = n + 1 /\ at \in 1..at /\ \A i \in 1..at - 1 : i \in 1..at
  BY <1>1, <1>10
<1>12. r[at] = Separator /\ \A i \in 1..at - 1 : r[i] = t[i]
  BY <1>8, <1>10, <1>11
<1>13. ASSUME NEW i \in at..n PROVE r[i + 1] = t[i]
  <2>1. PICK j \in 1..n + 1 - at : j = i + 1 - at
    <3>1. i + 1 - at \in 1..n + 1 - at
      BY <1>1
    <3> QED  BY <3>1
  <2>2. i + 1 = at + j /\ at + j - 1 = i
    BY <1>1, <2>1
  <2> QED  BY <1>6, <1>10, <2>2
<1>14. r = InsertAt(t, at, Separator)
  BY <1>1, <1>2, <1>7, <1>9 DEF InsertAt
<1>15. Spaced(r, t, at)
  BY <1>1, <1>10, <1>11, <1>12, <1>13 DEF Spaced
<1> QED  BY <1>14, <1>15

\* The separator is skipped wherever it is.
LEMMA DigitsIs ==
    ASSUME NEW t \in Seq(0..15), NEW at \in 1..Len(t) + 1, NEW r, Spaced(r, t, at)
    PROVE  Digits(r) = t
<1>1. PICK n \in Nat : n = Len(t) /\ at \in 1..n + 1
  BY LenProperties
<1>2. /\ r \in Seq(0..17) /\ Len(r) = n + 1
      /\ \A i \in 1..at - 1 : r[i] = t[i]
      /\ r[at] = Separator
      /\ \A i \in at..n : r[i + 1] = t[i]
  BY <1>1 DEF Spaced
<1>3. PICK f : f = [i \in 0..n + 1 |-> IF i < at THEN SubSeq(t, 1, i) ELSE SubSeq(t, 1, i - 1)]
  OBVIOUS
<1>4. \A i \in 1..n : IsDigit(t[i]) /\ Append(SubSeq(t, 1, i - 1), t[i]) = SubSeq(t, 1, i)
  BY <1>1, ElementOfSeq, OneMore DEF IsDigit
<1>5. f[0] = <<>>
  <2>1. 0 \in 0..n + 1 /\ 0 < at
    BY <1>1
  <2>2. f[0] = SubSeq(t, 1, 0)
    BY <1>3, <2>1
  <2>3. Len(SubSeq(t, 1, 0)) = 0 /\ SubSeq(t, 1, 0) \in Seq(0..15)
    BY <1>1, PrefixFacts
  <2> QED  BY <2>2, <2>3, EmptySeq
<1>6. ASSUME NEW i \in 1..n + 1
      PROVE  f[i] = IF IsDigit(r[i]) THEN Append(f[i - 1], r[i]) ELSE f[i - 1]
  <2>1. i \in 0..n + 1 /\ i - 1 \in 0..n + 1
    OBVIOUS
  <2>2. CASE i < at
    <3>1. i \in 1..n /\ i \in 1..at - 1 /\ i - 1 < at
      BY <1>1, <2>2
    <3>2. f[i] = SubSeq(t, 1, i) /\ f[i - 1] = SubSeq(t, 1, i - 1) /\ r[i] = t[i]
      BY <1>2, <1>3, <2>1, <2>2, <3>1
    <3> QED  BY <1>4, <3>1, <3>2
  <2>3. CASE i = at
    <3>1. ~(i < at) /\ i - 1 < at
      BY <1>1, <2>3
    <3>2. f[i] = SubSeq(t, 1, i - 1) /\ f[i - 1] = SubSeq(t, 1, i - 1)
      BY <1>3, <2>1, <3>1
    <3>3. ~IsDigit(r[i])
      BY <1>2, <2>3 DEF IsDigit, Separator
    <3> QED  BY <3>2, <3>3
  <2>4. CASE i > at
    <3>1. PICK j \in at..n : j = i - 1 /\ j + 1 = i /\ j \in 1..n
      <4>1. i - 1 \in at..n /\ (i - 1) + 1 = i /\ i - 1 \in 1..n
        BY <1>1, <2>4
      <4> QED  BY <4>1
    <3>2. ~(i < at) /\ ~(j < at)
      BY <1>1, <2>4, <3>1
    <3>3. f[i] = SubSeq(t, 1, j) /\ f[j] = SubSeq(t, 1, j - 1) /\ r[i] = t[j]
      BY <1>2, <1>3, <2>1, <3>1, <3>2
    <3>4. IsDigit(r[i]) /\ Append(f[j], r[i]) = f[i]
      BY <1>4, <3>1, <3>3
    <3> QED  BY <3>1, <3>4
  <2> QED  BY <1>1, <2>2, <2>3, <2>4
<1>7. PICK m \in Nat : m = n + 1 /\ m = Len(r)
  <2>1. n + 1 \in Nat
    OBVIOUS
  <2> QED  BY <1>2, <2>1
<1>8. CollectsDigits(f, r)
  <2>1. f = [i \in 0..Len(r) |-> f[i]]
    BY <1>3, <1>7
  <2>2. \A i \in 0..Len(r) : i = 0 \/ i \in 1..n + 1
    BY <1>7
  <2>3. \A i \in 0..Len(r) : f[i] = IF i = 0 THEN <<>>
                        ELSE IF IsDigit(r[i]) THEN Append(f[i - 1], r[i]) ELSE f[i - 1]
    BY <1>5, <1>6, <2>2
  <2> QED  BY <2>1, <2>3 DEF CollectsDigits
<1>9. Digits(r) = f[m]
  BY <1>7, <1>8, DigitsUnique
<1>10. f[m] = SubSeq(t, 1, n)
  <2>1. m \in 0..n + 1 /\ ~(m < at) /\ m - 1 = n
    BY <1>1, <1>7
  <2> QED  BY <1>3, <2>1
<1>11. SubSeq(t, 1, n) = t
  <2>1. PICK p : p = SubSeq(t, 1, n)
    OBVIOUS
  <2>2. p \in Seq(0..15) /\ Len(p) = n /\ \A i \in 1..n : p[i] = t[i]
    BY <1>1, <2>1, PrefixFacts
  <2>3. p = t
    BY <1>1, <2>2, SeqEqual
  <2> QED  BY <2>1, <2>3
<1> QED  BY <1>9, <1>10, <1>11

\* w is the digits of the first m bytes of bin with a separator at some place,
\* and what stops the decoder.
TextFor(w, bin, m, t, at) ==
    /\ m \in 0..Len(bin) /\ DigitsOf(t, bin, m) /\ at \in 1..Len(t) + 1
    /\ w = Append(InsertAt(t, at, Separator), Stop)

\* The decoder reads all of the digits, and stops behind them.
LEMMA TextRead ==
    ASSUME NEW w, NEW bin \in Seq(0..255), NEW m, NEW t, NEW at, TextFor(w, bin, m, t, at)
    PROVE  /\ w # <<>> /\ StopAt(w) \in Nat /\ StopAt(w) # 0
           /\ Digits(SubSeq(w, 1, StopAt(w) - 1)) = t
<1>1. PICK n \in Nat : n = Len(t)
  BY LenProperties DEF TextFor, DigitsOf
<1>2. t \in Seq(0..15) /\ at \in 1..n + 1 /\ at \in 1..Len(t) + 1
  BY <1>1 DEF TextFor, DigitsOf
<1>3. PICK r : r = InsertAt(t, at, Separator) /\ Spaced(r, t, at) /\ w = Append(r, Stop)
  BY <1>2, InsertAtIs DEF TextFor
<1>4. /\ r \in Seq(0..17) /\ Len(r) = n + 1
      /\ \A i \in 1..at - 1 : r[i] = t[i]
      /\ r[at] = Separator
      /\ \A i \in at..n : r[i + 1] = t[i]
  BY <1>1, <1>3 DEF Spaced
<1>5. w \in Seq(0..17) /\ Len(w) = n + 2 /\ w[n + 2] = Stop /\ \A i \in 1..n + 1 : w[i] = r[i]
  <2>1. Stop \in 0..17
    BY DEF Stop
  <2>2. /\ Append(r, Stop) \in Seq(0..17) /\ Len(Append(r, Stop)) = Len(r) + 1
        /\ \A i \in 1..Len(r) : Append(r, Stop)[i] = r[i]
        /\ Append(r, Stop)[Len(r) + 1] = Stop
    BY <1>4, <2>1, AppendProperties
  <2>3. (n + 1) + 1 = n + 2
    OBVIOUS
  <2> QED  BY <1>3, <1>4, <2>2, <2>3
<1>6. ASSUME NEW i \in 1..n + 1 PROVE w[i] # Stop
  <2>1. \A j \in 1..n : t[j] \in 0..15
    BY <1>1, <1>2, ElementOfSeq
  <2>2. CASE i < at
    <3>1. i \in 1..at - 1 /\ i \in 1..n
      BY <1>2, <2>2
    <3>2. w[i] = t[i] /\ t[i] \in 0..15
      BY <1>4, <1>5, <2>1, <3>1
    <3> QED  BY <3>2 DEF Stop
  <2>3. CASE i = at
    BY <1>4, <1>5, <2>3 DEF Stop, Separator
  <2>4. CASE i > at
    <3>1. PICK j \in at..n : j + 1 = i /\ j \in 1..n
      <4>1. i - 1 \in at..n /\ (i - 1) + 1 = i /\ i - 1 \in 1..n
        BY <1>2, <2>4
      <4> QED  BY <4>1
    <3>2. w[i] = t[j]
      BY <1>4, <1>5, <3>1
    <3> QED  BY <2>1, <3>1, <3>2 DEF Stop
  <2> QED  BY <1>2, <2>2, <2>3, <2>4
<1>7. PICK E : E = {i \in 1..Len(w) : w[i] = Stop}
  OBVIOUS
<1>8. StopAt(w) = IF E # {} THEN Min(E) ELSE 0
  BY <1>7 DEF StopAt, SelectInSeq
<1>9. E = {n + 2}
  <2>1. n + 2 \in E
    BY <1>5, <1>7
  <2>2. ASSUME NEW i \in E PROVE i = n + 2
    <3>1. i \in 1..n + 2 /\ w[i] = Stop
      BY <1>5, <1>7
    <3>2. i \notin 1..n + 1
      BY <1>6, <3>1
    <3> QED  BY <3>1, <3>2
  <2> QED  BY <2>1, <2>2
<1>10. StopAt(w) = n + 2
  <2>1. PICK e \in Int : e = n + 2
    OBVIOUS
  <2>2. E \in SUBSET Int /\ e \in E /\ \A y \in E : e <= y
    BY <1>9, <2>1
  <2>3. Min(E) = e
    BY <2>2, MinIs
  <2> QED  BY <1>8, <2>1, <2>2, <2>3
<1>11. SubSeq(w, 1, n + 1) = r
  <2>1. PICK k \in 0..Len(w) : k = n + 1
    BY <1>5
  <2>2. PICK p : p = SubSeq(w, 1, k)
    OBVIOUS
  <2>3. p \in Seq(0..17) /\ Len(p) = k /\ \A i \in 1..k : p[i] = w[i]
    BY <1>5, <2>2, PrefixFacts
  <2>4. Len(p) = Len(r) /\ \A i \in 1..Len(p) : p[i] = r[i]
    BY <1>4, <1>5, <2>1, <2>3
  <2>5. p = r
    BY <1>4, <2>3, <2>4, SeqEqual
  <2> QED  BY <2>1, <2>2, <2>5
<1>12. StopAt(w) \in Nat /\ StopAt(w) # 0 /\ StopAt(w) - 1 = n + 1
  BY <1>10
<1>13. Digits(r) = t
  BY <1>2, <1>3, DigitsIs
<1>14. w # <<>>
  BY <1>5, EmptySeq
<1> QED  BY <1>11, <1>12, <1>13, <1>14

LEMMA Hex2BinIs ==
    ASSUME NEW w, NEW bin \in Seq(0..255), NEW m, NEW t, NEW at, TextFor(w, bin, m, t, at),
           NEW dstlen \in Nat, NEW out, out = rd_hex2bin(w, dstlen)
    PROVE  /\ IsPrefix(out, bin) /\ Len(out) \in {dstlen, m} /\ Len(out) <= dstlen /\ Len(out) <= m
           /\ Len(out) = Len(bin) => out = bin
<1>1. PICK n \in Nat : n = Len(bin) /\ m \in 0..n
  BY LenProperties DEF TextFor
<1>2. /\ t \in Seq(0..15) /\ Len(t) = 2 * m
      /\ \A i \in 1..m : t[2 * i - 1] = bin[i] \div 16 /\ t[2 * i] = bin[i] % 16
  BY DEF TextFor, DigitsOf
<1>3. Len(t) \div 2 = m
  <2>1. m \in Nat
    BY <1>1
  <2> QED  BY <1>2, <2>1, Halved
<1>4. PICK k \in Nat : k = Min({dstlen, m}) /\ k <= dstlen /\ k <= m /\ (k = dstlen \/ k = m)
  <2>1. m \in Nat
    BY <1>1
  <2> QED  BY <2>1, MinOfTwo
<1>5. Digits(SubSeq(w, 1, StopAt(w) - 1)) = t /\ StopAt(w) # 0
  BY TextRead
<1>6. out = [i \in 1..k |-> 16 * t[2 * i - 1] + t[2 * i]]
  BY <1>3, <1>4, <1>5 DEF rd_hex2bin
<1>7. ASSUME NEW i \in 1..k PROVE 16 * t[2 * i - 1] + t[2 * i] = bin[i] /\ bin[i] \in 0..255
  <2>1. i \in 1..m /\ i \in 1..n
    BY <1>1, <1>4
  <2>2. PICK x \in 0..255 : x = bin[i]
    BY <1>1, <2>1, ElementOfSeq
  <2>3. 16 * (x \div 16) + (x % 16) = x
    BY ByteFacts
  <2> QED  BY <1>2, <2>1, <2>2, <2>3
<1>8. out = [i \in 1..k |-> bin[i]]
  BY <1>6, <1>7
<1>9. out \in [1..k -> 0..255]
  BY <1>7, <1>8
<1>10. out \in Seq(0..255) /\ Len(out) = k /\ \A i \in 1..k : out[i] = bin[i]
  BY <1>8, <1>9
<1>11. IsPrefix(out, bin)
  <2>1. k \in 0..Len(out) /\ k \in 0..Len(bin) /\ Len(out) <= Len(bin)
    BY <1>1, <1>4, <1>10
  <2>2. PICK p, q : p = SubSeq(out, 1, k) /\ q = SubSeq(bin, 1, k)
    OBVIOUS
  <2>3. p \in Seq(0..255) /\ Len(p) = k /\ \A i \in 1..k : p[i] = out[i]
    <3>1. PICK o \in Seq(0..255) : o = out
      BY <1>10
    <3>2. PICK l \in 0..Len(o) : l = k
      BY <2>1, <3>1
    <3>3. /\ SubSeq(o, 1, l) \in Seq(0..255) /\ Len(SubSeq(o, 1, l)) = l
          /\ \A i \in 1..l : SubSeq(o, 1, l)[i] = o[i]
      BY PrefixFacts
    <3> QED  BY <2>2, <3>1, <3>2, <3>3
  <2>4. q \in Seq(0..255) /\ Len(q) = k /\ \A i \in 1..k : q[i] = bin[i]
    BY <2>1, <2>2, PrefixFacts
  <2>5. p = q
    BY <1>10, <2>3, <2>4, SeqEqual
  <2> QED  BY <1>10, <2>1, <2>2, <2>5 DEF IsPrefix
<1>12. ASSUME Len(out) = Len(bin) PROVE out = bin
  BY <1>1, <1>10, <1>12, SeqEqual
<1> QED  BY <1>4, <1>10, <1>11, <1>12

-----------------------------------------------------------------------------
\* A text is on its way, or it has been read.
TextOK ==
    /\ sent \in Seq(0..255) /\ dstlens \in [text : Nat, bin : Nat]
    /\ arrived = <<>> =>
        /\ received = <<>>
        /\ wire = <<>> \/ \E m, t, at : TextFor(wire, sent, m, t, at) /\ Fits(m, Len(sent), dstlens.text)
    /\ arrived # <<>> => wire = <<>> /\ IsPrefix(received, sent) /\ TextArrives

LEMMA WriteTextStep ==
    ASSUME TextOK, NEW bin \in BoundedSeq(HexBytes, MaxHex), NEW dstlen \in Nat, NEW at,
           WriteText(bin, dstlen, at)
    PROVE  TextOK'
<1>1. bin \in Seq(0..255)
  <2>1. PICK n \in 0..MaxHex : bin \in [1..n -> HexBytes]
    BY DEF BoundedSeq, SeqOf
  <2>2. n \in Nat /\ HexBytes \subseteq 0..255
    BY EncAssumption
  <2>3. bin \in [1..n -> 0..255]
    BY <2>1, <2>2
  <2> QED  BY <2>2, <2>3
<1>2. PICK t, m : t = rd_bin2hex(bin, dstlen) /\ m = RoomFor(Len(bin), dstlen)
  OBVIOUS
<1>3. DigitsOf(t, bin, m)
  BY <1>1, <1>2, Bin2HexIs
<1>4. Fits(m, Len(bin), dstlen) /\ m \in 0..Len(bin)
  <2>1. Len(bin) \in Nat
    BY <1>1, LenProperties
  <2>2. Fits(m, Len(bin), dstlen)
    BY <1>2, <2>1, RoomIs
  <2> QED  BY <2>2 DEF Fits
<1>5. /\ arrived = <<>> /\ at \in 1..Len(t) + 1 /\ wire' = Append(InsertAt(t, at, Separator), Stop)
      /\ sent' = bin /\ dstlens' = [dstlens EXCEPT !.text = dstlen]
      /\ arrived' = arrived /\ received' = received
  BY <1>2 DEF WriteText
<1>6. TextFor(wire', sent', m, t, at)
  BY <1>3, <1>4, <1>5 DEF TextFor
<1>7. received' = <<>> /\ arrived' = <<>>
  BY <1>5 DEF TextOK
<1>8. dstlens' \in [text : Nat, bin : Nat] /\ dstlens'.text = dstlen
  BY <1>5 DEF TextOK
<1>9. Fits(m, Len(sent'), dstlens'.text)
  BY <1>4, <1>5, <1>8
<1> QED  BY <1>1, <1>5, <1>6, <1>7, <1>8, <1>9 DEF TextOK

LEMMA ReadTextStep ==
    ASSUME TextOK, NEW dstlen \in Nat, ReadText(dstlen)
    PROVE  TextOK'
<1>1. /\ wire # <<>> /\ received' = rd_hex2bin(wire, dstlen) /\ arrived' = wire /\ wire' = <<>>
      /\ dstlens' = [dstlens EXCEPT !.bin = dstlen] /\ sent' = sent
  BY DEF ReadText
<1>2. sent \in Seq(0..255) /\ dstlens \in [text : Nat, bin : Nat]
  BY DEF TextOK
<1>3. PICK m, t, at : TextFor(wire, sent, m, t, at) /\ Fits(m, Len(sent), dstlens.text)
  BY <1>1 DEF TextOK
<1>4. PICK out : out = rd_hex2bin(wire, dstlen)
  OBVIOUS
<1>5. /\ IsPrefix(out, sent) /\ Len(out) \in {dstlen, m} /\ Len(out) <= dstlen /\ Len(out) <= m
      /\ Len(out) = Len(sent) => out = sent
  BY <1>2, <1>3, <1>4, Hex2BinIs
<1>6. dstlens' \in [text : Nat, bin : Nat] /\ dstlens'.text = dstlens.text /\ dstlens'.bin = dstlen
  BY <1>1, <1>2
<1>7. arrived' # <<>> /\ IsPrefix(received', sent')
  BY <1>1, <1>4, <1>5
<1>8. TextArrives'
  <2>1. PICK n, x, k : n = Len(sent) /\ x = dstlens.text /\ k = Len(out) /\ n \in Nat /\ x \in Nat
    BY <1>2, LenProperties
  <2>2. /\ n \in Nat /\ x \in Nat
        /\ m \in 0..n /\ (m < n => x <= 2 * m + 3) /\ (m > 0 => x >= 2 * m + 2)
    BY <1>3, <2>1 DEF Fits
  <2>3. (out = sent) <=> k = n
    BY <1>5, <2>1
  <2>4. k \in {dstlen, m} /\ k <= dstlen /\ k <= m
    BY <1>5, <2>1
  <2>5. k = n <=> (n = 0 \/ (x >= 2 * n + 2 /\ dstlen >= n))
    BY <2>2, <2>4
  <2>6. (n > 0 /\ x = 2 * n + 1 /\ dstlen >= n) => k = n - 1
    BY <2>2, <2>4
  <2>7. /\ sent' = sent /\ received' = out /\ Len(sent') = n /\ Len(received') = k
        /\ dstlens'.text = x /\ dstlens'.bin = dstlen
    BY <1>1, <1>4, <1>6, <2>1
  <2> QED  BY <2>3, <2>5, <2>6, <2>7 DEF TextArrives
<1> QED  BY <1>1, <1>2, <1>6, <1>7, <1>8 DEF TextOK

-----------------------------------------------------------------------------
EncInv ==
    /\ encMode \in {"u64", "s64", "hex"}
    /\ encMode # "hex" => StreamOK
    /\ encMode = "hex" => TextOK

LEMMA EncStep ==
    ASSUME SignedValues \subseteq Nat, EncInv, EncNext
    PROVE  EncInv'
<1>1. ASSUME NEW size \in 0..MaxVlen, NEW u \in Unsigneds, WriteUnsigned(u, size) PROVE EncInv'
  <2>1. encMode = "u64" /\ encMode' = encMode
    BY <1>1 DEF WriteUnsigned, Write
  <2>2. StreamOK'
    BY <1>1, <2>1, UnsignedStep DEF EncInv
  <2> QED  BY <2>1, <2>2 DEF EncInv
<1>2. ASSUME NEW size \in 0..MaxVlen, NEW s \in SignedValues, WriteSigned(s, size) PROVE EncInv'
  <2>1. encMode = "s64" /\ encMode' = encMode
    BY <1>2 DEF WriteSigned, Write
  <2>2. StreamOK'
    BY <1>2, <2>1, SignedStep DEF EncInv
  <2> QED  BY <2>1, <2>2 DEF EncInv
<1>3. ASSUME Arrive PROVE EncInv'
  <2>1. encMode # "hex" /\ encMode' = encMode
    BY <1>3 DEF Arrive
  <2>2. StreamOK'
    BY <1>3, <2>1, ArriveStep DEF EncInv
  <2> QED  BY <2>1, <2>2 DEF EncInv
<1>4. ASSUME Read PROVE EncInv'
  <2>1. encMode # "hex" /\ encMode' = encMode
    BY <1>4 DEF Read
  <2>2. StreamOK'
    BY <1>4, <2>1, ReadStep DEF EncInv
  <2> QED  BY <2>1, <2>2 DEF EncInv
<1>5. ASSUME NEW bin \in BoundedSeq(HexBytes, MaxHex), NEW dstlen \in 0..2 * MaxHex + 2, NEW at,
             WriteText(bin, dstlen, at)
      PROVE  EncInv'
  <2>1. encMode = "hex" /\ encMode' = encMode
    BY <1>5 DEF WriteText
  <2>2. dstlen \in Nat
    BY EncAssumption
  <2>3. TextOK'
    BY <1>5, <2>1, <2>2, WriteTextStep DEF EncInv
  <2> QED  BY <2>1, <2>3 DEF EncInv
<1>6. ASSUME NEW dstlen \in 0..MaxHex, ReadText(dstlen) PROVE EncInv'
  <2>1. encMode = "hex" /\ encMode' = encMode
    BY <1>6 DEF ReadText
  <2>2. dstlen \in Nat
    BY EncAssumption
  <2>3. TextOK'
    BY <1>6, <2>1, <2>2, ReadTextStep DEF EncInv
  <2> QED  BY <2>1, <2>3 DEF EncInv
<1> QED  BY <1>1, <1>2, <1>3, <1>4, <1>5, <1>6 DEF EncNext

LEMMA EncStutter ==
    ASSUME EncInv, UNCHANGED encVars
    PROVE  EncInv'
  BY DEF EncInv, StreamOK, TextOK, TextArrives, ValuesOf, encVars

LEMMA EncStart ==
    ASSUME EncInit
    PROVE  EncInv
<1>1. encMode \in {"u64", "s64", "hex"}
  BY DEF EncInit
<1>2. StreamOK
  BY StreamStarts DEF EncInit
<1>3. TextOK
  BY DEF EncInit, TextOK
<1> QED  BY <1>1, <1>2, <1>3 DEF EncInv

LEMMA EncHolds ==
    ASSUME SignedValues \subseteq Nat, EncInv
    PROVE  ValuesArriveIntact
<1>1. CASE encMode # "hex"
  <2>1. /\ IsPrefix(received, sent)
        /\ (wire = <<>> /\ Decoded.vlen <= 0) => received = sent
    BY <1>1, StreamComplete DEF EncInv
  <2> QED  BY <1>1, <2>1 DEF ValuesArriveIntact
<1>2. CASE encMode = "hex"
  <2>1. TextOK
    BY <1>2 DEF EncInv
  <2>2. IsPrefix(received, sent)
    <3>1. CASE arrived = <<>>
      <4>1. PICK e : e = <<>>
        OBVIOUS
      <4>2. received = e /\ Len(e) = 0 /\ Len(sent) \in Nat
        BY <2>1, <3>1, <4>1, EmptySeq, LenProperties DEF TextOK
      <4>3. SubSeq(e, 1, 0) = <<>> /\ SubSeq(sent, 1, 0) = <<>>
        BY SubSeqEmpty
      <4> QED  BY <4>2, <4>3 DEF IsPrefix
    <3>2. CASE arrived # <<>>
      BY <2>1, <3>2 DEF TextOK
    <3> QED  BY <3>1, <3>2
  <2> QED  BY <1>2, <2>1, <2>2 DEF ValuesArriveIntact, TextOK
<1> QED  BY <1>1, <1>2

\* rd_varint_encode_u64(), rd_varint_decode_u64(), rd_bin2hex() and rd_hex2bin():
\* integers of any width arrive as they were written, in order and all of
\* them, however the stream is cut.  Signed integers do too unless they are
\* negative: rd_varint_encode_s64() makes every negative one 0.  Any bytes
\* written as text arrive, all of them exactly if the buffer for the text is
\* larger than the 2n + 1 characters of rdencoding.h; with these 2n + 1
\* characters the last byte is lost.
THEOREM ValuesAlwaysArrive ==
    ASSUME SignedValues \subseteq Nat
    PROVE  EncSpec => []ValuesArriveIntact
<1>1. EncInit => EncInv
  BY EncStart
<1>2. EncInv /\ [EncNext]_encVars => EncInv'
  BY EncStep, EncStutter
<1>3. EncInv => ValuesArriveIntact
  BY EncHolds
<1> QED  BY <1>1, <1>2, <1>3, PTL DEF EncSpec
=============================================================================
