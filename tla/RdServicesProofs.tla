-------------------------- MODULE RdServicesProofs --------------------------
(***************************************************************************)
(* Proofs about three of the services: the rates of rdavg.c, the bit       *)
(* vectors of rdbits.c and the options parser of rdopt.c, which keeps the  *)
(* options it has seen in a bit vector.                                    *)
(*                                                                         *)
(* The last two rest on one description of a vector, IsVec: bit b of word  *)
(* w is set exactly when w * WordBits + b is a member of a set.  A         *)
(* quotient and a remainder by WordBits name one bit of one word, so an    *)
(* operation on a number touches that bit and no other.                    *)
(***************************************************************************)
EXTENDS RdOpt, RdBitvec, RdAvg, FiniteSetTheorems, SequenceTheorems, NaturalsInduction, WellFoundedInduction, TLAPS

-----------------------------------------------------------------------------
(***************************************************************************)
(* Rates: for a ring of any size and periods of any duration every value   *)
(* is counted in the period it was put in, and a closed period reports     *)
(* what was put.                                                           *)
(***************************************************************************)

Periods ==
    [last : Nat, duration : Int, closed : Nat, missed : Int, cnt : Nat,
     sum : Nat, high : Nat, low : Nat]
Puts == [vals : SUBSET AvgValues, sum : Nat, from : Nat]

AvgType ==
    /\ ra_period \in [Slots -> Periods]
    /\ ra_curri \in Slots
    /\ ra_start \in Nat /\ ra_end \in Nat
    /\ avgClock \in Nat \ {0}
    /\ put \in [Slots -> Puts]
    /\ wiped \subseteq Slots

\* v is the greatest, or the least, of the values.
Greatest(v, vals) == v \in vals /\ \A x \in vals : x <= v
Smallest(v, vals) == v \in vals /\ \A x \in vals : v <= x

\* The extremes of period p with values vals.
Extremes(p, vals) == Greatest(p.high, vals) /\ Smallest(p.low, vals)

\* A closed period p that began at from with values of the given sum.
ClosedOK(p, q) ==
    /\ p.duration # 0 => p.sum = q.sum
    /\ p.last # 0 => p.duration \in 0..ra_duration - 1
    /\ p.closed - q.from - (p.missed + 1) * ra_duration \in 0..ra_duration - 1

SlotOK(s) ==
    /\ ra_period[s].cnt = put[s].sum
    /\ ra_period[s].closed # 0 => ClosedOK(ra_period[s], put[s])
    /\ s \notin wiped /\ put[s].vals # {} => Extremes(ra_period[s], put[s].vals)

\* The current period is open, its values came within its time, and its
\* extremes are those of Fresh until the first.
CurrentOK ==
    LET p == ra_period[ra_curri]
    IN  ra_start # 0 =>
            /\ ra_end = ra_start + ra_duration /\ ra_start <= avgClock
            /\ put[ra_curri].from = ra_start
            /\ p.closed = 0
            /\ p.last # 0 => p.last >= ra_start /\ p.last < ra_end
            /\ ra_curri \notin wiped /\ put[ra_curri].vals = {} =>
                    p.high = 0 /\ p.low = NoValue

AvgInv == AvgType /\ (\A s \in Slots : SlotOK(s)) /\ CurrentOK

-----------------------------------------------------------------------------
LEMMA SlotFacts ==
    /\ ra_periods \in Nat \ {0} /\ ra_duration \in Nat \ {0} /\ 0 \in Slots
    /\ \A i \in Nat : i % ra_periods \in Slots
<1>1. ra_periods \in Nat \ {0} /\ ra_duration \in Nat \ {0}
  BY AvgAssumption
<1>2. 0 \in Slots
  BY <1>1 DEF Slots
<1>3. \A i \in Nat : i % ra_periods \in Slots
  BY <1>1 DEF Slots
<1> QED  BY <1>1, <1>2, <1>3

LEMMA FollowingSlot == ra_curri \in Slots => Following \in Slots
<1> SUFFICES ASSUME ra_curri \in Slots PROVE Following \in Slots
  OBVIOUS
<1>1. ra_curri + 1 \in Nat
  BY SlotFacts DEF Slots
<1> QED  BY <1>1, SlotFacts DEF Following

LEMMA PreviousSlot == ra_curri \in Slots => Previous \in Slots
<1> SUFFICES ASSUME ra_curri \in Slots PROVE Previous \in Slots
  OBVIOUS
<1>1. CASE ra_curri = 0
  BY <1>1, SlotFacts DEF Slots, Previous
<1>2. CASE ra_curri # 0
  <2>1. ra_curri - 1 \in Nat
    BY <1>2, SlotFacts DEF Slots
  <2> QED  BY <1>2, <2>1, SlotFacts DEF Previous
<1> QED  BY <1>1, <1>2

\* The missed periods and the rest of the time until a period was closed.
LEMMA MissedFacts ==
    ASSUME NEW t \in Int, NEW d \in Int, d > 0
    PROVE  t \div d \in Int /\ t - (t \div d) * d \in 0..d - 1
<1>1. t \div d \in Int /\ t % d \in 0..d - 1
  OBVIOUS
<1>2. t = d * (t \div d) + (t % d)
  BY Z3
<1>3. PICK q \in Int : q = t \div d
  BY <1>1
<1>4. PICK r \in 0..d - 1 : r = t % d
  BY <1>1
<1>5. t = d * q + r
  BY <1>2, <1>3, <1>4
<1>6. t - q * d = r
  BY <1>5
<1> QED  BY <1>3, <1>6

LEMMA FreshFacts ==
    /\ Fresh \in Periods
    /\ Fresh = [last |-> 0, duration |-> 0, closed |-> 0, missed |-> 0, cnt |-> 0,
                sum |-> 0, high |-> 0, low |-> NoValue]
  BY AvgAssumption DEF Fresh, NoPeriod, Periods

-----------------------------------------------------------------------------
LEMMA AvgInitInv == AvgInit => AvgInv
<1> SUFFICES ASSUME AvgInit PROVE AvgInv
  OBVIOUS
<1>1. NoPeriod \in Periods /\ [vals |-> {}, sum |-> 0, from |-> 0] \in Puts
  BY DEF NoPeriod, Periods, Puts
<1>2. AvgType
  BY <1>1, SlotFacts DEF AvgInit, AvgType
<1>3. \A s \in Slots : SlotOK(s)
  BY DEF AvgInit, SlotOK, NoPeriod
<1>4. CurrentOK
  BY DEF AvgInit, CurrentOK
<1> QED  BY <1>2, <1>3, <1>4 DEF AvgInv

\* A period keeps what its slot needs when neither it nor its history changes.
LEMMA SlotSame ==
    ASSUME NEW s \in Slots, SlotOK(s), ra_period'[s] = ra_period[s], put'[s] = put[s],
           s \notin wiped' => s \notin wiped
    PROVE  SlotOK(s)'
  BY DEF SlotOK

\* rd_avg_period_next(): the new period's slot, given what is put into it.
LEMMA NextPeriod ==
    ASSUME AvgInv, NEW ring \in [Slots -> Periods], NEW p \in Periods,
           NEW vals \in SUBSET AvgValues, NEW sum \in Nat,
           PeriodNext(ring, p, vals, sum), avgClock' = avgClock,
           wiped' \subseteq Slots, Following \notin wiped',
           p.closed = 0, p.cnt = sum,
           p.last # 0 => p.last = avgClock,
           vals # {} => Extremes(p, vals),
           vals = {} => p.high = 0 /\ p.low = NoValue,
           \A s \in Slots : s # Following => ring[s].cnt = put[s].sum,
           \A s \in Slots : s # Following /\ ring[s].closed # 0 => ClosedOK(ring[s], put[s]),
           \A s \in Slots : s # Following /\ s \notin wiped' /\ put[s].vals # {} =>
              Extremes(ring[s], put[s].vals)
    PROVE  AvgInv'
<1> USE DEF AvgInv
<1>1. PICK f \in Slots : f = Following
  BY FollowingSlot DEF AvgType
<1>2. PICK q \in Puts : q = [vals |-> vals, sum |-> sum, from |-> avgClock]
  BY DEF Puts, AvgType
<1>3. /\ ra_period' = [ring EXCEPT ![f] = p] /\ ra_curri' = f
      /\ ra_start' = avgClock /\ ra_end' = avgClock + ra_duration
      /\ put' = [put EXCEPT ![f] = q]
  BY <1>1, <1>2 DEF PeriodNext
<1>4. /\ ra_period'[f] = p /\ put'[f] = q
      /\ \A s \in Slots : s # f => ra_period'[s] = ring[s] /\ put'[s] = put[s]
  BY <1>3 DEF AvgType
<1>5. AvgType'
  BY <1>3, SlotFacts DEF AvgType
<1>6. ASSUME NEW s \in Slots PROVE SlotOK(s)'
  <2>1. CASE s = f
    BY <1>2, <1>4, <2>1 DEF SlotOK
  <2>2. CASE s # f
    BY <1>1, <1>4, <2>2 DEF SlotOK, ClosedOK, Extremes, Greatest, Smallest
  <2> QED  BY <2>1, <2>2
<1>7. CurrentOK'
  <2>1. avgClock \in Nat /\ ra_duration \in Nat \ {0}
    BY SlotFacts DEF AvgType
  <2>2. p.last # 0 => p.last >= avgClock /\ p.last < avgClock + ra_duration
    BY <2>1
  <2>3. f \notin wiped' /\ q.vals = {} => p.high = 0 /\ p.low = NoValue
    BY <1>2
  <2>4. q.from = avgClock
    BY <1>2
  <2> QED  BY <1>3, <1>4, <2>1, <2>2, <2>3, <2>4 DEF CurrentOK
<1> QED  BY <1>5, <1>6, <1>7

LEMMA StartPeriod ==
    ASSUME AvgInv, rd_avg_start
    PROVE  AvgInv'
<1> USE DEF AvgInv
<1>1. /\ PeriodNext(ra_period, Fresh, {}, 0) /\ wiped' = wiped \ {Following}
      /\ avgClock' = avgClock
  BY DEF rd_avg_start
<1>2. ra_period \in [Slots -> Periods] /\ wiped' \subseteq Slots /\ Following \notin wiped'
  BY <1>1 DEF AvgType
<1>3. Fresh.closed = 0 /\ Fresh.cnt = 0 /\ Fresh.last = 0 /\ Fresh.high = 0 /\ Fresh.low = NoValue
  BY FreshFacts
<1>4. \A s \in Slots : s # Following =>
        /\ ra_period[s].cnt = put[s].sum
        /\ ra_period[s].closed # 0 => ClosedOK(ra_period[s], put[s])
        /\ s \notin wiped' /\ put[s].vals # {} => Extremes(ra_period[s], put[s].vals)
  BY <1>1 DEF SlotOK
<1> QED  BY <1>1, <1>2, <1>3, <1>4, FreshFacts, NextPeriod

\* The current period when rd_avg_roll() closes it.
LEMMA CloseFacts ==
    ASSUME AvgInv, ra_start # 0, NEW p, p = ra_period[ra_curri], NEW c, c = Closed(avgClock)
    PROVE  /\ c \in Periods /\ c.cnt = p.cnt
           /\ ClosedOK(c, put[ra_curri])
           /\ ra_curri \notin WipedByRoll => c.high = p.high /\ c.low = p.low
<1> USE DEF AvgInv
<1>1. p \in Periods /\ ra_curri \in Slots /\ put[ra_curri] \in Puts
  BY DEF AvgType
<1>2. /\ ra_end = ra_start + ra_duration /\ put[ra_curri].from = ra_start
      /\ p.last # 0 => p.last >= ra_start /\ p.last < ra_end
      /\ p.cnt = put[ra_curri].sum
  BY <1>1 DEF CurrentOK, SlotOK
<1>3. /\ avgClock \in Nat \ {0} /\ ra_start \in Nat /\ ra_end \in Nat
      /\ ra_duration \in Nat \ {0} /\ p.last \in Nat /\ p.cnt \in Nat
  BY <1>1, SlotFacts DEF AvgType, Periods
<1>4. PICK d \in Int : d = (IF p.last # 0 THEN p.last ELSE avgClock) - ra_start
  <2>1. PICK t \in Nat : t = IF p.last # 0 THEN p.last ELSE avgClock
    BY <1>3
  <2>2. t - ra_start \in Int
    BY <1>3
  <2> QED  BY <2>1, <2>2
<1>5. PICK m \in Int : m = (avgClock - ra_end) \div ra_duration
        /\ avgClock - ra_end - m * ra_duration \in 0..ra_duration - 1
  <2>1. avgClock - ra_end \in Int /\ ra_duration \in Int /\ ra_duration > 0
    BY <1>3
  <2> QED  BY <2>1, MissedFacts
<1>6. Measured(p, avgClock) = [p EXCEPT !.duration = d]
  BY <1>4 DEF Measured
<1>7. c = [rd_avg_calc([p EXCEPT !.duration = d]) EXCEPT !.closed = avgClock, !.missed = m]
  BY <1>5, <1>6 DEF Closed
<1>8. /\ c.closed = avgClock /\ c.missed = m /\ c.duration = d /\ c.last = p.last
      /\ c.cnt = p.cnt /\ (d # 0 => c.sum = p.cnt /\ c.high = p.high /\ c.low = p.low)
      /\ c \in Periods
  <2>1. CASE d = 0
    <3>1. c = [p EXCEPT !.duration = d, !.sum = 0, !.high = 0, !.low = 0,
                        !.closed = avgClock, !.missed = m]
      BY <1>1, <1>7, <2>1 DEF rd_avg_calc, Periods
    <3>2. c = [last |-> p.last, duration |-> d, closed |-> avgClock, missed |-> m,
               cnt |-> p.cnt, sum |-> 0, high |-> 0, low |-> 0]
      BY <1>1, <3>1 DEF Periods
    <3> QED  BY <1>3, <2>1, <3>2 DEF Periods
  <2>2. CASE d # 0
    <3>1. c = [p EXCEPT !.duration = d, !.sum = p.cnt, !.closed = avgClock, !.missed = m]
      BY <1>1, <1>7, <2>2 DEF rd_avg_calc, Periods
    <3> QED  BY <1>1, <1>3, <2>2, <3>1 DEF Periods
  <2> QED  BY <2>1, <2>2
<1>9. p.last # 0 => d \in 0..ra_duration - 1
  BY <1>2, <1>3, <1>4
<1>10. avgClock - ra_start - (m + 1) * ra_duration \in 0..ra_duration - 1
  <2>1. m * ra_duration \in Int /\ (m + 1) * ra_duration = m * ra_duration + ra_duration
    BY <1>3
  <2> QED  BY <1>2, <1>3, <1>5, <2>1
<1>11. ClosedOK(c, put[ra_curri])
  BY <1>2, <1>8, <1>9, <1>10 DEF ClosedOK
<1>12. ra_curri \notin WipedByRoll => d # 0
  <2>1. [p EXCEPT !.duration = d].duration = d
    BY <1>1 DEF Periods
  <2> QED  BY <1>6, <2>1 DEF WipedByRoll
<1> QED  BY <1>8, <1>11, <1>12

\* A value that is put into an open period.
LEMMA WithValueFacts ==
    ASSUME avgClock \in Nat, NEW p \in Periods, NEW val \in AvgValues, NEW c, c = WithValue(p, val)
    PROVE  /\ c \in Periods /\ c.last = avgClock /\ c.cnt = p.cnt + val /\ c.closed = p.closed
           /\ c.high = (IF p.high < val THEN val ELSE p.high)
           /\ c.low = (IF p.low > val THEN val ELSE p.low)
<1>1. val \in Nat /\ p.cnt + val \in Nat
  BY AvgAssumption DEF Periods
<1>2. c = [p EXCEPT !.last = avgClock, !.cnt = p.cnt + val,
              !.high = IF p.high < val THEN val ELSE p.high,
              !.low = IF p.low > val THEN val ELSE p.low]
  BY DEF WithValue, Periods
<1>3. PICK high \in Nat : high = IF p.high < val THEN val ELSE p.high
  BY <1>1 DEF Periods
<1>4. PICK low \in Nat : low = IF p.low > val THEN val ELSE p.low
  BY <1>1 DEF Periods
<1>5. c = [p EXCEPT !.last = avgClock, !.cnt = p.cnt + val, !.high = high, !.low = low]
  BY <1>2, <1>3, <1>4
<1>6. /\ c \in Periods /\ c.last = avgClock /\ c.cnt = p.cnt + val /\ c.closed = p.closed
      /\ c.high = high /\ c.low = low
  BY <1>1, <1>5 DEF Periods
<1> QED  BY <1>3, <1>4, <1>6

\* The extremes of the values so far, and of one more.
LEMMA ExtremesGrow ==
    ASSUME NEW p \in Periods, NEW c \in Periods, NEW val \in AvgValues,
           NEW vals \in SUBSET AvgValues,
           c.high = (IF p.high < val THEN val ELSE p.high),
           c.low = (IF p.low > val THEN val ELSE p.low),
           vals # {} => Extremes(p, vals),
           vals = {} => p.high = 0 /\ p.low = NoValue
    PROVE  Extremes(c, vals \cup {val})
<1>1. /\ val \in 1..NoValue - 1 /\ NoValue \in Nat /\ p.high \in Nat /\ p.low \in Nat
      /\ \A x \in vals : x \in Nat
  BY AvgAssumption DEF Periods
<1>2. CASE vals = {}
  BY <1>1, <1>2 DEF Extremes, Greatest, Smallest
<1>3. CASE vals # {}
  BY <1>1, <1>3 DEF Extremes, Greatest, Smallest
<1> QED  BY <1>2, <1>3

LEMMA PutRolls ==
    ASSUME AvgInv, NEW val \in AvgValues, ra_start # 0,
           PeriodNext([ra_period EXCEPT ![ra_curri] = Closed(avgClock)],
                      WithValue(Fresh, val), {val}, val),
           wiped' = (wiped \cup WipedByRoll) \ {Following},
           avgClock' = avgClock
    PROVE  AvgInv'
<1> USE DEF AvgInv
<1>1. PICK c \in Periods :
        /\ c = Closed(avgClock) /\ c.cnt = ra_period[ra_curri].cnt
        /\ ClosedOK(c, put[ra_curri])
        /\ ra_curri \notin WipedByRoll =>
             c.high = ra_period[ra_curri].high /\ c.low = ra_period[ra_curri].low
  BY CloseFacts
<1>2. PICK ring \in [Slots -> Periods] : ring = [ra_period EXCEPT ![ra_curri] = c]
  BY DEF AvgType
<1>3. /\ ring[ra_curri] = c /\ ra_curri \in Slots
      /\ \A s \in Slots : s # ra_curri => ring[s] = ra_period[s]
  BY <1>2 DEF AvgType
<1>4. PICK p \in Periods :
        /\ p = WithValue(Fresh, val) /\ p.last = avgClock /\ p.cnt = val /\ p.closed = 0
        /\ p.high = (IF 0 < val THEN val ELSE 0)
        /\ p.low = (IF NoValue > val THEN val ELSE NoValue)
  <2>1. avgClock \in Nat /\ val \in Nat
    BY AvgAssumption DEF AvgType
  <2>2. Fresh.cnt = 0 /\ Fresh.closed = 0 /\ Fresh.high = 0 /\ Fresh.low = NoValue
    BY FreshFacts
  <2> QED  BY <2>1, <2>2, FreshFacts, WithValueFacts
<1>5. Extremes(p, {val})
  <2>1. val \in 1..NoValue - 1 /\ NoValue \in Nat
    BY AvgAssumption
  <2>2. p.high = val /\ p.low = val
    BY <1>4, <2>1
  <2> QED  BY <2>1, <2>2 DEF Extremes, Greatest, Smallest
<1>6. wiped' \subseteq Slots /\ Following \notin wiped'
  BY <1>3 DEF AvgType, WipedByRoll
<1>7. \A s \in Slots : ring[s].cnt = put[s].sum
  BY <1>1, <1>3 DEF SlotOK
<1>8. \A s \in Slots : ring[s].closed # 0 => ClosedOK(ring[s], put[s])
  BY <1>1, <1>3 DEF SlotOK
<1>9. \A s \in Slots : s # Following /\ s \notin wiped' /\ put[s].vals # {} =>
              Extremes(ring[s], put[s].vals)
  <2> SUFFICES ASSUME NEW s \in Slots, s # Following, s \notin wiped', put[s].vals # {}
               PROVE  Extremes(ring[s], put[s].vals)
    OBVIOUS
  <2>1. s \notin wiped /\ s \notin WipedByRoll
    OBVIOUS
  <2>2. Extremes(ra_period[s], put[s].vals)
    BY <2>1 DEF SlotOK
  <2>3. CASE s = ra_curri
    BY <1>1, <1>3, <2>1, <2>2, <2>3 DEF Extremes
  <2>4. CASE s # ra_curri
    BY <1>3, <2>2, <2>4
  <2> QED  BY <2>3, <2>4
<1>10. PeriodNext(ring, p, {val}, val) /\ val \in Nat /\ {val} \in SUBSET AvgValues /\ {val} # {}
  <2>1. PeriodNext(ring, p, {val}, val)
    BY <1>1, <1>2, <1>4
  <2>2. val \in Nat
    BY AvgAssumption
  <2> QED  BY <2>1, <2>2
<1> QED  BY <1>4, <1>5, <1>6, <1>7, <1>8, <1>9, <1>10, NextPeriod

LEMMA PutCounts ==
    ASSUME AvgInv, NEW val \in AvgValues, ra_start # 0, ~Ended(avgClock),
           ra_period' = [ra_period EXCEPT ![ra_curri] = WithValue(@, val)],
           put' = [put EXCEPT ![ra_curri] =
                      [vals |-> @.vals \cup {val}, sum |-> @.sum + val, from |-> @.from]],
           UNCHANGED <<ra_curri, ra_start, ra_end, wiped, avgClock>>
    PROVE  AvgInv'
<1> USE DEF AvgInv
<1>1. PICK i \in Slots : i = ra_curri
  BY DEF AvgType
<1>2. /\ ra_period[i] \in Periods /\ put[i] \in Puts /\ avgClock \in Nat \ {0} /\ val \in Nat
      /\ put[i].vals \in SUBSET AvgValues /\ put[i].sum \in Nat
  BY <1>1, AvgAssumption DEF AvgType, Puts
<1>3. PICK c \in Periods :
        /\ c = WithValue(ra_period[i], val) /\ c.last = avgClock
        /\ c.cnt = ra_period[i].cnt + val /\ c.closed = ra_period[i].closed
        /\ c.high = (IF ra_period[i].high < val THEN val ELSE ra_period[i].high)
        /\ c.low = (IF ra_period[i].low > val THEN val ELSE ra_period[i].low)
  BY <1>2, WithValueFacts
<1>4. PICK q \in Puts :
        /\ q = [vals |-> put[i].vals \cup {val}, sum |-> put[i].sum + val, from |-> put[i].from]
        /\ q.vals = put[i].vals \cup {val} /\ q.sum = put[i].sum + val /\ q.from = put[i].from
  <2>1. put[i].vals \cup {val} \in SUBSET AvgValues /\ put[i].sum + val \in Nat
    BY <1>2
  <2>2. put[i].from \in Nat
    BY <1>2 DEF Puts
  <2>3. PICK v, m, t : v = put[i].vals \cup {val} /\ m = put[i].sum + val /\ t = put[i].from
    OBVIOUS
  <2>4. PICK q : q = [vals |-> v, sum |-> m, from |-> t]
    OBVIOUS
  <2>5. q \in Puts
    BY <2>1, <2>2, <2>3, <2>4 DEF Puts
  <2>6. q.vals = v /\ q.sum = m /\ q.from = t
    BY <2>4
  <2> QED  BY <2>3, <2>4, <2>5, <2>6
<1>5. ra_period' = [ra_period EXCEPT ![i] = c] /\ put' = [put EXCEPT ![i] = q]
  BY <1>1, <1>2, <1>3, <1>4 DEF AvgType, Puts
<1>6. /\ ra_period'[i] = c /\ put'[i] = q
      /\ \A s \in Slots : s # i => ra_period'[s] = ra_period[s] /\ put'[s] = put[s]
  BY <1>5 DEF AvgType
<1>7. AvgType'
  BY <1>5 DEF AvgType
<1>8. /\ ra_end = ra_start + ra_duration /\ ra_start <= avgClock /\ put[i].from = ra_start
      /\ ra_period[i].closed = 0
      /\ i \notin wiped /\ put[i].vals = {} => ra_period[i].high = 0 /\ ra_period[i].low = NoValue
  BY <1>1 DEF CurrentOK
<1>9. ASSUME NEW s \in Slots PROVE SlotOK(s)'
  <2>1. CASE s # i
    BY <1>6, <2>1, SlotSame
  <2>2. CASE s = i
    <3>1. c.cnt = q.sum
      BY <1>3, <1>4 DEF SlotOK
    <3>2. c.closed = 0
      BY <1>3, <1>8
    <3>3. i \notin wiped => Extremes(c, q.vals)
      <4>1. i \notin wiped /\ put[i].vals # {} => Extremes(ra_period[i], put[i].vals)
        BY DEF SlotOK
      <4>2. SUFFICES ASSUME i \notin wiped PROVE Extremes(c, q.vals)
        OBVIOUS
      <4>3. PICK p \in Periods : p = ra_period[i]
        BY <1>2
      <4>4. PICK vals \in SUBSET AvgValues : vals = put[i].vals
        BY <1>2
      <4>5. /\ c.high = (IF p.high < val THEN val ELSE p.high)
            /\ c.low = (IF p.low > val THEN val ELSE p.low)
        BY <1>3, <4>3
      <4>6. vals # {} => Extremes(p, vals)
        BY <4>1, <4>2, <4>3, <4>4
      <4>7. vals = {} => p.high = 0 /\ p.low = NoValue
        BY <1>8, <4>2, <4>3, <4>4
      <4>8. Extremes(c, vals \cup {val})
        BY <4>5, <4>6, <4>7, ExtremesGrow
      <4> QED  BY <1>4, <4>4, <4>8
    <3> QED  BY <1>6, <2>2, <3>1, <3>2, <3>3 DEF SlotOK
  <2> QED  BY <2>1, <2>2
<1>10. CurrentOK'
  <2>1. avgClock < ra_end /\ avgClock >= ra_start
    BY <1>2, <1>8 DEF Ended, AvgType
  <2>2. q.vals # {} /\ q.from = ra_start /\ c.closed = 0 /\ c.last = avgClock
    BY <1>3, <1>4, <1>8
  <2> QED  BY <1>1, <1>6, <1>8, <2>1, <2>2 DEF CurrentOK
<1> QED  BY <1>7, <1>9, <1>10

\* rd_avg() calculates the result of a period again: an open one is not closed
\* by it, and a closed one keeps its duration.
LEMMA ReadPeriod ==
    ASSUME AvgInv, NEW s \in Slots, rd_avg(s)
    PROVE  AvgInv'
<1> USE DEF AvgInv
<1>1. PICK p : p = IF s = ra_curri /\ ra_start # 0 THEN Measured(ra_period[s], avgClock)
                   ELSE ra_period[s]
  OBVIOUS
<1>2. /\ ra_period' = [ra_period EXCEPT ![s] = rd_avg_calc(p)]
      /\ wiped' = IF p.duration = 0 THEN wiped \cup {s} ELSE wiped
      /\ UNCHANGED <<ra_curri, ra_start, ra_end, avgClock, put>>
  BY <1>1 DEF rd_avg
<1>3. ra_period[s] \in Periods /\ ra_period[s].last \in Nat /\ avgClock \in Nat /\ ra_start \in Nat
  BY DEF AvgType, Periods
<1>4. PICK d \in Int : p = [ra_period[s] EXCEPT !.duration = d]
  <2>1. CASE s = ra_curri /\ ra_start # 0
    <3>1. PICK t \in Nat : t = IF ra_period[s].last # 0 THEN ra_period[s].last ELSE avgClock
      BY <1>3
    <3>2. t - ra_start \in Int
      BY <1>3
    <3>3. p = [ra_period[s] EXCEPT !.duration = t - ra_start]
      BY <1>1, <2>1, <3>1 DEF Measured
    <3> QED  BY <3>2, <3>3
  <2>2. CASE ~(s = ra_curri /\ ra_start # 0)
    BY <1>1, <1>3, <2>2 DEF Periods
  <2> QED  BY <2>1, <2>2
<1>5. p.duration = d /\ p.cnt = ra_period[s].cnt
  BY <1>3, <1>4 DEF Periods
<1>6. PICK c \in Periods :
        /\ c = rd_avg_calc(p) /\ c.duration = d /\ c.last = ra_period[s].last
        /\ c.closed = ra_period[s].closed /\ c.missed = ra_period[s].missed
        /\ c.cnt = ra_period[s].cnt
        /\ d # 0 => /\ c.sum = c.cnt
                    /\ c.high = ra_period[s].high /\ c.low = ra_period[s].low
  <2>1. CASE d = 0
    <3>1. rd_avg_calc(p) = [ra_period[s] EXCEPT !.duration = d, !.sum = 0, !.high = 0, !.low = 0]
      BY <1>3, <1>4, <1>5, <2>1 DEF rd_avg_calc, Periods
    <3> QED  BY <1>3, <2>1, <3>1 DEF Periods
  <2>2. CASE d # 0
    <3>1. rd_avg_calc(p) = [ra_period[s] EXCEPT !.duration = d, !.sum = ra_period[s].cnt]
      BY <1>3, <1>4, <1>5, <2>2 DEF rd_avg_calc, Periods
    <3> QED  BY <1>3, <2>2, <3>1 DEF Periods
  <2> QED  BY <2>1, <2>2
<1>7. /\ ra_period'[s] = c
      /\ \A t \in Slots : t # s => ra_period'[t] = ra_period[t]
      /\ ra_period' \in [Slots -> Periods]
  BY <1>2, <1>6 DEF AvgType
<1>8. (d = 0 => s \in wiped') /\ wiped \subseteq wiped' /\ wiped' \subseteq Slots
  BY <1>2, <1>5 DEF AvgType
<1>9. AvgType'
  BY <1>2, <1>7, <1>8 DEF AvgType
<1>10. ASSUME NEW t \in Slots PROVE SlotOK(t)'
  <2>1. CASE t # s
    BY <1>2, <1>7, <1>8, <2>1, SlotSame
  <2>2. CASE t = s
    <3>1. SlotOK(s)
      OBVIOUS
    <3>2. c.closed # 0 => ClosedOK(c, put[s])
      <4> SUFFICES ASSUME c.closed # 0 PROVE ClosedOK(c, put[s])
        OBVIOUS
      <4>1. ~(s = ra_curri /\ ra_start # 0)
        BY <1>6 DEF CurrentOK
      <4>2. d = ra_period[s].duration
        BY <1>1, <1>3, <1>5, <4>1
      <4>3. ClosedOK(ra_period[s], put[s])
        BY <1>6, <3>1 DEF SlotOK
      <4> QED  BY <1>6, <3>1, <4>2, <4>3 DEF ClosedOK, SlotOK
    <3>3. s \notin wiped' /\ put[s].vals # {} => Extremes(c, put[s].vals)
      BY <1>6, <1>8, <3>1 DEF SlotOK, Extremes
    <3> QED  BY <1>2, <1>6, <1>7, <2>2, <3>1, <3>2, <3>3 DEF SlotOK
  <2> QED  BY <2>1, <2>2
<1>11. CurrentOK'
  <2>1. CASE s # ra_curri
    BY <1>2, <1>7, <1>8, <2>1 DEF CurrentOK, AvgType
  <2>2. CASE s = ra_curri
    BY <1>2, <1>6, <1>7, <1>8, <2>2 DEF CurrentOK
  <2> QED  BY <2>1, <2>2
<1> QED  BY <1>9, <1>10, <1>11

LEMMA AvgStutter ==
    ASSUME AvgInv, avgClock' \in Nat, avgClock' >= avgClock,
           UNCHANGED <<ra_period, ra_curri, ra_start, ra_end, put, wiped>>
    PROVE  AvgInv'
<1> USE DEF AvgInv
<1>1. AvgType'
  BY DEF AvgType
<1>2. \A s \in Slots : SlotOK(s)'
  BY SlotSame
<1>3. CurrentOK'
  BY DEF CurrentOK, AvgType
<1> QED  BY <1>1, <1>2, <1>3

LEMMA AvgInvariant == AvgSpec => []AvgInv
<1>1. AvgInv /\ [AvgNext]_avgVars => AvgInv'
  <2> SUFFICES ASSUME AvgInv, [AvgNext]_avgVars PROVE AvgInv'
    OBVIOUS
  <2>1. CASE rd_avg_start
    BY <2>1, StartPeriod
  <2>2. ASSUME NEW val \in AvgValues, rd_avg_put(val) PROVE AvgInv'
    BY <2>2, PutRolls, PutCounts DEF rd_avg_put
  <2>3. ASSUME NEW s \in {ra_curri, Previous}, rd_avg(s) PROVE AvgInv'
    <3>1. s \in Slots
      BY PreviousSlot DEF AvgInv, AvgType
    <3> QED  BY <2>3, <3>1, ReadPeriod
  <2>4. CASE AvgTick
    <3>1. avgClock' = avgClock + 1 /\ avgClock \in Nat
      BY <2>4 DEF AvgTick, AvgInv, AvgType
    <3>2. avgClock' \in Nat /\ avgClock' >= avgClock
      BY <3>1
    <3> QED  BY <2>4, <3>2, AvgStutter DEF AvgTick
  <2>5. CASE UNCHANGED avgVars
    <3>1. avgClock' \in Nat /\ avgClock' >= avgClock
      BY <2>5 DEF avgVars, AvgInv, AvgType
    <3> QED  BY <2>5, <3>1, AvgStutter DEF avgVars
  <2> QED  BY <2>1, <2>2, <2>3, <2>4, <2>5 DEF AvgNext
<1> QED  BY <1>1, AvgInitInv, PTL DEF AvgSpec

\* The one greatest and the one least of a set are its Max and its Min.
LEMMA MaxMin ==
    ASSUME NEW vals \in SUBSET AvgValues, NEW v
    PROVE  /\ Greatest(v, vals) => v = Max(vals)
           /\ Smallest(v, vals) => v = Min(vals)
<1>1. \A x \in vals : x \in Nat
  BY AvgAssumption
<1>2. Greatest(v, vals) => v = Max(vals)
  <2> SUFFICES ASSUME Greatest(v, vals) PROVE v = Max(vals)
    OBVIOUS
  <2>1. v \in vals /\ \A y \in vals : v >= y
    BY <1>1 DEF Greatest
  <2>2. \A x \in vals : (\A y \in vals : x >= y) => x = v
    BY <1>1, <2>1
  <2> QED  BY <2>1, <2>2 DEF Max
<1>3. Smallest(v, vals) => v = Min(vals)
  <2> SUFFICES ASSUME Smallest(v, vals) PROVE v = Min(vals)
    OBVIOUS
  <2>1. v \in vals /\ \A y \in vals : v =< y
    BY DEF Smallest
  <2>2. \A x \in vals : (\A y \in vals : x =< y) => x = v
    BY <1>1, <2>1
  <2> QED  BY <2>1, <2>2 DEF Min
<1> QED  BY <1>2, <1>3

\* Every value is counted in the period it was put in, and a period that
\* rd_avg_roll() closed has the sum, the duration and the missed periods that
\* its values and its time make up, for any ring and any duration.
THEOREM PeriodsStayExact == AvgSpec => []PeriodsAreExact
<1>1. AvgInv => PeriodsAreExact
  <2> SUFFICES ASSUME AvgInv, NEW s \in Slots
               PROVE  LET p == ra_period[s]
                      IN  /\ p.cnt = put[s].sum
                          /\ p.closed # 0 =>
                              /\ p.duration # 0 => p.sum = put[s].sum
                              /\ p.last # 0 => p.duration \in 0..ra_duration - 1
                              /\ p.closed - put[s].from - (p.missed + 1) * ra_duration
                                      \in 0..ra_duration - 1
                          /\ (s \notin wiped /\ put[s].vals # {}) =>
                              /\ p.high = Max(put[s].vals) /\ p.low = Min(put[s].vals)
    BY DEF PeriodsAreExact
  <2>1. SlotOK(s) /\ put[s].vals \in SUBSET AvgValues
    BY DEF AvgInv, AvgType, Puts
  <2>2. s \notin wiped /\ put[s].vals # {} =>
          ra_period[s].high = Max(put[s].vals) /\ ra_period[s].low = Min(put[s].vals)
    BY <2>1, MaxMin DEF SlotOK, Extremes
  <2> QED  BY <2>1, <2>2 DEF SlotOK, ClosedOK
<1> QED  BY <1>1, AvgInvariant, PTL

-----------------------------------------------------------------------------
(***************************************************************************)
(* Bit vectors and options.                                                *)
(***************************************************************************)

Bits == 0..WordBits - 1
Words(max) == 0..max \div WordBits
Vecs(max) == [rbv_max : {max}, rbv_b : [Words(max) -> SUBSET Bits]]

\* A vector for numbers up to max whose members are those of S.
IsVec(v, max, S) ==
    /\ v \in Vecs(max)
    /\ S \subseteq 0..max
    /\ \A w \in Words(max), b \in Bits : b \in v.rbv_b[w] <=> w * WordBits + b \in S

-----------------------------------------------------------------------------
(* Least and greatest elements.                                            *)

LEMMA LeastExists ==
    ASSUME NEW T \in SUBSET Nat, T # {}
    PROVE  \E x \in T : \A y \in T : x <= y
<1>1. PICK x \in T : \A y \in T : ~(<<y, x>> \in OpToRel(<, Nat))
  BY WFMin, NatLessThanWellFounded
<1>2. \A y \in T : ~(y < x)
  BY <1>1 DEF OpToRel
<1> QED  BY <1>2

LEMMA GreatestExists ==
    ASSUME NEW T \in SUBSET Nat, T # {}, NEW n \in Nat, \A y \in T : y <= n
    PROVE  \E x \in T : \A y \in T : y <= x
<1>1. PICK B \in SUBSET Nat : B = {m \in Nat : \A y \in T : y <= m}
  OBVIOUS
<1>2. PICK x \in B : \A m \in B : x <= m
  BY <1>1, LeastExists
<1>3. x \in T
  <2>1. SUFFICES ASSUME x \notin T PROVE FALSE
    OBVIOUS
  <2>2. PICK t \in T : t <= x
    BY <1>1
  <2>3. x - 1 \in Nat /\ \A y \in T : y <= x - 1
    BY <1>1, <2>1, <2>2
  <2> QED  BY <1>1, <1>2, <2>3
<1> QED  BY <1>1, <1>3

LEMMA MinIs ==
    ASSUME NEW T \in SUBSET Int, NEW m \in T, \A y \in T : m <= y
    PROVE  Min(T) = m
<1>1. \A x \in T : (\A y \in T : x <= y) => x = m
  OBVIOUS
<1> QED  BY <1>1 DEF Min

LEMMA MaxIs ==
    ASSUME NEW T \in SUBSET Int, NEW m \in T, \A y \in T : y <= m
    PROVE  Max(T) = m
<1>1. \A x \in T : (\A y \in T : x >= y) => x = m
  OBVIOUS
<1>2. \A y \in T : m >= y
  OBVIOUS
<1> QED  BY <1>1, <1>2 DEF Max

-----------------------------------------------------------------------------
(* Numbers, words and bits.                                                *)

LEMMA WordAndBit ==
    ASSUME NEW max \in Nat, NEW i \in 0..max
    PROVE  /\ i \div WordBits \in Words(max) /\ i % WordBits \in Bits
           /\ i = (i \div WordBits) * WordBits + (i % WordBits)
<1>1. PICK d \in Int : d = WordBits /\ d > 0
  BY BitsAssumption
<1>2. /\ i = d * (i \div d) + (i % d) /\ i % d \in 0..d - 1 /\ i \div d \in Nat
      /\ max = d * (max \div d) + (max % d) /\ max % d \in 0..d - 1 /\ max \div d \in Nat
  BY <1>1, Z3
<1>3. i \div d <= max \div d
  BY <1>1, <1>2, Z3
<1>4. i = (i \div d) * d + (i % d)
  BY <1>1, <1>2, Z3
<1> QED  BY <1>1, <1>2, <1>3, <1>4 DEF Words, Bits

LEMMA OneBitEach ==
    ASSUME NEW w \in Int, NEW x \in Int, NEW b \in Bits, NEW c \in Bits,
           w * WordBits + b = x * WordBits + c
    PROVE  w = x /\ b = c
<1>1. PICK d \in Int : d = WordBits /\ d > 0
  BY BitsAssumption
<1>2. b \in Int /\ c \in Int /\ 0 <= b /\ b < d /\ 0 <= c /\ c < d
  BY <1>1 DEF Bits
<1>3. (w - x) * d = c - b
  BY <1>1, <1>2
<1>4. w - x < 1 /\ w - x > -1
  BY <1>1, <1>2, <1>3, Z3
<1>5. w = x
  BY <1>4
<1> QED  BY <1>1, <1>2, <1>5

LEMMA LowerWord ==
    ASSUME NEW w \in Int, NEW x \in Int, w < x, NEW b \in Bits, NEW c \in Bits
    PROVE  w * WordBits + b < x * WordBits + c
<1>1. PICK d \in Int : d = WordBits /\ d > 0
  BY BitsAssumption
<1>2. b \in Int /\ c \in Int /\ 0 <= b /\ b < d /\ 0 <= c /\ c < d
  BY <1>1 DEF Bits
<1>3. (w + 1) * d <= x * d
  BY <1>1, Z3
<1>4. w * d + d <= x * d
  BY <1>1, <1>3, Z3
<1>5. w * d \in Int /\ x * d \in Int
  BY <1>1
<1> QED  BY <1>1, <1>2, <1>4, <1>5

-----------------------------------------------------------------------------
(* The operations of a vector.                                             *)

LEMMA InitVec ==
    ASSUME NEW max \in Nat
    PROVE  IsVec(rd_bitvec_init(max), max, {})
<1>1. PICK f \in [Words(max) -> SUBSET Bits] : f = [w \in Words(max) |-> {}]
  OBVIOUS
<1>2. rd_bitvec_init(max) = [rbv_max |-> max, rbv_b |-> f]
  BY <1>1 DEF rd_bitvec_init, Words
<1>3. rd_bitvec_init(max) \in Vecs(max) /\ rd_bitvec_init(max).rbv_b = f
  BY <1>2 DEF Vecs
<1> QED  BY <1>1, <1>3 DEF IsVec

\* The number i, if it is in range, is added to the members.
LEMMA SetVec ==
    ASSUME NEW max \in Nat, NEW v, NEW S, IsVec(v, max, S), NEW i \in Nat
    PROVE  IsVec(rd_bitvec_set(v, i), max, (S \cup {i}) \cap (0..max))
<1>1. v \in Vecs(max) /\ v.rbv_max = max /\ S \subseteq 0..max
  BY DEF IsVec, Vecs
<1>2. CASE i > max
  BY <1>1, <1>2 DEF IsVec, rd_bitvec_set
<1>3. CASE i <= max
  <2>1. PICK q \in Words(max), r \in Bits :
          q = i \div WordBits /\ r = i % WordBits /\ i = q * WordBits + r
    BY <1>3, WordAndBit
  <2>2. PICK f \in [Words(max) -> SUBSET Bits] : v = [rbv_max |-> max, rbv_b |-> f]
    BY <1>1 DEF Vecs
  <2>3. PICK g \in [Words(max) -> SUBSET Bits] : g = [f EXCEPT ![q] = @ \cup {r}]
    BY <2>1, <2>2
  <2>4. rd_bitvec_set(v, i) = [rbv_max |-> max, rbv_b |-> g]
    <3>1. ~(i > v.rbv_max) /\ v.rbv_b = f
      BY <1>1, <1>3, <2>2
    <3>2. rd_bitvec_set(v, i) = [v EXCEPT !.rbv_b = [f EXCEPT ![q] = @ \cup {r}]]
      BY <2>1, <3>1 DEF rd_bitvec_set
    <3> QED  BY <2>2, <2>3, <3>2
  <2>5. (S \cup {i}) \cap (0..max) = S \cup {i}
    <3>1. i \in 0..max
      BY <1>3
    <3> QED  BY <1>1, <3>1
  <2>6. ASSUME NEW w \in Words(max), NEW b \in Bits
        PROVE  b \in g[w] <=> w * WordBits + b \in S \cup {i}
    <3>1. b \in f[w] <=> w * WordBits + b \in S
      BY <2>2 DEF IsVec
    <3>2. b \in g[w] <=> b \in f[w] \/ (w = q /\ b = r)
      BY <2>3
    <3>3. w \in Int /\ q \in Int
      BY DEF Words
    <3>4. w * WordBits + b = i <=> w = q /\ b = r
      BY <2>1, <3>3, OneBitEach
    <3> QED  BY <3>1, <3>2, <3>4
  <2>7. rd_bitvec_set(v, i) \in Vecs(max) /\ rd_bitvec_set(v, i).rbv_b = g
    BY <2>4 DEF Vecs
  <2> QED  BY <1>1, <1>3, <2>5, <2>6, <2>7 DEF IsVec
<1> QED  BY <1>2, <1>3

\* The number i is taken from the members.
LEMMA ResetVec ==
    ASSUME NEW max \in Nat, NEW v, NEW S, IsVec(v, max, S), NEW i \in Nat
    PROVE  IsVec(rd_bitvec_reset(v, i), max, S \ {i})
<1>1. v \in Vecs(max) /\ v.rbv_max = max /\ S \subseteq 0..max
  BY DEF IsVec, Vecs
<1>2. CASE i > max
  <2>1. S \ {i} = S
    BY <1>1, <1>2
  <2> QED  BY <1>1, <1>2, <2>1 DEF rd_bitvec_reset
<1>3. CASE i <= max
  <2>1. PICK q \in Words(max), r \in Bits :
          q = i \div WordBits /\ r = i % WordBits /\ i = q * WordBits + r
    BY <1>3, WordAndBit
  <2>2. PICK f \in [Words(max) -> SUBSET Bits] : v = [rbv_max |-> max, rbv_b |-> f]
    BY <1>1 DEF Vecs
  <2>3. PICK g \in [Words(max) -> SUBSET Bits] : g = [f EXCEPT ![q] = @ \ {r}]
    BY <2>1, <2>2
  <2>4. rd_bitvec_reset(v, i) = [rbv_max |-> max, rbv_b |-> g]
    <3>1. ~(i > v.rbv_max) /\ v.rbv_b = f
      BY <1>1, <1>3, <2>2
    <3>2. rd_bitvec_reset(v, i) = [v EXCEPT !.rbv_b = [f EXCEPT ![q] = @ \ {r}]]
      BY <2>1, <3>1 DEF rd_bitvec_reset
    <3> QED  BY <2>2, <2>3, <3>2
  <2>5. ASSUME NEW w \in Words(max), NEW b \in Bits
        PROVE  b \in g[w] <=> w * WordBits + b \in S \ {i}
    <3>1. b \in f[w] <=> w * WordBits + b \in S
      BY <2>2 DEF IsVec
    <3>2. b \in g[w] <=> b \in f[w] /\ ~(w = q /\ b = r)
      BY <2>3
    <3>3. w \in Int /\ q \in Int
      BY DEF Words
    <3>4. w * WordBits + b = i <=> w = q /\ b = r
      BY <2>1, <3>3, OneBitEach
    <3> QED  BY <3>1, <3>2, <3>4
  <2>6. rd_bitvec_reset(v, i) \in Vecs(max) /\ rd_bitvec_reset(v, i).rbv_b = g
    BY <2>4 DEF Vecs
  <2> QED  BY <1>1, <2>5, <2>6 DEF IsVec
<1> QED  BY <1>2, <1>3

LEMMA TestVec ==
    ASSUME NEW max \in Nat, NEW v, NEW S, IsVec(v, max, S), NEW i \in Nat
    PROVE  rd_bitvec_test(v, i) <=> i \in S
<1>1. v.rbv_max = max /\ S \subseteq 0..max
  BY DEF IsVec, Vecs
<1>2. CASE i > max
  BY <1>1, <1>2 DEF rd_bitvec_test
<1>3. CASE i <= max
  <2>1. PICK q \in Words(max), r \in Bits :
          q = i \div WordBits /\ r = i % WordBits /\ i = q * WordBits + r
    BY <1>3, WordAndBit
  <2>2. r \in v.rbv_b[q] <=> i \in S
    BY <2>1 DEF IsVec
  <2> QED  BY <1>1, <1>3, <2>1, <2>2 DEF rd_bitvec_test
<1> QED  BY <1>2, <1>3

\* Word w of a vector whose least member is m, and the bit of m in it.
LEMMA FfsVec ==
    ASSUME NEW max \in Nat, NEW v, NEW S, IsVec(v, max, S), S # {}
    PROVE  rd_bitvec_ffs(v) = Min(S) + 1
<1>1. v \in Vecs(max) /\ S \subseteq 0..max /\ v.rbv_b \in [Words(max) -> SUBSET Bits]
  BY DEF IsVec, Vecs
<1>2. PICK m \in S : \A y \in S : m <= y
  <2>1. S \in SUBSET Nat
    BY <1>1
  <2> QED  BY <2>1, LeastExists
<1>3. Min(S) = m
  <2>1. S \in SUBSET Int
    BY <1>1
  <2> QED  BY <1>2, <2>1, MinIs
<1>4. PICK q \in Words(max), r \in Bits : m = q * WordBits + r
  BY <1>1, <1>2, WordAndBit
<1>5. r \in v.rbv_b[q]
  BY <1>2, <1>4 DEF IsVec
<1>6. ASSUME NEW w \in Words(max), NEW b \in v.rbv_b[w]
      PROVE  q <= w /\ (w = q => r <= b)
  <2>1. b \in Bits
    BY <1>1
  <2>2. w * WordBits + b \in S
    BY <2>1 DEF IsVec
  <2>3. m <= w * WordBits + b
    BY <1>2, <2>2
  <2>4. w \in Int /\ q \in Int /\ b \in Int /\ r \in Int /\ WordBits \in Int
    BY <2>1, BitsAssumption DEF Words, Bits
  <2>5. w * WordBits \in Int /\ q * WordBits \in Int
    BY <2>4
  <2>6. w < q => w * WordBits + b < q * WordBits + r
    BY <2>1, <2>4, LowerWord
  <2>7. ~(w < q)
    BY <1>4, <2>3, <2>4, <2>5, <2>6
  <2>8. w = q => r <= b
    BY <1>4, <2>3, <2>4, <2>5
  <2> QED  BY <2>4, <2>7, <2>8
<1>7. PICK used : used = {w \in DOMAIN v.rbv_b : v.rbv_b[w] # {}}
  OBVIOUS
<1>8. Min(used) = q
  <2>1. used \in SUBSET Int /\ q \in used
    <3>1. DOMAIN v.rbv_b = Words(max) /\ Words(max) \subseteq Int
      BY <1>1 DEF Words
    <3> QED  BY <1>5, <1>7, <3>1
  <2>2. \A w \in used : q <= w
    BY <1>1, <1>6, <1>7
  <2> QED  BY <2>1, <2>2, MinIs
<1>9. Min(v.rbv_b[q]) = r
  <2>1. v.rbv_b[q] \in SUBSET Int
    BY <1>1 DEF Bits
  <2>2. \A b \in v.rbv_b[q] : r <= b
    BY <1>6
  <2> QED  BY <1>5, <2>1, <2>2, MinIs
<1>10. used # {}
  BY <1>1, <1>5, <1>7
<1> QED  BY <1>3, <1>4, <1>7, <1>8, <1>9, <1>10 DEF rd_bitvec_ffs

\* Without a member the words are empty, and all their bits are returned.
LEMMA FfsEmpty ==
    ASSUME NEW max \in Nat, NEW v, IsVec(v, max, {})
    PROVE  rd_bitvec_ffs(v) = (max \div WordBits + 1) * WordBits
<1>1. v.rbv_b \in [Words(max) -> SUBSET Bits]
  BY DEF IsVec, Vecs
<1>2. {w \in DOMAIN v.rbv_b : v.rbv_b[w] # {}} = {}
  BY <1>1 DEF IsVec
<1>3. max \div WordBits \in Nat
  <2>1. PICK d \in Int : d = WordBits /\ d > 0
    BY BitsAssumption
  <2>2. max \div d \in Nat
    BY <2>1, Z3
  <2> QED  BY <2>1, <2>2
<1>4. Cardinality(DOMAIN v.rbv_b) = max \div WordBits + 1
  <2>1. PICK n \in Nat : n = max \div WordBits
    BY <1>3
  <2>2. Cardinality(0..n) = n + 1
    BY <2>1, FS_Interval
  <2> QED  BY <1>1, <2>1, <2>2 DEF Words
<1> QED  BY <1>2, <1>4 DEF rd_bitvec_ffs, Buckets

\* A word that rd_bitvec_fls() looks at has bits, and not the top one.
LEMMA WordLookedAt ==
    ASSUME NEW word \in SUBSET Bits
    PROVE  word # {} /\ Max(word) # WordBits - 1 <=>
               word # {} /\ WordBits - 1 \notin word
<1>1. SUFFICES ASSUME word # {}
               PROVE  Max(word) # WordBits - 1 <=> WordBits - 1 \notin word
  OBVIOUS
<1>2. WordBits \in Nat /\ WordBits - 1 \in Nat
  BY BitsAssumption
<1>3. word \in SUBSET Nat /\ word \in SUBSET Int /\ \A b \in word : b <= WordBits - 1
  BY <1>2 DEF Bits
<1>4. PICK m \in word : \A b \in word : b <= m
  BY <1>1, <1>2, <1>3, GreatestExists
<1>5. Max(word) = m
  BY <1>3, <1>4, MaxIs
<1> QED  BY <1>2, <1>3, <1>4, <1>5

\* The bit b of word w is taken into account if the top bit of w is not set.
LEMMA ShownBit ==
    ASSUME NEW max \in Nat, NEW v, NEW S, IsVec(v, max, S),
           NEW w \in Words(max), NEW b \in Bits
    PROVE  w * WordBits + b \in Shown(S) <=>
               b \in v.rbv_b[w] /\ WordBits - 1 \notin v.rbv_b[w]
<1>1. WordBits - 1 \in Bits
  BY BitsAssumption DEF Bits
<1>2. b \in v.rbv_b[w] <=> w * WordBits + b \in S
  BY DEF IsVec
<1>3. WordBits - 1 \in v.rbv_b[w] <=> w * WordBits + (WordBits - 1) \in S
  BY <1>1 DEF IsVec
<1>4. (w * WordBits + b) \div WordBits = w
  <2>1. PICK d \in Nat : d = WordBits /\ d > 0
    BY BitsAssumption
  <2>2. w \in Nat /\ b \in Nat /\ b < d
    BY <2>1 DEF Words, Bits
  <2>3. PICK x \in Nat : x = w * d + b
    BY <2>1, <2>2
  <2>4. x = (x \div d) * d + (x % d) /\ x % d \in 0..d - 1 /\ x \div d \in Int
    <3>1. x \in 0..x
      BY <2>3
    <3>2. x \div WordBits \in Words(x) /\ x % WordBits \in Bits
          /\ x = (x \div WordBits) * WordBits + (x % WordBits)
      BY <2>3, <3>1, WordAndBit
    <3> QED  BY <2>1, <3>2 DEF Words, Bits
  <2>5. w * WordBits + b = (x \div d) * WordBits + (x % d)
    BY <2>1, <2>3, <2>4
  <2>6. x % d \in Bits /\ w \in Int
    BY <2>1, <2>2, <2>4 DEF Bits
  <2>7. w = x \div d
    BY <2>4, <2>5, <2>6, OneBitEach
  <2> QED  BY <2>1, <2>3, <2>7
<1> QED  BY <1>2, <1>3, <1>4 DEF Shown, TopOfWord

LEMMA FlsVec ==
    ASSUME NEW max \in Nat, NEW v, NEW S, IsVec(v, max, S), Shown(S) # {}
    PROVE  rd_bitvec_fls(v) = Max(Shown(S)) + 1
<1>1. v \in Vecs(max) /\ S \subseteq 0..max /\ v.rbv_b \in [Words(max) -> SUBSET Bits]
  BY DEF IsVec, Vecs
<1>a. PICK T : T = Shown(S)
  OBVIOUS
<1>b. T \subseteq S /\ T # {}
  BY <1>a DEF Shown
<1>2. PICK m \in T : \A y \in T : y <= m
  <2>1. T \in SUBSET Nat /\ \A y \in T : y <= max
    BY <1>1, <1>b
  <2> QED  BY <1>b, <2>1, GreatestExists
<1>3. Max(T) = m
  <2>1. T \in SUBSET Int
    BY <1>1, <1>b
  <2> QED  BY <1>2, <2>1, MaxIs
<1>4. PICK q \in Words(max), r \in Bits : m = q * WordBits + r
  BY <1>1, <1>b, <1>2, WordAndBit
<1>5. r \in v.rbv_b[q] /\ WordBits - 1 \notin v.rbv_b[q] /\ r # WordBits - 1
  BY <1>2, <1>4, <1>a, ShownBit
<1>6. ASSUME NEW w \in Words(max), NEW b \in v.rbv_b[w],
             WordBits - 1 \notin v.rbv_b[w]
      PROVE  w <= q /\ (w = q => b <= r)
  <2>1. b \in Bits
    BY <1>1
  <2>2. w * WordBits + b \in T
    BY <1>6, <1>a, <2>1, ShownBit
  <2>3. w * WordBits + b <= m
    BY <1>2, <2>2
  <2>4. w \in Int /\ q \in Int /\ b \in Int /\ r \in Int /\ WordBits \in Int
    BY <2>1, BitsAssumption DEF Words, Bits
  <2>5. w * WordBits \in Int /\ q * WordBits \in Int
    BY <2>4
  <2>6. q < w => q * WordBits + r < w * WordBits + b
    BY <2>1, <2>4, LowerWord
  <2>7. ~(q < w)
    BY <1>4, <2>3, <2>4, <2>5, <2>6
  <2>8. w = q => b <= r
    BY <1>4, <2>3, <2>4, <2>5
  <2> QED  BY <2>4, <2>7, <2>8
<1>7. Max(v.rbv_b[q]) = r
  <2>1. v.rbv_b[q] \in SUBSET Int
    BY <1>1 DEF Bits
  <2>2. \A b \in v.rbv_b[q] : b <= r
    BY <1>5, <1>6
  <2> QED  BY <1>5, <2>1, <2>2, MaxIs
<1>8. PICK used : used = {w \in DOMAIN v.rbv_b :
                             v.rbv_b[w] # {} /\ Max(v.rbv_b[w]) # WordBits - 1}
  OBVIOUS
<1>9. q \in used
  BY <1>1, <1>4, <1>5, <1>7, <1>8
<1>10. Max(used) = q
  <2>1. used \in SUBSET Int
    <3>1. DOMAIN v.rbv_b = Words(max) /\ Words(max) \subseteq Int
      BY <1>1 DEF Words
    <3> QED  BY <1>8, <3>1
  <2>2. \A w \in used : w <= q
    <3>1. ASSUME NEW w \in used PROVE w <= q
      <4>1. w \in Words(max) /\ v.rbv_b[w] \in SUBSET Bits
        BY <1>1, <1>8, <3>1
      <4>2. v.rbv_b[w] # {} /\ WordBits - 1 \notin v.rbv_b[w]
        BY <1>8, <3>1, <4>1, WordLookedAt
      <4> QED  BY <1>6, <4>1, <4>2
    <3> QED  BY <3>1
  <2> QED  BY <1>9, <2>1, <2>2, MaxIs
<1>11. Highest(v.rbv_b[q]) = r + 1
  BY <1>7, BitsAssumption DEF Highest, Bits
<1>12. rd_bitvec_fls(v) = q * WordBits + (r + 1)
  BY <1>8, <1>9, <1>10, <1>11 DEF rd_bitvec_fls
<1>13. r \in Int /\ q * WordBits \in Int
  BY BitsAssumption DEF Words, Bits
<1> QED  BY <1>3, <1>4, <1>12, <1>13, <1>a

\* If every member is in a word with its top bit set, no word is looked at.
LEMMA FlsNone ==
    ASSUME NEW max \in Nat, NEW v, NEW S, IsVec(v, max, S), Shown(S) = {}
    PROVE  rd_bitvec_fls(v) = -WordBits
<1>1. v.rbv_b \in [Words(max) -> SUBSET Bits]
  BY DEF IsVec, Vecs
<1>2. ASSUME NEW w \in Words(max), v.rbv_b[w] # {} /\ Max(v.rbv_b[w]) # WordBits - 1
      PROVE  FALSE
  <2>1. v.rbv_b[w] \in SUBSET Bits
    BY <1>1
  <2>2. WordBits - 1 \notin v.rbv_b[w]
    BY <1>2, <2>1, WordLookedAt
  <2>3. PICK b \in Bits : b \in v.rbv_b[w]
    BY <1>2, <2>1
  <2> QED  BY <2>2, <2>3, ShownBit
<1>3. {w \in DOMAIN v.rbv_b : v.rbv_b[w] # {} /\ Max(v.rbv_b[w]) # WordBits - 1} = {}
  BY <1>1, <1>2
<1> QED  BY <1>3 DEF rd_bitvec_fls

\* The greatest member is found unless it is the top bit of its word.
LEMMA FlsRight ==
    ASSUME NEW max \in Nat, NEW v, NEW S, IsVec(v, max, S), S # {}
    PROVE  rd_bitvec_fls(v) = Max(S) + 1 <=> Max(S) % WordBits # WordBits - 1
<1>1. S \subseteq 0..max /\ S \in SUBSET Int /\ S \in SUBSET Nat /\ \A y \in S : y <= max
  BY DEF IsVec
<1>2. PICK m \in S : \A y \in S : y <= m
  BY <1>1, GreatestExists
<1>3. Max(S) = m
  BY <1>1, <1>2, MaxIs
<1>4. PICK q \in Nat, r \in Bits :
        m = q * WordBits + r /\ q = m \div WordBits /\ r = m % WordBits
  <2>1. m \div WordBits \in Words(max) /\ m % WordBits \in Bits
        /\ m = (m \div WordBits) * WordBits + (m % WordBits)
    BY <1>1, <1>2, WordAndBit
  <2>2. m \div WordBits \in Nat
    BY <2>1 DEF Words
  <2> QED  BY <2>1, <2>2
<1>5. r \in Nat /\ r <= WordBits - 1 /\ WordBits \in Nat \ {0} /\ q * WordBits \in Nat
  BY <1>4, BitsAssumption DEF Bits
<1>6. TopOfWord(m) = q * WordBits + (WordBits - 1)
  BY <1>4 DEF TopOfWord
<1>7. m \in Shown(S) <=> r # WordBits - 1
  <2>1. r = WordBits - 1 => TopOfWord(m) = m
    BY <1>4, <1>5, <1>6
  <2>2. r # WordBits - 1 => TopOfWord(m) > m
    BY <1>4, <1>5, <1>6
  <2>3. r # WordBits - 1 => TopOfWord(m) \notin S
    <3>1. m \in Nat /\ \A y \in S : ~(y > m)
      BY <1>1, <1>2
    <3> QED  BY <2>2, <3>1
  <2> QED  BY <1>2, <2>1, <2>3 DEF Shown
<1>8. CASE r # WordBits - 1
  <2>1. Shown(S) \in SUBSET Int /\ \A y \in Shown(S) : y <= m
    BY <1>1, <1>2 DEF Shown
  <2>2. Max(Shown(S)) = m
    BY <1>7, <1>8, <2>1, MaxIs
  <2>3. rd_bitvec_fls(v) = m + 1
    BY <1>7, <1>8, <2>2, FlsVec
  <2> QED  BY <1>3, <1>4, <1>8, <2>3
<1>9. CASE r = WordBits - 1
  <2>1. rd_bitvec_fls(v) # m + 1
    <3>1. CASE Shown(S) = {}
      BY <1>1, <1>2, <1>5, <3>1, FlsNone
    <3>2. CASE Shown(S) # {}
      <4>1. Shown(S) \in SUBSET Nat /\ Shown(S) \in SUBSET Int
            /\ \A y \in Shown(S) : y <= max
        BY <1>1 DEF Shown
      <4>2. PICK n \in Shown(S) : \A y \in Shown(S) : y <= n
        BY <3>2, <4>1, GreatestExists
      <4>3. Max(Shown(S)) = n
        BY <4>1, <4>2, MaxIs
      <4>4. rd_bitvec_fls(v) = n + 1
        BY <3>2, <4>3, FlsVec
      <4>5. n # m
        BY <1>7, <1>9, <4>2
      <4> QED  BY <1>1, <1>2, <4>1, <4>2, <4>4, <4>5
    <3> QED  BY <3>1, <3>2
  <2> QED  BY <1>3, <1>4, <1>9, <2>1
<1> QED  BY <1>8, <1>9

\* The inductive invariant of the vector.
BitInv == IsVec(rbv, BitsMax, members)

\* Whatever bits were set and reset before, for vectors and words of any size,
\* rd_bitvec_test() and rd_bitvec_ffs() answer as for a set, and rd_bitvec_fls()
\* as for the set without the words that have their top bit set, which is right
\* if and only if the greatest member is not a top bit.
THEOREM VectorIsASet == BitSpec => []BitsAreASet
<1> USE BitvecAssumption
<1>1. BitInit => BitInv
  BY InitVec DEF BitInit, BitInv
<1>2. BitInv /\ [BitNext]_bitVars => BitInv'
  <2>1. SUFFICES ASSUME BitInv, [BitNext]_bitVars PROVE BitInv'
    OBVIOUS
  <2>2. CASE UNCHANGED bitVars
    BY <2>1, <2>2 DEF bitVars, BitInv
  <2>3. ASSUME NEW i \in 0..BitsMax + 1, SetBit(i) PROVE BitInv'
    <3>1. i \in Nat
      OBVIOUS
    <3>2. IsVec(rd_bitvec_set(rbv, i), BitsMax, (members \cup {i}) \cap (0..BitsMax))
      BY <2>1, <3>1, SetVec DEF BitInv
    <3> QED  BY <2>3, <3>2 DEF SetBit, BitInv
  <2>4. ASSUME NEW i \in 0..BitsMax + 1, ResetBit(i) PROVE BitInv'
    <3>1. i \in Nat
      OBVIOUS
    <3>2. IsVec(rd_bitvec_reset(rbv, i), BitsMax, members \ {i})
      BY <2>1, <3>1, ResetVec DEF BitInv
    <3> QED  BY <2>4, <3>2 DEF ResetBit, BitInv
  <2> QED  BY <2>1, <2>2, <2>3, <2>4 DEF BitNext
<1>3. BitInv => BitsAreASet
  <2>1. SUFFICES ASSUME BitInv PROVE BitsAreASet
    OBVIOUS
  <2>2. ASSUME NEW i \in 0..BitsMax + 1
        PROVE  rd_bitvec_test(rbv, i) = (i \in members)
    <3>1. rd_bitvec_test(rbv, i) <=> i \in members
      BY <2>1, TestVec DEF BitInv
    <3>2. rd_bitvec_test(rbv, i) \in BOOLEAN
      BY DEF rd_bitvec_test
    <3> QED  BY <3>1, <3>2
  <2>3. rd_bitvec_ffs(rbv) = IF members = {} THEN (BitsMax \div WordBits + 1) * WordBits
                             ELSE Min(members) + 1
    BY <2>1, FfsVec, FfsEmpty DEF BitInv
  <2>4. rd_bitvec_fls(rbv) = IF Shown(members) = {} THEN -WordBits
                             ELSE Max(Shown(members)) + 1
    BY <2>1, FlsVec, FlsNone DEF BitInv
  <2>5. members # {} =>
          (rd_bitvec_fls(rbv) = Max(members) + 1 <=>
              Max(members) % WordBits # WordBits - 1)
    BY <2>1, FlsRight DEF BitInv
  <2> QED  BY <2>2, <2>3, <2>4, <2>5 DEF BitsAreASet
<1> QED  BY <1>1, <1>2, <1>3, PTL DEF BitSpec

-----------------------------------------------------------------------------
(* The options parser.                                                     *)

Taken == [opt : DOMAIN ros, at : Nat, newi : Nat]
Seen == {n \in 0..OptsMax : \E k \in DOMAIN given : given[k].opt = n + 1}
MutOf(k) == ros[given[k].opt].mut

OptType ==
    /\ ros \in Seq(Options) /\ argv \in Seq(OptArgs)
    /\ argi \in 1..Len(argv) + 1
    /\ mutro \in [0..RD_OPT_MUT_NUM -> 0..Len(ros)]
    /\ optVal \in [DOMAIN ros -> Int]
    /\ given \in Seq(Taken)
    /\ IsVec(opts_found, OptsMax, Seen)

\* Argument i was passed over or taken with an option.
ArgOK(i) ==
    \/ argv[i].kind = "empty"
    \/ \E k \in DOMAIN given : i \in given[k].at..given[k].newi

\* The k-th option taken is behind those taken before and in front of argi, and
\* no other of its group was taken, unless that is group 4.
PlaceOK(k) ==
    /\ given[k].at <= given[k].newi /\ given[k].newi < argi
    /\ \A l \in DOMAIN given : k < l =>
        /\ given[k].newi < given[l].at
        /\ MutOf(k) \in 1..3 => MutOf(l) # MutOf(k)

\* mutro[] has an entry for every group in it of which an option was taken, and
\* for no other.
GroupsOK ==
    /\ \A k \in DOMAIN given : MutOf(k) \in 1..3 => mutro[<<1, 2, 4, 8>>[MutOf(k)]] # 0
    /\ \A m \in 1..3 : mutro[<<1, 2, 4, 8>>[m]] # 0 => \E k \in DOMAIN given : MutOf(k) = m

\* The last time an option was taken, its value was taken from newi.
LastOf(k) == \A l \in DOMAIN given : k < l => given[l].opt # given[k].opt
ValueOK(k) ==
    given[k].newi # given[k].at /\ Parser(ros[given[k].opt]) = "assign" =>
        /\ ros[given[k].opt].type \in {"str", "path"} => optVal[given[k].opt] = given[k].newi
        /\ ros[given[k].opt].type = "int" =>
            optVal[given[k].opt] = Number(argv[given[k].newi])
ValuesOK ==
    /\ \A k \in DOMAIN given : LastOf(k) => ValueOK(k)
    /\ \A o \in DOMAIN ros :
        (\/ \A k \in DOMAIN given : given[k].opt # o
         \/ Parser(ros[o]) # "assign") => optVal[o] = NotGiven

TurnInv ==
    /\ OptType
    /\ \A i \in 1..argi - 1 : ArgOK(i)
    /\ \A k \in DOMAIN given : PlaceOK(k)
    /\ GroupsOK
    /\ ValuesOK

\* What is known when rd_opt_parse() has succeeded.
DoneInv ==
    optRet = "ok" =>
        /\ argi = Len(argv) + 1 \/ argv[argi].kind = "word"
        /\ \A o \in DOMAIN ros : ~Missing(o, TRUE)

\* The inductive invariant: what every turn of the loop keeps, and the end.
OptInv == TurnInv /\ DoneInv

LEMMA SeqFacts ==
    ASSUME NEW T, NEW s \in Seq(T)
    PROVE  /\ Len(s) \in Nat /\ DOMAIN s = 1..Len(s)
           /\ \A i \in 1..Len(s) : s[i] \in T
  OBVIOUS

\* Named() is 0 or the index of an option.
LEMMA NamedOption ==
    ASSUME ros \in Seq(Options), NEW arg
    PROVE  Named(arg) # 0 => Named(arg) \in DOMAIN ros
<1>1. PICK T : T = {i \in 1..Len(ros) : arg.name # None /\ Names(arg, ros[i])}
  OBVIOUS
<1>2. Len(ros) \in Nat /\ DOMAIN ros = 1..Len(ros)
  BY SeqFacts
<1>3. T \in SUBSET Nat
  BY <1>1, <1>2
<1>4. Named(arg) = IF T # {} THEN Min(T) ELSE 0
  BY <1>1 DEF Named, SelectInSeq
<1>5. T # {} => Min(T) \in T
  <2>1. SUFFICES ASSUME T # {} PROVE Min(T) \in T
    OBVIOUS
  <2>2. PICK x \in T : \A y \in T : x <= y
    BY <1>3, <2>1, LeastExists
  <2>3. T \in SUBSET Int
    BY <1>3
  <2> QED  BY <2>2, <2>3, MinIs
<1> QED  BY <1>1, <1>2, <1>4, <1>5

LEMMA OptInitInv == OptInit => OptInv
<1>1. SUFFICES ASSUME NEW table \in OptTables, NEW args \in BoundedSeq(OptArgs, MaxArgc),
                      OptStart(table, args)
               PROVE  OptInv
  BY DEF OptInit
<1> USE <1>1 DEF OptStart
<1>2. ros \in Seq(Options) /\ argv \in Seq(OptArgs)
  BY OptAssumption DEF BoundedSeq, SeqOf
<1>3. Len(ros) \in Nat /\ Len(argv) \in Nat /\ DOMAIN given = {}
  BY <1>2, SeqFacts
<1>4. Seen = {}
  BY <1>3 DEF Seen
<1>5. IsVec(opts_found, OptsMax, Seen)
  BY <1>4, OptAssumption, InitVec
<1>6. OptType
  <2>1. mutro \in [0..RD_OPT_MUT_NUM -> 0..Len(ros)]
    BY <1>3
  <2>2. optVal \in [DOMAIN ros -> Int]
    BY DEF NotGiven
  <2>3. given \in Seq(Taken)
    OBVIOUS
  <2> QED  BY <1>2, <1>3, <1>5, <2>1, <2>2, <2>3 DEF OptType
<1>7. GroupsOK
  <2>1. \A m \in 1..3 : <<1, 2, 4, 8>>[m] \in 0..RD_OPT_MUT_NUM
    BY DEF RD_OPT_MUT_NUM
  <2> QED  BY <1>3, <2>1 DEF GroupsOK
<1>8. ValuesOK
  BY <1>3 DEF ValuesOK
<1> QED  BY <1>3, <1>6, <1>7, <1>8 DEF OptInv, TurnInv, DoneInv

LEMMA OptStutter ==
    ASSUME TurnInv, UNCHANGED <<ros, argv, argi, mutro, opts_found, optVal, given>>
    PROVE  TurnInv'
<1>1. OptType'
  BY DEF TurnInv, OptType, Taken, Seen
<1>2. \A i \in 1..argi' - 1 : ArgOK(i)'
  BY DEF TurnInv, ArgOK
<1>3. \A k \in DOMAIN given' : PlaceOK(k)'
  BY DEF TurnInv, PlaceOK, MutOf
<1>4. GroupsOK' /\ ValuesOK'
  BY DEF TurnInv, GroupsOK, ValuesOK, LastOf, ValueOK, MutOf
<1> QED  BY <1>1, <1>2, <1>3, <1>4 DEF TurnInv

LEMMA SkipEmptyInv ==
    ASSUME OptInv, SkipEmpty
    PROVE  OptInv'
<1> USE DEF OptInv
<1>1. /\ optRet = "run" /\ argi <= Len(argv) /\ argv[argi].kind = "empty" /\ argi' = argi + 1
      /\ UNCHANGED <<ros, argv, mutro, opts_found, optVal, optRet, given>>
  BY DEF SkipEmpty, Parsing, Arg
<1>2. argi \in Nat /\ Len(argv) \in Nat
  BY SeqFacts DEF TurnInv, OptType
<1>3. OptType'
  <2>1. argi' \in 1..Len(argv') + 1
    BY <1>1, <1>2 DEF TurnInv, OptType
  <2> QED  BY <1>1, <2>1 DEF TurnInv, OptType, Taken, Seen
<1>4. ASSUME NEW i \in 1..argi' - 1 PROVE ArgOK(i)'
  <2>1. i = argi \/ i \in 1..argi - 1
    BY <1>1, <1>2
  <2> QED  BY <1>1, <2>1 DEF TurnInv, ArgOK
<1>5. ASSUME NEW k \in DOMAIN given' PROVE PlaceOK(k)'
  <2>1. PlaceOK(k) /\ given[k].newi \in Nat
    <3>1. k \in DOMAIN given
      BY <1>1
    <3>2. given[k] \in Taken
      BY <3>1, SeqFacts DEF TurnInv, OptType
    <3> QED  BY <3>1, <3>2 DEF TurnInv, Taken
  <2> QED  BY <1>1, <1>2, <2>1 DEF PlaceOK, MutOf
<1>6. GroupsOK' /\ ValuesOK'
  BY <1>1 DEF TurnInv, GroupsOK, ValuesOK, LastOf, ValueOK, MutOf
<1>7. DoneInv'
  BY <1>1 DEF DoneInv
<1> QED  BY <1>3, <1>4, <1>5, <1>6, <1>7 DEF TurnInv

\* The bits of groups 1 to 3 are indices of mutro[], and no two share one; that
\* of group 4 is not.
LEMMA GroupBits ==
    /\ \A m \in 1..3 : <<1, 2, 4, 8>>[m] \in 0..RD_OPT_MUT_NUM
    /\ \A ro : ro.mut \in 1..4 => (InMutro(ro) <=> ro.mut \in 1..3)
    /\ \A m, n \in 1..3 : <<1, 2, 4, 8>>[m] = <<1, 2, 4, 8>>[n] => m = n
  BY DEF RD_OPT_MUT_NUM, InMutro, MutGrp

\* An option is taken: it is the last of given, behind all others, and its
\* group had none before.
LEMMA TakeOptionInv ==
    ASSUME OptInv, NEW ok \in BOOLEAN, NEW stray \in BOOLEAN, TakeOption(ok, stray)
    PROVE  OptInv'
<1> USE DEF OptInv
<1>1. ros \in Seq(Options) /\ argv \in Seq(OptArgs) /\ given \in Seq(Taken)
  BY DEF TurnInv, OptType
<1>2. /\ Len(ros) \in Nat /\ Len(argv) \in Nat /\ Len(given) \in Nat
      /\ DOMAIN ros = 1..Len(ros) /\ DOMAIN given = 1..Len(given)
      /\ argi \in Nat \ {0} /\ argi <= Len(argv) + 1
  BY <1>1, SeqFacts DEF TurnInv, OptType
<1>3. PICK o \in DOMAIN ros : o = Named(Arg)
  BY <1>1, NamedOption DEF TakeOption
<1>4. PICK ro \in Options : ro = ros[o]
  BY <1>1, <1>2, <1>3
<1>5. PICK n \in Nat : n = Newi(ro) /\ n <= Len(argv)
        /\ (n = argi \/ (n = argi + 1 /\ ro.argcnt # 0))
  <2>1. argi <= Len(argv)
    BY DEF TakeOption, Parsing
  <2>2. Newi(ro) = argi \/ (Newi(ro) = argi + 1 /\ argi < Len(argv) /\ ro.argcnt # 0)
    <3>1. CASE ro.argcnt # 0 /\ Arg.val = None /\ argi < Len(argv)
      BY <3>1 DEF Newi
    <3>2. CASE ~(ro.argcnt # 0 /\ Arg.val = None /\ argi < Len(argv))
      BY <3>2 DEF Newi
    <3> QED  BY <3>1, <3>2
  <2> QED  BY <1>2, <2>1, <2>2
<1>6. PICK e \in Taken : e = [opt |-> o, at |-> argi, newi |-> n]
        /\ e.opt = o /\ e.at = argi /\ e.newi = n
  <2>1. PICK e : e = [opt |-> o, at |-> argi, newi |-> n]
    OBVIOUS
  <2>2. e \in Taken
    BY <1>2, <1>3, <1>5, <2>1 DEF Taken
  <2> QED  BY <2>1, <2>2
<1>7. /\ ~MutTaken(ro, stray)
      /\ mutro' = IF ro.mut # 0 /\ InMutro(ro)
                  THEN [mutro EXCEPT ![MutGrp(ro)] = o] ELSE mutro
      /\ optVal' = [optVal EXCEPT ![o] = Assigned(ro, n, optVal[o])]
      /\ opts_found' = rd_bitvec_set(opts_found, o - 1)
      /\ argi' = n + 1
      /\ given' = Append(given, e)
      /\ UNCHANGED <<ros, argv, optRet>> /\ optRet = "run"
  BY <1>3, <1>4, <1>5, <1>6 DEF TakeOption, Parsing
<1>8. PICK N \in Nat : N = Len(given)
  BY <1>2
<1>9. /\ given' \in Seq(Taken) /\ Len(given') = N + 1 /\ DOMAIN given' = 1..N + 1
      /\ given'[N + 1] = e
      /\ \A k \in 1..N : given'[k] = given[k] /\ given[k] \in Taken
  BY <1>1, <1>2, <1>6, <1>7, <1>8, SeqFacts
<1>10. DOMAIN given = 1..N /\ 1..N \subseteq 1..N + 1 /\ N + 1 \in 1..N + 1
       /\ \A k \in 1..N + 1 : k \in 1..N \/ k = N + 1
  BY <1>2, <1>8
<1>11. \A k \in 1..N : /\ given[k].opt \in DOMAIN ros /\ given[k].at \in Nat
                       /\ given[k].newi \in Nat
                       /\ given[k].at <= given[k].newi /\ given[k].newi < argi
  BY <1>9, <1>10 DEF Taken, TurnInv, PlaceOK
<1>12. /\ ro.mut \in 0..4 /\ ro.argcnt \in {0, 1}
       /\ ro.type \in {"str", "int", "path", "bool", "nil"}
  BY <1>4 DEF Options
<1>13. /\ \A k \in 1..N : MutOf(k)' = MutOf(k)
       /\ MutOf(N + 1)' = ro.mut
  BY <1>4, <1>6, <1>7, <1>9 DEF MutOf
<1>14. OptType'
  <2>1. mutro' \in [0..RD_OPT_MUT_NUM -> 0..Len(ros)]
    <3>1. mutro \in [0..RD_OPT_MUT_NUM -> 0..Len(ros)] /\ o \in 0..Len(ros)
      BY <1>2, <1>3 DEF TurnInv, OptType
    <3> QED  BY <1>7, <3>1
  <2>2. optVal' \in [DOMAIN ros -> Int]
    <3>1. optVal \in [DOMAIN ros -> Int] /\ optVal[o] \in Int
      BY DEF TurnInv, OptType
    <3>2. Number(argv[n]) \in Int
      BY DEF Number
    <3>3. AssignedValue(ro, n, optVal[o]) \in Int
      BY <1>5, <1>12, <3>1, <3>2 DEF AssignedValue
    <3>4. Assigned(ro, n, optVal[o]) \in Int
      BY <3>1, <3>3 DEF Assigned
    <3> QED  BY <1>7, <3>1, <3>4
  <2>3. IsVec(opts_found', OptsMax, Seen')
    <3>1. o - 1 \in Nat
      BY <1>2
    <3>2. IsVec(opts_found', OptsMax, (Seen \cup {o - 1}) \cap (0..OptsMax))
      BY <1>7, <3>1, OptAssumption, SetVec DEF TurnInv, OptType
    <3>3. ASSUME NEW m \in 0..OptsMax
          PROVE  (\E k \in 1..N + 1 : given'[k].opt = m + 1)
                    <=> (\E k \in 1..N : given[k].opt = m + 1) \/ m = o - 1
      <4>1. m \in Int /\ o \in Int
        BY <1>2, <1>3, OptAssumption
      <4>2. m = o - 1 <=> e.opt = m + 1
        BY <1>6, <4>1
      <4> QED  BY <1>9, <1>10, <4>2
    <3>4. Seen' = (Seen \cup {o - 1}) \cap (0..OptsMax)
      BY <1>9, <1>10, <3>3 DEF Seen
    <3> QED  BY <3>2, <3>4
  <2>4. argi' \in 1..Len(argv) + 1
    BY <1>2, <1>5, <1>7
  <2>5. given' \in Seq(Taken')
    BY <1>7, <1>9 DEF Taken
  <2> QED  BY <1>1, <1>7, <2>1, <2>2, <2>3, <2>4, <2>5 DEF OptType
<1>15. ASSUME NEW i \in 1..argi' - 1 PROVE ArgOK(i)'
  <2>1. CASE i \in 1..argi - 1
    <3>1. ArgOK(i)
      BY <2>1 DEF TurnInv
    <3>2. \A k \in 1..N : i \in given[k].at..given[k].newi => i \in given'[k].at..given'[k].newi
      BY <1>9
    <3> QED  BY <1>7, <1>9, <1>10, <3>1, <3>2 DEF ArgOK
  <2>2. CASE i \in argi..n
    <3>1. i \in given'[N + 1].at..given'[N + 1].newi
      BY <1>6, <1>9, <2>2
    <3> QED  BY <1>9, <1>10, <3>1 DEF ArgOK
  <2> QED  BY <1>2, <1>5, <1>7, <2>1, <2>2
<1>16. ASSUME NEW k \in 1..N, ro.mut \in 1..3 PROVE MutOf(k) # ro.mut
  <2>1. mutro[<<1, 2, 4, 8>>[ro.mut]] = 0
    <3>1. InMutro(ro)
      BY <1>16, GroupBits
    <3> QED  BY <1>7, <1>16, <3>1 DEF MutTaken, MutSeen, MutGrp
  <2>2. MutOf(k) \in 1..3 => mutro[<<1, 2, 4, 8>>[MutOf(k)]] # 0
    BY <1>10 DEF TurnInv, GroupsOK
  <2> QED  BY <1>16, <2>1, <2>2
<1>17. ASSUME NEW k \in DOMAIN given' PROVE PlaceOK(k)'
  <2>1. CASE k = N + 1
    <3>1. given'[k].at <= given'[k].newi /\ given'[k].newi < argi'
      BY <1>2, <1>5, <1>6, <1>7, <1>9, <2>1
    <3>2. \A l \in DOMAIN given' : ~(k < l)
      BY <1>9, <2>1
    <3> QED  BY <3>1, <3>2 DEF PlaceOK
  <2>2. CASE k \in 1..N
    <3>1. given'[k].at <= given'[k].newi /\ given'[k].newi < argi'
      BY <1>2, <1>5, <1>7, <1>9, <1>11, <2>2
    <3>2. ASSUME NEW l \in DOMAIN given', k < l
          PROVE  /\ given'[k].newi < given'[l].at
                 /\ MutOf(k)' \in 1..3 => MutOf(l)' # MutOf(k)'
      <4>1. CASE l = N + 1
        BY <1>6, <1>9, <1>11, <1>13, <1>16, <2>2, <4>1
      <4>2. CASE l \in 1..N
        <5>1. PlaceOK(k)
          BY <1>10, <2>2 DEF TurnInv
        <5> QED  BY <1>9, <1>10, <1>13, <2>2, <3>2, <4>2, <5>1 DEF PlaceOK
      <4> QED  BY <1>9, <1>10, <4>1, <4>2
    <3> QED  BY <3>1, <3>2 DEF PlaceOK
  <2> QED  BY <1>9, <1>10, <2>1, <2>2
<1>18. GroupsOK'
  <2>1. ASSUME NEW m \in 1..3
        PROVE  mutro'[<<1, 2, 4, 8>>[m]] # 0 <=> mutro[<<1, 2, 4, 8>>[m]] # 0 \/ m = ro.mut
    <3>1. CASE ro.mut \in {0, 4}
      <4>1. ~(ro.mut # 0 /\ InMutro(ro))
        BY <3>1, GroupBits
      <4> QED  BY <1>7, <3>1, <4>1
    <3>2. CASE ro.mut \in 1..3
      <4>1. mutro \in [0..RD_OPT_MUT_NUM -> 0..Len(ros)]
        BY DEF TurnInv, OptType
      <4>2. ro.mut \in 1..3 /\ o # 0 /\ ro.mut # 0 /\ InMutro(ro)
        BY <1>2, <3>2, GroupBits
      <4>3. mutro' = [mutro EXCEPT ![<<1, 2, 4, 8>>[ro.mut]] = o]
        BY <1>7, <4>2 DEF MutGrp
      <4>4. PICK g \in 0..RD_OPT_MUT_NUM, h \in 0..RD_OPT_MUT_NUM :
              g = <<1, 2, 4, 8>>[ro.mut] /\ h = <<1, 2, 4, 8>>[m] /\ (g = h => m = ro.mut)
                /\ (m = ro.mut => g = h)
        BY <4>2, GroupBits
      <4>5. mutro'[h] # 0 <=> mutro[h] # 0 \/ g = h
        BY <4>1, <4>2, <4>3, <4>4
      <4> QED  BY <4>4, <4>5
    <3> QED  BY <1>12, <3>1, <3>2
  <2>3. ASSUME NEW k \in 1..N + 1, MutOf(k)' \in 1..3
        PROVE  mutro'[<<1, 2, 4, 8>>[MutOf(k)']] # 0
    <3>1. MutOf(k)' \in 1..3
      BY <2>3
    <3>2. CASE k = N + 1
      BY <1>13, <2>1, <3>1, <3>2
    <3>3. CASE k \in 1..N
      <4>1. mutro[<<1, 2, 4, 8>>[MutOf(k)]] # 0
        BY <1>10, <1>13, <2>3, <3>3 DEF TurnInv, GroupsOK
      <4> QED  BY <1>13, <2>1, <3>1, <3>3, <4>1
    <3> QED  BY <1>10, <3>2, <3>3
  <2>4. ASSUME NEW m \in 1..3, mutro'[<<1, 2, 4, 8>>[m]] # 0
        PROVE  \E k \in 1..N + 1 : MutOf(k)' = m
    <3>1. mutro[<<1, 2, 4, 8>>[m]] # 0 \/ m = ro.mut
      BY <2>1, <2>4
    <3>2. mutro[<<1, 2, 4, 8>>[m]] # 0 => \E k \in 1..N : MutOf(k) = m
      BY <1>10 DEF TurnInv, GroupsOK
    <3> QED  BY <1>10, <1>13, <3>1, <3>2
  <2> QED  BY <1>9, <2>3, <2>4 DEF GroupsOK
<1>19. ValuesOK'
  <2>1. /\ optVal'[o] = Assigned(ro, n, optVal[o])
        /\ \A p \in DOMAIN ros : p # o => optVal'[p] = optVal[p]
    BY <1>7 DEF TurnInv, OptType
  <2>2. ASSUME NEW k \in 1..N + 1, LastOf(k)' PROVE ValueOK(k)'
    <3>1. CASE k = N + 1
      <4>1. Parser(ro) = "assign" /\ n # argi /\ ro.type \in {"str", "path"} =>
              optVal'[o] = n
        BY <1>5, <1>12, <2>1 DEF Assigned, AssignedValue
      <4>2. Parser(ro) = "assign" /\ n # argi /\ ro.type = "int" => optVal'[o] = Number(argv[n])
        BY <1>5, <1>12, <2>1 DEF Assigned, AssignedValue
      <4> QED  BY <1>4, <1>6, <1>7, <1>9, <3>1, <4>1, <4>2 DEF ValueOK, Number, Parser
    <3>2. CASE k \in 1..N
      <4>1. given[k].opt # o
        BY <1>6, <1>9, <1>10, <2>2, <3>2 DEF LastOf
      <4>2. LastOf(k)
        BY <1>9, <1>10, <2>2, <3>2 DEF LastOf
      <4>3. ValueOK(k)
        BY <1>10, <3>2, <4>2 DEF TurnInv, ValuesOK
      <4> QED  BY <1>7, <1>9, <1>11, <2>1, <3>2, <4>1, <4>3 DEF ValueOK, Number, Parser
    <3> QED  BY <1>10, <3>1, <3>2
  <2>3. ASSUME NEW p \in DOMAIN ros, \A k \in 1..N + 1 : given'[k].opt # p
        PROVE  optVal'[p] = NotGiven
    <3>1. p # o
      BY <1>6, <1>9, <1>10, <2>3
    <3>2. \A k \in 1..N : given[k].opt # p
      BY <1>9, <1>10, <2>3
    <3> QED  BY <1>10, <2>1, <3>1, <3>2 DEF TurnInv, ValuesOK
  <2>4. ASSUME NEW p \in DOMAIN ros, Parser(ros[p]) # "assign"
        PROVE  optVal'[p] = NotGiven
    <3>1. optVal[p] = NotGiven
      BY <2>4 DEF TurnInv, ValuesOK
    <3>2. p = o => optVal'[p] = optVal[p]
      BY <1>4, <2>1, <2>4 DEF Assigned
    <3> QED  BY <2>1, <3>1, <3>2
  <2>5. \A p \in DOMAIN ros : Parser(ros[p])' = Parser(ros[p])
    BY <1>7 DEF Parser
  <2> QED  BY <1>7, <1>9, <2>2, <2>3, <2>4, <2>5 DEF ValuesOK
<1>20. DoneInv'
  BY <1>7 DEF DoneInv
<1> QED  BY <1>14, <1>15, <1>17, <1>18, <1>19, <1>20 DEF TurnInv

\* The turns that only return.
LEMMA ReturnInv ==
    ASSUME OptInv, NEW ret, Return(ret), ret # "ok"
    PROVE  OptInv'
<1>1. TurnInv'
  BY OptStutter DEF OptInv, Return
<1>2. DoneInv'
  BY DEF Return, DoneInv
<1> QED  BY <1>1, <1>2 DEF OptInv

LEMMA FinishInv ==
    ASSUME OptInv, NEW stray \in BOOLEAN, Finish(stray)
    PROVE  OptInv'
<1>1. UNCHANGED <<ros, argv, argi, mutro, opts_found, optVal, given>>
  BY DEF Finish, Return
<1>2. TurnInv'
  BY <1>1, OptStutter DEF OptInv
<1>3. optRet' = "ok" => \A o \in DOMAIN ros : ~Missing(o, TRUE)
  <2>1. optRet' = "ok" => \A o \in DOMAIN ros : ~Missing(o, stray)
    BY DEF Finish, Return
  <2>2. \A o \in DOMAIN ros : Missing(o, TRUE) => Missing(o, stray)
    BY DEF Missing, MutSeen
  <2> QED  BY <2>1, <2>2
<1>4. argi = Len(argv) + 1 \/ argv[argi].kind = "word"
  <2>1. argi \in 1..Len(argv) + 1 /\ Len(argv) \in Nat
    BY SeqFacts DEF OptInv, TurnInv, OptType
  <2>2. argi <= Len(argv) => argv[argi].kind = "word"
    BY DEF Finish, Parsing, AtWord, Arg
  <2> QED  BY <2>1, <2>2
<1>5. \A o \in DOMAIN ros : Missing(o, TRUE)' <=> Missing(o, TRUE)
  BY <1>1 DEF Missing, MutSeen
<1>6. DoneInv'
  BY <1>1, <1>3, <1>4, <1>5 DEF DoneInv
<1> QED  BY <1>2, <1>6 DEF OptInv

LEMMA OptInvNext ==
    ASSUME OptInv, [OptNext]_optVars
    PROVE  OptInv'
<1>1. CASE SkipEmpty
  BY <1>1, SkipEmptyInv
<1>2. CASE Help
  BY <1>2, ReturnInv DEF Help
<1>3. CASE UnknownOption
  BY <1>3, ReturnInv DEF UnknownOption
<1>4. ASSUME NEW ok \in BOOLEAN, NEW stray \in BOOLEAN, RejectOption(ok, stray)
      PROVE  OptInv'
  BY <1>4, ReturnInv DEF RejectOption
<1>5. ASSUME NEW ok \in BOOLEAN, NEW stray \in BOOLEAN, TakeOption(ok, stray)
      PROVE  OptInv'
  BY <1>5, TakeOptionInv
<1>6. ASSUME NEW stray \in BOOLEAN, Finish(stray) PROVE OptInv'
  BY <1>6, FinishInv
<1>7. CASE UNCHANGED optVars
  <2>1. TurnInv'
    BY <1>7, OptStutter DEF OptInv, optVars
  <2>2. DoneInv'
    BY <1>7 DEF OptInv, DoneInv, Missing, MutSeen, optVars
  <2> QED  BY <2>1, <2>2 DEF OptInv
<1> QED  BY <1>1, <1>2, <1>3, <1>4, <1>5, <1>6, <1>7 DEF OptNext

LEMMA SuccessFromInv ==
    ASSUME OptInv
    PROVE  SuccessAccountsForAll
<1>1. SUFFICES ASSUME optRet = "ok" PROVE SuccessAccountsForAll
  BY DEF SuccessAccountsForAll
<1>2. /\ ros \in Seq(Options) /\ given \in Seq(Taken)
      /\ IsVec(opts_found, OptsMax, Seen)
  BY DEF OptInv, TurnInv, OptType
<1>3. /\ Len(ros) \in Nat /\ Len(given) \in Nat
      /\ DOMAIN ros = 1..Len(ros) /\ DOMAIN given = 1..Len(given)
  BY <1>2, SeqFacts
<1>4. \A i \in 1..argi - 1 :
        \/ argv[i].kind = "empty"
        \/ \E k \in DOMAIN given : i \in given[k].at..given[k].newi
  BY DEF OptInv, TurnInv, ArgOK
<1>5. /\ \A k \in DOMAIN given : given[k].at <= given[k].newi
      /\ \A k, l \in DOMAIN given : k < l =>
            /\ given[k].newi < given[l].at
            /\ ros[given[k].opt].mut # 0 /\ ros[given[l].opt].mut = ros[given[k].opt].mut
                => ros[given[k].opt].mut = 4
  <2>1. \A k \in DOMAIN given : given[k] \in Taken
    BY <1>2, <1>3
  <2>2. \A k \in DOMAIN given : given[k].opt \in DOMAIN ros
    BY <2>1 DEF Taken
  <2>3. \A k \in DOMAIN given : ros[given[k].opt] \in Options
    BY <1>2, <1>3, <2>2
  <2>4. \A k \in DOMAIN given : ros[given[k].opt].mut \in 0..4
    BY <2>3 DEF Options
  <2> QED  BY <2>4 DEF OptInv, TurnInv, PlaceOK, MutOf
<1>6. argi = Len(argv) + 1 \/ argv[argi].kind = "word"
  BY <1>1 DEF OptInv, DoneInv
<1>7. ASSUME NEW o \in DOMAIN ros,
             NEW taken, taken = {k \in DOMAIN given : given[k].opt = o}
      PROVE  /\ (ros[o].req /\ taken = {}) =>
                    \/ ros[o].mut = 4
                    \/ \E k \in DOMAIN given :
                        ros[o].mut # 0 /\ ros[given[k].opt].mut = ros[o].mut
             /\ (taken = {} \/ Parser(ros[o]) # "assign") => optVal[o] = NotGiven
             /\ (taken # {} /\ Parser(ros[o]) = "assign") =>
                              LET last == given[Max(taken)]
                              IN  last.newi # last.at =>
                                  /\ ros[o].type \in {"str", "path"} => optVal[o] = last.newi
                                  /\ ros[o].type = "int" => optVal[o] = Number(argv[last.newi])
  <2>1. ASSUME ros[o].req, taken = {}, ros[o].mut # 4
        PROVE  \E k \in DOMAIN given : ros[o].mut # 0 /\ ros[given[k].opt].mut = ros[o].mut
    <3>1. ~Missing(o, TRUE)
      BY <1>1 DEF OptInv, DoneInv
    <3>2. ~rd_bitvec_test(opts_found, o - 1)
      <4>1. o \in Int /\ o - 1 \in Nat
        BY <1>3
      <4>2. o - 1 \notin Seen
        BY <1>7, <2>1, <4>1 DEF Seen
      <4> QED  BY <1>2, <4>1, <4>2, OptAssumption, TestVec
    <3>3. ros[o].mut # 0 /\ MutSeen(ros[o], TRUE)
      BY <2>1, <3>1, <3>2 DEF Missing
    <3>4. ros[o].mut \in 1..3
      <4>1. ros[o] \in Options
        BY <1>2, <1>3
      <4>2. ros[o].mut \in 0..4
        BY <4>1 DEF Options
      <4> QED  BY <2>1, <3>3, <4>2
    <3>5. mutro[MutGrp(ros[o])] # 0
      BY <3>3, <3>4, GroupBits DEF MutSeen
    <3> QED  BY <3>4, <3>5 DEF MutGrp, OptInv, TurnInv, GroupsOK, MutOf
  <2>2. (taken = {} \/ Parser(ros[o]) # "assign") => optVal[o] = NotGiven
    BY <1>7 DEF OptInv, TurnInv, ValuesOK
  <2>3. ASSUME taken # {}, Parser(ros[o]) = "assign"
        PROVE  LET last == given[Max(taken)]
               IN  last.newi # last.at =>
                      /\ ros[o].type \in {"str", "path"} => optVal[o] = last.newi
                      /\ ros[o].type = "int" => optVal[o] = Number(argv[last.newi])
    <3>1. taken \in SUBSET Nat /\ taken \in SUBSET Int /\ \A k \in taken : k <= Len(given)
      BY <1>3, <1>7
    <3>2. PICK k \in taken : \A l \in taken : l <= k
      BY <1>3, <2>3, <3>1, GreatestExists
    <3>3. Max(taken) = k
      BY <3>1, <3>2, MaxIs
    <3>4. k \in DOMAIN given /\ given[k].opt = o
      BY <1>7
    <3>5. LastOf(k)
      BY <1>3, <1>7, <3>2, <3>4 DEF LastOf
    <3>6. ValueOK(k)
      BY <3>4, <3>5 DEF OptInv, TurnInv, ValuesOK
    <3> QED  BY <2>3, <3>3, <3>4, <3>6 DEF ValueOK
  <2> QED  BY <2>1, <2>2, <2>3
<1> QED  BY <1>4, <1>5, <1>6, <1>7 DEF SuccessAccountsForAll

\* Whatever the table and the arguments, when rd_opt_parse() succeeds it has
\* accounted for every argument in front of *argip, taken at most one option of
\* each of the groups 1 to 3 and every required option or one of its group, with
\* group 4 as the one exception, and left the values that were given last behind
\* the pointers of options that have one.
THEOREM SuccessIsComplete == OptSpec => []SuccessAccountsForAll
<1>1. OptInv /\ [OptNext]_optVars => OptInv'
  BY OptInvNext
<1>2. OptInv => SuccessAccountsForAll
  BY SuccessFromInv
<1> QED  BY <1>1, <1>2, OptInitInv, PTL DEF OptSpec
=============================================================================
