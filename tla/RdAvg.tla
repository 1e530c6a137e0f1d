------------------------------- MODULE RdAvg -------------------------------
(***************************************************************************)
(* The rates of rdavg.c: values put into periods of a fixed duration, of   *)
(* which the last few are kept in a ring.  Nothing is locked; one thread   *)
(* puts values and reads results.  The rate itself, a floating-point       *)
(* quotient of the sum and the duration kept here, is left out.            *)
(***************************************************************************)
EXTENDS Integers, FiniteSetsExt

CONSTANTS
    ra_periods,     \* periods in the ring
    ra_duration,    \* duration of a period
    AvgValues,      \* values put
    NoValue,        \* RD_AVG_NO_VALUE: more than any value
    MaxAvgClock,    \* bound on the clock
    MaxAvgCnt       \* bound on the sum of a period

ASSUME AvgAssumption ==
    /\ ra_periods \in 1..10000 /\ ra_duration \in Nat \ {0}
    /\ NoValue \in Nat /\ AvgValues \subseteq 1..NoValue - 1

VARIABLES
    ra_period,      \* the ring
    ra_curri,       \* index of the current period
    ra_start,       \* when it began; 0 before rd_avg_start()
    ra_end,         \* when it should end
    avgClock,
    put,            \* history: per period, the values put into it and their sum
    wiped           \* history: periods whose result was cleared after a put

avgVars == <<ra_period, ra_curri, ra_start, ra_end, avgClock, put, wiped>>

Slots == 0..ra_periods - 1
NoPeriod ==
    [last |-> 0, duration |-> 0, closed |-> 0, missed |-> 0, cnt |-> 0,
     sum |-> 0, high |-> 0, low |-> 0]

\* rd_avg_new_rate() and rd_avg_new(); the clock is never 0.
AvgInit ==
    /\ ra_period = [s \in Slots |-> NoPeriod]
    /\ ra_curri = 0 /\ ra_start = 0 /\ ra_end = 0
    /\ avgClock = 1
    /\ put = [s \in Slots |-> [vals |-> {}, sum |-> 0, from |-> 0]]
    /\ wiped = {}

-----------------------------------------------------------------------------
\* rd_avg_calc(): without a duration there is no result, and no extremes.
rd_avg_calc(p) ==
    IF p.duration = 0 THEN [p EXCEPT !.sum = 0, !.high = 0, !.low = 0]
    ELSE [p EXCEPT !.sum = p.cnt]

\* The duration of the current period, until its last value or until now.
Measured(p, now) == [p EXCEPT !.duration = (IF p.last # 0 THEN p.last ELSE now) - ra_start]

\* The index that follows the current one in the ring.
Following == (ra_curri + 1) % ra_periods

\* The index RD_AVG_PREV stands for.
Previous ==
    IF ra_curri = 0 THEN ra_periods - 1 ELSE (ra_curri - 1) % ra_periods

\* The ring and its history after rd_avg_period_next(), with p as the new
\* current period, ring as what it is before, and vals as the values put so far.
PeriodNext(ring, p, vals, sum) ==
    /\ ra_period' = [ring EXCEPT ![Following] = p]
    /\ ra_curri' = Following
    /\ ra_start' = avgClock
    /\ ra_end' = avgClock + ra_duration
    /\ put' = [put EXCEPT ![Following] =
            [vals |-> vals, sum |-> sum, from |-> avgClock]]

Fresh == [NoPeriod EXCEPT !.low = NoValue]

\* rd_avg_start().
rd_avg_start ==
    /\ PeriodNext(ra_period, Fresh, {}, 0)
    /\ wiped' = wiped \ {Following}
    /\ UNCHANGED avgClock

\* Variant with a fault: the period ends after its last moment.
EndedLate(now) == ra_end < now

\* The current period has ended.
Ended(now) == ra_end <= now

\* rd_avg_roll() up to the new period: the current one is closed.
Closed(now) ==
    [rd_avg_calc(Measured(ra_period[ra_curri], now)) EXCEPT
        !.closed = now, !.missed = (now - ra_end) \div ra_duration]

\* A value that is put into a period: the end of rd_avg_put().
WithValue(p, val) ==
    [p EXCEPT !.last = avgClock, !.cnt = @ + val,
              !.high = IF @ < val THEN val ELSE @,
              !.low = IF @ > val THEN val ELSE @]

\* Roll-over wipes the extremes of a period whose values all came at once.
WipedByRoll ==
    IF Measured(ra_period[ra_curri], avgClock).duration = 0 THEN {ra_curri} ELSE {}

\* rd_avg_put().
rd_avg_put(val) ==
    /\ ra_start # 0 /\ put[ra_curri].sum + val <= MaxAvgCnt
    /\ \/ /\ Ended(avgClock)
          /\ PeriodNext([ra_period EXCEPT ![ra_curri] = Closed(avgClock)],
                        WithValue(Fresh, val), {val}, val)
          /\ wiped' = (wiped \cup WipedByRoll) \ {Following}
       \/ /\ ~Ended(avgClock)
          /\ ra_period' = [ra_period EXCEPT ![ra_curri] = WithValue(@, val)]
          /\ put' = [put EXCEPT ![ra_curri] =
                  [vals |-> @.vals \cup {val}, sum |-> @.sum + val, from |-> @.from]]
          /\ UNCHANGED <<ra_curri, ra_start, ra_end, wiped>>
    /\ UNCHANGED avgClock

\* rd_avg() of the current or of another period, which calculates its result
\* again.
rd_avg(s) ==
    LET p == IF s = ra_curri /\ ra_start # 0 THEN Measured(ra_period[s], avgClock)
             ELSE ra_period[s]
    IN  /\ ra_period' = [ra_period EXCEPT ![s] = rd_avg_calc(p)]
        /\ wiped' = IF p.duration = 0 THEN wiped \cup {s} ELSE wiped
        /\ UNCHANGED <<ra_curri, ra_start, ra_end, avgClock, put>>

AvgTick ==
    /\ avgClock < MaxAvgClock
    /\ avgClock' = avgClock + 1
    /\ UNCHANGED <<ra_period, ra_curri, ra_start, ra_end, put, wiped>>

AvgNext ==
    \/ rd_avg_start
    \/ \E val \in AvgValues : rd_avg_put(val)
    \/ \E s \in {ra_curri, Previous} : rd_avg(s)
    \/ AvgTick

AvgSpec == AvgInit /\ [][AvgNext]_avgVars
-----------------------------------------------------------------------------
\* Each value is counted in exactly one period, the one it was put in, also
\* when the ring wraps around or periods go by without a value.  A closed
\* period that lasted any time reports the sum of its values, its values came
\* before its end, and the time until it was closed is its own and that of
\* the periods it missed.  The extremes are those of its values unless a
\* result was calculated while the period had no duration.
PeriodsAreExact ==
    \A s \in Slots :
        LET p == ra_period[s]
        IN  /\ p.cnt = put[s].sum
            /\ p.closed # 0 =>
                /\ p.duration # 0 => p.sum = put[s].sum
                /\ p.last # 0 => p.duration \in 0..ra_duration - 1
                /\ p.closed - put[s].from - (p.missed + 1) * ra_duration
                        \in 0..ra_duration - 1
            /\ (s \notin wiped /\ put[s].vals # {}) =>
                /\ p.high = Max(put[s].vals) /\ p.low = Min(put[s].vals)
=============================================================================
