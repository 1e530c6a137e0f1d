SPECIFICATION Spec
CONSTANTS
    t1 = t1  t2 = t2  t3 = t3  th1 = th1  th2 = th2
    NoTimer = NoTimer
    Timers <- MCTimers
    Threads <- OneThread
    Intervals <- FarIntervals
    Hour = 4
    IntHalf = 2
    MaxClock = 4
INVARIANT HeadIsEarliest
