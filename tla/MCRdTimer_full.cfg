SPECIFICATION FairSpec
CONSTANTS
    t1 = t1  t2 = t2  t3 = t3  th1 = th1  th2 = th2
    NoTimer = NoTimer
    Timers <- MCTimers
    Threads <- OneThread
    Intervals <- MCIntervals
    Hour = 2
    IntHalf = 16
    MaxClock = 3
INVARIANTS ListSorted NoOversleep CalledIsOutstanding NoUseAfterFree
PROPERTIES NoFireAfterDestroy DueTimerFires DestroyedTimerFreed
