SPECIFICATION FairSpec
CONSTANTS
    w1 = w1  w2 = w2  c1 = c1  c2 = c2
    e1 = e1  e2 = e2  e3 = e3  p1 = p1  p2 = p2
    NoElm = NoElm  NoPtr = NoPtr
    Workers <- MCWorkers
    Elms <- MCElms
    Ptrs <- MCPtrs
    MaxSizes <- MCSizes
    Threads <- MCOneCaller
    MaxInits = 1
INVARIANT NoFault
PROPERTIES ImplementsFifo EveryElementLeaves
\* every thread may be blocked in rd_fifoq_pop0() at once
CHECK_DEADLOCK FALSE
