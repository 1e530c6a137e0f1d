SPECIFICATION FairSpec
CONSTANTS
    main = main  r1 = r1  r2 = r2  v1 = v1  v2 = v2  x1 = x1
    Rdts <- MCTwoRdts
    Main = main
    NoRdt = NoRdt
    Events <- MCEvents
    ExitEvents <- MCExitEvents
    NoEvent = NoEvent
    Routines <- AllRoutines
    CreateMayFail = TRUE
    MaxBatch = 1
INVARIANTS EventsInOrder OneLateCall NoFault
PROPERTIES ExitingThreadEnds EventsAreServed
\* the program may end, or abort
CHECK_DEADLOCK FALSE
