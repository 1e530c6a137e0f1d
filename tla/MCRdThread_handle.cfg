SPECIFICATION Spec
CONSTANTS
    main = main  r1 = r1  r2 = r2  v1 = v1  v2 = v2  x1 = x1
    Rdts <- MCRdts
    Main = main
    NoRdt = NoRdt
    Events <- MCEvents
    ExitEvents <- MCExitEvents
    NoEvent = NoEvent
    Routines <- ExitReturnOnly
    CreateMayFail = FALSE
    MaxBatch = 0
INVARIANT HandleSurvivesCreate
\* the program may end, or abort
CHECK_DEADLOCK FALSE
