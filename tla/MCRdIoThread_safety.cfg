SPECIFICATION Spec
CONSTANTS
    fd1 = fd1  fd2 = fd2  h1 = h1  h2 = h2  h3 = h3  c1 = c1  c2 = c2
    NoFd = NoFd  NoHnd = NoHnd
    Fds <- MCFds
    Hnds <- MCHnds
    Callers <- MCCallers
    CtlMayFail = TRUE
    StartMayFail = TRUE
    MaxWorkers = 2
    MaxAdds = 3
    MaxReady = 2
SYMMETRY Symmetry
INVARIANTS NoFault RefsCoverWork RegisteredIsListed OneLateEvent
\* the I/O thread may wait for events for ever
CHECK_DEADLOCK FALSE
