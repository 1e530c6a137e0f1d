SPECIFICATION FairSpec
CONSTANTS
    fd1 = fd1  fd2 = fd2  h1 = h1  h2 = h2  h3 = h3  c1 = c1  c2 = c2
    NoFd = NoFd  NoHnd = NoHnd
    Fds <- OneFd
    Hnds <- MCHnds
    Callers <- OneCaller
    CtlMayFail = FALSE
    StartMayFail = FALSE
    MaxWorkers = 2
    MaxAdds = 1
    MaxReady = 3
PROPERTY WorkersBecomeAvailable
\* the I/O thread may wait for events for ever
CHECK_DEADLOCK FALSE
