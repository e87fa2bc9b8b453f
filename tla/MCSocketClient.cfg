\* Connect, reconnect and disconnect cycles with a sender and other code of
\* the process opening descriptors.
CONSTANTS
    s1 = s1
    Fds <- MCFds
    Senders <- MCSenders
    RetryLimit = 3
    MaxConnects = 2
    MaxSends = 1
    MaxRemoteMsgs = 1
    OthersOpenFds = TRUE
SPECIFICATION Spec
INVARIANT TypeOK
INVARIANT ClientOwnsOnlySockFd
INVARIANT NoCallbackAfterDisconnect
PROPERTY DisconnectReturns
\* The client stops once its bounded calls are used up.
CHECK_DEADLOCK FALSE
