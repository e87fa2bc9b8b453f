\* disconnect() and sendMessage() racing the receive thread's close.
CONSTANTS
    s1 = s1
    Fds <- MCFds
    Senders <- MCSenders
    RetryLimit = 3
    MaxConnects = 2
    MaxSends = 1
    MaxRemoteMsgs = 1
    OthersOpenFds = TRUE
SPECIFICATION Spec
\* The client stops once its bounded calls are used up.
CHECK_DEADLOCK FALSE
INVARIANT NoForeignDescriptorUse
