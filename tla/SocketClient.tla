----------------------------- MODULE SocketClient -----------------------------
(***************************************************************************)
(* The host-side SocketClient (src/host/common/socket_client.cc).          *)
(*                                                                         *)
(* A control thread calls connect() and disconnect(); sender threads call  *)
(* sendMessage(); the receive thread started by connect() reads the        *)
(* socket, closes it when the peer goes away and, if asked to, reconnects  *)
(* with a bounded number of retries.  mSockFd is an atomic that only the   *)
(* receive thread (and connect() before it starts) writes; every other     *)
(* use of it is a fresh read.  File descriptors are numbered: the kernel   *)
(* hands out the lowest free number, and other code in the process may     *)
(* open and close descriptors of its own.                                  *)
(***************************************************************************)
EXTENDS Integers, FiniteSets, FiniteSetsExt

CONSTANTS
    Fds,            \* descriptor numbers the process may hold (integers > 0)
    Senders,        \* threads calling sendMessage()
    RetryLimit,     \* reconnect(): int retryLimit = 40
    MaxConnects,    \* bound: connect() calls
    MaxSends,       \* bound: sendMessage() calls per sender
    MaxRemoteMsgs,  \* bound: messages the daemon sends
    OthersOpenFds   \* whether other code of the process opens descriptors

ASSUME /\ Fds \subseteq Nat \ {0} /\ RetryLimit \in Nat \ {0}
       /\ MaxConnects \in Nat /\ MaxSends \in Nat /\ MaxRemoteMsgs \in Nat
       /\ OthersOpenFds \in BOOLEAN

\* INVALID_SOCKET.
INVALID_SOCKET == 0

VARIABLES
    owner,          \* the kernel's descriptor table: "free", "client", "other"
    conn,           \* the client's connection: [shut, peerClosed, err, data]
    sockFd,         \* mSockFd
    graceful,       \* mGracefulShutdown
    reconnectAuto,  \* mReconnectAutomatically
    rxJoinable,     \* mRxThread.joinable()
    rxPc,           \* where the receive thread is
    retry,          \* reconnect(): retryLimit
    ctlPc,          \* where the control thread is
    connectAfter,   \* connect() is waiting on its implicit disconnect()
    connects,       \* connect() calls made
    sendPc,         \* where each sender is
    sends,          \* sendMessage() calls made by each sender
    remoteMsgs,     \* messages the daemon has sent
    returned,       \* disconnect() has returned and no receive thread runs
    cbAfterReturn,  \* a callback ran after disconnect() returned
    foreignShutdown,\* shutdown() hit a descriptor the client does not own
    foreignSend     \* send() hit a descriptor the client does not own

kernelVars == <<owner, conn, remoteMsgs>>
ghostVars == <<returned, cbAfterReturn, foreignShutdown, foreignSend>>
ctlVars == <<ctlPc, connectAfter, connects>>
rxVars == <<rxPc, retry>>
vars == <<kernelVars, sockFd, graceful, reconnectAuto, rxJoinable, rxVars,
          ctlVars, sendPc, sends, ghostVars>>

FreshConn == [shut |-> FALSE, peerClosed |-> FALSE, err |-> FALSE, data |-> 0]

-----------------------------------------------------------------------------
(* The kernel and the daemon                                               *)

FreeFds == {f \in Fds : owner[f] = "free"}

\* socket_local_client(): the lowest free descriptor, connected to the
\* daemon.
LowestFree == Min(FreeFds)

\* tryConnect(): mSockFd = socket_local_client(...); the daemon may refuse
\* (or no descriptor is free), and mSockFd is then INVALID_SOCKET.  ok
\* chooses the daemon's answer.  Returns the new sockFd, owner and conn.
TryConnect(ok) ==
    IF ok /\ FreeFds # {}
    THEN [fd |-> LowestFree, owner |-> [owner EXCEPT ![LowestFree] = "client"],
          conn |-> FreshConn]
    ELSE [fd |-> INVALID_SOCKET, owner |-> owner, conn |-> conn]

\* Whether descriptor fd is the client's own socket.
Own(fd) == fd # INVALID_SOCKET /\ owner[fd] = "client"
\* Whether a call on descriptor fd reaches something the client does not own.
Foreign(fd) == fd # INVALID_SOCKET /\ owner[fd] = "other"

\* A callback of mCallbacks runs on the receive thread.
Callback == cbAfterReturn' = (cbAfterReturn \/ returned)

\* The daemon sends a message, closes its end, or the connection fails.
RemoteSend ==
    /\ Own(sockFd) /\ remoteMsgs < MaxRemoteMsgs
    /\ conn' = [conn EXCEPT !.data = @ + 1]
    /\ remoteMsgs' = remoteMsgs + 1
    /\ UNCHANGED <<owner, sockFd, graceful, reconnectAuto, rxJoinable, rxVars,
                   ctlVars, sendPc, sends, ghostVars>>

RemoteClose ==
    /\ Own(sockFd) /\ ~conn.peerClosed
    /\ \E how \in {"peerClosed", "err"} : conn' = [conn EXCEPT ![how] = TRUE]
    /\ UNCHANGED <<owner, sockFd, graceful, reconnectAuto, rxJoinable, rxVars,
                   ctlVars, sendPc, sends, remoteMsgs, ghostVars>>

\* Other code of the process opens the lowest free descriptor, or closes
\* one of its own.
OtherOpen ==
    /\ OthersOpenFds /\ FreeFds # {}
    /\ owner' = [owner EXCEPT ![LowestFree] = "other"]
    /\ UNCHANGED <<conn, remoteMsgs, sockFd, graceful, reconnectAuto,
                   rxJoinable, rxVars, ctlVars, sendPc, sends, ghostVars>>

OtherClose ==
    /\ \E f \in Fds : owner[f] = "other" /\ owner' = [owner EXCEPT ![f] = "free"]
    /\ UNCHANGED <<conn, remoteMsgs, sockFd, graceful, reconnectAuto,
                   rxJoinable, rxVars, ctlVars, sendPc, sends, ghostVars>>

-----------------------------------------------------------------------------
(* The control thread: connect() and disconnect()                          *)

\* connect(): with a receive thread still joinable (running, or ended by
\* itself after a failed reconnect) it first calls disconnect().  The name
\* and callback checks only log and are left out.
Connect ==
    /\ ctlPc = "idle" /\ connects < MaxConnects
    /\ connects' = connects + 1
    /\ IF rxJoinable
       THEN ctlPc' = "d_flag" /\ connectAfter' = TRUE
       ELSE ctlPc' = "connect" /\ UNCHANGED connectAfter
    /\ UNCHANGED <<kernelVars, sockFd, graceful, reconnectAuto, rxJoinable,
                   rxVars, sendPc, sends, ghostVars>>

\* connect(), after the implicit disconnect: tryConnect() and, on success,
\* the flags, the callbacks and the new receive thread.
ConnectBody ==
    /\ ctlPc = "connect"
    /\ \E ok \in BOOLEAN, auto \in BOOLEAN :
         LET t == TryConnect(ok) IN
         /\ sockFd' = t.fd /\ owner' = t.owner /\ conn' = t.conn
         /\ IF t.fd # INVALID_SOCKET
            THEN /\ graceful' = FALSE /\ reconnectAuto' = auto
                 /\ rxJoinable' = TRUE /\ rxPc' = "top"
                 /\ returned' = FALSE
            ELSE UNCHANGED <<graceful, reconnectAuto, rxJoinable, rxPc,
                             returned>>
    /\ ctlPc' = "idle" /\ connectAfter' = FALSE
    /\ UNCHANGED <<remoteMsgs, retry, connects, sendPc, sends, cbAfterReturn,
                   foreignShutdown, foreignSend>>

\* disconnect(): nothing happens unless a receive thread is joinable.
Disconnect ==
    /\ ctlPc = "idle" /\ rxJoinable
    /\ ctlPc' = "d_flag"
    /\ UNCHANGED <<kernelVars, sockFd, graceful, reconnectAuto, rxJoinable,
                   rxVars, connectAfter, connects, sendPc, sends, ghostVars>>

\* mGracefulShutdown = true under mShutdownMutex, then notify_all().
DisconnectFlag ==
    /\ ctlPc = "d_flag"
    /\ graceful' = TRUE /\ ctlPc' = "d_check"
    /\ UNCHANGED <<kernelVars, sockFd, reconnectAuto, rxJoinable, rxVars,
                   connectAfter, connects, sendPc, sends, ghostVars>>

\* mSockFd != INVALID_SOCKET: the first of two reads of mSockFd.
DisconnectCheck ==
    /\ ctlPc = "d_check"
    /\ ctlPc' = IF sockFd = INVALID_SOCKET THEN "d_join" ELSE "d_shutdown"
    /\ UNCHANGED <<kernelVars, sockFd, graceful, reconnectAuto, rxJoinable,
                   rxVars, connectAfter, connects, sendPc, sends, ghostVars>>

\* shutdown(mSockFd, SHUT_RDWR): the second read.  On the client's socket it
\* wakes a blocked recv(); on a closed descriptor it fails with EBADF; on a
\* descriptor reused by other code it shuts that one down.
ShutdownNothing ==
    /\ conn' = conn
    /\ foreignShutdown' = foreignShutdown

DoShutdown ==
    /\ conn' = IF Own(sockFd) THEN [conn EXCEPT !.shut = TRUE] ELSE conn
    /\ foreignShutdown' = (foreignShutdown \/ Foreign(sockFd))

DisconnectShutdown ==
    /\ ctlPc = "d_shutdown"
    /\ DoShutdown
    /\ ctlPc' = "d_join"
    /\ UNCHANGED <<owner, remoteMsgs, sockFd, graceful, reconnectAuto,
                   rxJoinable, rxVars, connectAfter, connects, sendPc, sends,
                   returned, cbAfterReturn, foreignSend>>

\* mRxThread.detach() in place of the join.
DisconnectJoinDetached ==
    /\ ctlPc = "d_join"
    /\ rxJoinable' = FALSE /\ returned' = TRUE
    /\ ctlPc' = IF connectAfter THEN "connect" ELSE "idle"
    /\ UNCHANGED <<kernelVars, sockFd, graceful, reconnectAuto, rxVars,
                   connectAfter, connects, sendPc, sends, cbAfterReturn,
                   foreignShutdown, foreignSend>>

\* mRxThread.join(); then connect() goes on if it called disconnect().
DisconnectJoin ==
    /\ ctlPc = "d_join" /\ rxPc = "exited"
    /\ rxJoinable' = FALSE /\ rxPc' = "none"
    /\ returned' = TRUE
    /\ ctlPc' = IF connectAfter THEN "connect" ELSE "idle"
    /\ UNCHANGED <<kernelVars, sockFd, graceful, reconnectAuto, retry,
                   connectAfter, connects, sendPc, sends, cbAfterReturn,
                   foreignShutdown, foreignSend>>

-----------------------------------------------------------------------------
(* Sender threads: sendMessage()                                           *)

\* mSockFd == INVALID_SOCKET is checked first ...
SendCheck(s) ==
    /\ sendPc[s] = "idle" /\ sends[s] < MaxSends
    /\ sends' = [sends EXCEPT ![s] = @ + 1]
    /\ sendPc' = [sendPc EXCEPT ![s] =
                    IF sockFd = INVALID_SOCKET THEN "idle" ELSE "send"]
    /\ UNCHANGED <<kernelVars, sockFd, graceful, reconnectAuto, rxJoinable,
                   rxVars, ctlVars, ghostVars>>

\* ... and send(mSockFd, ...) reads it again.  Its outcomes (error, remote
\* closed, truncated, sent) change no state of the client.
SendData(s) ==
    /\ sendPc[s] = "send"
    /\ foreignSend' = (foreignSend \/ Foreign(sockFd))
    /\ sendPc' = [sendPc EXCEPT ![s] = "idle"]
    /\ UNCHANGED <<kernelVars, sockFd, graceful, reconnectAuto, rxJoinable,
                   rxVars, ctlVars, sends, returned, cbAfterReturn,
                   foreignShutdown>>

-----------------------------------------------------------------------------
(* The receive thread: receiveThread() and reconnect()                     *)

\* close(mSockFd).
CloseFdKept(fd) == owner

CloseFd(fd) == [owner EXCEPT ![fd] = "free"]

\* while (--retryLimit > 0): the test after the decrement.
KeepRetryingAtZero(r) == r >= 0

KeepRetrying(r) == r > 0

\* while (!mGracefulShutdown): recv() is only called while no shutdown is
\* requested.
RxTop ==
    /\ rxPc = "top"
    /\ rxPc' = IF graceful THEN "close" ELSE "recv"
    /\ UNCHANGED <<kernelVars, sockFd, graceful, reconnectAuto, rxJoinable,
                   retry, ctlVars, sendPc, sends, ghostVars>>

\* recv(mSockFd) blocks until there is a message, the peer closed, the
\* connection failed, or disconnect() shut the socket down.  A message goes
\* to onMessageReceived(); 0 bytes go to onSocketDisconnectedByRemote()
\* unless a shutdown was requested; an error ends the loop silently.
RxRecv ==
    /\ rxPc = "recv"
    /\ \/ /\ conn.data > 0
          /\ conn' = [conn EXCEPT !.data = @ - 1]
          /\ Callback
          /\ rxPc' = "top"
       \/ /\ conn.err
          /\ rxPc' = "close"
          /\ UNCHANGED <<conn, cbAfterReturn>>
       \/ /\ conn.shut \/ conn.peerClosed
          /\ IF graceful THEN UNCHANGED cbAfterReturn ELSE Callback
          /\ rxPc' = "close"
          /\ UNCHANGED conn
    /\ UNCHANGED <<owner, remoteMsgs, sockFd, graceful, reconnectAuto,
                   rxJoinable, retry, ctlVars, sendPc, sends, returned,
                   foreignShutdown, foreignSend>>

RxClose ==
    /\ rxPc = "close"
    /\ owner' = CloseFd(sockFd)
    /\ rxPc' = "invalidate"
    /\ UNCHANGED <<conn, remoteMsgs, sockFd, graceful, reconnectAuto,
                   rxJoinable, retry, ctlVars, sendPc, sends, ghostVars>>

\* mSockFd = INVALID_SOCKET, a separate store after the close.
RxInvalidate ==
    /\ rxPc = "invalidate"
    /\ sockFd' = INVALID_SOCKET
    /\ rxPc' = "loopcond"
    /\ UNCHANGED <<kernelVars, graceful, reconnectAuto, rxJoinable, retry,
                   ctlVars, sendPc, sends, ghostVars>>

\* } while (!mGracefulShutdown && mReconnectAutomatically && reconnect());
\* entering reconnect() sets retryLimit = 40.
RxLoopCond ==
    /\ rxPc = "loopcond"
    /\ IF ~graceful /\ reconnectAuto
       THEN rxPc' = "rc_dec" /\ retry' = RetryLimit
       ELSE rxPc' = "exit_check" /\ UNCHANGED retry
    /\ UNCHANGED <<kernelVars, sockFd, graceful, reconnectAuto, rxJoinable,
                   ctlVars, sendPc, sends, ghostVars>>

\* --retryLimit > 0; when it fails reconnect() returns false.
RxRetryDec ==
    /\ rxPc = "rc_dec"
    /\ retry' = retry - 1
    /\ rxPc' = IF KeepRetrying(retry - 1) THEN "rc_wait" ELSE "exit_check"
    /\ UNCHANGED <<kernelVars, sockFd, graceful, reconnectAuto, rxJoinable,
                   ctlVars, sendPc, sends, ghostVars>>

\* mShutdownCond.wait_for(lock, delay, pred): it returns when notified with
\* mGracefulShutdown set or when the delay has passed; then
\* if (mGracefulShutdown) break, and reconnect() returns false.  The delay's
\* length (500 ms doubling to 5 min) only decides when this step happens.
RxWait ==
    /\ rxPc = "rc_wait"
    /\ rxPc' = IF graceful THEN "exit_check" ELSE "rc_try"
    /\ UNCHANGED <<kernelVars, sockFd, graceful, reconnectAuto, rxJoinable,
                   retry, ctlVars, sendPc, sends, ghostVars>>

\* tryConnect(); on success onSocketReconnected() and reconnect() returns
\* true, so the do-while body runs again.
RxTry ==
    /\ rxPc = "rc_try"
    /\ \E ok \in BOOLEAN :
         LET t == TryConnect(ok) IN
         /\ sockFd' = t.fd /\ owner' = t.owner /\ conn' = t.conn
         /\ IF t.fd # INVALID_SOCKET
            THEN Callback /\ rxPc' = "top"
            ELSE UNCHANGED cbAfterReturn /\ rxPc' = "rc_dec"
    /\ UNCHANGED <<remoteMsgs, graceful, reconnectAuto, rxJoinable, retry,
                   ctlVars, sendPc, sends, returned, foreignShutdown,
                   foreignSend>>

\* onReconnectAborted() unless a shutdown was requested; mCallbacks.clear().
RxExit ==
    /\ rxPc = "exit_check"
    /\ IF ~graceful /\ reconnectAuto THEN Callback ELSE UNCHANGED cbAfterReturn
    /\ rxPc' = "exited"
    /\ UNCHANGED <<kernelVars, sockFd, graceful, reconnectAuto, rxJoinable,
                   retry, ctlVars, sendPc, sends, returned, foreignShutdown,
                   foreignSend>>

-----------------------------------------------------------------------------
(* The specification                                                       *)

Init ==
    /\ owner = [f \in Fds |-> "free"]
    /\ conn = FreshConn
    /\ sockFd = INVALID_SOCKET
    /\ graceful = FALSE
    /\ reconnectAuto = FALSE
    /\ rxJoinable = FALSE
    /\ rxPc = "none"
    /\ retry = 0
    /\ ctlPc = "idle"
    /\ connectAfter = FALSE
    /\ connects = 0
    /\ sendPc = [s \in Senders |-> "idle"]
    /\ sends = [s \in Senders |-> 0]
    /\ remoteMsgs = 0
    /\ returned = TRUE
    /\ cbAfterReturn = FALSE
    /\ foreignShutdown = FALSE
    /\ foreignSend = FALSE

ControlStep ==
    \/ ConnectBody \/ DisconnectFlag \/ DisconnectCheck
    \/ DisconnectShutdown \/ DisconnectJoin

RxStep ==
    \/ RxTop \/ RxRecv \/ RxClose \/ RxInvalidate \/ RxLoopCond
    \/ RxRetryDec \/ RxWait \/ RxTry \/ RxExit

Next ==
    \/ Connect \/ Disconnect \/ ControlStep \/ RxStep
    \/ \E s \in Senders : SendCheck(s) \/ SendData(s)
    \/ RemoteSend \/ RemoteClose \/ OtherOpen \/ OtherClose

\* The receive thread is a thread of its own and its waits are timed; a
\* disconnect() or connect() in progress and a send() that passed its check
\* go on.  Calls, the daemon and other code of the process are not forced.
Fairness ==
    /\ WF_vars(RxStep)
    /\ WF_vars(ControlStep)
    /\ \A s \in Senders : WF_vars(SendData(s))

Spec == Init /\ [][Next]_vars /\ Fairness

-----------------------------------------------------------------------------
(* Properties                                                              *)

RxPcs == {"none", "top", "recv", "close", "invalidate", "loopcond", "rc_dec",
          "rc_wait", "rc_try", "exit_check", "exited"}
CtlPcs == {"idle", "connect", "d_flag", "d_check", "d_shutdown", "d_join"}

TypeOK ==
    /\ owner \in [Fds -> {"free", "client", "other"}]
    /\ sockFd \in Fds \cup {INVALID_SOCKET}
    /\ rxPc \in RxPcs /\ ctlPc \in CtlPcs
    /\ retry \in 0..RetryLimit
    /\ sendPc \in [Senders -> {"idle", "send"}]
    /\ conn.data \in 0..MaxRemoteMsgs

\* The client holds at most one descriptor, the one in mSockFd, and only
\* while a receive thread runs: receiveThread() closes every socket it or
\* connect() opened before it reconnects or exits, so connect()/disconnect()
\* cycles and reconnects leak nothing.
ClientOwnsOnlySockFd ==
    \A f \in Fds : owner[f] = "client" =>
        /\ f = sockFd
        /\ rxPc \notin {"none", "exited"}

\* No callback of mCallbacks runs after disconnect() has returned: the join
\* in disconnect() waits for the receive thread, whose callbacks would
\* otherwise run on a client the caller may already have destroyed.
NoCallbackAfterDisconnect == ~cbAfterReturn

\* disconnect() returns: the flag, the notify and shutdown() get the receive
\* thread out of recv() or the retry wait, so the join ends, even when the
\* daemon stays silent.
DisconnectReturns ==
    ctlPc \in {"d_flag", "d_check", "d_shutdown", "d_join"}
        ~> ctlPc \in {"idle", "connect"}

\* shutdown(mSockFd) in disconnect() and send(mSockFd) in sendMessage() only
\* ever reach the client's own socket, never a descriptor number the
\* receive thread has closed and other code of the process has been given.
NoForeignDescriptorUse == ~foreignShutdown /\ ~foreignSend

====
