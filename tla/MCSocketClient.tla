--------------------------- MODULE MCSocketClient ---------------------------
(* SocketClient with two descriptor numbers, so that a number the client   *)
(* closed is the next one other code of the process is given.             *)
EXTENDS SocketClient

CONSTANTS s1

MCFds == {1, 2}
MCSenders == {s1}

====
