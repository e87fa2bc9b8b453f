----------------------------- MODULE MCEventLoop -----------------------------
(* Model-checking instance of EventLoop: two nanoapps, one broadcast event *)
(* type, one poster thread.                                                *)
EXTENDS EventLoop

CONSTANTS a1, a2, p1

MCAppIds == {a1, a2}
MCPosters == {p1}
=============================================================================
