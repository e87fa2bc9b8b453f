------------------------ MODULE MCWifiRequestManager ------------------------
(* WifiRequestManager instantiated for TLC: two nanoapps with instance ids *)
(* 1 and 2.                                                                 *)
EXTENDS WifiRequestManager

MCNanoapps == {1, 2}
=============================================================================
