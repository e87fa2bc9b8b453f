-------------------------- MODULE MCPlatformSensor --------------------------
(* SMGR lists an accelerometer, which also reports its temperature as      *)
(* secondary data, and a pressure sensor.                                  *)
EXTENDS PlatformSensor

MCSmgrList ==
    << [id |-> "a0", range |-> "accel", dataTypes |-> <<"primary", "secondary">>],
       [id |-> "p0", range |-> "pressure", dataTypes |-> <<"primary">>] >>

====
