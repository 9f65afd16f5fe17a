---------------------------- MODULE MCDeviceLogin ----------------------------
(***************************************************************************)
(* Instance for TLC: servers that announce no interval, 10 or 40 seconds;  *)
(* a request takes up to 10 seconds.                                       *)
(***************************************************************************)
EXTENDS DeviceLogin

MCAnnounced == {0, 2, 8}
=============================================================================
