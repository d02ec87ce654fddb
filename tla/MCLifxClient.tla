---------------------------- MODULE MCLifxClient ----------------------------
(* LifxClient with short periods, above the Wi-Fi station.                 *)
EXTENDS LifxClient
=============================================================================
