--------------------------- MODULE MCRdmDiscovery ---------------------------
(* RdmDiscovery with UIDs of three bits: the manufacturer is the high one, *)
(* and UID 3 addresses all devices of manufacturer 0.                      *)
EXTENDS RdmDiscovery

MCDevices == {2, 4, 5}
=============================================================================
