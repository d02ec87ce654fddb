--------------------------- MODULE MCRdmExchange ---------------------------
(* RdmExchange with requests whose answers are longer, shorter or refused,  *)
(* and one that is not answered.                                            *)
EXTENDS RdmExchange

MCRequests ==
  {SendGetDeviceInfo(Uid), SendSetDmxStartAddress(Uid, 7),
   SendGetSoftwareVersionLabel(Uid), SendSetIdentifyDevice(Everyone, 1)}
=============================================================================
