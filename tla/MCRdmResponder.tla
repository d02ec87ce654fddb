--------------------------- MODULE MCRdmResponder ---------------------------
(* RdmResponder on a small instance: requests of every kind, and two        *)
(* parameters that the application and the controller both set.             *)
EXTENDS RdmResponder

To(sub, pid, cc, data) == [pid |-> pid, cc |-> cc, sub |-> sub, data |-> data, to |-> "one"]
Req(pid, cc, data) == To("root", pid, cc, data)
Cast(req) == [req EXCEPT !.to = "all"]

\* Two firmwares with a different number of personalities.
MCFirmwares == {<<10, 20>>, <<10>>}

MCSettings == {<<"DMX_START_ADDRESS", 7>>, <<"DMX_START_ADDRESS", 500>>,
               <<"DMX_PERSONALITY", 2>>}

MCRequests ==
  {Req("DMX_START_ADDRESS", "SET", 7), Req("DMX_START_ADDRESS", "SET", NoData),
   Req("DMX_PERSONALITY", "SET", 2),
   Req("RESET_DEVICE", "SET", 1), Req("LANGUAGE", "SET", "de"),
   Req("DMX_PERSONALITY", "GET", NoData), Req("DEVICE_INFO", "GET", NoData),
   Req("SUPPORTED_PARAMETERS", "GET", NoData), Req("PARAMETER_DESCRIPTION", "GET", 1),
   Req("DMX_PERSONALITY_DESCRIPTION", "GET", 2), Req("QUEUED_MESSAGE", "GET", 2),
   Req("QUEUED_MESSAGE", "GET", NoData), Req("QUEUED_MESSAGE", "GET", 5),
   Req("DISC_MUTE", "DISC", NoData), Req("DISC_MUTE", "GET", NoData),
   Cast(Req("DISC_UNIQUE_BRANCH", "DISC", "around")),
   To("all", "DMX_START_ADDRESS", "SET", 7), To("other", "DEVICE_INFO", "GET", NoData)}
=============================================================================
