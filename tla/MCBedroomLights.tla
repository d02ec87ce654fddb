-------------------------- MODULE MCBedroomLights --------------------------
(* BedroomLights with a short tick counter, so that it wraps many times.   *)
EXTENDS BedroomLights
=============================================================================
