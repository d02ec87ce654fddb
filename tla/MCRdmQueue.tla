---------------------------- MODULE MCRdmQueue ----------------------------
(* RdmQueue with a ring that wraps; more PIDs than cells.                 *)
EXTENDS RdmQueue
=============================================================================
