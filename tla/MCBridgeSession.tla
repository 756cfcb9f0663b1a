--------------------------- MODULE MCBridgeSession --------------------------
(***************************************************************************)
(* Twelve commands: enough for a session to be lost, established again     *)
(* with or without success, and used.                                      *)
(***************************************************************************)
EXTENDS BridgeSession
=============================================================================
