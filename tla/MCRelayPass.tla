---------------------------- MODULE MCRelayPass ----------------------------
(* Instances of RelayPass for TLC. *)
EXTENDS RelayPass
=============================================================================
