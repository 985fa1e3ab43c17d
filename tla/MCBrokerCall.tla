---------------------------- MODULE MCBrokerCall ----------------------------
(* A small instance of BrokerCall for TLC. *)
EXTENDS BrokerCall, TLC
=============================================================================
