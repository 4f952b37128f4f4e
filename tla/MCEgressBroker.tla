----------------------------- MODULE MCEgressBroker -----------------------------
(* EgressBroker for TLC: every constant is given in the configuration. *)
EXTENDS EgressBroker
================================================================================
