---------------------------- MODULE MCTermBridge ----------------------------
(* Instances of TermBridge for the model checker. *)
EXTENDS TermBridge
=============================================================================
