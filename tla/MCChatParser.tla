---------------------------- MODULE MCChatParser ----------------------------
(* Instances of ChatParser for the model checker. *)
EXTENDS ChatParser
=============================================================================
