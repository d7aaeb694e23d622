----------------------------- MODULE MCChatPage -----------------------------
(* Instances of ChatPage for the model checker. *)
EXTENDS ChatPage
=============================================================================
