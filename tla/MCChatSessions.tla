--------------------------- MODULE MCChatSessions ---------------------------
(* Instances of ChatSessions for the model checker: connections are alike. *)
EXTENDS ChatSessions, TLC
Alike == Permutations(Conns)
=============================================================================
