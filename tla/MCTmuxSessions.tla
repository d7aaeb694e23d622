---------------------------- MODULE MCTmuxSessions ----------------------------
(* Instances of TmuxSessions for the model checker. *)
EXTENDS TmuxSessions

\* What follows a question mark is the URL's query, not part of the name, and a
\* path of more segments has no route.
MCHeard == [n \in Names |-> CASE n = "dev?" -> "dev" [] n = "a/b" -> None [] OTHER -> n]
=============================================================================
