--------------------------- MODULE ChatTranscript ---------------------------
(***************************************************************************)
(* What a chat promises whoever reads its history, for a client that sends *)
(* one message at a time over a healthy database: messages are asked in    *)
(* order, each has at most one answer, an answer is written while no other *)
(* is open, and once finished it is never touched again.                   *)
(***************************************************************************)
EXTENDS Naturals

CONSTANT MaxTurns   \* bound on the messages asked

VARIABLES
  asked,    \* messages stored so far
  answer    \* per turn: "none", "open" or "done"; turn 0 is the prompt

vars == <<asked, answer>>

Init ==
  /\ asked = 0
  /\ answer = [t \in 0..MaxTurns |-> "none"]

NoneOpen == \A t \in 0..MaxTurns : answer[t] # "open"

\* The user's message is stored while no answer is being written.
Ask ==
  /\ asked < MaxTurns
  /\ NoneOpen
  /\ asked' = asked + 1
  /\ UNCHANGED answer

\* The answer to the latest message is opened ...
Begin ==
  /\ NoneOpen
  /\ answer[asked] = "none"
  /\ answer' = [answer EXCEPT ![asked] = "open"]
  /\ UNCHANGED asked

\* ... and finished.
Finish ==
  /\ answer[asked] = "open"
  /\ answer' = [answer EXCEPT ![asked] = "done"]
  /\ UNCHANGED asked

Next == Ask \/ Begin \/ Finish

Spec == Init /\ [][Next]_vars

=============================================================================
