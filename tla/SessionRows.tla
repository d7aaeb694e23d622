---------------------------- MODULE SessionRows ----------------------------
(***************************************************************************)
(* What the stored history of chat sessions promises, whoever writes it:   *)
(* rows are only appended; an answer is finished once, by the writer that  *)
(* opened it and before it opens another; a writer that is gone, with its  *)
(* connection or with the server, leaves its open answer as it is.         *)
(***************************************************************************)
EXTENDS Naturals, Sequences

CONSTANTS
  Sessions,
  Writers,   \* those who answer; each works on one session
  None       \* nobody

VARIABLES
  rows,   \* the history, all sessions together
  of,     \* per writer: its session
  gone    \* writers that will not answer any more

vars == <<rows, of, gone>>

Question(w, s) == [session |-> s, role |-> "user", status |-> "done", opener |-> w, by |-> w]
Answer(w) == [session |-> of[w], role |-> "assistant", status |-> "streaming", opener |-> w, by |-> None]

\* Row i is the writer's youngest answer.
Answers(w) == {i \in DOMAIN rows : rows[i].role = "assistant" /\ rows[i].opener = w}
Youngest(w, i) == i \in Answers(w) /\ \A j \in Answers(w) : j <= i

Init ==
  /\ rows = <<>> /\ gone = {}
  /\ of \in [Writers -> Sessions]

\* A question is stored by the connection that answers it, or over REST.
Ask(w) == rows' = Append(rows, Question(w, of[w])) /\ UNCHANGED <<of, gone>>
Post(s) == rows' = Append(rows, Question(None, s)) /\ UNCHANGED <<of, gone>>

\* Whoever stores an answer may find its reader gone when it tells it.
Begin(w) ==
  /\ w \notin gone
  /\ rows' = Append(rows, Answer(w))
  /\ gone' \in {gone, gone \cup {w}}
  /\ UNCHANGED of

Finish(w) ==
  /\ w \notin gone
  /\ \E i \in DOMAIN rows :
       /\ Youngest(w, i) /\ rows[i].status = "streaming"
       /\ rows' = [rows EXCEPT ![i].status = "done", ![i].by = w]
  /\ gone' \in {gone, gone \cup {w}}
  /\ UNCHANGED of

Lose ==
  /\ UNCHANGED <<rows, of>>
  /\ gone \subseteq gone' /\ gone' \subseteq Writers

Next ==
  \/ Lose
  \/ \E s \in Sessions : Post(s)
  \/ \E w \in Writers : Ask(w) \/ Begin(w) \/ Finish(w)

Spec == Init /\ [][Next]_vars

=============================================================================
