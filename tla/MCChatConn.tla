----------------------------- MODULE MCChatConn -----------------------------
(* Instances of ChatConn for the model checker, and how it           *)
(* implements ChatTranscript until messages overlap or a statement fails.  *)
EXTENDS ChatConn

HasRow(t, st, text) ==
  \E i \in DOMAIN rows : rows[i] = [role |-> "assistant", turn |-> t, status |-> st, text |-> text]

\* A turn's answer as a reader of chat_messages sees it; a row completed with
\* a text that is not the turn's own maps to no answer at all.
TranscriptAnswer ==
  [t \in Turns |-> IF HasRow(t, "done", Run(t)) THEN "done"
                   ELSE IF HasRow(t, "streaming", NoText) THEN "open" ELSE "none"]

Transcript == INSTANCE ChatTranscript WITH
  asked <- Cardinality({i \in DOMAIN rows : rows[i].role = "user"}),
  answer <- TranscriptAnswer

\* Until messages overlap or a statement fails, the connection's handler,
\* relay and runs together implement the transcript: chat_messages evolves
\* only by asking, opening and finishing answers one at a time.
TranscriptSpec ==
  Transcript!Init /\ [][Transcript!Next \/ overlap' \/ faults' > 0]_(Transcript!vars)

=============================================================================
