----------------------------- MODULE ChatParser -----------------------------
(***************************************************************************)
(* The line parser of CLI output (OutputParser) feeding the chat page's    *)
(* tables of streams, thinking blocks and tool cards (ChatView).           *)
(*                                                                         *)
(* No adapter uses the parser yet; its events are delivered in order, the  *)
(* way the relay delivers an adapter's.  A line is its class and its       *)
(* number, a content a sequence of lines and newlines: the parser keeps the *)
(* newlines, the deltas it sends are lines without one.                    *)
(* Escape sequences and carriage returns are stripped from a line before   *)
(* it is looked at and left out, and so is the role, which no line makes   *)
(* anything but the assistant's.                                           *)
(***************************************************************************)
EXTENDS Naturals, FiniteSets, Sequences, Functions

CONSTANTS
  MaxLines,   \* bound on the lines fed
  MaxResets   \* bound on the calls of Reset

ASSUME ParserAssumption == MaxLines \in Nat /\ MaxResets \in Nat

\* What the parser tells apart: a header line of codex, its "user", "codex"
\* and "tokens used" lines, a line that mentions thinking, one that names a
\* tool, a blank line, and any other text.
LineClass == {"header", "user", "codex", "tokens", "thinking", "tool", "blank", "text"}

Lines == 1..MaxLines
MsgIds == 0..(MaxLines + 1)
Newline == 0
Content == Seq(Lines \cup {Newline})

\* A card of the page: a thinking block or a tool.
Card == [content : Content, done : BOOLEAN]
NoCard == [content |-> <<>>, done |-> TRUE]

-----------------------------------------------------------------------------
VARIABLES
  state,          \* "normal", "thinking" or "tool"
  currentLine,    \* class of the line being read, "none" between lines
  lines,          \* lines fed so far; the number of the current one
  msgID, blockID,
  msgContent, blockContent,
  sawCodexHeader, roleSet, nextLineEmpty,
  resets,         \* calls of Reset so far
  streams,        \* page: content per message id
  thinkings,      \* page: thinking block per block id
  tools,          \* page: tool card per block id
  texts,          \* history: lines of message text since the last Reset
  early,          \* history: those sent before a message had an id
  firstBlock      \* history: the first block id since the last Reset

flagVars == <<sawCodexHeader, roleSet, nextLineEmpty>>
pageVars == <<streams, thinkings, tools>>
vars == <<state, currentLine, lines, msgID, blockID, msgContent, blockContent, flagVars,
          resets, pageVars, texts, early, firstBlock>>

Init ==
  /\ state = "normal" /\ currentLine = "none" /\ lines = 0
  /\ msgID = 0 /\ blockID = 0
  /\ msgContent = <<>> /\ blockContent = <<>>
  /\ sawCodexHeader = FALSE /\ roleSet = FALSE /\ nextLineEmpty = FALSE
  /\ resets = 0
  /\ streams = [i \in MsgIds |-> <<>>]
  /\ thinkings = [b \in Lines |-> NoCard]
  /\ tools = [b \in Lines |-> NoCard]
  /\ texts = {} /\ early = {}
  /\ firstBlock = 1

-----------------------------------------------------------------------------
\* Events, and what the page's reducer makes of them.

MessageStart(i) == [type |-> "start", id |-> i, content |-> <<>>]
MessageDelta(i, c) == [type |-> "delta", id |-> i, content |-> c]
MessageDone(i, c) == [type |-> "done", id |-> i, content |-> c]

\* A start empties the stream, a delta is appended, and a done replaces the
\* stream unless it is empty.
Streamed(s, e) ==
  [s EXCEPT ![e.id] =
     CASE e.type = "start" -> <<>>
       [] e.type = "delta" -> @ \o e.content
       [] OTHER -> IF e.content = <<>> THEN @ ELSE e.content]

\* Cards: started with a first delta, extended by a delta, ended by a done
\* that replaces the content.
Started(cards, b, c) == [cards EXCEPT ![b] = [content |-> c, done |-> FALSE]]
Extended(cards, b, c) == [cards EXCEPT ![b].content = @ \o c]
Ended(cards, b, c) == [cards EXCEPT ![b] = [content |-> c, done |-> TRUE]]

-----------------------------------------------------------------------------
\* What a complete line does, by the parser's state.

\* The line as a delta carries it, and as a block keeps it.
This == <<lines>>
ThisLine == <<lines, Newline>>

\* The streams after flushMessage, and the id it settles on.
FlushedId == IF msgContent = <<>> THEN msgID ELSE IF msgID = 0 THEN 1 ELSE msgID
Flushed ==
  IF msgContent = <<>> /\ msgID = 0 THEN streams
  ELSE Streamed(streams, MessageDone(FlushedId, msgContent))

\* The streams after flushMessageContent, which starts the message anew before
\* it ends it.
FlushedContent ==
  IF msgContent = <<>> THEN streams
  ELSE Streamed(Streamed(streams, MessageStart(FlushedId)), MessageDone(FlushedId, msgContent))

\* Codex's header and its "user" marker with the blank lines after it say
\* nothing.
IsHeader == currentLine = "header" /\ ~sawCodexHeader
IsUserMark == currentLine = "user" /\ ~roleSet
IsSkippedBlank == currentLine = "blank" /\ nextLineEmpty
IsText == currentLine \in {"header", "user", "blank", "text"}

HeaderLine ==
  /\ IsHeader
  /\ UNCHANGED <<state, msgID, blockID, msgContent, blockContent, flagVars, pageVars, texts, early>>

UserMark ==
  /\ IsUserMark
  /\ sawCodexHeader' = TRUE /\ roleSet' = TRUE /\ nextLineEmpty' = TRUE
  /\ UNCHANGED <<state, msgID, blockID, msgContent, blockContent, pageVars, texts, early>>

SkippedBlank ==
  /\ IsSkippedBlank
  /\ sawCodexHeader' = TRUE
  /\ UNCHANGED <<state, msgID, blockID, msgContent, blockContent, roleSet, nextLineEmpty,
                 pageVars, texts, early>>

\* Any other line ends the header and the wait for the user's text.
Spoken ==
  /\ ~IsHeader /\ ~IsUserMark /\ ~IsSkippedBlank
  /\ sawCodexHeader' = TRUE /\ nextLineEmpty' = FALSE

\* Mutant: the user's text is not forgotten at the marker.
CodexMarkKeepsContent ==
  /\ currentLine = "codex" /\ Spoken
  /\ streams' = IF msgContent = <<>> THEN streams ELSE Flushed
  /\ msgID' = FlushedId + 1
  /\ roleSet' = TRUE
  /\ UNCHANGED <<state, blockID, msgContent, blockContent, thinkings, tools, texts, early>>

\* "codex": what was said so far is a message of its own.
CodexMark ==
  /\ currentLine = "codex" /\ Spoken
  /\ streams' = IF msgContent = <<>> THEN streams ELSE Flushed
  /\ msgID' = FlushedId + 1
  /\ msgContent' = <<>>
  /\ roleSet' = TRUE
  /\ UNCHANGED <<state, blockID, blockContent, thinkings, tools, texts, early>>

\* "tokens used": the message is ended, and goes on if more text follows.
TokensMark ==
  /\ currentLine = "tokens" /\ Spoken
  /\ streams' = Flushed
  /\ msgID' = FlushedId
  /\ UNCHANGED <<state, blockID, msgContent, blockContent, roleSet, thinkings, tools, texts, early>>

\* enterThinking
EnterThinking ==
  /\ currentLine = "thinking" /\ Spoken
  /\ streams' = FlushedContent
  /\ msgID' = FlushedId
  /\ state' = "thinking"
  /\ blockID' = blockID + 1
  /\ blockContent' = ThisLine
  /\ thinkings' = Started(thinkings, blockID + 1, This)
  /\ UNCHANGED <<msgContent, roleSet, tools, texts, early>>

\* Mutant: the block's content is not reset.
EnterToolKeepsContent ==
  /\ currentLine = "tool" /\ Spoken
  /\ state' = "tool"
  /\ blockID' = blockID + 1
  /\ blockContent' = blockContent \o ThisLine
  /\ tools' = Started(tools, blockID + 1, This)
  /\ UNCHANGED <<msgID, msgContent, roleSet, streams, thinkings, texts, early>>

\* Mutant: the block counts twice.
EnterToolTwice ==
  /\ currentLine = "tool" /\ Spoken
  /\ state' = "tool"
  /\ blockID' = blockID + 2
  /\ blockContent' = ThisLine
  /\ tools' = Started(tools, blockID + 2, This)
  /\ UNCHANGED <<msgID, msgContent, roleSet, streams, thinkings, texts, early>>

\* enterTool leaves the message open around the block.
EnterTool ==
  /\ currentLine = "tool" /\ Spoken
  /\ state' = "tool"
  /\ blockID' = blockID + 1
  /\ blockContent' = ThisLine
  /\ tools' = Started(tools, blockID + 1, This)
  /\ UNCHANGED <<msgID, msgContent, roleSet, streams, thinkings, texts, early>>

\* Text is accumulated, parted by newlines, and sent without them under the
\* id there is, 0 at first.
Parted == IF msgContent = <<>> THEN <<>> ELSE msgContent \o <<Newline>>

Text ==
  /\ IsText /\ Spoken
  /\ roleSet' = TRUE
  /\ LET said == IF currentLine = "blank" THEN <<>> ELSE This
     IN /\ msgContent' = Parted \o said
        /\ streams' = Streamed(streams, MessageDelta(msgID, said))
        /\ texts' = texts \cup Range(said)
        /\ early' = IF msgID = 0 THEN early \cup Range(said) ELSE early
  /\ UNCHANGED <<state, msgID, blockID, blockContent, thinkings, tools>>

NormalLine ==
  /\ state = "normal"
  /\ \/ HeaderLine \/ UserMark \/ SkippedBlank \/ CodexMark \/ TokensMark
     \/ EnterThinking \/ EnterTool \/ Text

\* processThinkingLine: whatever the line is, the block goes on.
ThinkingLine ==
  /\ state = "thinking"
  /\ IF currentLine = "blank" THEN UNCHANGED <<blockContent, thinkings>>
     ELSE /\ blockContent' = blockContent \o ThisLine
          /\ thinkings' = Extended(thinkings, blockID, This)
  /\ UNCHANGED <<state, msgID, blockID, msgContent, flagVars, streams, tools, texts, early>>

\* processToolLine: a blank line ends the block.
ToolLine ==
  /\ state = "tool"
  /\ IF currentLine = "blank"
     THEN /\ tools' = Ended(tools, blockID, blockContent)
          /\ state' = "normal"
          /\ UNCHANGED blockContent
     ELSE /\ blockContent' = blockContent \o ThisLine
          /\ tools' = Extended(tools, blockID, This)
          /\ UNCHANGED state
  /\ UNCHANGED <<msgID, blockID, msgContent, flagVars, streams, thinkings, texts, early>>

-----------------------------------------------------------------------------
\* Feed: bytes are collected until the line ends, over as many chunks as
\* they come in.
FeedBytes(class) ==
  /\ currentLine = "none" /\ lines < MaxLines
  /\ currentLine' = class
  /\ lines' = lines + 1
  /\ UNCHANGED <<state, msgID, blockID, msgContent, blockContent, flagVars, resets, pageVars,
                 texts, early, firstBlock>>

FeedNewline ==
  /\ currentLine # "none"
  /\ NormalLine \/ ThinkingLine \/ ToolLine
  /\ currentLine' = "none"
  /\ UNCHANGED <<lines, resets, firstBlock>>

\* Flush ends the message; the line being read and an open block stay as
\* they are.
Flush ==
  /\ streams' = Flushed
  /\ msgID' = FlushedId
  /\ UNCHANGED <<state, currentLine, lines, blockID, msgContent, blockContent, flagVars, resets,
                 thinkings, tools, texts, early, firstBlock>>

\* Reset drops the line being read and forgets an open block without ending
\* it; the ids go on, and so does the wait for the user's text.
Reset ==
  /\ resets < MaxResets
  /\ resets' = resets + 1
  /\ state' = "normal"
  /\ currentLine' = "none"
  /\ msgContent' = <<>> /\ blockContent' = <<>>
  /\ sawCodexHeader' = FALSE /\ roleSet' = FALSE
  /\ texts' = {} /\ early' = {}
  /\ firstBlock' = blockID + 1
  /\ UNCHANGED <<lines, msgID, blockID, nextLineEmpty, pageVars>>

Next ==
  \/ \E class \in LineClass : FeedBytes(class)
  \/ FeedNewline \/ Flush \/ Reset

Spec == Init /\ [][Next]_vars

-----------------------------------------------------------------------------
\* Every variable keeps its type, and ids never outrun the lines.
TypeOK ==
  /\ state \in {"normal", "thinking", "tool"}
  /\ currentLine \in LineClass \cup {"none"}
  /\ lines \in 0..MaxLines
  /\ msgID \in 0..(lines + 1)
  /\ blockID \in 0..lines
  /\ msgContent \in Content /\ blockContent \in Content
  /\ sawCodexHeader \in BOOLEAN /\ roleSet \in BOOLEAN /\ nextLineEmpty \in BOOLEAN
  /\ resets \in 0..MaxResets
  /\ streams \in [MsgIds -> Content]
  /\ thinkings \in [Lines -> Card]
  /\ tools \in [Lines -> Card]
  /\ texts \subseteq Lines /\ early \subseteq texts
  /\ firstBlock \in 1..(blockID + 1)

\* Places of the page's streams that hold line n.
Places(n) == UNION {{<<i, p>> : p \in {q \in DOMAIN streams[i] : streams[i][q] = n}} : i \in MsgIds}

\* Message text the parser has sent since the last Reset stays on the page,
\* once: a message_start that empties a stream and a message_done that
\* replaces it (parser.go:251-275, ChatView.tsx:36-50) put back all there was.
\* Text sent before its message had an id may be shown a second time.
ShownOnce ==
  \A n \in texts : Places(n) # {} /\ (n \notin early => Cardinality(Places(n)) = 1)

\* The lines that a block keeps, each with its newline, run together.
RunTogether(shown, kept) ==
  /\ Len(kept) = 2 * Len(shown)
  /\ \A k \in 1..Len(shown) : kept[2 * k - 1] = shown[k] /\ kept[2 * k] = Newline

\* Within a block exactly its card is open on the page, and outside no card
\* opened since the last Reset is.  The open card shows the block's lines, none
\* missing, none of another block, in their order, but run together: the
\* newlines are there only in the content that ends the block (parser.go:
\* 174-249, ChatView.tsx:52-85).
BlockMatches ==
  \A b \in Lines : b >= firstBlock =>
    /\ ~tools[b].done <=> state = "tool" /\ b = blockID
    /\ ~thinkings[b].done <=> state = "thinking" /\ b = blockID
    /\ ~tools[b].done => RunTogether(tools[b].content, blockContent)
    /\ ~thinkings[b].done => RunTogether(thinkings[b].content, blockContent)

=============================================================================
