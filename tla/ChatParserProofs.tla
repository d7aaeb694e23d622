-------------------------- MODULE ChatParserProofs --------------------------
(***************************************************************************)
(* Theorems about ChatParser, for any number of lines and resets: first    *)
(* about the blocks and the page's cards, then about the text of messages  *)
(* and the page's streams.                                                 *)
(***************************************************************************)
EXTENDS ChatParser, SequenceTheorems, FiniteSetTheorems, TLAPS

\* The types of what blocks depend on; while a line is read, no block has its
\* number yet.
BlockType ==
  /\ state \in {"normal", "thinking", "tool"}
  /\ currentLine \in LineClass \cup {"none"}
  /\ lines \in 0..MaxLines
  /\ blockID \in 0..lines
  /\ currentLine # "none" => blockID < lines
  /\ blockContent \in Content
  /\ thinkings \in [Lines -> Card]
  /\ tools \in [Lines -> Card]
  /\ firstBlock \in 1..(blockID + 1)
  /\ state # "normal" => firstBlock <= blockID

\* The invariant for one kind of card.
Matches(cards, kind) ==
  \A b \in Lines : b >= firstBlock =>
    /\ ~cards[b].done <=> state = kind /\ b = blockID
    /\ ~cards[b].done => RunTogether(cards[b].content, blockContent)

BlockInv == BlockType /\ Matches(tools, "tool") /\ Matches(thinkings, "thinking")

LEMMA BlocksMatch == BlockInv => BlockMatches
BY DEF BlockInv, Matches, BlockMatches

\* A card just started or ended is a card.
LEMMA CardFacts ==
  ASSUME NEW c \in Content, NEW d \in BOOLEAN
  PROVE  [content |-> c, done |-> d] \in Card
BY DEF Card

\* What extending a card does to the cards.
LEMMA ExtendFacts ==
  ASSUME NEW cards \in [Lines -> Card], NEW b \in Lines, NEW c \in Content
  PROVE  /\ Extended(cards, b, c) \in [Lines -> Card]
         /\ Extended(cards, b, c)[b].content = cards[b].content \o c
         /\ Extended(cards, b, c)[b].done = cards[b].done
         /\ \A d \in Lines : d # b => Extended(cards, b, c)[d] = cards[d]
<1>1. cards[b] \in Card
  OBVIOUS
<1>2. \A x \in Card : LET y == [x EXCEPT !.content = @ \o c]
                      IN y \in Card /\ y.content = x.content \o c /\ y.done = x.done
  <2> TAKE x \in Card
  <2>1. x.content \in Content
    BY DEF Card
  <2>2. x.content \o c \in Content
    BY <2>1, ConcatProperties DEF Content
  <2> QED
    BY <2>2 DEF Card
<1>3. Extended(cards, b, c) = [cards EXCEPT ![b] = [cards[b] EXCEPT !.content = @ \o c]]
  BY DEF Extended
<1> QED
  BY <1>1, <1>2, <1>3

\* A line in hand is a content of its own.
LEMMA LineFacts ==
  ASSUME BlockType, currentLine # "none"
  PROVE  /\ lines \in Lines /\ This \in Content /\ ThisLine \in Content /\ MaxLines \in Nat
         /\ blockID \in Nat /\ blockID + 1 \in Lines /\ blockID + 1 <= lines
         /\ blockContent \o ThisLine \in Content
         /\ state # "normal" => blockID \in Lines
<1>1. MaxLines \in Nat
  BY ParserAssumption
<1>2. lines \in Nat /\ blockID \in Nat /\ blockID < lines /\ lines <= MaxLines
  BY <1>1 DEF BlockType
<1>3. lines \in Lines /\ blockID + 1 \in Lines /\ blockID + 1 <= lines
  BY <1>1, <1>2 DEF Lines
<1>4. This \in Content /\ ThisLine \in Content
  BY <1>3 DEF This, ThisLine, Content
<1>5. blockContent \o ThisLine \in Content
  BY <1>4, ConcatProperties DEF BlockType, Content
<1>6. state # "normal" => blockID \in Lines
  BY <1>1, <1>2 DEF BlockType, Lines
<1> QED
  BY <1>1, <1>2, <1>3, <1>4, <1>5, <1>6

\* One line, shown and kept, and one more line in both.
LEMMA FirstLine ==
  ASSUME NEW l \in Lines
  PROVE  RunTogether(<<l>>, <<l, Newline>>)
<1>1. Len(<<l>>) = 1 /\ Len(<<l, Newline>>) = 2
  OBVIOUS
<1>2. \A k \in 1..1 : k = 1
  OBVIOUS
<1> QED
  BY <1>1, <1>2 DEF RunTogether

LEMMA NextLine ==
  ASSUME NEW shown \in Content, NEW kept \in Content, NEW l \in Lines, RunTogether(shown, kept)
  PROVE  RunTogether(shown \o <<l>>, kept \o <<l, Newline>>)
<1> DEFINE n == Len(shown)
<1>0. /\ shown \in Seq(Lines \cup {Newline}) /\ kept \in Seq(Lines \cup {Newline})
      /\ <<l>> \in Seq(Lines \cup {Newline}) /\ <<l, Newline>> \in Seq(Lines \cup {Newline})
  BY DEF Content
<1>1. n = Len(shown) /\ n \in Nat /\ Len(kept) = 2 * n
  BY <1>0, LenProperties DEF RunTogether
<1> HIDE DEF n
<1>2. /\ Len(<<l>>) = 1 /\ <<l>>[1] = l
      /\ Len(<<l, Newline>>) = 2 /\ <<l, Newline>>[1] = l /\ <<l, Newline>>[2] = Newline
  OBVIOUS
<1>3. /\ Len(shown \o <<l>>) = n + 1 /\ Len(kept \o <<l, Newline>>) = 2 * n + 2
      /\ \A i \in 1..(n + 1) : (shown \o <<l>>)[i] = IF i <= n THEN shown[i] ELSE <<l>>[i - n]
      /\ \A i \in 1..(2 * n + 2) :
           (kept \o <<l, Newline>>)[i] = IF i <= 2 * n THEN kept[i] ELSE <<l, Newline>>[i - 2 * n]
  <2>a. Len(shown \o <<l>>) = Len(shown) + Len(<<l>>)
    BY <1>0, ConcatProperties
  <2>b. Len(kept \o <<l, Newline>>) = Len(kept) + Len(<<l, Newline>>)
    BY <1>0, ConcatProperties
  <2>1. Len(shown \o <<l>>) = n + 1 /\ Len(kept \o <<l, Newline>>) = 2 * n + 2
    BY <1>1, <1>2, <2>a, <2>b
  <2>2. \A i \in 1..(n + 1) : (shown \o <<l>>)[i] = IF i <= n THEN shown[i] ELSE <<l>>[i - n]
    BY <1>0, <1>1, <1>2, ConcatProperties
  <2>3. \A i \in 1..(2 * n + 2) :
          (kept \o <<l, Newline>>)[i] = IF i <= 2 * n THEN kept[i] ELSE <<l, Newline>>[i - 2 * n]
    BY <1>0, <1>1, <1>2, ConcatProperties
  <2> QED
    BY <2>1, <2>2, <2>3
<1>4. ASSUME NEW k \in 1..(n + 1)
      PROVE  /\ (kept \o <<l, Newline>>)[2 * k - 1] = (shown \o <<l>>)[k]
             /\ (kept \o <<l, Newline>>)[2 * k] = Newline
  <2>1. k \in Nat /\ 2 * k - 1 \in 1..(2 * n + 2) /\ 2 * k \in 1..(2 * n + 2)
    BY <1>1
  <2>2. CASE k <= n
    <3>1. k \in 1..Len(shown) /\ 2 * k <= 2 * n /\ 2 * k - 1 <= 2 * n
      BY <1>1, <2>1, <2>2
    <3>2. kept[2 * k - 1] = shown[k] /\ kept[2 * k] = Newline
      BY <3>1 DEF RunTogether
    <3> QED
      BY <1>3, <2>1, <3>1, <3>2
  <2>3. CASE k = n + 1
    <3>1. /\ ~(k <= n) /\ ~(2 * k - 1 <= 2 * n) /\ ~(2 * k <= 2 * n)
          /\ k - n = 1 /\ (2 * k - 1) - 2 * n = 1 /\ 2 * k - 2 * n = 2
      BY <1>1, <2>3
    <3> QED
      BY <1>2, <1>3, <2>1, <3>1
  <2> QED
    BY <1>1, <2>2, <2>3
<1>5. Len(kept \o <<l, Newline>>) = 2 * Len(shown \o <<l>>)
  BY <1>1, <1>3
<1> QED
  BY <1>3, <1>4, <1>5 DEF RunTogether

-----------------------------------------------------------------------------
\* A line that leaves the blocks alone.
LEMMA SameBlocks ==
  ASSUME BlockInv, state' = state, blockID' = blockID, blockContent' = blockContent,
         thinkings' = thinkings, tools' = tools, firstBlock' = firstBlock,
         lines' \in 0..MaxLines, lines <= lines', currentLine' \in LineClass \cup {"none"},
         currentLine' # "none" => blockID < lines'
  PROVE  BlockInv'
<1>1. BlockType'
  BY ParserAssumption DEF BlockInv, BlockType
<1> QED
  BY <1>1 DEF BlockInv, Matches

\* A line that starts a block of either kind.
LEMMA EnterBlock ==
  ASSUME BlockInv, currentLine # "none", currentLine' = "none", lines' = lines, firstBlock' = firstBlock,
         state = "normal", blockID' = blockID + 1, blockContent' = ThisLine,
         \/ /\ state' = "tool" /\ tools' = Started(tools, blockID + 1, This) /\ thinkings' = thinkings
         \/ /\ state' = "thinking" /\ thinkings' = Started(thinkings, blockID + 1, This) /\ tools' = tools
  PROVE  BlockInv'
<1>1. /\ This \in Content /\ ThisLine \in Content /\ MaxLines \in Nat
      /\ blockID \in Nat /\ blockID + 1 \in Lines /\ blockID + 1 <= lines
      /\ tools \in [Lines -> Card] /\ thinkings \in [Lines -> Card]
      /\ firstBlock \in 1..(blockID + 1) /\ lines \in 0..MaxLines
  BY LineFacts DEF BlockInv, BlockType
<1>2. /\ \A b \in Lines : b >= firstBlock => tools[b].done /\ thinkings[b].done
      /\ \A b \in Lines : tools[b].done \in BOOLEAN /\ thinkings[b].done \in BOOLEAN
  BY <1>1 DEF BlockInv, Matches, Card
<1>n. PICK n \in Lines : n = blockID + 1
  BY <1>1
<1>t. RunTogether(This, ThisLine)
  BY LineFacts, FirstLine DEF BlockInv, This, ThisLine
<1>r. [content |-> This, done |-> FALSE] \in Card
  BY <1>1, CardFacts
<1>a. /\ Started(tools, n, This) \in [Lines -> Card]
      /\ Started(tools, n, This)[n].content = This
      /\ Started(tools, n, This)[n].done = FALSE
      /\ \A d \in Lines : d # n => Started(tools, n, This)[d] = tools[d]
  BY <1>1, <1>r DEF Started
<1>b. /\ Started(thinkings, n, This) \in [Lines -> Card]
      /\ Started(thinkings, n, This)[n].content = This
      /\ Started(thinkings, n, This)[n].done = FALSE
      /\ \A d \in Lines : d # n => Started(thinkings, n, This)[d] = thinkings[d]
  BY <1>1, <1>r DEF Started
<1>3. BlockType'
  <2>1. tools' \in [Lines -> Card] /\ thinkings' \in [Lines -> Card]
    BY <1>n, <1>1, <1>a, <1>b
  <2>2. blockID' \in 0..lines' /\ firstBlock' \in 1..(blockID' + 1) /\ firstBlock' <= blockID'
    BY <1>1
  <2>3. state' \in {"tool", "thinking"}
    OBVIOUS
  <2> QED
    BY <1>1, <2>1, <2>2, <2>3 DEF BlockType
<1>4. Matches(tools, "tool")'
  <2>1. CASE state' = "tool"
    <3>1. tools' = Started(tools, n, This)
      BY <1>n, <2>1
    <3> QED
      BY <1>1, <1>2, <1>n, <1>t, <1>a, <1>b, <2>1, <3>1 DEF Matches
  <2>2. CASE state' # "tool"
    BY <1>2, <2>2 DEF Matches
  <2> QED
    BY <2>1, <2>2
<1>5. Matches(thinkings, "thinking")'
  <2>1. CASE state' = "thinking"
    <3>1. thinkings' = Started(thinkings, n, This)
      BY <1>n, <2>1
    <3> QED
      BY <1>1, <1>2, <1>n, <1>t, <1>a, <1>b, <2>1, <3>1 DEF Matches
  <2>2. CASE state' # "thinking"
    BY <1>2, <2>2 DEF Matches
  <2> QED
    BY <2>1, <2>2
<1> QED
  BY <1>3, <1>4, <1>5 DEF BlockInv

\* A line that goes on with the block.
LEMMA ExtendBlock ==
  ASSUME BlockInv, currentLine # "none", currentLine' = "none", lines' = lines, firstBlock' = firstBlock,
         state' = state, blockID' = blockID, blockContent' = blockContent \o ThisLine,
         \/ state = "tool" /\ tools' = Extended(tools, blockID, This) /\ thinkings' = thinkings
         \/ state = "thinking" /\ thinkings' = Extended(thinkings, blockID, This) /\ tools' = tools
  PROVE  BlockInv'
<1>1. /\ This \in Content /\ blockContent \o ThisLine \in Content /\ blockID \in Lines
      /\ tools \in [Lines -> Card] /\ thinkings \in [Lines -> Card] /\ firstBlock <= blockID
      /\ \A b \in Lines : tools[b].done \in BOOLEAN /\ thinkings[b].done \in BOOLEAN
  BY LineFacts DEF BlockInv, BlockType, Card
<1>a. /\ Extended(tools, blockID, This) \in [Lines -> Card]
      /\ Extended(tools, blockID, This)[blockID].content = tools[blockID].content \o This
      /\ Extended(tools, blockID, This)[blockID].done = tools[blockID].done
      /\ \A d \in Lines : d # blockID => Extended(tools, blockID, This)[d] = tools[d]
  BY <1>1, ExtendFacts
<1>b. /\ Extended(thinkings, blockID, This) \in [Lines -> Card]
      /\ Extended(thinkings, blockID, This)[blockID].content = thinkings[blockID].content \o This
      /\ Extended(thinkings, blockID, This)[blockID].done = thinkings[blockID].done
      /\ \A d \in Lines : d # blockID => Extended(thinkings, blockID, This)[d] = thinkings[d]
  BY <1>1, ExtendFacts
<1>2. BlockType'
  <2>1. tools' \in [Lines -> Card] /\ thinkings' \in [Lines -> Card]
    BY <1>1, <1>a, <1>b
  <2> QED
    BY <1>1, <2>1 DEF BlockInv, BlockType
<1>3. Matches(tools, "tool")'
  <2>1. CASE state = "tool"
    <3>1. tools' = Extended(tools, blockID, This)
      BY <2>1
    <3>2. RunTogether(tools[blockID].content, blockContent) /\ ~tools[blockID].done
      BY <1>1, <2>1 DEF BlockInv, Matches
    <3>3. tools[blockID].content \in Content /\ blockContent \in Content /\ lines \in Lines
      BY <1>1, LineFacts DEF BlockInv, BlockType, Card
    <3>4. RunTogether(tools[blockID].content \o This, blockContent \o ThisLine)
      BY <3>2, <3>3, NextLine DEF This, ThisLine
    <3> QED
      BY <1>1, <1>a, <1>b, <2>1, <3>1, <3>4 DEF BlockInv, Matches
  <2>2. CASE state # "tool"
    BY <1>1, <2>2 DEF BlockInv, Matches
  <2> QED
    BY <2>1, <2>2
<1>4. Matches(thinkings, "thinking")'
  <2>1. CASE state = "thinking"
    <3>1. thinkings' = Extended(thinkings, blockID, This)
      BY <2>1
    <3>2. RunTogether(thinkings[blockID].content, blockContent) /\ ~thinkings[blockID].done
      BY <1>1, <2>1 DEF BlockInv, Matches
    <3>3. thinkings[blockID].content \in Content /\ blockContent \in Content /\ lines \in Lines
      BY <1>1, LineFacts DEF BlockInv, BlockType, Card
    <3>4. RunTogether(thinkings[blockID].content \o This, blockContent \o ThisLine)
      BY <3>2, <3>3, NextLine DEF This, ThisLine
    <3> QED
      BY <1>1, <1>a, <1>b, <2>1, <3>1, <3>4 DEF BlockInv, Matches
  <2>2. CASE state # "thinking"
    BY <1>1, <2>2 DEF BlockInv, Matches
  <2> QED
    BY <2>1, <2>2
<1> QED
  BY <1>2, <1>3, <1>4 DEF BlockInv

\* The blank line that ends a tool's block.
LEMMA LeaveBlock ==
  ASSUME BlockInv, currentLine # "none", currentLine' = "none", lines' = lines, firstBlock' = firstBlock,
         state = "tool", state' = "normal", blockID' = blockID, blockContent' = blockContent,
         tools' = Ended(tools, blockID, blockContent), thinkings' = thinkings
  PROVE  BlockInv'
<1>1. /\ blockContent \in Content /\ blockID \in Lines
      /\ tools \in [Lines -> Card] /\ thinkings \in [Lines -> Card]
      /\ \A b \in Lines : tools[b].done \in BOOLEAN /\ thinkings[b].done \in BOOLEAN
  BY LineFacts DEF BlockInv, BlockType, Card
<1>r. [content |-> blockContent, done |-> TRUE] \in Card
  BY <1>1, CardFacts
<1>2. /\ tools' \in [Lines -> Card] /\ tools'[blockID].done = TRUE
      /\ \A d \in Lines : d # blockID => tools'[d] = tools[d]
  BY <1>1, <1>r DEF Ended
<1>3. BlockType'
  BY <1>1, <1>2 DEF BlockInv, BlockType
<1> QED
  BY <1>1, <1>2, <1>3 DEF BlockInv, Matches

-----------------------------------------------------------------------------
LEMMA BlockInit == Init => BlockInv
<1> SUFFICES ASSUME Init PROVE BlockInv
  OBVIOUS
<1>1. NoCard \in Card /\ <<>> \in Content /\ NoCard.done = TRUE
  BY DEF NoCard, Card, Content
<1>2. /\ thinkings = [b \in Lines |-> NoCard] /\ tools = [b \in Lines |-> NoCard]
      /\ state = "normal" /\ currentLine = "none" /\ lines = 0 /\ blockID = 0
      /\ blockContent = <<>> /\ firstBlock = 1
  BY DEF Init
<1>3. BlockType
  BY <1>1, <1>2, ParserAssumption DEF BlockType
<1> QED
  BY <1>1, <1>2, <1>3 DEF BlockInv, Matches

LEMMA BlockStep == BlockInv /\ [Next]_vars => BlockInv'
<1> SUFFICES ASSUME BlockInv, [Next]_vars PROVE BlockInv'
  OBVIOUS
<1>0. lines \in 0..MaxLines /\ lines \in Nat /\ MaxLines \in Nat /\ blockID \in Nat /\ blockID <= lines
      /\ (currentLine # "none" => blockID < lines)
  BY ParserAssumption DEF BlockInv, BlockType
<1>1. ASSUME NEW class \in LineClass, FeedBytes(class) PROVE BlockInv'
  BY <1>0, <1>1, SameBlocks DEF FeedBytes, pageVars
<1>2. CASE FeedNewline
  <2>0. currentLine # "none" /\ currentLine' = "none" /\ lines' = lines /\ firstBlock' = firstBlock
    BY <1>2 DEF FeedNewline
  <2>1. CASE EnterThinking /\ state = "normal"
    BY <2>0, <2>1, EnterBlock DEF EnterThinking
  <2>2. CASE EnterTool /\ state = "normal"
    BY <2>0, <2>2, EnterBlock DEF EnterTool
  <2>3. CASE NormalLine
    BY <1>0, <2>0, <2>1, <2>2, <2>3, SameBlocks
       DEF NormalLine, HeaderLine, UserMark, SkippedBlank, CodexMark, TokensMark, Text, pageVars
  <2>4. CASE ThinkingLine
    BY <1>0, <2>0, <2>4, SameBlocks, ExtendBlock DEF ThinkingLine
  <2>5. CASE ToolLine
    <3>1. CASE currentLine = "blank"
      BY <2>0, <2>5, <3>1, LeaveBlock DEF ToolLine
    <3>2. CASE currentLine # "blank"
      BY <2>0, <2>5, <3>2, ExtendBlock DEF ToolLine
    <3> QED
      BY <3>1, <3>2
  <2> QED
    BY <1>2, <2>3, <2>4, <2>5 DEF FeedNewline
<1>3. CASE Flush
  BY <1>0, <1>3, SameBlocks DEF Flush, BlockInv, BlockType
<1>4. CASE Reset
  <2>1. /\ state' = "normal" /\ currentLine' = "none" /\ blockContent' = <<>> /\ lines' = lines
        /\ blockID' = blockID /\ firstBlock' = blockID + 1 /\ tools' = tools /\ thinkings' = thinkings
    BY <1>4 DEF Reset, pageVars
  <2>2. /\ tools \in [Lines -> Card] /\ thinkings \in [Lines -> Card] /\ firstBlock \in 1..(blockID + 1)
        /\ \A b \in Lines : tools[b].done \in BOOLEAN /\ thinkings[b].done \in BOOLEAN
        /\ Lines \subseteq Nat
    BY DEF BlockInv, BlockType, Card, Lines
  <2>3. BlockType'
    BY <1>0, <2>1, <2>2 DEF BlockType, Content
  <2>4. \A b \in Lines : b >= blockID + 1 => b >= firstBlock /\ b # blockID
    BY <1>0, <2>2
  <2> QED
    BY <2>1, <2>2, <2>3, <2>4 DEF BlockInv, Matches
<1>5. CASE UNCHANGED vars
  BY <1>0, <1>5, SameBlocks DEF vars, pageVars, BlockInv, BlockType
<1> QED
  BY <1>1, <1>2, <1>3, <1>4, <1>5 DEF Next

\* However lines, chunks, flushes and resets come, exactly the block the parser
\* is in is open on the page, and shows the lines the parser has kept of it, all
\* of them and in their order, without the newlines between them (parser.go:
\* 174-249, ChatView.tsx:52-85).
THEOREM CardsMatchBlocks == Spec => []BlockMatches
BY BlockInit, BlockStep, BlocksMatch, PTL DEF Spec

-----------------------------------------------------------------------------
\* The text of messages.

\* The types of what streams depend on; while a line is read, no message id has
\* reached its number.
MessageType ==
  /\ msgID \in 0..(lines + 1)
  /\ currentLine # "none" => msgID <= lines
  /\ msgContent \in Content
  /\ sawCodexHeader \in BOOLEAN /\ roleSet \in BOOLEAN /\ nextLineEmpty \in BOOLEAN
  /\ resets \in 0..MaxResets
  /\ streams \in [MsgIds -> Content]
  /\ texts \subseteq Lines /\ early \subseteq texts

TypeInv == BlockInv /\ MessageType

LEMMA TypesFit == TypeInv => TypeOK
BY DEF TypeInv, BlockInv, BlockType, MessageType, TypeOK

\* Ids and bounds are numbers, and an id always has a stream.
LEMMA IdFacts ==
  ASSUME TypeInv
  PROVE  /\ MaxLines \in Nat /\ lines \in Nat /\ lines <= MaxLines /\ msgID \in Nat /\ msgID \in MsgIds
         /\ 0 \in MsgIds /\ 1 \in MsgIds /\ MsgIds \subseteq Nat /\ Lines \subseteq Nat
         /\ currentLine # "none" => lines \in Lines /\ msgID + 1 \in MsgIds /\ 2 \in MsgIds /\ 1 <= lines
<1>1. MaxLines \in Nat /\ lines \in 0..MaxLines /\ lines \in Nat
  BY ParserAssumption DEF TypeInv, BlockInv, BlockType
<1>2. msgID \in 0..(lines + 1) /\ (currentLine # "none" => msgID <= lines)
  BY DEF TypeInv, MessageType
<1>3. currentLine # "none" => 1 <= lines
  BY <1>1 DEF TypeInv, BlockInv, BlockType
<1> QED
  BY <1>1, <1>2, <1>3 DEF MsgIds, Lines

\* Both flushes come to the same: what was said replaces the message's stream.
LEMMA FlushFacts ==
  ASSUME TypeInv
  PROVE  /\ FlushedId \in MsgIds /\ FlushedId \in Nat
         /\ FlushedId = msgID \/ (msgID = 0 /\ FlushedId = 1)
         /\ msgContent # <<>> => FlushedId >= 1
         /\ msgContent = <<>> => FlushedId = msgID /\ Flushed = streams
         /\ msgContent # <<>> => Flushed = [streams EXCEPT ![FlushedId] = msgContent]
         /\ FlushedContent = Flushed
<1>1. FlushedId \in MsgIds /\ FlushedId \in Nat
  BY IdFacts DEF FlushedId
<1>2. msgContent # <<>> => FlushedId >= 1
  BY IdFacts DEF FlushedId
<1>3. FlushedId = msgID \/ (msgID = 0 /\ FlushedId = 1)
  BY DEF FlushedId
<1>4. /\ msgContent = <<>> => FlushedId = msgID
      /\ streams \in [MsgIds -> Content]
  BY DEF FlushedId, TypeInv, MessageType
<1>5. \A s \in [MsgIds -> Content], i \in MsgIds, c \in Content :
        Streamed(s, MessageDone(i, c)) = IF c = <<>> THEN s ELSE [s EXCEPT ![i] = c]
  BY DEF Streamed, MessageDone
<1>6. \A s \in [MsgIds -> Content], i \in MsgIds :
        Streamed(s, MessageStart(i)) = [s EXCEPT ![i] = <<>>]
  BY DEF Streamed, MessageStart
<1>7. msgContent \in Content /\ <<>> \in Content
  BY DEF TypeInv, MessageType, Content
<1>8. msgContent = <<>> => Flushed = streams
  BY <1>1, <1>4, <1>5, <1>7 DEF Flushed
<1>9. msgContent # <<>> => Flushed = [streams EXCEPT ![FlushedId] = msgContent]
  BY <1>1, <1>4, <1>5, <1>7 DEF Flushed
<1>10. FlushedContent = Flushed
  <2>1. CASE msgContent = <<>>
    BY <1>8, <2>1 DEF FlushedContent
  <2>2. CASE msgContent # <<>>
    <3>1. [streams EXCEPT ![FlushedId] = <<>>] \in [MsgIds -> Content]
      BY <1>1, <1>4, <1>7
    <3>a. Streamed(streams, MessageStart(FlushedId)) = [streams EXCEPT ![FlushedId] = <<>>]
      BY <1>1, <1>4, <1>6
    <3>b. FlushedContent = Streamed([streams EXCEPT ![FlushedId] = <<>>], MessageDone(FlushedId, msgContent))
      BY <2>2, <3>a DEF FlushedContent
    <3>2. FlushedContent = [[streams EXCEPT ![FlushedId] = <<>>] EXCEPT ![FlushedId] = msgContent]
      BY <1>1, <1>5, <1>7, <2>2, <3>1, <3>b
    <3>3. [[streams EXCEPT ![FlushedId] = <<>>] EXCEPT ![FlushedId] = msgContent]
             = [streams EXCEPT ![FlushedId] = msgContent]
      BY <1>1, <1>4
    <3> QED
      BY <1>9, <2>2, <3>2, <3>3
  <2> QED
    BY <2>1, <2>2
<1> QED
  BY <1>1, <1>2, <1>3, <1>4, <1>8, <1>9, <1>10

\* A text holds line n; the line has been read.
Has(s, n) == \E p \in DOMAIN s : s[p] = n
Read(n) == n <= lines /\ (currentLine # "none" => n < lines)

\* With streams s and message id m no stream holds a line that is still to be
\* read; text that had no id when it was sent is in stream 0, and other text at
\* exactly one place.
Shown(s, m) ==
  /\ \A i \in MsgIds : \A n \in Lines : Has(s[i], n) => Read(n)
  /\ m = 0 => texts \subseteq early
  /\ \A n \in early : Has(s[0], n)
  /\ \A n \in texts \ early : \E i \in MsgIds : i <= m /\ Has(s[i], n)
  /\ \A n \in texts \ early : \A i, j \in MsgIds : \A p \in DOMAIN s[i], q \in DOMAIN s[j] :
       s[i][p] = n /\ s[j][q] = n => i = j /\ p = q

\* The text a message's stream holds is what the parser has collected; after a
\* reset older text may stand before it.
StreamsInv ==
  /\ Shown(streams, msgID)
  /\ \A n \in texts : Read(n)
  /\ \A n \in Lines : Has(msgContent, n) => n \in texts
  /\ \A p, q \in DOMAIN msgContent : msgContent[p] \in Lines /\ msgContent[p] = msgContent[q] => p = q
  /\ \A n \in texts \ early : Has(streams[msgID], n) <=> Has(msgContent, n)

LEMMA TextShownOnce == TypeInv /\ StreamsInv => ShownOnce
<1> SUFFICES ASSUME TypeInv, StreamsInv, NEW n \in texts
             PROVE  Places(n) # {} /\ (n \notin early => Cardinality(Places(n)) = 1)
  BY DEF ShownOnce
<1>1. \A i \in MsgIds : \A p \in DOMAIN streams[i] : streams[i][p] = n => <<i, p>> \in Places(n)
  BY DEF Places
<1>2. \A z \in Places(n) : \E i \in MsgIds : \E p \in DOMAIN streams[i] : z = <<i, p>> /\ streams[i][p] = n
  BY DEF Places
<1>3. CASE n \in early
  <2>1. PICK p \in DOMAIN streams[0] : streams[0][p] = n
    BY <1>3 DEF StreamsInv, Shown, Has
  <2> QED
    BY <1>1, <1>3, <2>1, IdFacts
<1>4. CASE n \notin early
  <2>1. PICK i \in MsgIds : Has(streams[i], n)
    BY <1>4 DEF StreamsInv, Shown
  <2>2. PICK p \in DOMAIN streams[i] : streams[i][p] = n
    BY <2>1 DEF Has
  <2>3. \A j \in MsgIds : \A q \in DOMAIN streams[j] : streams[j][q] = n => j = i /\ q = p
    BY <1>4, <2>2 DEF StreamsInv, Shown
  <2>4. Places(n) = {<<i, p>>}
    BY <1>1, <1>2, <2>2, <2>3
  <2> QED
    BY <2>4, FS_Singleton
<1> QED
  BY <1>3, <1>4

\* Flushing loses no text and shows none twice.
LEMMA FlushKeepsText ==
  ASSUME TypeInv, StreamsInv
  PROVE  /\ Shown(Flushed, FlushedId)
         /\ \A n \in texts \ early : Has(Flushed[FlushedId], n) <=> Has(msgContent, n)
<1>1. CASE msgContent = <<>>
  BY <1>1, FlushFacts DEF StreamsInv
<1>2. CASE msgContent # <<>>
  <2> DEFINE m == FlushedId
  <2>1. /\ m \in MsgIds /\ m \in Nat /\ m >= 1 /\ 0 \in MsgIds
        /\ Flushed[m] = msgContent
        /\ \A i \in MsgIds : i # m => Flushed[i] = streams[i]
        /\ m = msgID \/ (msgID = 0 /\ m = 1)
    BY <1>2, FlushFacts, IdFacts DEF TypeInv, MessageType
  <2>2. /\ \A i \in MsgIds : \A n \in Lines : Has(streams[i], n) => Read(n)
        /\ \A n \in early : Has(streams[0], n)
        /\ \A n \in texts \ early : \E i \in MsgIds : i <= msgID /\ Has(streams[i], n)
        /\ \A n \in texts \ early : \A i, j \in MsgIds : \A p \in DOMAIN streams[i], q \in DOMAIN streams[j] :
             streams[i][p] = n /\ streams[j][q] = n => i = j /\ p = q
        /\ msgID = 0 => texts \subseteq early
    BY DEF StreamsInv, Shown
  <2>3. /\ \A n \in texts : Read(n)
        /\ \A n \in Lines : Has(msgContent, n) => n \in texts
        /\ \A p, q \in DOMAIN msgContent : msgContent[p] \in Lines /\ msgContent[p] = msgContent[q] => p = q
        /\ \A n \in texts \ early : Has(streams[msgID], n) <=> Has(msgContent, n)
        /\ texts \subseteq Lines
    BY DEF StreamsInv, TypeInv, MessageType
  <2> HIDE DEF m
  <2>4. \A i \in MsgIds : \A n \in Lines : Has(Flushed[i], n) => Read(n)
    BY <2>1, <2>2, <2>3
  <2>5. \A n \in early : Has(Flushed[0], n)
    BY <2>1, <2>2
  <2>6. ASSUME NEW n \in texts \ early
        PROVE  /\ m = msgID
               /\ \E i \in MsgIds : i <= m /\ Has(Flushed[i], n)
               /\ \A i, j \in MsgIds : \A p \in DOMAIN Flushed[i], q \in DOMAIN Flushed[j] :
                    Flushed[i][p] = n /\ Flushed[j][q] = n => i = j /\ p = q
    <3>1. m = msgID
      BY <2>1, <2>2
    <3>2. PICK k \in MsgIds : k <= m /\ Has(streams[k], n)
      BY <2>2, <3>1
    <3>3. Has(Flushed[k], n)
      BY <2>1, <2>3, <3>1, <3>2
    <3>4. ASSUME NEW j \in MsgIds, j # m, NEW q \in DOMAIN streams[j], streams[j][q] = n
          PROVE  ~Has(msgContent, n)
      BY <2>1, <2>2, <2>3, <3>1, <3>4 DEF Has
    <3>5. ASSUME NEW i \in MsgIds, NEW j \in MsgIds, NEW p \in DOMAIN Flushed[i], NEW q \in DOMAIN Flushed[j],
                 Flushed[i][p] = n, Flushed[j][q] = n
          PROVE  i = j /\ p = q
      <4>1. CASE i = m /\ j = m
        <5>1. p \in DOMAIN msgContent /\ q \in DOMAIN msgContent /\ msgContent[p] = n /\ msgContent[q] = n
          BY <2>1, <3>5, <4>1
        <5> QED
          BY <2>3, <4>1, <5>1
      <4>2. CASE i = m /\ j # m
        BY <2>1, <3>4, <3>5, <4>2 DEF Has
      <4>3. CASE i # m /\ j = m
        BY <2>1, <3>4, <3>5, <4>3 DEF Has
      <4>4. CASE i # m /\ j # m
        <5>1. /\ p \in DOMAIN streams[i] /\ q \in DOMAIN streams[j]
              /\ streams[i][p] = n /\ streams[j][q] = n
          BY <2>1, <3>5, <4>4
        <5> QED
          BY <2>2, <5>1
      <4> QED
        BY <4>1, <4>2, <4>3, <4>4
    <3> QED
      BY <3>1, <3>2, <3>3, <3>5
  <2>7. m # 0
    BY <2>1
  <2>8. Shown(Flushed, m)
    BY <2>4, <2>5, <2>6, <2>7 DEF Shown
  <2> QED
    BY <2>1, <2>8 DEF m
<1> QED
  BY <1>1, <1>2

\* A text with one more line or newline.
LEMMA LineAppended ==
  ASSUME NEW s \in Content, NEW e \in Lines \cup {Newline}
  PROVE  /\ s \o <<e>> \in Content
         /\ Len(s) \in Nat /\ DOMAIN s = 1..Len(s)
         /\ DOMAIN (s \o <<e>>) = 1..(Len(s) + 1)
         /\ \A p \in DOMAIN s : (s \o <<e>>)[p] = s[p]
         /\ (s \o <<e>>)[Len(s) + 1] = e
         /\ \A n : Has(s \o <<e>>, n) <=> Has(s, n) \/ n = e
<1>1. s \in Seq(Lines \cup {Newline}) /\ <<e>> \in Seq(Lines \cup {Newline})
  BY DEF Content
<1>2. Len(<<e>>) = 1 /\ <<e>>[1] = e
  OBVIOUS
<1>3. Len(s) \in Nat /\ DOMAIN s = 1..Len(s)
  BY <1>1, LenProperties
<1>4. s \o <<e>> \in Seq(Lines \cup {Newline}) /\ Len(s \o <<e>>) = Len(s) + 1
  BY <1>1, <1>2, ConcatProperties
<1>5. DOMAIN (s \o <<e>>) = 1..(Len(s) + 1)
  BY <1>4, LenProperties
<1>6. \A p \in DOMAIN s : (s \o <<e>>)[p] = s[p]
  BY <1>1, <1>2, <1>3, ConcatProperties
<1>7. (s \o <<e>>)[Len(s) + 1] = e
  BY <1>1, <1>2, <1>3, ConcatProperties
<1>8. \A p \in DOMAIN (s \o <<e>>) : p \in DOMAIN s \/ p = Len(s) + 1
  BY <1>3, <1>5
<1>9. DOMAIN s \subseteq DOMAIN (s \o <<e>>) /\ Len(s) + 1 \in DOMAIN (s \o <<e>>)
  BY <1>3, <1>5
<1>10. \A n : Has(s \o <<e>>, n) <=> Has(s, n) \/ n = e
  BY <1>6, <1>7, <1>8, <1>9 DEF Has
<1> QED
  BY <1>3, <1>4, <1>5, <1>6, <1>7, <1>10 DEF Content

\* The newline that parts a message says nothing.
LEMMA PartedFacts ==
  ASSUME TypeInv, StreamsInv
  PROVE  /\ Parted \in Content
         /\ \A n \in Lines : Has(Parted, n) <=> Has(msgContent, n)
         /\ \A p, q \in DOMAIN Parted : Parted[p] \in Lines /\ Parted[p] = Parted[q] => p = q
<1>1. /\ msgContent \in Content /\ Newline \in Lines \cup {Newline} /\ Newline \notin Lines
      /\ \A p, q \in DOMAIN msgContent : msgContent[p] \in Lines /\ msgContent[p] = msgContent[q] => p = q
  BY IdFacts DEF TypeInv, MessageType, StreamsInv, Newline, Lines
<1>2. CASE msgContent = <<>>
  <2>1. Parted = msgContent
    BY <1>2 DEF Parted
  <2> QED
    BY <1>1, <2>1
<1>3. CASE msgContent # <<>>
  <2>1. Parted = msgContent \o <<Newline>>
    BY <1>3 DEF Parted
  <2>2. /\ Parted \in Content /\ Len(msgContent) \in Nat
        /\ DOMAIN msgContent = 1..Len(msgContent) /\ DOMAIN Parted = 1..(Len(msgContent) + 1)
        /\ \A p \in DOMAIN msgContent : Parted[p] = msgContent[p]
        /\ Parted[Len(msgContent) + 1] = Newline
        /\ \A n : Has(Parted, n) <=> Has(msgContent, n) \/ n = Newline
    <3> DEFINE parted == msgContent \o <<Newline>>
    <3>1. /\ parted \in Content /\ Len(msgContent) \in Nat
          /\ DOMAIN msgContent = 1..Len(msgContent) /\ DOMAIN parted = 1..(Len(msgContent) + 1)
          /\ \A p \in DOMAIN msgContent : parted[p] = msgContent[p]
          /\ parted[Len(msgContent) + 1] = Newline
          /\ \A n : Has(parted, n) <=> Has(msgContent, n) \/ n = Newline
      BY <1>1, LineAppended
    <3> HIDE DEF parted
    <3>2. Parted = parted
      BY <2>1 DEF parted
    <3> QED
      BY <3>1, <3>2
  <2>3. \A p \in DOMAIN Parted : Parted[p] \in Lines => p \in DOMAIN msgContent /\ Parted[p] = msgContent[p]
    BY <1>1, <2>2
  <2> QED
    BY <1>1, <2>2, <2>3
<1> QED
  BY <1>2, <1>3

\* A step that leaves the messages alone.
LEMMA SameText ==
  ASSUME TypeInv, StreamsInv, \A n \in Lines : Read(n) => Read(n)',
         streams' = streams, msgID' = msgID, msgContent' = msgContent, texts' = texts, early' = early
  PROVE  StreamsInv'
<1>1. texts \subseteq Lines
  BY DEF TypeInv, MessageType
<1>2. Shown(streams, msgID)'
  BY <1>1 DEF StreamsInv, Shown
<1>3. \A n \in texts' : Read(n)'
  BY <1>1 DEF StreamsInv
<1> QED
  BY <1>2, <1>3 DEF StreamsInv

\* A step that parts the message.
LEMMA PartStep ==
  ASSUME TypeInv, StreamsInv, \A n \in Lines : Read(n) => Read(n)',
         streams' = streams, msgID' = msgID, msgContent' = Parted, texts' = texts, early' = early
  PROVE  StreamsInv'
<1>1. texts \subseteq Lines
  BY DEF TypeInv, MessageType
<1>2. Shown(streams, msgID)'
  BY <1>1 DEF StreamsInv, Shown
<1>3. \A n \in texts' : Read(n)'
  BY <1>1 DEF StreamsInv
<1>4. \A n \in Lines : Has(msgContent, n)' <=> Has(msgContent, n)
  BY PartedFacts DEF Has
<1>5. (\A n \in Lines : Has(msgContent, n) => n \in texts)'
  BY <1>4 DEF StreamsInv
<1>6. (\A n \in texts \ early : Has(streams[msgID], n) <=> Has(msgContent, n))'
  <2>1. \A n : Has(streams[msgID], n)' <=> Has(streams[msgID], n)
    BY DEF Has
  <2> QED
    BY <1>1, <1>4, <2>1 DEF StreamsInv
<1>7. (\A p, q \in DOMAIN msgContent : msgContent[p] \in Lines /\ msgContent[p] = msgContent[q] => p = q)'
  <2>1. Lines' = Lines
    BY DEF Lines
  <2> QED
    BY <2>1, PartedFacts
<1> QED
  BY <1>2, <1>3, <1>5, <1>6, <1>7 DEF StreamsInv

\* A step that ends the message and goes on with it.
LEMMA FlushStep ==
  ASSUME TypeInv, StreamsInv, \A n \in Lines : Read(n) => Read(n)',
         streams' = Flushed, msgID' = FlushedId, msgContent' = msgContent, texts' = texts, early' = early
  PROVE  StreamsInv'
<1>1. texts \subseteq Lines
  BY DEF TypeInv, MessageType
<1>2. Shown(streams, msgID)'
  BY <1>1, FlushKeepsText DEF Shown
<1>3. \A n \in texts' : Read(n)'
  BY <1>1 DEF StreamsInv
<1>4. \A n \in texts' \ early' : Has(streams[msgID], n)' <=> Has(msgContent, n)'
  BY FlushKeepsText DEF Has
<1> QED
  BY <1>2, <1>3, <1>4 DEF StreamsInv

\* A step that ends the message and begins the next one.
LEMMA NextMessage ==
  ASSUME TypeInv, StreamsInv, \A n \in Lines : Read(n) => Read(n)', FlushedId + 1 \in MsgIds,
         streams' = Flushed, msgID' = FlushedId + 1, msgContent' = <<>>, texts' = texts, early' = early
  PROVE  StreamsInv'
<1>1. texts \subseteq Lines /\ FlushedId \in Nat /\ MsgIds \subseteq Nat
  BY FlushFacts, IdFacts DEF TypeInv, MessageType
<1>2. Shown(Flushed, FlushedId)
  BY FlushKeepsText
<1>3. \A n \in texts \ early : ~Has(Flushed[FlushedId + 1], n)
  <2> SUFFICES ASSUME NEW n \in texts \ early, Has(Flushed[FlushedId + 1], n) PROVE FALSE
    OBVIOUS
  <2>1. PICK i \in MsgIds : i <= FlushedId /\ Has(Flushed[i], n)
    BY <1>2 DEF Shown
  <2>2. i = FlushedId + 1
    BY <1>2, <2>1 DEF Shown, Has
  <2> QED
    BY <1>1, <2>1, <2>2
<1>4. Shown(streams, msgID)'
  <2>1. \A i \in MsgIds : i <= FlushedId => i <= FlushedId + 1
    BY <1>1
  <2>2. FlushedId + 1 # 0
    BY <1>1
  <2> QED
    BY <1>1, <1>2, <2>1, <2>2 DEF Shown
<1>5. \A n \in texts' : Read(n)'
  BY <1>1 DEF StreamsInv
<1>6. \A n : ~Has(msgContent, n)'
  BY DEF Has
<1>7. \A n \in texts' \ early' : ~Has(streams[msgID], n)'
  BY <1>3 DEF Has
<1> QED
  BY <1>4, <1>5, <1>6, <1>7 DEF StreamsInv, Has

\* Text goes to the message collected and to its stream.
LEMMA TextStep ==
  ASSUME TypeInv, StreamsInv, currentLine # "none", currentLine' = "none", lines' = lines, msgID' = msgID,
         msgContent' = Parted \o <<lines>>, streams' = [streams EXCEPT ![msgID] = @ \o <<lines>>],
         texts' = texts \cup {lines}, early' = IF msgID = 0 THEN early \cup {lines} ELSE early
  PROVE  StreamsInv'
<1> DEFINE old == streams[msgID]
           new == streams[msgID] \o <<lines>>
           said == Parted \o <<lines>>
<1>1. /\ msgID \in MsgIds /\ 0 \in MsgIds /\ lines \in Lines /\ Lines \subseteq Nat /\ MsgIds \subseteq Nat
      /\ texts \subseteq Lines /\ early \subseteq texts
      /\ old \in Content /\ Parted \in Content /\ streams \in [MsgIds -> Content]
  BY IdFacts, PartedFacts DEF TypeInv, MessageType
<1>2. /\ streams'[msgID] = new
      /\ \A i \in MsgIds : i # msgID => streams'[i] = streams[i]
  BY <1>1
<1>3. /\ DOMAIN old = 1..Len(old) /\ DOMAIN new = 1..(Len(old) + 1) /\ Len(old) \in Nat
      /\ \A p \in DOMAIN old : new[p] = old[p]
      /\ new[Len(old) + 1] = lines
      /\ \A n : Has(new, n) <=> Has(old, n) \/ n = lines
  BY <1>1, LineAppended
<1>c. /\ DOMAIN Parted = 1..Len(Parted) /\ DOMAIN said = 1..(Len(Parted) + 1)
      /\ Len(Parted) \in Nat
      /\ \A p \in DOMAIN Parted : said[p] = Parted[p]
      /\ said[Len(Parted) + 1] = lines
      /\ \A n : Has(said, n) <=> Has(Parted, n) \/ n = lines
  <2>1. Parted \in Content /\ lines \in Lines \cup {Newline}
    BY <1>1
  <2> QED
    BY <2>1, LineAppended
<1> HIDE DEF said
<1>4. /\ DOMAIN Parted = 1..Len(Parted) /\ DOMAIN msgContent' = 1..(Len(Parted) + 1)
      /\ Len(Parted) \in Nat
      /\ \A p \in DOMAIN Parted : msgContent'[p] = Parted[p]
      /\ msgContent'[Len(Parted) + 1] = lines
      /\ \A n \in Lines : Has(msgContent', n) <=> Has(msgContent, n) \/ n = lines
  <2>1. msgContent' = said
    BY DEF said
  <2> QED
    BY <1>c, <2>1, PartedFacts
<1>5. /\ \A i \in MsgIds : \A n \in Lines : Has(streams[i], n) => Read(n)
      /\ \A n \in early : Has(streams[0], n)
      /\ \A n \in texts \ early : \E i \in MsgIds : i <= msgID /\ Has(streams[i], n)
      /\ \A n \in texts \ early : \A i, j \in MsgIds : \A p \in DOMAIN streams[i], q \in DOMAIN streams[j] :
           streams[i][p] = n /\ streams[j][q] = n => i = j /\ p = q
      /\ msgID = 0 => texts \subseteq early
  BY DEF StreamsInv, Shown
<1>6. /\ \A n \in texts : Read(n)
      /\ \A n \in Lines : Has(msgContent, n) => n \in texts
      /\ \A p, q \in DOMAIN Parted : Parted[p] \in Lines /\ Parted[p] = Parted[q] => p = q
      /\ \A n \in texts \ early : Has(streams[msgID], n) <=> Has(msgContent, n)
  BY PartedFacts DEF StreamsInv
<1>7. /\ ~Read(lines) /\ lines \notin texts
      /\ \A n \in Lines : Read(n) => Read(n)' /\ n # lines
      /\ Read(lines)'
  BY <1>1, <1>6 DEF Read
<1>8. (\A i \in MsgIds : ~Has(streams[i], lines)) /\ ~Has(msgContent, lines)
  BY <1>1, <1>5, <1>6, <1>7
<1>9. \A i \in MsgIds : \A n : Has(streams'[i], n) <=> Has(streams[i], n) \/ (i = msgID /\ n = lines)
  BY <1>2, <1>3
<1> HIDE DEF old, new
<1>10. Shown(streams, msgID)'
  <2>1. \A i \in MsgIds : \A n \in Lines : Has(streams'[i], n) => Read(n)'
    BY <1>5, <1>7, <1>9
  <2>2. msgID = 0 => texts' \subseteq early'
    BY <1>5
  <2>3. \A n \in early' : Has(streams'[0], n)
    BY <1>1, <1>5, <1>9
  <2>4. \A n \in texts' \ early' : n = lines \/ n \in texts \ early
    OBVIOUS
  <2>5. \A n \in texts' \ early' : \E i \in MsgIds : i <= msgID /\ Has(streams'[i], n)
    <3>1. msgID <= msgID
      BY <1>1
    <3> QED
      BY <1>1, <1>5, <1>9, <2>4, <3>1
  <2>6. ASSUME NEW n \in texts' \ early', NEW i \in MsgIds, NEW j \in MsgIds,
               NEW p \in DOMAIN streams'[i], NEW q \in DOMAIN streams'[j],
               streams'[i][p] = n, streams'[j][q] = n
        PROVE  i = j /\ p = q
    <3>1. ASSUME NEW k \in MsgIds, NEW r \in DOMAIN streams'[k], streams'[k][r] = n
          PROVE  \/ n = lines /\ k = msgID /\ r = Len(old) + 1
                 \/ n # lines /\ r \in DOMAIN streams[k] /\ streams[k][r] = n
      <4>1. CASE k # msgID
        <5>1. r \in DOMAIN streams[k] /\ streams[k][r] = n
          BY <1>2, <3>1, <4>1
        <5>2. n # lines
          BY <1>8, <5>1 DEF Has
        <5> QED
          BY <5>1, <5>2
      <4>2. CASE k = msgID
        <5>1. r \in DOMAIN new /\ new[r] = n
          BY <1>2, <3>1, <4>2
        <5>2. r \in DOMAIN old \/ r = Len(old) + 1
          BY <1>3, <5>1
        <5>3. CASE r \in DOMAIN old
          <6>1. old[r] = n
            BY <1>3, <5>1, <5>3
          <6>2. n # lines
            BY <1>1, <1>8, <5>3, <6>1 DEF Has, old
          <6> QED
            BY <4>2, <5>3, <6>1, <6>2 DEF old
        <5>4. CASE r = Len(old) + 1
          BY <1>3, <4>2, <5>1, <5>4
        <5> QED
          BY <5>2, <5>3, <5>4
      <4> QED
        BY <4>1, <4>2
    <3>2. \/ n = lines /\ i = msgID /\ p = Len(old) + 1
          \/ n # lines /\ p \in DOMAIN streams[i] /\ streams[i][p] = n
      BY <2>6, <3>1
    <3>3. \/ n = lines /\ j = msgID /\ q = Len(old) + 1
          \/ n # lines /\ q \in DOMAIN streams[j] /\ streams[j][q] = n
      BY <2>6, <3>1
    <3>4. CASE n = lines
      BY <3>2, <3>3, <3>4
    <3>5. CASE n # lines
      <4>1. n \in texts \ early
        BY <2>4, <3>5
      <4> QED
        BY <1>5, <3>2, <3>3, <3>5, <4>1
    <3> QED
      BY <3>4, <3>5
  <2> QED
    BY <2>1, <2>2, <2>3, <2>5, <2>6 DEF Shown
<1>11. \A n \in texts' : Read(n)'
  BY <1>1, <1>6, <1>7
<1>12. \A n \in Lines : Has(msgContent', n) => n \in texts'
  BY <1>4, <1>6
<1>13. \A p, q \in DOMAIN msgContent' : msgContent'[p] \in Lines /\ msgContent'[p] = msgContent'[q] => p = q
  <2>1. \A p \in DOMAIN msgContent' : p \in DOMAIN Parted \/ p = Len(Parted) + 1
    BY <1>4
  <2>2. \A p \in DOMAIN Parted : msgContent'[p] = Parted[p] /\ Parted[p] # lines
    BY <1>1, <1>4, <1>8, PartedFacts DEF Has
  <2> QED
    BY <1>4, <1>6, <2>1, <2>2
<1>14. \A n \in texts' \ early' : Has(streams'[msgID'], n) <=> Has(msgContent', n)
  BY <1>1, <1>4, <1>6, <1>9
<1>15. (\A n \in Lines : Has(msgContent, n) => n \in texts)'
  BY <1>12 DEF Has
<1>16. (\A n \in texts \ early : Has(streams[msgID], n) <=> Has(msgContent, n))'
  BY <1>14 DEF Has
<1>17. (\A p, q \in DOMAIN msgContent : msgContent[p] \in Lines /\ msgContent[p] = msgContent[q] => p = q)'
  BY <1>13 DEF Lines
<1> QED
  BY <1>10, <1>11, <1>15, <1>16, <1>17 DEF StreamsInv

\* What a complete line makes of the message.
SameMessage ==
  streams' = streams /\ msgID' = msgID /\ msgContent' = msgContent /\ texts' = texts /\ early' = early
PartedMessage ==
  streams' = streams /\ msgID' = msgID /\ msgContent' = Parted /\ texts' = texts /\ early' = early
EndedMessage ==
  streams' = Flushed /\ msgID' = FlushedId /\ msgContent' = msgContent /\ texts' = texts /\ early' = early
NewMessage ==
  streams' = Flushed /\ msgID' = FlushedId + 1 /\ msgContent' = <<>> /\ texts' = texts /\ early' = early
LongerMessage ==
  /\ msgID' = msgID /\ msgContent' = Parted \o <<lines>>
  /\ streams' = [streams EXCEPT ![msgID] = @ \o <<lines>>]
  /\ texts' = texts \cup {lines} /\ early' = IF msgID = 0 THEN early \cup {lines} ELSE early

LEMMA TextLine ==
  ASSUME TypeInv, StreamsInv, Text
  PROVE  PartedMessage \/ LongerMessage
<1>1. /\ Parted \in Content /\ streams \in [MsgIds -> Content] /\ msgID \in MsgIds
      /\ streams[msgID] \in Content
  BY IdFacts, PartedFacts DEF TypeInv, MessageType
<1>2. CASE currentLine = "blank"
  <2>1. Range(<<>>) = {}
    BY DEF Range
  <2>2. Parted \o <<>> = Parted /\ streams[msgID] \o <<>> = streams[msgID]
    BY <1>1, ConcatEmptySeq DEF Content
  <2>3. Streamed(streams, MessageDelta(msgID, <<>>)) = [streams EXCEPT ![msgID] = @ \o <<>>]
    BY <1>1 DEF Streamed, MessageDelta
  <2>4. Streamed(streams, MessageDelta(msgID, <<>>)) = streams
    BY <1>1, <2>2, <2>3
  <2>5. /\ msgID' = msgID /\ msgContent' = Parted \o <<>>
        /\ streams' = Streamed(streams, MessageDelta(msgID, <<>>))
        /\ texts' = texts \cup Range(<<>>)
        /\ early' = IF msgID = 0 THEN early \cup Range(<<>>) ELSE early
    BY <1>2 DEF Text
  <2> QED
    BY <2>1, <2>2, <2>4, <2>5 DEF PartedMessage
<1>3. CASE currentLine # "blank"
  <2>1. Range(<<lines>>) = {lines}
    BY DEF Range
  <2>2. Streamed(streams, MessageDelta(msgID, <<lines>>)) = [streams EXCEPT ![msgID] = @ \o <<lines>>]
    BY <1>1 DEF Streamed, MessageDelta
  <2>3. /\ msgID' = msgID /\ msgContent' = Parted \o <<lines>>
        /\ streams' = Streamed(streams, MessageDelta(msgID, <<lines>>))
        /\ texts' = texts \cup Range(<<lines>>)
        /\ early' = IF msgID = 0 THEN early \cup Range(<<lines>>) ELSE early
    BY <1>3 DEF Text, This
  <2> QED
    BY <2>1, <2>2, <2>3 DEF LongerMessage
<1> QED
  BY <1>2, <1>3

LEMMA NewlineMessage ==
  ASSUME TypeInv, StreamsInv, FeedNewline
  PROVE  /\ currentLine # "none" /\ currentLine' = "none" /\ lines' = lines /\ resets' = resets
         /\ sawCodexHeader' \in BOOLEAN /\ roleSet' \in BOOLEAN /\ nextLineEmpty' \in BOOLEAN
         /\ SameMessage \/ PartedMessage \/ EndedMessage \/ NewMessage \/ LongerMessage
<1> USE DEF pageVars, flagVars
<1>0. sawCodexHeader \in BOOLEAN /\ roleSet \in BOOLEAN /\ nextLineEmpty \in BOOLEAN
  BY DEF TypeInv, MessageType
<1>1. currentLine # "none" /\ currentLine' = "none" /\ lines' = lines /\ resets' = resets
  BY DEF FeedNewline
<1>2. CASE NormalLine
  <2>1. CASE HeaderLine \/ UserMark \/ SkippedBlank \/ EnterTool
    <3>1. SameMessage
      BY <2>1 DEF HeaderLine, UserMark, SkippedBlank, EnterTool, SameMessage
    <3>2. /\ sawCodexHeader' = sawCodexHeader \/ sawCodexHeader' = TRUE
          /\ roleSet' = roleSet \/ roleSet' = TRUE
          /\ nextLineEmpty' = nextLineEmpty \/ nextLineEmpty' = TRUE \/ nextLineEmpty' = FALSE
      BY <2>1 DEF HeaderLine, UserMark, SkippedBlank, EnterTool, Spoken
    <3> QED
      BY <1>0, <1>1, <3>1, <3>2
  <2>2. CASE TokensMark \/ EnterThinking
    <3>1. EndedMessage
      BY <2>2, FlushFacts DEF TokensMark, EnterThinking, EndedMessage
    <3>2. sawCodexHeader' = TRUE /\ roleSet' = roleSet /\ nextLineEmpty' = FALSE
      BY <2>2 DEF TokensMark, EnterThinking, Spoken
    <3> QED
      BY <1>0, <1>1, <3>1, <3>2
  <2>3. CASE CodexMark
    <3>1. NewMessage
      BY <2>3, FlushFacts DEF CodexMark, NewMessage
    <3>2. sawCodexHeader' = TRUE /\ roleSet' = TRUE /\ nextLineEmpty' = FALSE
      BY <2>3 DEF CodexMark, Spoken
    <3> QED
      BY <1>0, <1>1, <3>1, <3>2
  <2>4. CASE Text
    <3>1. sawCodexHeader' = TRUE /\ roleSet' = TRUE /\ nextLineEmpty' = FALSE
      BY <2>4 DEF Text, Spoken
    <3> QED
      BY <1>0, <1>1, <2>4, <3>1, TextLine
  <2> QED
    BY <1>2, <2>1, <2>2, <2>3, <2>4 DEF NormalLine
<1>3. CASE ThinkingLine \/ ToolLine
  <2>1. SameMessage
    BY <1>3 DEF ThinkingLine, ToolLine, SameMessage
  <2>2. sawCodexHeader' = sawCodexHeader /\ roleSet' = roleSet /\ nextLineEmpty' = nextLineEmpty
    BY <1>3 DEF ThinkingLine, ToolLine
  <2> QED
    BY <1>0, <1>1, <2>1, <2>2
<1> QED
  BY <1>2, <1>3 DEF FeedNewline

-----------------------------------------------------------------------------
LEMMA MessageInit == Init => MessageType /\ StreamsInv
<1> SUFFICES ASSUME Init PROVE MessageType /\ StreamsInv
  OBVIOUS
<1>1. /\ currentLine = "none" /\ lines = 0 /\ msgID = 0 /\ msgContent = <<>> /\ resets = 0
      /\ sawCodexHeader = FALSE /\ roleSet = FALSE /\ nextLineEmpty = FALSE
      /\ streams = [i \in MsgIds |-> <<>>] /\ texts = {} /\ early = {}
  BY DEF Init
<1>2. <<>> \in Content /\ MaxResets \in Nat
  BY ParserAssumption DEF Content
<1>3. MessageType
  <2>1. msgID \in 0..(lines + 1) /\ resets \in 0..MaxResets
    BY <1>1, <1>2
  <2>2. [i \in MsgIds |-> <<>>] \in [MsgIds -> Content]
    BY <1>2
  <2>3. sawCodexHeader \in BOOLEAN /\ roleSet \in BOOLEAN /\ nextLineEmpty \in BOOLEAN
    BY <1>1
  <2> QED
    BY <1>1, <1>2, <2>1, <2>2, <2>3 DEF MessageType
<1>4. DOMAIN <<>> = {} /\ \A n : ~Has(<<>>, n)
  BY DEF Has
<1>5. \A i \in MsgIds : streams[i] = <<>>
  BY <1>1
<1>6. Shown(streams, msgID)
  BY <1>1, <1>4, <1>5 DEF Shown
<1> QED
  BY <1>1, <1>3, <1>4, <1>6 DEF StreamsInv

\* Reading may only grow while the invariant's types are kept.
LEMMA MessageStep == TypeInv /\ StreamsInv /\ [Next]_vars => MessageType' /\ StreamsInv'
<1> SUFFICES ASSUME TypeInv, StreamsInv, [Next]_vars PROVE MessageType' /\ StreamsInv'
  OBVIOUS
<1> USE DEF pageVars, flagVars
<1>0. /\ lines \in Nat /\ MaxLines \in Nat /\ Lines \subseteq Nat /\ MaxResets \in Nat
      /\ msgID \in 0..(lines + 1) /\ (currentLine # "none" => msgID <= lines)
      /\ msgContent \in Content /\ streams \in [MsgIds -> Content] /\ resets \in 0..MaxResets
      /\ texts \subseteq Lines /\ early \subseteq texts
      /\ sawCodexHeader \in BOOLEAN /\ roleSet \in BOOLEAN /\ nextLineEmpty \in BOOLEAN
  BY IdFacts, ParserAssumption DEF TypeInv, MessageType
<1>1. ASSUME NEW class \in LineClass, FeedBytes(class) PROVE MessageType' /\ StreamsInv'
  <2>1. /\ currentLine = "none" /\ lines' = lines + 1 /\ msgID' = msgID /\ msgContent' = msgContent
        /\ streams' = streams /\ texts' = texts /\ early' = early /\ resets' = resets
        /\ sawCodexHeader' = sawCodexHeader /\ roleSet' = roleSet /\ nextLineEmpty' = nextLineEmpty
    BY <1>1 DEF FeedBytes
  <2>2. \A n \in Lines : Read(n) => Read(n)'
    BY <1>0, <2>1 DEF Read
  <2>3. StreamsInv'
    BY <2>1, <2>2, SameText
  <2> QED
    BY <1>0, <2>1, <2>3 DEF MessageType
<1>2. CASE FeedNewline
  <2>1. /\ currentLine # "none" /\ currentLine' = "none" /\ lines' = lines /\ resets' = resets
        /\ sawCodexHeader' \in BOOLEAN /\ roleSet' \in BOOLEAN /\ nextLineEmpty' \in BOOLEAN
        /\ SameMessage \/ PartedMessage \/ EndedMessage \/ NewMessage \/ LongerMessage
    BY <1>2, NewlineMessage
  <2>2. \A n \in Lines : Read(n) => Read(n)'
    BY <1>0, <2>1 DEF Read
  <2>3. /\ lines \in Lines /\ msgID \in MsgIds /\ 2 \in MsgIds /\ msgID + 1 \in MsgIds /\ 1 <= lines
    BY <2>1, IdFacts
  <2>4. CASE SameMessage
    <3>1. StreamsInv'
      BY <2>2, <2>4, SameText DEF SameMessage
    <3>2. MessageType'
      BY <1>0, <2>1, <2>4 DEF MessageType, SameMessage
    <3> QED
      BY <3>1, <3>2
  <2>p. CASE PartedMessage
    <3>1. StreamsInv'
      BY <2>2, <2>p, PartStep DEF PartedMessage
    <3>2. MessageType'
      BY <1>0, <2>1, <2>p, PartedFacts DEF MessageType, PartedMessage
    <3> QED
      BY <3>1, <3>2
  <2>5. FlushedId \in 0..(lines + 1) /\ FlushedId + 1 \in 0..(lines + 1) /\ FlushedId + 1 \in MsgIds
        /\ Flushed \in [MsgIds -> Content]
    <3>1. FlushedId = msgID \/ (msgID = 0 /\ FlushedId = 1)
      BY FlushFacts
    <3>2. FlushedId \in 0..(lines + 1) /\ FlushedId + 1 \in 0..(lines + 1)
      BY <1>0, <2>1, <2>3, <3>1
    <3>3. FlushedId + 1 \in MsgIds
      BY <2>3, <3>1
    <3>4. Flushed \in [MsgIds -> Content]
      <4>1. CASE msgContent = <<>>
        BY <1>0, <4>1, FlushFacts
      <4>2. CASE msgContent # <<>>
        BY <1>0, <4>2, FlushFacts
      <4> QED
        BY <4>1, <4>2
    <3> QED
      BY <3>2, <3>3, <3>4
  <2>6. CASE EndedMessage
    <3>1. StreamsInv'
      BY <2>2, <2>6, FlushStep DEF EndedMessage
    <3>2. MessageType'
      BY <1>0, <2>1, <2>5, <2>6 DEF MessageType, EndedMessage
    <3> QED
      BY <3>1, <3>2
  <2>7. CASE NewMessage
    <3>1. StreamsInv'
      BY <2>2, <2>5, <2>7, NextMessage DEF NewMessage
    <3>2. <<>> \in Content
      BY DEF Content
    <3>3. MessageType'
      BY <1>0, <2>1, <2>5, <2>7, <3>2 DEF MessageType, NewMessage
    <3> QED
      BY <3>1, <3>3
  <2>8. CASE LongerMessage
    <3>1. StreamsInv'
      BY <2>1, <2>8, TextStep DEF LongerMessage
    <3>2. Parted \o <<lines>> \in Content /\ streams[msgID] \o <<lines>> \in Content
      BY <1>0, <2>3, LineAppended, PartedFacts
    <3>3. streams' \in [MsgIds -> Content] /\ msgContent' \in Content
      BY <1>0, <2>3, <2>8, <3>2 DEF LongerMessage
    <3>4. texts' \subseteq Lines /\ early' \subseteq texts'
      BY <1>0, <2>3, <2>8 DEF LongerMessage
    <3>5. msgID' = msgID
      BY <2>8 DEF LongerMessage
    <3>6. MessageType'
      BY <1>0, <2>1, <3>3, <3>4, <3>5 DEF MessageType
    <3> QED
      BY <3>1, <3>6
  <2> QED
    BY <2>1, <2>4, <2>p, <2>6, <2>7, <2>8
<1>3. CASE Flush
  <2>1. /\ currentLine' = currentLine /\ lines' = lines /\ msgID' = FlushedId /\ msgContent' = msgContent
        /\ streams' = Flushed /\ texts' = texts /\ early' = early /\ resets' = resets
        /\ sawCodexHeader' = sawCodexHeader /\ roleSet' = roleSet /\ nextLineEmpty' = nextLineEmpty
    BY <1>3 DEF Flush
  <2>2. \A n \in Lines : Read(n) => Read(n)'
    BY <2>1 DEF Read
  <2>3. StreamsInv'
    BY <2>1, <2>2, FlushStep
  <2>4. FlushedId \in 0..(lines + 1) /\ (currentLine # "none" => FlushedId <= lines)
    BY <1>0, FlushFacts, IdFacts
  <2>5. Flushed \in [MsgIds -> Content]
    <3>1. CASE msgContent = <<>>
      BY <1>0, <3>1, FlushFacts
    <3>2. CASE msgContent # <<>>
      BY <1>0, <3>2, FlushFacts
    <3> QED
      BY <3>1, <3>2
  <2> QED
    BY <1>0, <2>1, <2>3, <2>4, <2>5 DEF MessageType
<1>4. CASE Reset
  <2>1. /\ currentLine' = "none" /\ lines' = lines /\ msgID' = msgID /\ msgContent' = <<>>
        /\ streams' = streams /\ texts' = {} /\ early' = {} /\ resets' = resets + 1 /\ resets < MaxResets
        /\ sawCodexHeader' = FALSE /\ roleSet' = FALSE /\ nextLineEmpty' = nextLineEmpty
    BY <1>4 DEF Reset
  <2>2. \A n \in Lines : Read(n) => Read(n)'
    BY <1>0, <2>1 DEF Read
  <2>3. \A n : ~Has(msgContent, n)'
    BY <2>1 DEF Has
  <2>4. Shown(streams, msgID)'
    BY <2>1, <2>2 DEF StreamsInv, Shown
  <2>5. StreamsInv'
    BY <2>1, <2>3, <2>4 DEF StreamsInv, Has
  <2>6. <<>> \in Content /\ resets' \in 0..MaxResets
    BY <1>0, <2>1 DEF Content
  <2> QED
    BY <1>0, <2>1, <2>5, <2>6 DEF MessageType
<1>5. CASE UNCHANGED vars
  <2>1. /\ currentLine' = currentLine /\ lines' = lines /\ msgID' = msgID /\ msgContent' = msgContent
        /\ streams' = streams /\ texts' = texts /\ early' = early /\ resets' = resets
        /\ sawCodexHeader' = sawCodexHeader /\ roleSet' = roleSet /\ nextLineEmpty' = nextLineEmpty
    BY <1>5 DEF vars
  <2>2. \A n \in Lines : Read(n) => Read(n)'
    BY <2>1 DEF Read
  <2> QED
    BY <1>0, <2>1, <2>2, SameText DEF MessageType
<1> QED
  BY <1>1, <1>2, <1>3, <1>4, <1>5 DEF Next

LEMMA ParserInv == Spec => [](TypeInv /\ StreamsInv)
<1>1. Init => TypeInv /\ StreamsInv
  BY BlockInit, MessageInit DEF TypeInv
<1>2. TypeInv /\ StreamsInv /\ [Next]_vars => (TypeInv /\ StreamsInv)'
  BY BlockStep, MessageStep DEF TypeInv
<1> QED
  BY <1>1, <1>2, PTL DEF Spec

\* Whatever lines the parser is fed, every variable keeps its type: neither a
\* message id nor a block id outruns the lines (parser.go:130-137, 195-235).
THEOREM ParserTypeCorrect == Spec => []TypeOK
BY ParserInv, TypesFit, PTL

\* However lines, flushes and resets come, text sent since the last reset is on
\* the page at exactly one place, unless it was sent before its message had an
\* id: neither the start that empties a stream nor the done that replaces it
\* loses any (parser.go:128-172, 251-275, ChatView.tsx:36-50).
THEOREM TextIsShownOnce == Spec => []ShownOnce
BY ParserInv, TextShownOnce, PTL

=============================================================================
