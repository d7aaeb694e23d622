------------------------- MODULE ChatSessionsProofs -------------------------
(***************************************************************************)
(* Theorems about ChatSessions, for any sessions and connections and any   *)
(* bounds on runs, posts, restarts and the clock.                          *)
(***************************************************************************)
EXTENDS ChatSessions, SequenceTheorems, TLAPS

-----------------------------------------------------------------------------
\* Scripts and rows.

LEMMA ScriptTypes ==
  /\ Echo \in Seq(Event)
  /\ \A a \in Answers : a \in Seq(Event)
  /\ <<>> \in Answers /\ Answers # {}
BY DEF Echo, Answers, Event

LEMMA TodoType ==
  ASSUME todo \in [Conns -> [Sources -> Seq(Event)]],
         NEW c \in Conns, NEW t \in Sources, NEW a \in Seq(Event),
         todo' = [todo EXCEPT ![c][t] = a]
  PROVE  todo' \in [Conns -> [Sources -> Seq(Event)]]
OBVIOUS

\* A row is appended.
LEMMA AppendRow ==
  ASSUME messages \in Seq(Row), NEW r \in Row, messages' = Append(messages, r)
  PROVE  /\ messages' \in Seq(Row)
         /\ Len(messages') = Len(messages) + 1
         /\ DOMAIN messages' = DOMAIN messages \cup {Len(messages) + 1}
         /\ \A i \in DOMAIN messages : messages'[i] = messages[i]
         /\ messages'[Len(messages) + 1] = r
<1>1. Len(messages) \in Nat /\ DOMAIN messages = 1..Len(messages)
  BY LenProperties
<1> QED
  BY <1>1, AppendProperties, LenProperties

LEMMA RowTypes ==
  \A c \in Conns \cup {None}, s \in Sessions :
    Said(c, s) \in Row /\ (c \in Conns => Streaming(c, s) \in Row)
BY DEF Said, Streaming, Row

\* Completing a row leaves the other rows, their number and its opener alone.
Finished(c, i) == messages' = [messages EXCEPT ![i].status = "done", ![i].by = c]

LEMMA CompleteRow ==
  ASSUME messages \in Seq(Row), NEW c \in Conns, NEW i \in DOMAIN messages, Finished(c, i)
  PROVE  /\ messages' \in Seq(Row)
         /\ Len(messages') = Len(messages) /\ DOMAIN messages' = DOMAIN messages
         /\ \A j \in DOMAIN messages : j # i => messages'[j] = messages[j]
         /\ \A j \in DOMAIN messages :
              messages'[j].opener = messages[j].opener /\ messages'[j].role = messages[j].role
         /\ messages'[i].status = "done" /\ messages'[i].by = c
<1>1. DOMAIN messages = 1..Len(messages) /\ Len(messages) \in Nat
  BY LenProperties
<1> DEFINE r2 == [messages[i] EXCEPT !.status = "done", !.by = c]
<1>2. messages' = [messages EXCEPT ![i] = r2]
  BY DEF Finished
<1>3. messages[i] \in Row
  BY ElementOfSeq, <1>1
<1>4. /\ r2 \in Row /\ r2.opener = messages[i].opener /\ r2.role = messages[i].role
      /\ r2.status = "done" /\ r2.by = c
  BY <1>3 DEF Row
<1> HIDE DEF r2
<1>5. messages' \in Seq(Row) /\ Len(messages') = Len(messages)
  BY <1>1, <1>2, <1>4, ExceptSeq
<1>6. \A j \in DOMAIN messages : messages'[j] = IF j = i THEN r2 ELSE messages[j]
  BY <1>1, <1>2, <1>4, ExceptSeq
<1> QED
  BY <1>1, <1>4, <1>5, <1>6, LenProperties

-----------------------------------------------------------------------------
\* Type correctness.

LEMMA TypeInit == Init => TypeOK
<1> SUFFICES ASSUME Init PROVE TypeOK
  OBVIOUS
<1>1. todo \in [Conns -> [Sources -> Seq(Event)]]
  BY DEF Init, Silent
<1>2. /\ sends \in [Conns -> 0..MaxRuns] /\ minute \in 0..MaxMinutes
      /\ downs \in 0..MaxTroubles /\ faults \in 0..MaxTroubles
  BY SessionsAssumption DEF Init
<1>3. messages \in Seq(Row) /\ \A c \in Conns : currentMsgID[c] <= Len(messages)
  BY DEF Init
<1>4. unnamed \subseteq Conns /\ unfinished \subseteq DOMAIN messages
  BY DEF Init
<1> QED
  BY <1>1, <1>2, <1>3, <1>4 DEF Init, TypeOK, Status, Name, PC, Writer

\* A statement that fails is counted.
LEMMA FaultType ==
  ASSUME TypeOK, Fault
  PROVE  faults' \in 0..MaxTroubles
<1>1. faults \in Nat /\ downs \in Nat /\ MaxTroubles \in Nat /\ faults' = faults + 1 /\ downs + faults < MaxTroubles
  BY SessionsAssumption DEF Fault, TypeOK
<1> QED
  BY <1>1

LEMMA StoreType ==
  ASSUME TypeOK, NEW s \in Sessions, NEW st \in Status, NEW who \in Writer, Store(s, st, who)
  PROVE  /\ status' \in [Sessions -> Status] /\ last' \in [Sessions -> Writer]
         /\ faults' \in 0..MaxTroubles
<1>1. CASE Fault /\ last' = [last EXCEPT ![s] = IF status[s] = "running" THEN "fault" ELSE "nobody"]
           /\ UNCHANGED status
  BY <1>1, FaultType DEF TypeOK, Writer
<1>2. CASE /\ status' = [status EXCEPT ![s] = st]
           /\ last' = [last EXCEPT ![s] = IF st = "running" THEN who ELSE "nobody"]
           /\ UNCHANGED faults
  BY <1>2 DEF TypeOK, Writer
<1> QED
  BY <1>1, <1>2 DEF Store

LEMMA InsertType ==
  ASSUME TypeOK, NEW row \in Row, Insert(row)
  PROVE  /\ messages' \in Seq(Row) /\ faults' \in 0..MaxTroubles
         /\ Len(messages) <= Len(messages') /\ DOMAIN messages \subseteq DOMAIN messages'
         /\ \A d \in Conns : currentMsgID[d] <= Len(messages')
<1>0. messages \in Seq(Row) /\ Len(messages) \in Nat
  BY LenProperties DEF TypeOK
<1>1. CASE messages' = Append(messages, row) /\ UNCHANGED faults
  <2>1. /\ messages' \in Seq(Row) /\ Len(messages') = Len(messages) + 1
        /\ DOMAIN messages' = DOMAIN messages \cup {Len(messages) + 1}
    BY <1>0, <1>1, AppendRow
  <2> QED
    BY <1>0, <1>1, <2>1 DEF TypeOK
<1>2. CASE Fault /\ UNCHANGED messages
  BY <1>0, <1>2, FaultType DEF TypeOK
<1> QED
  BY <1>1, <1>2 DEF Insert

LEMMA TypeRest ==
  ASSUME TypeOK, NEW s \in Sessions, Create(s) \/ Post(s) \/ Stop(s)
  PROVE  TypeOK'
<1> USE DEF connVars, relayVars, bounds, rowVars, failVars
<1>1. CASE Create(s)
  BY <1>1 DEF Create, TypeOK, Status, Writer
<1>2. CASE Post(s)
  <2>1. Said(None, s) \in Row /\ Insert(Said(None, s))
    BY <1>2, RowTypes DEF Post
  <2>2. /\ messages' \in Seq(Row) /\ faults' \in 0..MaxTroubles /\ DOMAIN messages \subseteq DOMAIN messages'
        /\ \A d \in Conns : currentMsgID[d] <= Len(messages')
    BY <2>1, InsertType
  <2> QED
    BY <1>2, <2>2 DEF Post, TypeOK
<1>3. CASE Stop(s)
  <2>1. "stopped" \in Status /\ "nobody" \in Writer /\ Store(s, "stopped", "nobody")
    BY <1>3 DEF Stop, Status, Writer
  <2>2. /\ status' \in [Sessions -> Status] /\ last' \in [Sessions -> Writer]
        /\ faults' \in 0..MaxTroubles
    BY <2>1, StoreType
  <2> QED
    BY <1>3, <2>2 DEF Stop, TypeOK
<1> QED
  BY <1>1, <1>2, <1>3

LEMMA TypeHandler ==
  ASSUME TypeOK, NEW c \in Conns, Handler(c)
  PROVE  TypeOK'
<1> USE DEF connVars, relayVars, bounds, rowVars, failVars
<1>0. session[c] \in Sessions
  BY DEF TypeOK
<1>1. CASE ReadRow(c)
  BY <1>0, <1>1 DEF ReadRow, TypeOK, PC
<1>2. CASE Start(c)
  <2>1. PICK a \in Seq(Event) : todo' = [todo EXCEPT ![c][0] = a]
    BY <1>2, ScriptTypes DEF Start
  <2>2. 0 \in Sources
    BY SessionsAssumption DEF Sources
  <2>3. todo' \in [Conns -> [Sources -> Seq(Event)]]
    BY <2>1, <2>2, TodoType DEF TypeOK
  <2>4. adapterName' \in [Conns -> Name \cup {None}]
    BY <1>2 DEF Start, TypeOK, Name
  <2> QED
    BY <1>2, <2>3, <2>4 DEF Start, TypeOK, PC
<1>r. Return(c) => /\ pc' \in [Conns -> PC] /\ seen' \in [Conns -> Name \cup {None}]
                   /\ adapterName' \in [Conns -> Name \cup {None}]
  BY DEF Return, TypeOK, PC
<1>3. CASE UpgradeFails(c)
  BY <1>3, <1>r DEF UpgradeFails, TypeOK
<1>4. CASE StoreName(c)
  <2>1. name' \in [Sessions -> Name \cup {None}]
    BY <1>0, <1>4 DEF StoreName, TypeOK
  <2>2. unnamed' \subseteq Conns /\ faults' \in 0..MaxTroubles
    BY <1>4, FaultType DEF StoreName, TypeOK
  <2>3. pc' \in [Conns -> PC] /\ relay' \in [Conns -> {"off", "on", "exited"}]
    BY <1>4 DEF StoreName, TypeOK, PC
  <2> QED
    BY <1>4, <2>1, <2>2, <2>3 DEF StoreName, TypeOK
<1>5. CASE Message(c)
  <2>1. Said(c, session[c]) \in Row /\ Insert(Said(c, session[c]))
    BY <1>0, <1>5, RowTypes DEF Message
  <2>2. /\ messages' \in Seq(Row) /\ faults' \in 0..MaxTroubles /\ DOMAIN messages \subseteq DOMAIN messages'
        /\ \A d \in Conns : currentMsgID[d] <= Len(messages')
    BY <2>1, InsertType
  <2>3. sends[c] \in Nat /\ sends[c] + 1 \in 0..MaxRuns
    BY <1>5, SessionsAssumption DEF Message, Runs, TypeOK
  <2>4. PICK a \in Answers : todo' = [todo EXCEPT ![c][sends[c] + 1] = Echo \o a]
    BY <1>5 DEF Message
  <2>5. Echo \o a \in Seq(Event)
    BY ScriptTypes, ConcatProperties
  <2>6. todo' \in [Conns -> [Sources -> Seq(Event)]]
    BY <2>3, <2>4, <2>5, TodoType DEF TypeOK, Sources
  <2>7. sends' \in [Conns -> 0..MaxRuns]
    BY <1>5, <2>3 DEF Message, TypeOK
  <2> QED
    BY <1>5, <2>2, <2>6, <2>7 DEF Message, TypeOK
<1>6. CASE StopFrame(c) \/ Leave(c)
  <2>1. "stopped" \in Status /\ "nobody" \in Writer /\ Store(session[c], "stopped", "nobody")
    BY <1>6 DEF StopFrame, Leave, Status, Writer
  <2>2. /\ status' \in [Sessions -> Status] /\ last' \in [Sessions -> Writer]
        /\ faults' \in 0..MaxTroubles
    BY <1>0, <2>1, StoreType
  <2> QED
    BY <1>6, <2>2 DEF StopFrame, Leave, TypeOK, PC
<1>7. CASE StopWrite(c)
  BY <1>7, <1>r DEF StopWrite, TypeOK, PC
<1>9. CASE Close(c)
  BY <1>9, <1>r DEF Close, TypeOK
<1> QED
  BY <1>1, <1>2, <1>3, <1>4, <1>5, <1>6, <1>7, <1>9 DEF Handler

\* What a relay's step does to the rows and its open one, whatever the event.
LEMMA PersistType ==
  ASSUME TypeOK, NEW c \in Conns, NEW e \in Event,
         PersistStatus(c, e) \/ PersistStart(c, e) \/ PersistEnd(c, e)
  PROVE  /\ status' \in [Sessions -> Status] /\ last' \in [Sessions -> Writer]
         /\ messages' \in Seq(Row) /\ currentMsgID' \in [Conns -> Nat]
         /\ \A d \in Conns : currentMsgID'[d] <= Len(messages')
         /\ faults' \in 0..MaxTroubles /\ unfinished' \subseteq DOMAIN messages'
<1> USE DEF rowVars
<1>0. session[c] \in Sessions /\ Len(messages) \in Nat /\ DOMAIN messages = 1..Len(messages)
  BY LenProperties DEF TypeOK
<1>1. CASE PersistStatus(c, e)
  <2>1. PICK who \in Writer : e \in Status /\ Store(session[c], e, who)
    BY <1>1 DEF PersistStatus, Status, Writer
  <2>2. /\ status' \in [Sessions -> Status] /\ last' \in [Sessions -> Writer]
        /\ faults' \in 0..MaxTroubles
    BY <1>0, <2>1, StoreType
  <2> QED
    BY <1>1, <2>2 DEF PersistStatus, TypeOK
<1>2. CASE /\ PersistStart(c, e) /\ UNCHANGED faults
           /\ messages' = Append(messages, Streaming(c, session[c]))
           /\ currentMsgID' = [currentMsgID EXCEPT ![c] = Len(messages) + 1]
  <2>0. Streaming(c, session[c]) \in Row
    BY <1>0, RowTypes
  <2>1. /\ messages' \in Seq(Row) /\ Len(messages') = Len(messages) + 1
        /\ DOMAIN messages' = DOMAIN messages \cup {Len(messages) + 1}
    BY <1>2, <2>0, AppendRow DEF TypeOK
  <2>3. /\ currentMsgID' \in [Conns -> Nat] /\ faults' \in 0..MaxTroubles
        /\ \A d \in Conns : currentMsgID'[d] <= Len(messages')
    BY <1>0, <1>2, <2>1 DEF TypeOK
  <2> QED
    BY <1>2, <2>1, <2>3 DEF PersistStart, TypeOK
<1>f. CASE PersistStart(c, e) /\ Fault /\ UNCHANGED <<messages, currentMsgID>>
  BY <1>f, FaultType DEF PersistStart, TypeOK
<1>3. CASE PersistEnd(c, e)
  <2>1. /\ messages' \in Seq(Row) /\ Len(messages') = Len(messages) /\ DOMAIN messages' = DOMAIN messages
        /\ faults' \in 0..MaxTroubles /\ unfinished' \subseteq DOMAIN messages
    <3>1. CASE currentMsgID[c] = 0
      BY <1>3, <3>1 DEF PersistEnd, TypeOK
    <3>2. CASE currentMsgID[c] # 0
      <4>1. currentMsgID[c] \in DOMAIN messages /\ Complete(c, currentMsgID[c])
        BY <1>0, <1>3, <3>2, LenProperties DEF PersistEnd, TypeOK
      <4>2. CASE Finished(c, currentMsgID[c]) /\ UNCHANGED <<faults, unfinished>>
        BY <4>1, <4>2, CompleteRow DEF TypeOK
      <4>3. CASE Fault /\ unfinished' = unfinished \cup {currentMsgID[c]} /\ UNCHANGED messages
        BY <4>1, <4>3, FaultType DEF TypeOK
      <4> QED
        BY <4>1, <4>2, <4>3 DEF Complete, Finished
    <3> QED
      BY <3>1, <3>2
  <2> QED
    BY <1>3, <2>1, <1>0 DEF PersistEnd, TypeOK
<1> QED
  BY <1>1, <1>2, <1>3, <1>f DEF PersistStart

LEMMA TypeRelay ==
  ASSUME TypeOK, NEW c \in Conns, Relay(c)
  PROVE  TypeOK'
<1>1. PICK t \in Sources : RelayStep(c, t)
  BY DEF Relay
<1> DEFINE e == Head(todo[c][t])
<1>2. todo[c][t] \in Seq(Event) /\ todo[c][t] # <<>>
  BY <1>1 DEF RelayStep, Ready, TypeOK
<1>3. e \in Event /\ Tail(todo[c][t]) \in Seq(Event)
  BY <1>2, HeadTailProperties
<1>4. PersistStatus(c, e) \/ PersistStart(c, e) \/ PersistEnd(c, e)
  BY <1>1 DEF RelayStep
<1>5. /\ status' \in [Sessions -> Status] /\ last' \in [Sessions -> Writer]
      /\ messages' \in Seq(Row) /\ currentMsgID' \in [Conns -> Nat]
      /\ \A d \in Conns : currentMsgID'[d] <= Len(messages')
      /\ faults' \in 0..MaxTroubles /\ unfinished' \subseteq DOMAIN messages'
  BY <1>3, <1>4, PersistType
<1>6. \/ todo' = [todo EXCEPT ![c][t] = Tail(todo[c][t])]
      \/ todo' = [todo EXCEPT ![c] = Silent]
  BY <1>1 DEF RelayStep, TypeOK
<1>7. todo' \in [Conns -> [Sources -> Seq(Event)]]
  <2>1. CASE todo' = [todo EXCEPT ![c][t] = Tail(todo[c][t])]
    BY <1>3, <2>1, TodoType DEF TypeOK
  <2>2. CASE todo' = [todo EXCEPT ![c] = Silent]
    BY <2>2 DEF TypeOK, Silent
  <2> QED
    BY <1>6, <2>1, <2>2
<1>8. relay' \in [Conns -> {"off", "on", "exited"}]
  BY <1>1 DEF RelayStep, TypeOK
<1> QED
  BY <1>1, <1>5, <1>7, <1>8 DEF RelayStep, TypeOK, connVars, bounds

LEMMA TypeServer ==
  ASSUME TypeOK, Tick \/ Shutdown \/ Down \/ Restart \/ UNCHANGED vars
  PROVE  TypeOK'
<1> USE SessionsAssumption DEF rowVars, connVars, relayVars, bounds, failVars
<1>0. downs + faults < MaxTroubles => downs + 1 \in 0..MaxTroubles
  BY DEF TypeOK
<1>1. CASE Tick
  BY <1>1 DEF Tick, TypeOK
<1>2. CASE Shutdown
  BY <1>0, <1>2 DEF Shutdown, TypeOK
<1>3. CASE Down
  <2>1. todo' \in [Conns -> [Sources -> Seq(Event)]]
    BY <1>3 DEF Down, Silent
  <2>2. last' \in [Sessions -> Writer]
    BY <1>3 DEF Down, TypeOK, Writer
  <2>3. downs' \in 0..MaxTroubles
    BY <1>0, <1>3 DEF Down, TypeOK
  <2>4. /\ pc' \in [Conns -> PC] /\ relay' \in [Conns -> {"off", "on", "exited"}]
        /\ seen' \in [Conns -> Name \cup {None}] /\ adapterName' \in [Conns -> Name \cup {None}]
    BY <1>3 DEF Down, TypeOK, PC
  <2> QED
    BY <1>3, <2>1, <2>2, <2>3, <2>4 DEF Down, TypeOK
<1>4. CASE Restart
  BY <1>4 DEF Restart, TypeOK
<1>5. CASE UNCHANGED vars
  BY <1>5 DEF vars, TypeOK
<1> QED
  BY <1>1, <1>2, <1>3, <1>4, <1>5

LEMMA TypeNext == TypeOK /\ [Next]_vars => TypeOK'
BY TypeRest, TypeHandler, TypeRelay, TypeServer DEF Next

\* Every variable keeps its type and an open row is a row, over any number of
\* connections, runs, posts and restarts.
THEOREM SessionsTypeCorrect == Spec => []TypeOK
BY TypeInit, TypeNext, PTL DEF Spec

-----------------------------------------------------------------------------
\* Whose row is completed.

\* An answer is completed by the connection that opened its row, however many
\* connections work on the session.
RowsOwned ==
  \A i \in DOMAIN messages : messages[i].status = "done" => messages[i].by = messages[i].opener

\* The row a relay holds open is one it opened itself and has not completed.
OpenOwned ==
  \A c \in Conns : currentMsgID[c] # 0 =>
    messages[currentMsgID[c]].opener = c /\ messages[currentMsgID[c]].status = "streaming"

OwnInv == RowsOwned /\ OpenOwned

\* A row that is appended, by REST or the handler, is nobody's open row.
LEMMA OwnInsert ==
  ASSUME TypeOK, OwnInv, NEW c \in Conns \cup {None}, NEW s \in Sessions,
         Insert(Said(c, s)), UNCHANGED currentMsgID
  PROVE  OwnInv'
<1>0. CASE UNCHANGED messages
  BY <1>0 DEF OwnInv, RowsOwned, OpenOwned
<1>1. /\ Said(c, s) \in Row /\ Said(c, s).by = Said(c, s).opener
  BY RowTypes DEF Said
<1> SUFFICES ASSUME messages' = Append(messages, Said(c, s)) PROVE OwnInv'
  BY <1>0 DEF Insert
<1>2. /\ DOMAIN messages' = DOMAIN messages \cup {Len(messages) + 1}
      /\ \A i \in DOMAIN messages : messages'[i] = messages[i]
      /\ messages'[Len(messages) + 1] = Said(c, s)
  BY <1>1, AppendRow DEF TypeOK
<1>3. \A d \in Conns : currentMsgID[d] # 0 => currentMsgID[d] \in DOMAIN messages
  BY LenProperties DEF TypeOK
<1>4. RowsOwned'
  BY <1>1, <1>2 DEF OwnInv, RowsOwned
<1>5. OpenOwned'
  BY <1>2, <1>3 DEF OwnInv, OpenOwned
<1> QED
  BY <1>4, <1>5 DEF OwnInv

\* What the relay makes of the rows: nothing, a new row, or its open one ended,
\* in the database or, if that fails, only in its own memory.
Opened(c) ==
  /\ messages' = Append(messages, Streaming(c, session[c]))
  /\ currentMsgID' = [currentMsgID EXCEPT ![c] = Len(messages) + 1]
  /\ UNCHANGED unfinished
Ended(c) ==
  /\ currentMsgID[c] # 0
  /\ currentMsgID' = [currentMsgID EXCEPT ![c] = 0]
  /\ \/ Finished(c, currentMsgID[c]) /\ UNCHANGED unfinished
     \/ UNCHANGED messages /\ unfinished' = unfinished \cup {currentMsgID[c]}
NoRow == UNCHANGED <<messages, currentMsgID, unfinished>>

LEMMA RelayRows ==
  ASSUME TypeOK, NEW c \in Conns, NEW t \in Sources, RelayStep(c, t)
  PROVE  /\ NoRow \/ Opened(c) \/ Ended(c)
         /\ Opened(c) => Head(todo[c][t]) = "start"
         /\ Ended(c) => Head(todo[c][t]) \in {"end", "echoEnd"}
         /\ Head(todo[c][t]) \in {"end", "echoEnd"} => currentMsgID'[c] = 0
<1> DEFINE e == Head(todo[c][t])
<1>1. CASE PersistStatus(c, e)
  <2>1. NoRow /\ e \in {"running", "done"}
    BY <1>1 DEF PersistStatus, NoRow
  <2> QED
    BY <2>1 DEF Opened, Ended, NoRow, TypeOK
<1>2. CASE PersistStart(c, e)
  <2>1. e = "start" /\ (Opened(c) \/ NoRow)
    BY <1>2 DEF PersistStart, Opened, NoRow
  <2>2. Len(messages) \in Nat
    BY LenProperties DEF TypeOK
  <2> QED
    BY <2>1, <2>2 DEF Opened, Ended, NoRow, TypeOK
<1>3. CASE PersistEnd(c, e)
  <2>1. e \in {"end", "echoEnd"} /\ currentMsgID' = [currentMsgID EXCEPT ![c] = 0] /\ currentMsgID'[c] = 0
    BY <1>3 DEF PersistEnd, TypeOK
  <2>2. Len(messages) \in Nat /\ ~Opened(c)
    BY <2>1, LenProperties DEF Opened, TypeOK
  <2>3. CASE currentMsgID[c] = 0
    <3>1. currentMsgID' = currentMsgID
      BY <2>1, <2>3 DEF TypeOK
    <3> QED
      BY <1>3, <2>1, <2>2, <2>3, <3>1 DEF PersistEnd, NoRow, Ended
  <2>4. CASE currentMsgID[c] # 0
    BY <1>3, <2>1, <2>2, <2>4 DEF PersistEnd, Complete, Finished, Ended
  <2> QED
    BY <2>3, <2>4
<1> QED
  BY <1>1, <1>2, <1>3 DEF RelayStep

LEMMA OwnRelay ==
  ASSUME TypeOK, OwnInv, NEW c \in Conns, NEW t \in Sources, RelayStep(c, t)
  PROVE  OwnInv'
<1>1. /\ Len(messages) \in Nat /\ DOMAIN messages = 1..Len(messages) /\ session[c] \in Sessions
      /\ \A d \in Conns : currentMsgID[d] # 0 => currentMsgID[d] \in DOMAIN messages
  BY LenProperties DEF TypeOK
<1>2. CASE NoRow
  BY <1>2 DEF NoRow, OwnInv, RowsOwned, OpenOwned
<1>3. CASE Opened(c)
  <2>1. /\ Streaming(c, session[c]) \in Row /\ Streaming(c, session[c]).status = "streaming"
        /\ Streaming(c, session[c]).opener = c
    BY <1>1, RowTypes DEF Streaming
  <2>2. /\ DOMAIN messages' = DOMAIN messages \cup {Len(messages) + 1}
        /\ \A i \in DOMAIN messages : messages'[i] = messages[i]
        /\ messages'[Len(messages) + 1] = Streaming(c, session[c])
    BY <1>3, <2>1, AppendRow DEF Opened, TypeOK
  <2>3. RowsOwned'
    BY <2>1, <2>2 DEF OwnInv, RowsOwned
  <2>4. OpenOwned'
    BY <1>1, <1>3, <2>1, <2>2 DEF Opened, OwnInv, OpenOwned, TypeOK
  <2> QED
    BY <2>3, <2>4 DEF OwnInv
<1>4. CASE Ended(c)
  <2>1. /\ currentMsgID[c] \in DOMAIN messages /\ messages[currentMsgID[c]].opener = c
        /\ currentMsgID'[c] = 0 /\ \A d \in Conns : d # c => currentMsgID'[d] = currentMsgID[d]
    BY <1>1, <1>4 DEF Ended, OwnInv, OpenOwned, TypeOK
  <2>2. CASE UNCHANGED messages
    BY <2>1, <2>2 DEF OwnInv, RowsOwned, OpenOwned
  <2>3. CASE Finished(c, currentMsgID[c])
    <3>3. /\ DOMAIN messages' = DOMAIN messages
          /\ \A j \in DOMAIN messages : j # currentMsgID[c] => messages'[j] = messages[j]
          /\ \A j \in DOMAIN messages : messages'[j].opener = messages[j].opener
          /\ messages'[currentMsgID[c]].by = c
      BY <2>1, <2>3, CompleteRow DEF TypeOK
    <3>4. RowsOwned'
      BY <2>1, <3>3 DEF OwnInv, RowsOwned
    <3>5. OpenOwned'
      <4>2. \A d \in Conns : d # c /\ currentMsgID[d] # 0 => messages[currentMsgID[d]].opener = d
        BY DEF OwnInv, OpenOwned
      <4>3. \A d \in Conns : d # c /\ currentMsgID[d] # 0 => currentMsgID[d] # currentMsgID[c]
        BY <2>1, <4>2
      <4> QED
        BY <1>1, <2>1, <3>3, <4>3 DEF OwnInv, OpenOwned
    <3> QED
      BY <3>4, <3>5 DEF OwnInv
  <2> QED
    BY <1>4, <2>2, <2>3 DEF Ended
<1> QED
  BY <1>2, <1>3, <1>4, RelayRows

LEMMA OwnNext == TypeOK /\ OwnInv /\ [Next]_vars => OwnInv'
<1> SUFFICES ASSUME TypeOK, OwnInv, [Next]_vars PROVE OwnInv'
  OBVIOUS
<1>1. CASE UNCHANGED <<messages, currentMsgID>>
  BY <1>1 DEF OwnInv, RowsOwned, OpenOwned
<1>2. ASSUME NEW s \in Sessions, Create(s) \/ Post(s) \/ Stop(s) PROVE OwnInv'
  BY <1>1, <1>2, OwnInsert DEF Create, Post, Stop, relayVars
<1>3. ASSUME NEW c \in Conns, Message(c) PROVE OwnInv'
  BY <1>3, OwnInsert DEF Message, TypeOK
<1>4. ASSUME NEW c \in Conns, Handler(c), ~Message(c) PROVE OwnInv'
  BY <1>1, <1>4 DEF Handler, ReadRow, Start, UpgradeFails, StoreName, StopFrame, StopWrite, Leave,
                    Close, relayVars
<1>5. ASSUME NEW c \in Conns, Relay(c) PROVE OwnInv'
  BY <1>5, OwnRelay DEF Relay
<1>6. CASE Tick \/ Shutdown \/ Down \/ Restart \/ UNCHANGED vars
  BY <1>1, <1>6 DEF Tick, Shutdown, Down, Restart, vars, relayVars
<1> QED
  BY <1>2, <1>3, <1>4, <1>5, <1>6 DEF Next

\* A row is only ever completed by the connection that opened it, whatever
\* other connections, REST requests and restarts do in between.
THEOREM RowsAreOwned == Spec => []RowsOwned
<1>1. Init => OwnInv
  BY DEF Init, OwnInv, RowsOwned, OpenOwned
<1>2. OwnInv => RowsOwned
  BY DEF OwnInv
<1> QED
  BY <1>1, <1>2, OwnNext, SessionsTypeCorrect, PTL DEF Spec

-----------------------------------------------------------------------------
\* Why a session says it is running.

\* What storing a status makes of a session that says it is running.
LEMMA StoreRunning ==
  ASSUME TypeOK, NEW s \in Sessions, NEW st \in Status, NEW who \in Writer, Store(s, st, who)
  PROVE  /\ \A r \in Sessions : r # s => status'[r] = status[r] /\ last'[r] = last[r]
         /\ status'[s] = "running" => last'[s] \in {who, "fault"}
BY DEF Store, TypeOK

\* A handler may only leave the read loop having stored "stopped", or tried to.
LEMMA RunningHandler ==
  ASSUME TypeOK, RunningExplained, NEW c \in Conns, Handler(c)
  PROVE  RunningExplained'
<1> USE DEF RunningExplained, rowVars
<1>1. CASE UNCHANGED <<status, last, session>> /\ \A d \in Conns : pc[d] = "serving" => pc'[d] = "serving"
  BY <1>1
<1>2. CASE ReadRow(c) \/ Start(c) \/ UpgradeFails(c) \/ StoreName(c) \/ Message(c) \/ StopWrite(c) \/ Close(c)
  BY <1>1, <1>2 DEF ReadRow, Start, UpgradeFails, StoreName, Message, StopWrite, Close, Return, TypeOK
<1>3. CASE StopFrame(c) \/ Leave(c)
  <2>1. Store(session[c], "stopped", "nobody") /\ UNCHANGED session
        /\ \A d \in Conns : d # c => pc'[d] = pc[d]
    BY <1>3 DEF StopFrame, Leave, TypeOK
  <2>0. session[c] \in Sessions /\ "stopped" \in Status /\ "nobody" \in Writer
    BY DEF Status, Writer, TypeOK
  <2>2. \A s \in Sessions : s # session[c] => status'[s] = status[s] /\ last'[s] = last[s]
    BY <2>0, <2>1, StoreRunning
  <2>3. status'[session[c]] = "running" => last'[session[c]] = "fault"
    BY <2>0, <2>1 DEF Store, TypeOK
  <2> QED
    BY <2>1, <2>2, <2>3
<1> QED
  BY <1>2, <1>3 DEF Handler

LEMMA RunningRelay ==
  ASSUME TypeOK, RunningExplained, NEW c \in Conns, NEW t \in Sources, RelayStep(c, t)
  PROVE  RunningExplained'
<1> USE DEF RunningExplained
<1> DEFINE e == Head(todo[c][t])
<1>1. UNCHANGED <<pc, session>> /\ session[c] \in Sessions
  BY DEF RelayStep, connVars, TypeOK
<1>2. CASE PersistStatus(c, e)
  <2>1. PICK who \in Writer : /\ Store(session[c], e, who) /\ e \in Status
                              /\ who = IF pc[c] = "serving" THEN "relay" ELSE "late"
    BY <1>2 DEF PersistStatus, Status, Writer
  <2>2. /\ \A s \in Sessions : s # session[c] => status'[s] = status[s] /\ last'[s] = last[s]
        /\ status'[session[c]] = "running" => last'[session[c]] \in {who, "fault"}
    BY <1>1, <2>1, StoreRunning
  <2> QED
    BY <1>1, <2>1, <2>2
<1>3. CASE PersistStart(c, e) \/ PersistEnd(c, e)
  BY <1>1, <1>3 DEF PersistStart, PersistEnd, rowVars
<1> QED
  BY <1>2, <1>3 DEF RelayStep

LEMMA RunningNext == TypeOK /\ RunningExplained /\ [Next]_vars => RunningExplained'
<1> SUFFICES ASSUME TypeOK, RunningExplained, [Next]_vars PROVE RunningExplained'
  OBVIOUS
<1>1. ASSUME NEW s \in Sessions, Create(s) \/ Post(s) PROVE RunningExplained'
  BY <1>1 DEF Create, Post, RunningExplained, TypeOK, rowVars, connVars
<1>6. ASSUME NEW s \in Sessions, Stop(s) PROVE RunningExplained'
  <2>1. Store(s, "stopped", "nobody") /\ UNCHANGED <<pc, session>>
    BY <1>6 DEF Stop, connVars
  <2>2. /\ \A r \in Sessions : r # s => status'[r] = status[r] /\ last'[r] = last[r]
        /\ status'[s] = "running" => last'[s] = "fault"
    BY <2>1 DEF Store, TypeOK
  <2> QED
    BY <2>1, <2>2 DEF RunningExplained
<1>2. ASSUME NEW c \in Conns, Handler(c) PROVE RunningExplained'
  BY <1>2, RunningHandler
<1>3. ASSUME NEW c \in Conns, Relay(c) PROVE RunningExplained'
  BY <1>3, RunningRelay DEF Relay
<1>4. CASE Down
  <2>1. \A s \in Sessions : (\E c \in Conns : session[c] = s /\ pc[c] = "serving") /\ status[s] = "running"
                              => last'[s] = "cut"
    BY <1>4 DEF Down
  <2>2. \A s \in Sessions : last'[s] = "cut" \/ last'[s] = last[s]
    BY <1>4 DEF Down
  <2> QED
    BY <1>4, <2>1, <2>2 DEF Down, RunningExplained
<1>5. CASE Tick \/ Shutdown \/ Restart \/ UNCHANGED vars
  BY <1>5 DEF Tick, Shutdown, Restart, vars, rowVars, connVars, RunningExplained
<1> QED
  BY <1>1, <1>2, <1>3, <1>4, <1>5, <1>6 DEF Next

\* A session that says "running" with nobody serving it was just created, was
\* cut off with the process, or owes its status to a late relay or to the last
\* UPDATE's failing.
THEOREM RunningIsExplained == Spec => []RunningExplained
<1>1. Init => RunningExplained
  BY DEF Init, RunningExplained
<1> QED
  BY <1>1, RunningNext, SessionsTypeCorrect, PTL DEF Spec

-----------------------------------------------------------------------------
\* The name a connection works under.

\* A connection that read a row without a name, and has not stored one yet.
Nameless(c) == pc[c] \in {"read", "started"} /\ seen[c] = None

\* Unless raced, at most one connection is nameless, and only as long as the
\* session is; what the others read or use is the name that is stored, but for
\* those whose own name was not.
NameFact(c) ==
  ~raced[session[c]] =>
    /\ Nameless(c) => /\ name[session[c]] = None
                      /\ \A d \in Conns : d # c /\ session[d] = session[c] => ~Nameless(d)
    /\ pc[c] \in {"read", "started"} /\ seen[c] # None => name[session[c]] = seen[c]
    /\ pc[c] = "started" =>
         adapterName[c] # None /\ (seen[c] # None => adapterName[c] = seen[c])
    /\ pc[c] \in {"serving", "stopWrite"} /\ c \notin unnamed =>
         name[session[c]] # None /\ adapterName[c] = name[session[c]]

NameInv == \A c \in Conns : NameFact(c)

\* Steps that open no connection and store no name.
NamesKept ==
  /\ name' = name /\ session' = session /\ raced' = raced /\ unnamed' = unnamed
  /\ \A d \in Conns :
       \/ /\ seen'[d] = seen[d] /\ adapterName'[d] = adapterName[d]
          /\ \/ pc'[d] = pc[d]
             \/ pc[d] \in {"serving", "stopWrite"} /\ pc'[d] \in {"serving", "stopWrite"}
       \/ pc'[d] \in {"left", "closed"}

LEMMA NameKept ==
  ASSUME NameInv, NamesKept
  PROVE  NameInv'
<1> USE DEF NamesKept
<1> SUFFICES ASSUME NEW c \in Conns PROVE NameFact(c)'
  BY DEF NameInv
<1>1. NameFact(c)
  BY DEF NameInv
<1>2. \A d \in Conns : Nameless(d)' => Nameless(d)
  BY DEF Nameless
<1>3. CASE pc'[c] \in {"left", "closed"}
  BY <1>3 DEF NameFact, Nameless
<1>4. CASE pc'[c] \notin {"left", "closed"}
  BY <1>1, <1>2, <1>4 DEF NameFact, Nameless
<1> QED
  BY <1>3, <1>4

LEMMA NameRead ==
  ASSUME TypeOK, NameInv, NEW c \in Conns, ReadRow(c)
  PROVE  NameInv'
<1> SUFFICES ASSUME NEW d \in Conns, ~raced'[session[d]] PROVE NameFact(d)'
  BY DEF NameInv, NameFact, ReadRow
<1>1. /\ pc' = [pc EXCEPT ![c] = "read"] /\ seen' = [seen EXCEPT ![c] = name[session[c]]]
      /\ UNCHANGED <<name, session, adapterName, unnamed>> /\ session[c] \in Sessions /\ pc[c] = "idle"
      /\ pc'[c] = "read" /\ seen'[c] = name[session[c]]
      /\ \A x \in Conns : x # c => pc'[x] = pc[x] /\ seen'[x] = seen[x]
  BY DEF ReadRow, failVars, TypeOK
<1>2. /\ ~raced[session[d]]
      /\ session[d] = session[c] /\ name[session[c]] = None => \A x \in Conns : session[x] = session[c] => ~Nameless(x)
  BY <1>1 DEF ReadRow, TypeOK, Nameless
<1>3. NameFact(d)
  BY DEF NameInv
<1>4. CASE d = c
  BY <1>1, <1>2, <1>4 DEF NameFact, Nameless
<1>5. CASE d # c
  <2>1. Nameless(d)' => Nameless(d) /\ ~(session[c] = session[d] /\ Nameless(c)')
    BY <1>1, <1>2, <1>5 DEF Nameless
  <2> QED
    BY <1>1, <1>2, <1>3, <1>5, <2>1 DEF NameFact, Nameless
<1> QED
  BY <1>4, <1>5

LEMMA NameStart ==
  ASSUME TypeOK, NameInv, NEW c \in Conns, Start(c)
  PROVE  NameInv'
<1> SUFFICES ASSUME NEW d \in Conns PROVE NameFact(d)'
  BY DEF NameInv
<1>1. /\ UNCHANGED <<name, session, seen, raced, unnamed>> /\ pc[c] = "read" /\ pc'[c] = "started"
      /\ adapterName'[c] = IF seen[c] = None THEN minute ELSE seen[c]
      /\ \A x \in Conns : x # c => pc'[x] = pc[x] /\ adapterName'[x] = adapterName[x]
  BY DEF Start, failVars, TypeOK
<1>2. minute # None
  BY SessionsAssumption DEF TypeOK
<1>3. NameFact(d) /\ \A x \in Conns : Nameless(x)' <=> Nameless(x)
  BY <1>1 DEF NameInv, Nameless
<1> QED
  BY <1>1, <1>2, <1>3 DEF NameFact, Nameless

LEMMA NameStore ==
  ASSUME TypeOK, NameInv, NEW c \in Conns, StoreName(c)
  PROVE  NameInv'
<1> SUFFICES ASSUME NEW d \in Conns, ~raced[session[d]] PROVE NameFact(d)'
  BY DEF NameInv, NameFact, StoreName
<1>1. /\ UNCHANGED <<session, seen, adapterName, raced>> /\ session[c] \in Sessions
      /\ pc[c] = "started" /\ pc'[c] = "serving"
      /\ \A x \in Conns : x # c => pc'[x] = pc[x]
  BY DEF StoreName, TypeOK
<1>2. NameFact(c) /\ NameFact(d) /\ session[d] \in Sessions
  BY DEF NameInv, TypeOK
<1>3. \A x \in Conns : Nameless(x)' => Nameless(x) /\ x # c
  BY <1>1 DEF Nameless
<1>f. CASE seen[c] = None /\ unnamed' = unnamed \cup {c} /\ UNCHANGED name
  BY <1>1, <1>2, <1>3, <1>f DEF NameFact, Nameless
<1>s. CASE /\ name' = IF seen[c] = None THEN [name EXCEPT ![session[c]] = adapterName[c]] ELSE name
           /\ UNCHANGED unnamed
  <2>1. \A s \in Sessions : name'[s] = IF seen[c] = None /\ s = session[c] THEN adapterName[c] ELSE name[s]
    BY <1>1, <1>s DEF TypeOK
  <2>4. CASE d = c
    BY <1>s, <1>1, <1>2, <2>1, <2>4 DEF NameFact, Nameless
  <2>5. CASE d # c /\ (seen[c] # None \/ session[d] # session[c])
    BY <1>s, <1>1, <1>2, <1>3, <2>1, <2>5 DEF NameFact, Nameless
  <2>6. CASE d # c /\ seen[c] = None /\ session[d] = session[c]
    <3>1. name[session[c]] = None /\ ~Nameless(d)
      BY <1>1, <1>2, <2>6 DEF NameFact, Nameless
    <3>2. /\ pc[d] \notin {"read", "started"}
          /\ pc[d] \in {"serving", "stopWrite"} => d \in unnamed
      BY <1>2, <2>6, <3>1 DEF NameFact, Nameless
    <3> QED
      BY <1>s, <1>1, <2>6, <3>2 DEF NameFact, Nameless
  <2> QED
    BY <2>4, <2>5, <2>6
<1> QED
  BY <1>f, <1>s DEF StoreName

LEMMA NameNext == TypeOK /\ NameInv /\ [Next]_vars => NameInv'
<1> SUFFICES ASSUME TypeOK, NameInv, [Next]_vars, ~NamesKept PROVE NameInv'
  BY NameKept
<1> USE DEF NamesKept
<1>1. ASSUME NEW s \in Sessions, Create(s) \/ Post(s) \/ Stop(s) PROVE FALSE
  BY <1>1 DEF Create, Post, Stop, connVars, failVars
<1>2. ASSUME NEW c \in Conns, Handler(c) PROVE NameInv'
  <2>1. CASE ReadRow(c) \/ Start(c) \/ StoreName(c)
    BY <2>1, NameRead, NameStart, NameStore
  <2>2. CASE UpgradeFails(c) \/ Message(c) \/ StopFrame(c) \/ StopWrite(c) \/ Leave(c) \/ Close(c)
    BY <2>2 DEF UpgradeFails, Message, StopFrame, StopWrite, Leave, Close, Return, failVars, TypeOK
  <2> QED
    BY <1>2, <2>1, <2>2 DEF Handler
<1>3. ASSUME NEW c \in Conns, Relay(c) PROVE FALSE
  BY <1>3 DEF Relay, RelayStep, connVars
<1>4. CASE Down
  <2>1. \A d \in Conns : \/ pc'[d] = "closed"
                         \/ pc[d] = "idle" /\ pc'[d] = "idle"
    BY <1>4 DEF Down
  <2>2. name' = name /\ session' = session /\ raced' = raced /\ unnamed' = unnamed
    BY <1>4 DEF Down, failVars
  <2> QED
    BY <2>1, <2>2 DEF NameInv, NameFact, Nameless
<1>5. CASE Tick \/ Shutdown \/ Restart \/ UNCHANGED vars
  BY <1>5 DEF Tick, Shutdown, Restart, vars, connVars, failVars
<1> QED
  BY <1>1, <1>2, <1>3, <1>4, <1>5 DEF Next

\* Unless two connections read the row before a name was stored, or its own name
\* could not be stored, every connection of a session works under the name that
\* is stored, restarts included.
THEOREM NamesDoAgree == Spec => []NamesAgree
<1>1. Init => NameInv
  BY DEF Init, NameInv, NameFact, Nameless
<1>2. TypeOK /\ NameInv => NamesAgree
  BY DEF NameInv, NameFact, NamesAgree, Attached
<1> QED
  BY <1>1, <1>2, NameNext, SessionsTypeCorrect, PTL DEF Spec

-----------------------------------------------------------------------------
\* A row that is opened is finished.

\* A start is followed by its end, and an end is still to be relayed.
Paired(q) == \A k \in DOMAIN q : q[k] = "start" => k + 1 \in DOMAIN q /\ q[k + 1] = "end"
HasEnd(q) == \E k \in DOMAIN q : q[k] = "end"

LEMMA PairedScripts ==
  /\ Paired(<<>>)
  /\ \A a \in Answers : Paired(a) /\ Paired(Echo \o a)
BY DEF Paired, Answers, Echo

LEMMA PairedTail ==
  ASSUME NEW q \in Seq(Event), q # <<>>, Paired(q)
  PROVE  /\ Paired(Tail(q))
         /\ Head(q) = "start" => HasEnd(Tail(q))
         /\ Head(q) # "end" /\ HasEnd(q) => HasEnd(Tail(q))
<1>1. /\ Len(q) \in Nat /\ Len(q) > 0 /\ DOMAIN q = 1..Len(q) /\ Head(q) = q[1]
      /\ DOMAIN Tail(q) = 1..(Len(q) - 1)
      /\ \A k \in 1..(Len(q) - 1) : Tail(q)[k] = q[k + 1]
  BY HeadTailProperties, EmptySeq, LenProperties
<1>2. Paired(Tail(q))
  <2> SUFFICES ASSUME NEW k \in 1..(Len(q) - 1), q[k + 1] = "start"
               PROVE  k + 1 \in 1..(Len(q) - 1) /\ Tail(q)[k + 1] = "end"
    BY <1>1 DEF Paired
  <2>1. k + 1 \in DOMAIN q
    BY <1>1
  <2>2. (k + 1) + 1 \in DOMAIN q /\ q[(k + 1) + 1] = "end"
    BY <2>1 DEF Paired
  <2> QED
    BY <1>1, <2>2
<1>3. ASSUME Head(q) = "start" PROVE HasEnd(Tail(q))
  <2>1. 2 \in 1..Len(q) /\ q[2] = "end"
    BY <1>1, <1>3 DEF Paired
  <2>2. 1 \in DOMAIN Tail(q) /\ Tail(q)[1] = "end"
    BY <1>1, <2>1
  <2> QED
    BY <2>2 DEF HasEnd
<1>4. ASSUME Head(q) # "end", HasEnd(q) PROVE HasEnd(Tail(q))
  <2>1. PICK k \in 1..Len(q) : q[k] = "end"
    BY <1>1, <1>4 DEF HasEnd
  <2>2. k - 1 \in DOMAIN Tail(q) /\ Tail(q)[k - 1] = "end"
    BY <1>1, <1>4, <2>1
  <2> QED
    BY <2>2 DEF HasEnd
<1> QED
  BY <1>2, <1>3, <1>4

\* The answers a connection has opened.
Mine(c) == {i \in DOMAIN messages : messages[i].role = "assistant" /\ messages[i].opener = c}

\* The open row is the youngest of a connection's answers, and without an open
\* row the youngest is finished, or its completion failed.
MineFact(c) ==
  /\ relay[c] = "off" => currentMsgID[c] = 0 /\ Mine(c) = {}
  /\ relay[c] # "exited" =>
       /\ currentMsgID[c] = 0 => Unfinished(c) \subseteq unfinished
       /\ currentMsgID[c] # 0 => /\ currentMsgID[c] \in Mine(c)
                                /\ \A i \in Mine(c) : i <= currentMsgID[c]

\* As long as a row is open an end is to come; sources that have not been used
\* have nothing to relay.
QueueFact(c) ==
  /\ pc[c] \in {"idle", "read", "started"} => relay[c] = "off"
  /\ relay[c] = "off" => currentMsgID[c] = 0
  /\ relay[c] # "exited" =>
       /\ \A t \in Sources : Paired(todo[c][t])
       /\ \A t \in Sources : t > sends[c] => todo[c][t] = <<>>
       /\ currentMsgID[c] # 0 => \E t \in Sources : HasEnd(todo[c][t])

FinishInv == \A c \in Conns : MineFact(c) /\ QueueFact(c)

-----------------------------------------------------------------------------
\* The queues.

\* Steps that leave a connection's queues and open row alone.
LEMMA QueueKept ==
  ASSUME NEW c \in Conns, QueueFact(c), pc'[c] = pc[c] \/ pc'[c] \notin {"idle", "read", "started"},
         relay'[c] = relay[c], currentMsgID'[c] = currentMsgID[c], todo'[c] = todo[c], sends'[c] = sends[c]
  PROVE  QueueFact(c)'
BY DEF QueueFact

LEMMA QueueHandler ==
  ASSUME TypeOK, FinishInv, NEW c \in Conns, Handler(c)
  PROVE  QueueFact(c)'
<1> USE DEF relayVars
<1>0. QueueFact(c)
  BY DEF FinishInv
<1>1. CASE ReadRow(c)
  BY <1>0, <1>1 DEF ReadRow, QueueFact, TypeOK
<1>2. CASE Start(c)
  <2>1. PICK a \in Answers \cup {<<>>} : todo' = [todo EXCEPT ![c][0] = a]
    BY <1>2 DEF Start
  <2>2. \A t \in Sources : Paired(todo'[c][t]) /\ (t > 0 => todo'[c][t] = todo[c][t])
    BY <1>0, <1>2, <2>1, PairedScripts DEF Start, QueueFact, TypeOK
  <2>3. relay'[c] = "off" /\ currentMsgID'[c] = 0 /\ sends'[c] = sends[c] /\ sends[c] \in Nat
    BY <1>0, <1>2, SessionsAssumption DEF Start, QueueFact, TypeOK
  <2>4. relay[c] = "off"
    BY <1>0, <1>2 DEF Start, QueueFact
  <2> QED
    BY <1>0, <2>2, <2>3, <2>4 DEF QueueFact, Sources
<1>3. CASE StoreName(c)
  BY <1>0, <1>3 DEF StoreName, QueueFact, TypeOK
<1>4. CASE Message(c)
  <2> DEFINE u == sends[c] + 1
  <2>1. PICK a \in Answers : todo' = [todo EXCEPT ![c][u] = Echo \o a]
    BY <1>4 DEF Message
  <2>2. sends[c] \in Nat /\ u \in Sources
    BY <1>4, SessionsAssumption DEF Message, Runs, TypeOK, Sources
  <2>3. /\ relay' = relay /\ currentMsgID' = currentMsgID /\ pc' = pc /\ sends'[c] = u
        /\ todo'[c][u] = Echo \o a
        /\ \A t \in Sources : t # u => todo'[c][t] = todo[c][t]
    BY <1>4, <2>1, <2>2 DEF Message, TypeOK
  <2>4. Paired(Echo \o a) /\ ~HasEnd(<<>>)
    BY PairedScripts DEF HasEnd
  <2>5. relay[c] # "exited" => todo[c][u] = <<>>
    BY <1>0, <2>2 DEF QueueFact
  <2> HIDE DEF u
  <2>6. \A t \in Sources : t > u => t > sends[c] /\ t # u
    BY <2>2 DEF Sources, u
  <2> QED
    BY <1>0, <2>3, <2>4, <2>5, <2>6 DEF QueueFact
<1>5. CASE UpgradeFails(c)
  BY <1>0, <1>5, QueueKept DEF UpgradeFails, Return, TypeOK
<1>6. CASE StopFrame(c) \/ StopWrite(c) \/ Leave(c) \/ Close(c)
  BY <1>0, <1>6, QueueKept DEF StopFrame, StopWrite, Leave, Close, Return, TypeOK
<1> QED
  BY <1>1, <1>2, <1>3, <1>4, <1>5, <1>6 DEF Handler

LEMMA QueueRelay ==
  ASSUME TypeOK, FinishInv, NEW c \in Conns, NEW t \in Sources, RelayStep(c, t)
  PROVE  QueueFact(c)'
<1> DEFINE q == todo[c][t]
           e == Head(q)
<1>0. QueueFact(c)
  BY DEF FinishInv
<1>1. /\ relay[c] = "on" /\ pc' = pc /\ sends' = sends
      /\ q \in Seq(Event) /\ q # <<>> /\ Paired(q)
  BY <1>0 DEF RelayStep, Ready, QueueFact, TypeOK, connVars
<1>x. CASE relay'[c] = "exited"
  BY <1>0, <1>1, <1>x DEF QueueFact
<1>w. CASE relay'[c] # "exited"
  <2>0. todo' = [todo EXCEPT ![c][t] = Tail(q)] /\ UNCHANGED relay
    <3>1. ~(relay' = [relay EXCEPT ![c] = "exited"])
      BY <1>w DEF TypeOK
    <3> QED
      BY <3>1 DEF RelayStep
  <2>1. /\ relay'[c] = "on" /\ todo'[c][t] = Tail(q)
        /\ \A u \in Sources : u # t => todo'[c][u] = todo[c][u]
    BY <1>1, <2>0 DEF TypeOK
  <2>2. /\ Paired(Tail(q))
        /\ e = "start" => HasEnd(Tail(q))
        /\ e # "end" /\ HasEnd(q) => HasEnd(Tail(q))
    BY <1>1, PairedTail
  <2>3. t <= sends[c] /\ sends[c] \in Nat
    BY <1>0, <1>1, SessionsAssumption DEF QueueFact, TypeOK, Sources
  <2>4. currentMsgID'[c] # 0 => \E u \in Sources : HasEnd(todo'[c][u])
    <3>1. CASE e = "start"
      BY <2>1, <2>2, <3>1
    <3>2. CASE e # "start" /\ currentMsgID'[c] # 0
      <4>1. e # "end" /\ NoRow
        BY <3>2, RelayRows DEF Ended, TypeOK
      <4> QED
        BY <1>0, <1>1, <2>1, <2>2, <3>2, <4>1 DEF QueueFact, NoRow
    <3> QED
      BY <3>1, <3>2
  <2>5. /\ pc[c] \notin {"idle", "read", "started"}
        /\ \A u \in Sources : Paired(todo'[c][u]) /\ (u > sends[c] => todo'[c][u] = <<>>)
    BY <1>0, <1>1, <2>1, <2>2, <2>3 DEF QueueFact, Sources
  <2> QED
    BY <1>1, <2>1, <2>4, <2>5 DEF QueueFact
<1> QED
  BY <1>x, <1>w

-----------------------------------------------------------------------------
\* The rows.

\* A connection's answers, and which of them is the youngest, depend on its
\* rows only.
LEMMA MineKept ==
  ASSUME TypeOK, NEW c \in Conns, MineFact(c),
         relay'[c] = relay[c] \/ (relay[c] = "off" /\ relay'[c] = "on") \/ relay'[c] = "exited",
         currentMsgID'[c] = currentMsgID[c], unfinished \subseteq unfinished',
         Mine(c)' = Mine(c), \A i \in Mine(c) : messages'[i].status = messages[i].status
  PROVE  MineFact(c)'
<1>1. Unfinished(c)' = Unfinished(c)
  BY DEF Unfinished, Mine
<1> QED
  BY <1>1 DEF MineFact

\* A message that is said is nobody's answer.
LEMMA MineSaid ==
  ASSUME TypeOK, NEW c \in Conns, NEW d \in Conns \cup {None}, NEW s \in Sessions,
         Insert(Said(d, s))
  PROVE  Mine(c)' = Mine(c) /\ \A i \in Mine(c) : messages'[i].status = messages[i].status
<1>0. CASE UNCHANGED messages
  BY <1>0 DEF Mine
<1> SUFFICES ASSUME messages' = Append(messages, Said(d, s))
             PROVE  Mine(c)' = Mine(c) /\ \A i \in Mine(c) : messages'[i].status = messages[i].status
  BY <1>0 DEF Insert
<1>1. Said(d, s) \in Row /\ Said(d, s).role = "user"
  BY RowTypes DEF Said
<1>2. /\ DOMAIN messages' = DOMAIN messages \cup {Len(messages) + 1}
      /\ \A i \in DOMAIN messages : messages'[i] = messages[i]
      /\ messages'[Len(messages) + 1] = Said(d, s)
  BY <1>1, AppendRow DEF TypeOK
<1> QED
  BY <1>1, <1>2 DEF Mine

\* A relay's step and the rows of its own connection and of the others.
LEMMA MineRelay ==
  ASSUME TypeOK, OwnInv, FinishInv, NEW d \in Conns, NEW t \in Sources, RelayStep(d, t), NEW c \in Conns
  PROVE  MineFact(c)'
<1>1. /\ relay[d] = "on" /\ relay'[d] \in {"on", "exited"}
      /\ c # d => relay'[c] = relay[c]
  BY DEF RelayStep, TypeOK
<1>2. /\ Len(messages) \in Nat /\ DOMAIN messages = 1..Len(messages) /\ session[d] \in Sessions
      /\ currentMsgID[d] # 0 => currentMsgID[d] \in DOMAIN messages
  BY LenProperties DEF TypeOK
<1>3. MineFact(c) /\ MineFact(d)
  BY DEF FinishInv
<1>4. CASE NoRow
  BY <1>1, <1>3, <1>4, MineKept DEF NoRow, Mine
<1>5. CASE Opened(d)
  <2> DEFINE new == Len(messages) + 1
  <2>1. /\ Streaming(d, session[d]) \in Row /\ Streaming(d, session[d]).opener = d
    BY <1>2, RowTypes DEF Streaming
  <2>2. /\ DOMAIN messages' = DOMAIN messages \cup {new}
        /\ \A i \in DOMAIN messages : messages'[i] = messages[i]
        /\ messages'[new] = Streaming(d, session[d])
    BY <1>5, <2>1, AppendRow DEF Opened, TypeOK
  <2>3. c # d => Mine(c)' = Mine(c) /\ currentMsgID'[c] = currentMsgID[c] /\ unfinished' = unfinished
    BY <1>5, <2>1, <2>2 DEF Mine, Opened, TypeOK
  <2>4. CASE c # d
    BY <1>1, <1>3, <2>2, <2>3, <2>4, MineKept DEF Mine
  <2>5. CASE c = d
    <3>1. /\ currentMsgID'[d] = new /\ new # 0
          /\ \A i \in DOMAIN messages' : i <= new
      BY <1>2, <1>5, <2>2 DEF Opened, TypeOK
    <3>2. new \in Mine(d)'
      BY <2>1, <2>2 DEF Mine, Streaming
    <3>3. \A i \in Mine(d)' : i <= new
      BY <3>1 DEF Mine
    <3> HIDE DEF new
    <3> QED
      BY <1>1, <2>5, <3>1, <3>2, <3>3 DEF MineFact
  <2> QED
    BY <2>4, <2>5
<1>6. CASE Ended(d)
  <2>1. PICK i \in DOMAIN messages : i = currentMsgID[d]
    BY <1>2, <1>6 DEF Ended
  <2>2. /\ messages[i].opener = d /\ currentMsgID'[d] = 0 /\ unfinished \subseteq unfinished'
        /\ c # d => currentMsgID'[c] = currentMsgID[c]
    BY <1>6, <2>1 DEF Ended, OwnInv, OpenOwned, TypeOK
  <2>3. /\ DOMAIN messages' = DOMAIN messages
        /\ \A j \in DOMAIN messages : j # i => messages'[j] = messages[j]
        /\ \A j \in DOMAIN messages :
             messages'[j].opener = messages[j].opener /\ messages'[j].role = messages[j].role
        /\ messages'[i].status = "done" \/ i \in unfinished'
    BY <1>6, <2>1, CompleteRow DEF Ended, TypeOK
  <2>4. Mine(c)' = Mine(c) /\ Mine(d)' = Mine(d)
    BY <2>3 DEF Mine
  <2>5. CASE c # d
    <3>1. \A j \in Mine(c) : j # i /\ messages'[j].status = messages[j].status
      BY <2>2, <2>3, <2>5 DEF Mine
    <3> QED
      BY <1>1, <1>3, <2>2, <2>4, <2>5, <3>1, MineKept
  <2>6. CASE c = d
    <3>1. i \in Mine(d)' /\ \A j \in Mine(d)' : j <= i
      BY <1>1, <1>3, <1>6, <2>1, <2>4 DEF Ended, MineFact
    <3>2. Unfinished(d)' \subseteq unfinished'
      <4> SUFFICES ASSUME NEW j \in Mine(d)', messages'[j].status = "streaming",
                          \A k \in Mine(d)' : k <= j
                   PROVE  j \in unfinished'
        BY DEF Unfinished, Mine
      <4>1. j = i
        BY <1>2, <2>3, <3>1 DEF Mine
      <4> QED
        BY <2>3, <4>1
    <3> QED
      BY <1>1, <2>2, <2>6, <3>2 DEF MineFact
  <2> QED
    BY <2>5, <2>6
<1> QED
  BY <1>4, <1>5, <1>6, RelayRows

-----------------------------------------------------------------------------
\* Steps of others leave a connection's queues alone.
LEMMA QueueNext ==
  ASSUME TypeOK, FinishInv, Next, NEW c \in Conns
  PROVE  QueueFact(c)'
<1>0. QueueFact(c)
  BY DEF FinishInv
<1>1. ASSUME NEW s \in Sessions, Create(s) \/ Post(s) \/ Stop(s) PROVE QueueFact(c)'
  BY <1>0, <1>1, QueueKept DEF Create, Post, Stop, connVars, relayVars
<1>2. ASSUME NEW d \in Conns, Handler(d) PROVE QueueFact(c)'
  <2>1. CASE d = c
    BY <1>2, <2>1, QueueHandler
  <2>2. CASE d # c
    <3>1. /\ pc'[c] = pc[c] /\ relay'[c] = relay[c] /\ currentMsgID'[c] = currentMsgID[c]
          /\ sends'[c] = sends[c] /\ todo'[c] = todo[c]
      BY <1>2, <2>2 DEF Handler, ReadRow, Start, UpgradeFails, StoreName, Message, StopFrame, StopWrite,
                        Leave, Close, Return, relayVars, TypeOK
    <3> QED
      BY <1>0, <3>1, QueueKept
  <2> QED
    BY <2>1, <2>2
<1>3. ASSUME NEW d \in Conns, NEW t \in Sources, RelayStep(d, t) PROVE QueueFact(c)'
  <2>1. CASE d = c
    BY <1>3, <2>1, QueueRelay
  <2>2. CASE d # c
    <3>1. currentMsgID'[c] = currentMsgID[c]
      BY <1>3, <2>2 DEF RelayStep, PersistStatus, PersistStart, PersistEnd, TypeOK
    <3>2. pc'[c] = pc[c] /\ relay'[c] = relay[c] /\ sends'[c] = sends[c] /\ todo'[c] = todo[c]
      BY <1>3, <2>2 DEF RelayStep, connVars, TypeOK
    <3> QED
      BY <1>0, <3>1, <3>2, QueueKept
  <2> QED
    BY <2>1, <2>2
<1>4. CASE Down
  <2>1. /\ relay'[c] \in {"off", "exited"} /\ (relay'[c] = "off" => relay[c] = "off")
        /\ currentMsgID' = currentMsgID /\ todo'[c] = Silent
        /\ pc'[c] \in {"idle", "read", "started"} => pc[c] = "idle" /\ relay'[c] = relay[c]
    BY <1>0, <1>4 DEF Down, QueueFact, TypeOK
  <2> QED
    BY <1>0, <2>1, PairedScripts DEF QueueFact, Silent
<1>5. CASE Tick \/ Shutdown \/ Restart
  BY <1>0, <1>5, QueueKept DEF Tick, Shutdown, Restart, connVars, relayVars
<1> QED
  BY <1>1, <1>2, <1>3, <1>4, <1>5 DEF Next, Relay

LEMMA MineNext ==
  ASSUME TypeOK, OwnInv, FinishInv, Next, NEW c \in Conns
  PROVE  MineFact(c)'
<1>0. MineFact(c) /\ QueueFact(c)
  BY DEF FinishInv
<1>1. ASSUME UNCHANGED <<messages, unfinished>>, currentMsgID'[c] = currentMsgID[c],
             relay'[c] = relay[c] \/ (relay[c] = "off" /\ relay'[c] = "on") \/ relay'[c] = "exited"
      PROVE  MineFact(c)'
  BY <1>0, <1>1, MineKept DEF Mine
<1>2. ASSUME NEW s \in Sessions, Create(s) \/ Stop(s) PROVE MineFact(c)'
  BY <1>1, <1>2 DEF Create, Stop, relayVars, failVars
<1>3. ASSUME NEW s \in Sessions, Post(s) PROVE MineFact(c)'
  BY <1>0, <1>3, MineSaid, MineKept DEF Post, relayVars, failVars
<1>4. ASSUME NEW d \in Conns, Message(d) PROVE MineFact(c)'
  <2>1. session[d] \in Sessions /\ Insert(Said(d, session[d]))
    BY <1>4 DEF Message, TypeOK
  <2>2. Mine(c)' = Mine(c) /\ \A i \in Mine(c) : messages'[i].status = messages[i].status
    BY <2>1, MineSaid
  <2> QED
    BY <1>0, <1>4, <2>2, MineKept DEF Message, failVars
<1>5. ASSUME NEW d \in Conns, Handler(d), ~Message(d) PROVE MineFact(c)'
  <2>1. CASE ~StoreName(d)
    BY <1>1, <1>5, <2>1 DEF Handler, ReadRow, Start, UpgradeFails, StopFrame, StopWrite, Leave, Close,
                        relayVars, failVars
  <2>2. CASE StoreName(d)
    <3>1. relay[d] = "off"
      BY <2>2 DEF StoreName, FinishInv, QueueFact
    <3> QED
      BY <1>1, <2>2, <3>1 DEF StoreName, TypeOK
  <2> QED
    BY <2>1, <2>2
<1>6. ASSUME NEW d \in Conns, NEW t \in Sources, RelayStep(d, t) PROVE MineFact(c)'
  BY <1>6, MineRelay
<1>7. CASE Tick \/ Shutdown \/ Down \/ Restart
  BY <1>1, <1>7 DEF Tick, Shutdown, Down, Restart, relayVars, failVars
<1> QED
  BY <1>2, <1>3, <1>4, <1>5, <1>6, <1>7 DEF Next, Relay

LEMMA FinishNext == TypeOK /\ OwnInv /\ FinishInv /\ [Next]_vars => FinishInv'
<1> SUFFICES ASSUME TypeOK, OwnInv, FinishInv, [Next]_vars PROVE FinishInv'
  OBVIOUS
<1>1. CASE Next
  BY <1>1, QueueNext, MineNext DEF FinishInv
<1>2. CASE UNCHANGED vars
  BY <1>2 DEF vars, connVars, relayVars, failVars, FinishInv, MineFact, QueueFact, Mine, Unfinished
<1> QED
  BY <1>1, <1>2

LEMMA FinishInit == Init => OwnInv /\ FinishInv
<1> SUFFICES ASSUME Init PROVE OwnInv /\ FinishInv
  OBVIOUS
<1>1. OwnInv /\ \A c \in Conns : MineFact(c)
  BY DEF Init, OwnInv, RowsOwned, OpenOwned, MineFact, Mine, Unfinished
<1>2. \A c \in Conns : QueueFact(c)
  BY PairedScripts DEF Init, QueueFact, Silent
<1> QED
  BY <1>1, <1>2 DEF FinishInv

\* When a connection has nothing left to relay its youngest answer is finished,
\* unless the UPDATE that would have finished it failed.
THEOREM RowsDoFinish == Spec => []RowsFinish
<1>1. TypeOK /\ FinishInv => RowsFinish
  BY DEF FinishInv, MineFact, QueueFact, HasEnd, RowsFinish, Silent
<1> QED
  BY <1>1, FinishInit, OwnNext, FinishNext, SessionsTypeCorrect, PTL DEF Spec

-----------------------------------------------------------------------------
\* The history of SessionRows.

Gone == {c \in Conns : relay[c] = "exited"}

LEMMA HistoryLose ==
  ASSUME UNCHANGED <<messages, session>>,
         \A c \in Conns : relay[c] = "exited" => relay'[c] = "exited"
  PROVE  History!Lose
BY DEF History!Lose

\* A step of a relay opens a row, finishes its youngest, or writes none.
LEMMA HistoryRelay ==
  ASSUME TypeOK, OwnInv, FinishInv, NEW c \in Conns, NEW t \in Sources, RelayStep(c, t)
  PROVE  History!Lose \/ History!Begin(c) \/ History!Finish(c)
<1>1. /\ relay[c] = "on" /\ UNCHANGED session
      /\ relay' = relay \/ relay' = [relay EXCEPT ![c] = "exited"]
  BY DEF RelayStep, connVars
<1>2. /\ c \notin Gone
      /\ Gone' = Gone \/ Gone' = Gone \cup {c}
      /\ \A d \in Conns : relay[d] = "exited" => relay'[d] = "exited"
  BY <1>1 DEF Gone, TypeOK
<1>3. CASE UNCHANGED messages
  BY <1>1, <1>2, <1>3, HistoryLose
<1>4. CASE Opened(c)
  <2>1. messages' = Append(messages, History!Answer(c))
    BY <1>4 DEF Opened, Streaming, History!Answer
  <2> QED
    BY <1>1, <1>2, <2>1 DEF History!Begin, Gone
<1>5. CASE Ended(c) /\ Finished(c, currentMsgID[c])
  <2>1. PICK i \in DOMAIN messages : i = currentMsgID[c]
    BY <1>5, LenProperties DEF Ended, TypeOK
  <2>2. messages' = [messages EXCEPT ![i].status = "done", ![i].by = c]
    BY <1>5, <2>1 DEF Finished
  <2>3. messages[i].status = "streaming"
    BY <1>5, <2>1 DEF Ended, OwnInv, OpenOwned
  <2>4. i \in Mine(c) /\ \A j \in Mine(c) : j <= i
    BY <1>1, <1>5, <2>1 DEF Ended, FinishInv, MineFact
  <2>5. History!Youngest(c, i)
    BY <2>4 DEF History!Youngest, History!Answers, Mine
  <2> QED
    BY <1>1, <1>2, <2>2, <2>3, <2>5 DEF History!Finish, Gone
<1> QED
  BY <1>3, <1>4, <1>5, RelayRows DEF NoRow, Ended

LEMMA HistoryNext ==
  TypeOK /\ OwnInv /\ FinishInv /\ [Next]_vars => [History!Next]_(History!vars)
<1> SUFFICES ASSUME TypeOK, OwnInv, FinishInv, [Next]_vars
             PROVE  [History!Next]_(History!vars)
  OBVIOUS
<1>1. ASSUME UNCHANGED <<messages, session, relay>> PROVE History!Lose
  BY <1>1, HistoryLose
<1>2. ASSUME NEW s \in Sessions, Create(s) \/ Stop(s) PROVE History!Next
  BY <1>1, <1>2 DEF Create, Stop, connVars, relayVars, History!Next
<1>3. ASSUME NEW s \in Sessions, Post(s) PROVE History!Next
  <2>1. History!Post(s) \/ UNCHANGED <<messages, session, relay>>
    BY <1>3 DEF Post, Insert, Said, connVars, relayVars, History!Post, History!Question
  <2> QED
    BY <1>1, <2>1 DEF History!Next
<1>4. ASSUME NEW c \in Conns, Message(c) PROVE History!Next
  <2>1. History!Ask(c) \/ UNCHANGED <<messages, session, relay>>
    BY <1>4 DEF Message, Insert, Said, History!Ask, History!Question
  <2> QED
    BY <1>1, <2>1 DEF History!Next
<1>5. ASSUME NEW c \in Conns, StoreName(c) PROVE History!Next
  <2>1. relay[c] = "off"
    BY <1>5 DEF StoreName, FinishInv, QueueFact
  <2>2. \A d \in Conns : relay[d] = "exited" => relay'[d] = "exited"
    BY <1>5, <2>1 DEF StoreName, TypeOK
  <2> QED
    BY <1>5, <2>2, HistoryLose DEF StoreName, History!Next
<1>6. ASSUME NEW c \in Conns, Handler(c), ~Message(c), ~StoreName(c) PROVE History!Next
  BY <1>1, <1>6 DEF Handler, ReadRow, Start, UpgradeFails, StopFrame, StopWrite, Leave, Close,
                    relayVars, History!Next
<1>7. ASSUME NEW c \in Conns, Relay(c) PROVE History!Next
  BY <1>7, HistoryRelay DEF Relay, History!Next
<1>8. CASE Tick \/ Shutdown \/ Restart
  BY <1>1, <1>8 DEF Tick, Shutdown, Restart, connVars, relayVars, History!Next
<1>9. CASE Down
  BY <1>9, HistoryLose DEF Down, TypeOK, History!Next
<1>10. CASE UNCHANGED vars
  BY <1>10 DEF vars, connVars, relayVars, History!vars
<1> QED
  BY <1>2, <1>3, <1>4, <1>5, <1>6, <1>7, <1>8, <1>9, <1>10 DEF Next

\* The connections, REST requests and restarts together keep the history of
\* SessionRows: an answer is finished once, by the relay that opened it and
\* before it opens another (chat_ws.go:112), and by nobody after a restart.
THEOREM ImplementsRows == Spec => HistorySpec
<1>1. Init => History!Init
  BY DEF Init, History!Init
<1> QED
  BY <1>1, FinishInit, OwnNext, FinishNext, HistoryNext, SessionsTypeCorrect, PTL
  DEF Spec, HistorySpec, History!Spec

=============================================================================
