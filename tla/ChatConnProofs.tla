--------------------------- MODULE ChatConnProofs ---------------------------
(***************************************************************************)
(* Theorems about ChatConn, for every kind of session, channel capacity    *)
(* and number of messages, stops and failing statements.                   *)
(***************************************************************************)
EXTENDS ChatConn, SequenceTheorems, TLAPS

\* How far each source has got: a run that has not ended its process has
\* pushed nothing, one that is pushing has something left to push, and the
\* turns still to come have neither echo nor run.
Progress ==
  /\ hpc = "start" => run[0] = "none"
  /\ hpc = "start" => turn = 0
  /\ hpc \in {"start", "hello"} => rpc = "off"
  /\ hpc \in {"echo", "spawn"} => turn > 0 /\ run[turn] = "none"
  /\ hpc = "echo" => emitted[Echo(turn)] < 4
  /\ \A t \in Turns :
       /\ t > turn => run[t] = "none" /\ emitted[Echo(t)] = 0
       /\ run[t] \in {"none", "spawned", "exec"} => emitted[Run(t)] = 0
       /\ run[t] = "emit" => emitted[Run(t)] < Len(RunScript(outcome[t]))

TypeInv == TypeOK /\ Progress

-----------------------------------------------------------------------------
\* Facts about the constants and the scripts.

LEMMA SourceFacts ==
  /\ \A t \in Turns : Echo(t) \in Source /\ Run(t) \in Source /\ Echo(t) # Run(t)
  /\ \A t, u \in Turns : Echo(t) # Run(u) /\ (t # u => Echo(t) # Echo(u) /\ Run(t) # Run(u))
  /\ \A s \in Source : s.turn \in Turns /\ (s = Echo(s.turn) \/ s = Run(s.turn))
BY DEF Source, Echo, Run

LEMMA ScriptFacts ==
  /\ EchoScript \in Seq(EventType) /\ Len(EchoScript) = 4
  /\ \A o \in {"answer", "fail", "silent"} :
       /\ RunScript(o) \in Seq(EventType)
         /\ 1 <= Len(RunScript(o)) /\ Len(RunScript(o)) <= 4
BY DEF EchoScript, RunScript, EventType

LEMMA OutcomeFacts ==
  Outcome \subseteq {"answer", "fail", "silent"} /\ CancelledOutcome \in {"answer", "fail", "silent"}
BY DEF Outcome, CancelledOutcome

\* An event taken from a script at a position the script has is an event.
LEMMA EventOfType ==
  ASSUME NEW s \in Source, NEW script \in Seq(EventType), NEW k \in 1..4, k <= Len(script)
  PROVE  EventOf(s, k, script) \in Event
BY DEF EventOf, Event

\* Pushing the next event of a source keeps the channel and its counter typed.
LEMMA PushType ==
  ASSUME NEW s \in Source, NEW script \in Seq(EventType), Len(script) <= 4,
         emitted \in [Source -> 0..4], events \in Seq(Event), Len(events) <= Cap,
         emitted[s] < Len(script), Push(s, script)
  PROVE  /\ emitted' \in [Source -> 0..4]
         /\ emitted'[s] = emitted[s] + 1
         /\ \A r \in Source : r # s => emitted'[r] = emitted[r]
         /\ events' \in Seq(Event)
         /\ Len(events') <= Cap
         /\ Len(events') = Len(events) + 1
<1>0. emitted[s] \in 0..4 /\ Len(script) \in Nat
  BY LenProperties
<1>1. emitted[s] + 1 \in 1..4 /\ emitted[s] + 1 <= Len(script)
  BY <1>0
<1>2. EventOf(s, emitted[s] + 1, script) \in Event
  BY <1>1, EventOfType
<1>3. /\ emitted' = [emitted EXCEPT ![s] = @ + 1]
      /\ events' = Append(events, EventOf(s, emitted[s] + 1, script))
      /\ Len(events) < Cap
  BY DEF Push
<1>4. /\ emitted' \in [Source -> 0..4]
      /\ emitted'[s] = emitted[s] + 1
      /\ \A r \in Source : r # s => emitted'[r] = emitted[r]
  BY <1>1, <1>3
<1>5. events' \in Seq(Event) /\ Len(events') = Len(events) + 1
  BY <1>2, <1>3, AppendProperties
<1>6. Len(events') <= Cap
  BY <1>3, <1>5, LenProperties, ChatConnAssumption
<1> QED
  BY <1>4, <1>5, <1>6

\* Completing a row leaves the others, their number and the row's role alone.
LEMMA CompleteRow ==
  ASSUME NEW rs \in Seq(Row), NEW i \in Nat, NEW s \in Source, NEW rs2,
         rs2 = [rs EXCEPT ![i].status = "done", ![i].text = s]
  PROVE  /\ rs2 \in Seq(Row)
         /\ Len(rs2) = Len(rs) /\ DOMAIN rs2 = DOMAIN rs
         /\ \A j \in DOMAIN rs : j # i => rs2[j] = rs[j]
         /\ \A j \in DOMAIN rs : rs2[j].role = rs[j].role /\ rs2[j].turn = rs[j].turn
         /\ i \in DOMAIN rs => rs2[i].status = "done" /\ rs2[i].text = s
<1>1. DOMAIN rs2 = DOMAIN rs /\ DOMAIN rs = 1..Len(rs) /\ Len(rs) \in Nat
  BY LenProperties
<1>2. \A j \in DOMAIN rs : rs[j] \in Row
  BY ElementOfSeq
<1>3. \A j \in DOMAIN rs : j # i => rs2[j] = rs[j]
  OBVIOUS
<1>4. i \in DOMAIN rs => rs2[i] = [rs[i] EXCEPT !.status = "done", !.text = s]
  OBVIOUS
<1>5. \A r \in Row : LET r2 == [r EXCEPT !.status = "done", !.text = s]
                     IN /\ r2 \in Row /\ r2.role = r.role /\ r2.turn = r.turn
                        /\ r2.status = "done" /\ r2.text = s
  BY DEF Row
<1>6. \A j \in 1..Len(rs) : rs2[j] \in Row
  BY <1>1, <1>2, <1>3, <1>4, <1>5
<1>7. rs2 \in Seq(Row) /\ Len(rs2) = Len(rs)
  <2>1. rs2 = [j \in 1..Len(rs) |-> rs2[j]]
    BY <1>1
  <2>2. rs2 \in [1..Len(rs) -> Row]
    BY <1>6, <2>1
  <2>3. rs2 \in Seq(Row)
    <3>1. Seq(Row) = UNION {[1..n -> Row] : n \in Nat}
      BY SeqDef
    <3>2. [1..Len(rs) -> Row] \in {[1..n -> Row] : n \in Nat}
      BY <1>1
    <3> QED
      BY <2>2, <3>1, <3>2, Zenon
  <2> QED
    BY <1>1, <2>3, LenProperties
<1> QED
  BY <1>1, <1>2, <1>3, <1>4, <1>5, <1>7

-----------------------------------------------------------------------------
\* Type correctness.

LEMMA TypeInit == Init => TypeInv
<1> SUFFICES ASSUME Init PROVE TypeInv
  OBVIOUS
<1> USE ChatConnAssumption
<1>1. NoEvent \in Event
  BY DEF NoEvent, EventOf, Event, EventType, Source, Run, Turns
<1>2. TypeOK
  BY <1>1 DEF Init, TypeOK, Turns, RunPC, HandlerPC, RelayPC, DbStatus
<1>3. Progress
  BY SourceFacts DEF Init, Progress, Turns
<1> QED
  BY <1>2, <1>3 DEF TypeInv

LEMMA TypeHandler ==
  ASSUME TypeInv, Handler
  PROVE  TypeInv'
<1> USE ChatConnAssumption DEF TypeInv, handlerVars, runVars, relayVars, dbVars, historyVars
<1>1. CASE HandlerStart
  BY <1>1, SourceFacts DEF HandlerStart, TypeOK, Progress, Turns, RunPC, HandlerPC
<1>2. CASE HandlerHello
  BY <1>2 DEF HandlerHello, TypeOK, Progress, Turns, RelayPC, HandlerPC, DbStatus
<1>3. CASE HandlerMessage
  <2>1. turn + 1 \in Turns /\ UserRow(turn + 1) \in Row
    BY <1>3 DEF HandlerMessage, TypeOK, Turns, UserRow, Row, Source, Echo
  <2>2. rows' \in Seq(Row) /\ faults' \in 0..MaxFaults
    <3>1. rows \in Seq(Row) /\ faults \in 0..MaxFaults
      BY DEF TypeOK
    <3>2. CASE rows' = Append(rows, UserRow(turn + 1)) /\ UNCHANGED faults
      BY <2>1, <3>1, <3>2, AppendProperties
    <3>3. CASE Fault /\ UNCHANGED rows
      BY <3>1, <3>3 DEF Fault
    <3> QED
      BY <1>3, <3>2, <3>3 DEF HandlerMessage
  <2>4. TypeOK'
    BY <1>3, <2>1, <2>2 DEF HandlerMessage, TypeOK, HandlerPC
  <2>3. Progress'
    BY <1>3, <2>1 DEF HandlerMessage, TypeOK, Progress, Turns
  <2> QED
    BY <2>3, <2>4
<1>4. CASE HandlerEcho
  <2>1. Push(Echo(turn), EchoScript) /\ turn \in Turns /\ Echo(turn) \in Source
    BY <1>4, SourceFacts DEF HandlerEcho, TypeOK
  <2>0. emitted \in [Source -> 0..4] /\ events \in Seq(Event) /\ Len(events) <= Cap
    BY DEF TypeOK
  <2>a. EchoScript \in Seq(EventType) /\ Len(EchoScript) = 4
    BY ScriptFacts
  <2>2. emitted[Echo(turn)] < Len(EchoScript) /\ Len(EchoScript) <= 4
    BY <1>4, <2>a DEF HandlerEcho, Progress
  <2>3. /\ emitted' \in [Source -> 0..4]
        /\ emitted'[Echo(turn)] = emitted[Echo(turn)] + 1
        /\ \A r \in Source : r # Echo(turn) => emitted'[r] = emitted[r]
        /\ events' \in Seq(Event)
        /\ Len(events') <= Cap
    BY <2>0, <2>a, <2>1, <2>2, PushType
  <2>4. TypeOK'
    BY <1>4, <2>3 DEF HandlerEcho, TypeOK, HandlerPC
  <2>5. /\ \A t \in Turns : emitted'[Run(t)] = emitted[Run(t)]
        /\ \A t \in Turns : t > turn => emitted'[Echo(t)] = emitted[Echo(t)]
    BY <2>1, <2>3, SourceFacts DEF TypeOK, Turns
  <2>6. hpc' = "echo" => emitted'[Echo(turn)] < 4
    <3>1. emitted[Echo(turn)] \in 0..4
      BY <2>0, <2>1
    <3>2. hpc' = "echo" => emitted[Echo(turn)] + 1 # 4
      BY <1>4, <2>a DEF HandlerEcho
    <3> QED
      BY <2>2, <2>3, <2>a, <3>1, <3>2
  <2>7. Progress'
    BY <1>4, <2>5, <2>6 DEF HandlerEcho, TypeOK, Progress
  <2> QED
    BY <2>4, <2>7
<1>5. CASE HandlerSpawn
  BY <1>5 DEF HandlerSpawn, TypeOK, Progress, Turns, RunPC, HandlerPC
<1>6. CASE HandlerStop
  BY <1>6 DEF HandlerStop, StoreStatus, Fault, RelayAnnounces, TypeOK, Progress, Turns, HandlerPC, DbStatus
<1>7. CASE HandlerStopWrite
  BY <1>7 DEF HandlerStopWrite, TypeOK, Progress, Turns, HandlerPC, DbStatus
<1>8. CASE WritersCollide
  BY <1>8 DEF WritersCollide, TypeOK, Progress, Turns, HandlerPC, RelayPC
<1>9. CASE HandlerReadError
  BY <1>9 DEF HandlerReadError, StoreStatus, Fault, TypeOK, Progress, Turns, HandlerPC, DbStatus
<1>10. CASE HandlerReturn
  BY <1>10 DEF HandlerReturn, TypeOK, Progress, Turns, HandlerPC
<1> QED
  BY <1>1, <1>2, <1>3, <1>4, <1>5, <1>6, <1>7, <1>8, <1>9, <1>10 DEF Handler

LEMMA TypeRun ==
  ASSUME TypeInv, NEW t \in Turns, RunStep(t)
  PROVE  TypeInv'
<1> USE ChatConnAssumption DEF TypeInv, handlerVars, runVars, relayVars, dbVars, historyVars
<1>1. CASE RunBegin(t)
  <2>1. CASE ctx = "live"
    BY <1>1, <2>1 DEF RunBegin, TypeOK, Progress, RunPC
  <2>2. CASE ctx = "cancelled"
    <3>1. /\ run[t] = "spawned" /\ run' = [run EXCEPT ![t] = "emit"]
          /\ outcome' = [outcome EXCEPT ![t] = CancelledOutcome]
          /\ UNCHANGED <<hpc, turn, emitted, rpc>>
      BY <1>1, <2>2 DEF RunBegin
    <3>2. TypeOK'
      BY <1>1, <3>1, OutcomeFacts DEF RunBegin, TypeOK, RunPC
    <3>3. 0 < Len(RunScript(outcome'[t])) /\ emitted[Run(t)] = 0
      BY <3>1, <3>2, ScriptFacts, LenProperties DEF TypeOK, Progress
    <3>4. Progress'
      BY <3>1, <3>3 DEF TypeOK, Progress, RunPC
    <3> QED
      BY <3>2, <3>4
  <2> QED
    BY <1>1, <2>1, <2>2 DEF RunBegin
<1>2. CASE RunExit(t)
  <2>1. PICK o \in Outcome : outcome' = [outcome EXCEPT ![t] = o]
    BY <1>2 DEF RunExit
  <2>2. TypeOK'
    BY <1>2, <2>1, OutcomeFacts DEF RunExit, TypeOK, RunPC
  <2>3. 0 < Len(RunScript(outcome'[t])) /\ emitted[Run(t)] = 0
    BY <1>2, <2>2, ScriptFacts, LenProperties DEF RunExit, TypeOK, Progress
  <2>4. Progress'
    BY <1>2, <2>1, <2>3 DEF RunExit, TypeOK, Progress, RunPC
  <2> QED
    BY <2>2, <2>4
<1>3. CASE RunEmit(t)
  <2> DEFINE script == RunScript(outcome[t])
  <2>0. emitted \in [Source -> 0..4] /\ events \in Seq(Event) /\ Len(events) <= Cap
    BY DEF TypeOK
  <2>1. Push(Run(t), script) /\ Run(t) \in Source
    BY <1>3, SourceFacts DEF RunEmit
  <2>2. script \in Seq(EventType) /\ Len(script) <= 4
    BY ScriptFacts DEF TypeOK
  <2>3. emitted[Run(t)] < Len(script)
    BY <1>3 DEF RunEmit, Progress
  <2>4. run' = [run EXCEPT ![t] = IF emitted[Run(t)] + 1 = Len(script) THEN "ended" ELSE "emit"]
    BY <1>3 DEF RunEmit
  <2> HIDE DEF script
  <2>5. /\ emitted' \in [Source -> 0..4]
        /\ emitted'[Run(t)] = emitted[Run(t)] + 1
        /\ \A r \in Source : r # Run(t) => emitted'[r] = emitted[r]
        /\ events' \in Seq(Event)
        /\ Len(events') <= Cap
    BY <2>0, <2>1, <2>2, <2>3, PushType
  <2>6. TypeOK'
    BY <1>3, <2>4, <2>5 DEF RunEmit, TypeOK, RunPC
  <2>7. run'[t] = "emit" => emitted'[Run(t)] < Len(script)
    <3>1. emitted[Run(t)] \in 0..4 /\ Len(script) \in Nat
      BY <2>0, <2>1, <2>2, LenProperties
    <3>2. run'[t] = "emit" => emitted[Run(t)] + 1 # Len(script)
      BY <2>4 DEF TypeOK
    <3> QED
      BY <2>3, <2>5, <3>1, <3>2
  <2>8. /\ \A u \in Turns : emitted'[Echo(u)] = emitted[Echo(u)]
        /\ \A u \in Turns : u # t => emitted'[Run(u)] = emitted[Run(u)]
    BY <2>1, <2>5, SourceFacts
  <2>9. /\ run[t] = "emit" /\ run'[t] \in {"emit", "ended"}
        /\ \A u \in Turns : u # t => run'[u] = run[u]
        /\ UNCHANGED <<hpc, turn, outcome, rpc>>
    BY <1>3, <2>4 DEF RunEmit, TypeOK
  <2>10. Progress'
    BY <2>7, <2>8, <2>9 DEF TypeOK, Progress, script, Turns
  <2> QED
    BY <2>6, <2>10
<1> QED
  BY <1>1, <1>2, <1>3 DEF RunStep

LEMMA TypeRelay ==
  ASSUME TypeInv, Relay
  PROVE  TypeInv'
<1> USE ChatConnAssumption DEF TypeInv, handlerVars, runVars, relayVars, dbVars, historyVars
<1>1. CASE RelayRecv
  <2>1. /\ Head(events) \in Event
        /\ Tail(events) \in Seq(Event)
        /\ Len(Tail(events)) <= Cap
    <3>1. events \in Seq(Event) /\ events # << >> /\ Len(events) <= Cap
      BY <1>1 DEF RelayRecv, TypeOK
    <3>2. Len(Tail(events)) = Len(events) - 1 /\ Len(events) \in Nat
      BY <3>1, HeadTailProperties, LenProperties
    <3> QED
      BY <3>1, <3>2, HeadTailProperties
  <2> QED
    BY <1>1, <2>1 DEF RelayRecv, TypeOK, Progress, RelayPC
<1>2. CASE RelayPersist
  <2>1. /\ rows \in Seq(Row) /\ faults \in 0..MaxFaults /\ currentMsgID \in Nat
        /\ status \in DbStatus /\ collided \in BOOLEAN /\ ev \in Event
    BY DEF TypeOK
  <2>2. /\ rows' \in Seq(Row) /\ faults' \in 0..MaxFaults /\ currentMsgID' \in Nat
        /\ status' \in DbStatus /\ collided' \in BOOLEAN
    <3>1. CASE PersistStatus
      BY <2>1, <3>1 DEF PersistStatus, StoreStatus, Fault, DbStatus
    <3>2. CASE PersistStart
      <4>1. AssistantRow(ev.src.turn) \in Row
        BY <2>1 DEF AssistantRow, Row, Event, Source
      <4>2. Len(rows) + 1 \in Nat /\ Append(rows, AssistantRow(ev.src.turn)) \in Seq(Row)
        BY <2>1, <4>1, AppendProperties, LenProperties
      <4> QED
        BY <2>1, <3>2, <4>2 DEF PersistStart, Fault
    <3>3. CASE PersistDone
      <4>1. [rows EXCEPT ![currentMsgID].status = "done", ![currentMsgID].text = ev.src] \in Seq(Row)
        BY <2>1, CompleteRow DEF Event
      <4> DEFINE completed == [rows EXCEPT ![currentMsgID].status = "done",
                                           ![currentMsgID].text = ev.src]
      <4> HIDE DEF completed
      <4>2. rows' \in {rows, completed} /\ faults' \in {faults, faults + 1}
            /\ (faults' = faults \/ faults < MaxFaults)
        BY <3>3 DEF PersistDone, Fault, completed
      <4>3. rows' \in Seq(Row) /\ faults' \in 0..MaxFaults
        <5>1. completed \in Seq(Row)
          BY <4>1 DEF completed
        <5>2. rows' \in Seq(Row)
          BY <2>1, <4>2, <5>1
        <5>3. faults' \in 0..MaxFaults
          BY <2>1, <4>2
        <5> QED
          BY <5>2, <5>3
      <4> QED
        BY <2>1, <3>3, <4>3 DEF PersistDone
    <3>4. CASE PersistNothing
      BY <2>1, <3>4 DEF PersistNothing
    <3> QED
      BY <1>2, <3>1, <3>2, <3>3, <3>4 DEF RelayPersist
  <2>3. TypeOK'
    BY <1>2, <2>2 DEF RelayPersist, TypeOK, RelayPC
  <2>4. Progress'
    BY <1>2 DEF RelayPersist, Progress
  <2> QED
    BY <2>3, <2>4
<1>3. CASE RelayWrite
  <2>1. ev.src \in Source
    BY DEF TypeOK, Event
  <2>2. written' \in [Source -> Nat]
    BY <1>3, <2>1 DEF RelayWrite, TypeOK
  <2>3. TypeOK'
    BY <1>3, <2>2 DEF RelayWrite, TypeOK, RelayPC
  <2>4. Progress'
    BY <1>3 DEF RelayWrite, Progress
  <2> QED
    BY <2>3, <2>4
<1>4. CASE RelayWriteError
  BY <1>4 DEF RelayWriteError, TypeOK, Progress, RelayPC
<1> QED
  BY <1>1, <1>2, <1>3, <1>4 DEF Relay

LEMMA TypeNext == TypeInv /\ [Next]_vars => TypeInv'
<1> SUFFICES ASSUME TypeInv, [Next]_vars PROVE TypeInv'
  OBVIOUS
<1>1. CASE PeerLeaves
  BY <1>1 DEF PeerLeaves, TypeInv, TypeOK, Progress, handlerVars, runVars, relayVars, dbVars, historyVars
<1>2. CASE UNCHANGED vars
  BY <1>2 DEF vars, TypeInv, TypeOK, Progress, handlerVars, runVars, relayVars, dbVars, historyVars
<1> QED
  BY <1>1, <1>2, TypeHandler, TypeRun, TypeRelay DEF Next

\* Every variable keeps its type and the channel its capacity, for sessions
\* of either kind, with any capacity and any number of turns.
THEOREM TypeCorrect == Spec => []TypeOK
<1>1. TypeInv => TypeOK
  BY DEF TypeInv
<1> QED
  BY <1>1, TypeInit, TypeNext, PTL DEF Spec

-----------------------------------------------------------------------------
\* The rows.

RowInv == TypeInv /\ CurrentRowOpen

\* What a step may do to the rows: nothing is removed, and a row that is done
\* and the role of any row stay as they are.
RowsGrow ==
  /\ Len(rows) <= Len(rows')
  /\ \A i \in DOMAIN rows :
       /\ rows[i].status = "done" => rows'[i] = rows[i]
       /\ rows'[i].role = rows[i].role

\* Appending a row keeps the rows before it.
LEMMA AppendRow ==
  ASSUME NEW rs \in Seq(Row), NEW r \in Row, NEW rs2, rs2 = Append(rs, r)
  PROVE  /\ rs2 \in Seq(Row)
         /\ Len(rs) \in Nat /\ Len(rs2) = Len(rs) + 1
         /\ DOMAIN rs = 1..Len(rs) /\ DOMAIN rs2 = 1..(Len(rs) + 1)
         /\ \A i \in DOMAIN rs : rs2[i] = rs[i]
         /\ rs2[Len(rs) + 1] = r
<1>1. /\ rs2 \in Seq(Row) /\ Len(rs2) = Len(rs) + 1
      /\ \A i \in 1..Len(rs) : rs2[i] = rs[i]
      /\ rs2[Len(rs) + 1] = r
  BY AppendProperties
<1> QED
  BY <1>1, LenProperties

\* Every step keeps the current row open and lets the rows only grow.
LEMMA RowNext == RowInv /\ [Next]_vars => CurrentRowOpen' /\ RowsGrow
<1> SUFFICES ASSUME RowInv, [Next]_vars PROVE CurrentRowOpen' /\ RowsGrow
  OBVIOUS
<1>0. /\ rows \in Seq(Row) /\ currentMsgID \in Nat /\ ev \in Event
      /\ Len(rows) \in Nat /\ DOMAIN rows = 1..Len(rows)
  BY LenProperties DEF RowInv, TypeInv, TypeOK
<1>1. CASE UNCHANGED <<rows, currentMsgID>>
  BY <1>0, <1>1 DEF RowInv, CurrentRowOpen, RowsGrow
<1>2. CASE HandlerMessage
  <2>1. CASE UNCHANGED rows
    BY <1>1, <1>2, <2>1 DEF HandlerMessage, relayVars
  <2>2. CASE rows' = Append(rows, UserRow(turn + 1))
    <3>1. UserRow(turn + 1) \in Row /\ UserRow(turn + 1).role = "user"
      BY <1>2, ChatConnAssumption DEF HandlerMessage, RowInv, TypeInv, TypeOK, Turns, UserRow, Row, Source, Echo
    <3>2. /\ Len(rows') = Len(rows) + 1
          /\ DOMAIN rows' = 1..(Len(rows) + 1)
          /\ \A i \in DOMAIN rows : rows'[i] = rows[i]
          /\ rows'[Len(rows) + 1].role = "user"
      BY <1>0, <2>2, <3>1, AppendRow
    <3>3. UNCHANGED currentMsgID
      BY <1>2 DEF HandlerMessage, relayVars
    <3>4. RowsGrow
      BY <1>0, <3>2 DEF RowsGrow
    <3>5. CurrentRowOpen'
      BY <1>0, <3>2, <3>3 DEF RowInv, CurrentRowOpen
    <3> QED
      BY <3>4, <3>5
  <2> QED
    BY <1>2, <2>1, <2>2 DEF HandlerMessage
<1>3. CASE PersistStart
  <2>1. CASE Fault /\ UNCHANGED <<rows, currentMsgID>>
    BY <1>1, <2>1
  <2>2. CASE rows' = Append(rows, AssistantRow(ev.src.turn)) /\ currentMsgID' = Len(rows) + 1
    <3>1. /\ AssistantRow(ev.src.turn) \in Row
          /\ AssistantRow(ev.src.turn).role = "assistant"
          /\ AssistantRow(ev.src.turn).status = "streaming"
      BY <1>0 DEF AssistantRow, Row, Event, Source
    <3>2. /\ Len(rows') = Len(rows) + 1
          /\ DOMAIN rows' = 1..(Len(rows) + 1)
          /\ \A i \in DOMAIN rows : rows'[i] = rows[i]
          /\ rows'[Len(rows) + 1] = AssistantRow(ev.src.turn)
      BY <1>0, <2>2, <3>1, AppendRow
    <3>3. RowsGrow
      BY <1>0, <3>2 DEF RowsGrow
    <3>4. CurrentRowOpen'
      BY <1>0, <2>2, <3>1, <3>2 DEF CurrentRowOpen
    <3> QED
      BY <3>3, <3>4
  <2> QED
    BY <1>3, <2>1, <2>2 DEF PersistStart
<1>4. CASE PersistDone
  <2>1. /\ currentMsgID' = 0 /\ currentMsgID # 0
        /\ currentMsgID \in DOMAIN rows
        /\ rows[currentMsgID].status = "streaming"
    BY <1>0, <1>4 DEF PersistDone, RowInv, CurrentRowOpen
  <2>2. CurrentRowOpen'
    BY <2>1 DEF CurrentRowOpen
  <2>3. CASE UNCHANGED rows
    BY <1>0, <2>2, <2>3 DEF RowsGrow
  <2>4. CASE rows' = [rows EXCEPT ![currentMsgID].status = "done", ![currentMsgID].text = ev.src]
    <3>1. /\ Len(rows') = Len(rows)
          /\ \A j \in DOMAIN rows : j # currentMsgID => rows'[j] = rows[j]
          /\ \A j \in DOMAIN rows : rows'[j].role = rows[j].role
      BY <1>0, <2>4, CompleteRow DEF Event
    <3>2. RowsGrow
      BY <1>0, <2>1, <3>1 DEF RowsGrow
    <3> QED
      BY <2>2, <3>2
  <2> QED
    BY <1>4, <2>3, <2>4 DEF PersistDone
<1>5. CASE RelayPersist
  <2>1. CASE PersistStatus
    BY <1>1, <2>1 DEF PersistStatus
  <2>2. CASE PersistNothing
    BY <1>1, <2>2 DEF PersistNothing, dbVars
  <2> QED
    BY <1>3, <1>4, <1>5, <2>1, <2>2 DEF RelayPersist
<1>6. CASE Handler
  BY <1>1, <1>2, <1>6 DEF Handler, HandlerStart, HandlerHello, HandlerEcho, HandlerSpawn,
     HandlerStop, HandlerStopWrite, WritersCollide, HandlerReadError, HandlerReturn,
     dbVars, relayVars
<1>7. CASE \E t \in Turns : RunStep(t)
  BY <1>1, <1>7 DEF RunStep, RunBegin, RunExit, RunEmit, dbVars, relayVars
<1>8. CASE Relay
  BY <1>1, <1>5, <1>8 DEF Relay, RelayRecv, RelayWrite, RelayWriteError, dbVars
<1>9. CASE PeerLeaves
  BY <1>1, <1>9 DEF PeerLeaves, dbVars, relayVars
<1>10. CASE UNCHANGED vars
  BY <1>1, <1>10 DEF vars, dbVars, relayVars
<1> QED
  BY <1>6, <1>7, <1>8, <1>9, <1>10 DEF Next

LEMMA RowInitInv == Init => RowInv
BY TypeInit DEF Init, RowInv, CurrentRowOpen

LEMMA RowStep == RowInv /\ [Next]_vars => RowInv'
BY TypeNext, RowNext DEF RowInv

\* The relay's current row is always an open assistant row and the youngest:
\* no interleaving of runs, stops and failing statements makes a message_done
\* reach a user's row or a row that is already done.
THEOREM CurrentRowIsOpen == Spec => []CurrentRowOpen
<1>1. RowInv => CurrentRowOpen
  BY DEF RowInv
<1> QED
  BY <1>1, RowInitInv, RowStep, PTL DEF Spec

\* What was stored as done is never rewritten, and rows are only appended.
THEOREM DoneRowsStayFixed == Spec => DoneRowsFixed
<1>1. RowInv /\ [Next]_vars => [RowsGrow]_vars
  BY RowNext
<1>2. DoneRowsFixed <=> [][RowsGrow]_vars
  BY DEF DoneRowsFixed, RowsGrow
<1> QED
  BY <1>1, <1>2, RowInitInv, RowStep, PTL DEF Spec

-----------------------------------------------------------------------------
\* The order of events.  The channel is shared, so the argument is per source:
\* the events of a source that are in the channel or in the relay's hand are
\* exactly the ones pushed and not yet written, in increasing order.

Holding == rpc \in {"persist", "write"}

Sorted ==
  \A i, j \in 1..Len(events) :
    i < j /\ events[i].src = events[j].src => events[i].k < events[j].k

HandFirst ==
  Holding => \A i \in 1..Len(events) : events[i].src = ev.src => ev.k < events[i].k

InRange ==
  /\ \A i \in 1..Len(events) :
       written[events[i].src] < events[i].k /\ events[i].k <= emitted[events[i].src]
  /\ Holding => written[ev.src] < ev.k /\ ev.k <= emitted[ev.src]

NoneLost ==
  rpc # "exited" =>
    \A s \in Source, k \in 1..4 : written[s] < k /\ k <= emitted[s] =>
      \/ Holding /\ ev.src = s /\ ev.k = k
      \/ \E i \in 1..Len(events) : events[i].src = s /\ events[i].k = k

Counted == \A s \in Source : written[s] <= emitted[s]

QueueInv == Sorted /\ HandFirst /\ InRange /\ NoneLost /\ Counted

LEMMA QueueInit == Init => QueueInv
BY EmptySeq DEF Init, QueueInv, Sorted, HandFirst, InRange, NoneLost, Counted, Holding

\* A push extends the channel by the next event of its source.
LEMMA PushQueue ==
  ASSUME TypeOK, QueueInv, NEW s \in Source, NEW script, Push(s, script),
         UNCHANGED <<rpc, ev, written>>
  PROVE  QueueInv'
<1> DEFINE new == EventOf(s, emitted[s] + 1, script)
           n == Len(events)
<1>1. /\ events \in Seq(Event) /\ n \in Nat
      /\ emitted \in [Source -> 0..4] /\ written \in [Source -> Nat] /\ ev \in Event
  BY LenProperties DEF TypeOK
<1>2. \A i \in 1..n : events[i].src \in Source /\ events[i].k \in 1..4
  <2> TAKE i \in 1..n
  <2>1. events[i] \in Event
    BY <1>1, ElementOfSeq
  <2> QED
    BY <2>1 DEF Event
<1>3. ev.src \in Source /\ ev.k \in 1..4
  BY <1>1 DEF Event
<1>4. new.src = s /\ new.k = emitted[s] + 1
  BY DEF EventOf
<1>5. /\ emitted'[s] = emitted[s] + 1
      /\ \A r \in Source : r # s => emitted'[r] = emitted[r]
      /\ events' = Append(events, new)
  BY <1>1 DEF Push
<1> HIDE DEF new
<1>6. /\ Len(events') = n + 1
      /\ \A i \in 1..n : events'[i] = events[i]
      /\ events'[n + 1] = new
  BY <1>1, <1>5
<1>7. emitted[s] \in 0..4 /\ \A r \in Source : emitted[r] \in 0..4 /\ written[r] \in Nat
  BY <1>1
<1> HIDE DEF n
<1>8. Sorted'
  <2> SUFFICES ASSUME NEW i \in 1..(n + 1), NEW j \in 1..(n + 1), i < j,
                      events'[i].src = events'[j].src
               PROVE  events'[i].k < events'[j].k
    BY <1>6 DEF Sorted
  <2>1. CASE j \in 1..n
    BY <1>1, <1>6, <2>1 DEF QueueInv, Sorted, n
  <2>2. CASE j = n + 1
    <3>1. i \in 1..n /\ events'[i] = events[i] /\ events'[j] = new
      BY <1>1, <1>6, <2>2
    <3>2. events[i].k <= emitted[s]
      BY <1>4, <3>1 DEF QueueInv, InRange, n
    <3> QED
      BY <1>2, <1>4, <1>7, <3>1, <3>2
  <2> QED
    BY <1>1, <2>1, <2>2
<1>9. HandFirst'
  BY <1>1, <1>2, <1>3, <1>4, <1>6, <1>7 DEF QueueInv, HandFirst, InRange, Holding, n
<1>10. InRange'
  <2>1. ASSUME NEW i \in 1..(n + 1)
        PROVE  written[events'[i].src] < events'[i].k /\ events'[i].k <= emitted'[events'[i].src]
    <3>1. CASE i \in 1..n
      <4>1. /\ events'[i] = events[i]
            /\ written[events[i].src] < events[i].k /\ events[i].k <= emitted[events[i].src]
        BY <1>6, <3>1 DEF QueueInv, InRange, n
      <4> QED
        BY <1>2, <1>5, <1>7, <3>1, <4>1
    <3>2. CASE i = n + 1
      BY <1>4, <1>5, <1>6, <1>7, <3>2 DEF QueueInv, Counted
    <3> QED
      BY <1>1, <3>1, <3>2
  <2>2. Holding => written[ev.src] < ev.k /\ ev.k <= emitted'[ev.src]
    BY <1>3, <1>5, <1>7 DEF QueueInv, InRange
  <2> QED
    BY <1>6, <2>1, <2>2 DEF InRange, Holding
<1>11. NoneLost'
  <2> SUFFICES ASSUME rpc # "exited", NEW r \in Source, NEW k \in 1..4,
                      written[r] < k, k <= emitted'[r]
               PROVE  \/ Holding /\ ev.src = r /\ ev.k = k
                      \/ \E i \in 1..(n + 1) : events'[i].src = r /\ events'[i].k = k
    BY <1>6 DEF NoneLost, Holding
  <2>1. CASE k <= emitted[r]
    <3>1. \/ Holding /\ ev.src = r /\ ev.k = k
          \/ \E i \in 1..n : events[i].src = r /\ events[i].k = k
      BY <2>1 DEF QueueInv, NoneLost, n
    <3> QED
      BY <1>1, <1>6, <3>1
  <2>2. CASE ~(k <= emitted[r])
    <3>1. r = s /\ k = emitted[s] + 1
      BY <1>5, <1>7, <2>2
    <3>2. n + 1 \in 1..(n + 1)
      BY <1>1
    <3> QED
      BY <1>4, <1>6, <3>1, <3>2
  <2> QED
    BY <2>1, <2>2
<1>12. Counted'
  BY <1>5, <1>7 DEF QueueInv, Counted
<1> QED
  BY <1>8, <1>9, <1>10, <1>11, <1>12 DEF QueueInv

\* Taking the head of the channel keeps the per-source order.
LEMMA RecvQueue == TypeOK /\ QueueInv /\ RelayRecv => QueueInv'
<1> SUFFICES ASSUME TypeOK, QueueInv, RelayRecv PROVE QueueInv'
  OBVIOUS
<1> DEFINE n == Len(events)
<1>1. /\ events \in Seq(Event) /\ events # << >>
      /\ rpc = "recv" /\ rpc' = "persist" /\ ev' = Head(events) /\ events' = Tail(events)
      /\ UNCHANGED <<written, emitted>>
  BY DEF TypeOK, RelayRecv, historyVars
<1>2. n \in Nat /\ n > 0
  BY <1>1, EmptySeq, LenProperties
<1>3. /\ Len(events') = n - 1
      /\ \A i \in 1..(n - 1) : events'[i] = events[i + 1]
      /\ ev' = events[1]
  BY <1>1, <1>2, HeadTailProperties
<1>4. \A i \in 1..n : events[i].src \in Source /\ events[i].k \in 1..4
  <2> TAKE i \in 1..n
  <2>1. events[i] \in Event
    BY <1>1, ElementOfSeq
  <2> QED
    BY <2>1 DEF Event
<1> HIDE DEF n
<1>5. \A i \in 1..(n - 1) : i + 1 \in 1..n
  BY <1>2
<1>6. 1 \in 1..n
  BY <1>2
<1>7. Sorted'
  BY <1>2, <1>3, <1>5 DEF QueueInv, Sorted, n
<1>8. HandFirst'
  BY <1>2, <1>3, <1>5, <1>6 DEF QueueInv, Sorted, HandFirst, n
<1>9. InRange'
  BY <1>1, <1>3, <1>5, <1>6 DEF QueueInv, InRange, n
<1>10. NoneLost'
  <2> SUFFICES ASSUME NEW r \in Source, NEW k \in 1..4, written[r] < k, k <= emitted[r]
               PROVE  \/ ev'.src = r /\ ev'.k = k
                      \/ \E i \in 1..(n - 1) : events'[i].src = r /\ events'[i].k = k
    BY <1>1, <1>3 DEF NoneLost, Holding
  <2>1. PICK i \in 1..n : events[i].src = r /\ events[i].k = k
    BY <1>1 DEF QueueInv, NoneLost, Holding, n
  <2>2. CASE i = 1
    BY <1>3, <2>1, <2>2
  <2>3. CASE i # 1
    <3>1. i - 1 \in 1..(n - 1) /\ events'[i - 1] = events[i]
      BY <1>2, <1>3, <2>3
    <3> QED
      BY <2>1, <3>1
  <2> QED
    BY <2>2, <2>3
<1>11. Counted'
  BY <1>1 DEF QueueInv, Counted
<1> QED
  BY <1>7, <1>8, <1>9, <1>10, <1>11 DEF QueueInv

\* What the relay holds is the next event of its source.
LEMMA HeldNext ==
  ASSUME TypeOK, QueueInv, Holding
  PROVE  ev.src \in Source /\ ev.k \in 1..4 /\ ev.k = written[ev.src] + 1
<1>1. /\ ev.src \in Source /\ ev.k \in 1..4 /\ written[ev.src] \in Nat
      /\ emitted[ev.src] \in 0..4
  BY DEF TypeOK, Event
<1>2. written[ev.src] < ev.k /\ ev.k <= emitted[ev.src]
  BY DEF QueueInv, InRange, Holding
<1>3. SUFFICES ASSUME ev.k # written[ev.src] + 1 PROVE FALSE
  BY <1>1
<1>4. PICK i \in 1..Len(events) : events[i].src = ev.src /\ events[i].k = written[ev.src] + 1
  <2>1. /\ written[ev.src] + 1 \in 1..4
        /\ written[ev.src] < written[ev.src] + 1
        /\ written[ev.src] + 1 <= emitted[ev.src]
    BY <1>1, <1>2
  <2> QED
    BY <1>1, <1>3, <2>1 DEF QueueInv, NoneLost, Holding
<1>5. ev.k < events[i].k
  BY <1>4 DEF QueueInv, HandFirst, Holding
<1> QED
  BY <1>1, <1>2, <1>4, <1>5

LEMMA WriteQueue == TypeOK /\ QueueInv /\ RelayWrite => QueueInv'
<1> SUFFICES ASSUME TypeOK, QueueInv, RelayWrite PROVE QueueInv'
  OBVIOUS
<1>1. /\ rpc = "write" /\ rpc' = "recv"
      /\ written' = [written EXCEPT ![ev.src] = @ + 1]
      /\ UNCHANGED <<events, emitted, ev>>
  BY DEF RelayWrite
<1>2. /\ events \in Seq(Event) /\ Len(events) \in Nat
      /\ emitted \in [Source -> 0..4] /\ written \in [Source -> Nat]
  BY LenProperties DEF TypeOK
<1>3. ev.src \in Source /\ ev.k \in 1..4 /\ ev.k = written[ev.src] + 1
  BY <1>1, HeldNext DEF Holding
<1>4. /\ written'[ev.src] = ev.k
      /\ \A r \in Source : r # ev.src => written'[r] = written[r]
      /\ \A r \in Source : written[r] \in Nat /\ emitted[r] \in 0..4
  BY <1>1, <1>2, <1>3
<1>5. \A i \in 1..Len(events) : events[i].src \in Source /\ events[i].k \in 1..4
  <2> TAKE i \in 1..Len(events)
  <2>1. events[i] \in Event
    BY <1>2, ElementOfSeq
  <2> QED
    BY <2>1 DEF Event
<1>6. ~Holding' /\ Holding
  BY <1>1 DEF Holding
<1>7. Sorted' /\ HandFirst'
  BY <1>1, <1>6 DEF QueueInv, Sorted, HandFirst
<1>8. InRange'
  BY <1>1, <1>4, <1>5, <1>6 DEF QueueInv, InRange, HandFirst
<1>9. NoneLost'
  <2> SUFFICES ASSUME NEW r \in Source, NEW k \in 1..4, written'[r] < k, k <= emitted[r]
               PROVE  \E i \in 1..Len(events) : events[i].src = r /\ events[i].k = k
    BY <1>1, <1>6 DEF NoneLost
  <2>1. written[r] < k /\ ~(ev.src = r /\ ev.k = k)
    BY <1>3, <1>4
  <2> QED
    BY <1>1, <2>1 DEF QueueInv, NoneLost
<1>10. Counted'
  <2>1. ev.k <= emitted[ev.src]
    BY <1>6 DEF QueueInv, InRange
  <2> QED
    BY <1>1, <1>4, <2>1 DEF QueueInv, Counted
<1> QED
  BY <1>7, <1>8, <1>9, <1>10 DEF QueueInv

\* A step that leaves the queue and the counters alone, and with which the
\* relay neither takes nor writes an event (it may die).
LEMMA IdleQueue ==
  ASSUME QueueInv, UNCHANGED <<events, emitted, written, ev>>,
         rpc' # "exited" => rpc # "exited" /\ (Holding' <=> Holding),
         Holding' => Holding
  PROVE  QueueInv'
BY DEF QueueInv, Sorted, HandFirst, InRange, NoneLost, Counted

LEMMA QueueNext == TypeInv /\ QueueInv /\ [Next]_vars => QueueInv'
<1> SUFFICES ASSUME TypeInv, QueueInv, [Next]_vars PROVE QueueInv'
  OBVIOUS
<1> USE DEF TypeInv
<1>1. CASE UNCHANGED <<events, emitted, written, ev, rpc>>
  BY <1>1, IdleQueue DEF Holding
<1>2. CASE HandlerEcho
  BY <1>2, PushQueue, SourceFacts DEF HandlerEcho, TypeOK, relayVars, historyVars
<1>3. CASE HandlerHello \/ WritersCollide
  <2>1. CASE rpc' = rpc
    BY <1>1, <1>3, <2>1 DEF HandlerHello, WritersCollide
  <2>2. CASE rpc' # rpc
    <3>2. CASE HandlerHello
      BY <3>2, IdleQueue DEF HandlerHello, Progress, Holding
    <3>3. CASE WritersCollide
      BY <2>2, <3>3, IdleQueue DEF WritersCollide, Holding
    <3> QED
      BY <1>3, <3>2, <3>3
  <2> QED
    BY <2>1, <2>2
<1>4. CASE Handler
  BY <1>1, <1>2, <1>3, <1>4 DEF Handler, HandlerStart, HandlerMessage, HandlerSpawn,
     HandlerStop, HandlerStopWrite, HandlerReadError, HandlerReturn, relayVars, historyVars
<1>5. ASSUME NEW t \in Turns, RunStep(t) PROVE QueueInv'
  <2>1. CASE RunBegin(t) \/ RunExit(t)
    BY <1>1, <2>1 DEF RunBegin, RunExit, relayVars, historyVars
  <2>2. CASE RunEmit(t)
    BY <2>2, PushQueue, SourceFacts DEF RunEmit, relayVars, historyVars
  <2> QED
    BY <1>5, <2>1, <2>2 DEF RunStep
<1>6. CASE Relay
  <2>1. CASE RelayPersist
    BY <2>1, IdleQueue DEF RelayPersist, Holding
  <2>2. CASE RelayWriteError
    BY <2>2, IdleQueue DEF RelayWriteError, Holding, historyVars
  <2> QED
    BY <1>6, <2>1, <2>2, RecvQueue, WriteQueue DEF Relay
<1>7. CASE PeerLeaves
  BY <1>1, <1>7 DEF PeerLeaves, relayVars, historyVars
<1>8. CASE UNCHANGED vars
  BY <1>1, <1>8 DEF vars, relayVars, historyVars
<1> QED
  BY <1>4, <1>5, <1>6, <1>7, <1>8 DEF Next

\* The events of a source reach the socket in script order, none twice and
\* none skipped, whatever shares the channel and whatever its capacity.
THEOREM DeliveryInOrder == Spec => InOrder
<1> DEFINE Deliver == \A s \in Source : written'[s] # written[s] =>
                        /\ ev.src = s /\ ev.k = written[s] + 1
                        /\ written'[s] = written[s] + 1
<1>1. TypeInv /\ QueueInv /\ [Next]_vars => [Deliver]_vars
  <2> SUFFICES ASSUME TypeInv, QueueInv, [Next]_vars PROVE Deliver
    OBVIOUS
  <2>1. CASE written' = written
    BY <2>1
  <2>2. CASE RelayWrite
    <3>1. ev.src \in Source /\ ev.k = written[ev.src] + 1
      BY <2>2, HeldNext DEF RelayWrite, TypeInv, Holding
    <3>2. written' = [written EXCEPT ![ev.src] = @ + 1] /\ written \in [Source -> Nat]
      BY <2>2 DEF RelayWrite, TypeInv, TypeOK
    <3> QED
      BY <3>1, <3>2
  <2>3. Next /\ ~RelayWrite => written' = written
    <3>1. Handler => written' = written
      BY DEF Handler, HandlerStart, HandlerHello, HandlerMessage, HandlerEcho, HandlerSpawn,
         HandlerStop, HandlerStopWrite, WritersCollide, HandlerReadError, HandlerReturn,
         historyVars
    <3>2. ASSUME NEW t \in Turns, RunStep(t) PROVE written' = written
      BY <3>2 DEF RunStep, RunBegin, RunExit, RunEmit, historyVars
    <3>3. RelayRecv \/ RelayPersist \/ RelayWriteError \/ PeerLeaves => written' = written
      BY DEF RelayRecv, RelayPersist, RelayWriteError, PeerLeaves, historyVars
    <3> QED
      BY <3>1, <3>2, <3>3 DEF Next, Relay
  <2> QED
    BY <2>1, <2>2, <2>3 DEF vars, historyVars
<1>2. InOrder <=> [][Deliver]_vars
  BY DEF InOrder
<1>3. Init => TypeInv /\ QueueInv
  BY TypeInit, QueueInit
<1>4. TypeInv /\ QueueInv /\ [Next]_vars => TypeInv' /\ QueueInv'
  BY TypeNext, QueueNext
<1> HIDE DEF Deliver
<1> QED
  BY <1>1, <1>2, <1>3, <1>4, PTL DEF Spec

-----------------------------------------------------------------------------
\* The history in order.

\* Every message accepted has its row, and every answer's row comes after it.
MessageStored == \A t \in 1..turn : \E j \in DOMAIN rows : rows[j] = UserRow(t)
AnswersBehind ==
  \A i \in DOMAIN rows : rows[i].role = "assistant" /\ rows[i].turn > 0 =>
    \E j \in 1..(i - 1) : rows[j] = UserRow(rows[i].turn)
MessageInv == faults = 0 => MessageStored /\ AnswersBehind

ConnInv == RowInv /\ QueueInv

LEMMA ConnInit == Init => ConnInv
BY RowInitInv, QueueInit DEF ConnInv

LEMMA ConnStep == ConnInv /\ [Next]_vars => ConnInv'
BY RowStep, QueueNext DEF ConnInv, RowInv

\* A run whose event the relay holds answers a turn that was accepted: later
\* turns have pushed nothing.
LEMMA HeldTurn ==
  ASSUME ConnInv, rpc = "persist", FromRun(ev)
  PROVE  ev.src.turn \in Nat /\ ev.src.turn <= turn
<1>1. /\ ev.src \in Source /\ emitted[ev.src] > 0
  <2>1. ev.src \in Source /\ ev.k \in 1..4
    BY DEF ConnInv, RowInv, TypeInv, TypeOK, Event
  <2>2. written[ev.src] \in Nat /\ emitted[ev.src] \in 0..4
    BY <2>1 DEF ConnInv, RowInv, TypeInv, TypeOK
  <2>3. ev.k <= emitted[ev.src]
    BY DEF ConnInv, QueueInv, InRange, Holding
  <2> QED
    BY <2>1, <2>2, <2>3
<1>2. ev.src.turn \in Turns /\ ev.src = Run(ev.src.turn)
  BY <1>1, SourceFacts DEF FromRun, Echo
<1>3. turn \in Nat /\ ev.src.turn \in Nat
  BY <1>2, ChatConnAssumption DEF ConnInv, RowInv, TypeInv, TypeOK, Turns
<1>4. ~(ev.src.turn > turn)
  <2> SUFFICES ASSUME ev.src.turn > turn PROVE FALSE
    OBVIOUS
  <2>1. run[ev.src.turn] = "none"
    BY <1>2 DEF ConnInv, RowInv, TypeInv, Progress
  <2>2. emitted[Run(ev.src.turn)] = 0
    BY <1>2, <2>1 DEF ConnInv, RowInv, TypeInv, Progress
  <2> QED
    BY <1>1, <1>2, <2>2
<1> QED
  BY <1>3, <1>4

LEMMA MessageStep == ConnInv /\ MessageInv /\ [Next]_vars => MessageInv'
<1> SUFFICES ASSUME ConnInv, MessageInv, [Next]_vars, faults' = 0
             PROVE  MessageStored' /\ AnswersBehind'
  BY DEF MessageInv
<1>0. /\ rows \in Seq(Row) /\ ev \in Event /\ turn \in Nat /\ faults \in Nat
      /\ currentMsgID \in Nat
      /\ Len(rows) \in Nat /\ DOMAIN rows = 1..Len(rows)
  BY LenProperties, ChatConnAssumption DEF ConnInv, RowInv, TypeInv, TypeOK, Turns
<1>f. ~Fault
  BY <1>0 DEF Fault
<1>1. CASE UNCHANGED <<rows, turn, faults>>
  BY <1>1 DEF MessageInv, MessageStored, AnswersBehind
<1>2. CASE HandlerMessage
  <2>1. /\ rows' = Append(rows, UserRow(turn + 1)) /\ turn' = turn + 1 /\ faults' = faults
    BY <1>2, <1>f DEF HandlerMessage
  <2>2. UserRow(turn + 1) \in Row /\ UserRow(turn + 1).role = "user"
    BY <1>2, ChatConnAssumption
       DEF HandlerMessage, ConnInv, RowInv, TypeInv, TypeOK, Turns, UserRow, Row, Source, Echo
  <2>3. /\ DOMAIN rows' = 1..(Len(rows) + 1)
        /\ \A i \in DOMAIN rows : rows'[i] = rows[i]
        /\ rows'[Len(rows) + 1] = UserRow(turn + 1)
    BY <1>0, <2>1, <2>2, AppendRow
  <2>4. MessageStored /\ AnswersBehind
    BY <2>1 DEF MessageInv
  <2>5. MessageStored'
    <3> SUFFICES ASSUME NEW t \in 1..(turn + 1)
                 PROVE  \E j \in DOMAIN rows' : rows'[j] = UserRow(t)
      BY <2>1 DEF MessageStored
    <3>1. CASE t = turn + 1
      BY <1>0, <2>3, <3>1
    <3>2. CASE t # turn + 1
      <4>1. t \in 1..turn
        BY <1>0, <3>2
      <4>2. PICK j \in DOMAIN rows : rows[j] = UserRow(t)
        BY <2>4, <4>1 DEF MessageStored
      <4> QED
        BY <1>0, <2>3, <4>2
    <3> QED
      BY <3>1, <3>2
  <2>6. AnswersBehind'
    BY <1>0, <2>2, <2>3, <2>4 DEF AnswersBehind
  <2> QED
    BY <2>5, <2>6
<1>3. CASE RelayPersist /\ PersistStart
  <2>1. /\ rows' = Append(rows, AssistantRow(ev.src.turn)) /\ turn' = turn /\ faults' = faults
    BY <1>3, <1>f DEF PersistStart, RelayPersist, handlerVars
  <2>2. ev.src.turn \in Nat /\ ev.src.turn <= turn
    BY <1>3, HeldTurn DEF RelayPersist, PersistStart
  <2>3. AssistantRow(ev.src.turn) \in Row /\ AssistantRow(ev.src.turn).turn = ev.src.turn
    BY <1>0 DEF AssistantRow, Row, Event, Source
  <2>4. /\ DOMAIN rows' = 1..(Len(rows) + 1)
        /\ \A i \in DOMAIN rows : rows'[i] = rows[i]
        /\ rows'[Len(rows) + 1] = AssistantRow(ev.src.turn)
    BY <1>0, <2>1, <2>3, AppendRow
  <2>5. MessageStored /\ AnswersBehind
    BY <2>1 DEF MessageInv
  <2>6. MessageStored'
    BY <1>0, <2>1, <2>4, <2>5 DEF MessageStored
  <2>7. AnswersBehind'
    <3> SUFFICES ASSUME NEW i \in 1..(Len(rows) + 1), rows'[i].role = "assistant",
                        rows'[i].turn > 0
                 PROVE  \E j \in 1..(i - 1) : rows'[j] = UserRow(rows'[i].turn)
      BY <2>4 DEF AnswersBehind
    <3>1. CASE i \in DOMAIN rows
      <4>1. PICK j \in 1..(i - 1) : rows[j] = UserRow(rows[i].turn)
        BY <2>4, <2>5, <3>1 DEF AnswersBehind
      <4> QED
        BY <1>0, <2>4, <3>1, <4>1
    <3>2. CASE i = Len(rows) + 1
      <4>1. rows'[i].turn = ev.src.turn /\ ev.src.turn \in 1..turn
        BY <1>0, <2>2, <2>3, <2>4, <3>2
      <4>2. PICK j \in DOMAIN rows : rows[j] = UserRow(ev.src.turn)
        BY <2>5, <4>1 DEF MessageStored
      <4> QED
        BY <1>0, <2>4, <3>2, <4>1, <4>2
    <3> QED
      BY <1>0, <3>1, <3>2
  <2> QED
    BY <2>6, <2>7
<1>4. CASE RelayPersist /\ PersistDone
  <2>1. /\ rows' = [rows EXCEPT ![currentMsgID].status = "done", ![currentMsgID].text = ev.src]
        /\ turn' = turn /\ faults' = faults
    BY <1>4, <1>f DEF PersistDone, RelayPersist, handlerVars
  <2>2. currentMsgID \in DOMAIN rows /\ rows[currentMsgID].role = "assistant"
    BY <1>0, <1>4 DEF PersistDone, ConnInv, RowInv, CurrentRowOpen
  <2>3. /\ DOMAIN rows' = DOMAIN rows
        /\ \A j \in DOMAIN rows : j # currentMsgID => rows'[j] = rows[j]
        /\ \A j \in DOMAIN rows : rows'[j].role = rows[j].role /\ rows'[j].turn = rows[j].turn
    BY <1>0, <2>1, CompleteRow DEF Event
  <2>4. \A j \in DOMAIN rows, t \in Nat : rows[j] = UserRow(t) => rows'[j] = UserRow(t)
    BY <2>2, <2>3 DEF UserRow
  <2>5. MessageStored /\ AnswersBehind
    BY <2>1 DEF MessageInv
  <2>6. MessageStored'
    BY <1>0, <2>1, <2>3, <2>4, <2>5 DEF MessageStored
  <2>7. AnswersBehind'
    <3> SUFFICES ASSUME NEW i \in DOMAIN rows, rows[i].role = "assistant", rows[i].turn > 0
                 PROVE  \E j \in 1..(i - 1) : rows'[j] = UserRow(rows[i].turn)
      BY <2>3 DEF AnswersBehind
    <3>1. PICK j \in 1..(i - 1) : rows[j] = UserRow(rows[i].turn)
      BY <2>5 DEF AnswersBehind
    <3>2. j \in DOMAIN rows /\ rows[i].turn \in Nat
      <4>1. rows[i] \in Row
        BY <1>0, ElementOfSeq
      <4> QED
        BY <1>0, <4>1, ChatConnAssumption DEF Row, Turns
    <3> QED
      BY <2>4, <3>1, <3>2
  <2> QED
    BY <2>6, <2>7
<1>5. CASE RelayPersist
  <2>1. CASE PersistStatus
    BY <1>1, <1>5, <1>f, <2>1 DEF PersistStatus, StoreStatus, RelayPersist, handlerVars
  <2>2. CASE PersistNothing
    BY <1>1, <1>5, <2>2 DEF PersistNothing, dbVars, RelayPersist, handlerVars
  <2> QED
    BY <1>3, <1>4, <1>5, <2>1, <2>2 DEF RelayPersist
<1>6. CASE Handler
  <2>1. CASE HandlerStop
    BY <1>1, <1>f, <2>1 DEF HandlerStop, StoreStatus
  <2>2. CASE HandlerReadError
    BY <1>1, <1>f, <2>2 DEF HandlerReadError, StoreStatus
  <2> QED
    BY <1>1, <1>2, <1>6, <2>1, <2>2 DEF Handler, HandlerStart, HandlerHello, HandlerEcho, HandlerSpawn,
       HandlerStopWrite, WritersCollide, HandlerReturn, dbVars
<1>7. CASE \E t \in Turns : RunStep(t)
  BY <1>1, <1>7 DEF RunStep, RunBegin, RunExit, RunEmit, dbVars, handlerVars
<1>8. CASE Relay
  BY <1>1, <1>5, <1>8 DEF Relay, RelayRecv, RelayWrite, RelayWriteError, dbVars, handlerVars
<1>9. CASE PeerLeaves
  BY <1>1, <1>9 DEF PeerLeaves, dbVars, handlerVars
<1>10. CASE UNCHANGED vars
  BY <1>1, <1>10 DEF vars, dbVars, handlerVars
<1> QED
  BY <1>6, <1>7, <1>8, <1>9, <1>10 DEF Next

\* In the history an answer comes after the message it answers, for any number
\* of turns that overlap in any way: a run exists only once its message's row
\* is stored, although another goroutine stores the answer's.
THEOREM HistoryInOrder == Spec => []AnswerAfterMessage
<1>1. Init => MessageInv
  BY EmptySeq DEF Init, MessageInv, MessageStored, AnswersBehind
<1>2. ConnInv /\ MessageInv /\ [Next]_vars => MessageInv'
  BY MessageStep
<1>3. MessageInv => AnswerAfterMessage
  BY DEF MessageInv, AnswersBehind, AnswerAfterMessage
<1> QED
  BY <1>1, <1>2, <1>3, ConnInit, ConnStep, PTL DEF Spec

=============================================================================
