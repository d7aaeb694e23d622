-------------------------- MODULE ChatAnswersProofs --------------------------
(***************************************************************************)
(* Answers of a connection whose messages never overlapped: the row that   *)
(* stores one is the row opened for it, and it is stored before the client *)
(* has read its end.  For every kind of session, channel capacity and      *)
(* number of messages, stops and failing statements.                       *)
(***************************************************************************)
EXTENDS MCChatConn, ChatConnProofs, FiniteSetTheorems

\* Events pushed and not yet written or lost.
InFlight == {events[i] : i \in 1..Len(events)} \cup (IF Holding THEN {ev} ELSE {})

\* Each is its source's, at its place in the script.
ScriptOf(s) == IF s.who = "echo" THEN EchoScript ELSE RunScript(outcome[s.turn])
OfScript(e) == e.type = ScriptOf(e.src)[e.k]
Scripted == \A e \in InFlight : OfScript(e)

\* A run that has ended has pushed its whole script.
Complete ==
  \A t \in Turns : run[t] = "ended" => emitted[Run(t)] = Len(RunScript(outcome[t]))

AnswerInv == ConnInv /\ Scripted /\ Complete

\* Without overlap one turn is under way at a time, ...
OneTurn ==
  /\ \A t \in Turns : t # turn => run[t] \in {"none", "ended"}
  /\ \A e \in InFlight : e.src.turn = turn

\* ... its echo before its answer, ...
EchoFirst ==
  /\ \A i, j \in 1..Len(events) : i < j /\ FromRun(events[i]) => FromRun(events[j])
  /\ Holding /\ FromRun(ev) => \A j \in 1..Len(events) : FromRun(events[j])
  /\ written[Run(turn)] > 0 => \A e \in InFlight : FromRun(e)

\* ... and a row is open exactly between the start of its answer and the end.
Stored(t) == IF rpc = "write" /\ ev.src = Run(t) THEN written[Run(t)] + 1 ELSE written[Run(t)]
Within == outcome[turn] = "answer" /\ Stored(turn) \in {1, 2}
RowOpen ==
  rpc # "exited" =>
    /\ currentMsgID > 0 => Within /\ rows[currentMsgID].turn = turn
    /\ faults = 0 /\ Within => currentMsgID > 0

HasAnswer(t) ==
  \E i \in DOMAIN rows : rows[i].role = "assistant" /\ rows[i].status = "done" /\ rows[i].text = Run(t)
Kept == faults = 0 => \A t \in Turns : outcome[t] = "answer" /\ Stored(t) >= 3 => HasAnswer(t)
Attributed ==
  \A i \in DOMAIN rows :
    rows[i].role = "assistant" /\ rows[i].status = "done" => rows[i].text = Run(rows[i].turn)

SerialInv == ~overlap => OneTurn /\ EchoFirst /\ RowOpen /\ Kept /\ Attributed

-----------------------------------------------------------------------------
\* What is in flight, and what a step does to it.

LEMMA TypeFacts ==
  ASSUME ConnInv
  PROVE  /\ turn \in Turns /\ turn \in Nat /\ Turns \subseteq Nat
         /\ run \in [Turns -> RunPC] /\ outcome \in [Turns -> {"answer", "fail", "silent"}]
         /\ emitted \in [Source -> 0..4] /\ written \in [Source -> Nat]
         /\ events \in Seq(Event) /\ Len(events) \in Nat /\ ev \in Event
         /\ \A i \in 1..Len(events) : events[i] \in Event
         /\ rows \in Seq(Row) /\ Len(rows) \in Nat /\ DOMAIN rows = 1..Len(rows)
         /\ currentMsgID \in Nat /\ faults \in Nat /\ overlap \in BOOLEAN
<1>1. TypeOK
  BY DEF ConnInv, RowInv, TypeInv
<1>2. events \in Seq(Event) /\ rows \in Seq(Row)
  BY <1>1 DEF TypeOK
<1>3. \A i \in 1..Len(events) : events[i] \in Event
  BY <1>2, ElementOfSeq
<1> QED
  BY <1>1, <1>2, <1>3, LenProperties, ChatConnAssumption DEF TypeOK, Turns

LEMMA FlightFacts ==
  ASSUME ConnInv, NEW e \in InFlight
  PROVE  /\ e \in Event /\ e.src \in Source /\ e.k \in 1..4
         /\ written[e.src] < e.k /\ e.k <= emitted[e.src]
<1>1. e \in Event /\ e.src \in Source /\ e.k \in 1..4
  BY TypeFacts DEF InFlight, Event
<1>2. written[e.src] < e.k /\ e.k <= emitted[e.src]
  BY DEF InFlight, ConnInv, QueueInv, InRange
<1> QED
  BY <1>1, <1>2

\* A source that has pushed nothing has nothing in flight and nothing written.
LEMMA NothingPushed ==
  ASSUME ConnInv, NEW s \in Source, emitted[s] = 0
  PROVE  (\A e \in InFlight : e.src # s) /\ written[s] = 0
<1>1. ASSUME NEW e \in InFlight, e.src = s
      PROVE  FALSE
  BY <1>1, FlightFacts
<1>2. written[s] \in Nat /\ written[s] <= emitted[s]
  BY TypeFacts DEF ConnInv, QueueInv, Counted
<1> QED
  BY <1>1, <1>2

LEMMA PushFlight ==
  ASSUME ConnInv, NEW s \in Source, NEW script, Push(s, script), rpc' = rpc, ev' = ev
  PROVE  LET new == EventOf(s, emitted[s] + 1, script)
         IN /\ Len(events') = Len(events) + 1
            /\ \A i \in 1..Len(events) : events'[i] = events[i]
            /\ events'[Len(events) + 1] = new
            /\ InFlight' = InFlight \cup {new}
            /\ new.src = s /\ new.k = emitted[s] + 1 /\ new.type = script[emitted[s] + 1]
<1> DEFINE new == EventOf(s, emitted[s] + 1, script)
<1>0. new.src = s /\ new.k = emitted[s] + 1 /\ new.type = script[emitted[s] + 1]
  BY DEF EventOf
<1>1. events' = Append(events, new)
  BY DEF Push
<1> HIDE DEF new
<1>2. events \in Seq(Event) /\ Len(events) \in Nat
  BY TypeFacts
<1>3. /\ Len(events') = Len(events) + 1
      /\ \A i \in 1..Len(events) : events'[i] = events[i]
      /\ events'[Len(events) + 1] = new
  BY <1>1, <1>2
<1>4. InFlight' = InFlight \cup {new}
  <2>1. {events'[i] : i \in 1..Len(events')} = {events[i] : i \in 1..Len(events)} \cup {new}
    <3>1. 1..Len(events') = 1..Len(events) \cup {Len(events) + 1}
      BY <1>2, <1>3
    <3> QED
      BY <1>3, <3>1
  <2> QED
    BY <2>1 DEF InFlight, Holding
<1> QED
  BY <1>0, <1>3, <1>4 DEF new

LEMMA RecvFlight ==
  ASSUME ConnInv, RelayRecv
  PROVE  /\ Len(events) > 0 /\ Len(events') = Len(events) - 1 /\ ev' = events[1]
         /\ \A i \in 1..Len(events') : events'[i] = events[i + 1] /\ i + 1 \in 1..Len(events)
         /\ InFlight' \subseteq InFlight
<1>1. /\ events # <<>> /\ rpc = "recv" /\ rpc' = "persist"
      /\ ev' = Head(events) /\ events' = Tail(events)
  BY DEF RelayRecv
<1>2. events \in Seq(Event) /\ Len(events) \in Nat /\ Len(events) > 0
  BY <1>1, TypeFacts, EmptySeq
<1>3. /\ Len(events') = Len(events) - 1 /\ ev' = events[1]
      /\ \A i \in 1..Len(events') : events'[i] = events[i + 1]
  BY <1>1, <1>2, HeadTailProperties
<1>4. \A i \in 1..Len(events') : i + 1 \in 1..Len(events)
  BY <1>2, <1>3
<1>5. 1 \in 1..Len(events)
  BY <1>2
<1>6. InFlight' \subseteq InFlight
  BY <1>3, <1>4, <1>5 DEF InFlight
<1> QED
  BY <1>2, <1>3, <1>4, <1>6

LEMMA IdleFlight ==
  ASSUME events' = events, ev' = ev, Holding' => Holding
  PROVE  InFlight' \subseteq InFlight
BY DEF InFlight

-----------------------------------------------------------------------------
\* The scripts.

\* Every step but a run's exit and the pushes leaves the scripts alone and
\* adds nothing to what is in flight.
LEMMA ScriptedStep == ConnInv /\ Scripted /\ [Next]_vars => Scripted'
<1> SUFFICES ASSUME ConnInv, Scripted, [Next]_vars PROVE Scripted'
  OBVIOUS
<1>1. ASSUME outcome' = outcome, InFlight' \subseteq InFlight PROVE Scripted'
  BY <1>1 DEF Scripted, OfScript, ScriptOf
<1>2. ASSUME outcome' = outcome, events' = events, ev' = ev, Holding' => Holding PROVE Scripted'
  BY <1>1, <1>2, IdleFlight
<1>3. CASE HandlerEcho
  <2>1. /\ Push(Echo(turn), EchoScript) /\ rpc' = rpc /\ ev' = ev /\ outcome' = outcome
        /\ Echo(turn) \in Source /\ Echo(turn).who = "echo"
    BY <1>3, TypeFacts, SourceFacts DEF HandlerEcho, relayVars, runVars, Echo
  <2>2. PICK new : InFlight' = InFlight \cup {new} /\ new.src = Echo(turn) /\ new.type = EchoScript[new.k]
    BY <2>1, PushFlight
  <2>3. OfScript(new)'
    BY <2>1, <2>2 DEF OfScript, ScriptOf
  <2>4. \A e \in InFlight : OfScript(e)'
    BY <2>1 DEF Scripted, OfScript, ScriptOf
  <2> QED
    BY <2>2, <2>3, <2>4 DEF Scripted
<1>4. ASSUME NEW t \in Turns, RunEmit(t) PROVE Scripted'
  <2>1. /\ Push(Run(t), RunScript(outcome[t])) /\ rpc' = rpc /\ ev' = ev /\ outcome' = outcome
        /\ Run(t) \in Source /\ Run(t).who # "echo" /\ Run(t).turn = t
    BY <1>4, TypeFacts, SourceFacts DEF RunEmit, relayVars, Run
  <2>2. PICK new : InFlight' = InFlight \cup {new} /\ new.src = Run(t) /\ new.type = RunScript(outcome[t])[new.k]
    BY <2>1, PushFlight
  <2>3. OfScript(new)'
    BY <2>1, <2>2 DEF OfScript, ScriptOf
  <2>4. \A e \in InFlight : OfScript(e)'
    BY <2>1 DEF Scripted, OfScript, ScriptOf
  <2> QED
    BY <2>2, <2>3, <2>4 DEF Scripted
<1>5. ASSUME NEW t \in Turns, RunBegin(t) \/ RunExit(t) PROVE Scripted'
  <2>1. /\ events' = events /\ ev' = ev /\ rpc' = rpc
        /\ \A u \in Turns : u # t => outcome'[u] = outcome[u]
        /\ run[t] \in {"spawned", "exec"}
    BY <1>5, TypeFacts DEF RunBegin, RunExit, relayVars
  <2>2. InFlight' \subseteq InFlight
    BY <2>1, IdleFlight DEF Holding
  <2>3. emitted[Run(t)] = 0 /\ Run(t) \in Source
    BY <2>1, SourceFacts DEF ConnInv, RowInv, TypeInv, Progress
  <2>4. \A e \in InFlight : e.src # Run(t)
    BY <2>3, NothingPushed
  <2>5. ASSUME NEW e \in InFlight PROVE OfScript(e)'
    <3>1. e.src \in Source /\ e.src.turn \in Turns /\ (e.src = Echo(e.src.turn) \/ e.src = Run(e.src.turn))
      BY FlightFacts, SourceFacts
    <3>2. CASE e.src.who = "echo"
      BY <3>2 DEF Scripted, OfScript, ScriptOf
    <3>3. CASE e.src.who # "echo"
      <4>1. e.src.turn # t
        BY <2>4, <3>1, <3>3 DEF Echo
      <4> QED
        BY <2>1, <3>1, <3>3, <4>1 DEF Scripted, OfScript, ScriptOf
    <3> QED
      BY <3>2, <3>3
  <2> QED
    BY <2>2, <2>5 DEF Scripted
<1>6. CASE Handler
  BY <1>2, <1>3, <1>6 DEF Handler, HandlerStart, HandlerHello, HandlerMessage, HandlerSpawn, HandlerStop,
     HandlerStopWrite, WritersCollide, HandlerReadError, HandlerReturn, relayVars, runVars, Holding
<1>7. CASE Relay
  <2>1. CASE RelayRecv
    BY <1>1, <2>1, RecvFlight DEF RelayRecv, runVars
  <2> QED
    BY <1>2, <1>7, <2>1 DEF Relay, RelayPersist, RelayWrite, RelayWriteError, runVars, Holding
<1>8. CASE PeerLeaves \/ UNCHANGED vars
  BY <1>2, <1>8 DEF PeerLeaves, vars, relayVars, runVars, Holding
<1> QED
  BY <1>4, <1>5, <1>6, <1>7, <1>8 DEF Next, RunStep

LEMMA AnswerInit == Init => AnswerInv
<1> SUFFICES ASSUME Init PROVE AnswerInv
  OBVIOUS
<1>1. InFlight = {}
  BY EmptySeq DEF Init, InFlight, Holding
<1> QED
  BY <1>1, ConnInit DEF AnswerInv, Scripted, Complete, Init

LEMMA CompleteStep == ConnInv /\ Complete /\ [Next]_vars => Complete'
<1> SUFFICES ASSUME ConnInv, Complete, [Next]_vars PROVE Complete'
  OBVIOUS
<1>1. ASSUME \A t \in Turns : run'[t] = "ended" =>
               /\ run[t] = "ended" /\ outcome'[t] = outcome[t]
               /\ emitted'[Run(t)] = emitted[Run(t)]
      PROVE  Complete'
  BY <1>1 DEF Complete
<1>2. \A t \in Turns : Echo(turn) # Run(t) /\ Run(t) \in Source
  BY SourceFacts, TypeFacts
<1>3. CASE HandlerEcho
  BY <1>1, <1>2, <1>3, TypeFacts DEF HandlerEcho, Push, runVars
<1>4. CASE HandlerStart \/ HandlerSpawn
  <2>1. emitted' = emitted /\ outcome' = outcome
    BY <1>4 DEF HandlerStart, HandlerSpawn
  <2>2. \A t \in Turns : run'[t] = run[t] \/ run'[t] = "spawned"
    BY <1>4, TypeFacts DEF HandlerStart, HandlerSpawn
  <2> QED
    BY <1>1, <2>1, <2>2
<1>5. CASE Handler
  BY <1>1, <1>3, <1>4, <1>5 DEF Handler, HandlerHello, HandlerMessage, HandlerStop, HandlerStopWrite,
     WritersCollide, HandlerReadError, HandlerReturn, runVars
<1>6. ASSUME NEW t \in Turns, RunStep(t) PROVE Complete'
  <2>1. CASE RunBegin(t) \/ RunExit(t)
    BY <1>1, <2>1, TypeFacts DEF RunBegin, RunExit
  <2>2. CASE RunEmit(t)
    <3>1. /\ emitted' = [emitted EXCEPT ![Run(t)] = @ + 1] /\ outcome' = outcome
          /\ run' = [run EXCEPT ![t] = IF emitted[Run(t)] + 1 = Len(RunScript(outcome[t]))
                                       THEN "ended" ELSE "emit"]
      BY <2>2 DEF RunEmit, Push
    <3>2. \A u \in Turns : u # t => run'[u] = run[u] /\ emitted'[Run(u)] = emitted[Run(u)]
      BY <3>1, TypeFacts, SourceFacts
    <3>3. run'[t] = "ended" => emitted'[Run(t)] = Len(RunScript(outcome[t]))
      BY <1>2, <3>1, TypeFacts
    <3> QED
      BY <3>1, <3>2, <3>3 DEF Complete
  <2> QED
    BY <1>6, <2>1, <2>2 DEF RunStep
<1>7. CASE Relay \/ PeerLeaves \/ UNCHANGED vars
  BY <1>1, <1>7 DEF Relay, RelayRecv, RelayPersist, RelayWrite, RelayWriteError, PeerLeaves, vars, runVars
<1> QED
  BY <1>5, <1>6, <1>7 DEF Next

LEMMA AnswerStep == AnswerInv /\ [Next]_vars => AnswerInv'
BY ConnStep, ScriptedStep, CompleteStep DEF AnswerInv

-----------------------------------------------------------------------------
\* One turn at a time.

\* Overlap is remembered, and without it a message finds the connection quiet.
LEMMA OverlapStays ==
  [Next]_vars /\ ~overlap' => ~overlap /\ (HandlerMessage => Quiet)
<1> SUFFICES ASSUME [Next]_vars, ~overlap' PROVE ~overlap /\ (HandlerMessage => Quiet)
  OBVIOUS
<1>1. HandlerMessage => ~overlap /\ Quiet
  BY DEF HandlerMessage
<1>2. CASE Handler
  BY <1>1, <1>2 DEF Handler, HandlerStart, HandlerHello, HandlerEcho, HandlerSpawn, HandlerStop,
     HandlerStopWrite, WritersCollide, HandlerReadError, HandlerReturn, historyVars
<1>3. CASE \E t \in Turns : RunStep(t)
  BY <1>3 DEF RunStep, RunBegin, RunExit, RunEmit, historyVars, HandlerMessage, handlerVars
<1>4. CASE Relay
  BY <1>4 DEF Relay, RelayRecv, RelayPersist, RelayWrite, RelayWriteError, historyVars,
     HandlerMessage, handlerVars
<1>5. CASE PeerLeaves \/ UNCHANGED vars
  BY <1>5 DEF PeerLeaves, vars, historyVars, HandlerMessage, handlerVars
<1> QED
  BY <1>2, <1>3, <1>4, <1>5, <1>1 DEF Next

\* At rest nothing is in flight and all a run has pushed is written.
LEMMA QuietFacts ==
  ASSUME ConnInv, Quiet
  PROVE  /\ InFlight = {} /\ ~Holding /\ Len(events) = 0
         /\ \A s \in Source : written[s] = emitted[s]
<1>1. Len(events) = 0 /\ ~Holding /\ rpc = "recv"
  BY EmptySeq DEF Quiet, Holding
<1>2. InFlight = {}
  BY <1>1 DEF InFlight
<1>3. ASSUME NEW s \in Source PROVE written[s] = emitted[s]
  <2>1. written[s] \in Nat /\ emitted[s] \in 0..4 /\ written[s] <= emitted[s]
    BY TypeFacts DEF ConnInv, QueueInv, Counted
  <2> SUFFICES ASSUME written[s] < emitted[s] PROVE FALSE
    BY <2>1
  <2>2. emitted[s] \in 1..4 /\ emitted[s] <= emitted[s]
    BY <2>1
  <2> QED
    BY <1>1, <2>2 DEF ConnInv, QueueInv, NoneLost
<1> QED
  BY <1>1, <1>2, <1>3

\* A step that leaves the queue and the counters alone, or lets the relay die.
LEMMA IdleTurn ==
  ASSUME OneTurn, EchoFirst, events' = events, ev' = ev, written' = written, turn' = turn,
         Holding' => Holding, \A t \in Turns : t # turn => run'[t] \in {"none", "ended"}
  PROVE  OneTurn' /\ EchoFirst'
<1>1. InFlight' \subseteq InFlight
  BY IdleFlight
<1> QED
  BY <1>1 DEF OneTurn, EchoFirst

\* While the echo is pushed, and before, the turn's run has pushed nothing.
LEMMA EchoAlone ==
  ASSUME ConnInv, OneTurn, run[turn] = "none"
  PROVE  (\A e \in InFlight : ~FromRun(e)) /\ written[Run(turn)] = 0
<1>1. emitted[Run(turn)] = 0 /\ Run(turn) \in Source
  BY TypeFacts, SourceFacts DEF ConnInv, RowInv, TypeInv, Progress
<1>2. ASSUME NEW e \in InFlight PROVE ~FromRun(e)
  <2>1. e.src # Run(turn) /\ e.src.turn = turn /\ (e.src = Echo(e.src.turn) \/ e.src = Run(e.src.turn))
    BY <1>1, NothingPushed, FlightFacts, SourceFacts DEF OneTurn
  <2> QED
    BY <2>1 DEF FromRun, Echo
<1> QED
  BY <1>1, <1>2, NothingPushed

LEMMA PushEchoTurn == AnswerInv /\ OneTurn /\ EchoFirst /\ HandlerEcho => OneTurn' /\ EchoFirst'
<1> SUFFICES ASSUME ConnInv, OneTurn, EchoFirst, HandlerEcho PROVE OneTurn' /\ EchoFirst'
  BY DEF AnswerInv
<1>1. /\ Push(Echo(turn), EchoScript) /\ rpc' = rpc /\ ev' = ev /\ run' = run /\ turn' = turn
      /\ written' = written /\ Echo(turn) \in Source /\ run[turn] = "none"
  BY TypeFacts, SourceFacts
     DEF HandlerEcho, relayVars, runVars, historyVars, ConnInv, RowInv, TypeInv, Progress
<1>2. PICK new : /\ Len(events') = Len(events) + 1
                 /\ \A i \in 1..Len(events) : events'[i] = events[i]
                 /\ events'[Len(events) + 1] = new
                 /\ InFlight' = InFlight \cup {new} /\ new.src = Echo(turn)
  BY <1>1, PushFlight
<1>3. Echo(turn).turn = turn
  BY DEF Echo
<1>4. (\A e \in InFlight : ~FromRun(e)) /\ written[Run(turn)] = 0
  BY <1>1, EchoAlone
<1>5. \A i \in 1..Len(events) : ~FromRun(events[i])
  BY <1>4 DEF InFlight
<1>6. Holding => ~FromRun(ev)
  BY <1>4 DEF InFlight
<1>7. Len(events) \in Nat
  BY TypeFacts
<1>8. OneTurn'
  BY <1>1, <1>2, <1>3 DEF OneTurn
<1>9. \A i, j \in 1..Len(events') : i < j => ~FromRun(events'[i])
  BY <1>2, <1>5, <1>7
<1>10. Holding' => ~FromRun(ev')
  BY <1>1, <1>6 DEF Holding
<1>11. ~(written'[Run(turn')] > 0)
  BY <1>1, <1>4
<1> QED
  BY <1>8, <1>9, <1>10, <1>11 DEF EchoFirst

LEMMA PushAnswerTurn ==
  ASSUME AnswerInv, OneTurn, EchoFirst, NEW t \in Turns, RunEmit(t)
  PROVE  OneTurn' /\ EchoFirst'
<1>1. /\ Push(Run(t), RunScript(outcome[t])) /\ rpc' = rpc /\ ev' = ev /\ turn' = turn
      /\ written' = written /\ Run(t) \in Source /\ run[t] = "emit"
      /\ \A u \in Turns : u # t => run'[u] = run[u]
  BY TypeFacts, SourceFacts DEF RunEmit, relayVars, handlerVars, historyVars, AnswerInv
<1>2. PICK new : /\ Len(events') = Len(events) + 1
                 /\ \A i \in 1..Len(events) : events'[i] = events[i]
                 /\ events'[Len(events) + 1] = new
                 /\ InFlight' = InFlight \cup {new} /\ new.src = Run(t)
  BY <1>1, PushFlight DEF AnswerInv
<1>3. t = turn /\ new.src.turn = turn /\ FromRun(new)
  BY <1>1, <1>2 DEF OneTurn, FromRun, Run
<1>4. Len(events) \in Nat
  BY TypeFacts DEF AnswerInv
<1>5. OneTurn'
  BY <1>1, <1>2, <1>3 DEF OneTurn
<1>6. \A i, j \in 1..Len(events') : i < j /\ FromRun(events'[i]) => FromRun(events'[j])
  <2> SUFFICES ASSUME NEW i \in 1..(Len(events) + 1), NEW j \in 1..(Len(events) + 1), i < j,
                      FromRun(events'[i])
               PROVE  FromRun(events'[j])
    BY <1>2
  <2>1. CASE j = Len(events) + 1
    BY <1>2, <1>3, <2>1
  <2>2. CASE j # Len(events) + 1
    <3>1. i \in 1..Len(events) /\ j \in 1..Len(events)
      BY <1>4, <2>2
    <3> QED
      BY <1>2, <3>1 DEF EchoFirst
  <2> QED
    BY <2>1, <2>2
<1>7. ASSUME \A j \in 1..Len(events) : FromRun(events[j])
      PROVE  \A j \in 1..Len(events') : FromRun(events'[j])
  BY <1>2, <1>3, <1>4, <1>7
<1>8. Holding' /\ FromRun(ev') => \A j \in 1..Len(events') : FromRun(events'[j])
  BY <1>1, <1>7 DEF EchoFirst, Holding
<1>9. written'[Run(turn')] > 0 => \A e \in InFlight' : FromRun(e)
  BY <1>1, <1>2, <1>3 DEF EchoFirst
<1> QED
  BY <1>5, <1>6, <1>8, <1>9 DEF EchoFirst

LEMMA RecvTurn == AnswerInv /\ OneTurn /\ EchoFirst /\ RelayRecv => OneTurn' /\ EchoFirst'
<1> SUFFICES ASSUME ConnInv, OneTurn, EchoFirst, RelayRecv PROVE OneTurn' /\ EchoFirst'
  BY DEF AnswerInv
<1>1. run' = run /\ turn' = turn /\ written' = written
  BY DEF RelayRecv, runVars, handlerVars, historyVars
<1>2. /\ Len(events) > 0 /\ Len(events') = Len(events) - 1 /\ ev' = events[1]
      /\ \A i \in 1..Len(events') : events'[i] = events[i + 1] /\ i + 1 \in 1..Len(events)
      /\ InFlight' \subseteq InFlight
  BY RecvFlight
<1>3. Len(events) \in Nat /\ 1 \in 1..Len(events)
  BY <1>2, TypeFacts
<1>4. OneTurn'
  BY <1>1, <1>2 DEF OneTurn
<1>5. \A i, j \in 1..Len(events') : i < j /\ FromRun(events'[i]) => FromRun(events'[j])
  <2> SUFFICES ASSUME NEW i \in 1..Len(events'), NEW j \in 1..Len(events'), i < j, FromRun(events[i + 1])
               PROVE  FromRun(events[j + 1])
    BY <1>2
  <2>1. i + 1 < j + 1
    BY <1>2, <1>3
  <2> QED
    BY <1>2, <2>1 DEF EchoFirst
<1>6. FromRun(ev') => \A j \in 1..Len(events') : FromRun(events'[j])
  <2> SUFFICES ASSUME FromRun(events[1]), NEW j \in 1..Len(events') PROVE FromRun(events[j + 1])
    BY <1>2
  <2>1. 1 < j + 1
    BY <1>2, <1>3
  <2> QED
    BY <1>2, <1>3, <2>1 DEF EchoFirst
<1>7. written'[Run(turn')] > 0 => \A e \in InFlight' : FromRun(e)
  BY <1>1, <1>2 DEF EchoFirst
<1> QED
  BY <1>4, <1>5, <1>6, <1>7 DEF EchoFirst

LEMMA WriteTurn == AnswerInv /\ OneTurn /\ EchoFirst /\ RelayWrite => OneTurn' /\ EchoFirst'
<1> SUFFICES ASSUME ConnInv, OneTurn, EchoFirst, RelayWrite PROVE OneTurn' /\ EchoFirst'
  BY DEF AnswerInv
<1>1. /\ run' = run /\ turn' = turn /\ written' = [written EXCEPT ![ev.src] = @ + 1]
      /\ events' = events /\ ev' = ev /\ Holding /\ ~Holding'
  BY DEF RelayWrite, runVars, handlerVars, Holding
<1>2. InFlight' \subseteq InFlight
  BY <1>1, IdleFlight
<1>3. OneTurn'
  BY <1>1, <1>2 DEF OneTurn
<1>4. InFlight' = {events[i] : i \in 1..Len(events)}
  BY <1>1 DEF InFlight
<1>5. ASSUME written'[Run(turn)] > 0 PROVE \A e \in InFlight' : FromRun(e)
  <2>1. CASE ev.src = Run(turn)
    BY <1>1, <1>4, <2>1 DEF EchoFirst, FromRun, Run
  <2>2. CASE ev.src # Run(turn)
    <3>1. written'[Run(turn)] = written[Run(turn)]
      BY <1>1, <2>2, TypeFacts, SourceFacts
    <3> QED
      BY <1>2, <1>5, <3>1 DEF EchoFirst
  <2> QED
    BY <2>1, <2>2
<1> QED
  BY <1>1, <1>3, <1>5 DEF EchoFirst

LEMMA TurnStep ==
  ASSUME AnswerInv, OneTurn, EchoFirst, [Next]_vars, ~overlap'
  PROVE  OneTurn' /\ EchoFirst'
<1>0. TypeInv /\ ConnInv
  BY DEF AnswerInv, ConnInv, RowInv
<1>1. ASSUME events' = events, ev' = ev, written' = written, turn' = turn, Holding' => Holding,
             \A t \in Turns : t # turn => run'[t] = run[t]
      PROVE  OneTurn' /\ EchoFirst'
  BY <1>1, IdleTurn DEF OneTurn
<1>2. CASE HandlerMessage
  <2>1. Quiet
    BY <1>2, OverlapStays
  <2>2. InFlight = {} /\ ~Holding /\ Len(events) = 0
    BY <1>0, <2>1, QuietFacts
  <2>3. run' = run /\ events' = events /\ ev' = ev /\ rpc' = rpc
    BY <1>2 DEF HandlerMessage, runVars, relayVars
  <2>4. InFlight' = {} /\ ~Holding' /\ Len(events') = 0
    BY <2>2, <2>3 DEF InFlight, Holding
  <2>5. OneTurn'
    BY <2>1, <2>3, <2>4 DEF OneTurn, Quiet
  <2>6. EchoFirst'
    BY <2>4 DEF EchoFirst
  <2> QED
    BY <2>5, <2>6
<1>3. CASE HandlerStart
  BY <1>0, <1>1, <1>3 DEF HandlerStart, TypeInv, TypeOK, Progress, relayVars, historyVars, Holding
<1>4. CASE HandlerSpawn
  BY <1>0, <1>1, <1>4 DEF HandlerSpawn, TypeInv, TypeOK, relayVars, historyVars, Holding
<1>5. CASE Handler
  BY <1>1, <1>2, <1>3, <1>4, <1>5, PushEchoTurn DEF Handler, HandlerHello, HandlerStop, HandlerStopWrite,
     WritersCollide, HandlerReadError, HandlerReturn, relayVars, runVars, historyVars, Holding
<1>6. ASSUME NEW t \in Turns, RunStep(t) PROVE OneTurn' /\ EchoFirst'
  <2>1. CASE RunBegin(t) \/ RunExit(t)
    <3>1. run[t] \in {"spawned", "exec"}
      BY <2>1 DEF RunBegin, RunExit
    <3>2. t = turn
      BY <3>1 DEF OneTurn
    <3>3. /\ events' = events /\ ev' = ev /\ written' = written /\ turn' = turn /\ rpc' = rpc
          /\ \A u \in Turns : u # t => run'[u] = run[u]
      BY <1>0, <2>1 DEF RunBegin, RunExit, relayVars, historyVars, handlerVars, TypeInv, TypeOK
    <3> QED
      BY <1>1, <3>2, <3>3 DEF Holding
  <2> QED
    BY <1>6, <2>1, PushAnswerTurn DEF RunStep
<1>7. CASE Relay
  BY <1>1, <1>7, RecvTurn, WriteTurn
     DEF Relay, RelayPersist, RelayWriteError, runVars, handlerVars, historyVars, Holding
<1>8. CASE PeerLeaves \/ UNCHANGED vars
  BY <1>1, <1>8 DEF PeerLeaves, vars, relayVars, runVars, handlerVars, historyVars, Holding
<1> QED
  BY <1>5, <1>6, <1>7, <1>8 DEF Next

-----------------------------------------------------------------------------
\* The open row and the answers stored.

\* What the events of a run say of its outcome and of their place.
LEMMA RunKinds ==
  ASSUME NEW o \in {"answer", "fail", "silent"}, NEW k \in 1..4, k <= Len(RunScript(o))
  PROVE  LET type == RunScript(o)[k]
         IN /\ type \in {"message_start", "message_delta", "message_done", "status_done", "error"}
            /\ type = "message_start" => o = "answer" /\ k = 1
            /\ type = "message_delta" => o = "answer" /\ k = 2
            /\ type = "message_done" => o = "answer" /\ k = 3
            /\ type = "status_done" => o = "silent" \/ k = 4
            /\ type = "error" => o = "fail"
BY DEF RunScript

\* An answer that is stored stays stored.
LEMMA AnswerStays ==
  ASSUME ConnInv, [Next]_vars, NEW t, HasAnswer(t)
  PROVE  HasAnswer(t)'
<1>1. RowsGrow /\ ConnInv'
  BY RowNext, ConnStep DEF ConnInv
<1>2. PICK i \in DOMAIN rows : rows[i].role = "assistant" /\ rows[i].status = "done" /\ rows[i].text = Run(t)
  BY DEF HasAnswer
<1>3. rows'[i] = rows[i]
  BY <1>1, <1>2 DEF RowsGrow
<1>4. i \in DOMAIN rows'
  <2>1. rows \in Seq(Row) /\ rows' \in Seq(Row)
    BY <1>1 DEF ConnInv, RowInv, TypeInv, TypeOK
  <2>2. /\ DOMAIN rows = 1..Len(rows) /\ DOMAIN rows' = 1..Len(rows')
        /\ Len(rows) \in Nat /\ Len(rows') \in Nat
    BY <2>1, LenProperties
  <2> QED
    BY <1>1, <1>2, <2>2 DEF RowsGrow
<1> QED
  BY <1>2, <1>3, <1>4 DEF HasAnswer

\* At rest no row is open.
LEMMA ClosedAtRest ==
  ASSUME AnswerInv, OneTurn, RowOpen, Quiet
  PROVE  currentMsgID = 0
<1> SUFFICES ASSUME currentMsgID # 0 PROVE FALSE
  OBVIOUS
<1>1. Within /\ rpc = "recv"
  BY TypeFacts DEF RowOpen, Quiet, AnswerInv
<1>2. outcome[turn] = "answer" /\ written[Run(turn)] \in {1, 2} /\ Run(turn) \in Source
  BY <1>1, TypeFacts, SourceFacts DEF Within, Stored, AnswerInv
<1>3. emitted[Run(turn)] = written[Run(turn)]
  BY <1>2, QuietFacts DEF AnswerInv
<1>4. run[turn] # "none"
  BY <1>2, <1>3, TypeFacts DEF AnswerInv, ConnInv, RowInv, TypeInv, Progress
<1>5. emitted[Run(turn)] = Len(RunScript("answer"))
  BY <1>2, <1>4, TypeFacts DEF AnswerInv, Complete, Quiet
<1>6. Len(RunScript("answer")) = 4
  BY DEF RunScript
<1>7. written[Run(turn)] = 4
  BY <1>3, <1>5, <1>6, Zenon
<1> QED
  BY <1>2, <1>7

\* Steps that change neither the rows nor how much of an answer is stored.
LEMMA IdleRow ==
  ASSUME AnswerInv, [Next]_vars, RowOpen, Kept, Attributed,
         rows' = rows, currentMsgID' = currentMsgID, turn' = turn, outcome' = outcome,
         written' = written, ev' = ev, rpc' = rpc \/ (rpc # "write" /\ rpc' # "write" /\ rpc # "exited"),
         faults' = 0 => faults = 0
  PROVE  RowOpen' /\ Kept' /\ Attributed'
<1>1. \A t : Stored(t)' = Stored(t)
  BY DEF Stored
<1>2. Within' <=> Within
  BY <1>1 DEF Within
<1>3. \A t : HasAnswer(t) => HasAnswer(t)'
  BY DEF HasAnswer
<1>4. RowOpen'
  BY <1>2 DEF RowOpen
<1>5. Kept'
  BY <1>1, <1>3 DEF Kept
<1> QED
  BY <1>4, <1>5 DEF Attributed

\* The relay dies: what it has not written does not count.
LEMMA DeadRelay ==
  ASSUME AnswerInv, Kept, Attributed, rpc' = "exited", rows' = rows, outcome' = outcome,
         written' = written, faults' = faults
  PROVE  RowOpen' /\ Kept' /\ Attributed'
<1>1. ASSUME NEW t \in Turns, Stored(t)' >= 3 PROVE Stored(t) >= 3
  BY <1>1, TypeFacts, SourceFacts DEF Stored, AnswerInv
<1>2. \A t : HasAnswer(t) => HasAnswer(t)'
  BY DEF HasAnswer
<1> QED
  BY <1>1, <1>2 DEF RowOpen, Kept, Attributed

LEMMA AskRow ==
  ASSUME AnswerInv, [Next]_vars, HandlerMessage, Quiet, OneTurn, RowOpen, Kept, Attributed
  PROVE  RowOpen' /\ Kept' /\ Attributed'
<1>1. /\ rows' = rows \/ rows' = Append(rows, UserRow(turn + 1))
      /\ faults' = 0 => faults = 0
      /\ turn' = turn + 1 /\ turn < MaxTurns /\ outcome' = outcome /\ written' = written
      /\ rpc' = rpc /\ rpc = "recv" /\ ev' = ev /\ currentMsgID' = currentMsgID
  BY TypeFacts DEF HandlerMessage, Quiet, Fault, runVars, relayVars, AnswerInv
<1>2. currentMsgID = 0
  BY ClosedAtRest
<1>3. turn + 1 \in Turns /\ turn + 1 > turn
  BY <1>1, TypeFacts, ChatConnAssumption DEF Turns, AnswerInv
<1>4. written[Run(turn + 1)] = 0
  <2>1. Run(turn + 1) \in Source /\ emitted[Run(turn + 1)] = 0
    BY <1>3, SourceFacts DEF AnswerInv, ConnInv, RowInv, TypeInv, Progress
  <2> QED
    BY <2>1, NothingPushed DEF AnswerInv
<1>5. \A t : Stored(t)' = Stored(t) /\ Stored(t) = written[Run(t)]
  BY <1>1 DEF Stored
<1>6. RowOpen'
  BY <1>1, <1>2, <1>4, <1>5 DEF RowOpen, Within
<1>7. Kept'
  BY <1>1, <1>5, AnswerStays DEF Kept, AnswerInv
<1>8. Attributed'
  <2>1. CASE rows' = rows
    BY <2>1 DEF Attributed
  <2>2. CASE rows' = Append(rows, UserRow(turn + 1))
    <3>1. UserRow(turn + 1) \in Row /\ UserRow(turn + 1).role = "user"
      BY <1>3, SourceFacts DEF UserRow, Row
    <3>2. /\ DOMAIN rows' = 1..(Len(rows) + 1)
          /\ \A i \in DOMAIN rows : rows'[i] = rows[i]
          /\ rows'[Len(rows) + 1] = UserRow(turn + 1)
      BY <2>2, <3>1, AppendRow, TypeFacts DEF AnswerInv
    <3>3. \A i \in DOMAIN rows' : i \in DOMAIN rows \/ i = Len(rows) + 1
      BY <3>2, TypeFacts DEF AnswerInv
    <3> QED
      BY <3>1, <3>2, <3>3 DEF Attributed
  <2> QED
    BY <1>1, <2>1, <2>2
<1> QED
  BY <1>6, <1>7, <1>8

\* A run that starts or ends its process has stored nothing yet.
LEMMA OutcomeRow ==
  ASSUME AnswerInv, [Next]_vars, OneTurn, RowOpen, Kept, Attributed,
         NEW t \in Turns, RunBegin(t) \/ RunExit(t)
  PROVE  RowOpen' /\ Kept' /\ Attributed'
<1>1. /\ rows' = rows /\ currentMsgID' = currentMsgID /\ turn' = turn /\ faults' = faults
      /\ written' = written /\ ev' = ev /\ rpc' = rpc /\ run[t] \in {"spawned", "exec"}
      /\ \A u \in Turns : u # t => outcome'[u] = outcome[u]
  BY TypeFacts DEF RunBegin, RunExit, relayVars, dbVars, historyVars, handlerVars, AnswerInv
<1>2. t = turn
  BY <1>1 DEF OneTurn
<1>3. Run(t) \in Source /\ emitted[Run(t)] = 0
  BY <1>1, SourceFacts DEF AnswerInv, ConnInv, RowInv, TypeInv, Progress
<1>4. (\A e \in InFlight : e.src # Run(t)) /\ written[Run(t)] = 0
  BY <1>3, NothingPushed DEF AnswerInv
<1>5. Stored(t) = 0
  <2>1. rpc = "write" => ev.src # Run(t)
    BY <1>4 DEF InFlight, Holding
  <2> QED
    BY <1>4, <2>1 DEF Stored
<1>6. \A u : Stored(u)' = Stored(u)
  BY <1>1 DEF Stored
<1>7. ~Within /\ ~Within'
  BY <1>1, <1>2, <1>5, <1>6 DEF Within
<1>8. RowOpen'
  BY <1>1, <1>7 DEF RowOpen
<1>9. Kept'
  <2>1. \A u : HasAnswer(u) => HasAnswer(u)'
    BY <1>1 DEF HasAnswer
  <2>2. \A u \in Turns : Stored(u)' >= 3 => u # t
    BY <1>5, <1>6
  <2> QED
    BY <1>1, <1>6, <2>1, <2>2 DEF Kept
<1> QED
  BY <1>1, <1>8, <1>9 DEF Attributed

LEMMA WriteRow ==
  ASSUME AnswerInv, RowOpen, Kept, Attributed, RelayWrite
  PROVE  RowOpen' /\ Kept' /\ Attributed'
<1>1. /\ rows' = rows /\ currentMsgID' = currentMsgID /\ turn' = turn /\ faults' = faults
      /\ written' = [written EXCEPT ![ev.src] = @ + 1] /\ ev' = ev /\ outcome' = outcome
      /\ rpc = "write" /\ rpc' = "recv"
  BY DEF RelayWrite, runVars, dbVars, handlerVars
<1>2. ASSUME NEW t \in Turns PROVE Stored(t)' = Stored(t)
  BY <1>1, TypeFacts, SourceFacts DEF Stored, AnswerInv
<1>3. Within' <=> Within
  BY <1>1, <1>2, TypeFacts DEF Within, AnswerInv
<1>4. \A t : HasAnswer(t) => HasAnswer(t)'
  BY <1>1 DEF HasAnswer
<1> QED
  BY <1>1, <1>2, <1>3, <1>4 DEF RowOpen, Kept, Attributed

\* The event the relay is about to store: one of the echo finds no row open,
\* one of the answer is as far in the script as the answer is stored.
LEMMA HeldEvent ==
  ASSUME AnswerInv, OneTurn, EchoFirst, RowOpen, rpc = "persist"
  PROVE  /\ ev.src.turn = turn /\ ev.src \in Source /\ ev.k \in 1..4 /\ Run(turn) \in Source
         /\ ~FromRun(ev) => ev.src = Echo(turn) /\ ~Within /\ currentMsgID = 0
         /\ FromRun(ev) =>
              /\ ev.src = Run(turn) /\ written[Run(turn)] = ev.k - 1
              /\ ev.type \in {"message_start", "message_delta", "message_done", "status_done", "error"}
              /\ ev.type = "message_start" => outcome[turn] = "answer" /\ ev.k = 1
              /\ ev.type = "message_delta" => outcome[turn] = "answer" /\ ev.k = 2
              /\ ev.type = "message_done" => outcome[turn] = "answer" /\ ev.k = 3
              /\ ev.type = "status_done" => outcome[turn] = "silent" \/ ev.k = 4
              /\ ev.type = "error" => outcome[turn] = "fail"
<1> DEFINE o == outcome[turn]
<1>0. /\ turn \in Turns /\ o \in {"answer", "fail", "silent"} /\ currentMsgID \in Nat /\ TypeOK /\ QueueInv
      /\ Run(turn) \in Source /\ written[Run(turn)] \in Nat /\ emitted[Run(turn)] \in 0..4
  BY TypeFacts, SourceFacts DEF AnswerInv, ConnInv, RowInv, TypeInv
<1>1. Holding /\ ev \in InFlight
  BY DEF Holding, InFlight
<1>2. /\ ev.src \in Source /\ ev.src.turn = turn /\ ev.k \in 1..4 /\ ev.k = written[ev.src] + 1
      /\ ev.k <= emitted[ev.src] /\ OfScript(ev)
  BY <1>0, <1>1, HeldNext, FlightFacts DEF OneTurn, AnswerInv, Scripted
<1>3. ASSUME ~FromRun(ev)
      PROVE  ev.src = Echo(turn) /\ ~Within /\ currentMsgID = 0
  <2>1. ev.src = Echo(turn)
    BY <1>2, <1>3, SourceFacts DEF FromRun, Run
  <2>2. ~(written[Run(turn)] > 0)
    BY <1>1, <1>3 DEF EchoFirst
  <2>3. ~Within
    BY <1>0, <2>2 DEF Within, Stored
  <2> QED
    BY <1>0, <2>1, <2>3 DEF RowOpen
<1>4. ASSUME FromRun(ev)
      PROVE  /\ ev.src = Run(turn) /\ written[Run(turn)] = ev.k - 1
             /\ ev.type = RunScript(o)[ev.k] /\ ev.k <= Len(RunScript(o))
  <2>1. ev.src = Run(turn)
    BY <1>2, <1>4, SourceFacts DEF FromRun, Echo
  <2>2. ev.type = RunScript(o)[ev.k]
    BY <1>2, <1>4 DEF OfScript, ScriptOf, FromRun
  <2>3. Len(RunScript(o)) \in Nat
    BY <1>0, ScriptFacts, LenProperties
  <2>4. CASE run[turn] = "emit"
    <3>1. emitted[Run(turn)] < Len(RunScript(o))
      BY <1>0, <2>4 DEF AnswerInv, ConnInv, RowInv, TypeInv, Progress
    <3> QED
      BY <1>0, <1>2, <2>1, <2>2, <2>3, <3>1
  <2>5. CASE run[turn] = "ended"
    <3>1. emitted[Run(turn)] = Len(RunScript(o))
      BY <1>0, <2>5 DEF AnswerInv, Complete
    <3> QED
      BY <1>0, <1>2, <2>1, <2>2, <2>3, <3>1
  <2>6. CASE run[turn] \in {"none", "spawned", "exec"}
    <3>1. emitted[Run(turn)] = 0
      BY <1>0, <2>6 DEF AnswerInv, ConnInv, RowInv, TypeInv, Progress
    <3> QED
      BY <1>2, <2>1, <3>1
  <2> QED
    BY <1>0, <2>4, <2>5, <2>6, TypeFacts DEF RunPC, AnswerInv
<1> HIDE DEF o
<1>5. FromRun(ev) =>
        /\ ev.type \in {"message_start", "message_delta", "message_done", "status_done", "error"}
        /\ ev.type = "message_start" => o = "answer" /\ ev.k = 1
        /\ ev.type = "message_delta" => o = "answer" /\ ev.k = 2
        /\ ev.type = "message_done" => o = "answer" /\ ev.k = 3
        /\ ev.type = "status_done" => o = "silent" \/ ev.k = 4
        /\ ev.type = "error" => o = "fail"
  BY <1>0, <1>2, <1>4, RunKinds
<1> QED
  BY <1>0, <1>2, <1>3, <1>4, <1>5 DEF o

\* An event of the echo changes no row; one of the answer moves the row and
\* the count of what is stored together.
LEMMA PersistRow ==
  ASSUME AnswerInv, [Next]_vars, OneTurn, EchoFirst, RowOpen, Kept, Attributed, RelayPersist
  PROVE  RowOpen' /\ Kept' /\ Attributed'
<1> DEFINE o == outcome[turn]
<1>0. /\ rows \in Seq(Row) /\ Len(rows) \in Nat /\ DOMAIN rows = 1..Len(rows)
      /\ currentMsgID \in Nat /\ faults \in Nat /\ turn \in Turns
  BY TypeFacts DEF AnswerInv
<1>1. /\ rpc = "persist" /\ rpc' = "write" /\ turn' = turn
      /\ outcome' = outcome /\ written' = written /\ ev' = ev
  BY DEF RelayPersist, runVars, handlerVars
<1>2. /\ ev.src.turn = turn /\ ev.src \in Source /\ ev.k \in 1..4 /\ Run(turn) \in Source
      /\ ~FromRun(ev) => ev.src = Echo(turn) /\ ~Within /\ currentMsgID = 0
  BY <1>1, HeldEvent
<1>3. Stored(turn) = written[Run(turn)] /\ \A t : ev.src # Run(t) => Stored(t)' = Stored(t)
  BY <1>1 DEF Stored
<1>4. \A t : HasAnswer(t) => HasAnswer(t)'
  BY AnswerStays DEF AnswerInv
<1>5. faults' = 0 => faults = 0
  BY <1>0 DEF RelayPersist, PersistStatus, PersistStart, PersistDone, PersistNothing, StoreStatus, Fault, dbVars
<1>6. CASE ~FromRun(ev)
  <2>1. \A t : ev.src # Run(t)
    BY <1>2, <1>6 DEF Echo, Run
  <2>2. rows' = rows /\ currentMsgID' = currentMsgID
    BY <1>2, <1>6 DEF RelayPersist, PersistStatus, PersistStart, PersistDone, PersistNothing, dbVars
  <2>3. ~Within'
    BY <1>1, <1>2, <1>3, <1>6, <2>1 DEF Within
  <2>4. RowOpen'
    BY <1>2, <1>6, <2>2, <2>3 DEF RowOpen
  <2>5. Kept'
    BY <1>1, <1>3, <1>4, <1>5, <2>1 DEF Kept
  <2> QED
    BY <2>2, <2>4, <2>5 DEF Attributed
<1>7. CASE FromRun(ev)
  <2>1. ev.src = Run(turn) /\ written[Run(turn)] = ev.k - 1
    BY <1>1, <1>7, HeldEvent
  <2>4. Stored(turn) = ev.k - 1 /\ Stored(turn)' = ev.k
    BY <1>1, <1>2, <1>3, <2>1 DEF Stored
  <2>5. \A t \in Turns : t # turn => Stored(t)' = Stored(t)
    BY <1>0, <1>3, <2>1, SourceFacts
  <2>6. /\ Within <=> o = "answer" /\ ev.k \in {2, 3}
        /\ Within' <=> o = "answer" /\ ev.k \in {1, 2}
    BY <1>1, <1>2, <2>4 DEF Within
  <2> HIDE DEF o
  <2>7. /\ currentMsgID > 0 => Within /\ rows[currentMsgID].turn = turn
        /\ faults = 0 /\ Within => currentMsgID > 0
    BY <1>1 DEF RowOpen
  <2>8. /\ ev.type = "message_start" => o = "answer" /\ ev.k = 1
        /\ ev.type = "message_delta" => o = "answer" /\ ev.k = 2
        /\ ev.type = "message_done" => o = "answer" /\ ev.k = 3
        /\ ev.type = "status_done" => o = "silent" \/ ev.k = 4
        /\ ev.type = "error" => o = "fail"
        /\ ev.type \in {"message_start", "message_delta", "message_done", "status_done", "error"}
    BY <1>1, <1>7, HeldEvent DEF o
  <2>9. ASSUME ev.k # 3 \/ o # "answer" PROVE Kept'
    <3>1. ASSUME o = "answer", Stored(turn)' >= 3 PROVE Stored(turn) >= 3
      BY <1>2, <2>4, <2>9, <3>1
    <3>2. \A t \in Turns : outcome'[t] = "answer" /\ Stored(t)' >= 3 => outcome[t] = "answer" /\ Stored(t) >= 3
      BY <1>1, <2>5, <3>1 DEF o
    <3> QED
      BY <1>4, <1>5, <3>2 DEF Kept
  <2>10. ASSUME rows' = rows, currentMsgID' = currentMsgID, ev.type # "message_start", ev.type # "message_done"
         PROVE  RowOpen' /\ Kept' /\ Attributed'
    <3>1. Within' <=> Within
      BY <2>6, <2>8, <2>10
    <3>2. RowOpen'
      BY <1>1, <1>5, <2>7, <2>10, <3>1 DEF RowOpen
    <3>3. Kept'
      BY <2>8, <2>9, <2>10
    <3> QED
      BY <2>10, <3>2, <3>3 DEF Attributed
  <2>11. CASE PersistStart
    <3>1. o = "answer" /\ ev.k = 1
      BY <2>8, <2>11 DEF PersistStart
    <3>2. currentMsgID = 0
      BY <1>0, <2>6, <2>7, <3>1
    <3>3. Kept'
      BY <2>9, <3>1
    <3>4. CASE UNCHANGED <<rows, currentMsgID>> /\ Fault
      <4>1. faults' # 0
        BY <1>0, <3>4 DEF Fault
      <4> QED
        BY <3>2, <3>3, <3>4, <4>1 DEF RowOpen, Attributed
    <3>5. CASE rows' = Append(rows, AssistantRow(ev.src.turn)) /\ currentMsgID' = Len(rows) + 1
      <4>1. /\ AssistantRow(turn) \in Row /\ AssistantRow(turn).turn = turn
            /\ AssistantRow(turn).status = "streaming"
        BY <1>0 DEF AssistantRow, Row
      <4>2. /\ DOMAIN rows' = 1..(Len(rows) + 1)
            /\ \A i \in DOMAIN rows : rows'[i] = rows[i]
            /\ rows'[Len(rows) + 1] = AssistantRow(turn)
        BY <1>0, <1>2, <3>5, <4>1, AppendRow
      <4>3. \A i \in DOMAIN rows' : i \in DOMAIN rows \/ i = Len(rows) + 1
        BY <1>0, <4>2
      <4>4. Attributed'
        BY <4>1, <4>2, <4>3 DEF Attributed
      <4>5. RowOpen'
        <5>1. currentMsgID' > 0 /\ Within'
          BY <1>0, <2>6, <3>1, <3>5
        <5>2. rows'[currentMsgID'].turn = turn'
          BY <1>1, <3>5, <4>1, <4>2
        <5> QED
          BY <5>1, <5>2 DEF RowOpen
      <4> QED
        BY <3>3, <4>4, <4>5
    <3> QED
      BY <2>11, <3>4, <3>5 DEF PersistStart
  <2>12. CASE PersistDone
    <3>1. o = "answer" /\ ev.k = 3 /\ currentMsgID > 0 /\ currentMsgID' = 0
      BY <2>8, <2>12 DEF PersistDone
    <3>2. RowOpen'
      BY <2>6, <3>1 DEF RowOpen
    <3>3. CASE rows' = rows /\ Fault
      <4>1. faults' # 0
        BY <1>0, <3>3 DEF Fault
      <4> QED
        BY <3>2, <3>3, <4>1 DEF Kept, Attributed
    <3>4. CASE rows' = [rows EXCEPT ![currentMsgID].status = "done", ![currentMsgID].text = ev.src]
      <4>1. /\ currentMsgID \in DOMAIN rows /\ rows[currentMsgID].role = "assistant"
            /\ rows[currentMsgID].turn = turn
        BY <2>7, <3>1 DEF AnswerInv, ConnInv, RowInv, CurrentRowOpen
      <4>2. /\ DOMAIN rows' = DOMAIN rows
            /\ \A j \in DOMAIN rows : j # currentMsgID => rows'[j] = rows[j]
            /\ \A j \in DOMAIN rows : rows'[j].role = rows[j].role /\ rows'[j].turn = rows[j].turn
            /\ rows'[currentMsgID].status = "done" /\ rows'[currentMsgID].text = Run(turn)
        BY <1>0, <1>2, <2>1, <3>4, <4>1, CompleteRow
      <4>3. Attributed'
        BY <4>1, <4>2 DEF Attributed
      <4>4. HasAnswer(turn)'
        <5>1. currentMsgID \in DOMAIN rows' /\ rows'[currentMsgID].role = "assistant"
          BY <4>1, <4>2
        <5> QED
          BY <1>1, <4>2, <5>1 DEF HasAnswer
      <4>5. Kept'
        <5> SUFFICES ASSUME faults' = 0, NEW t \in Turns, outcome'[t] = "answer", Stored(t)' >= 3
                     PROVE  HasAnswer(t)'
          BY DEF Kept
        <5>1. CASE t = turn
          BY <1>1, <4>4, <5>1 DEF HasAnswer
        <5>2. CASE t # turn
          BY <1>1, <1>4, <1>5, <2>5, <5>2 DEF Kept
        <5> QED
          BY <5>1, <5>2
      <4> QED
        BY <3>2, <4>3, <4>5
    <3> QED
      BY <2>12, <3>3, <3>4 DEF PersistDone
  <2>13. CASE PersistStatus
    <3>1. ev.type # "message_start" /\ ev.type # "message_done"
      BY <2>13 DEF PersistStatus, StatusType
    <3> QED
      BY <2>10, <2>13, <3>1 DEF PersistStatus
  <2>14. CASE PersistNothing
    <3>1. rows' = rows /\ currentMsgID' = currentMsgID /\ faults' = faults
      BY <2>14 DEF PersistNothing, dbVars
    <3>2. CASE ev.type = "message_done"
      <4>1. currentMsgID = 0 /\ o = "answer" /\ ev.k = 3
        BY <2>8, <2>14, <3>2 DEF PersistNothing
      <4>2. faults # 0
        BY <2>6, <2>7, <4>1
      <4> QED
        BY <3>1, <4>1, <4>2 DEF RowOpen, Kept, Attributed
    <3>3. ev.type # "message_start"
      BY <1>7, <2>14 DEF PersistNothing
    <3> QED
      BY <2>10, <3>1, <3>2, <3>3
  <2> QED
    BY <2>11, <2>12, <2>13, <2>14 DEF RelayPersist
<1> QED
  BY <1>6, <1>7

LEMMA AnswerRowStep ==
  ASSUME AnswerInv, [Next]_vars, ~overlap', OneTurn, EchoFirst, RowOpen, Kept, Attributed
  PROVE  RowOpen' /\ Kept' /\ Attributed'
<1>0. TypeInv /\ faults \in Nat
  BY TypeFacts DEF AnswerInv, ConnInv, RowInv
<1>1. ASSUME rows' = rows, currentMsgID' = currentMsgID, turn' = turn, outcome' = outcome,
             written' = written, ev' = ev, faults' = 0 => faults = 0,
             rpc' = rpc \/ (rpc # "write" /\ rpc' # "write" /\ rpc # "exited")
      PROVE  RowOpen' /\ Kept' /\ Attributed'
  BY <1>1, IdleRow
<1>2. CASE HandlerMessage
  BY <1>2, OverlapStays, AskRow
<1>3. CASE HandlerHello
  BY <1>0, <1>1, <1>3 DEF HandlerHello, TypeInv, Progress, runVars, dbVars
<1>4. CASE WritersCollide
  <2>1. /\ rows' = rows /\ currentMsgID' = currentMsgID /\ turn' = turn /\ outcome' = outcome
        /\ written' = written /\ ev' = ev /\ faults' = faults
        /\ rpc' = rpc \/ rpc' = "exited"
    BY <1>4 DEF WritersCollide, runVars, dbVars
  <2> QED
    BY <1>1, <2>1, DeadRelay
<1>5. CASE HandlerStop \/ HandlerReadError
  BY <1>0, <1>1, <1>5 DEF HandlerStop, HandlerReadError, StoreStatus, Fault, runVars, relayVars, historyVars
<1>6. CASE Handler
  BY <1>1, <1>2, <1>3, <1>4, <1>5, <1>6 DEF Handler, HandlerStart, HandlerEcho, HandlerSpawn,
     HandlerStopWrite, HandlerReturn, runVars, relayVars, dbVars, historyVars
<1>7. ASSUME NEW t \in Turns, RunStep(t) PROVE RowOpen' /\ Kept' /\ Attributed'
  BY <1>1, <1>7, OutcomeRow DEF RunStep, RunEmit, relayVars, handlerVars, dbVars, historyVars
<1>8. CASE Relay
  <2>1. CASE RelayRecv
    <3>1. /\ rows' = rows /\ currentMsgID' = currentMsgID /\ turn' = turn /\ outcome' = outcome
          /\ written' = written /\ faults' = faults /\ rpc = "recv" /\ rpc' = "persist"
      BY <2>1 DEF RelayRecv, runVars, handlerVars, dbVars, historyVars
    <3>2. \A t : Stored(t)' = Stored(t)
      BY <3>1 DEF Stored
    <3>3. (Within' <=> Within) /\ \A t : HasAnswer(t) => HasAnswer(t)'
      BY <3>1, <3>2 DEF Within, HasAnswer
    <3> QED
      BY <3>1, <3>2, <3>3 DEF RowOpen, Kept, Attributed
  <2>2. CASE RelayWriteError
    BY <2>2, DeadRelay DEF RelayWriteError, runVars, dbVars, historyVars
  <2> QED
    BY <1>8, <2>1, <2>2, PersistRow, WriteRow DEF Relay
<1>9. CASE PeerLeaves \/ UNCHANGED vars
  BY <1>1, <1>9 DEF PeerLeaves, vars, handlerVars, runVars, relayVars, dbVars, historyVars
<1> QED
  BY <1>6, <1>7, <1>8, <1>9 DEF Next

LEMMA SerialInit == Init => SerialInv
<1> SUFFICES ASSUME Init PROVE SerialInv
  OBVIOUS
<1>1. InFlight = {} /\ Len(events) = 0 /\ ~Holding /\ Len(rows) = 0
  BY EmptySeq DEF Init, InFlight, Holding
<1>2. ConnInv
  BY ConnInit
<1>3. \A t \in Turns : Stored(t) = 0 /\ Run(t) \in Source
  BY SourceFacts DEF Init, Stored
<1>4. turn \in Turns /\ rows = <<>> /\ currentMsgID = 0 /\ \A t \in Turns : run[t] = "none"
  BY <1>2, TypeFacts DEF Init
<1>5. OneTurn /\ EchoFirst
  BY <1>1, <1>4 DEF OneTurn, EchoFirst
<1>6. RowOpen /\ Kept
  BY <1>3, <1>4 DEF RowOpen, Within, Kept
<1>7. Attributed
  BY <1>1, <1>4, EmptySeq DEF Attributed
<1> QED
  BY <1>5, <1>6, <1>7 DEF SerialInv

LEMMA SerialStep == AnswerInv /\ SerialInv /\ [Next]_vars => SerialInv'
<1> SUFFICES ASSUME AnswerInv, SerialInv, [Next]_vars, ~overlap'
             PROVE  OneTurn' /\ EchoFirst' /\ RowOpen' /\ Kept' /\ Attributed'
  BY DEF SerialInv
<1>1. OneTurn /\ EchoFirst /\ RowOpen /\ Kept /\ Attributed
  BY OverlapStays DEF SerialInv
<1> QED
  BY <1>1, TurnStep, AnswerRowStep

\* As long as messages do not overlap, an answer is stored in the row opened
\* for it (chat_ws.go:112-132), for any number of turns, any channel and
\* whichever statements fail.
THEOREM SerialAnswersFit == Spec => []SerialAttribution
<1>1. SerialInv => SerialAttribution
  BY DEF SerialInv, Attributed, SerialAttribution
<1> QED
  BY <1>1, AnswerInit, AnswerStep, SerialInit, SerialStep, PTL DEF Spec

\* And without a failing statement a client that has read the end of an answer
\* finds it stored (chat_ws.go:119-140).
THEOREM StoredBeforeWritten == Spec => []StoredBeforeShown
<1>1. AnswerInv /\ SerialInv => StoredBeforeShown
  <2> SUFFICES ASSUME AnswerInv, SerialInv, ~overlap, faults = 0, NEW t \in Turns,
                      outcome[t] = "answer", written[Run(t)] >= 3
               PROVE  HasAnswer(t)
    BY DEF StoredBeforeShown, HasAnswer
  <2>1. Stored(t) >= 3
    BY TypeFacts, SourceFacts DEF Stored, AnswerInv
  <2> QED
    BY <2>1 DEF SerialInv, Kept
<1> QED
  BY <1>1, AnswerInit, AnswerStep, SerialInit, SerialStep, PTL DEF Spec

-----------------------------------------------------------------------------
(***************************************************************************)
(* The refinement of ChatTranscript: what handler, relay and runs write to *)
(* chat_messages is a transcript, for every kind of session, channel       *)
(* capacity and number of messages, until messages overlap or a statement  *)
(* fails.                                                                  *)
(***************************************************************************)

\* Every accepted message has exactly one row.
Users == {i \in DOMAIN rows : rows[i].role = "user"}
AskedInv == faults = 0 => IsFiniteSet(Users) /\ Cardinality(Users) = turn

\* Every assistant row is finished or the current one; one of the latest turn
\* that is not the current one holds all of its answer.
IsAnswer(i) == rows[i].role = "assistant"
AnswerRows ==
  \A i \in DOMAIN rows : IsAnswer(i) =>
    /\ rows[i].turn <= turn
    /\ rows[i].status = "done" \/ (i = currentMsgID /\ rows[i].text = NoText)
    /\ rpc # "exited" /\ rows[i].turn = turn /\ i # currentMsgID => Stored(turn) >= 3

TranscriptInv == ~overlap /\ faults = 0 => AnswerRows

ReaderInv == AnswerInv /\ SerialInv /\ AskedInv /\ TranscriptInv

-----------------------------------------------------------------------------
\* What a step without a failing statement does to the rows.

Asks == HandlerMessage /\ rows' = Append(rows, UserRow(turn + 1)) /\ turn' = turn + 1
           /\ currentMsgID' = currentMsgID
Opens == RelayPersist /\ PersistStart /\ rows' = Append(rows, AssistantRow(ev.src.turn))
           /\ turn' = turn /\ currentMsgID' = Len(rows) + 1
Completes == RelayPersist /\ PersistDone /\ turn' = turn /\ currentMsgID' = 0
           /\ rows' = [rows EXCEPT ![currentMsgID].status = "done", ![currentMsgID].text = ev.src]
Keeps == rows' = rows /\ turn' = turn /\ currentMsgID' = currentMsgID

LEMMA RowSteps ==
  ASSUME ConnInv, [Next]_vars, faults' = 0
  PROVE  faults = 0 /\ (Asks \/ Opens \/ Completes \/ Keeps)
<1>0. faults \in Nat /\ ~Fault
  BY TypeFacts DEF Fault
<1>1. CASE HandlerMessage
  BY <1>0, <1>1 DEF HandlerMessage, Asks, relayVars
<1>2. CASE HandlerStop \/ HandlerReadError
  BY <1>0, <1>2 DEF HandlerStop, HandlerReadError, StoreStatus, Keeps, relayVars
<1>3. CASE Handler
  BY <1>1, <1>2, <1>3 DEF Handler, HandlerStart, HandlerHello, HandlerEcho, HandlerSpawn,
     HandlerStopWrite, WritersCollide, HandlerReturn, Keeps, dbVars, relayVars
<1>4. CASE \E t \in Turns : RunStep(t)
  BY <1>4 DEF RunStep, RunBegin, RunExit, RunEmit, Keeps, dbVars, relayVars, handlerVars
<1>5. CASE RelayPersist
  BY <1>0, <1>5 DEF RelayPersist, PersistStatus, PersistStart, PersistDone, PersistNothing, StoreStatus,
     Opens, Completes, Keeps, dbVars, handlerVars
<1>6. CASE Relay
  BY <1>5, <1>6 DEF Relay, RelayRecv, RelayWrite, RelayWriteError, Keeps, dbVars, relayVars, handlerVars
<1>7. CASE PeerLeaves \/ UNCHANGED vars
  BY <1>7 DEF PeerLeaves, vars, Keeps, dbVars, relayVars, handlerVars
<1> QED
  BY <1>3, <1>4, <1>6, <1>7 DEF Next

\* A row that is added, and a row that is completed.
LEMMA RowsAfter ==
  ASSUME ConnInv, [Next]_vars
  PROVE  /\ Asks => /\ DOMAIN rows' = 1..(Len(rows) + 1)
                    /\ \A i \in DOMAIN rows : rows'[i] = rows[i]
                    /\ rows'[Len(rows) + 1] = UserRow(turn + 1) /\ turn < MaxTurns
         /\ Opens => /\ DOMAIN rows' = 1..(Len(rows) + 1)
                     /\ \A i \in DOMAIN rows : rows'[i] = rows[i]
                     /\ rows'[Len(rows) + 1] = AssistantRow(ev.src.turn)
         /\ Completes => /\ DOMAIN rows' = DOMAIN rows /\ currentMsgID \in DOMAIN rows
                         /\ \A i \in DOMAIN rows : i # currentMsgID => rows'[i] = rows[i]
                         /\ \A i \in DOMAIN rows : rows'[i].role = rows[i].role /\ rows'[i].turn = rows[i].turn
                         /\ rows'[currentMsgID].status = "done" /\ rows'[currentMsgID].text = ev.src
                         /\ rows[currentMsgID].role = "assistant"
<1>0. /\ rows \in Seq(Row) /\ Len(rows) \in Nat /\ DOMAIN rows = 1..Len(rows)
      /\ ev.src \in Source /\ currentMsgID \in Nat /\ ev.src.turn \in Turns
  BY TypeFacts, SourceFacts DEF Event
<1>1. ASSUME Asks
      PROVE  /\ DOMAIN rows' = 1..(Len(rows) + 1)
             /\ \A i \in DOMAIN rows : rows'[i] = rows[i]
             /\ rows'[Len(rows) + 1] = UserRow(turn + 1) /\ turn < MaxTurns
  <2>1. turn < MaxTurns /\ rows' = Append(rows, UserRow(turn + 1))
    BY <1>1 DEF Asks, HandlerMessage
  <2>2. turn + 1 \in Turns
    BY <2>1, TypeFacts, ChatConnAssumption DEF Turns
  <2>3. UserRow(turn + 1) \in Row
    BY <2>2, SourceFacts DEF UserRow, Row
  <2> QED
    BY <1>0, <2>1, <2>3, AppendRow
<1>2. ASSUME Opens
      PROVE  /\ DOMAIN rows' = 1..(Len(rows) + 1)
             /\ \A i \in DOMAIN rows : rows'[i] = rows[i]
             /\ rows'[Len(rows) + 1] = AssistantRow(ev.src.turn)
  <2>1. AssistantRow(ev.src.turn) \in Row
    BY <1>0 DEF AssistantRow, Row
  <2> QED
    BY <1>0, <1>2, <2>1, AppendRow DEF Opens
<1>3. ASSUME Completes
      PROVE  /\ DOMAIN rows' = DOMAIN rows /\ currentMsgID \in DOMAIN rows
             /\ \A i \in DOMAIN rows : i # currentMsgID => rows'[i] = rows[i]
             /\ \A i \in DOMAIN rows : rows'[i].role = rows[i].role /\ rows'[i].turn = rows[i].turn
             /\ rows'[currentMsgID].status = "done" /\ rows'[currentMsgID].text = ev.src
             /\ rows[currentMsgID].role = "assistant"
  <2>1. currentMsgID \in DOMAIN rows /\ rows[currentMsgID].role = "assistant"
    BY <1>0, <1>3 DEF Completes, PersistDone, ConnInv, RowInv, CurrentRowOpen
  <2>2. rows' = [rows EXCEPT ![currentMsgID].status = "done", ![currentMsgID].text = ev.src]
    BY <1>3 DEF Completes
  <2>3. /\ DOMAIN rows' = DOMAIN rows
        /\ \A j \in DOMAIN rows : j # currentMsgID => rows'[j] = rows[j]
        /\ \A j \in DOMAIN rows : rows'[j].role = rows[j].role /\ rows'[j].turn = rows[j].turn
        /\ rows'[currentMsgID].status = "done" /\ rows'[currentMsgID].text = ev.src
    BY <1>0, <2>1, <2>2, CompleteRow
  <2> QED
    BY <2>1, <2>3
<1> QED
  BY <1>1, <1>2, <1>3

-----------------------------------------------------------------------------
\* One row per message.

LEMMA AskedStep == AnswerInv /\ AskedInv /\ [Next]_vars => AskedInv'
<1> SUFFICES ASSUME ConnInv, AskedInv, [Next]_vars, faults' = 0
             PROVE  IsFiniteSet(Users') /\ Cardinality(Users') = turn'
  BY DEF AskedInv, AnswerInv
<1>1. faults = 0 /\ (Asks \/ Opens \/ Completes \/ Keeps)
  BY RowSteps
<1>2. IsFiniteSet(Users) /\ Cardinality(Users) = turn
  BY <1>1 DEF AskedInv
<1>3. Len(rows) \in Nat /\ DOMAIN rows = 1..Len(rows)
  BY TypeFacts
<1>4. 1..(Len(rows) + 1) = 1..Len(rows) \cup {Len(rows) + 1} /\ Len(rows) + 1 \notin 1..Len(rows)
  BY <1>3
<1>5. CASE Asks
  <2>1. Users' = Users \cup {Len(rows) + 1}
    BY <1>3, <1>4, <1>5, RowsAfter DEF Users, UserRow
  <2>2. Len(rows) + 1 \notin Users
    BY <1>3, <1>4 DEF Users
  <2> QED
    BY <1>2, <1>5, <2>1, <2>2, FS_AddElement DEF Asks
<1>6. CASE Opens
  <2>1. Users' = Users
    BY <1>3, <1>4, <1>6, RowsAfter DEF Users, AssistantRow
  <2> QED
    BY <1>2, <1>6, <2>1 DEF Opens
<1>7. CASE Completes
  <2>1. Users' = Users
    BY <1>7, RowsAfter DEF Users
  <2> QED
    BY <1>2, <1>7, <2>1 DEF Completes
<1>8. CASE Keeps
  BY <1>2, <1>8 DEF Keeps, Users
<1> QED
  BY <1>1, <1>5, <1>6, <1>7, <1>8

-----------------------------------------------------------------------------
\* One answer at a time.

\* As long as the relay lives, what is stored of an answer only grows.
LEMMA StoredGrows ==
  ASSUME AnswerInv, [Next]_vars, rpc' # "exited", NEW t \in Turns
  PROVE  rpc # "exited" /\ Stored(t)' >= Stored(t)
<1>0. TypeInv /\ Run(t) \in Source /\ written \in [Source -> Nat] /\ ev.src \in Source
  BY TypeFacts, SourceFacts DEF AnswerInv, ConnInv, RowInv, Event
<1>1. ASSUME written' = written, ev' = ev, rpc' = rpc
      PROVE  rpc # "exited" /\ Stored(t)' >= Stored(t)
  BY <1>0, <1>1 DEF Stored
<1>2. CASE HandlerHello
  BY <1>0, <1>2 DEF HandlerHello, TypeInv, Progress, Stored
<1>3. CASE Handler
  BY <1>1, <1>2, <1>3 DEF Handler, HandlerStart, HandlerMessage, HandlerEcho, HandlerSpawn, HandlerStop,
     HandlerStopWrite, WritersCollide, HandlerReadError, HandlerReturn, relayVars, historyVars
<1>4. CASE \E u \in Turns : RunStep(u)
  BY <1>1, <1>4 DEF RunStep, RunBegin, RunExit, RunEmit, relayVars, historyVars
<1>5. CASE RelayRecv
  BY <1>0, <1>5 DEF RelayRecv, Stored, historyVars
<1>6. CASE RelayPersist
  BY <1>0, <1>6 DEF RelayPersist, Stored
<1>7. CASE RelayWrite
  BY <1>0, <1>7 DEF RelayWrite, Stored
<1>8. CASE RelayWriteError \/ PeerLeaves \/ UNCHANGED vars
  BY <1>1, <1>8 DEF RelayWriteError, PeerLeaves, vars, relayVars, historyVars
<1> QED
  BY <1>3, <1>4, <1>5, <1>6, <1>7, <1>8 DEF Next, Relay

\* An answer is opened when nothing of it is stored, and finished when all
\* of it but the end is.
LEMMA OpenFacts ==
  ASSUME AnswerInv, OneTurn, EchoFirst, RowOpen, Opens
  PROVE  ev.src = Run(turn) /\ ev.src.turn = turn /\ Stored(turn) = 0 /\ currentMsgID = 0 /\ rpc # "exited"
<1>1. rpc = "persist" /\ FromRun(ev) /\ ev.type = "message_start"
  BY DEF Opens, RelayPersist, PersistStart
<1>2. /\ ev.src = Run(turn) /\ ev.src.turn = turn /\ written[Run(turn)] = ev.k - 1 /\ ev.k = 1
  BY <1>1, HeldEvent
<1>3. Stored(turn) = 0
  BY <1>1, <1>2 DEF Stored
<1>4. currentMsgID = 0
  BY <1>1, <1>3, TypeFacts DEF RowOpen, Within, AnswerInv
<1> QED
  BY <1>1, <1>2, <1>3, <1>4

LEMMA CompleteFacts ==
  ASSUME AnswerInv, OneTurn, EchoFirst, RowOpen, Completes
  PROVE  /\ ev.src = Run(turn) /\ Stored(turn) = 2 /\ Stored(turn)' = 3 /\ rpc # "exited"
         /\ currentMsgID > 0 /\ rows[currentMsgID].turn = turn
<1>1. /\ rpc = "persist" /\ ev.type = "message_done" /\ currentMsgID > 0
      /\ rpc' = "write" /\ ev' = ev /\ written' = written /\ turn' = turn
  BY DEF Completes, RelayPersist, PersistDone
<1>2. FromRun(ev)
  BY <1>1, HeldEvent
<1>3. /\ ev.src = Run(turn) /\ written[Run(turn)] = ev.k - 1 /\ ev.k = 3
  BY <1>1, <1>2, HeldEvent
<1>4. Stored(turn) = 2 /\ Stored(turn)' = 3
  BY <1>1, <1>3 DEF Stored
<1> QED
  BY <1>1, <1>3, <1>4 DEF RowOpen

LEMMA TranscriptStep == AnswerInv /\ SerialInv /\ TranscriptInv /\ [Next]_vars => TranscriptInv'
<1> SUFFICES ASSUME AnswerInv, SerialInv, TranscriptInv, [Next]_vars, ~overlap', faults' = 0
             PROVE  AnswerRows'
  BY DEF TranscriptInv
<1>0. /\ Len(rows) \in Nat /\ DOMAIN rows = 1..Len(rows) /\ turn \in Turns /\ turn \in Nat
      /\ \A i \in DOMAIN rows : rows[i].turn \in Nat
  <2>1. \A i \in DOMAIN rows : rows[i] \in Row
    BY TypeFacts, ElementOfSeq DEF AnswerInv
  <2> QED
    BY <2>1, TypeFacts DEF AnswerInv, Row
<1>1. faults = 0 /\ (Asks \/ Opens \/ Completes \/ Keeps) /\ ConnInv
  BY RowSteps DEF AnswerInv
<1>2. AnswerRows /\ OneTurn /\ EchoFirst /\ RowOpen
  BY <1>1, OverlapStays DEF TranscriptInv, SerialInv
<1>3. rpc' # "exited" => rpc # "exited" /\ (Stored(turn) >= 3 => (turn' = turn => Stored(turn)' >= 3))
  <2> SUFFICES ASSUME rpc' # "exited", Stored(turn) >= 3, turn' = turn PROVE rpc # "exited" /\ Stored(turn)' >= 3
    BY <1>0, StoredGrows
  <2>1. PICK t \in Turns : t = turn
    BY <1>0
  <2>2. rpc # "exited" /\ Stored(t)' >= Stored(t)
    BY StoredGrows
  <2>3. Stored(turn)' = Stored(t)' /\ Stored(turn) = Stored(t)
    BY <2>1 DEF Stored
  <2>4. Stored(t) \in Nat /\ Stored(t)' \in Nat
    <3>1. written[Run(t)] \in Nat /\ written'[Run(t)] \in Nat
      BY <1>1, ConnStep, TypeFacts, SourceFacts DEF ConnInv, RowInv, TypeInv, TypeOK
    <3> QED
      BY <3>1 DEF Stored
  <2> QED
    BY <2>2, <2>3, <2>4
<1>4. CASE Asks
  <2>1. Quiet
    BY <1>4, OverlapStays DEF Asks
  <2>2. currentMsgID = 0 /\ currentMsgID' = 0
    BY <1>2, <1>4, <2>1, ClosedAtRest DEF Asks
  <2> SUFFICES ASSUME NEW i \in 1..(Len(rows) + 1), rows'[i].role = "assistant"
               PROVE  /\ rows'[i].turn <= turn + 1 /\ rows'[i].turn # turn + 1
                      /\ rows'[i].status = "done"
    BY <1>1, <1>4, RowsAfter DEF AnswerRows, IsAnswer, Asks
  <2>3. i \in DOMAIN rows /\ rows'[i] = rows[i]
    <3>1. i # Len(rows) + 1
      BY <1>1, <1>4, RowsAfter DEF UserRow
    <3> QED
      BY <1>0, <1>1, <1>4, <3>1, RowsAfter
  <2>4. rows[i].turn <= turn /\ (rows[i].status = "done" \/ i = currentMsgID)
    BY <1>2, <2>3 DEF AnswerRows, IsAnswer
  <2> QED
    BY <1>0, <2>2, <2>3, <2>4
<1>5. CASE Opens
  <2>1. ev.src.turn = turn /\ Stored(turn) = 0 /\ currentMsgID = 0 /\ rpc # "exited"
    BY <1>2, <1>5, OpenFacts
  <2>2. turn' = turn /\ currentMsgID' = Len(rows) + 1
    BY <1>5 DEF Opens
  <2> SUFFICES ASSUME NEW i \in 1..(Len(rows) + 1), rows'[i].role = "assistant"
               PROVE  /\ rows'[i].turn <= turn
                      /\ rows'[i].status = "done" \/ (i = Len(rows) + 1 /\ rows'[i].text = NoText)
                      /\ rows'[i].turn = turn => i = Len(rows) + 1
    BY <1>1, <1>5, <2>2, RowsAfter DEF AnswerRows, IsAnswer
  <2>3. CASE i = Len(rows) + 1
    BY <1>0, <1>1, <1>5, <2>1, <2>3, RowsAfter DEF AssistantRow
  <2>4. CASE i # Len(rows) + 1
    <3>1. i \in DOMAIN rows /\ rows'[i] = rows[i] /\ i # currentMsgID
      BY <1>0, <1>1, <1>5, <2>1, <2>4, RowsAfter
    <3> QED
      BY <1>2, <2>1, <3>1 DEF AnswerRows, IsAnswer
  <2> QED
    BY <2>3, <2>4
<1>6. CASE Completes
  <2>1. Stored(turn)' = 3 /\ Stored(turn) = 2 /\ turn' = turn /\ rpc # "exited"
    BY <1>2, <1>6, CompleteFacts DEF Completes
  <2> SUFFICES ASSUME NEW i \in DOMAIN rows, rows[i].role = "assistant"
               PROVE  rows'[i].turn <= turn /\ rows'[i].status = "done"
    BY <1>1, <1>6, <2>1, RowsAfter DEF AnswerRows, IsAnswer
  <2> QED
    BY <1>1, <1>2, <1>6, RowsAfter DEF AnswerRows, IsAnswer
<1>7. CASE Keeps
  BY <1>2, <1>3, <1>7 DEF Keeps, AnswerRows, IsAnswer
<1> QED
  BY <1>1, <1>4, <1>5, <1>6, <1>7

LEMMA ReaderInit == Init => ReaderInv
<1> SUFFICES ASSUME Init PROVE ReaderInv
  OBVIOUS
<1>1. rows = <<>> /\ turn = 0 /\ DOMAIN rows = {}
  BY EmptySeq DEF Init
<1>2. AskedInv
  <2>1. Users = {}
    BY <1>1 DEF Users
  <2> QED
    BY <1>1, <2>1, FS_EmptySet DEF AskedInv
<1>3. TranscriptInv
  BY <1>1 DEF TranscriptInv, AnswerRows
<1> QED
  BY <1>2, <1>3, AnswerInit, SerialInit DEF ReaderInv

LEMMA ReaderStep == ReaderInv /\ [Next]_vars => ReaderInv'
BY AnswerStep, SerialStep, AskedStep, TranscriptStep DEF ReaderInv

-----------------------------------------------------------------------------
\* The refinement.

\* The row of an answer as the mapping reads it.
LEMMA RowValue ==
  ASSUME NEW r \in Row, NEW t, NEW st, NEW text
  PROVE  r = [role |-> "assistant", turn |-> t, status |-> st, text |-> text] <=>
           r.role = "assistant" /\ r.turn = t /\ r.status = st /\ r.text = text
BY DEF Row

LEMMA RowTypes == ASSUME ConnInv PROVE \A i \in DOMAIN rows : rows[i] \in Row
BY TypeFacts, ElementOfSeq

\* Rows that stay and a row that is no assistant's show a reader nothing new.
LEMMA AskShows ==
  ASSUME ConnInv, [Next]_vars, Asks
  PROVE  TranscriptAnswer' = TranscriptAnswer
<1>1. /\ DOMAIN rows' = 1..(Len(rows) + 1) /\ DOMAIN rows = 1..Len(rows) /\ Len(rows) \in Nat
      /\ \A i \in DOMAIN rows : rows'[i] = rows[i]
      /\ rows'[Len(rows) + 1] = UserRow(turn + 1)
  BY RowsAfter, TypeFacts
<1>2. \A i \in DOMAIN rows' : i \in DOMAIN rows \/ i = Len(rows) + 1
  BY <1>1
<1>3. \A t, st, text : UserRow(turn + 1) # [role |-> "assistant", turn |-> t, status |-> st, text |-> text]
  BY DEF UserRow
<1>4. ASSUME NEW t, NEW st, NEW text PROVE HasRow(t, st, text)' <=> HasRow(t, st, text)
  BY <1>1, <1>2, <1>3 DEF HasRow
<1>5. \A t \in Turns : /\ HasRow(t, "done", Run(t))' <=> HasRow(t, "done", Run(t))
                       /\ HasRow(t, "streaming", NoText)' <=> HasRow(t, "streaming", NoText)
  BY <1>4
<1> QED
  BY <1>5 DEF TranscriptAnswer

\* Without an open row no answer is open.
LEMMA NothingOpen ==
  ASSUME ConnInv, AnswerRows, currentMsgID = 0, NEW t \in Turns
  PROVE  TranscriptAnswer[t] # "open"
<1>1. ASSUME HasRow(t, "streaming", NoText) PROVE FALSE
  <2>1. PICK i \in DOMAIN rows : rows[i] = [role |-> "assistant", turn |-> t, status |-> "streaming", text |-> NoText]
    BY <1>1 DEF HasRow
  <2>2. rows[i].role = "assistant" /\ rows[i].status = "streaming"
    BY <2>1
  <2>3. i = currentMsgID
    BY <2>2 DEF AnswerRows, IsAnswer
  <2> QED
    BY <2>3, TypeFacts
<1> QED
  BY <1>1 DEF TranscriptAnswer

\* Opening a row opens the answer of the latest turn, which had none.
LEMMA OpenShows ==
  ASSUME AnswerInv, [Next]_vars, OneTurn, EchoFirst, RowOpen, AnswerRows, Opens
  PROVE  /\ TranscriptAnswer[turn] = "none"
         /\ TranscriptAnswer' = [TranscriptAnswer EXCEPT ![turn] = "open"]
<1> DEFINE new == AssistantRow(turn)
<1>0. ConnInv /\ turn \in Turns
  BY TypeFacts DEF AnswerInv
<1>1. Stored(turn) = 0 /\ currentMsgID = 0 /\ rpc # "exited" /\ ev.src.turn = turn
  BY OpenFacts
<1>2. /\ DOMAIN rows' = 1..(Len(rows) + 1) /\ DOMAIN rows = 1..Len(rows) /\ Len(rows) \in Nat
      /\ \A i \in DOMAIN rows : rows'[i] = rows[i]
      /\ rows'[Len(rows) + 1] = new
  BY <1>0, <1>1, RowsAfter, TypeFacts
<1>3. \A i \in DOMAIN rows' : i \in DOMAIN rows \/ i = Len(rows) + 1
  BY <1>2
<1>4. ASSUME NEW st, NEW text PROVE ~HasRow(turn, st, text)
  <2> SUFFICES ASSUME NEW i \in DOMAIN rows,
                      rows[i] = [role |-> "assistant", turn |-> turn, status |-> st, text |-> text]
               PROVE  FALSE
    BY DEF HasRow
  <2>1. rows[i].role = "assistant" /\ rows[i].turn = turn /\ i # currentMsgID
    BY <1>1, <1>2
  <2>2. Stored(turn) >= 3
    BY <1>1, <2>1 DEF AnswerRows, IsAnswer
  <2> QED
    BY <1>1, <2>2
<1>5. new = [role |-> "assistant", turn |-> turn, status |-> "streaming", text |-> NoText]
  BY DEF AssistantRow
<1> HIDE DEF new
<1>6. /\ HasRow(turn, "streaming", NoText)'
      /\ ~HasRow(turn, "done", Run(turn))'
  <2>1. turn' = turn
    BY DEF Opens
  <2>2. Len(rows) + 1 \in DOMAIN rows'
    BY <1>2
  <2>3. HasRow(turn, "streaming", NoText)'
    BY <1>2, <1>5, <2>1, <2>2 DEF HasRow
  <2>4. new # [role |-> "assistant", turn |-> turn, status |-> "done", text |-> Run(turn)]
    BY <1>5
  <2>5. ~HasRow(turn, "done", Run(turn))
    BY <1>4
  <2> QED
    BY <1>2, <1>3, <2>1, <2>3, <2>4, <2>5 DEF HasRow
<1>7. ASSUME NEW t \in Turns, t # turn, NEW st, NEW text
      PROVE  HasRow(t, st, text)' <=> HasRow(t, st, text)
  <2>1. new # [role |-> "assistant", turn |-> t, status |-> st, text |-> text]
    BY <1>5, <1>7
  <2> QED
    BY <1>2, <1>3, <2>1 DEF HasRow
<1>8. \A t \in Turns : t # turn => /\ HasRow(t, "done", Run(t))' <=> HasRow(t, "done", Run(t))
                                   /\ HasRow(t, "streaming", NoText)' <=> HasRow(t, "streaming", NoText)
  BY <1>7
<1>9. TranscriptAnswer[turn] = "none"
  BY <1>0, <1>4 DEF TranscriptAnswer
<1>10. PICK u \in Turns : u = turn /\ HasRow(u, "streaming", NoText)' /\ ~HasRow(u, "done", Run(u))'
  <2>1. turn' = turn
    BY DEF Opens
  <2> QED
    BY <1>0, <1>6, <2>1 DEF HasRow
<1>11. TranscriptAnswer' = [TranscriptAnswer EXCEPT ![u] = "open"]
  BY <1>8, <1>10 DEF TranscriptAnswer
<1> QED
  BY <1>9, <1>10, <1>11

\* Completing the row finishes that answer.
LEMMA CompleteShows ==
  ASSUME AnswerInv, [Next]_vars, OneTurn, EchoFirst, RowOpen, AnswerRows, Completes
  PROVE  /\ TranscriptAnswer[turn] = "open"
         /\ TranscriptAnswer' = [TranscriptAnswer EXCEPT ![turn] = "done"]
<1> DEFINE c == currentMsgID
<1>0. /\ ConnInv /\ ConnInv' /\ turn \in Turns /\ turn' = turn
      /\ \A i \in DOMAIN rows : rows[i] \in Row
      /\ \A i \in DOMAIN rows' : rows'[i] \in Row
  <2>1. ConnInv /\ ConnInv' /\ turn \in Turns /\ turn' = turn
    BY ConnStep, TypeFacts DEF AnswerInv, Completes
  <2>2. rows' \in Seq(Row)
    BY <2>1 DEF ConnInv, RowInv, TypeInv, TypeOK
  <2>3. \A i \in DOMAIN rows' : rows'[i] \in Row
    BY <2>2, ElementOfSeq, LenProperties
  <2> QED
    BY <2>1, <2>3, RowTypes
<1>1. /\ ev.src = Run(turn) /\ Stored(turn) = 2 /\ rpc # "exited"
      /\ c > 0 /\ rows[c].turn = turn
  BY CompleteFacts
<1>2. /\ DOMAIN rows' = DOMAIN rows /\ c \in DOMAIN rows
      /\ \A i \in DOMAIN rows : i # c => rows'[i] = rows[i]
      /\ \A i \in DOMAIN rows : rows'[i].role = rows[i].role /\ rows'[i].turn = rows[i].turn
      /\ rows'[c].status = "done" /\ rows'[c].text = Run(turn)
      /\ rows[c].role = "assistant"
  BY <1>0, <1>1, RowsAfter
<1>3. rows[c].status = "streaming"
  BY <1>0, <1>1 DEF ConnInv, RowInv, CurrentRowOpen
<1>4. rows[c].text = NoText
  BY <1>2, <1>3 DEF AnswerRows, IsAnswer
<1> HIDE DEF c
<1>5. rows[c] = [role |-> "assistant", turn |-> turn, status |-> "streaming", text |-> NoText]
  <2>1. rows[c] \in Row
    BY <1>0, <1>2
  <2> QED
    BY <1>1, <1>2, <1>3, <1>4, <2>1, RowValue
<1>6. rows'[c] = [role |-> "assistant", turn |-> turn, status |-> "done", text |-> Run(turn)]
  <2>1. rows'[c] \in Row /\ rows'[c].role = "assistant" /\ rows'[c].turn = turn
    BY <1>0, <1>1, <1>2
  <2> QED
    BY <1>2, <2>1, RowValue
<1>7. HasRow(turn, "streaming", NoText)
  BY <1>2, <1>5 DEF HasRow
<1>8. ~HasRow(turn, "done", Run(turn))
  <2> SUFFICES ASSUME NEW i \in DOMAIN rows,
                      rows[i] = [role |-> "assistant", turn |-> turn, status |-> "done", text |-> Run(turn)]
               PROVE  FALSE
    BY DEF HasRow
  <2>1. rows[i].role = "assistant" /\ rows[i].turn = turn /\ rows[i].status = "done"
    OBVIOUS
  <2>2. i # c
    BY <1>3, <2>1
  <2>3. Stored(turn) >= 3
    BY <1>1, <2>1, <2>2 DEF AnswerRows, IsAnswer, c
  <2> QED
    BY <1>1, <2>3
<1>9. PICK u \in Turns : u = turn
  BY <1>0
<1>10. HasRow(u, "done", Run(u))'
  BY <1>2, <1>6, <1>9 DEF HasRow
<1>11. ASSUME NEW t \in Turns, t # u, NEW st, NEW text
       PROVE  HasRow(t, st, text)' <=> HasRow(t, st, text)
  <2>1. /\ rows[c] # [role |-> "assistant", turn |-> t, status |-> st, text |-> text]
        /\ rows'[c] # [role |-> "assistant", turn |-> t, status |-> st, text |-> text]
    BY <1>5, <1>6, <1>9, <1>11
  <2> QED
    BY <1>2, <2>1 DEF HasRow
<1>12. \A t \in Turns : t # u => /\ HasRow(t, "done", Run(t))' <=> HasRow(t, "done", Run(t))
                                 /\ HasRow(t, "streaming", NoText)' <=> HasRow(t, "streaming", NoText)
  BY <1>11
<1>13. TranscriptAnswer' = [TranscriptAnswer EXCEPT ![u] = "done"]
  BY <1>10, <1>12 DEF TranscriptAnswer
<1>14. TranscriptAnswer[turn] = "open"
  BY <1>0, <1>7, <1>8 DEF TranscriptAnswer
<1> QED
  BY <1>9, <1>13, <1>14

\* Each step of the connection is a step of the transcript or leaves it alone.
LEMMA StepRefines ==
  ReaderInv /\ [Next]_vars => [Transcript!Next \/ overlap' \/ faults' > 0]_(Transcript!vars)
<1> SUFFICES ASSUME ReaderInv, [Next]_vars, ~overlap', faults' = 0
             PROVE  Transcript!Next \/ UNCHANGED Transcript!vars
  <2>1. faults' \in Nat \/ ~ReaderInv \/ ~[Next]_vars
    BY ReaderStep DEF ReaderInv, AnswerInv, ConnInv, RowInv, TypeInv, TypeOK
  <2> QED
    BY <2>1
<1>1. /\ AnswerInv /\ ConnInv /\ faults = 0 /\ (Asks \/ Opens \/ Completes \/ Keeps)
      /\ OneTurn /\ EchoFirst /\ RowOpen /\ AnswerRows
  BY RowSteps, OverlapStays DEF ReaderInv, AnswerInv, TranscriptInv, SerialInv
<1>2. Cardinality(Users) = turn /\ Cardinality(Users)' = turn' /\ turn \in Turns
  BY <1>1, ReaderStep, TypeFacts DEF ReaderInv, AskedInv
<1>3. CASE Asks
  <2>1. Quiet /\ currentMsgID = 0
    BY <1>1, <1>3, OverlapStays, ClosedAtRest DEF Asks
  <2>2. \A t \in 0..MaxTurns : TranscriptAnswer[t] # "open"
    BY <1>1, <2>1, NothingOpen DEF Turns
  <2>3. TranscriptAnswer' = TranscriptAnswer
    BY <1>1, <1>3, AskShows
  <2>4. turn' = turn + 1 /\ turn < MaxTurns
    BY <1>1, <1>3, RowsAfter DEF Asks
  <2>5. Transcript!Ask
    BY <1>2, <2>2, <2>3, <2>4 DEF Transcript!Ask, Transcript!NoneOpen, Users
  <2> QED
    BY <2>5 DEF Transcript!Next
<1>4. CASE Opens
  <2>1. currentMsgID = 0 /\ turn' = turn
    BY <1>1, <1>4, OpenFacts DEF Opens
  <2>2. \A t \in 0..MaxTurns : TranscriptAnswer[t] # "open"
    BY <1>1, <2>1, NothingOpen DEF Turns
  <2>3. /\ TranscriptAnswer[turn] = "none"
        /\ TranscriptAnswer' = [TranscriptAnswer EXCEPT ![turn] = "open"]
    BY <1>1, <1>4, OpenShows
  <2>4. Transcript!Begin
    BY <1>2, <2>1, <2>2, <2>3 DEF Transcript!Begin, Transcript!NoneOpen, Users
  <2> QED
    BY <2>4 DEF Transcript!Next
<1>5. CASE Completes
  <2>1. /\ TranscriptAnswer[turn] = "open" /\ turn' = turn
        /\ TranscriptAnswer' = [TranscriptAnswer EXCEPT ![turn] = "done"]
    BY <1>1, <1>5, CompleteShows DEF Completes
  <2>2. Transcript!Finish
    BY <1>2, <2>1 DEF Transcript!Finish, Users
  <2> QED
    BY <2>2 DEF Transcript!Next
<1>6. CASE Keeps
  <2>1. rows' = rows
    BY <1>6 DEF Keeps
  <2> QED
    BY <2>1 DEF Transcript!vars, TranscriptAnswer, HasRow
<1> QED
  BY <1>1, <1>3, <1>4, <1>5, <1>6

LEMMA TranscriptInit == Init => Transcript!Init
<1> SUFFICES ASSUME Init PROVE Transcript!Init
  OBVIOUS
<1>1. DOMAIN rows = {}
  BY EmptySeq DEF Init
<1>2. Cardinality({i \in DOMAIN rows : rows[i].role = "user"}) = 0
  <2>1. {i \in DOMAIN rows : rows[i].role = "user"} = {}
    BY <1>1
  <2> QED
    BY <2>1, FS_EmptySet
<1>3. TranscriptAnswer = [t \in 0..MaxTurns |-> "none"]
  BY <1>1 DEF TranscriptAnswer, HasRow, Turns
<1> QED
  BY <1>2, <1>3 DEF Transcript!Init

\* What handler, relay and runs write together is a transcript: rows appear
\* only by asking, opening and finishing answers one at a time, until messages
\* overlap or a statement fails (chat_ws.go:109-140, 168-181).
THEOREM ImplementsTranscript == Spec => TranscriptSpec
<1>1. Init => Transcript!Init
  BY TranscriptInit
<1>2. ReaderInv /\ [Next]_vars => [Transcript!Next \/ overlap' \/ faults' > 0]_(Transcript!vars)
  BY StepRefines
<1> QED
  BY <1>1, <1>2, ReaderInit, ReaderStep, PTL DEF Spec, TranscriptSpec

=============================================================================
