------------------------------ MODULE ChatConn ------------------------------
(***************************************************************************)
(* One chat WebSocket connection of the Go server.                         *)
(*                                                                         *)
(* Four kinds of goroutine share the connection:                           *)
(*   - the handler (ServeChatWS): start-up, then the read loop;            *)
(*   - the relay it spawns: takes events from the adapter's channel,       *)
(*     stores them in the database and writes them to the socket;          *)
(*   - one run per prompt (runOneShot / runCommand): executes the CLI and  *)
(*     pushes the events of its answer;                                    *)
(*   - the peer, which sends frames and may leave at any time.             *)
(*                                                                         *)
(* A step is one channel operation, one SQL statement (the pool has one    *)
(* connection, so statements are serialised) or one socket write.          *)
(* Texts are abstracted to the source that produced them; an answer of     *)
(* several lines is one delta event, since consecutive deltas are alike    *)
(* for everything but the channel's load, which Cap brings into play.      *)
(* `done`, the channel adapter.Stop closes, is read by nobody and is left  *)
(* out: stopping has no effect on a run.                                   *)
(***************************************************************************)
EXTENDS Naturals, Sequences, FiniteSets

CONSTANTS
  Kind,       \* the session's CLI: "codex" or "commandcode"
  HasPrompt,  \* whether the session was created with an initial prompt
  Cap,        \* capacity of the adapter's channel (64 in the code)
  MaxTurns,   \* bound on the messages the peer sends
  MaxStops,   \* bound on the stop frames the peer sends
  MaxFaults   \* bound on the SQL statements that fail

ASSUME ChatConnAssumption ==
  /\ Kind \in {"codex", "commandcode"}
  /\ HasPrompt \in BOOLEAN
  /\ Cap \in Nat \ {0}
  /\ MaxTurns \in Nat
  /\ MaxStops \in Nat
  /\ MaxFaults \in Nat

-----------------------------------------------------------------------------
\* Sources of events: the echo of a turn's user message and the run that
\* answers it.  Turn 0 is the session's initial prompt, which has no echo.

Turns == 0..MaxTurns

Source == [who : {"echo", "run"}, turn : Turns]
Echo(t) == [who |-> "echo", turn |-> t]
Run(t) == [who |-> "run", turn |-> t]

\* The text of a row that is still empty.
NoText == [who |-> "nobody", turn |-> 0]

EventType == {"status_running", "status_done", "message_start",
              "message_delta", "message_done", "error"}

StatusType == {"status_running", "status_done"}

\* What a CLI process leads to: an answer, an error event, or (codex only,
\* when nothing but header lines precedes "tokens used") no message at all.
Outcome == IF Kind = "codex" THEN {"answer", "fail", "silent"}
                             ELSE {"answer", "fail"}

\* A process that cannot start because the context is already cancelled has
\* an empty stderr: commandcode reports it, codex takes it for an answer.
CancelledOutcome == IF Kind = "codex" THEN "answer" ELSE "fail"

\* The events SendMessage pushes before it spawns the run.
EchoScript == <<"status_running", "message_start", "message_delta", "message_done">>

\* Mutant: a run that has answered does not report that it is done.
RunScriptNoDone(o) ==
  CASE o = "answer" -> <<"message_start", "message_delta", "message_done">>
    [] o = "silent" -> <<"status_done">>
    [] OTHER        -> <<"error">>

\* The events a run pushes after its process has ended.
RunScript(o) ==
  CASE o = "answer" -> <<"message_start", "message_delta", "message_done", "status_done">>
    [] o = "silent" -> <<"status_done">>
    [] OTHER        -> <<"error">>

\* An event carries its source and its number in that source's script; the
\* role of a message is the role of its source.
Event == [src : Source, k : 1..4, type : EventType]
EventOf(s, k, script) == [src |-> s, k |-> k, type |-> script[k]]
FromRun(e) == e.src.who = "run"

\* Rows of chat_messages created over this connection.  `turn` names the
\* source whose message the row was created for.
Row == [role   : {"user", "assistant"},
        turn   : Turns,
        status : {"streaming", "done"},
        text   : Source \cup {NoText}]

UserRow(t) == [role |-> "user", turn |-> t, status |-> "done", text |-> Echo(t)]
AssistantRow(t) == [role |-> "assistant", turn |-> t, status |-> "streaming", text |-> NoText]

-----------------------------------------------------------------------------
VARIABLES
  up,            \* the server process is alive
  peer,          \* "up", or "gone" once the browser has left
  ctx,           \* the connection's context: "live" or "cancelled"
  hpc,           \* where the handler is
  turn,          \* messages accepted so far: the handler's current turn
  stops,         \* stop frames handled so far
  run,           \* per turn: "none", "spawned", "exec", "emit", "ended"
  outcome,       \* per turn: what the CLI process led to
  emitted,       \* per source: events pushed into the channel
  events,        \* the adapter's channel
  rpc,           \* where the relay is
  ev,            \* the event the relay holds (range variable of its loop)
  currentMsgID,  \* the relay's open assistant row, 0 if none
  rows,          \* chat_messages
  status,        \* chat_sessions.status
  faults,        \* SQL statements that have failed
  written,       \* history, per source: events written to the socket
  overlap,       \* history: a message was accepted before all was settled
  collided       \* history: a stop met the relay announcing or writing

handlerVars == <<hpc, turn, stops>>
runVars     == <<run, outcome>>
relayVars   == <<rpc, ev, currentMsgID>>
dbVars      == <<rows, status, faults>>
historyVars == <<written, overlap, collided>>
vars == <<up, peer, ctx, handlerVars, runVars, emitted, events, relayVars,
          dbVars, historyVars>>

HandlerPC == {"start", "hello", "read", "echo", "spawn", "stopWrite", "return", "closed"}
RelayPC   == {"off", "recv", "persist", "write", "exited"}
RunPC     == {"none", "spawned", "exec", "emit", "ended"}
DbStatus  == {"running", "done", "stopped"}

NoEvent == EventOf(Run(0), 1, <<"error">>)

\* The session row exists with any status an earlier connection left; the
\* handler has authenticated the request, read that row and upgraded.
Init ==
  /\ up = TRUE
  /\ peer = "up"
  /\ ctx = "live"
  /\ hpc = "start" /\ turn = 0 /\ stops = 0
  /\ run = [t \in Turns |-> "none"]
  /\ outcome = [t \in Turns |-> "fail"]
  /\ emitted = [s \in Source |-> 0]
  /\ events = <<>>
  /\ rpc = "off" /\ ev = NoEvent /\ currentMsgID = 0
  /\ rows = <<>>
  /\ status \in DbStatus
  /\ faults = 0
  /\ written = [s \in Source |-> 0]
  /\ overlap = FALSE
  /\ collided = FALSE

\* Nothing is running, queued or half relayed, and the handler is reading.
Quiet ==
  /\ hpc = "read"
  /\ \A t \in Turns : run[t] \in {"none", "ended"}
  /\ events = <<>>
  /\ rpc = "recv"

-----------------------------------------------------------------------------
\* Shared steps.

\* A statement that fails changes nothing and its error is ignored.
Fault == faults < MaxFaults /\ faults' = faults + 1

\* UpdateChatSessionStatus
StoreStatus(st) ==
  \/ status' = st /\ UNCHANGED faults
  \/ Fault /\ UNCHANGED status

\* Mutant: the channel is unbounded.
PushUnbounded(s, script) ==
  /\ emitted' = [emitted EXCEPT ![s] = @ + 1]
  /\ events' = Append(events, EventOf(s, emitted[s] + 1, script))

\* A send on the adapter's channel blocks while the channel is full.
Push(s, script) ==
  /\ Len(events) < Cap
  /\ emitted' = [emitted EXCEPT ![s] = @ + 1]
  /\ events' = Append(events, EventOf(s, emitted[s] + 1, script))

RelayAnnounces == rpc = "write" /\ ev.type \in StatusType

-----------------------------------------------------------------------------
\* The handler.

\* adapter.Start: the initial prompt is run on every connection.
HandlerStart ==
  /\ up /\ hpc = "start"
  /\ hpc' = "hello"
  /\ run' = IF HasPrompt THEN [run EXCEPT ![0] = "spawned"] ELSE run
  /\ UNCHANGED <<up, peer, ctx, turn, stops, outcome, emitted, events, relayVars,
                 dbVars, historyVars>>

\* The first status frame goes out without touching the session row; then the
\* relay is spawned and the read loop entered.
HandlerHello ==
  /\ up /\ hpc = "hello"
  /\ hpc' = "read"
  /\ rpc' = "recv"
  /\ UNCHANGED <<up, peer, ctx, turn, stops, runVars, emitted, events, ev,
                 currentMsgID, dbVars, written, overlap, collided>>

\* Mutant: the user's row is not stored.
HandlerMessageUnsaved ==
  /\ up /\ hpc = "read" /\ turn < MaxTurns
  /\ hpc' = "echo"
  /\ turn' = turn + 1
  /\ overlap' = (overlap \/ ~Quiet)
  /\ UNCHANGED <<up, peer, ctx, stops, runVars, emitted, events, relayVars,
                 dbVars, written, collided>>

\* A "message" frame with content: the user's row is stored.
HandlerMessage ==
  /\ up /\ hpc = "read" /\ turn < MaxTurns
  /\ hpc' = "echo"
  /\ turn' = turn + 1
  /\ overlap' = (overlap \/ ~Quiet)
  /\ \/ rows' = Append(rows, UserRow(turn + 1)) /\ UNCHANGED faults
     \/ Fault /\ UNCHANGED rows
  /\ UNCHANGED <<up, peer, ctx, stops, runVars, emitted, events, relayVars,
                 status, written, collided>>

\* SendMessage pushes the echo of the message ...
HandlerEcho ==
  /\ up /\ hpc = "echo"
  /\ Push(Echo(turn), EchoScript)
  /\ hpc' = IF emitted[Echo(turn)] + 1 = Len(EchoScript) THEN "spawn" ELSE "echo"
  /\ UNCHANGED <<up, peer, ctx, turn, stops, runVars, relayVars, dbVars, historyVars>>

\* ... and spawns the run that answers it.
HandlerSpawn ==
  /\ up /\ hpc = "spawn"
  /\ hpc' = "read"
  /\ run' = [run EXCEPT ![turn] = "spawned"]
  /\ UNCHANGED <<up, peer, ctx, turn, stops, outcome, emitted, events, relayVars,
                 dbVars, historyVars>>

\* A "stop" frame: the session row is stopped, then the frame announced.
HandlerStop ==
  /\ up /\ hpc = "read" /\ stops < MaxStops
  /\ hpc' = "stopWrite"
  /\ stops' = stops + 1
  /\ StoreStatus("stopped")
  /\ collided' = (collided \/ RelayAnnounces)
  /\ UNCHANGED <<up, peer, ctx, turn, runVars, emitted, events, relayVars, rows,
                 written, overlap>>

HandlerStopWrite ==
  /\ up /\ hpc = "stopWrite"
  /\ hpc' = "read"
  /\ UNCHANGED <<up, peer, ctx, turn, stops, runVars, emitted, events, relayVars,
                 dbVars, written, overlap, collided>>

\* The socket allows one writer at a time.  When the handler writes while the
\* relay is writing, the library panics in one of them (the relay's panic ends
\* the process, the handler's is recovered by the router), or one of the two
\* writes is lost: the relay's with an error, the handler's with one nobody reads.
WritersCollide ==
  /\ up /\ hpc = "stopWrite" /\ rpc = "write"
  /\ collided' = TRUE
  /\ \/ /\ up' = FALSE
        /\ UNCHANGED <<hpc, rpc, ctx>>
     \/ /\ hpc' = "return"
        /\ UNCHANGED <<up, rpc, ctx>>
     \/ /\ hpc' = "read" /\ rpc' = "exited" /\ ctx' = "cancelled"
        /\ UNCHANGED up
     \/ /\ hpc' = "read"
        /\ UNCHANGED <<up, rpc, ctx>>
  /\ UNCHANGED <<peer, turn, stops, runVars, emitted, events, ev, currentMsgID,
                 dbVars, written, overlap>>

\* Mutant: the read loop continues after an error.
HandlerReadErrorContinues ==
  /\ up /\ hpc = "read" /\ peer = "gone"
  /\ StoreStatus("stopped")
  /\ UNCHANGED <<up, peer, ctx, handlerVars, runVars, emitted, events, relayVars,
                 rows, historyVars>>

\* ReadMessage fails once the peer is gone.
HandlerReadError ==
  /\ up /\ hpc = "read" /\ peer = "gone"
  /\ hpc' = "return"
  /\ StoreStatus("stopped")
  /\ UNCHANGED <<up, peer, ctx, turn, stops, runVars, emitted, events, relayVars,
                 rows, historyVars>>

\* The deferred cancel and conn.Close.
HandlerReturn ==
  /\ up /\ hpc = "return"
  /\ hpc' = "closed"
  /\ ctx' = "cancelled"
  /\ UNCHANGED <<up, peer, turn, stops, runVars, emitted, events, relayVars,
                 dbVars, historyVars>>

Handler ==
  \/ HandlerStart \/ HandlerHello \/ HandlerMessage \/ HandlerEcho \/ HandlerSpawn
  \/ HandlerStop \/ HandlerStopWrite \/ WritersCollide
  \/ HandlerReadError \/ HandlerReturn

-----------------------------------------------------------------------------
\* A run.

\* Mutant: a run whose context is already cancelled never reports.
RunBeginLiveOnly(t) ==
  /\ up /\ run[t] = "spawned"
  /\ ctx = "live" /\ run' = [run EXCEPT ![t] = "exec"]
  /\ UNCHANGED <<up, peer, ctx, handlerVars, outcome, emitted, events, relayVars,
                 dbVars, historyVars>>

\* cmd.Run starts the process, or returns the context's error.
RunBegin(t) ==
  /\ up /\ run[t] = "spawned"
  /\ \/ ctx = "live" /\ run' = [run EXCEPT ![t] = "exec"] /\ UNCHANGED outcome
     \/ /\ ctx = "cancelled"
        /\ run' = [run EXCEPT ![t] = "emit"]
        /\ outcome' = [outcome EXCEPT ![t] = CancelledOutcome]
  /\ UNCHANGED <<up, peer, ctx, handlerVars, emitted, events, relayVars, dbVars,
                 historyVars>>

\* Mutant: a process that fails is dropped without an error event.
RunExitSilently(t) ==
  /\ up /\ run[t] = "exec"
  /\ \E o \in Outcome :
       /\ outcome' = [outcome EXCEPT ![t] = o]
       /\ run' = [run EXCEPT ![t] = IF o = "fail" THEN "ended" ELSE "emit"]
  /\ UNCHANGED <<up, peer, ctx, handlerVars, emitted, events, relayVars, dbVars,
                 historyVars>>

\* The process ends by itself or, when the context is cancelled, is killed.
RunExit(t) ==
  /\ up /\ run[t] = "exec"
  /\ run' = [run EXCEPT ![t] = "emit"]
  /\ \E o \in Outcome : outcome' = [outcome EXCEPT ![t] = o]
  /\ UNCHANGED <<up, peer, ctx, handlerVars, emitted, events, relayVars, dbVars,
                 historyVars>>

RunEmit(t) ==
  LET script == RunScript(outcome[t])
  IN /\ up /\ run[t] = "emit"
     /\ Push(Run(t), script)
     /\ run' = [run EXCEPT ![t] = IF emitted[Run(t)] + 1 = Len(script)
                                  THEN "ended" ELSE "emit"]
     /\ UNCHANGED <<up, peer, ctx, handlerVars, outcome, relayVars, dbVars,
                    historyVars>>

RunStep(t) == RunBegin(t) \/ RunExit(t) \/ RunEmit(t)

\* Mutant: the relay takes the youngest event.
RelayRecvLast ==
  /\ up /\ rpc = "recv" /\ events # <<>>
  /\ ev' = events[Len(events)]
  /\ events' = SubSeq(events, 1, Len(events) - 1)
  /\ rpc' = "persist"
  /\ UNCHANGED <<up, peer, ctx, handlerVars, runVars, emitted, currentMsgID,
                 dbVars, historyVars>>

-----------------------------------------------------------------------------
\* The relay.

RelayRecv ==
  /\ up /\ rpc = "recv" /\ events # <<>>
  /\ ev' = Head(events)
  /\ events' = Tail(events)
  /\ rpc' = "persist"
  /\ UNCHANGED <<up, peer, ctx, handlerVars, runVars, emitted, currentMsgID,
                 dbVars, historyVars>>

\* A status event updates the session row.
PersistStatus ==
  /\ ev.type \in StatusType
  /\ StoreStatus(IF ev.type = "status_done" THEN "done" ELSE "running")
  /\ collided' = (collided \/ hpc = "stopWrite")
  /\ UNCHANGED <<rows, currentMsgID>>

\* The start of an assistant message opens a row, which becomes the current
\* one whatever the current one was.
PersistStart ==
  /\ ev.type = "message_start" /\ FromRun(ev)
  /\ \/ /\ rows' = Append(rows, AssistantRow(ev.src.turn))
        /\ currentMsgID' = Len(rows) + 1
        /\ UNCHANGED faults
     \/ Fault /\ UNCHANGED <<rows, currentMsgID>>
  /\ UNCHANGED <<status, collided>>

\* Mutant: the current row is not forgotten when it is completed.
PersistDoneKeepsRow ==
  /\ ev.type = "message_done" /\ currentMsgID > 0
  /\ \/ /\ rows' = [rows EXCEPT ![currentMsgID].status = "done",
                                ![currentMsgID].text = ev.src]
        /\ UNCHANGED faults
     \/ Fault /\ UNCHANGED rows
  /\ UNCHANGED <<status, currentMsgID, collided>>

\* Mutant: the youngest row is completed instead of the current one.
PersistDoneLastRow ==
  /\ ev.type = "message_done" /\ currentMsgID > 0
  /\ \/ /\ rows' = [rows EXCEPT ![Len(rows)].status = "done",
                                ![Len(rows)].text = ev.src]
        /\ UNCHANGED faults
     \/ Fault /\ UNCHANGED rows
  /\ currentMsgID' = 0
  /\ UNCHANGED <<status, collided>>

\* The end of any message, the echo's included, completes the current row.
PersistDone ==
  /\ ev.type = "message_done" /\ currentMsgID > 0
  /\ \/ /\ rows' = [rows EXCEPT ![currentMsgID].status = "done",
                                ![currentMsgID].text = ev.src]
        /\ UNCHANGED faults
     \/ Fault /\ UNCHANGED rows
  /\ currentMsgID' = 0
  /\ UNCHANGED <<status, collided>>

\* Every other event leaves the database alone.
PersistNothing ==
  /\ \/ ev.type \in {"message_delta", "error"}
     \/ ev.type = "message_start" /\ ~FromRun(ev)
     \/ ev.type = "message_done" /\ currentMsgID = 0
  /\ UNCHANGED <<dbVars, currentMsgID, collided>>

\* Mutant: the end of a message is written to the socket but not stored.
RelayPersistSkipsDone ==
  /\ up /\ rpc = "persist"
  /\ rpc' = "write"
  /\ \/ PersistStatus \/ PersistStart \/ PersistNothing
     \/ ev.type = "message_done" /\ UNCHANGED <<dbVars, currentMsgID, collided>>
  /\ UNCHANGED <<up, peer, ctx, handlerVars, runVars, emitted, events, ev,
                 written, overlap>>

RelayPersist ==
  /\ up /\ rpc = "persist"
  /\ rpc' = "write"
  /\ PersistStatus \/ PersistStart \/ PersistDone \/ PersistNothing
  /\ UNCHANGED <<up, peer, ctx, handlerVars, runVars, emitted, events, ev,
                 written, overlap>>

\* WriteJSON succeeds; it may do so for a while after the peer has gone.
RelayWrite ==
  /\ up /\ rpc = "write" /\ hpc # "closed"
  /\ rpc' = "recv"
  /\ written' = [written EXCEPT ![ev.src] = @ + 1]
  /\ UNCHANGED <<up, peer, ctx, handlerVars, runVars, emitted, events, ev,
                 currentMsgID, dbVars, overlap, collided>>

\* WriteJSON fails: the context is cancelled and the relay gone for good.
RelayWriteError ==
  /\ up /\ rpc = "write"
  /\ peer = "gone" \/ hpc = "closed"
  /\ rpc' = "exited"
  /\ ctx' = "cancelled"
  /\ UNCHANGED <<up, peer, handlerVars, runVars, emitted, events, ev,
                 currentMsgID, dbVars, historyVars>>

Relay == RelayRecv \/ RelayPersist \/ RelayWrite \/ RelayWriteError

-----------------------------------------------------------------------------
\* The peer closes the page or loses the network.
PeerLeaves ==
  /\ peer = "up"
  /\ peer' = "gone"
  /\ UNCHANGED <<up, ctx, handlerVars, runVars, emitted, events, relayVars,
                 dbVars, historyVars>>

Next ==
  \/ Handler
  \/ \E t \in Turns : RunStep(t)
  \/ Relay
  \/ PeerLeaves

Spec == Init /\ [][Next]_vars

\* Goroutines are scheduled fairly and a CLI process ends; the peer promises
\* nothing.  Handler steps that wait for the peer are not fair.
Fairness ==
  /\ WF_vars(\/ HandlerStart \/ HandlerHello \/ HandlerEcho \/ HandlerSpawn
             \/ HandlerStopWrite \/ HandlerReadError \/ HandlerReturn)
  /\ \A t \in Turns : WF_vars(RunStep(t))
  /\ WF_vars(Relay)

FairSpec == Spec /\ Fairness

-----------------------------------------------------------------------------
\* Every variable keeps its type, and the channel its capacity.
TypeOK ==
  /\ up \in BOOLEAN
  /\ peer \in {"up", "gone"}
  /\ ctx \in {"live", "cancelled"}
  /\ hpc \in HandlerPC
  /\ turn \in Turns
  /\ stops \in 0..MaxStops
  /\ run \in [Turns -> RunPC]
  /\ outcome \in [Turns -> {"answer", "fail", "silent"}]
  /\ emitted \in [Source -> 0..4]
  /\ events \in Seq(Event)
  /\ Len(events) <= Cap
  /\ rpc \in RelayPC
  /\ ev \in Event
  /\ currentMsgID \in Nat
  /\ rows \in Seq(Row)
  /\ status \in DbStatus
  /\ faults \in 0..MaxFaults
  /\ written \in [Source -> Nat]
  /\ overlap \in BOOLEAN
  /\ collided \in BOOLEAN

\* The row the relay calls current (chat_ws.go, currentMsgID) is an assistant
\* row still streaming, and no assistant row is younger: a message_done can
\* neither complete a user's row nor reopen one that is already done, however
\* the runs' events interleave and whichever statements fail.
CurrentRowOpen ==
  currentMsgID # 0 =>
    /\ currentMsgID \in DOMAIN rows
    /\ rows[currentMsgID].role = "assistant"
    /\ rows[currentMsgID].status = "streaming"
    /\ \A i \in DOMAIN rows : i > currentMsgID => rows[i].role = "user"

\* What a reader of the history has seen as done is never rewritten: rows are
\* only appended, and a done row keeps its role and its content for ever.
DoneRowsFixed ==
  [][/\ Len(rows) <= Len(rows')
     /\ \A i \in DOMAIN rows :
          /\ rows[i].status = "done" => rows'[i] = rows[i]
          /\ rows'[i].role = rows[i].role]_vars

\* As long as no message was accepted while an earlier one was in progress,
\* an answer is stored in the row that was opened for it: the relay's single
\* currentMsgID (chat_ws.go:112) is enough for a serial client, also when
\* statements fail.
SerialAttribution ==
  ~overlap => \A i \in DOMAIN rows :
    rows[i].role = "assistant" /\ rows[i].status = "done" => rows[i].text = Run(rows[i].turn)

\* The same without the proviso, which is what "Save assistant messages on
\* message_done" (chat_ws.go:119) promises.
Attribution ==
  \A i \in DOMAIN rows :
    rows[i].role = "assistant" /\ rows[i].status = "done" => rows[i].text = Run(rows[i].turn)

\* A serial client that has received the end of an answer finds it in the
\* history: the relay stores before it writes (chat_ws.go:134-140).
StoredBeforeShown ==
  ~overlap /\ faults = 0 =>
    \A t \in Turns : outcome[t] = "answer" /\ written[Run(t)] >= 3 =>
      \E i \in DOMAIN rows : rows[i].role = "assistant" /\ rows[i].status = "done"
                              /\ rows[i].text = Run(t)

\* In the history an answer comes after the message it answers, although the
\* two rows are written by different goroutines.
AnswerAfterMessage ==
  faults = 0 => \A i \in DOMAIN rows :
    rows[i].role = "assistant" /\ rows[i].turn > 0 =>
      \E j \in 1..(i - 1) : rows[j] = UserRow(rows[i].turn)

\* The events of one source reach the socket in the order of its script, none
\* twice and none skipped, although sources share the channel.
InOrder ==
  [][\A s \in Source : written'[s] # written[s] =>
       /\ ev.src = s /\ ev.k = written[s] + 1
       /\ written'[s] = written[s] + 1]_vars

\* A turn that was accepted is answered: its run's last event is written to
\* the socket, unless the peer leaves or a collision of writers intervenes.
TurnAnswered ==
  \A t \in Turns :
    (run[t] # "none") ~>
      \/ run[t] = "ended" /\ written[Run(t)] = Len(RunScript(outcome[t]))
      \/ peer = "gone" \/ collided

\* The handler notices that its peer is gone and returns, or the process is
\* down; the one exception is a handler stuck in SendMessage because the
\* relay has exited and the channel is full.
HandlerLeaves ==
  (peer = "gone") ~> \/ hpc = "closed" \/ ~up
                     \/ hpc = "echo" /\ rpc = "exited" /\ Len(events) = Cap

\* No run outlives its process, with the same exception.
RunsEnd ==
  \A t \in Turns :
    (run[t] = "spawned") ~> \/ run[t] = "ended" \/ ~up
                            \/ run[t] = "emit" /\ rpc = "exited" /\ Len(events) = Cap

=============================================================================
