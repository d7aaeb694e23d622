------------------------------ MODULE ChatPage ------------------------------
(***************************************************************************)
(* The chat page (ChatView, useChatWebSocket) composed with the connection *)
(* it opens (ChatConn) and the REST snapshots it loads (ChatHandler.Get)   *)
(* through react-query, which keeps the last answer between visits, asks   *)
(* again on a visit or a reconnect and goes on showing the old answer      *)
(* meanwhile.                                                              *)
(*                                                                         *)
(* The page learns the session's status from two channels that are not     *)
(* synchronised: the snapshots, applied whenever they arrive, and the      *)
(* status frames on the socket.  The composer is disabled while the status *)
(* it last heard is "running"; that gate is the only thing that keeps a    *)
(* client from overlapping turns.                                          *)
(*                                                                         *)
(* Of a snapshot only the status matters here: its messages are read by a  *)
(* second statement and shown in the timeline, which no gate looks at.     *)
(*                                                                         *)
(* Frames that change nothing modelled here (message_start, error, which   *)
(* is only logged) are not put on the wire.                                *)
(***************************************************************************)
EXTENDS ChatConn

CONSTANTS
  Cached,     \* what the query's cache may hold when the visit begins
  MaxFetches, \* bound on the requests the query makes after its first
  MaxInputs   \* bound on messages, stops and further requests together

ASSUME ChatPageAssumption ==
  /\ Cached \subseteq {"none"} \cup DbStatus
  /\ MaxFetches \in Nat
  /\ MaxInputs \in Nat

VARIABLES
  ws,           \* the page's socket: "connecting", "open" or "closed"
  toServer,     \* frames the page has sent: "message" or "stop"
  toPage,       \* frames under way to the page: a status or "content"
  pageStatus,   \* React state `status`
  streamed,     \* some stream on the page has content
  data,         \* the status in the query's cached answer, "none" without one
  rest,         \* the query's request under way
  fetches,      \* requests made after the visit began
  sends,        \* messages the page has put on the socket
  presses,      \* stop frames the page has put on the socket
  dropped,      \* history: a message was typed while the socket was not open
  reopened,     \* history: a snapshot put an end to "running" after a message
  overtaken     \* history: the status shown is a snapshot's that was read
                \* before a frame the page already had, and is not the row's

queryVars == <<data, rest, fetches>>
pageVars == <<ws, pageStatus, streamed, queryVars, sends, presses, dropped, reopened, overtaken>>
wires == <<toServer, toPage>>
allVars == <<vars, wires, pageVars>>

\* The request: none, asked, or with its session row read.  `old` is history:
\* the page has received a status frame since the row was read.
Request == [step : {"none", "asked", "answered"}, status : DbStatus, old : BOOLEAN]
NoRequest == [step |-> "none", status |-> "running", old |-> FALSE]
Asked == [NoRequest EXCEPT !.step = "asked"]
Answered(st, old) == [step |-> "answered", status |-> st, old |-> old]

\* A visit finds an answer of an earlier one, which sets the status, or none.
\* It asks, or joins a request an earlier visit left, its row read at any time
\* then, or does neither: the answer is fresh (three seconds), or the browser
\* is offline.
PageInit ==
  /\ Init
  /\ ws = "connecting" /\ toServer = <<>> /\ toPage = <<>>
  /\ data \in Cached
  /\ fetches = 0
  /\ rest \in {NoRequest, Asked} \cup {Answered(st, TRUE) : st \in DbStatus}
  /\ pageStatus = IF data = "none" THEN "idle" ELSE data
  /\ streamed = FALSE
  /\ sends = 0 /\ presses = 0
  /\ dropped = FALSE /\ reopened = FALSE /\ overtaken = FALSE

\* isLoading (no answer yet and a request under way) hides the composer and
\* the timeline.
Loaded == data # "none" \/ rest.step = "none"
IsRunning == pageStatus = "running"
ComposerEnabled == Loaded /\ ~IsRunning
TimelineEmpty == ~streamed /\ rows = <<>>

InputLeft == sends + presses + fetches < MaxInputs

-----------------------------------------------------------------------------
\* The server's steps, with what they do to the wires.

ToPage(frames) == toPage' = toPage \o frames

HelloSent == HandlerHello /\ ToPage(<<"running">>) /\ UNCHANGED <<toServer, pageVars>>

StopSent == HandlerStopWrite /\ ToPage(<<"stopped">>) /\ UNCHANGED <<toServer, pageVars>>

\* Mutant: the server's event type is sent as the status.
FrameOfRaw(type) ==
  CASE type \in StatusType -> <<type>>
    [] type \in {"message_delta", "message_done"} -> <<"content">>
    [] OTHER -> <<>>

FrameOf(type) ==
  CASE type = "status_running" -> <<"running">>
    [] type = "status_done" -> <<"done">>
    [] type \in {"message_delta", "message_done"} -> <<"content">>
    [] OTHER -> <<>>

EventSent == RelayWrite /\ ToPage(FrameOf(ev.type)) /\ UNCHANGED <<toServer, pageVars>>

\* Mutant: a message frame is read and dropped.
MessageReadIgnored ==
  /\ up /\ hpc = "read"
  /\ toServer # <<>> /\ Head(toServer) = "message"
  /\ toServer' = Tail(toServer)
  /\ UNCHANGED <<vars, toPage, pageVars>>

MessageRead ==
  /\ toServer # <<>> /\ Head(toServer) = "message"
  /\ HandlerMessage
  /\ toServer' = Tail(toServer)
  /\ UNCHANGED <<toPage, pageVars>>

StopRead ==
  /\ toServer # <<>> /\ Head(toServer) = "stop"
  /\ HandlerStop
  /\ toServer' = Tail(toServer)
  /\ UNCHANGED <<toPage, pageVars>>

HandlerSilent ==
  /\ \/ HandlerStart \/ HandlerEcho \/ HandlerSpawn \/ HandlerReadError \/ HandlerReturn
  /\ UNCHANGED <<wires, pageVars>>

WritersCollideSilent == WritersCollide /\ UNCHANGED <<wires, pageVars>>

RelaySilent ==
  /\ RelayRecv \/ RelayPersist \/ RelayWriteError
  /\ UNCHANGED <<wires, pageVars>>

RunProgress(t) == RunStep(t) /\ UNCHANGED <<wires, pageVars>>

\* ChatHandler.Get reads the session row.
GetSession ==
  /\ up /\ rest.step = "asked"
  /\ rest' = Answered(status, FALSE)
  /\ UNCHANGED <<vars, wires, ws, pageStatus, streamed, data, fetches, sends, presses,
                 dropped, reopened, overtaken>>

-----------------------------------------------------------------------------
\* The page.

\* The upgrade has been answered.
WsOpen ==
  /\ ws = "connecting"
  /\ ws' = "open"
  /\ UNCHANGED <<vars, wires, pageStatus, streamed, queryVars, sends, presses,
                 dropped, reopened, overtaken>>

\* The connection is lost: nothing reconnects it and nothing tells the user.
WsLost ==
  /\ ws # "closed"
  /\ ws' = "closed"
  /\ peer' = "gone"
  /\ UNCHANGED <<up, ctx, handlerVars, runVars, emitted, events, relayVars, dbVars,
                 historyVars, wires, pageStatus, streamed, queryVars, sends, presses,
                 dropped, reopened, overtaken>>

\* Mutant: the page ignores the status of the frames it receives.
PageReceiveNoStatus ==
  /\ ws = "open" /\ toPage # <<>>
  /\ toPage' = Tail(toPage)
  /\ streamed' = (streamed \/ Head(toPage) = "content")
  /\ UNCHANGED <<vars, toServer, ws, pageStatus, queryVars, sends, presses, dropped,
                 reopened, overtaken>>

\* ws.onmessage: the reducer of ChatView.
PageReceive ==
  /\ ws = "open" /\ toPage # <<>>
  /\ toPage' = Tail(toPage)
  /\ IF Head(toPage) = "content"
     THEN streamed' = TRUE /\ UNCHANGED <<pageStatus, rest, overtaken>>
     ELSE /\ pageStatus' = Head(toPage)
          /\ rest' = [rest EXCEPT !.old = (rest.step = "answered")]
          /\ overtaken' = FALSE
          /\ UNCHANGED streamed
  /\ UNCHANGED <<vars, toServer, ws, data, fetches, sends, presses, dropped, reopened>>

\* The query asks again on a reconnect; an attempt that is retried changes
\* nothing until its retry reads the row.
Refetch ==
  /\ rest.step = "none"
  /\ fetches < MaxFetches /\ InputLeft
  /\ rest' = Asked
  /\ fetches' = fetches + 1
  /\ UNCHANGED <<vars, wires, ws, pageStatus, streamed, data, sends, presses, dropped,
                 reopened, overtaken>>

\* The effect on [session] overwrites the status ...
ApplyStatus ==
  /\ pageStatus' = rest.status
  /\ reopened' = (reopened \/ (sends > 0 /\ IsRunning /\ rest.status # "running"))
  /\ overtaken' = (rest.old /\ rest.status # status)

\* ... unless the answer's session equals the cached one, down to the second
\* it was updated in: then the query keeps the old object and no effect runs.
KeepStatus ==
  /\ data = rest.status
  /\ UNCHANGED <<pageStatus, reopened, overtaken>>

\* The query's answer.
RestArrive ==
  /\ rest.step = "answered"
  /\ rest' = NoRequest
  /\ data' = rest.status
  /\ ApplyStatus \/ KeepStatus
  /\ UNCHANGED <<vars, wires, ws, streamed, fetches, sends, presses, dropped>>

\* The query fails, retry included, or is put off while the browser is
\* offline: the page shows the answer it has, or an empty chat.
RestFail ==
  /\ rest.step \in {"asked", "answered"}
  /\ rest' = NoRequest
  /\ UNCHANGED <<vars, wires, ws, pageStatus, streamed, data, fetches, sends, presses,
                 dropped, reopened, overtaken>>

\* Mutant: handleSend leaves the status to the server.
PageSendNoGate ==
  /\ ComposerEnabled
  /\ IF ws = "open"
     THEN /\ sends < MaxTurns /\ InputLeft
          /\ sends' = sends + 1
          /\ toServer' = Append(toServer, "message")
          /\ UNCHANGED dropped
     ELSE dropped' = TRUE /\ UNCHANGED <<sends, toServer>>
  /\ UNCHANGED <<vars, toPage, ws, streamed, queryVars, presses, reopened, overtaken, pageStatus>>

\* handleSend: the input is cleared and the status set whether or not the
\* socket took the message.
PageSend ==
  /\ ComposerEnabled
  /\ pageStatus' = "running"
  /\ IF ws = "open"
     THEN /\ sends < MaxTurns /\ InputLeft
          /\ sends' = sends + 1
          /\ toServer' = Append(toServer, "message")
          /\ UNCHANGED dropped
     ELSE dropped' = TRUE /\ UNCHANGED <<sends, toServer>>
  /\ UNCHANGED <<vars, toPage, ws, streamed, queryVars, presses, reopened, overtaken>>

\* The Stop button: visible while running, inert while the socket is not open.
PageStop ==
  /\ Loaded /\ IsRunning /\ ws = "open"
  /\ presses < MaxStops /\ InputLeft
  /\ presses' = presses + 1
  /\ toServer' = Append(toServer, "stop")
  /\ UNCHANGED <<vars, toPage, ws, pageStatus, streamed, queryVars, sends, dropped,
                 reopened, overtaken>>

-----------------------------------------------------------------------------
Server ==
  \/ HelloSent \/ StopSent \/ EventSent \/ MessageRead \/ StopRead
  \/ HandlerSilent \/ WritersCollideSilent \/ RelaySilent
  \/ \E t \in Turns : RunProgress(t)
  \/ GetSession

Page ==
  \/ WsOpen \/ WsLost \/ PageReceive
  \/ Refetch \/ RestArrive \/ RestFail
  \/ PageSend \/ PageStop

PageNext == Server \/ Page

PageSpec == PageInit /\ [][PageNext]_allVars

\* The server's goroutines and the browser's event loop are scheduled fairly;
\* the user and the network promise nothing.
PageFairSpec ==
  /\ PageSpec
  /\ WF_allVars(HelloSent \/ StopSent \/ MessageRead \/ StopRead \/ HandlerSilent)
  /\ WF_allVars(EventSent \/ RelaySilent)
  /\ \A t \in Turns : WF_allVars(RunProgress(t))
  /\ WF_allVars(PageReceive)
  /\ WF_allVars(WsOpen)

-----------------------------------------------------------------------------
PageTypeOK ==
  /\ ws \in {"connecting", "open", "closed"}
  /\ toServer \in Seq({"message", "stop"})
  /\ toPage \in Seq({"running", "done", "stopped", "content"})
  /\ pageStatus \in {"idle"} \cup DbStatus
  /\ streamed \in BOOLEAN
  /\ data \in {"none"} \cup DbStatus
  /\ rest \in Request
  /\ fetches \in 0..MaxFetches
  /\ sends \in 0..MaxTurns
  /\ presses \in 0..MaxStops
  /\ dropped \in BOOLEAN /\ reopened \in BOOLEAN /\ overtaken \in BOOLEAN

\* The composer's gate (ChatView.tsx:99-106) makes the page a serial client of
\* a promptless session: unless the user presses Stop, or a snapshot with
\* another status than "running" is applied while the page waits for an answer
\* (ChatView.tsx:27), no turn is accepted before the last is settled.
GateMakesSerial ==
  ~HasPrompt /\ stops = 0 /\ ~reopened => ~overlap

\* End to end, the status on the page is the session row's once everything
\* this page's connection does has settled, unless the two writers raced, a
\* message was dropped, a statement failed, or the status shown is that of a
\* snapshot whose row was read before a frame the page already had
\* (ChatView.tsx:27).  Any other snapshot, cached, joined or asked for again,
\* leaves the page right, or is put right by a frame still under way.
PageStatusAgrees ==
  /\ Quiet /\ wires = <<<<>>, <<>>>> /\ ws = "open"
  /\ ~collided /\ ~dropped /\ ~overtaken /\ faults = 0
  /\ turn > 0 \/ stops > 0
  => pageStatus = status

\* A page that is connected and shows "Send a message to start"
\* (ChatView.tsx:156) sooner or later lets its user send one.
InvitationHonest ==
  (data # "none" /\ TimelineEmpty /\ ~HasPrompt /\ sends = 0 /\ ~dropped /\ ws = "open")
    ~> (ComposerEnabled \/ ws = "closed")

\* A message the socket took reaches the server and is stored, unless the
\* connection is lost or writers collide.
SendReaches ==
  \A n \in 1..MaxTurns : (sends = n) ~> (turn >= n \/ ws = "closed" \/ collided)

\* When a turn ends with an answer the composer comes back, unless the
\* connection is lost, writers collide, a message was dropped, a snapshot
\* overtaken by the frames put "running" back or the user has sent something
\* else.
ComposerReturns ==
  \A t \in 1..MaxTurns :
    (turn = t /\ run[t] = "ended" /\ outcome[t] # "fail") ~>
      \/ ~IsRunning \/ ws = "closed" \/ collided \/ dropped \/ overtaken \/ sends > t

=============================================================================
