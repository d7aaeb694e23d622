--------------------------- MODULE ChatPageProofs ---------------------------
(***************************************************************************)
(* Theorems about the page composed with its connection: the composer's    *)
(* gate makes the page a serial client, and the status on the page is the  *)
(* session row's once everything has settled.  For every kind of session,  *)
(* channel capacity and number of messages, stops and failing statements.  *)
(***************************************************************************)
EXTENDS ChatPage, ChatAnswersProofs

Has(s, x) == \E i \in DOMAIN s : s[i] = x
Alone(s, x) == \A i, j \in DOMAIN s : s[i] = x /\ s[j] = x => i = j

\* What the page has put on the socket bounds what the server has read.
Link ==
  /\ ws # "closed" => peer = "up"
  /\ sends = 0 => turn = 0 /\ ~Has(toServer, "message")
  /\ presses = 0 => stops = 0 /\ ~Has(toServer, "stop")
  /\ hpc \in {"start", "hello"} => turn = 0 /\ stops = 0

BaseInv == ConnInv /\ PageTypeOK /\ Link

\* No turn is under way on the server.
Settled ==
  /\ hpc \notin {"echo", "spawn", "stopWrite"}
  /\ \A t \in Turns : run[t] \in {"none", "ended"}
  /\ events = <<>>
  /\ rpc = IF hpc \in {"start", "hello"} THEN "off" ELSE "recv"

\* At most one message or "done" is on the wires, only while the page believes
\* a turn is running, and then, as whenever the composer is enabled, no turn is
\* under way on the server.
Gate ==
  /\ ~overlap /\ hpc # "stopWrite" /\ ~Has(toPage, "stopped")
  /\ Alone(toServer, "message") /\ Alone(toPage, "done")
  /\ Has(toServer, "message") => ~Has(toPage, "done") /\ IsRunning
  /\ Has(toPage, "done") => IsRunning /\ sends > 0
  /\ Has(toServer, "message") \/ Has(toPage, "done") \/ ~IsRunning \/ sends = 0 => Settled

GateInv == ~HasPrompt /\ stops = 0 /\ ~reopened => Gate

\* The last status on its way to the page, or on it, is st; what a snapshot
\* overtaken by the frames has put there is left open.
Said(st) ==
  \/ \E i \in DOMAIN toPage : toPage[i] = st /\ \A j \in DOMAIN toPage : j > i => toPage[j] = "content"
  \/ (\A i \in DOMAIN toPage : toPage[i] = "content") /\ (overtaken \/ pageStatus = st)

StatusOf(e) == IF e.type = "status_done" THEN "done" ELSE "running"

\* The row is still to be written by something already under way, ...
Upcoming ==
  \/ Has(toServer, "message")
  \/ hpc = "echo" /\ emitted[Echo(turn)] = 0
  \/ \E i \in DOMAIN events : events[i].type \in StatusType
  \/ rpc = "persist" /\ ev.type \in StatusType

\* ... or what was written last is being announced, or was the last announced.
Latest ==
  \/ hpc = "stopWrite" /\ status = "stopped"
  \/ RelayAnnounces /\ status = StatusOf(ev)
  \/ hpc # "stopWrite" /\ ~RelayAnnounces /\ Said(status)

\* The row an answer was read from is still as it was, unless the page has had
\* a status since, or is to have one.
Fresh ==
  rest.step = "answered" /\ ~rest.old =>
    \/ rest.status = status
    \/ RelayAnnounces \/ hpc = "stopWrite"
    \/ \E i \in DOMAIN toPage : toPage[i] # "content"

StatusGoes ==
  /\ up /\ hpc \notin {"return", "closed"} /\ rpc # "exited"
  /\ ~(hpc = "stopWrite" /\ RelayAnnounces)
  /\ hpc = "stopWrite" => status = "stopped"
  /\ turn > 0 \/ stops > 0 => Upcoming \/ Latest

StatusInv == ws # "closed" /\ ~collided /\ faults = 0 /\ ~dropped => StatusGoes /\ Fresh

-----------------------------------------------------------------------------
\* Wires.

LEMMA AppendWire ==
  ASSUME NEW S, NEW s \in Seq(S), NEW x \in S
  PROVE  /\ Append(s, x) \in Seq(S)
         /\ \A y : Has(Append(s, x), y) <=> Has(s, y) \/ y = x
         /\ \A y : Alone(s, y) /\ (y = x => ~Has(s, y)) => Alone(Append(s, x), y)
<1> DEFINE s2 == Append(s, x)
<1>1. /\ Len(s) \in Nat /\ DOMAIN s = 1..Len(s) /\ DOMAIN s2 = 1..(Len(s) + 1)
      /\ s2 \in Seq(S) /\ s2[Len(s) + 1] = x /\ \A i \in DOMAIN s : s2[i] = s[i]
  BY AppendProperties, LenProperties
<1>2. \A i \in DOMAIN s2 : i \in DOMAIN s \/ i = Len(s) + 1
  BY <1>1
<1>3. DOMAIN s \subseteq DOMAIN s2 /\ Len(s) + 1 \in DOMAIN s2
  BY <1>1
<1> HIDE DEF s2
<1>4. \A y : Has(s2, y) <=> Has(s, y) \/ y = x
  BY <1>1, <1>2, <1>3 DEF Has
<1>5. \A y : Alone(s, y) /\ (y = x => ~Has(s, y)) => Alone(s2, y)
  BY <1>1, <1>2 DEF Has, Alone
<1> QED
  BY <1>1, <1>4, <1>5 DEF s2

LEMMA TailWire ==
  ASSUME NEW S, NEW s \in Seq(S), s # <<>>
  PROVE  /\ Tail(s) \in Seq(S) /\ Head(s) \in S /\ Head(s) = s[1] /\ 1 \in DOMAIN s
         /\ \A i \in DOMAIN Tail(s) : i + 1 \in DOMAIN s /\ Tail(s)[i] = s[i + 1]
         /\ \A i \in DOMAIN s : i = 1 \/ (i - 1 \in DOMAIN Tail(s) /\ s[i] = Tail(s)[i - 1])
         /\ Has(s, Head(s))
         /\ \A y : Has(Tail(s), y) => Has(s, y)
         /\ \A y : Has(s, y) => y = Head(s) \/ Has(Tail(s), y)
         /\ \A y : Alone(s, y) => Alone(Tail(s), y)
         /\ Alone(s, Head(s)) => ~Has(Tail(s), Head(s))
<1> DEFINE r == Tail(s)
<1>1. /\ Len(s) \in Nat /\ Len(s) > 0 /\ DOMAIN s = 1..Len(s)
      /\ r \in Seq(S) /\ Head(s) \in S /\ Head(s) = s[1] /\ Len(r) = Len(s) - 1
      /\ \A i \in 1..Len(r) : r[i] = s[i + 1]
  BY HeadTailProperties, LenProperties, EmptySeq
<1>2. DOMAIN r = 1..Len(r)
  BY <1>1, LenProperties
<1> HIDE DEF r
<1>3. \A i \in DOMAIN r : i \in Nat /\ i # 0 /\ i + 1 \in DOMAIN s /\ r[i] = s[i + 1]
  BY <1>1, <1>2
<1>4. \A i \in DOMAIN s : i = 1 \/ (i - 1 \in DOMAIN r /\ s[i] = r[i - 1])
  <2> SUFFICES ASSUME NEW i \in 1..Len(s), i # 1 PROVE i - 1 \in DOMAIN r /\ s[i] = r[i - 1]
    BY <1>1
  <2>1. i - 1 \in 1..Len(r) /\ (i - 1) + 1 = i
    BY <1>1
  <2> QED
    BY <1>1, <1>2, <2>1
<1>5. 1 \in DOMAIN s
  BY <1>1
<1>6. \A y : Has(r, y) => Has(s, y)
  BY <1>3 DEF Has
<1>7. \A y : Has(s, y) => y = Head(s) \/ Has(r, y)
  BY <1>1, <1>4 DEF Has
<1>8. \A i, j \in DOMAIN r : i + 1 = j + 1 => i = j
  BY <1>3
<1>9. \A y : Alone(s, y) => Alone(r, y)
  BY <1>3, <1>8 DEF Alone
<1>10. Alone(s, Head(s)) => ~Has(r, Head(s))
  <2> SUFFICES ASSUME Alone(s, s[1]), NEW i \in DOMAIN r, r[i] = s[1] PROVE FALSE
    BY <1>1 DEF Has
  <2>1. i + 1 \in DOMAIN s /\ s[i + 1] = s[1] /\ i + 1 # 1
    BY <1>3
  <2> QED
    BY <1>5, <2>1 DEF Alone
<1> QED
  BY <1>1, <1>3, <1>4, <1>5, <1>6, <1>7, <1>9, <1>10 DEF r, Has

\* The frames of a step are at most one, put at the end of the wire.
PageFrame == {"running", "done", "stopped", "content"}

LEMMA FrameWire ==
  ASSUME PageTypeOK, NEW frames, ToPage(frames),
         frames = <<>> \/ \E x \in PageFrame : frames = <<x>>
  PROVE  \/ frames = <<>> /\ toPage' = toPage
         \/ \E x \in PageFrame : frames = <<x>> /\ toPage' = Append(toPage, x)
<1>1. toPage \in Seq(PageFrame) /\ toPage' = toPage \o frames
  BY DEF PageTypeOK, ToPage, PageFrame
<1>2. CASE frames = <<>>
  BY <1>1, <1>2, ConcatEmptySeq
<1>3. ASSUME NEW x \in PageFrame, frames = <<x>> PROVE toPage' = Append(toPage, x)
  BY <1>1, <1>3, AppendIsConcat
<1> QED
  BY <1>2, <1>3

-----------------------------------------------------------------------------
\* A step of the page and the server is a step of the connection, or leaves
\* it alone.

PageOnly == GetSession \/ Refetch \/ WsOpen \/ PageReceive \/ RestArrive \/ RestFail \/ PageSend \/ PageStop

LEMMA PageStepsConn ==
  ASSUME ws # "closed" => peer = "up", [PageNext]_allVars
  PROVE  [Next]_vars
<1>1. CASE HelloSent \/ StopSent \/ EventSent \/ MessageRead \/ StopRead
  BY <1>1 DEF HelloSent, StopSent, EventSent, MessageRead, StopRead, Next, Handler, Relay
<1>2. CASE HandlerSilent \/ WritersCollideSilent \/ RelaySilent
  BY <1>2 DEF HandlerSilent, WritersCollideSilent, RelaySilent, Next, Handler, Relay
<1>3. CASE \E t \in Turns : RunProgress(t)
  BY <1>3 DEF RunProgress, Next
<1>4. CASE PageOnly
  BY <1>4 DEF PageOnly, GetSession, Refetch, WsOpen, PageReceive, RestArrive, RestFail, PageSend, PageStop
<1>5. CASE WsLost
  <2>1. CASE peer = "up"
    BY <1>5, <2>1 DEF WsLost, PeerLeaves, Next
  <2> QED
    BY <1>5, <2>1 DEF WsLost
<1>6. CASE UNCHANGED allVars
  BY <1>6 DEF allVars
<1> QED
  BY <1>1, <1>2, <1>3, <1>4, <1>5, <1>6 DEF PageNext, Server, Page, PageOnly

\* The server's steps put at most one frame on the page's wire.
LEMMA ServerFrames ==
  ASSUME PageTypeOK, Server
  PROVE  toPage' = toPage \/ \E x \in PageFrame : toPage' = Append(toPage, x)
<1>1. CASE HelloSent
  BY <1>1, FrameWire DEF HelloSent, PageFrame
<1>2. CASE StopSent
  BY <1>2, FrameWire DEF StopSent, PageFrame
<1>3. CASE EventSent
  <2>1. FrameOf(ev.type) = <<>> \/ \E x \in PageFrame : FrameOf(ev.type) = <<x>>
    BY DEF FrameOf, PageFrame
  <2>2. PICK frames : frames = FrameOf(ev.type)
    OBVIOUS
  <2>3. ToPage(frames)
    BY <1>3, <2>2 DEF EventSent, ToPage
  <2> QED
    BY <2>1, <2>2, <2>3, FrameWire
<1>4. CASE MessageRead \/ StopRead \/ HandlerSilent \/ WritersCollideSilent \/ RelaySilent
  BY <1>4 DEF MessageRead, StopRead, HandlerSilent, WritersCollideSilent, RelaySilent, wires
<1>5. CASE (\E t \in Turns : RunProgress(t)) \/ GetSession
  BY <1>5 DEF RunProgress, GetSession, wires
<1> QED
  BY <1>1, <1>2, <1>3, <1>4, <1>5 DEF Server

LEMMA PageTypeStep == BaseInv /\ [PageNext]_allVars => PageTypeOK'
<1> SUFFICES ASSUME BaseInv, [PageNext]_allVars PROVE PageTypeOK'
  OBVIOUS
<1>0. PageTypeOK /\ status \in DbStatus /\ MaxFetches \in Nat
  BY ChatPageAssumption DEF BaseInv, ConnInv, RowInv, TypeInv, TypeOK
<1>1. toServer \in Seq({"message", "stop"}) /\ toPage \in Seq(PageFrame)
  BY <1>0 DEF PageTypeOK, PageFrame
<1>2. CASE Server
  <2>1. toPage' \in Seq(PageFrame)
    BY <1>0, <1>1, <1>2, ServerFrames, AppendWire
  <2>2. CASE HelloSent \/ StopSent \/ EventSent
    BY <1>0, <2>1, <2>2 DEF HelloSent, StopSent, EventSent, PageTypeOK, pageVars, queryVars, PageFrame
  <2>3. CASE MessageRead \/ StopRead
    <3>1. toServer # <<>> /\ toServer' = Tail(toServer)
      BY <2>3 DEF MessageRead, StopRead
    <3>2. toServer' \in Seq({"message", "stop"})
      BY <1>1, <3>1, TailWire
    <3> QED
      BY <1>0, <2>3, <3>2 DEF MessageRead, StopRead, PageTypeOK, pageVars, queryVars
  <2>4. CASE HandlerSilent \/ WritersCollideSilent \/ RelaySilent
    BY <1>0, <2>4 DEF HandlerSilent, WritersCollideSilent, RelaySilent, PageTypeOK, wires, pageVars, queryVars
  <2>5. CASE \E t \in Turns : RunProgress(t)
    BY <1>0, <2>5 DEF RunProgress, PageTypeOK, wires, pageVars, queryVars
  <2>6. CASE GetSession
    BY <1>0, <2>6 DEF GetSession, PageTypeOK, wires, Answered, Request
  <2> QED
    BY <1>2, <2>2, <2>3, <2>4, <2>5, <2>6 DEF Server
<1>3. CASE WsOpen \/ WsLost \/ Refetch \/ RestFail
  <2>1. NoRequest \in Request /\ Asked \in Request
    BY DEF NoRequest, Asked, Request, DbStatus
  <2>2. CASE WsOpen \/ WsLost
    BY <1>0, <2>2 DEF WsOpen, WsLost, PageTypeOK, wires, queryVars
  <2>3. CASE Refetch \/ RestFail
    BY <1>0, <2>1, <2>3 DEF Refetch, RestFail, PageTypeOK, wires
  <2> QED
    BY <1>3, <2>2, <2>3
<1>8. CASE RestArrive
  <2>1. rest.status \in DbStatus /\ rest.old \in BOOLEAN /\ NoRequest \in Request
    BY <1>0 DEF PageTypeOK, Request, NoRequest, DbStatus
  <2>2. pageStatus' \in {"idle"} \cup DbStatus
    BY <1>0, <1>8, <2>1 DEF RestArrive, ApplyStatus, KeepStatus, PageTypeOK
  <2>3. reopened' \in BOOLEAN /\ overtaken' \in BOOLEAN
    <3>1. \/ reopened' = reopened /\ overtaken' = overtaken
          \/ /\ reopened' = (reopened \/ (sends > 0 /\ IsRunning /\ rest.status # "running"))
             /\ overtaken' = (rest.old /\ rest.status # status)
      BY <1>8, Zenon DEF RestArrive, ApplyStatus, KeepStatus
    <3> QED
      BY <1>0, <2>1, <3>1 DEF PageTypeOK
  <2>4. /\ rest' = NoRequest /\ data' = rest.status
        /\ UNCHANGED <<wires, ws, streamed, fetches, sends, presses, dropped>>
    BY <1>8 DEF RestArrive
  <2> QED
    BY <1>0, <2>1, <2>2, <2>3, <2>4 DEF PageTypeOK, wires
<1>4. CASE PageReceive
  <2>1. toPage # <<>> /\ toPage' = Tail(toPage)
    BY <1>4 DEF PageReceive
  <2>2. toPage' \in Seq(PageFrame) /\ Head(toPage) \in PageFrame
    BY <1>1, <2>1, TailWire
  <2>3. rest' \in Request
    BY <1>0, <1>4 DEF PageReceive, PageTypeOK, Request
  <2> QED
    BY <1>0, <1>4, <2>2, <2>3 DEF PageReceive, PageTypeOK, PageFrame, DbStatus
<1>5. CASE PageSend
  <2>1. toServer' = toServer \/ toServer' = Append(toServer, "message")
    BY <1>5 DEF PageSend
  <2>2. toServer' \in Seq({"message", "stop"})
    BY <1>1, <2>1, AppendWire
  <2>3. sends' \in 0..MaxTurns
    BY <1>0, <1>5, ChatConnAssumption DEF PageSend, PageTypeOK
  <2>5. dropped' = TRUE \/ dropped' = dropped
    BY <1>5, Zenon DEF PageSend
  <2>6. dropped' \in BOOLEAN
    BY <1>0, <2>5 DEF PageTypeOK
  <2>4. pageStatus' = "running" /\ UNCHANGED <<toPage, ws, streamed, data, rest, fetches, presses, reopened, overtaken>>
    BY <1>5 DEF PageSend, queryVars
  <2> QED
    BY <1>0, <2>2, <2>3, <2>4, <2>6 DEF PageTypeOK, DbStatus
<1>6. CASE PageStop
  <2>1. toServer' \in Seq({"message", "stop"})
    BY <1>1, <1>6, AppendWire DEF PageStop
  <2> QED
    BY <1>0, <1>6, <2>1, ChatConnAssumption DEF PageStop, PageTypeOK, queryVars
<1>7. CASE UNCHANGED allVars
  BY <1>0, <1>7 DEF allVars, wires, pageVars, queryVars, PageTypeOK
<1> QED
  BY <1>2, <1>3, <1>4, <1>5, <1>6, <1>7, <1>8 DEF PageNext, Page

LEMMA LinkStep == BaseInv /\ [PageNext]_allVars => Link'
<1> SUFFICES ASSUME BaseInv, [PageNext]_allVars PROVE Link'
  OBVIOUS
<1>0. /\ Link /\ toServer \in Seq({"message", "stop"}) /\ sends \in Nat /\ presses \in Nat
      /\ turn \in Nat /\ stops \in Nat
  BY TypeFacts, ChatConnAssumption DEF BaseInv, PageTypeOK, ConnInv, RowInv, TypeInv, TypeOK
<1>1. CASE MessageRead
  <2>1. toServer # <<>> /\ Head(toServer) = "message" /\ toServer' = Tail(toServer)
    BY <1>1 DEF MessageRead
  <2>2. Has(toServer, "message") /\ \A y : Has(toServer', y) => Has(toServer, y)
    BY <1>0, <2>1, TailWire
  <2> QED
    BY <1>0, <1>1, <2>2 DEF Link, MessageRead, HandlerMessage, pageVars
<1>2. CASE StopRead
  <2>1. toServer # <<>> /\ Head(toServer) = "stop" /\ toServer' = Tail(toServer)
    BY <1>2 DEF StopRead
  <2>2. Has(toServer, "stop") /\ \A y : Has(toServer', y) => Has(toServer, y)
    BY <1>0, <2>1, TailWire
  <2> QED
    BY <1>0, <1>2, <2>2 DEF Link, StopRead, HandlerStop, pageVars
<1>3. CASE HelloSent \/ StopSent \/ EventSent
  BY <1>0, <1>3 DEF HelloSent, StopSent, EventSent, HandlerHello, HandlerStopWrite, RelayWrite, Link,
     Has, pageVars, handlerVars
<1>4. CASE HandlerSilent
  BY <1>0, <1>4 DEF HandlerSilent, HandlerStart, HandlerEcho, HandlerSpawn, HandlerReadError, HandlerReturn,
     Link, Has, pageVars, wires
<1>5. CASE WritersCollideSilent \/ RelaySilent
  BY <1>0, <1>5 DEF WritersCollideSilent, RelaySilent, WritersCollide, RelayRecv, RelayPersist,
     RelayWriteError, Link, Has, pageVars, wires, handlerVars
<1>6. CASE \E t \in Turns : RunProgress(t)
  BY <1>0, <1>6 DEF RunProgress, RunStep, RunBegin, RunExit, RunEmit, Link, Has, pageVars, wires, handlerVars
<1>7. CASE GetSession \/ Refetch \/ WsOpen \/ RestArrive \/ RestFail
  <2>1. UNCHANGED <<peer, hpc, turn, stops, sends, presses, toServer>> /\ (ws' # "closed" => ws # "closed")
    BY <1>7 DEF GetSession, Refetch, WsOpen, RestArrive, RestFail, vars, handlerVars, wires
  <2> QED
    BY <1>0, <2>1 DEF Link, Has
<1>8. CASE WsLost \/ PageReceive
  BY <1>0, <1>8 DEF WsLost, PageReceive, Link, Has, vars, handlerVars, wires
<1>9. CASE PageSend
  <2>1. /\ UNCHANGED <<peer, hpc, turn, stops, ws, presses>>
        /\ (sends' = sends + 1 /\ toServer' = Append(toServer, "message")) \/ (sends' = sends /\ toServer' = toServer)
    BY <1>9 DEF PageSend, vars, handlerVars
  <2>2. toServer' = Append(toServer, "message") => (Has(toServer', "stop") => Has(toServer, "stop"))
    BY <1>0, AppendWire
  <2> QED
    BY <1>0, <2>1, <2>2 DEF Link, Has
<1>10. CASE PageStop
  <2>1. /\ UNCHANGED <<peer, hpc, turn, stops, ws, sends>>
        /\ presses' = presses + 1 /\ toServer' = Append(toServer, "stop")
    BY <1>10 DEF PageStop, vars, handlerVars
  <2>2. Has(toServer', "message") => Has(toServer, "message")
    BY <1>0, <2>1, AppendWire
  <2> QED
    BY <1>0, <2>1, <2>2 DEF Link
<1>11. CASE UNCHANGED allVars
  BY <1>0, <1>11 DEF allVars, vars, handlerVars, wires, pageVars, Link, Has
<1> QED
  BY <1>1, <1>2, <1>3, <1>4, <1>5, <1>6, <1>7, <1>8, <1>9, <1>10, <1>11 DEF PageNext, Page, Server

LEMMA BaseInit == PageInit => BaseInv
<1> SUFFICES ASSUME PageInit PROVE BaseInv
  OBVIOUS
<1>1. ConnInv
  BY ConnInit DEF PageInit
<1>2. toServer = <<>> /\ toPage = <<>> /\ ~Has(toServer, "message") /\ ~Has(toServer, "stop")
  BY EmptySeq DEF PageInit, Has
<1>3. PageTypeOK
  <2>1. toServer \in Seq({"message", "stop"}) /\ toPage \in Seq({"running", "done", "stopped", "content"})
    BY <1>2, EmptySeq
  <2>2. rest \in Request /\ data \in {"none"} \cup DbStatus /\ pageStatus \in {"idle"} \cup DbStatus
    <3>1. NoRequest \in Request /\ Asked \in Request /\ \A st \in DbStatus : Answered(st, TRUE) \in Request
      BY DEF NoRequest, Asked, Answered, Request, DbStatus
    <3>2. rest \in {NoRequest, Asked} \cup {Answered(st, TRUE) : st \in DbStatus}
      BY DEF PageInit
    <3>3. rest \in Request
      BY <3>1, <3>2
    <3>4. data \in {"none"} \cup DbStatus /\ pageStatus = IF data = "none" THEN "idle" ELSE data
      BY ChatPageAssumption DEF PageInit
    <3> QED
      BY <3>3, <3>4
  <2>3. sends \in 0..MaxTurns /\ presses \in 0..MaxStops /\ ws = "connecting" /\ fetches \in 0..MaxFetches
    BY ChatConnAssumption, ChatPageAssumption DEF PageInit
  <2>4. streamed \in BOOLEAN /\ dropped \in BOOLEAN /\ reopened \in BOOLEAN /\ overtaken \in BOOLEAN
    BY DEF PageInit
  <2> QED
    BY <2>1, <2>2, <2>3, <2>4 DEF PageTypeOK
<1>4. Link
  BY <1>2 DEF PageInit, Init, Link
<1> QED
  BY <1>1, <1>3, <1>4 DEF BaseInv

LEMMA BaseStep == BaseInv /\ [PageNext]_allVars => BaseInv' /\ [Next]_vars
<1> SUFFICES ASSUME BaseInv, [PageNext]_allVars PROVE BaseInv' /\ [Next]_vars
  OBVIOUS
<1>1. [Next]_vars
  BY PageStepsConn DEF BaseInv, Link
<1>2. ConnInv'
  BY <1>1, ConnStep DEF BaseInv
<1> QED
  BY <1>1, <1>2, PageTypeStep, LinkStep DEF BaseInv

\* The page's variables keep their types.
THEOREM PageTypeCorrect == PageSpec => []PageTypeOK
<1>1. BaseInv => PageTypeOK
  BY DEF BaseInv
<1> QED
  BY <1>1, BaseInit, BaseStep, PTL DEF PageSpec

\* The page and the server together behave, for the connection's variables,
\* as the connection alone with a peer that does as it likes: what is proved
\* of every connection holds of the one a page opens.
THEOREM PageImplementsConn == PageSpec => Spec
<1>1. PageInit => Init
  BY DEF PageInit
<1> QED
  BY <1>1, BaseInit, BaseStep, PTL DEF PageSpec, Spec

-----------------------------------------------------------------------------
\* The gate.

\* When the relay writes the end of a turn's answer nothing is left of the turn.
LEMMA DoneSettles ==
  ASSUME AnswerInv, OneTurn, EchoFirst, rpc = "write", ev.type = "status_done"
  PROVE  /\ events = <<>> /\ \A t \in Turns : run[t] \in {"none", "ended"}
         /\ hpc \notin {"start", "hello", "echo", "spawn"}
<1> DEFINE o == outcome[turn]
<1>0. /\ ConnInv /\ Progress /\ turn \in Turns /\ o \in {"answer", "fail", "silent"} /\ Run(turn) \in Source
      /\ emitted[Run(turn)] \in 0..4 /\ run[turn] \in RunPC /\ Len(events) \in Nat /\ events \in Seq(Event)
  BY TypeFacts, SourceFacts DEF AnswerInv, ConnInv, RowInv, TypeInv
<1>1. Holding /\ ev \in InFlight
  BY DEF Holding, InFlight
<1>2. /\ ev.src \in Source /\ ev.src.turn = turn /\ ev.k \in 1..4 /\ ev.k <= emitted[ev.src] /\ OfScript(ev)
  BY <1>0, <1>1, FlightFacts DEF OneTurn, AnswerInv, Scripted
<1>3. FromRun(ev)
  <2>1. \A k \in 1..4 : EchoScript[k] # "status_done"
    BY DEF EchoScript
  <2>2. ev.src.who # "echo"
    BY <1>2, <2>1 DEF OfScript, ScriptOf
  <2> QED
    BY <1>2, <2>2 DEF FromRun, Source
<1>4. ev.src = Run(turn)
  BY <1>2, <1>3, SourceFacts DEF FromRun, Echo
<1>5. RunScript(o)[ev.k] = "status_done"
  BY <1>2, <1>3 DEF OfScript, ScriptOf, FromRun
<1>6. run[turn] \notin {"none", "spawned", "exec"}
  BY <1>0, <1>2, <1>4 DEF Progress
<1> HIDE DEF o
<1>7. Len(RunScript(o)) \in 1..4 /\ emitted[Run(turn)] <= Len(RunScript(o))
  <2>1. Len(RunScript(o)) \in 1..4
    BY <1>0 DEF RunScript
  <2>2. run[turn] = "emit" => emitted[Run(turn)] < Len(RunScript(o))
    BY <1>0 DEF Progress, o
  <2>3. run[turn] = "ended" => emitted[Run(turn)] = Len(RunScript(o))
    BY <1>0 DEF AnswerInv, Complete, o
  <2> QED
    BY <1>0, <1>6, <2>1, <2>2, <2>3 DEF RunPC
<1>8. ev.k = Len(RunScript(o)) /\ emitted[Run(turn)] = ev.k
  <2>1. ev.k \in 1..Len(RunScript(o)) /\ ev.k <= emitted[Run(turn)]
    BY <1>0, <1>2, <1>4, <1>7
  <2>2. \A k \in 1..Len(RunScript(o)) : RunScript(o)[k] = "status_done" => k = Len(RunScript(o))
    BY <1>0 DEF RunScript
  <2> QED
    BY <1>0, <1>5, <1>7, <2>1, <2>2
<1>9. run[turn] = "ended"
  <2>1. run[turn] # "emit"
    BY <1>0, <1>7, <1>8 DEF Progress, o
  <2> QED
    BY <1>0, <1>6, <2>1 DEF RunPC
<1>10. \A t \in Turns : run[t] \in {"none", "ended"}
  BY <1>9 DEF OneTurn
<1>11. hpc \notin {"start", "hello", "echo", "spawn"}
  BY <1>0, <1>9 DEF Progress
<1>12. ASSUME NEW i \in 1..Len(events) PROVE FALSE
  <2>1. events[i] \in InFlight /\ FromRun(events[i])
    BY <1>1, <1>3 DEF InFlight, EchoFirst
  <2>2. events[i].src = Run(turn)
    <3>1. events[i].src \in Source /\ events[i].src.turn = turn
      BY <1>0, <2>1, FlightFacts DEF OneTurn
    <3> QED
      BY <2>1, <3>1, SourceFacts DEF FromRun, Echo
  <2>3. ev.k < events[i].k
    BY <1>0, <1>1, <1>4, <2>2 DEF ConnInv, QueueInv, HandFirst
  <2>4. events[i].k \in 1..4 /\ events[i].k <= emitted[Run(turn)]
    BY <1>0, <2>1, <2>2, FlightFacts
  <2> QED
    BY <1>0, <1>2, <1>8, <2>3, <2>4
<1>13. events = <<>>
  <2>1. Len(events) = 0
    BY <1>0, <1>12
  <2> QED
    BY <1>0, <2>1, EmptySeq
<1> QED
  BY <1>10, <1>11, <1>13

LEMMA HasNothing == ~Has(<<>>, "message") /\ ~Has(<<>>, "done") /\ ~Has(<<>>, "stopped")
BY EmptySeq DEF Has

\* A step that leaves the wires, the status and the page's sends alone keeps
\* the gate as long as it does not unsettle a settled server.
LEMMA GateKept ==
  ASSUME Gate, UNCHANGED <<toServer, toPage, pageStatus, sends>>, overlap' = overlap,
         hpc' # "stopWrite", Settled => Settled'
  PROVE  Gate'
<1>1. /\ Has(toServer, "message")' <=> Has(toServer, "message")
      /\ Has(toPage, "done")' <=> Has(toPage, "done")
      /\ Has(toPage, "stopped")' <=> Has(toPage, "stopped")
      /\ IsRunning' <=> IsRunning
      /\ Alone(toServer, "message")' <=> Alone(toServer, "message")
      /\ Alone(toPage, "done")' <=> Alone(toPage, "done")
  BY DEF Has, Alone, IsRunning
<1> QED
  BY <1>1 DEF Gate

LEMMA GateServer ==
  ASSUME AnswerInv, SerialInv, PageTypeOK, Link, ~HasPrompt, stops' = 0, stops \in Nat, Gate, Server
  PROVE  Gate'
<1>0. /\ Progress /\ toServer \in Seq({"message", "stop"}) /\ toPage \in Seq(PageFrame)
      /\ OneTurn /\ EchoFirst /\ sends \in Nat
  BY ChatConnAssumption DEF AnswerInv, ConnInv, RowInv, TypeInv, PageTypeOK, PageFrame, Gate, SerialInv
<1>1. CASE HelloSent
  <2>1. toPage' = Append(toPage, "running") /\ UNCHANGED <<toServer, sends, pageStatus, overlap>>
    BY <1>0, <1>1, AppendIsConcat DEF HelloSent, ToPage, PageFrame, pageVars, HandlerHello
  <2>2. /\ Has(toPage', "done") <=> Has(toPage, "done")
        /\ Has(toPage', "stopped") <=> Has(toPage, "stopped")
        /\ Alone(toPage, "done") => Alone(toPage', "done")
    BY <1>0, <2>1, AppendWire DEF PageFrame
  <2>3. hpc' = "read" /\ (Settled => Settled')
    BY <1>1 DEF HelloSent, HandlerHello, Settled, runVars
  <2> QED
    BY <2>1, <2>2, <2>3 DEF Gate, IsRunning
<1>2. CASE StopSent
  BY <1>2 DEF StopSent, HandlerStopWrite, Gate
<1>3. CASE EventSent
  <2>1. rpc = "write" /\ rpc' = "recv" /\ UNCHANGED <<hpc, run, events, overlap, toServer, sends, pageStatus>>
    BY <1>3 DEF EventSent, RelayWrite, pageVars, handlerVars, runVars
  <2>2. ~Settled
    BY <2>1 DEF Settled
  <2>3. ~Has(toServer, "message") /\ ~Has(toPage, "done") /\ IsRunning /\ sends # 0
    BY <2>2 DEF Gate
  <2>4. CASE ev.type = "status_done"
    <3>1. toPage' = Append(toPage, "done")
      BY <1>0, <1>3, <2>4, AppendIsConcat DEF EventSent, ToPage, FrameOf, PageFrame
    <3>2. /\ Has(toPage', "stopped") <=> Has(toPage, "stopped")
          /\ Alone(toPage', "done")
      BY <1>0, <2>3, <3>1, AppendWire DEF PageFrame, Gate
    <3>3. Settled'
      BY <1>0, <2>1, <2>4, DoneSettles DEF Settled, Gate
    <3> QED
      BY <1>0, <2>1, <2>3, <3>2, <3>3 DEF Gate, IsRunning
  <2>5. CASE ev.type # "status_done"
    <3>1. toPage' = toPage \/ \E x \in PageFrame \ {"done", "stopped"} : toPage' = Append(toPage, x)
      <4>1. FrameOf(ev.type) = <<>> \/ \E x \in PageFrame \ {"done", "stopped"} : FrameOf(ev.type) = <<x>>
        BY <2>5 DEF FrameOf, PageFrame
      <4>2. PICK frames : frames = FrameOf(ev.type)
        OBVIOUS
      <4>3. ToPage(frames)
        BY <1>3, <4>2 DEF EventSent, ToPage
      <4>4. CASE frames = <<>>
        BY <1>0, <4>3, <4>4, ConcatEmptySeq DEF ToPage
      <4>5. ASSUME NEW x \in PageFrame \ {"done", "stopped"}, frames = <<x>>
            PROVE  toPage' = Append(toPage, x)
        BY <1>0, <4>3, <4>5, AppendIsConcat DEF ToPage
      <4> QED
        BY <4>1, <4>2, <4>4, <4>5
    <3>2. /\ Has(toPage', "done") <=> Has(toPage, "done")
          /\ Has(toPage', "stopped") <=> Has(toPage, "stopped")
          /\ Alone(toPage, "done") => Alone(toPage', "done")
      <4>1. CASE toPage' = toPage
        BY <4>1 DEF Has, Alone
      <4>2. ASSUME NEW x \in PageFrame \ {"done", "stopped"}, toPage' = Append(toPage, x)
            PROVE  /\ Has(toPage', "done") <=> Has(toPage, "done")
                   /\ Has(toPage', "stopped") <=> Has(toPage, "stopped")
                   /\ Alone(toPage, "done") => Alone(toPage', "done")
        BY <1>0, <4>2, AppendWire
      <4> QED
        BY <3>1, <4>1, <4>2
    <3> QED
      BY <2>1, <2>3, <3>2 DEF Gate, IsRunning
  <2> QED
    BY <2>4, <2>5
<1>4. CASE MessageRead
  <2>1. /\ toServer # <<>> /\ Head(toServer) = "message" /\ toServer' = Tail(toServer)
        /\ hpc = "read" /\ hpc' = "echo" /\ overlap' = (overlap \/ ~Quiet)
        /\ UNCHANGED <<toPage, sends, pageStatus>>
    BY <1>4 DEF MessageRead, HandlerMessage, pageVars
  <2>2. Has(toServer, "message") /\ (Alone(toServer, "message") => ~Has(toServer', "message"))
    BY <1>0, <2>1, TailWire
  <2>3. Alone(toServer', "message")
    BY <1>0, <2>1, TailWire DEF Gate
  <2>4. Quiet
    BY <2>1, <2>2 DEF Gate, Settled, Quiet
  <2>5. ~Has(toPage, "done") /\ IsRunning /\ sends # 0
    BY <2>2 DEF Gate, Link
  <2> QED
    BY <2>1, <2>2, <2>3, <2>4, <2>5 DEF Gate, IsRunning
<1>5. CASE StopRead
  BY <1>5 DEF StopRead, HandlerStop
<1>6. CASE HandlerSilent
  <2>1. UNCHANGED <<toServer, toPage, pageStatus, sends, overlap>>
    BY <1>6 DEF HandlerSilent, HandlerStart, HandlerEcho, HandlerSpawn, HandlerReadError, HandlerReturn,
       wires, pageVars, historyVars
  <2>2. hpc' # "stopWrite" /\ (Settled => Settled')
    BY <1>6 DEF HandlerSilent, HandlerStart, HandlerEcho, HandlerSpawn, HandlerReadError, HandlerReturn,
       Settled, relayVars, runVars
  <2> QED
    BY <2>1, <2>2, GateKept
<1>7. CASE WritersCollideSilent
  BY <1>7 DEF WritersCollideSilent, WritersCollide, Gate
<1>8. CASE RelaySilent
  <2>1. UNCHANGED <<toServer, toPage, pageStatus, sends, overlap, hpc>>
    BY <1>8 DEF RelaySilent, RelayRecv, RelayPersist, RelayWriteError, wires, pageVars, historyVars, handlerVars
  <2>2. ~Settled
    BY <1>8 DEF RelaySilent, RelayRecv, RelayPersist, RelayWriteError, Settled
  <2> QED
    BY <2>1, <2>2, GateKept DEF Gate
<1>9. ASSUME NEW t \in Turns, RunProgress(t) PROVE Gate'
  <2>1. UNCHANGED <<toServer, toPage, pageStatus, sends, overlap, hpc>>
    BY <1>9 DEF RunProgress, RunStep, RunBegin, RunExit, RunEmit, wires, pageVars, historyVars, handlerVars
  <2>2. ~Settled
    BY <1>9 DEF RunProgress, RunStep, RunBegin, RunExit, RunEmit, Settled
  <2> QED
    BY <2>1, <2>2, GateKept DEF Gate
<1>10. CASE GetSession
  <2>1. UNCHANGED <<toServer, toPage, pageStatus, sends, overlap, hpc, run, events, rpc>>
    BY <1>10 DEF GetSession, vars, handlerVars, runVars, relayVars, historyVars, wires
  <2> QED
    BY <2>1, GateKept DEF Gate, Settled
<1> QED
  BY <1>1, <1>2, <1>3, <1>4, <1>5, <1>6, <1>7, <1>8, <1>9, <1>10 DEF Server

LEMMA GatePage ==
  ASSUME PageTypeOK, Link, ~reopened', Gate, Page
  PROVE  Gate'
<1>0. /\ toServer \in Seq({"message", "stop"}) /\ toPage \in Seq(PageFrame) /\ sends \in Nat
  BY ChatConnAssumption DEF PageTypeOK, PageFrame
<1>1. CASE WsOpen \/ WsLost \/ Refetch \/ RestFail
  <2>1. UNCHANGED <<toServer, toPage, pageStatus, sends, overlap, hpc, run, events, rpc>>
    BY <1>1 DEF WsOpen, WsLost, Refetch, RestFail, vars, handlerVars, runVars, relayVars, historyVars, wires
  <2> QED
    BY <2>1, GateKept DEF Gate, Settled
<1>2. CASE PageReceive
  <2>1. /\ toPage # <<>> /\ toPage' = Tail(toPage)
        /\ UNCHANGED <<toServer, sends, overlap, hpc, run, events, rpc>>
        /\ Head(toPage) = "content" => pageStatus' = pageStatus
        /\ Head(toPage) # "content" => pageStatus' = Head(toPage)
    BY <1>2 DEF PageReceive, vars, handlerVars, runVars, relayVars, historyVars
  <2>2. /\ Head(toPage) \in PageFrame /\ Has(toPage, Head(toPage))
        /\ \A y : Has(toPage', y) => Has(toPage, y)
        /\ Alone(toPage, "done") => Alone(toPage', "done")
        /\ Alone(toPage, Head(toPage)) => ~Has(toPage', Head(toPage))
    BY <1>0, <2>1, TailWire
  <2>3. Has(toServer, "message")' <=> Has(toServer, "message")
    BY <2>1 DEF Has
  <2>4. Alone(toServer, "message")' <=> Alone(toServer, "message")
    BY <2>1 DEF Alone
  <2>5. Settled' <=> Settled
    BY <2>1 DEF Settled
  <2>6. CASE Head(toPage) = "done"
    BY <2>1, <2>2, <2>3, <2>4, <2>5, <2>6 DEF Gate, IsRunning
  <2>7. CASE Head(toPage) \in {"running", "content"}
    BY <2>1, <2>2, <2>3, <2>4, <2>5, <2>7 DEF Gate, IsRunning
  <2>8. CASE Head(toPage) = "stopped"
    BY <2>2, <2>8 DEF Gate
  <2> QED
    BY <2>2, <2>6, <2>7, <2>8 DEF PageFrame
<1>3. CASE RestArrive
  <2>1. UNCHANGED <<toServer, toPage, sends, overlap, hpc, run, events, rpc>>
    BY <1>3 DEF RestArrive, vars, handlerVars, runVars, relayVars, historyVars, wires
  <2>2. CASE UNCHANGED pageStatus
    BY <2>1, <2>2, GateKept DEF Gate, Settled
  <2>3. CASE pageStatus' = rest.status /\ reopened' = (reopened \/ (sends > 0 /\ IsRunning /\ rest.status # "running"))
    <3>1. CASE sends = 0 \/ ~IsRunning
      <4>1. ~Has(toServer, "message") /\ ~Has(toPage, "done") /\ Settled
        BY <1>0, <3>1 DEF Gate, Link
      <4>2. Settled' /\ ~Has(toServer, "message")' /\ ~Has(toPage, "done")'
        BY <2>1, <4>1 DEF Settled, Has
      <4>3. ~Has(toPage, "stopped")' /\ Alone(toServer, "message")' /\ Alone(toPage, "done")'
        BY <2>1 DEF Gate, Has, Alone
      <4> QED
        BY <2>1, <4>2, <4>3 DEF Gate
    <3>2. CASE ~(sends = 0 \/ ~IsRunning)
      <4>1. sends > 0 /\ IsRunning
        BY <1>0, <3>2
      <4>2. rest.status = "running"
        BY <2>3, <4>1
      <4>3. pageStatus' = pageStatus
        BY <2>3, <4>1, <4>2 DEF IsRunning
      <4> QED
        BY <2>1, <4>3, GateKept DEF Gate, Settled
    <3> QED
      BY <3>1, <3>2
  <2> QED
    BY <1>3, <2>2, <2>3, Zenon DEF RestArrive, ApplyStatus, KeepStatus
<1>4. CASE PageSend
  <2>1. /\ ~IsRunning /\ pageStatus' = "running" /\ UNCHANGED <<toPage, overlap, hpc, run, events, rpc>>
        /\ \/ sends' = sends + 1 /\ toServer' = Append(toServer, "message")
           \/ sends' = sends /\ toServer' = toServer
    BY <1>4 DEF PageSend, ComposerEnabled, vars, handlerVars, runVars, relayVars, historyVars
  <2>2. ~Has(toServer, "message") /\ ~Has(toPage, "done") /\ Settled
    BY <2>1 DEF Gate
  <2>3. Settled' /\ ~Has(toPage, "done")' /\ ~Has(toPage, "stopped")' /\ Alone(toPage, "done")'
    BY <2>1, <2>2 DEF Settled, Gate, Has, Alone
  <2>4. Alone(toServer', "message")
    <3>1. CASE toServer' = toServer
      BY <3>1 DEF Gate, Alone
    <3>2. CASE toServer' = Append(toServer, "message")
      BY <1>0, <2>2, <3>2, AppendWire DEF Gate
    <3> QED
      BY <2>1, <3>1, <3>2
  <2> QED
    BY <2>1, <2>3, <2>4 DEF Gate, IsRunning
<1>5. CASE PageStop
  <2>1. /\ toServer' = Append(toServer, "stop")
        /\ UNCHANGED <<toPage, pageStatus, sends, overlap, hpc, run, events, rpc>>
    BY <1>5 DEF PageStop, vars, handlerVars, runVars, relayVars, historyVars
  <2>2. /\ Has(toServer', "message") <=> Has(toServer, "message")
        /\ Alone(toServer, "message") => Alone(toServer', "message")
    BY <1>0, <2>1, AppendWire
  <2>3. /\ Has(toPage, "done")' <=> Has(toPage, "done")
        /\ Has(toPage, "stopped")' <=> Has(toPage, "stopped")
        /\ Alone(toPage, "done")' <=> Alone(toPage, "done")
        /\ Settled' <=> Settled
    BY <2>1 DEF Has, Alone, Settled
  <2> QED
    BY <2>1, <2>2, <2>3 DEF Gate, IsRunning
<1> QED
  BY <1>1, <1>2, <1>3, <1>4, <1>5 DEF Page

\* Stops handled and snapshots that reopened the composer are remembered.
LEMMA GateMemory ==
  ASSUME BaseInv, [PageNext]_allVars
  PROVE  /\ stops' = 0 => stops = 0
         /\ ~reopened' => ~reopened
<1>0. stops \in Nat /\ stops' \in Nat
  BY BaseStep, ChatConnAssumption DEF BaseInv, ConnInv, RowInv, TypeInv, TypeOK
<1>1. stops' = 0 => stops = 0
  <2>1. [Next]_vars
    BY BaseStep
  <2>2. stops' = stops \/ stops' = stops + 1
    <3>1. CASE Handler
      BY <3>1 DEF Handler, HandlerStart, HandlerHello, HandlerMessage, HandlerEcho, HandlerSpawn, HandlerStop,
         HandlerStopWrite, WritersCollide, HandlerReadError, HandlerReturn
    <3>2. CASE \E t \in Turns : RunStep(t)
      BY <3>2 DEF RunStep, RunBegin, RunExit, RunEmit, handlerVars
    <3>3. CASE Relay
      BY <3>3 DEF Relay, RelayRecv, RelayPersist, RelayWrite, RelayWriteError, handlerVars
    <3>4. CASE PeerLeaves \/ UNCHANGED vars
      BY <3>4 DEF PeerLeaves, vars, handlerVars
    <3> QED
      BY <2>1, <3>1, <3>2, <3>3, <3>4 DEF Next
  <2> QED
    BY <1>0, <2>2
<1>2. reopened' = reopened \/ \E x : reopened' = (reopened \/ x)
  <2>1. CASE Server
    BY <2>1 DEF Server, HelloSent, StopSent, EventSent, MessageRead, StopRead, HandlerSilent,
       WritersCollideSilent, RelaySilent, RunProgress, GetSession, pageVars
  <2>2. CASE Page
    <3>1. CASE RestArrive
      BY <3>1, Zenon DEF RestArrive, ApplyStatus, KeepStatus
    <3>2. CASE WsOpen \/ WsLost \/ PageReceive \/ Refetch \/ RestFail \/ PageSend \/ PageStop
      BY <3>2 DEF WsOpen, WsLost, PageReceive, Refetch, RestFail, PageSend, PageStop
    <3> QED
      BY <2>2, <3>1, <3>2 DEF Page
  <2> QED
    BY <2>1, <2>2 DEF PageNext, allVars, pageVars
<1>3. reopened \in BOOLEAN
  BY DEF BaseInv, PageTypeOK
<1>4. ~reopened' => ~reopened
  BY <1>2, <1>3, Zenon
<1> QED
  BY <1>1, <1>4

LEMMA GateStep ==
  AnswerInv /\ SerialInv /\ BaseInv /\ GateInv /\ [PageNext]_allVars => GateInv'
<1> SUFFICES ASSUME AnswerInv, SerialInv, BaseInv, GateInv, [PageNext]_allVars,
                    ~HasPrompt, stops' = 0, ~reopened'
             PROVE  Gate'
  BY DEF GateInv
<1>1. Gate /\ PageTypeOK /\ Link
  BY GateMemory DEF GateInv, BaseInv
<1>2. CASE Server
  BY <1>1, <1>2, GateServer, ChatConnAssumption DEF AnswerInv, ConnInv, RowInv, TypeInv, TypeOK
<1>3. CASE Page
  BY <1>1, <1>3, GatePage
<1>4. CASE UNCHANGED allVars
  <2>1. UNCHANGED <<toServer, toPage, pageStatus, sends, overlap, hpc, run, events, rpc>>
    BY <1>4 DEF allVars, vars, handlerVars, runVars, relayVars, historyVars, wires, pageVars
  <2> QED
    BY <1>1, <2>1, GateKept DEF Gate, Settled
<1> QED
  BY <1>2, <1>3, <1>4 DEF PageNext

LEMMA GateInit == PageInit => GateInv
<1> SUFFICES ASSUME PageInit PROVE Gate
  BY DEF GateInv
<1>1. toServer = <<>> /\ toPage = <<>> /\ DOMAIN toServer = {} /\ DOMAIN toPage = {}
  BY EmptySeq DEF PageInit
<1>2. Settled
  BY DEF PageInit, Init, Settled
<1>3. /\ ~Has(toServer, "message") /\ ~Has(toPage, "done") /\ ~Has(toPage, "stopped")
      /\ Alone(toServer, "message") /\ Alone(toPage, "done")
  BY <1>1 DEF Has, Alone
<1>4. overlap = FALSE /\ hpc = "start"
  BY DEF PageInit, Init
<1> QED
  BY <1>2, <1>3, <1>4 DEF Gate

PageInv == BaseInv /\ AnswerInv /\ SerialInv /\ GateInv

LEMMA PageInvInit == PageInit => PageInv
BY BaseInit, AnswerInit, SerialInit, GateInit DEF PageInv, PageInit

LEMMA PageInvStep == PageInv /\ [PageNext]_allVars => PageInv'
BY BaseStep, AnswerStep, SerialStep, GateStep DEF PageInv

\* The composer's gate (ChatView.tsx:99-106) makes the page a serial client of
\* a promptless session, until the user presses Stop or a snapshot puts an end
\* to "running" while the page waits for an answer.
THEOREM GateIsSerial == PageSpec => []GateMakesSerial
<1>1. PageInv => GateMakesSerial
  BY DEF PageInv, GateInv, Gate, GateMakesSerial
<1> QED
  BY <1>1, PageInvInit, PageInvStep, PTL DEF PageSpec

\* What chat_ws.go:119 promises of every connection, and what holds only of
\* serial clients, holds of such a page: an answer is stored in the row that
\* was opened for it.
THEOREM PageAnswersFit ==
  PageSpec => [](~HasPrompt /\ stops = 0 /\ ~reopened => Attribution)
<1>1. PageInv => (~HasPrompt /\ stops = 0 /\ ~reopened => Attribution)
  BY DEF PageInv, GateInv, Gate, SerialInv, Attributed, Attribution
<1> QED
  BY <1>1, PageInvInit, PageInvStep, PTL DEF PageSpec

-----------------------------------------------------------------------------
\* The status.

\* A status put on the wire is the last said; content changes nothing.
LEMMA SaidAppend ==
  ASSUME toPage \in Seq(PageFrame), NEW x \in PageFrame, toPage' = Append(toPage, x),
         pageStatus' = pageStatus, overtaken' = overtaken
  PROVE  /\ x # "content" => Said(x)'
         /\ x = "content" => \A st \in DbStatus : Said(st) => Said(st)'
<1>1. /\ Len(toPage) \in Nat /\ DOMAIN toPage = 1..Len(toPage) /\ DOMAIN toPage' = 1..(Len(toPage) + 1)
      /\ toPage'[Len(toPage) + 1] = x /\ \A i \in DOMAIN toPage : toPage'[i] = toPage[i]
  BY AppendProperties, LenProperties
<1>2. /\ Len(toPage) + 1 \in DOMAIN toPage' /\ DOMAIN toPage \subseteq DOMAIN toPage'
      /\ \A j \in DOMAIN toPage' : j \in DOMAIN toPage \/ j = Len(toPage) + 1
      /\ \A j \in DOMAIN toPage' : ~(j > Len(toPage) + 1)
  BY <1>1
<1>3. Said(x)'
  BY <1>1, <1>2 DEF Said
<1>4. ASSUME NEW st \in DbStatus, Said(st), x = "content" PROVE Said(st)'
  <2>1. CASE \E i \in DOMAIN toPage : toPage[i] = st /\ \A j \in DOMAIN toPage : j > i => toPage[j] = "content"
    BY <1>1, <1>2, <1>4, <2>1 DEF Said
  <2>2. CASE (\A i \in DOMAIN toPage : toPage[i] = "content") /\ (overtaken \/ pageStatus = st)
    BY <1>1, <1>2, <1>4, <2>2 DEF Said
  <2> QED
    BY <1>4, <2>1, <2>2 DEF Said
<1> QED
  BY <1>3, <1>4

\* The page receives frames in the order they were put on the wire.
LEMMA SaidReceive ==
  ASSUME toPage \in Seq(PageFrame), PageReceive, NEW st \in DbStatus, Said(st)
  PROVE  Said(st)'
<1>1. /\ toPage # <<>> /\ toPage' = Tail(toPage)
      /\ Head(toPage) = "content" => pageStatus' = pageStatus /\ overtaken' = overtaken
      /\ Head(toPage) # "content" => pageStatus' = Head(toPage)
  BY DEF PageReceive
<1>2. /\ Head(toPage) = toPage[1] /\ 1 \in DOMAIN toPage
      /\ DOMAIN toPage = 1..Len(toPage) /\ Len(toPage) \in Nat
      /\ \A i \in DOMAIN toPage' : i + 1 \in DOMAIN toPage /\ toPage'[i] = toPage[i + 1]
      /\ \A i \in DOMAIN toPage : i = 1 \/ (i - 1 \in DOMAIN toPage' /\ toPage[i] = toPage'[i - 1])
  BY <1>1, TailWire, LenProperties
<1>3. DOMAIN toPage' \subseteq Nat /\ st # "content"
  <2>1. toPage' \in Seq(PageFrame)
    BY <1>1, TailWire
  <2> QED
    BY <2>1, LenProperties DEF DbStatus
<1>4. ASSUME NEW i \in DOMAIN toPage, toPage[i] = st, \A j \in DOMAIN toPage : j > i => toPage[j] = "content"
      PROVE  Said(st)'
  <2>1. \A j \in DOMAIN toPage' : j > i - 1 => toPage'[j] = "content"
    <3> SUFFICES ASSUME NEW j \in DOMAIN toPage', j > i - 1 PROVE toPage'[j] = "content"
      OBVIOUS
    <3>1. j + 1 \in DOMAIN toPage /\ j + 1 > i /\ toPage'[j] = toPage[j + 1]
      BY <1>2, <1>3
    <3> QED
      BY <1>4, <3>1
  <2>2. CASE i = 1
    <3>1. pageStatus' = st
      BY <1>1, <1>2, <1>3, <1>4, <2>2
    <3>2. \A j \in DOMAIN toPage' : toPage'[j] = "content"
      <4> SUFFICES ASSUME NEW j \in DOMAIN toPage' PROVE j > i - 1
        BY <2>1
      <4>1. j \in Nat /\ j + 1 \in 1..Len(toPage) /\ j + 1 # 1
        <5>1. toPage' \in Seq(PageFrame)
          BY <1>1, TailWire
        <5>2. DOMAIN toPage' = 1..Len(toPage')
          BY <5>1, LenProperties
        <5> QED
          BY <1>2, <5>2
      <4> QED
        BY <2>2, <4>1
    <3> QED
      BY <3>1, <3>2 DEF Said
  <2>3. CASE i # 1
    <3>1. i - 1 \in DOMAIN toPage' /\ toPage'[i - 1] = st
      BY <1>2, <1>4, <2>3
    <3> QED
      BY <2>1, <3>1 DEF Said
  <2> QED
    BY <2>2, <2>3
<1>5. ASSUME \A i \in DOMAIN toPage : toPage[i] = "content", overtaken \/ pageStatus = st
      PROVE  Said(st)'
  <2>1. (overtaken' \/ pageStatus' = st) /\ \A i \in DOMAIN toPage' : toPage'[i] = "content"
    BY <1>1, <1>2, <1>5
  <2> QED
    BY <2>1 DEF Said
<1> QED
  BY <1>4, <1>5 DEF Said

\* What is under way stays so while the channel only grows.
LEMMA UpcomingKept ==
  ASSUME Upcoming, Has(toServer, "message") => Has(toServer', "message"),
         hpc = "echo" /\ emitted[Echo(turn)] = 0 =>
           hpc' = "echo" /\ turn' = turn /\ emitted'[Echo(turn)] = emitted[Echo(turn)],
         \A i \in DOMAIN events : i \in DOMAIN events' /\ events'[i] = events[i],
         rpc = "persist" => rpc' = "persist" /\ ev' = ev
  PROVE  Upcoming'
BY DEF Upcoming, Echo

\* A push extends the channel.
LEMMA PushExtends ==
  ASSUME ConnInv, ConnInv', NEW s \in Source, NEW script, Push(s, script), rpc' = rpc, ev' = ev
  PROVE  /\ \A i \in DOMAIN events : i \in DOMAIN events' /\ events'[i] = events[i]
         /\ \E i \in DOMAIN events' : events'[i].type = script[emitted[s] + 1]
<1>1. /\ Len(events') = Len(events) + 1
      /\ \A i \in 1..Len(events) : events'[i] = events[i]
      /\ events'[Len(events) + 1].type = script[emitted[s] + 1]
  BY PushFlight
<1>2. events \in Seq(Event) /\ events' \in Seq(Event)
  BY DEF ConnInv, RowInv, TypeInv, TypeOK
<1>3. DOMAIN events = 1..Len(events) /\ DOMAIN events' = 1..(Len(events) + 1) /\ Len(events) \in Nat
  BY <1>1, <1>2, LenProperties
<1> QED
  BY <1>1, <1>3

\* Collisions and failed statements are remembered.
LEMMA StatusMemory ==
  ASSUME ConnInv, [Next]_vars, ~collided', faults' = 0
  PROVE  ~collided /\ faults = 0 /\ ~Fault
<1>0. faults \in Nat /\ ~Fault /\ collided \in BOOLEAN
  BY TypeFacts DEF Fault, ConnInv, RowInv, TypeInv, TypeOK
<1>1. faults = 0
  BY RowSteps
<1>2. ~collided
  <2>1. CASE Handler
    BY <1>0, <2>1 DEF Handler, HandlerStart, HandlerHello, HandlerMessage, HandlerEcho, HandlerSpawn, HandlerStop,
       HandlerStopWrite, WritersCollide, HandlerReadError, HandlerReturn, historyVars
  <2>2. CASE \E t \in Turns : RunStep(t)
    BY <2>2 DEF RunStep, RunBegin, RunExit, RunEmit, historyVars
  <2>3. CASE RelayPersist
    BY <1>0, <2>3 DEF RelayPersist, PersistStatus, PersistStart, PersistDone, PersistNothing
  <2>4. CASE RelayRecv \/ RelayWrite \/ RelayWriteError
    BY <2>4 DEF RelayRecv, RelayWrite, RelayWriteError, historyVars
  <2>5. CASE PeerLeaves \/ UNCHANGED vars
    BY <2>5 DEF PeerLeaves, vars, historyVars
  <2> QED
    BY <2>1, <2>2, <2>3, <2>4, <2>5 DEF Next, Relay
<1> QED
  BY <1>0, <1>1, <1>2

\* The handler's and the runs' steps.
LEMMA StatusHandler ==
  ASSUME BaseInv, BaseInv', StatusGoes, ws # "closed", ~collided', ~Fault,
         HelloSent \/ StopSent \/ MessageRead \/ StopRead \/ HandlerSilent \/ WritersCollideSilent
  PROVE  StatusGoes'
<1>0. /\ ConnInv /\ ConnInv' /\ Progress /\ peer = "up" /\ status \in DbStatus
      /\ toServer \in Seq({"message", "stop"}) /\ toPage \in Seq(PageFrame)
      /\ emitted \in [Source -> 0..4] /\ turn \in Turns /\ turn \in Nat /\ Echo(turn) \in Source
      /\ up /\ hpc \notin {"return", "closed"} /\ rpc # "exited"
  BY TypeFacts, SourceFacts DEF BaseInv, Link, ConnInv, RowInv, TypeInv, TypeOK, PageTypeOK, PageFrame, StatusGoes
<1>1. CASE HelloSent
  <2>1. turn' = 0 /\ stops' = 0 /\ up' = up /\ hpc' = "read" /\ rpc' = "recv"
    BY <1>1 DEF HelloSent, HandlerHello, BaseInv, Link
  <2> QED
    BY <1>0, <2>1 DEF StatusGoes
<1>2. CASE StopSent
  <2>1. /\ hpc = "stopWrite" /\ hpc' = "read" /\ UNCHANGED <<up, rpc, ev, status, pageStatus, overtaken>>
        /\ toPage' = Append(toPage, "stopped")
    BY <1>0, <1>2, AppendIsConcat DEF StopSent, HandlerStopWrite, ToPage, pageVars, relayVars, dbVars, PageFrame
  <2>2. status = "stopped" /\ ~RelayAnnounces
    BY <2>1 DEF StatusGoes
  <2>3. Said("stopped")'
    BY <1>0, <2>1, SaidAppend DEF PageFrame
  <2>4. Latest'
    BY <2>1, <2>2, <2>3 DEF Latest, RelayAnnounces, Said
  <2> QED
    BY <1>0, <2>1, <2>4 DEF StatusGoes
<1>3. CASE MessageRead
  <2>1. hpc' = "echo" /\ turn' = turn + 1 /\ UNCHANGED <<up, rpc, emitted>> /\ turn < MaxTurns
    BY <1>3 DEF MessageRead, HandlerMessage, relayVars
  <2>2. emitted[Echo(turn + 1)] = 0
    <3>1. turn + 1 \in Turns /\ turn + 1 > turn
      BY <1>0, <2>1, ChatConnAssumption DEF Turns
    <3> QED
      BY <1>0, <3>1 DEF Progress
  <2>3. Upcoming'
    BY <2>1, <2>2 DEF Upcoming, Echo
  <2> QED
    BY <1>0, <2>1, <2>3 DEF StatusGoes
<1>4. CASE StopRead
  <2>1. /\ hpc' = "stopWrite" /\ status' = "stopped" /\ ~RelayAnnounces /\ UNCHANGED <<up, rpc, ev>>
    BY <1>4, Zenon DEF StopRead, HandlerStop, StoreStatus, relayVars
  <2> QED
    BY <1>0, <2>1 DEF StatusGoes, Latest, RelayAnnounces
<1>5. CASE HandlerSilent
  <2>0. UNCHANGED <<toServer, toPage, pageStatus, overtaken>>
    BY <1>5 DEF HandlerSilent, wires, pageVars
  <2>1. CASE HandlerStart
    <3>1. turn' = 0 /\ stops' = 0 /\ up' = up /\ hpc' = "hello" /\ rpc' = rpc
      BY <2>1 DEF HandlerStart, BaseInv, Link, relayVars
    <3> QED
      BY <1>0, <3>1 DEF StatusGoes
  <2>2. CASE HandlerEcho
    <3>1. /\ hpc = "echo" /\ hpc' \in {"echo", "spawn"} /\ Push(Echo(turn), EchoScript)
          /\ UNCHANGED <<up, turn, stops, rpc, ev, status>>
      BY <2>2 DEF HandlerEcho, relayVars, dbVars
    <3>2. /\ \A i \in DOMAIN events : i \in DOMAIN events' /\ events'[i] = events[i]
          /\ \E i \in DOMAIN events' : events'[i].type = EchoScript[emitted[Echo(turn)] + 1]
      BY <1>0, <3>1, PushExtends
    <3>3. emitted[Echo(turn)] = 0 => Upcoming'
      BY <3>2 DEF Upcoming, EchoScript, StatusType
    <3>4. emitted[Echo(turn)] # 0 /\ Upcoming => Upcoming'
      BY <2>0, <3>1, <3>2, UpcomingKept
    <3>5. Latest => Latest'
      BY <2>0, <3>1 DEF Latest, RelayAnnounces, Said
    <3> QED
      BY <1>0, <3>1, <3>3, <3>4, <3>5 DEF StatusGoes
  <2>3. CASE HandlerSpawn
    <3>1. hpc = "spawn" /\ hpc' = "read" /\ UNCHANGED <<up, turn, stops, rpc, ev, events, emitted, status>>
      BY <2>3 DEF HandlerSpawn, relayVars, dbVars
    <3>2. Upcoming => Upcoming'
      BY <2>0, <3>1, UpcomingKept
    <3>3. Latest => Latest'
      BY <2>0, <3>1 DEF Latest, RelayAnnounces, Said
    <3> QED
      BY <1>0, <3>1, <3>2, <3>3 DEF StatusGoes
  <2>4. CASE HandlerReadError \/ HandlerReturn
    BY <1>0, <2>4 DEF HandlerReadError, HandlerReturn
  <2> QED
    BY <1>5, <2>1, <2>2, <2>3, <2>4 DEF HandlerSilent
<1>6. CASE WritersCollideSilent
  BY <1>6 DEF WritersCollideSilent, WritersCollide
<1> QED
  BY <1>1, <1>2, <1>3, <1>4, <1>5, <1>6

LEMMA StatusRun ==
  ASSUME BaseInv, BaseInv', StatusGoes, NEW t \in Turns, RunProgress(t)
  PROVE  StatusGoes'
<1>0. ConnInv /\ ConnInv' /\ emitted \in [Source -> 0..4] /\ turn \in Turns
  BY TypeFacts DEF BaseInv
<1>1. UNCHANGED <<toServer, toPage, pageStatus, overtaken, hpc, turn, stops, up, rpc, ev, status>>
  BY DEF RunProgress, RunStep, RunBegin, RunExit, RunEmit, wires, pageVars, handlerVars, relayVars, dbVars
<1>2. Upcoming => Upcoming'
  <2>1. CASE RunEmit(t)
    <3>1. PICK script : Push(Run(t), script)
      BY <2>1 DEF RunEmit
    <3>2. Run(t) \in Source /\ Echo(turn) \in Source /\ Run(t) # Echo(turn)
      BY <1>0, SourceFacts
    <3>3. emitted'[Echo(turn)] = emitted[Echo(turn)]
      BY <1>0, <3>1, <3>2 DEF Push
    <3>4. \A i \in DOMAIN events : i \in DOMAIN events' /\ events'[i] = events[i]
      BY <1>0, <1>1, <3>1, <3>2, PushExtends
    <3> QED
      BY <1>1, <3>3, <3>4, UpcomingKept
  <2>2. CASE RunBegin(t) \/ RunExit(t)
    <3>1. UNCHANGED <<events, emitted>>
      BY <2>2 DEF RunBegin, RunExit
    <3> QED
      BY <1>1, <3>1, UpcomingKept
  <2> QED
    BY <2>1, <2>2 DEF RunProgress, RunStep
<1>3. Latest => Latest'
  BY <1>1 DEF Latest, RelayAnnounces, Said
<1> QED
  BY <1>1, <1>2, <1>3 DEF StatusGoes, RelayAnnounces

\* The relay stores a status before it announces it.
LEMMA StatusRelay ==
  ASSUME BaseInv, StatusGoes, ws # "closed", ~collided', ~Fault, faults' = faults,
         EventSent \/ RelaySilent
  PROVE  StatusGoes'
<1>0. /\ ConnInv /\ peer = "up" /\ status \in DbStatus /\ toPage \in Seq(PageFrame)
      /\ up /\ hpc \notin {"return", "closed"} /\ rpc # "exited"
  BY DEF BaseInv, Link, ConnInv, RowInv, TypeInv, TypeOK, PageTypeOK, PageFrame, StatusGoes
<1>1. CASE EventSent
  <2>1. /\ rpc = "write" /\ rpc' = "recv" /\ ToPage(FrameOf(ev.type))
        /\ UNCHANGED <<up, hpc, turn, stops, emitted, events, status, toServer, pageStatus, overtaken>>
    BY <1>1 DEF EventSent, RelayWrite, handlerVars, dbVars, pageVars
  <2>2. Upcoming => Upcoming'
    BY <2>1, UpcomingKept
  <2>3. CASE ev.type \in StatusType
    <3>1. PICK st \in {"running", "done"} : st = StatusOf(ev) /\ FrameOf(ev.type) = <<st>>
      BY <2>3 DEF StatusOf, FrameOf, StatusType
    <3>2. toPage' = Append(toPage, st)
      BY <1>0, <2>1, <3>1, AppendIsConcat DEF ToPage, PageFrame
    <3>3. Said(st)'
      BY <1>0, <2>1, <3>2, SaidAppend DEF PageFrame
    <3>4. RelayAnnounces /\ hpc # "stopWrite"
      BY <2>1, <2>3 DEF RelayAnnounces, StatusGoes
    <3>5. Latest => Latest'
      BY <2>1, <3>1, <3>3, <3>4 DEF Latest, RelayAnnounces, Said
    <3> QED
      BY <1>0, <2>1, <2>2, <3>4, <3>5 DEF StatusGoes
  <2>4. CASE ev.type \notin StatusType
    <3>1. FrameOf(ev.type) = <<>> \/ FrameOf(ev.type) = <<"content">>
      BY <2>4 DEF FrameOf, StatusType
    <3>2. toPage' = toPage \/ toPage' = Append(toPage, "content")
      <4>1. FrameOf(ev.type) = <<>> => toPage' = toPage
        BY <1>0, <2>1, ConcatEmptySeq DEF ToPage
      <4>2. FrameOf(ev.type) = <<"content">> => toPage' = Append(toPage, "content")
        BY <1>0, <2>1, AppendIsConcat DEF ToPage, PageFrame
      <4> QED
        BY <3>1, <4>1, <4>2
    <3>3. Said(status) => Said(status)'
      <4>1. CASE toPage' = toPage
        BY <2>1, <4>1 DEF Said
      <4>2. CASE toPage' = Append(toPage, "content")
        <5>1. \A st \in DbStatus : Said(st) => Said(st)'
          BY <1>0, <2>1, <4>2, SaidAppend DEF PageFrame
        <5>2. PICK st \in DbStatus : st = status
          BY <1>0
        <5> QED
          BY <2>1, <5>1, <5>2 DEF Said
      <4> QED
        BY <3>2, <4>1, <4>2
    <3>4. Latest => Latest'
      BY <2>1, <2>4, <3>3 DEF Latest, RelayAnnounces
    <3> QED
      BY <1>0, <2>1, <2>2, <3>4 DEF StatusGoes, RelayAnnounces
  <2> QED
    BY <2>3, <2>4
<1>2. CASE RelaySilent
  <2>0. UNCHANGED <<up, hpc, turn, stops, emitted, toServer, toPage, pageStatus, overtaken>>
    BY <1>2 DEF RelaySilent, RelayRecv, RelayPersist, RelayWriteError, handlerVars, wires, pageVars
  <2>1. CASE RelayRecv
    <3>1. /\ rpc = "recv" /\ rpc' = "persist" /\ status' = status
          /\ events # <<>> /\ ev' = Head(events) /\ events' = Tail(events)
      BY <2>1 DEF RelayRecv, dbVars
    <3>2. events \in Seq(Event)
      BY <1>0, TypeFacts
    <3>3. \A i \in DOMAIN events : i = 1 \/ (i - 1 \in DOMAIN events' /\ events[i] = events'[i - 1])
      BY <3>1, <3>2, TailWire
    <3>4. Head(events) = events[1]
      BY <3>1, <3>2, TailWire
    <3>5. Upcoming => Upcoming'
      <4>1. ASSUME NEW i \in DOMAIN events, events[i].type \in StatusType PROVE Upcoming'
        <5>1. CASE i = 1
          BY <3>1, <3>4, <4>1, <5>1 DEF Upcoming
        <5>2. CASE i # 1
          BY <3>3, <4>1, <5>2 DEF Upcoming
        <5> QED
          BY <5>1, <5>2
      <4>2. ASSUME Has(toServer, "message") \/ (hpc = "echo" /\ emitted[Echo(turn)] = 0) PROVE Upcoming'
        BY <2>0, <4>2 DEF Upcoming, Has, Echo
      <4>3. Upcoming => \/ Has(toServer, "message") \/ (hpc = "echo" /\ emitted[Echo(turn)] = 0)
                        \/ \E i \in DOMAIN events : events[i].type \in StatusType
        BY <3>1 DEF Upcoming
      <4> QED
        BY <4>1, <4>2, <4>3
    <3>6. Latest => Latest'
      BY <2>0, <3>1 DEF Latest, RelayAnnounces, Said
    <3> QED
      BY <1>0, <2>0, <3>1, <3>5, <3>6 DEF StatusGoes, RelayAnnounces
  <2>2. CASE RelayPersist
    <3>1. rpc = "persist" /\ rpc' = "write" /\ UNCHANGED <<ev, events>>
      BY <2>2 DEF RelayPersist
    <3>2. CASE PersistStatus
      <4>1. ev.type \in StatusType /\ status' = StatusOf(ev) /\ hpc # "stopWrite"
        BY <3>2, Zenon DEF PersistStatus, StoreStatus, StatusOf
      <4>2. RelayAnnounces' /\ StatusOf(ev)' = StatusOf(ev)
        BY <3>1, <4>1 DEF RelayAnnounces, StatusOf
      <4>3. Latest'
        BY <4>1, <4>2 DEF Latest
      <4> QED
        BY <1>0, <2>0, <3>1, <4>1, <4>3 DEF StatusGoes
    <3>3. CASE ~PersistStatus
      <4>1. status' = status /\ ev.type \notin StatusType
        BY <2>2, <3>3 DEF RelayPersist, PersistStart, PersistDone, PersistNothing, dbVars, StatusType
      <4>2. Upcoming => Upcoming'
        BY <2>0, <3>1, <4>1 DEF Upcoming, Has, Echo
      <4>3. Latest => Latest'
        BY <2>0, <3>1, <4>1 DEF Latest, RelayAnnounces, Said
      <4> QED
        BY <1>0, <2>0, <3>1, <4>1, <4>2, <4>3 DEF StatusGoes, RelayAnnounces
    <3> QED
      BY <3>2, <3>3
  <2>3. CASE RelayWriteError
    BY <1>0, <2>3 DEF RelayWriteError
  <2> QED
    BY <1>2, <2>1, <2>2, <2>3 DEF RelaySilent
<1> QED
  BY <1>1, <1>2

\* The page's steps: a snapshot that is not overtaken shows the row's status,
\* unless another status is on its way.
LEMMA StatusPage ==
  ASSUME BaseInv, StatusGoes, Fresh, ws' # "closed", ~dropped', PageOnly
  PROVE  StatusGoes'
<1>0. /\ status \in DbStatus /\ toServer \in Seq({"message", "stop"}) /\ toPage \in Seq(PageFrame)
      /\ turn \in Nat /\ stops \in Nat /\ sends \in Nat /\ presses \in Nat /\ Link
  BY TypeFacts, ChatConnAssumption DEF BaseInv, ConnInv, RowInv, TypeInv, TypeOK, PageTypeOK, PageFrame
<1>1. UNCHANGED <<up, hpc, turn, stops, emitted, events, rpc, ev, status>>
  BY DEF PageOnly, GetSession, Refetch, WsOpen, PageReceive, RestArrive, RestFail, PageSend, PageStop,
     vars, handlerVars, relayVars, dbVars
<1>2. CASE GetSession \/ Refetch \/ WsOpen \/ RestFail
  <2>1. UNCHANGED <<toServer, toPage, pageStatus, overtaken>>
    BY <1>2 DEF GetSession, Refetch, WsOpen, RestFail, wires
  <2> QED
    BY <1>1, <2>1 DEF StatusGoes, Upcoming, Latest, RelayAnnounces, Said, Has, Echo
<1>3. CASE PageReceive
  <2>1. toServer' = toServer
    BY <1>3 DEF PageReceive
  <2>2. Said(status) => Said(status)'
    <3>1. PICK st \in DbStatus : st = status
      BY <1>0
    <3>2. Said(st) => Said(st)'
      BY <1>0, <1>3, SaidReceive
    <3> QED
      BY <1>1, <3>1, <3>2 DEF Said
  <2>3. Upcoming => Upcoming'
    BY <1>1, <2>1, UpcomingKept
  <2>4. Latest => Latest'
    BY <1>1, <2>2 DEF Latest, RelayAnnounces
  <2> QED
    BY <1>1, <2>3, <2>4 DEF StatusGoes, RelayAnnounces
<1>4. CASE RestArrive
  <2>1. UNCHANGED <<toServer, toPage>>
    BY <1>4 DEF RestArrive, wires
  <2>2. Upcoming => Upcoming'
    BY <1>1, <2>1, UpcomingKept
  <2>3. CASE UNCHANGED <<pageStatus, overtaken>>
    BY <1>1, <2>1, <2>2, <2>3 DEF StatusGoes, Latest, RelayAnnounces, Said
  <2>4. CASE pageStatus' = rest.status /\ overtaken' = (rest.old /\ rest.status # status)
    <3>1. ASSUME hpc # "stopWrite", ~RelayAnnounces, Said(status) PROVE Said(status)'
      <4>1. CASE \E i \in DOMAIN toPage : toPage[i] = status /\ \A j \in DOMAIN toPage : j > i => toPage[j] = "content"
        BY <1>1, <2>1, <4>1 DEF Said
      <4>2. CASE \A i \in DOMAIN toPage : toPage[i] = "content"
        <5>1. rest.step = "answered"
          BY <1>4 DEF RestArrive
        <5>2. rest.old \/ rest.status = status
          BY <3>1, <4>2, <5>1 DEF Fresh
        <5>3. overtaken' \/ pageStatus' = status
          BY <2>4, <5>2
        <5> QED
          BY <1>1, <2>1, <4>2, <5>3 DEF Said
      <4> QED
        BY <3>1, <4>1, <4>2 DEF Said
    <3>2. Latest => Latest'
      BY <1>1, <3>1 DEF Latest, RelayAnnounces
    <3> QED
      BY <1>1, <2>2, <3>2 DEF StatusGoes, RelayAnnounces
  <2> QED
    BY <1>4, <2>3, <2>4, Zenon DEF RestArrive, ApplyStatus, KeepStatus
<1>5. CASE PageSend
  <2>1. toServer' = Append(toServer, "message")
    BY <1>5 DEF PageSend
  <2>2. Upcoming'
    BY <1>0, <2>1, AppendWire DEF Upcoming
  <2> QED
    BY <1>1, <2>2 DEF StatusGoes, RelayAnnounces
<1>6. CASE PageStop
  <2>1. toServer' = Append(toServer, "stop") /\ UNCHANGED <<toPage, pageStatus, overtaken>>
    BY <1>6 DEF PageStop
  <2>2. Has(toServer, "message") => Has(toServer', "message")
    BY <1>0, <2>1, AppendWire
  <2>3. Upcoming => Upcoming'
    BY <1>1, <2>2, UpcomingKept
  <2>4. Latest => Latest'
    BY <1>1, <2>1 DEF Latest, RelayAnnounces, Said
  <2> QED
    BY <1>1, <2>3, <2>4 DEF StatusGoes, RelayAnnounces
<1> QED
  BY <1>2, <1>3, <1>4, <1>5, <1>6 DEF PageOnly

\* What makes an answer under way differ from the row is announced to the page.
LEMMA FreshStep ==
  ASSUME BaseInv, StatusGoes, Fresh, ws' # "closed", peer = "up", ~collided', [PageNext]_allVars
  PROVE  Fresh'
<1>0. toPage \in Seq(PageFrame)
  BY DEF BaseInv, PageTypeOK, PageFrame
<1> DEFINE Coming == \E i \in DOMAIN toPage : toPage[i] # "content"
<1>1. CASE HelloSent \/ StopSent
  <2>1. PICK x \in PageFrame : x # "content" /\ toPage' = Append(toPage, x)
    BY <1>0, <1>1, AppendIsConcat DEF HelloSent, StopSent, ToPage, PageFrame
  <2>2. Has(toPage', x)
    BY <1>0, <2>1, AppendWire
  <2> QED
    BY <2>1, <2>2 DEF Fresh, Has
<1>2. CASE EventSent
  <2>1. UNCHANGED <<rest, status, hpc>> /\ rpc = "write"
    BY <1>2 DEF EventSent, RelayWrite, pageVars, queryVars, dbVars, handlerVars
  <2>2. CASE RelayAnnounces
    <3>1. PICK st \in {"running", "done"} : FrameOf(ev.type) = <<st>>
      BY <2>2 DEF RelayAnnounces, FrameOf, StatusType
    <3>2. toPage' = Append(toPage, st)
      BY <1>0, <1>2, <3>1, AppendIsConcat DEF EventSent, ToPage, PageFrame
    <3>3. Has(toPage', st)
      BY <1>0, <3>2, AppendWire DEF PageFrame
    <3> QED
      BY <3>3 DEF Fresh, Has
  <2>3. CASE ~RelayAnnounces
    <3>1. Coming => Coming'
      <4>1. toPage' = toPage \/ \E x \in PageFrame : toPage' = Append(toPage, x)
        BY <1>2, ServerFrames DEF BaseInv, Server
      <4>2. \A y : Has(toPage, y) => Has(toPage', y)
        <5>1. ASSUME NEW x \in PageFrame, toPage' = Append(toPage, x)
              PROVE  \A y : Has(toPage, y) => Has(toPage', y)
          BY <1>0, <5>1, AppendWire
        <5> QED
          BY <4>1, <5>1 DEF Has
      <4> QED
        BY <4>2 DEF Has
    <3> QED
      BY <2>1, <2>3, <3>1 DEF Fresh
  <2> QED
    BY <2>2, <2>3
<1>3. CASE MessageRead
  BY <1>3 DEF MessageRead, HandlerMessage, pageVars, queryVars, relayVars, Fresh, RelayAnnounces
<1>4. CASE StopRead
  BY <1>4 DEF StopRead, HandlerStop, Fresh
<1>5. CASE HandlerSilent \/ WritersCollideSilent
  <2>1. UNCHANGED <<rest, toPage>>
    BY <1>5 DEF HandlerSilent, WritersCollideSilent, wires, pageVars, queryVars
  <2>2. CASE HandlerStart \/ HandlerEcho \/ HandlerSpawn \/ HandlerReturn
    BY <2>1, <2>2 DEF HandlerStart, HandlerEcho, HandlerSpawn, HandlerReturn, dbVars, relayVars, Fresh, RelayAnnounces
  <2>3. CASE HandlerReadError
    BY <2>3 DEF HandlerReadError
  <2> QED
    BY <1>5, <2>2, <2>3 DEF HandlerSilent, WritersCollideSilent, WritersCollide
<1>6. CASE RelaySilent
  <2>1. UNCHANGED <<rest, toPage, hpc>>
    BY <1>6 DEF RelaySilent, RelayRecv, RelayPersist, RelayWriteError, wires, pageVars, queryVars, handlerVars
  <2>2. CASE RelayRecv
    BY <2>1, <2>2 DEF RelayRecv, dbVars, Fresh, RelayAnnounces
  <2>3. CASE RelayPersist
    <3>1. CASE PersistStatus
      BY <2>3, <3>1 DEF RelayPersist, PersistStatus, Fresh, RelayAnnounces
    <3>2. CASE ~PersistStatus
      <4>1. status' = status /\ rpc = "persist"
        BY <2>3, <3>2 DEF RelayPersist, PersistStart, PersistDone, PersistNothing, dbVars
      <4> QED
        BY <2>1, <4>1 DEF Fresh, RelayAnnounces
    <3> QED
      BY <3>1, <3>2
  <2>4. CASE RelayWriteError
    BY <2>4 DEF RelayWriteError, BaseInv, StatusGoes
  <2> QED
    BY <1>6, <2>2, <2>3, <2>4 DEF RelaySilent
<1>7. CASE \E t \in Turns : RunProgress(t)
  BY <1>7 DEF RunProgress, RunStep, RunBegin, RunExit, RunEmit, wires, pageVars, queryVars, handlerVars,
     relayVars, dbVars, Fresh, RelayAnnounces
<1>8. CASE GetSession
  BY <1>8 DEF GetSession, Answered, vars, dbVars, Fresh
<1>9. CASE PageReceive
  <2>1. UNCHANGED <<status, hpc, rpc, ev>> /\ toPage # <<>> /\ toPage' = Tail(toPage)
    BY <1>9 DEF PageReceive, vars, dbVars, handlerVars, relayVars
  <2>2. CASE Head(toPage) = "content"
    <3>1. \A y : Has(toPage, y) => y = "content" \/ Has(toPage', y)
      BY <1>0, <2>1, <2>2, TailWire
    <3>2. Coming => Coming'
      BY <3>1 DEF Has
    <3>3. rest' = rest
      BY <1>9, <2>2 DEF PageReceive
    <3> QED
      BY <2>1, <3>2, <3>3 DEF Fresh, RelayAnnounces
  <2>3. CASE Head(toPage) # "content"
    <3>1. rest' = [rest EXCEPT !.old = (rest.step = "answered")] /\ rest \in Request
      BY <1>9, <2>3 DEF PageReceive, BaseInv, PageTypeOK
    <3>2. rest'.step = rest.step /\ rest'.old = (rest.step = "answered")
      BY <3>1 DEF Request
    <3> QED
      BY <3>2 DEF Fresh
  <2> QED
    BY <2>2, <2>3
<1>10. CASE Refetch \/ RestArrive \/ RestFail
  BY <1>10 DEF Refetch, RestArrive, RestFail, Asked, NoRequest, Fresh
<1>11. CASE WsOpen \/ PageSend \/ PageStop
  BY <1>11 DEF WsOpen, PageSend, PageStop, vars, dbVars, handlerVars, relayVars, queryVars, wires, Fresh, RelayAnnounces
<1>12. CASE WsLost
  BY <1>12 DEF WsLost
<1>13. CASE UNCHANGED allVars
  BY <1>13 DEF allVars, vars, dbVars, handlerVars, relayVars, pageVars, queryVars, wires, Fresh, RelayAnnounces
<1> QED
  BY <1>1, <1>2, <1>3, <1>4, <1>5, <1>6, <1>7, <1>8, <1>9, <1>10, <1>11, <1>12, <1>13 DEF PageNext, Server, Page

LEMMA StatusStep == BaseInv /\ StatusInv /\ [PageNext]_allVars => StatusInv'
<1> SUFFICES ASSUME BaseInv, StatusInv, [PageNext]_allVars,
                    ws' # "closed", ~collided', faults' = 0, ~dropped'
             PROVE  StatusGoes' /\ Fresh'
  BY DEF StatusInv
<1>0. BaseInv' /\ [Next]_vars /\ ConnInv /\ dropped \in BOOLEAN
  BY BaseStep DEF BaseInv, PageTypeOK
<1>1. ~collided /\ faults = 0 /\ ~Fault
  BY <1>0, StatusMemory
<1>2. ws # "closed" /\ ~dropped
  <2>1. CASE Server
    <3>1. UNCHANGED <<ws, dropped>>
      BY <2>1 DEF Server, HelloSent, StopSent, EventSent, MessageRead, StopRead, HandlerSilent,
         WritersCollideSilent, RelaySilent, RunProgress, GetSession, pageVars
    <3> QED
      BY <3>1
  <2>2. CASE Page
    BY <1>0, <2>2 DEF Page, WsOpen, WsLost, PageReceive, Refetch, RestArrive, RestFail, PageSend, PageStop
  <2> QED
    BY <2>1, <2>2 DEF PageNext, allVars, pageVars
<1>3. StatusGoes /\ Fresh
  BY <1>1, <1>2 DEF StatusInv
<1>10. Fresh'
  BY <1>2, <1>3, FreshStep DEF BaseInv, Link
<1>4. CASE HelloSent \/ StopSent \/ MessageRead \/ StopRead \/ HandlerSilent \/ WritersCollideSilent
  BY <1>0, <1>1, <1>2, <1>3, <1>4, <1>10, StatusHandler
<1>5. CASE EventSent \/ RelaySilent
  BY <1>1, <1>2, <1>3, <1>5, <1>10, StatusRelay
<1>6. CASE \E t \in Turns : RunProgress(t)
  BY <1>0, <1>3, <1>6, <1>10, StatusRun
<1>7. CASE PageOnly
  BY <1>3, <1>7, <1>10, StatusPage
<1>8. CASE WsLost
  BY <1>8 DEF WsLost
<1>9. CASE UNCHANGED allVars
  BY <1>3, <1>9, <1>10 DEF allVars, vars, handlerVars, relayVars, dbVars, wires, pageVars, StatusGoes, Upcoming,
     Latest, RelayAnnounces, Said, Has, Echo, StatusOf
<1> QED
  BY <1>4, <1>5, <1>6, <1>7, <1>8, <1>9, <1>10 DEF PageNext, Server, Page, PageOnly

LEMMA StatusInit == PageInit => StatusInv
<1> SUFFICES ASSUME PageInit PROVE StatusGoes /\ Fresh
  BY DEF StatusInv
<1>1. StatusGoes
  BY DEF PageInit, Init, StatusGoes, RelayAnnounces
<1>2. Fresh
  BY DEF PageInit, NoRequest, Asked, Answered, Fresh
<1> QED
  BY <1>1, <1>2

\* Once everything has settled the page shows the status of the session row
\* (chat_ws.go:134-140 stores before it writes; ChatView.tsx:24-27, 60-75),
\* unless the writers raced, a message was dropped, a statement failed or the
\* status shown is that of a snapshot the frames had overtaken, however many
\* snapshots are asked for and whatever the cache held.
THEOREM PageStatusDoesAgree == PageSpec => []PageStatusAgrees
<1>1. StatusInv => PageStatusAgrees
  <2> SUFFICES ASSUME StatusInv, Quiet, wires = <<<<>>, <<>>>>, ws = "open", ~collided, ~dropped,
                      ~overtaken, faults = 0, turn > 0 \/ stops > 0
               PROVE  pageStatus = status
    BY DEF PageStatusAgrees
  <2>1. toServer = <<>> /\ toPage = <<>> /\ events = <<>> /\ hpc = "read" /\ rpc = "recv"
    BY DEF wires, Quiet
  <2>2. DOMAIN toServer = {} /\ DOMAIN toPage = {} /\ DOMAIN events = {}
    BY <2>1, EmptySeq
  <2>3. ~Upcoming
    BY <2>1, <2>2 DEF Upcoming, Has
  <2>4. Latest
    BY <2>3 DEF StatusInv, StatusGoes
  <2>5. Said(status)
    BY <2>1, <2>4 DEF Latest, RelayAnnounces
  <2> QED
    BY <2>2, <2>5 DEF Said
<1> QED
  BY <1>1, BaseInit, BaseStep, StatusInit, StatusStep, PTL DEF PageSpec

-----------------------------------------------------------------------------
\* What a reader of the history sees of such a page.

PageTranscriptSpec ==
  Transcript!Init
    /\ [][Transcript!Next \/ HasPrompt \/ stops' > 0 \/ reopened' \/ faults' > 0]_(Transcript!vars)

\* The page with a promptless session writes a transcript, one question and
\* one answer at a time, until the user presses Stop, a snapshot reopens the
\* composer too early or a statement fails: messages need not be assumed not to
\* overlap, the composer sees to it.
THEOREM PageImplementsTranscript == PageSpec => PageTranscriptSpec
<1>1. PageInit => Transcript!Init /\ ReaderInv
  BY ReaderInit, TranscriptInit DEF PageInit
<1>2. ReaderInv /\ PageInv /\ [PageNext]_allVars => ReaderInv' /\ PageInv'
  BY BaseStep, ReaderStep, PageInvStep DEF PageInv
<1>3. ReaderInv /\ PageInv /\ [PageNext]_allVars =>
        [Transcript!Next \/ HasPrompt \/ stops' > 0 \/ reopened' \/ faults' > 0]_(Transcript!vars)
  <2> SUFFICES ASSUME ReaderInv, PageInv, [PageNext]_allVars, ~HasPrompt, ~(stops' > 0), ~reopened', ~(faults' > 0)
               PROVE  Transcript!Next \/ UNCHANGED Transcript!vars
    OBVIOUS
  <2>1. PageInv' /\ [Next]_vars
    BY PageInvStep, BaseStep DEF PageInv
  <2>2. stops' = 0
    <3>1. stops' \in Nat
      BY <2>1, ChatConnAssumption DEF PageInv, BaseInv, ConnInv, RowInv, TypeInv, TypeOK
    <3> QED
      BY <3>1
  <2>3. ~overlap'
    BY <2>1, <2>2 DEF PageInv, GateInv, Gate
  <2> QED
    BY <2>1, <2>3, StepRefines
<1> QED
  BY <1>1, <1>2, <1>3, PageInvInit, PTL DEF PageSpec, PageTranscriptSpec

=============================================================================
