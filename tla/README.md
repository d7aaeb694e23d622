# Bridge: verification models

Bridge is a Go server and a React page that give a browser access to tmux
terminals and to chats with two command line assistants (`codex` and
`commandcode`). This directory holds TLA+ models of its concurrent core, the
TLC configurations that check them on small instances, and proofs checked by
TLAPS of results that hold for every value of the constants. Paths below are
relative to the repository.

## 1. The system

| Part | State | Operations | Talks to |
|---|---|---|---|
| Chat connection (`internal/api/chat_ws.go`) | one WebSocket; the context; `currentMsgID` in the relay | start-up, read loop (`message`, `stop`), relay of adapter events, return | adapter channel, database, page |
| CLI adapters (`internal/chat/*_adapter.go`) | a channel of 64 events; message ids | `Start`, `SendMessage`, one goroutine per prompt, `Stop` | CLI process, relay |
| Chat session store (`internal/db/chat_store.go`, `internal/api/chat_handler.go`) | `chat_sessions`, `chat_messages` in SQLite, one connection in the pool | create, list, get, post, stop, attach by terminal name, statements of the relay and the handler | every chat connection, the page |
| Chat page (`ChatView.tsx`, `useChatWebSocket.ts`) | `status`, streams, the socket, the query's cached answer and its request | send, stop, frame reducer, snapshot effect, refetch | chat connection, `ChatHandler.Get` |
| Login session (`internal/api/auth_handler.go`, `internal/auth`, `api/client.ts`, `auth-context.tsx`, `LoginForm.tsx`) | two cookies, token expiry, page status | login, check, refresh and retry, logout | every API call |
| Terminal bridge (`internal/api/ws_handler.go`, `internal/tmux/slave.go`, `TerminalView.tsx`, `useTmuxWebSocket.ts`) | a pseudo-terminal, a socket, two loops | keys, output, resize, close | a tmux client |
| tmux sessions (`internal/tmux/cli.go`, `internal/api/session_handler.go`, `components/session/*`, the two session routes) | tmux itself; the polled list; the route; the creation form | list, create, delete, rename, attach | tmux, terminal bridge |
| Output parser (`internal/chat/parser.go`) | state, block and message being read, ids | feed, flush, reset | no adapter calls it; its events are those the page's reducer handles |
| Server lifecycle (`internal/server`, `cmd`) | listener | configuration, static files, shutdown | ends connections, leaves the database |
| Users, passwords, origin check, thinking block store, layout | rows or nothing | single statements, pure functions, presentation | |

What is hard here is concurrency between goroutines that share a connection, a
row and a channel (chat connection, terminal bridge), between requests that
share cookies (login session), between connections that share a session's rows (chat
session store), and between answers of different ages that drive one page (chat
page, tmux sessions). Failure is mostly handled by
ignoring it: SQL errors are dropped, a failing tmux is an empty list, a lost
socket is not replaced. Nothing has timeouts of its own.

What makes each part correct:

- **Chat connection**: an answer is stored in its own row, before the page is
  told of its end; a stored answer never changes; row and page agree on the
  status; every accepted turn is answered; a connection that closes takes its
  goroutines with it.
- **Chat page**: the composer's gate never lets two turns overlap, and it opens
  again after every answer.
- **Chat session store**: connections of one session do not complete each
  other's rows, work under one terminal name, and a status left behind by a
  connection, a stop or a crash has a known reason.
- **Output parser**: text neither vanishes from the page nor appears twice, and
  the page's open card shows the lines of the parser's block.
- **Login session**: the automatic retry never runs a handler twice, rescues
  what it can, and a logout is final.
- **Terminal bridge**: input that is not a size and output keep order, nothing is
  lost or doubled, the size settles to the one asked for last, and nothing
  survives the page.
- **tmux sessions**: the page's list and terminal settle to what tmux has, a
  terminal in use is not torn down, and attaching creates no session but what a
  URL makes of a name there is.

`PROJECT.json` lists the hazards of the code at their lines, each with the
properties that would catch it or the reason none does yet.

## 2. The modules

| Module | Models | Definitions to read first |
|---|---|---|
| `ChatConn` | handler, relay, runs and peer of one chat WebSocket | `Handler`, `Relay`, `RunStep`, `WritersCollide` |
| `ChatTranscript` | abstract: what a reader of the history is promised | `Ask`, `Begin`, `Finish` |
| `ChatPage` | the page composed with `ChatConn` and the REST snapshots | `Server`, `Page`, `RestArrive` |
| `ChatSessions` | several connections of stored sessions, REST requests, shutdown, crash, restart | `Handler`, `Relay`, `Down` |
| `SessionRows` | abstract: what the stored history of sessions promises, whoever writes it | `Ask`, `Post`, `Begin`, `Finish`, `Lose` |
| `ChatParser` | the line parser feeding the page's streams and cards | `NormalLine`, `ToolLine`, `Reset` |
| `AuthSession` | cookies, refresh and retry, check, login, logout | `Continue`, `Serve` |
| `TermBridge` | one terminal end to end | `Handler`, `Reader`, `Page` |
| `TmuxSessions` | tmux, the polled list, the session page, the form | `Render`, `ServeTerminal`, `List` |
| `MC*` | instances for TLC; `MCChatConn` also holds the refinement mapping to `ChatTranscript` | |
| `*Proofs` | theorems, section 4; `ChatAnswersProofs` continues `ChatConnProofs`, `ChatPageProofs` continues both | |

Operators named "Mutant" are faulty variants of a definition, kept next to it:
substituting one for the definition must break the property `PROJECT.json`
pairs it with, which shows that the property looks at that code.

### ChatConn

One step is one channel operation, one SQL statement or one socket write: the
points where goroutines can interleave. The handler's program counter `hpc`
follows `ServeChatWS` (`start`, `hello`, `read`, then `echo`/`spawn` inside
`SendMessage`, `stopWrite` between the two halves of a stop, `return`); the
relay's `rpc` goes from receiving to storing to writing; `run[t]` follows the
goroutine that answers turn `t` (turn 0 is the initial prompt). Events carry
their source and their number in the source's script, so texts are not
needed: a row's `text` is the source of the event that completed it. An answer
of several lines is one delta. A statement may fail, at most `MaxFaults`
times, and its error is ignored as in the code. `WritersCollide` is the case
of two goroutines inside `WriteJSON`, which the WebSocket library forbids: the
outcomes it can have are alternatives. `overlap` remembers whether a message was
taken while an earlier one was still being answered: the properties about
attribution are promised only until then.

`ChatTranscript` counts messages and gives each turn an answer that is `none`,
`open` or `done`. The mapping (`MCChatConn`) reads both off `chat_messages`, as
`ListChatMessages` returns them: a row completed with another source's text maps
to no answer, so a wrong attribution is a step the transcript does not have.

`ChatPage` adds the browser: the socket as two queues, the reducer, the
composer's gate, the Stop button and the query. Its server steps are the actions
of `ChatConn` conjoined with what they do to the wires.

The query is react-query's (`main.tsx:8`). A visit starts with the answer of an
earlier visit (`data`, any of `Cached`) or without one; it makes a request, joins
one an earlier visit left under way, or makes none because the answer is fresh or
the browser offline; and it asks again on a reconnect (`Refetch`). A request reads
the session row at one moment (`GetSession`) and is applied at a later one
(`RestArrive`), where it overwrites the status (`ApplyStatus`) unless the answer
equals the cached one, in which case the query keeps the old object and the effect
does not run (`KeepStatus`). With an answer in the cache the page is not loading,
so the composer is there from the start. `rest.old` is history: the page has had a
status frame since the row was read; `overtaken` and `reopened` record what a
snapshot did to the status shown. Of a snapshot only the status is kept: the
messages, read by a second statement, reach the timeline, which no gate looks at.
A retried attempt changes nothing until it reads the row, so it is not a step.

### ChatSessions

What `ChatConn` keeps of one connection is reduced here to what other
connections can notice through the database: the row read before the upgrade
(`ReadRow`), the adapter's name and whether it is stored (`Start`, `StoreName`),
the statements of relay and handler, and the events still to be relayed per
source (`todo`). The channel merges sources in any order. `Shutdown` stops new
requests and leaves hijacked WebSockets alone; `Down` ends the process, after it
or by a crash, wherever every goroutine is; `Restart` changes no row, as `Open`
and `Migrate` do. Any INSERT or UPDATE may fail (`Fault`); the
code drops the error each time and goes on: the relay forgets its open row
although it is not completed (`Complete`), a connection serves under a name it did
not store (`StoreName`), a status stays what it was (`Store`). `last`, `raced`,
`unnamed` and `unfinished` are history: why a session says `running`, whether two
connections read an empty name, and which connections and rows a failing UPDATE
left behind. `MaxTroubles` bounds the server's ends and the failures together.

`SessionRows` is the history those rows are to form, without events, relays or a
server: questions are asked over a connection or posted over REST, an answer is
begun, and finished once, by its own writer and before that writer begins
another, and a writer that is gone leaves what it has. The mapping (`History`, in
`ChatSessions`) is direct: the rows are the rows, and a writer is gone when its
relay has exited.

### ChatParser

A line is its class, as `processNormalLine` and `detectTool` tell lines apart,
and its number; contents are sequences of line numbers and newlines, so that loss
and repetition show. The parser keeps a newline after every line of a block and
between the lines of a message; the deltas it sends have none (`This`,
`ThisLine`, `Parted`). What the page has appended is therefore the kept lines run
together, until the event that ends a message or a block replaces it by the kept
content. One action per kind of line and state. The page's part is the reducer of
`ChatView.tsx`: a `message_start` empties a stream, a delta is appended, a
`message_done` replaces the stream unless it is empty; cards are opened,
extended and ended. `Flush` may come at any point, also within a line.

### AuthSession

A call is sent with the cookies of that moment (`Fetch`), served at any later
time and returns at any later time, when its `Set-Cookie` takes effect.
`stage[r]` follows `request()` in `client.ts`: first attempt, refresh, retry.
Access tokens are numbered as they are issued and expire in that order, which
is all the code lets one tell apart, since all live equally long. A
login's answer has two steps: its headers set the cookies (`LoginReturns`), its
body signs the page in or cannot be read (`LoginBody`). The check at start-up may
be answered with an error behind the middleware, when the user's row cannot be
read, and the page then asks for a password although its cookie is good.

### TermBridge

The two loops of `ServeSessionWS`, the deferred closes, the pseudo-terminal
with a bounded buffer each way, the client process and the page's socket,
input and fits. Keys and chunks are numbered; the buffers hold one each. The
handler tells frames apart by their content alone: `Size(s)` is whatever parses as
a size of non-zero columns and rows, a fit's frame or pasted text (`PasteSize`),
and `Key(n)` the n-th input that does not. `asked` is history: the last size the
server was asked for, by either.

### TmuxSessions

tmux is a set of names changed by the shell or the REST handlers (`Make`,
`End`, `Rename`), by the form and by attaching. `list` is the page's query
data, `view` the route, and `Shown` what `SessionDetailComponent` makes of
them; whenever that changes, `Render` closes the old socket and opens another.
The hook puts the session's name into the socket's URL as it is, and the server
reads it out of the path or of `?name=`. The constant `Heard` says which session is
asked for with which name, or none when the request is refused: a `?` or `#` cuts
the name, `%` is decoded, a slash finds no route. It is any function, so the
theorems cover every such URL; `MCHeard` has a name that is cut and one that is
refused. `Leave` is a client that leaves a session that lives on (`C-b d`,
`attach -d`, `switch-client`): it ends, and the reader goroutine with it, or it shows
another session; the socket stays open, and the page opens no other.

## 3. The runs

| Run | Question | Bounds |
|---|---|---|
| `conn_safety` | Is what the relay stores and writes consistent with what the runs produce, and the history a transcript, when turns overlap, a statement fails and a stop comes at any time? | codex, no prompt, 2 turns, 1 stop, 1 failing statement, channel of 2 |
| `conn_attribution` | Is an answer stored in its own row without the serial proviso? **No** | commandcode with prompt, 2 turns |
| `page_safety` | Does the composer's gate make the page serial, and does its status settle to the stored one, whatever snapshots arrive? | codex, no prompt, channel of 1, any cached answer, 2 of: messages, 1 stop, 1 further request |
| `page_live` | Is every message the socket took answered, does the composer return, and does everything end when the page leaves? | codex, no prompt, 1 message, 1 stop, 1 further request, 2 of these, channel of 1 |
| `page_invitation` | Can a page that invites to write be written in? **No** | no prompt, 1 message |
| `sessions_all` | What do connections, REST requests, failing statements, shutdown and crash do to each other's rows, names and status, and is the result the history of `SessionRows`? | 1 session with or without prompt, 2 symmetric connections of 1 run each, 1 posted row, 1 minute, 1 end of the process or failing statement |
| `parser_page` | Does the page show what the parser said, once, and the lines of the block it is in? | 6 lines of any class, 1 reset, any flushes |
| `auth_safety` | Retry, rescue, logout, login page | 2 symmetric requests, 2 logins, 1 reload, 1 lost call |
| `auth_logout` | Does a logout clear the cookies? **Not an expired one** | 2 requests, 2 logins |
| `term_bridge` | Order, completeness, size and end of a terminal | 2 keys, 2 chunks, 2 fits, 1 pasted size, buffers of 1 |
| `tmux_all` | Do list and terminal settle, is a terminal in use kept, is nothing invented? | 2 names, one heard as the other, 2 outside changes, 1 fault, 1 creation, 1 reload |
| `tmux_create` | Does the form report a creation truthfully? **No** | 1 submission |

Why the bounds suffice: the hazards of the chat connection need two sources in
the channel at once and a full channel; two turns and a capacity of one or two
give both. A prompt is a run like a message's, only without an echo: it is
checked in `conn_attribution` and `sessions_all`, the page's runs would be too
large with it, and the theorems about `ChatConn` cover both values. codex has
every outcome commandcode has but one, the error of a run that finds its context
cancelled; the theorems cover both kinds. Two connections are what it takes to
race for a name or a row, and one end of the process is enough because `Down`
leaves no connection and `Restart` no memory. Six lines reach every pair of
states with a reset between. Two requests are what it takes for refreshes to
race; further ones repeat the second's role. A buffer of one makes every write
of the terminal block. Two session names are the one shown and another. For the
safety properties listed in section 4 the theorems remove the bounds.

`page_safety` bounds messages, stops and further requests together (`MaxInputs`),
since each hazard of the page needs two of them at most: a message and a snapshot,
two messages, a message and a stop. It has 1.7 million states, `page_live` (no
cached answer, for the graph's size) 120 thousand, `sessions_all` 2.9 million,
`auth_safety` 3.7 million, `term_bridge` 340 thousand, `tmux_all` 610 thousand.

Deadlock is not checked where the system may really stop: a peer that has left
and handlers that returned, a user who does nothing. `TmuxSessions` polls for
ever, so `tmux_all` and `tmux_create` check it.

### Fairness

Goroutines and the event loop are scheduled, so the internal steps of handler,
relay, runs and terminal loops are weakly fair; an upgrade that is not lost is
answered; a CLI process ends by itself or is killed with its context; the tmux
client reads its input and obeys a hang-up; the page polls. Weak fairness is
enough, since none of these steps is switched on and off for ever by others.
Steps that wait for the user, the network or tmux are never fair: nothing
assumes that anyone sends, stops, leaves, returns or ends a session. Properties
about such steps name the ways out ("or the connection is lost").

### Findings

Four runs show the code doing something other than its own words say; each
quotes the line in `PROJECT.json`.

1. `conn_attribution`: the relay completes its current row on *any*
   `message_done`, also the echo of a user's message. While the prompt's run is
   emitting, a message's echo is stored as the assistant's answer.
2. `page_invitation`: a session is created `running` and greeted with a
   `running` frame, so without a prompt the composer under "Send a message to
   start" is disabled until someone presses Stop.
3. `auth_logout`: `/auth/logout` is behind the access token and the page neither
   refreshes nor looks at the answer: with an expired token the page says signed
   out and the refresh cookie stays.
4. `tmux_create`: creation answers 201 with no body, the form parses the body
   and reports a failure for a session that now exists.

Seen while modelling and not covered by a run: the first fit of a terminal
usually finds its socket connecting and is dropped, so the terminal stays 80x24
until the window changes (`SizeSettles` therefore speaks of what the server was
asked for); text that parses as a size is taken for one and not typed
(`ws_handler.go:104`); a session's name goes unescaped into a URL, so that opening
a session called `dev?` attaches to, and creates, `dev`; a page whose user row
cannot be read, or whose login body is lost, asks for a password beside a good
cookie; a snapshot read before a frame the page already has overwrites it
(`ChatView.tsx:27`); `docs/roadmap.md:139` lists "graceful shutdown: SIGTERM → drain", but
`http.Server.Shutdown` does not wait for hijacked WebSockets, so a run can be cut
off between two statements and its session stays `running` (`RunningExplained`
names the case); `docs/roadmap.md:136` ticks an automatic reconnect with exponential
backoff that neither socket hook has; a tmux that fails for any reason is an
empty list; the timeline joins snapshot and streams without relating their ids;
the parser never leaves a thinking block, whatever follows it (`parser.go:178`),
its `Reset` goes on with the old ids, so the next answer replaces the previous
one on the page, and its `Flush` leaves out a last line that has no newline (no
adapter uses the parser, so none of this shows today); a session ended and made again
between two polls leaves the old terminal on the page.

## 4. The proofs

Every theorem holds for all values of the constants: any number of messages,
runs, connections, requests or lines, any capacity, and with or without a
prompt. The assumptions are those the modules name (`ChatConnAssumption`,
`SessionsAssumption`, `ParserAssumption`, `AuthSessionAssumption`,
`TermBridgeAssumption`, `TmuxSessionsAssumption`): the ranges of the constants,
and that requests and names are finitely many. Each proof module has the same
plan: an inductive invariant, the lemma that the initial states satisfy it, one
lemma or step per action that can disturb it, and a theorem that joins them.

`ChatConnProofs`

- `TypeCorrect` (`Spec => []TypeOK`). `TypeOK` is not inductive: that a source
  pushes at most four events needs to know where its run is. `Progress` says
  so: a run that is pushing has something left to push, and later turns have
  pushed nothing. `TypeInv == TypeOK /\ Progress` is inductive.
- `CurrentRowIsOpen` (`Spec => []CurrentRowOpen`). Relative to `TypeInv` the
  property is inductive as stated: rows are only appended, by the handler as
  user rows and by the relay as the new current row.
- `DoneRowsStayFixed` (`Spec => DoneRowsFixed`). The only step that rewrites a
  row is `PersistDone`, of the current one, which the invariant says is still
  streaming.
- `DeliveryInOrder` (`Spec => InOrder`). Sources share the channel, so `QueueInv`
  argues per source: the events of a source in the channel and in the relay's
  hand are exactly those pushed and not yet written (`InRange`, `NoneLost`), in
  increasing order (`Sorted`, `HandFirst`). What the relay writes is therefore
  always the next one.
- `HistoryInOrder` (`Spec => []AnswerAfterMessage`). The answer's row is stored by
  the relay, the message's by the handler. `MessageInv` joins them: the rows of
  all messages taken are there (`MessageStored`), and every event of a run
  belongs to a message taken, so its row comes later.

`ChatAnswersProofs`, on top of it: `SerialAnswersFit` (`SerialAttribution`) and
`StoredBeforeWritten` (`StoredBeforeShown`). `AnswerInv` ties each event in flight
to its source's script. `SerialInv` is what serial use adds, each conjunct
needed by the next: only the latest turn is under way (`OneTurn`), its echo is
ahead of its answer in the channel (`EchoFirst`), so a row is open exactly
between the start of its answer and the end (`RowOpen`), and what was completed
is its own turn's (`Attributed`) and was kept (`Kept`). Without `EchoFirst` a
`message_done` of an echo could reach the open row, which is what
`conn_attribution` finds once messages overlap.

The same module has `ImplementsTranscript` (`Spec => TranscriptSpec`), the
refinement of `ChatTranscript`. A row step of the connection is a message row, an opened answer or a
completed one (`RowSteps`); under `ReaderInv` these are `Ask`, `Begin` and
`Finish`. The mapping counts user rows and searches answer rows, so the
invariant says that there are as many user rows as messages (`AskedInv`) and
that a turn has one answer row (`TranscriptInv`).

`ChatPageProofs`, about the composition of page and connection

- `PageTypeCorrect`, and `PageImplementsConn` (`PageSpec => Spec`): every step of
  the composition is a step of `ChatConn` or leaves its variables alone, so that
  each theorem above holds of the connection a page opens. `Link` relates the
  two: a socket that is not closed has a peer, nothing is sent before the page is
  loaded, what was taken was sent.
- `GateIsSerial` (`PageSpec => []GateMakesSerial`). That turns do not overlap is
  not inductive, since the composer knows the server only through frames that
  are on their way. `Gate` says what they mean: at most one message or `done` is
  on the wires, and only while the page believes that a turn is running; and when
  one is, or the page believes that none is running, the server is `Settled`
  (no run, empty channel, handler and relay at their receives). Sending needs a
  settled server, and the `done` frame restores it because the relay writes it
  last.
- `PageAnswersFit` and `PageImplementsTranscript`: what holds of serial clients,
  the attribution of answers and the transcript, holds of a promptless page, and
  the proviso that messages do not overlap is no longer assumed but proved. What
  remains assumed is what `GateMakesSerial` says: no Stop, and no snapshot that ended
  `running` while an answer was awaited.
- `PageStatusDoesAgree` (`PageSpec => []PageStatusAgrees`). Row and page are written
  by two goroutines and a queue apart. `StatusGoes` follows the status all the way:
  unless one is still to be written by something under way (`Upcoming`), the row's
  status is the one being announced, or the last of the frames on the wire, or,
  without any, the page's (`Latest`, `Said`). The argument needs that no two
  writers are between store and write at once, which is the property's proviso
  `~collided`. Snapshots of any number and age come in through `Fresh`: the row an
  answer was read from is still as it was, or a status is on its way that will put
  the page right, unless the page has had a status since (`rest.old`). Applying an
  answer therefore keeps `StatusGoes`, or is the `overtaken` case the property
  names.

`ChatSessionsProofs`

- `SessionsTypeCorrect`.
- `RowsAreOwned`: `OwnInv` adds that the row a relay holds open is its own
  and not yet completed; other
  connections only append, so its index stays right.
- `RunningIsExplained`: inductive relative to the type invariant. A failing UPDATE
  is a reason only until the next one that succeeds.
- `NamesDoAgree`: `NameFact` follows one connection from the row it read to the
  name its adapter got; `raced` turns true in the one step that breaks it for all,
  `unnamed` takes up the connection whose UPDATE failed, and only that one.
- `RowsDoFinish`: `FinishInv` says of a source's remaining events that a start is
  followed by its end, and that an unfinished row is the connection's youngest and
  open, or its completion failed. That an insert may fail leaves an earlier row
  open, which the next end then completes.
- `ImplementsRows` (`Spec => HistorySpec`), the refinement of `SessionRows`. Whether a
  relay may write row `currentMsgID` is a question about all rows: it is its own and
  still streaming (`OpenOwned`), and no younger answer of the connection exists
  (`MineFact`). The theorem covers any number of runs; in `sessions_all` each
  connection opens one answer, so that it is also the youngest shows only here.

`AuthSessionProofs`

- `AuthTypeCorrect`. Token numbers are bounded only because each request causes
  at most one refresh: `Budget` counts the requests that have used theirs up.
- `RetriesExecuteOnce`: a request that may still be served has not been
  (`Unserved`), in particular the first attempt of a request that was refused.
- `LogoutIsFinal`: a refresh still under way after a logout is `Hopeless`, since
  refresh tokens only expire.
- `LoginPageIsHonest`: while the page checks, nothing else of it is under way but a
  login (`CheckInv`), and a login page that was not misled and waits for no login's
  body has nothing left that could renew a session (`NoSession`).
- `RefreshDoesRescue`: a request that is not excused is `OnCourse`: every token it
  holds would be accepted or renewed now.

`TermBridgeProofs`

- `TermTypeCorrect`, with `Stages` relating handler, reader, terminal and client.
- `OutputKeepsOrder`: wire, the reader's hand and the buffer each continue where
  the one before ends (`PipeInv`), for buffers of any size.
- `KeysKeepOrder`: `Given` counts the input the client has read, that in its
  buffer and in the handler. `KeysOK` says that exactly the input after this is on
  the wire, in order between whatever reads as a size, and that what is in the
  buffer continues what was read.
- `SizeDoesSettle`: the last size under way is the one asked for last, and when
  none is, the terminal has it.

`ChatParserProofs`

- `CardsMatchBlocks`. `BlockInv` says of tools and of thinking blocks alike that
  the open card is the parser's block and shows its lines run together
  (`RunTogether`), and that a block's number never reaches the line being read.
- `ParserTypeCorrect`, with `MessageType`: no message id has reached the number of
  the line being read, although a line can raise the id by two.
- `TextIsShownOnce` (`Spec => []ShownOnce`). `StreamsInv` says which text a stream
  holds: nothing that is still to be read, early text in stream 0, other text of
  this reset at exactly one place and never beyond the current id (`Shown`), and
  that the current stream and what the parser has collected hold the same text,
  which occurs there once. With that, replacing the stream by what was collected
  (`FlushFacts`: both flushes come to this) loses nothing and doubles nothing.

`TmuxSessionsProofs`

- `TmuxTypeCorrect`, including that the page's terminal is attached to a session
  that exists.
- `AttachInventsNothing` (`Spec => []NoInvention`). `new-session -A` creates what
  it does not find, so `NoInvention` alone is not inductive; `Known` adds that
  everything that can lead to an attach (list, answer under way, sockets under
  way) is in every set that holds what was made and is closed under `Heard`. The step that matters is `Render`, which opens only
  what is listed (`ShownListed`).
- `PollingKeepsTerminal` (`Spec => TerminalKept`). `Current`: as long as no list
  command failed, whatever is listed and has not ended exists and is in every
  answer under way, so the next list shows it again and `Render` leaves the
  socket alone.

Every invariant and every action property of a passing run is a theorem. Only
model-checked is liveness, since fairness and ENABLED are out of the prover's
reach: the five properties of `page_live`, `NothingLeft`, `OutputReaches`,
`ListSettles` and `TerminalSettles`.

No module declares a RECURSIVE operator.

## 5. Not modelled

- The numbers of message ids across goroutines (`msgID` is incremented without
  synchronisation), the timeline that joins streams with the snapshot without
  relating ids, and streams kept over a change of chat. The join shows twice what
  is in both by design, so a property against it would be false as soon as a
  page loads twice, and no document promises it.
- Streams, thinking blocks and tool cards are in `ChatParser`, fed by the parser;
  the adapters' own events have no cards, and `ChatConn` abstracts their texts to
  their sources.
- In `ChatPage`: rows written by another connection or by REST during the visit
  (these are in `ChatSessions`), and a change of chat without leaving the page.
- In `ChatSessions`: names of different sessions. They have a resolution of one
  minute (`adapter.go:27`), so two sessions may share one; `NamesAgree` relates a
  session's connections to its own row only. The lookup by terminal name
  (`chat_store.go:143`) returns one such row, changes nothing, and nothing in the
  page calls it.
- In `TermBridge`: the cut of a size to 16 bits; what the terminals of two sockets
  attached to one session do to its size.
- Reconnection: the code has none, whatever the roadmap says.
- Register, passwords, tokens in headers, the origin check, the thinking block
  store: single statements and pure functions with nothing to interleave.
- Windows, panes and the parsing of tmux's lists; the toolbar's modes and the
  terminal's focus; the URL's bash mode; layout.
- Configuration and static files of the server.
- In `ChatParser`: escape sequences and carriage returns, roles, titles and
  inputs of tools.
- Wording, formatting and logging.

## 6. Plan

Done, in this order: `ChatConn` with its proofs, `ChatTranscript`, `ChatPage`,
`AuthSession`, `TermBridge`, `TmuxSessions` with its proofs, `ChatSessions` and
`ChatParser` with theirs, the proofs about `AuthSession` and `TermBridge`, the
serial properties of `ChatConn` and the refinement of `ChatTranscript`, the
proofs about `ChatPage`, the order of keys, the parser's streams, the
terminal under polling, the refinement of `SessionRows`, the page's query with
cache and repeated requests, failing statements under several connections, frames
known by their content and names changed by a URL.

What is left:

1. The page with a prompt: which of `GateMakesSerial` survives when the first
   turn is the server's own.
2. An abstract specification of the terminal as two pipes, with a refinement.
3. The page's streams keyed by message ids in `ChatPage`, once adapters emit ids
   that can be told apart.
4. Reconnection, as a property of `ChatPage` and `TmuxSessions`, once the hooks
   have it.
