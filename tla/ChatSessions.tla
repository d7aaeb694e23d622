---------------------------- MODULE ChatSessions ----------------------------
(***************************************************************************)
(* Stored chat sessions and the connections that work on them: several     *)
(* connections of one session at once, REST requests beside them, and a    *)
(* server that is shut down or crashes and is started again.               *)
(*                                                                         *)
(* ChatConn looks inside one connection; here only what the connections    *)
(* do to each other through the database is kept.  A connection's channel  *)
(* merges the events of its sources in some order, so the relay takes the  *)
(* next event of any source; that the channel may be full changes nothing  *)
(* another connection sees.  Events without an effect on the database are  *)
(* left out, and all sessions are of one kind.  Any INSERT or UPDATE may    *)
(* fail; the code goes on as if it had not.                                *)
(***************************************************************************)
EXTENDS Naturals, Sequences, FiniteSets

CONSTANTS
  Sessions,    \* ids chat_sessions may hand out
  Conns,       \* chat WebSockets, each opened at most once
  None,        \* no terminal name; nobody
  MaxMinutes,  \* bound on the clock
  MaxRuns,     \* bound on the runs of a connection, its prompt's included
  MaxPosts,    \* bound on the rows there are when one is posted over REST
  MaxTroubles  \* bound on the times the server goes down and the SQL
               \* statements that fail, together

ASSUME SessionsAssumption ==
  /\ None \notin Nat
  /\ MaxMinutes \in Nat /\ MaxRuns \in Nat /\ MaxPosts \in Nat
  /\ MaxTroubles \in Nat

\* A session's status is absent until it is created.
Status == {"absent", "running", "done", "stopped"}
Name == 0..MaxMinutes

\* Sources of a connection: the prompt, 0, and its messages.
Sources == 0..MaxRuns
Event == {"running", "echoEnd", "start", "end", "done"}
Echo == <<"running", "echoEnd">>
Answers == {<<"start", "end", "done">>, <<"done">>, <<>>}
Silent == [t \in Sources |-> <<>>]

Row == [session : Sessions, role : {"user", "assistant"}, status : {"streaming", "done"},
        opener : Conns \cup {None}, by : Conns \cup {None}]
Streaming(c, s) ==
  [session |-> s, role |-> "assistant", status |-> "streaming", opener |-> c, by |-> None]
Said(c, s) ==
  [session |-> s, role |-> "user", status |-> "done", opener |-> c, by |-> c]

-----------------------------------------------------------------------------
VARIABLES
  server,        \* "up", "draining" (no new requests) or "down"
  minute,        \* the clock, as far as it shows in a name
  status,        \* chat_sessions.status
  name,          \* chat_sessions.tmux_name
  prompt,        \* chat_sessions.prompt, whether there is one
  messages,      \* chat_messages
  pc,            \* per connection: where its handler is
  session,       \* per connection: the session it serves
  seen,          \* per connection: tmux_name in the row it read
  adapterName,   \* per connection: the name its adapter works under
  relay,         \* per connection: "off", "on" or "exited"
  currentMsgID,  \* per connection: its relay's open row, 0 if none
  todo,          \* per connection and source: events not yet relayed
  sends,         \* per connection: messages handled
  downs,         \* times the server was told to end or crashed
  faults,        \* SQL statements that have failed
  last,          \* history, per session: whose doing it is that it says "running"
  raced,         \* history, per session: two connections read an empty name
  unnamed,       \* history: connections that failed to store their name
  unfinished     \* history: rows whose completion failed

rowVars  == <<status, last>>
failVars == <<unnamed, unfinished>>
connVars == <<pc, session, seen, adapterName, sends>>
relayVars == <<relay, currentMsgID, todo>>
bounds   == <<minute, downs>>
vars == <<server, rowVars, name, prompt, messages, connVars, relayVars, bounds, raced, faults, failVars>>

PC == {"idle", "read", "started", "serving", "stopWrite", "left", "closed"}
Writer == {"nobody", "create", "relay", "late", "cut", "fault"}

Init ==
  /\ server = "up" /\ minute = 0
  /\ status = [s \in Sessions |-> "absent"]
  /\ name = [s \in Sessions |-> None]
  /\ prompt = [s \in Sessions |-> FALSE]
  /\ messages = <<>>
  /\ pc = [c \in Conns |-> "idle"]
  /\ session \in [Conns -> Sessions]
  /\ seen = [c \in Conns |-> None]
  /\ adapterName = [c \in Conns |-> None]
  /\ relay = [c \in Conns |-> "off"]
  /\ currentMsgID = [c \in Conns |-> 0]
  /\ todo = [c \in Conns |-> Silent]
  /\ sends = [c \in Conns |-> 0]
  /\ downs = 0
  /\ last = [s \in Sessions |-> "nobody"]
  /\ raced = [s \in Sessions |-> FALSE]
  /\ faults = 0 /\ unnamed = {} /\ unfinished = {}

\* A statement fails: the database is locked or full.
Fault == downs + faults < MaxTroubles /\ faults' = faults + 1

\* UpdateChatSessionStatus, whose error nobody looks at.
Store(s, st, who) ==
  \/ /\ status' = [status EXCEPT ![s] = st]
     /\ last' = [last EXCEPT ![s] = IF st = "running" THEN who ELSE "nobody"]
     /\ UNCHANGED faults
  \/ /\ Fault
     /\ last' = [last EXCEPT ![s] = IF status[s] = "running" THEN "fault" ELSE "nobody"]
     /\ UNCHANGED status

\* CreateChatMessage
Insert(row) ==
  \/ messages' = Append(messages, row) /\ UNCHANGED faults
  \/ Fault /\ UNCHANGED messages

-----------------------------------------------------------------------------
\* REST.

\* ChatHandler.Create; an INSERT that fails is answered as an error.
Create(s) ==
  /\ server = "up" /\ status[s] = "absent"
  /\ status' = [status EXCEPT ![s] = "running"]
  /\ last' = [last EXCEPT ![s] = "create"]
  /\ \E p \in BOOLEAN : prompt' = [prompt EXCEPT ![s] = p]
  /\ UNCHANGED <<server, name, messages, connVars, relayVars, bounds, raced, faults, failVars>>

\* ChatHandler.SendMessage stores the message and nothing runs it; whether
\* there is such a session is not looked at, and foreign keys are not enforced.
Post(s) ==
  /\ server = "up" /\ Len(messages) < MaxPosts
  /\ Insert(Said(None, s))
  /\ UNCHANGED <<server, rowVars, name, prompt, connVars, relayVars, bounds, raced, failVars>>

\* ChatHandler.Stop stops no run and tells no connection; without the row its
\* UPDATE changes nothing.
Stop(s) ==
  /\ server = "up" /\ status[s] # "absent"
  /\ Store(s, "stopped", "nobody")
  /\ UNCHANGED <<server, name, prompt, messages, connVars, relayVars, bounds, raced, failVars>>

\* What AttachTerminal answers.
Attached(s) == name[s]

-----------------------------------------------------------------------------
\* The handler of a connection.

\* It returns, and what it knew is gone with it.
Return(c) ==
  /\ pc' = [pc EXCEPT ![c] = "closed"]
  /\ seen' = [seen EXCEPT ![c] = None]
  /\ adapterName' = [adapterName EXCEPT ![c] = None]

\* The session's row is read before the upgrade.
ReadRow(c) ==
  LET s == session[c]
      Opening(d) == pc[d] \in {"read", "started"} /\ session[d] = s /\ seen[d] = None
  IN /\ server = "up" /\ pc[c] = "idle" /\ status[s] # "absent"
     /\ pc' = [pc EXCEPT ![c] = "read"]
     /\ seen' = [seen EXCEPT ![c] = name[s]]
     /\ raced' = [raced EXCEPT ![s] = @ \/ (name[s] = None /\ \E d \in Conns : Opening(d))]
     /\ UNCHANGED <<server, rowVars, name, prompt, messages, session, adapterName, sends, relayVars, bounds,
                    faults, failVars>>

\* Mutant: the stored name is not handed to the adapter.
StartAfresh(c) ==
  /\ server # "down" /\ pc[c] = "read"
  /\ pc' = [pc EXCEPT ![c] = "started"]
  /\ adapterName' = [adapterName EXCEPT ![c] = minute]
  /\ \E a \in IF prompt[session[c]] THEN Answers ELSE {<<>>} : todo' = [todo EXCEPT ![c][0] = a]
  /\ UNCHANGED <<server, rowVars, name, prompt, messages, session, seen, sends, relay, currentMsgID,
                 bounds, raced, faults, failVars>>

\* The upgrade, then adapter.Start: the name is the stored one or is made
\* from the clock, and the prompt is run on every connection.
Start(c) ==
  /\ server # "down" /\ pc[c] = "read"
  /\ pc' = [pc EXCEPT ![c] = "started"]
  /\ adapterName' = [adapterName EXCEPT ![c] = IF seen[c] = None THEN minute ELSE seen[c]]
  /\ \E a \in IF prompt[session[c]] THEN Answers ELSE {<<>>} : todo' = [todo EXCEPT ![c][0] = a]
  /\ UNCHANGED <<server, rowVars, name, prompt, messages, session, seen, sends, relay, currentMsgID,
                 bounds, raced, faults, failVars>>

\* The upgrade fails: the request ends without a trace.
UpgradeFails(c) ==
  /\ server # "down" /\ pc[c] = "read"
  /\ Return(c)
  /\ UNCHANGED <<server, rowVars, name, prompt, messages, session, sends, relayVars, bounds, raced,
                 faults, failVars>>

\* The name is stored when the row that was read had none; then the relay is
\* spawned and the read loop entered.
StoreName(c) ==
  /\ server # "down" /\ pc[c] = "started"
  /\ pc' = [pc EXCEPT ![c] = "serving"]
  /\ relay' = [relay EXCEPT ![c] = "on"]
  /\ \/ /\ name' = IF seen[c] = None THEN [name EXCEPT ![session[c]] = adapterName[c]] ELSE name
        /\ UNCHANGED <<faults, unnamed>>
     \/ /\ seen[c] = None /\ Fault
        /\ unnamed' = unnamed \cup {c}
        /\ UNCHANGED name
  /\ UNCHANGED <<server, rowVars, prompt, messages, session, seen, adapterName, sends, currentMsgID,
                 todo, bounds, raced, unfinished>>

Runs(c) == sends[c] + IF prompt[session[c]] THEN 1 ELSE 0

\* A "message" frame: the user's row, its echo and a run.
Message(c) ==
  /\ server # "down" /\ pc[c] = "serving" /\ Runs(c) < MaxRuns
  /\ sends' = [sends EXCEPT ![c] = @ + 1]
  /\ Insert(Said(c, session[c]))
  /\ \E a \in Answers : todo' = [todo EXCEPT ![c][sends[c] + 1] = Echo \o a]
  /\ UNCHANGED <<server, rowVars, name, prompt, pc, session, seen, adapterName, relay, currentMsgID,
                 bounds, raced, failVars>>

\* A "stop" frame stores the status, then writes the frame ...
StopFrame(c) ==
  /\ server # "down" /\ pc[c] = "serving"
  /\ pc' = [pc EXCEPT ![c] = "stopWrite"]
  /\ Store(session[c], "stopped", "nobody")
  /\ UNCHANGED <<server, name, prompt, messages, session, seen, adapterName, sends, relayVars, bounds, raced, failVars>>

\* ... which ends the handler when it meets a write of the relay and panics.
StopWrite(c) ==
  /\ server # "down" /\ pc[c] = "stopWrite"
  /\ \/ pc' = [pc EXCEPT ![c] = "serving"] /\ UNCHANGED <<seen, adapterName>>
     \/ relay[c] = "on" /\ Return(c)
  /\ UNCHANGED <<server, rowVars, name, prompt, messages, session, sends, relayVars, bounds, raced,
                 faults, failVars>>

\* Mutant: a handler that loses its peer returns at once.
LeaveSilently(c) ==
  /\ server # "down" /\ pc[c] = "serving"
  /\ pc' = [pc EXCEPT ![c] = "left"]
  /\ UNCHANGED <<server, rowVars, name, prompt, messages, session, seen, adapterName, sends, relayVars,
                 bounds, raced, faults, failVars>>

\* ReadMessage fails, which may be at any time: the peer leaves as it likes.
Leave(c) ==
  /\ server # "down" /\ pc[c] = "serving"
  /\ pc' = [pc EXCEPT ![c] = "left"]
  /\ Store(session[c], "stopped", "nobody")
  /\ UNCHANGED <<server, name, prompt, messages, session, seen, adapterName, sends, relayVars, bounds, raced, failVars>>

\* The deferred cancel and conn.Close.
Close(c) ==
  /\ server # "down" /\ pc[c] = "left"
  /\ Return(c)
  /\ UNCHANGED <<server, rowVars, name, prompt, messages, session, sends, relayVars, bounds, raced,
                 faults, failVars>>

Handler(c) ==
  \/ ReadRow(c) \/ Start(c) \/ UpgradeFails(c) \/ StoreName(c)
  \/ Message(c) \/ StopFrame(c) \/ StopWrite(c) \/ Leave(c) \/ Close(c)

-----------------------------------------------------------------------------
\* The relay of a connection.

PersistStatus(c, e) ==
  /\ e \in {"running", "done"}
  /\ Store(session[c], e, IF pc[c] = "serving" THEN "relay" ELSE "late")
  /\ UNCHANGED <<messages, currentMsgID, unfinished>>

\* Mutant: the id is taken from a count read after the insert.
PersistStartMiscounted(c, e) ==
  /\ e = "start"
  /\ messages' = Append(messages, Streaming(c, session[c]))
  /\ currentMsgID' = [currentMsgID EXCEPT ![c] = Len(messages) + 2]
  /\ UNCHANGED <<rowVars, faults, unfinished>>

PersistStart(c, e) ==
  /\ e = "start"
  /\ \/ /\ messages' = Append(messages, Streaming(c, session[c]))
        /\ currentMsgID' = [currentMsgID EXCEPT ![c] = Len(messages) + 1]
        /\ UNCHANGED faults
     \/ Fault /\ UNCHANGED <<messages, currentMsgID>>
  /\ UNCHANGED <<rowVars, unfinished>>

\* The open row is completed by the end of any message; it is open no more even
\* if that fails.
Complete(c, i) ==
  \/ /\ messages' = [messages EXCEPT ![i].status = "done", ![i].by = c]
     /\ UNCHANGED <<faults, unfinished>>
  \/ /\ Fault
     /\ unfinished' = unfinished \cup {i}
     /\ UNCHANGED messages

\* Mutant: the session's youngest open row is completed.
PersistEndYoungest(c, e) ==
  /\ e \in {"end", "echoEnd"}
  /\ LET open == {i \in DOMAIN messages : /\ messages[i].session = session[c]
                                          /\ messages[i].status = "streaming"}
     IN IF open = {} THEN UNCHANGED <<messages, faults, unfinished>>
        ELSE Complete(c, CHOOSE i \in open : \A j \in open : j <= i)
  /\ currentMsgID' = [currentMsgID EXCEPT ![c] = 0]
  /\ UNCHANGED rowVars

\* Mutant: only the echo's end completes a row.
PersistEndOfEcho(c, e) ==
  /\ e \in {"end", "echoEnd"}
  /\ IF e = "end" \/ currentMsgID[c] = 0 THEN UNCHANGED <<messages, faults, unfinished>> ELSE Complete(c, currentMsgID[c])
  /\ currentMsgID' = [currentMsgID EXCEPT ![c] = 0]
  /\ UNCHANGED rowVars

PersistEnd(c, e) ==
  /\ e \in {"end", "echoEnd"}
  /\ IF currentMsgID[c] = 0 THEN UNCHANGED <<messages, faults, unfinished>> ELSE Complete(c, currentMsgID[c])
  /\ currentMsgID' = [currentMsgID EXCEPT ![c] = 0]
  /\ UNCHANGED rowVars

\* An echo is pushed before the next one and before its own run.
Ready(c, t) ==
  /\ todo[c][t] # <<>>
  /\ \A u \in Sources : u < t /\ todo[c][u] # <<>> => Head(todo[c][u]) \notin {"running", "echoEnd"}

\* An event is stored and written; the write fails once the socket is closed,
\* and may fail as soon as the peer is gone or the handler is writing too.
RelayStep(c, t) ==
  LET e == Head(todo[c][t])
  IN /\ server # "down" /\ relay[c] = "on" /\ Ready(c, t)
     /\ PersistStatus(c, e) \/ PersistStart(c, e) \/ PersistEnd(c, e)
     /\ \/ pc[c] # "closed" /\ todo' = [todo EXCEPT ![c][t] = Tail(@)] /\ UNCHANGED relay
        \/ todo' = [todo EXCEPT ![c] = Silent] /\ relay' = [relay EXCEPT ![c] = "exited"]
     /\ UNCHANGED <<server, name, prompt, connVars, bounds, raced, unnamed>>

Relay(c) == \E t \in Sources : RelayStep(c, t)

-----------------------------------------------------------------------------
\* The server.

Tick ==
  /\ minute < MaxMinutes
  /\ minute' = minute + 1
  /\ UNCHANGED <<server, rowVars, name, prompt, messages, connVars, relayVars, downs, raced, faults, failVars>>

\* SIGTERM: Shutdown closes the listener; the WebSockets live on meanwhile.
Shutdown ==
  /\ server = "up" /\ downs + faults < MaxTroubles
  /\ server' = "draining"
  /\ downs' = downs + 1
  /\ UNCHANGED <<rowVars, name, prompt, messages, connVars, relayVars, minute, raced, faults, failVars>>

\* The process ends, after Shutdown or by a crash: handlers, relays and runs
\* are gone wherever they are, the database stays.
Down ==
  LET Cut(s) == \E c \in Conns : session[c] = s /\ pc[c] \in {"serving", "stopWrite"}
  IN /\ \/ server = "up" /\ downs + faults < MaxTroubles /\ downs' = downs + 1
        \/ server = "draining" /\ UNCHANGED downs
     /\ server' = "down"
     /\ pc' = [c \in Conns |-> IF pc[c] = "idle" THEN "idle" ELSE "closed"]
     /\ relay' = [c \in Conns |-> IF relay[c] = "on" THEN "exited" ELSE relay[c]]
     /\ seen' = [c \in Conns |-> None]
     /\ adapterName' = [c \in Conns |-> None]
     /\ todo' = [c \in Conns |-> Silent]
     /\ last' = [s \in Sessions |-> IF Cut(s) /\ status[s] = "running" THEN "cut" ELSE last[s]]
     /\ UNCHANGED <<status, name, prompt, messages, session, sends, currentMsgID, minute, raced, faults,
                    failVars>>

\* Open and Migrate leave every row as it is.
Restart ==
  /\ server = "down"
  /\ server' = "up"
  /\ UNCHANGED <<rowVars, name, prompt, messages, connVars, relayVars, bounds, raced, faults, failVars>>

Next ==
  \/ \E s \in Sessions : Create(s) \/ Post(s) \/ Stop(s)
  \/ \E c \in Conns : Handler(c) \/ Relay(c)
  \/ Tick \/ Shutdown \/ Down \/ Restart

Spec == Init /\ [][Next]_vars

-----------------------------------------------------------------------------
\* Every variable keeps its type, and an open row is a row.
TypeOK ==
  /\ server \in {"up", "draining", "down"}
  /\ minute \in 0..MaxMinutes
  /\ status \in [Sessions -> Status]
  /\ name \in [Sessions -> Name \cup {None}]
  /\ prompt \in [Sessions -> BOOLEAN]
  /\ messages \in Seq(Row)
  /\ pc \in [Conns -> PC]
  /\ session \in [Conns -> Sessions]
  /\ seen \in [Conns -> Name \cup {None}]
  /\ adapterName \in [Conns -> Name \cup {None}]
  /\ relay \in [Conns -> {"off", "on", "exited"}]
  /\ currentMsgID \in [Conns -> Nat]
  /\ \A c \in Conns : currentMsgID[c] <= Len(messages)
  /\ todo \in [Conns -> [Sources -> Seq(Event)]]
  /\ sends \in [Conns -> 0..MaxRuns]
  /\ downs \in 0..MaxTroubles
  /\ last \in [Sessions -> Writer]
  /\ raced \in [Sessions -> BOOLEAN]
  /\ faults \in 0..MaxTroubles
  /\ unnamed \subseteq Conns /\ unfinished \subseteq DOMAIN messages

\* A session that says "running" without a connection has just been created,
\* was cut off by the end of the process, owes its status to a relay that
\* stored an event after its handler had stored "stopped" (chat_ws.go:154), or
\* to an UPDATE that failed and was the last one (chat_ws.go:116, 154 and 182).
RunningExplained ==
  \A s \in Sessions :
    status[s] = "running" =>
      \/ \E c \in Conns : session[c] = s /\ pc[c] = "serving"
      \/ last[s] \in {"create", "late", "cut", "fault"}

\* Every connection of a session works under the name AttachTerminal gives, over
\* restarts too, unless two connections read the row before either had stored a
\* name (chat_ws.go:53 and 103), or its own UPDATE of the name failed and nobody
\* noticed (chat_ws.go:104): others may then work under another name, but all
\* of them under one.
NamesAgree ==
  \A c \in Conns :
    pc[c] \in {"serving", "stopWrite"} /\ ~raced[session[c]] /\ c \notin unnamed =>
      adapterName[c] = Attached(session[c])

\* When a connection has nothing left to relay, the youngest answer it opened
\* is finished, whatever other connections, restarts and REST requests did in
\* between, unless the one UPDATE that would have finished it failed: the relay
\* forgets the row all the same (chat_ws.go:134-138).
Unfinished(c) ==
  LET mine == {i \in DOMAIN messages : messages[i].role = "assistant" /\ messages[i].opener = c}
  IN {i \in mine : messages[i].status = "streaming" /\ \A j \in mine : j <= i}

RowsFinish ==
  \A c \in Conns : relay[c] = "on" /\ todo[c] = Silent => Unfinished(c) \subseteq unfinished

\* Connections, REST requests and the server's ends together keep the history
\* of SessionRows: currentMsgID is local to a relay (chat_ws.go:112), which
\* completes no row of another connection, none twice and none but its
\* youngest, and after a restart nobody touches the rows of before.
History == INSTANCE SessionRows WITH
  Writers <- Conns,
  rows <- messages,
  of <- session,
  gone <- {c \in Conns : relay[c] = "exited"}

HistorySpec == History!Spec

=============================================================================
