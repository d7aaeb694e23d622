------------------------------ MODULE TermBridge ------------------------------
(***************************************************************************)
(* One terminal: the page (TerminalView, useTmuxWebSocket), its socket,    *)
(* ServeSessionWS with its two loops, and the pseudo-terminal of the tmux  *)
(* client it starts (TmuxSlave).                                           *)
(*                                                                         *)
(* Keys and chunks of output are numbered in the order they are made.  The *)
(* pseudo-terminal has a bounded buffer in each direction; the process     *)
(* reads its input also while its output is blocked, as tmux does.         *)
(*                                                                         *)
(* The handler knows a frame by its content alone: whatever parses as a    *)
(* size is one, also text somebody typed or pasted.                        *)
(*                                                                         *)
(* Left out: the URL's bash mode, which no page uses, the status row, the  *)
(* focus and arrow-key modes of the page, and the cut of a size to 16      *)
(* bits: Sizes are what is left after it.                                  *)
(***************************************************************************)
EXTENDS Naturals, Sequences

CONSTANTS
  Sizes,      \* sizes the page's terminal can take
  Default,    \* 80 x 24, the size the pseudo-terminal starts with
  BufCap,     \* capacity of the pseudo-terminal's buffers
  MaxKeys, MaxOutput, MaxFits, MaxPastes   \* bounds on keys, chunks, fits and pasted sizes

ASSUME TermBridgeAssumption ==
  /\ Default \in Sizes
  /\ BufCap \in Nat \ {0}
  /\ {MaxKeys, MaxOutput, MaxFits, MaxPastes} \subseteq Nat

VARIABLES
  ws,        \* the page's socket: "connecting", "open", "closed"
  size,      \* the size of the page's terminal
  asked,     \* history: the last size the server was asked for
  fits,      \* fits so far
  pastes,    \* texts that read as a size so far
  sent,      \* keys put on the socket
  shown,     \* the last chunk written to xterm
  toServer,  \* frames under way: keys and sizes
  toPage,    \* chunks under way
  hpc,       \* where the handler is
  key,       \* the key the handler is writing
  rpc,       \* where the reader goroutine is
  hand,      \* the chunk it holds, as a sequence of at most one
  ptmx,      \* the pseudo-terminal: "none", "open", "closed"
  ptySize, ptyIn, ptyOut,
  proc,      \* the tmux client: "none", "alive", "exited"
  produced,  \* chunks it has produced
  received   \* the last key it has read

pageVars == <<ws, size, asked, fits, pastes, sent, shown>>
wires    == <<toServer, toPage>>
goVars   == <<hpc, key, rpc, hand>>
ptyVars  == <<ptmx, ptySize, ptyIn, ptyOut>>
procVars == <<proc, produced, received>>
vars == <<pageVars, wires, goVars, ptyVars, procVars>>

\* Frames by what the handler makes of them.  Size(s) is any text that parses
\* as a size of non-zero columns and rows: a fit's, or pasted text that reads
\* like one.  Key(n) is the n-th input that does not.
Key(n) == [kind |-> "input", n |-> n]
Size(s) == [kind |-> "size", size |-> s]
IsKey(f) == f.kind = "input"
Frame == {Key(n) : n \in 1..MaxKeys} \cup {Size(s) : s \in Sizes}

Init ==
  /\ ws = "connecting" /\ size = Default /\ asked = Default
  /\ fits = 0 /\ pastes = 0 /\ sent = 0 /\ shown = 0
  /\ toServer = <<>> /\ toPage = <<>>
  /\ hpc = "start" /\ key = 0 /\ rpc = "off" /\ hand = <<>>
  /\ ptmx = "none" /\ ptySize = Default /\ ptyIn = <<>> /\ ptyOut = <<>>
  /\ proc = "none" /\ produced = 0 /\ received = 0

-----------------------------------------------------------------------------
\* The page.

WsOpen ==
  /\ ws = "connecting"
  /\ ws' = "open"
  /\ UNCHANGED <<size, asked, fits, pastes, sent, shown, wires, goVars, ptyVars, procVars>>

\* The page is left, the network lost or the server's end closed.
WsClose ==
  /\ ws # "closed"
  /\ ws' = "closed"
  /\ UNCHANGED <<size, asked, fits, pastes, sent, shown, wires, goVars, ptyVars, procVars>>

\* Mutant: the size is sent before the terminal is fitted.
FitAfterSend ==
  /\ fits < MaxFits
  /\ fits' = fits + 1
  /\ \E s \in Sizes :
       /\ size' = s
       /\ asked' = IF ws = "open" THEN s ELSE asked
       /\ toServer' = IF ws = "open" THEN Append(toServer, Size(size)) ELSE toServer
  /\ UNCHANGED <<ws, pastes, sent, shown, toPage, goVars, ptyVars, procVars>>

\* The first frame's fit, or one that follows a resize of the window: the
\* terminal takes its size; the socket takes it only when it is open.
Fit ==
  /\ fits < MaxFits
  /\ fits' = fits + 1
  /\ \E s \in Sizes :
       /\ size' = s
       /\ asked' = IF ws = "open" THEN s ELSE asked
       /\ toServer' = IF ws = "open" THEN Append(toServer, Size(s)) ELSE toServer
  /\ UNCHANGED <<ws, pastes, sent, shown, toPage, goVars, ptyVars, procVars>>

\* A key, a toolbar button or a paste that does not read as a size; dropped
\* unless the socket is open.
Type ==
  /\ ws = "open" /\ sent < MaxKeys
  /\ sent' = sent + 1
  /\ toServer' = Append(toServer, Key(sent + 1))
  /\ UNCHANGED <<ws, size, asked, fits, pastes, shown, toPage, goVars, ptyVars, procVars>>

\* Input that reads as a size: the frame is that of a fit, and the page's own
\* terminal keeps its size.
PasteSize ==
  /\ ws = "open" /\ pastes < MaxPastes
  /\ pastes' = pastes + 1
  /\ \E s \in Sizes : asked' = s /\ toServer' = Append(toServer, Size(s))
  /\ UNCHANGED <<ws, size, fits, sent, shown, toPage, goVars, ptyVars, procVars>>

Receive ==
  /\ ws = "open" /\ toPage # <<>>
  /\ shown' = Head(toPage)
  /\ toPage' = Tail(toPage)
  /\ UNCHANGED <<ws, size, asked, fits, pastes, sent, toServer, goVars, ptyVars, procVars>>

-----------------------------------------------------------------------------
\* The handler and its reader goroutine.

\* NewTmuxSlave starts the client, or fails: then an error text is written
\* and the socket closed.
OpenSlave ==
  /\ hpc = "start"
  /\ \/ /\ hpc' = "read" /\ rpc' = "read"
        /\ ptmx' = "open" /\ proc' = "alive"
     \/ hpc' = "closed" /\ UNCHANGED <<rpc, ptmx, proc>>
  /\ UNCHANGED <<pageVars, wires, key, hand, ptySize, ptyIn, ptyOut, produced, received>>

\* Mutant: the first key is lost while the client starts.
TakeFrameDropsFirst ==
  /\ hpc = "read" /\ toServer # <<>>
  /\ toServer' = Tail(toServer)
  /\ IF IsKey(Head(toServer)) /\ Head(toServer).n > 1
     THEN hpc' = "type" /\ key' = Head(toServer).n /\ UNCHANGED ptySize
     ELSE /\ UNCHANGED <<hpc, key>>
          /\ ptySize' = IF IsKey(Head(toServer)) THEN ptySize ELSE Head(toServer).size
  /\ UNCHANGED <<pageVars, toPage, rpc, hand, ptmx, ptyIn, ptyOut, procVars>>

\* A frame: what parses as a size is applied, anything else is typed.
TakeFrame ==
  /\ hpc = "read" /\ toServer # <<>>
  /\ toServer' = Tail(toServer)
  /\ IF IsKey(Head(toServer))
     THEN hpc' = "type" /\ key' = Head(toServer).n /\ UNCHANGED ptySize
     ELSE ptySize' = Head(toServer).size /\ UNCHANGED <<hpc, key>>
  /\ UNCHANGED <<pageVars, toPage, rpc, hand, ptmx, ptyIn, ptyOut, procVars>>

\* Mutant: a write never blocks.
WriteKeyUnbounded ==
  /\ hpc = "type"
  /\ hpc' = "read"
  /\ ptyIn' = IF proc = "alive" THEN Append(ptyIn, key) ELSE ptyIn
  /\ UNCHANGED <<pageVars, wires, key, rpc, hand, ptmx, ptySize, ptyOut, procVars>>

\* slave.Write blocks while the input buffer is full and fails, unnoticed,
\* once the client has exited.
WriteKey ==
  /\ hpc = "type"
  /\ hpc' = "read"
  /\ \/ proc = "alive" /\ Len(ptyIn) < BufCap /\ ptyIn' = Append(ptyIn, key)
     \/ proc = "exited" /\ UNCHANGED ptyIn
  /\ UNCHANGED <<pageVars, wires, key, rpc, hand, ptmx, ptySize, ptyOut, procVars>>

\* ReadMessage fails; frames still under way may be lost.
ReadError ==
  /\ hpc = "read" /\ ws = "closed"
  /\ hpc' = "close"
  /\ UNCHANGED <<pageVars, wires, key, rpc, hand, ptyVars, procVars>>

\* Mutant: the client is waited for but not hung up.
CloseSlaveWaitsOnly ==
  /\ hpc = "close"
  /\ hpc' = "wait"
  /\ UNCHANGED <<pageVars, wires, key, rpc, hand, ptyVars, procVars>>

\* The deferred slave.Close hangs up and waits for the client ...
CloseSlave ==
  /\ hpc = "close"
  /\ hpc' = "wait"
  /\ ptmx' = "closed"
  /\ UNCHANGED <<pageVars, wires, key, rpc, hand, ptySize, ptyIn, ptyOut, procVars>>

\* ... before conn.Close.
Return ==
  /\ hpc = "wait" /\ proc = "exited"
  /\ hpc' = "closed"
  /\ UNCHANGED <<pageVars, wires, key, rpc, hand, ptyVars, procVars>>

\* Mutant: what the reader has read is read again.
ReadChunkRepeats ==
  /\ rpc = "read" /\ ptmx = "open" /\ ptyOut # <<>>
  /\ hand' = <<Head(ptyOut)>>
  /\ rpc' = "write"
  /\ UNCHANGED <<pageVars, wires, hpc, key, ptmx, ptySize, ptyIn, ptyOut, procVars>>

ReadChunk ==
  /\ rpc = "read" /\ ptmx = "open" /\ ptyOut # <<>>
  /\ hand' = <<Head(ptyOut)>>
  /\ ptyOut' = Tail(ptyOut)
  /\ rpc' = "write"
  /\ UNCHANGED <<pageVars, wires, hpc, key, ptmx, ptySize, ptyIn, procVars>>

\* Mutant: the reader ends with the client, whatever it has not read yet.
ReadEndAtExit ==
  /\ rpc = "read" /\ (ptmx = "closed" \/ proc = "exited")
  /\ rpc' = "exited"
  /\ UNCHANGED <<pageVars, wires, hpc, key, hand, ptyVars, procVars>>

\* Read fails once the master is closed, or the client gone and its output read.
ReadEnd ==
  /\ rpc = "read"
  /\ ptmx = "closed" \/ (proc = "exited" /\ ptyOut = <<>>)
  /\ rpc' = "exited"
  /\ UNCHANGED <<pageVars, wires, hpc, key, hand, ptyVars, procVars>>

\* WriteMessage; it may succeed for a while after the page has gone.
WriteChunk ==
  /\ rpc = "write" /\ hpc # "closed"
  /\ toPage' = toPage \o hand
  /\ hand' = <<>>
  /\ rpc' = "read"
  /\ UNCHANGED <<pageVars, toServer, hpc, key, ptyVars, procVars>>

WriteError ==
  /\ rpc = "write" /\ (ws = "closed" \/ hpc = "closed")
  /\ hand' = <<>>
  /\ rpc' = "exited"
  /\ UNCHANGED <<pageVars, wires, hpc, key, ptyVars, procVars>>

-----------------------------------------------------------------------------
\* The tmux client.

Produce ==
  /\ proc = "alive" /\ ptmx = "open" /\ produced < MaxOutput /\ Len(ptyOut) < BufCap
  /\ produced' = produced + 1
  /\ ptyOut' = Append(ptyOut, produced + 1)
  /\ UNCHANGED <<pageVars, wires, goVars, ptmx, ptySize, ptyIn, proc, received>>

Consume ==
  /\ proc = "alive" /\ ptyIn # <<>>
  /\ received' = Head(ptyIn)
  /\ ptyIn' = Tail(ptyIn)
  /\ UNCHANGED <<pageVars, wires, goVars, ptmx, ptySize, ptyOut, proc, produced>>

\* The session is killed or detached, ...
Exit ==
  /\ proc = "alive"
  /\ proc' = "exited"
  /\ UNCHANGED <<pageVars, wires, goVars, ptyVars, produced, received>>

\* ... or the terminal has hung up.
HangUp == ptmx = "closed" /\ Exit

-----------------------------------------------------------------------------
Page == WsOpen \/ WsClose \/ Fit \/ Type \/ PasteSize \/ Receive
Handler == OpenSlave \/ TakeFrame \/ WriteKey \/ ReadError \/ CloseSlave \/ Return
Reader == ReadChunk \/ ReadEnd \/ WriteChunk \/ WriteError
Client == Produce \/ Consume \/ Exit

Next == Page \/ Handler \/ Reader \/ Client

Spec == Init /\ [][Next]_vars

\* Goroutines and the event loop are scheduled fairly and an upgrade that is
\* not lost is answered; the client reads its input and obeys a hang-up.  The
\* user, the network and the client's output promise nothing.
FairSpec ==
  /\ Spec
  /\ WF_vars(WsOpen) /\ WF_vars(Receive) /\ WF_vars(Handler) /\ WF_vars(Reader)
  /\ WF_vars(Consume) /\ WF_vars(HangUp)

-----------------------------------------------------------------------------
\* Every variable keeps its type and the buffers their capacity.
TypeOK ==
  /\ ws \in {"connecting", "open", "closed"}
  /\ size \in Sizes /\ asked \in Sizes
  /\ fits \in 0..MaxFits /\ pastes \in 0..MaxPastes
  /\ sent \in 0..MaxKeys /\ shown \in 0..MaxOutput
  /\ toServer \in Seq(Frame) /\ toPage \in Seq(1..MaxOutput)
  /\ hpc \in {"start", "read", "type", "close", "wait", "closed"}
  /\ key \in 0..MaxKeys
  /\ rpc \in {"off", "read", "write", "exited"}
  /\ hand \in Seq(1..MaxOutput) /\ Len(hand) = (IF rpc = "write" THEN 1 ELSE 0)
  /\ ptmx \in {"none", "open", "closed"} /\ ptySize \in Sizes
  /\ ptyIn \in Seq(1..MaxKeys) /\ Len(ptyIn) <= BufCap
  /\ ptyOut \in Seq(1..MaxOutput) /\ Len(ptyOut) <= BufCap
  /\ proc \in {"none", "alive", "exited"}
  /\ produced \in 0..MaxOutput /\ received \in 0..MaxKeys

Counting(s, from) == \A i \in DOMAIN s : s[i] = from + i

\* What the page has shown, what is on the wire, in the reader's hand and in
\* the terminal's buffer is the client's output, in order, with no gap and
\* nothing twice; what is on the wire stays so when the reader is gone.
OutputInOrder ==
  /\ Counting(toPage, shown)
  /\ rpc # "exited" =>
       LET pipe == toPage \o hand \o ptyOut
       IN Counting(pipe, shown) /\ shown + Len(pipe) = produced

\* The last key the client has read, has in its buffer or is being given.
Given == received + Len(ptyIn) + (IF hpc = "type" THEN 1 ELSE 0)

OnWire(n) == \E i \in DOMAIN toServer : toServer[i] = Key(n)
WireInOrder ==
  \A i, j \in DOMAIN toServer :
    i < j /\ IsKey(toServer[i]) /\ IsKey(toServer[j]) => toServer[i].n < toServer[j].n

\* As long as the client is there and the handler has not given up, the input
\* it has read, that in the buffer, in the handler and on the wire is the input
\* that does not read as a size, in order and none of it lost.  Input that does
\* read as one is in none of these places: it never reaches the client.
KeysInOrder ==
  proc = "alive" /\ hpc \in {"read", "type"} =>
    /\ Counting(ptyIn, received)
    /\ hpc = "type" => key = Given
    /\ Given <= sent
    /\ \A n \in 1..MaxKeys : OnWire(n) <=> Given < n /\ n <= sent
    /\ WireInOrder

\* Once the frames under way are handled the terminal has the size that was
\* asked for last: by the page's last fit that found the socket open, or by a
\* later text that reads as a size.  (So it need not be the size the page shows:
\* a fit before the socket opens, like the one of the first frame, is dropped
\* and not repeated, useTmuxWebSocket.ts:44, and nothing undoes a pasted size.)
SizeSettles ==
  hpc = "read" /\ toServer = <<>> => ptySize = asked

\* When the page is gone nothing is left behind: the handler returns, its
\* reader ends and the client it started is gone.
NothingLeft ==
  (ws = "closed") ~> (hpc = "closed" /\ rpc \in {"off", "exited"} /\ proc # "alive")

\* Output reaches a page that stays, the last output of an exiting client too.
OutputReaches ==
  \A n \in 1..MaxOutput : (produced = n) ~> (shown >= n \/ ws = "closed")

=============================================================================
