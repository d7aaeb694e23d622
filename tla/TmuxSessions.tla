---------------------------- MODULE TmuxSessions ----------------------------
(***************************************************************************)
(* tmux's sessions and the page's picture of them.                         *)
(*                                                                         *)
(* tmux is the source of truth: sessions come and go outside, by the REST  *)
(* handlers, and by the terminals themselves, because attaching with       *)
(* `new-session -A` creates a session that does not exist.  The page polls *)
(* the list and shows a terminal for the session in its URL as long as the *)
(* last list has it; the form creates sessions.                            *)
(*                                                                         *)
(* The terminal's socket names its session in its URL, unescaped, and the  *)
(* server reads the name out of that URL again: what tmux is asked for may *)
(* be another name, or the request none that is served (Heard).            *)
(*                                                                         *)
(* Windows and panes are left out but for their last one, whose end is the *)
(* session's; so are the columns of the lists and the attached indicator.  *)
(***************************************************************************)
EXTENDS Naturals, FiniteSets

CONSTANTS
  Names,       \* names of sessions
  None,        \* no session
  Heard,       \* the session a socket for a name asks for; None: it is refused
  MaxOutside,  \* bound on sessions made, ended or renamed apart from the page
  MaxFaults,   \* bound on failing list commands, lost requests and lost sockets
  MaxCreates,  \* bound on submissions of the form
  MaxReloads   \* bound on reloads of the page

ASSUME TmuxSessionsAssumption ==
  /\ IsFiniteSet(Names) /\ None \notin Names
  /\ Heard \in [Names -> Names \cup {None}]
  /\ {MaxOutside, MaxFaults, MaxCreates, MaxReloads} \subseteq Nat

VARIABLES
  sessions,   \* tmux's sessions
  view,       \* the session in the page's URL, None on other routes
  list,       \* the query's data: the names of the last list
  fetch,      \* the list request: its step and what was served
  form,       \* the form: whether it is open, its request, what it shows
  opening,    \* terminal sockets under way to the server, by session
  attached,   \* the session the page's terminal is attached to
  dropped,    \* the terminal's socket was lost
  left,       \* the terminal's client left its session, its socket is open
  made,       \* history: names that were created on purpose
  ended,      \* history: names whose session has ended or was renamed
  outside, faults, creates, reloads

page     == <<view, list>>
sockets  == <<opening, attached, dropped, left>>
history  == <<made, ended>>
bounds   == <<outside, faults, creates, reloads>>
vars == <<sessions, page, fetch, form, sockets, history, bounds>>

FormType == [open : BOOLEAN, step : {"idle", "out", "back"}, name : Names \cup {None},
             error : BOOLEAN, done : BOOLEAN]

NoFetch == [step |-> "none", names |-> {}]
NoForm  == [open |-> FALSE, step |-> "idle", name |-> None, error |-> FALSE, done |-> FALSE]

\* Mutant: the terminal is shown without looking into the list.
ShownUnlisted(v, l) == v

\* SessionDetailComponent shows the terminal of a session in the list.
Shown(v, l) == IF v \in l THEN v ELSE None

Init ==
  /\ sessions \in SUBSET Names /\ made = sessions
  /\ view \in Names \cup {None}
  /\ list = {}
  /\ fetch = NoFetch /\ form = NoForm
  /\ opening = {} /\ attached = None /\ dropped = FALSE /\ left = FALSE
  /\ ended = {}
  /\ outside = 0 /\ faults = 0 /\ creates = 0 /\ reloads = 0

-----------------------------------------------------------------------------
\* tmux, used in a shell, through the REST handlers or by the programs in it.

\* new-session: a name is given to one session only.
Make(n) ==
  /\ outside < MaxOutside /\ n \notin sessions
  /\ outside' = outside + 1
  /\ sessions' = sessions \cup {n} /\ made' = made \cup {n}
  /\ UNCHANGED <<page, fetch, form, sockets, ended, faults, creates, reloads>>

\* Mutant: clients survive their session.
EndKeepsClients(n) ==
  /\ outside < MaxOutside /\ n \in sessions
  /\ outside' = outside + 1
  /\ sessions' = sessions \ {n} /\ ended' = ended \cup {n}
  /\ UNCHANGED <<page, fetch, form, sockets, made, faults, creates, reloads>>

\* kill-session, or the end of the last window: clients in it exit.
End(n) ==
  /\ outside < MaxOutside /\ n \in sessions
  /\ outside' = outside + 1
  /\ sessions' = sessions \ {n} /\ ended' = ended \cup {n}
  /\ attached' = IF attached = n THEN None ELSE attached
  /\ UNCHANGED <<page, fetch, form, opening, dropped, left, made, faults, creates, reloads>>

\* rename-session: clients stay in the session.
Rename(n, m) ==
  /\ outside < MaxOutside /\ n \in sessions /\ m \notin sessions
  /\ outside' = outside + 1
  /\ sessions' = (sessions \ {n}) \cup {m}
  /\ made' = made \cup {m} /\ ended' = ended \cup {n}
  /\ attached' = IF attached = n THEN m ELSE attached
  /\ UNCHANGED <<page, fetch, form, opening, dropped, left, faults, creates, reloads>>

\* detach-client, or switch-client to another session: the terminal's client
\* leaves the session, which lives on.  The reader goroutine ends with the
\* client, the socket stays open, and the page opens no other.
Leave ==
  /\ outside < MaxOutside /\ attached # None
  /\ outside' = outside + 1
  /\ attached' \in (sessions \cup {None}) \ {attached}
  /\ left' = TRUE
  /\ UNCHANGED <<sessions, page, fetch, form, opening, dropped, history, faults, creates, reloads>>

-----------------------------------------------------------------------------
\* Mutant: every list opens the socket anew.
RenderAlways(v, l) ==
  /\ opening' = opening \cup ({Shown(v, l)} \ {None})
  /\ attached' = None /\ dropped' = FALSE /\ left' = FALSE

\* Mutant: the socket is opened on a change of route only.
RenderOnVisit(v, l) ==
  IF Shown(v, l) = Shown(view, list)
  THEN UNCHANGED sockets
  ELSE /\ opening' = opening \cup (IF v = view THEN {} ELSE {Shown(v, l)} \ {None})
       /\ attached' = None /\ dropped' = FALSE /\ left' = FALSE

\* The terminal in the page.  What the page shows changes with the route and
\* with the list: the old socket is closed, whose client leaves its session
\* running, and a new one is opened.
Render(v, l) ==
  IF Shown(v, l) = Shown(view, list)
  THEN UNCHANGED sockets
  ELSE /\ opening' = opening \cup ({Shown(v, l)} \ {None})
       /\ attached' = None /\ dropped' = FALSE /\ left' = FALSE

\* ServeSessionWS attaches to the session it hears or creates it, also for a
\* page that has meanwhile turned away; a URL it cannot read or has no route for
\* is refused.  Sockets to one session that overlap are one.
ServeTerminal(n) ==
  /\ n \in opening
  /\ opening' = opening \ {n}
  /\ sessions' = sessions \cup ({Heard[n]} \ {None})
  /\ IF Shown(view, list) = n /\ ~dropped
     THEN attached' = Heard[n] /\ dropped' = (Heard[n] = None)
     ELSE UNCHANGED <<attached, dropped>>
  /\ UNCHANGED <<page, fetch, form, left, history, bounds>>

\* The socket is lost, before or after it is served.  The page does not open
\* another until it shows another session.
LoseSocket ==
  /\ Shown(view, list) # None /\ ~dropped /\ faults < MaxFaults
  /\ faults' = faults + 1
  /\ attached' = None /\ dropped' = TRUE
  /\ UNCHANGED <<sessions, page, fetch, form, opening, left, history, outside, creates, reloads>>

\* A link, a quick action or a typed URL.
Visit(v) ==
  /\ v # view
  /\ view' = v
  /\ Render(v, list)
  /\ UNCHANGED <<sessions, list, fetch, form, history, bounds>>

\* The terminal goes with the page; the list is unknown again.
Reload ==
  /\ reloads < MaxReloads
  /\ reloads' = reloads + 1
  /\ list' = {}
  /\ fetch' = NoFetch /\ form' = NoForm
  /\ Render(view, {})
  /\ UNCHANGED <<sessions, view, history, outside, faults, creates>>

-----------------------------------------------------------------------------
\* The list.

\* useQuery polls every five seconds, one request at a time.
Poll ==
  /\ fetch.step = "none"
  /\ fetch' = [NoFetch EXCEPT !.step = "out"]
  /\ UNCHANGED <<sessions, page, form, sockets, history, bounds>>

\* SessionHandler.List: a command that fails, for whatever reason, is
\* answered like a tmux without sessions.
ServeList ==
  /\ fetch.step = "out"
  /\ \/ fetch' = [step |-> "served", names |-> sessions] /\ UNCHANGED faults
     \/ /\ faults < MaxFaults /\ faults' = faults + 1
        /\ fetch' = [step |-> "served", names |-> {}]
  /\ UNCHANGED <<sessions, page, form, sockets, history, outside, creates, reloads>>

\* Mutant: an answer is merged into the list.
ListArrivesMerged ==
  /\ fetch.step = "served"
  /\ list' = list \cup fetch.names
  /\ fetch' = NoFetch
  /\ Render(view, list \cup fetch.names)
  /\ UNCHANGED <<sessions, view, form, history, bounds>>

ListArrives ==
  /\ fetch.step = "served"
  /\ list' = fetch.names
  /\ fetch' = NoFetch
  /\ Render(view, fetch.names)
  /\ UNCHANGED <<sessions, view, form, history, bounds>>

\* The request is lost or refused, its retry too: the data is kept.
ListFails ==
  /\ fetch.step # "none" /\ faults < MaxFaults
  /\ faults' = faults + 1
  /\ fetch' = NoFetch
  /\ UNCHANGED <<sessions, page, form, sockets, history, outside, creates, reloads>>

-----------------------------------------------------------------------------
\* The form.

OpenForm ==
  /\ ~form.open
  /\ form' = [form EXCEPT !.open = TRUE]
  /\ UNCHANGED <<sessions, page, fetch, sockets, history, bounds>>

\* handleClose leaves the mutation, and so the error, as it is.
CloseForm ==
  /\ form.open
  /\ form' = [form EXCEPT !.open = FALSE]
  /\ UNCHANGED <<sessions, page, fetch, sockets, history, bounds>>

Submit(n) ==
  /\ form.open /\ form.step = "idle" /\ creates < MaxCreates
  /\ creates' = creates + 1
  /\ form' = [form EXCEPT !.step = "out", !.name = n, !.error = FALSE, !.done = FALSE]
  /\ UNCHANGED <<sessions, page, fetch, sockets, history, outside, faults, reloads>>

\* SessionHandler.Create: 500 for a name in use, else 201 without a body.
ServeCreate ==
  /\ form.step = "out"
  /\ IF form.name \in sessions
     THEN form' = [form EXCEPT !.step = "back"] /\ UNCHANGED <<sessions, made>>
     ELSE /\ form' = [form EXCEPT !.step = "back", !.done = TRUE]
          /\ sessions' = sessions \cup {form.name} /\ made' = made \cup {form.name}
  /\ UNCHANGED <<page, fetch, sockets, ended, bounds>>

\* The mutation parses the body of the answer: a success has none, so the form
\* takes it for a failure as well.  Its onSuccess is never reached.
CreateReturns ==
  /\ form.step = "back"
  /\ form' = [form EXCEPT !.step = "idle", !.error = TRUE]
  /\ UNCHANGED <<sessions, page, fetch, sockets, history, bounds>>

\* The request or its answer is lost, or an expired token refused: this fetch
\* does not refresh.
CreateFails ==
  /\ form.step # "idle" /\ faults < MaxFaults
  /\ faults' = faults + 1
  /\ form' = [form EXCEPT !.step = "idle", !.error = TRUE]
  /\ UNCHANGED <<sessions, page, fetch, sockets, history, outside, creates, reloads>>

-----------------------------------------------------------------------------
Outside == Leave \/ \E n \in Names : Make(n) \/ End(n) \/ (\E m \in Names : Rename(n, m))
Terminal == \E n \in Names : ServeTerminal(n)
List == Poll \/ ServeList \/ ListArrives
Form == OpenForm \/ CloseForm \/ ServeCreate \/ CreateReturns \/ CreateFails
        \/ (\E n \in Names : Submit(n))

Next ==
  \/ Outside \/ Terminal \/ LoseSocket \/ List \/ ListFails \/ Form \/ Reload
  \/ \E v \in Names \cup {None} : Visit(v)

Spec == Init /\ [][Next]_vars

\* The page is in the foreground and polls; requests and sockets are served.
\* The user and whoever else uses tmux promise nothing.
FairSpec == Spec /\ WF_vars(List) /\ \A n \in Names : WF_vars(ServeTerminal(n))

-----------------------------------------------------------------------------
\* Every variable keeps its type; a terminal is attached to a session there is.
TypeOK ==
  /\ sessions \subseteq Names
  /\ view \in Names \cup {None}
  /\ list \subseteq Names
  /\ fetch \in [step : {"none", "out", "served"}, names : SUBSET Names]
  /\ form \in FormType
  /\ opening \subseteq Names /\ attached \in sessions \cup {None} /\ dropped \in BOOLEAN
  /\ left \in BOOLEAN
  /\ made \subseteq Names /\ ended \subseteq Names
  /\ outside \in 0..MaxOutside /\ faults \in 0..MaxFaults
  /\ creates \in 0..MaxCreates /\ reloads \in 0..MaxReloads

\* Although a terminal creates the session it does not find (slave.go:18), a
\* mistyped URL or the quick action "New shell" leaves tmux alone, because the
\* page looks into its list first: sessions that nobody made are those the
\* server hears in the names of others, nothing else.  A set of names that
\* holds what was made and what is heard in its names holds all there is; for
\* names a URL leaves alone it is what was made.
NoInvention ==
  \A C \in SUBSET Names :
    made \subseteq C /\ (\A n \in C : Heard[n] \in C \cup {None}) => sessions \subseteq C

\* Polling never tears down the terminal of a session that has not ended: it
\* stays attached while the user and its client stay, unless a list or the
\* socket failed.
TerminalKept ==
  [][\A n \in Names :
       view = n /\ attached = Heard[n] /\ {n, Heard[n]} \cap ended' = {}
         /\ view' = view /\ ~left' /\ faults' = 0 /\ reloads' = reloads
         => attached' = Heard[n]]_vars

\* When tmux's sessions stay what they are, the page's list becomes and stays
\* them: a failure, a reload and answers of any age are got over.
ListSettles ==
  \A S \in SUBSET Names : <>[](sessions = S) => <>[](list = S)

\* A user who stays with a session that never ended gets a terminal attached
\* to it, or to the session heard in its name, whatever the list and the other
\* sessions went through.  But for the loss of its socket, a refusal and a
\* client that leaves the session (with C-b d, or detached from elsewhere):
\* nothing in the page opens another one then.
TerminalSettles ==
  \A n \in Names :
    <>[](/\ view = n /\ n \in sessions \ ended /\ Heard[n] \notin ended
         /\ ~dropped /\ ~left)
      => <>[](attached = Heard[n])

\* The form says "Failed to create session" (CreateSessionButton.tsx:89) only
\* when it created none.
CreateHonest == form.error => ~form.done

=============================================================================
