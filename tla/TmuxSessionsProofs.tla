-------------------------- MODULE TmuxSessionsProofs --------------------------
(***************************************************************************)
(* Proofs about TmuxSessions: its type invariant, that attaching to a      *)
(* session invents none but by what is heard in a name, and that polling   *)
(* keeps the terminal.                                                     *)
(***************************************************************************)
EXTENDS TmuxSessions, TLAPS

\* A set of names that holds what was made and what is heard in its names.
Holds(C) == made \subseteq C /\ \A n \in C : Heard[n] \in C \cup {None}

\* What can lead the page to attach is in every such set: what it lists, what is
\* served to it, the sockets it has opened, and the sessions themselves.
KnownIn(C) ==
  /\ list \subseteq C
  /\ fetch.names \subseteq C
  /\ opening \subseteq C
  /\ sessions \subseteq C

Known == \A C \in SUBSET Names : Holds(C) => KnownIn(C)

\* A form under way holds a name.
Typed == TypeOK /\ (form.step = "out" => form.name \in Names)

Inv == Typed /\ Known

-----------------------------------------------------------------------------
\* The page shows a session of the list or none.
LEMMA ShownListed ==
  ASSUME NEW v, NEW l
  PROVE  Shown(v, l) \in l \cup {None}
  BY DEF Shown

LEMMA TypedInit == Init => Typed
<1> SUFFICES ASSUME Init PROVE Typed
  OBVIOUS
<1> USE TmuxSessionsAssumption DEF Init, NoFetch, NoForm
<1>1. TypeOK
  <2>1. form \in FormType
    BY DEF FormType
  <2>2. fetch \in [step : {"none", "out", "served"}, names : SUBSET Names]
    OBVIOUS
  <2>3. /\ outside \in 0..MaxOutside /\ faults \in 0..MaxFaults
        /\ creates \in 0..MaxCreates /\ reloads \in 0..MaxReloads
    OBVIOUS
  <2> QED BY <2>1, <2>2, <2>3 DEF TypeOK
<1> QED BY <1>1 DEF Typed

LEMMA KnownInit == Init => Known
BY DEF Init, NoFetch, Known, KnownIn, Holds

\* Rendering opens at most what is in the list it renders.
LEMMA RenderListed ==
  ASSUME Typed, NEW v \in Names \cup {None}, NEW l \in SUBSET Names, Render(v, l)
  PROVE  /\ opening' \subseteq Names /\ opening' \subseteq opening \cup l
         /\ attached' \in {attached, None}
         /\ dropped' \in BOOLEAN /\ left' \in BOOLEAN
<1>1. Shown(v, l) \in l \cup {None}
  BY ShownListed
<1>2. CASE UNCHANGED sockets
  BY <1>2 DEF Typed, TypeOK, sockets
<1>3. CASE /\ opening' = opening \cup ({Shown(v, l)} \ {None})
           /\ attached' = None /\ dropped' = FALSE /\ left' = FALSE
  <2>1. {Shown(v, l)} \ {None} \subseteq l
    BY <1>1
  <2>2. opening \subseteq Names
    BY DEF Typed, TypeOK
  <2> QED BY <1>3, <2>1, <2>2
<1> QED BY <1>2, <1>3 DEF Render

-----------------------------------------------------------------------------
\* Steps of tmux apart from the page.
LEMMA OutsideTyped ==
  ASSUME Typed, Outside
  PROVE  Typed'
<1> USE TmuxSessionsAssumption DEF Typed, TypeOK, page, sockets, history
<1>1. ASSUME NEW n \in Names, Make(n) PROVE Typed'
  BY <1>1 DEF Make
<1>2. ASSUME NEW n \in Names, End(n) PROVE Typed'
  BY <1>2 DEF End
<1>3. ASSUME NEW n \in Names, NEW m \in Names, Rename(n, m) PROVE Typed'
  BY <1>3 DEF Rename
<1>4. ASSUME Leave PROVE Typed'
  BY <1>4 DEF Leave
<1> QED BY <1>1, <1>2, <1>3, <1>4 DEF Outside

\* Sockets that are opened, served and lost.
LEMMA TerminalTyped ==
  ASSUME Typed, Terminal \/ LoseSocket
  PROVE  Typed'
<1> USE TmuxSessionsAssumption DEF Typed, TypeOK, page, history, bounds
<1>1. ASSUME NEW n \in Names, ServeTerminal(n) PROVE Typed'
  <2>1. Heard[n] \in Names \cup {None}
    OBVIOUS
  <2>2. attached' \in sessions' \cup {None} /\ dropped' \in BOOLEAN
    BY <1>1, <2>1 DEF ServeTerminal
  <2> QED BY <1>1, <2>1, <2>2 DEF ServeTerminal
<1>2. ASSUME LoseSocket PROVE Typed'
  BY <1>2 DEF LoseSocket
<1> QED BY <1>1, <1>2 DEF Terminal

\* Steps that change what the page shows.
LEMMA PageTyped ==
  ASSUME Typed, ListArrives \/ Reload \/ (\E v \in Names \cup {None} : Visit(v))
  PROVE  Typed'
<1>1. ASSUME ListArrives PROVE Typed'
  <2>1. view \in Names \cup {None} /\ fetch.names \in SUBSET Names
    BY DEF Typed, TypeOK
  <2>2. Render(view, fetch.names)
    BY <1>1 DEF ListArrives
  <2>3. /\ opening' \subseteq Names /\ attached' \in {attached, None}
        /\ dropped' \in BOOLEAN /\ left' \in BOOLEAN
    BY <2>1, <2>2, RenderListed
  <2> QED BY <1>1, <2>1, <2>3, TmuxSessionsAssumption
          DEF ListArrives, Typed, TypeOK, NoFetch, history, bounds
<1>2. ASSUME Reload PROVE Typed'
  <2>1. view \in Names \cup {None} /\ {} \in SUBSET Names
    BY DEF Typed, TypeOK
  <2>2. Render(view, {})
    BY <1>2 DEF Reload
  <2>3. /\ opening' \subseteq Names /\ attached' \in {attached, None}
        /\ dropped' \in BOOLEAN /\ left' \in BOOLEAN
    BY <2>1, <2>2, RenderListed
  <2>4. form' \in FormType /\ form'.step # "out"
    BY <1>2 DEF Reload, NoForm, FormType
  <2>5. fetch' \in [step : {"none", "out", "served"}, names : SUBSET Names]
    BY <1>2 DEF Reload, NoFetch
  <2> QED BY <1>2, <2>3, <2>4, <2>5, TmuxSessionsAssumption
          DEF Reload, Typed, TypeOK, history
<1>3. ASSUME NEW v \in Names \cup {None}, Visit(v) PROVE Typed'
  <2>1. list \in SUBSET Names
    BY DEF Typed, TypeOK
  <2>2. Render(v, list)
    BY <1>3 DEF Visit
  <2>3. /\ opening' \subseteq Names /\ attached' \in {attached, None}
        /\ dropped' \in BOOLEAN /\ left' \in BOOLEAN
    BY <2>1, <2>2, RenderListed
  <2> QED BY <1>3, <2>3 DEF Visit, Typed, TypeOK, history, bounds
<1> QED BY <1>1, <1>2, <1>3

\* Requests for the list that have not yet come back, or never do.
LEMMA FetchTyped ==
  ASSUME Typed, Poll \/ ServeList \/ ListFails
  PROVE  Typed'
<1> USE TmuxSessionsAssumption DEF Typed, TypeOK, page, sockets, history, NoFetch
<1>1. ASSUME Poll PROVE Typed'
  BY <1>1 DEF Poll, bounds
<1>2. ASSUME ServeList PROVE Typed'
  BY <1>2 DEF ServeList
<1>3. ASSUME ListFails PROVE Typed'
  BY <1>3 DEF ListFails
<1> QED BY <1>1, <1>2, <1>3

\* The form keeps its type, whatever field of it a step sets.
LEMMA FormFields ==
  ASSUME Typed, Form
  PROVE  form' \in FormType
<1>1. form \in FormType
  BY DEF Typed, TypeOK
<1> USE <1>1 DEF FormType
<1>2. ASSUME OpenForm PROVE form' \in FormType
  BY <1>2 DEF OpenForm
<1>3. ASSUME CloseForm PROVE form' \in FormType
  BY <1>3 DEF CloseForm
<1>4. ASSUME NEW n \in Names, Submit(n) PROVE form' \in FormType
  BY <1>4 DEF Submit
<1>5. ASSUME ServeCreate PROVE form' \in FormType
  BY <1>5 DEF ServeCreate
<1>6. ASSUME CreateReturns PROVE form' \in FormType
  BY <1>6 DEF CreateReturns
<1>7. ASSUME CreateFails PROVE form' \in FormType
  BY <1>7 DEF CreateFails
<1> QED BY <1>2, <1>3, <1>4, <1>5, <1>6, <1>7 DEF Form

LEMMA FormTyped ==
  ASSUME Typed, Form
  PROVE  Typed'
<1> form' \in FormType
  BY FormFields
<1> USE TmuxSessionsAssumption DEF Typed, TypeOK, page, sockets, history
<1>1. ASSUME OpenForm PROVE Typed'
  BY <1>1 DEF OpenForm, bounds
<1>2. ASSUME CloseForm PROVE Typed'
  BY <1>2 DEF CloseForm, bounds
<1>3. ASSUME NEW n \in Names, Submit(n) PROVE Typed'
  BY <1>3 DEF Submit
<1>4. ASSUME ServeCreate PROVE Typed'
  <2>1. CASE form.name \in sessions
    <3>1. form'.step # "out"
      BY <1>4, <2>1 DEF ServeCreate, FormType
    <3> QED BY <1>4, <2>1, <3>1 DEF ServeCreate, bounds
  <2>2. CASE form.name \notin sessions
    <3>1. form.name \in Names
      BY <1>4 DEF ServeCreate
    <3>2. form'.step # "out"
      BY <1>4, <2>2 DEF ServeCreate, FormType
    <3>3. sessions' = sessions \cup {form.name} /\ made' = made \cup {form.name}
      BY <1>4, <2>2 DEF ServeCreate
    <3> QED BY <1>4, <3>1, <3>2, <3>3 DEF ServeCreate, bounds
  <2> QED BY <2>1, <2>2
<1>5. ASSUME CreateReturns PROVE Typed'
  BY <1>5 DEF CreateReturns, bounds
<1>6. ASSUME CreateFails PROVE Typed'
  BY <1>6 DEF CreateFails
<1> QED BY <1>1, <1>2, <1>3, <1>4, <1>5, <1>6 DEF Form

LEMMA TypedStep == Typed /\ [Next]_vars => Typed'
<1> SUFFICES ASSUME Typed, [Next]_vars PROVE Typed'
  OBVIOUS
<1>1. CASE UNCHANGED vars
  BY <1>1 DEF Typed, TypeOK, vars, page, sockets, history, bounds
<1>2. CASE Next
  BY <1>2, OutsideTyped, TerminalTyped, PageTyped, FetchTyped, FormTyped DEF Next, List
<1> QED BY <1>1, <1>2

-----------------------------------------------------------------------------
\* What was made on purpose stays so: a set that holds it later holds it now.
LEMMA HoldsBefore ==
  ASSUME [Next]_vars, NEW C, Holds(C)'
  PROVE  Holds(C)
<1> USE DEF page, sockets, history, bounds
<1>1. CASE Outside
  BY <1>1 DEF Outside, Make, End, Rename, Leave, Holds
<1>2. CASE Terminal \/ LoseSocket
  BY <1>2 DEF Terminal, ServeTerminal, LoseSocket, Holds
<1>3. CASE List \/ ListFails
  BY <1>3 DEF List, Poll, ServeList, ListArrives, ListFails, Holds
<1>4. CASE Form
  BY <1>4 DEF Form, OpenForm, CloseForm, Submit, ServeCreate, CreateReturns, CreateFails, Holds
<1>5. CASE Reload \/ (\E v \in Names \cup {None} : Visit(v))
  BY <1>5 DEF Reload, Visit, Holds
<1>6. CASE UNCHANGED vars
  BY <1>6 DEF vars, Holds
<1> QED BY <1>1, <1>2, <1>3, <1>4, <1>5, <1>6 DEF Next

LEMMA KnownStep == Inv /\ [Next]_vars => Known'
<1> SUFFICES ASSUME Inv, [Next]_vars, NEW C \in SUBSET Names, Holds(C)' PROVE KnownIn(C)'
  BY DEF Known
<1>0. /\ Holds(C) /\ KnownIn(C) /\ made' \subseteq C
      /\ Typed /\ view \in Names \cup {None} /\ list \subseteq Names /\ fetch.names \subseteq Names
  BY HoldsBefore DEF Inv, Known, Typed, TypeOK, Holds
<1>1. CASE Outside
  BY <1>0, <1>1 DEF Outside, Make, End, Rename, Leave, KnownIn, page, sockets
<1>2. CASE Terminal
  <2>1. PICK n \in Names : ServeTerminal(n)
    BY <1>2 DEF Terminal
  <2>2. n \in C
    BY <1>0, <2>1 DEF ServeTerminal, KnownIn
  <2>3. {Heard[n]} \ {None} \subseteq C
    BY <1>0, <2>2 DEF Holds
  <2> QED BY <1>0, <2>1, <2>3 DEF ServeTerminal, KnownIn, page
<1>3. CASE LoseSocket
  BY <1>0, <1>3 DEF LoseSocket, KnownIn, page
<1>4. CASE Poll \/ ServeList \/ ListFails
  BY <1>0, <1>4 DEF Poll, ServeList, ListFails, NoFetch, KnownIn, page, sockets
<1>5. CASE ListArrives
  <2>1. opening' \subseteq opening \cup fetch.names
    BY <1>0, <1>5, RenderListed DEF ListArrives
  <2> QED BY <1>0, <1>5, <2>1 DEF ListArrives, NoFetch, KnownIn
<1>6. CASE Reload
  <2>1. opening' \subseteq opening \cup {}
    BY <1>0, <1>6, RenderListed DEF Reload
  <2> QED BY <1>0, <1>6, <2>1 DEF Reload, NoFetch, KnownIn
<1>7. CASE \E v \in Names \cup {None} : Visit(v)
  <2>1. PICK v \in Names \cup {None} : Visit(v)
    BY <1>7
  <2>2. opening' \subseteq opening \cup list
    BY <1>0, <2>1, RenderListed DEF Visit
  <2> QED BY <1>0, <2>1, <2>2 DEF Visit, KnownIn
<1>8. CASE Form
  <2>1. sessions' \subseteq sessions \cup made'
    BY <1>8 DEF Form, OpenForm, CloseForm, Submit, ServeCreate, CreateReturns, CreateFails
  <2>2. UNCHANGED <<list, fetch, opening>>
    BY <1>8 DEF Form, OpenForm, CloseForm, Submit, ServeCreate, CreateReturns, CreateFails,
                page, sockets
  <2> QED BY <1>0, <2>1, <2>2 DEF KnownIn
<1>9. CASE UNCHANGED vars
  BY <1>0, <1>9 DEF vars, KnownIn, page, sockets
<1> QED BY <1>1, <1>2, <1>3, <1>4, <1>5, <1>6, <1>7, <1>8, <1>9 DEF Next, List

LEMMA InitInv == Init => Inv
BY TypedInit, KnownInit DEF Inv

LEMMA NextInv == Inv /\ [Next]_vars => Inv'
BY TypedStep, KnownStep DEF Inv

-----------------------------------------------------------------------------
\* Every variable keeps its type, for any set of names and any bounds; the
\* page's terminal is attached to a session there is.
THEOREM TmuxTypeCorrect == Spec => []TypeOK
<1>1. Inv => TypeOK
  BY DEF Inv, Typed
<1> QED BY InitInv, NextInv, <1>1, PTL DEF Spec

\* However lists, routes, reloads and lost calls interleave with tmux, the
\* terminals' `new-session -A` (slave.go:19) only ever attaches to or revives
\* sessions that somebody made, or whose name the server heard in the URL of
\* another's socket (useTmuxWebSocket.ts:11, ws_handler.go:60-63).
THEOREM AttachInventsNothing == Spec => []NoInvention
<1>1. Inv => NoInvention
  BY DEF Inv, Known, KnownIn, Holds, NoInvention
<1> QED BY InitInv, NextInv, <1>1, PTL DEF Spec

-----------------------------------------------------------------------------
\* A terminal is attached only while the page shows one, and as long as no list
\* command failed, a session that is listed and did not end is there and in
\* every answer under way, so the next list has it too.
Current ==
  /\ attached # None => view \in list
  /\ list \ ended \subseteq sessions
  /\ fetch.names \ ended \subseteq sessions
  /\ faults = 0 /\ fetch.step = "served" => list \ ended \subseteq fetch.names

\* Rendering leaves a terminal attached only if it shows the same one.
LEMMA RenderCurrent ==
  ASSUME Inv, Current, NEW v \in Names \cup {None}, NEW l \in SUBSET Names, Render(v, l)
  PROVE  /\ attached' # None => v \in l
         /\ v = view /\ view \in list /\ v \in l => attached' = attached
<1>1. view \in Names \cup {None} /\ list \subseteq Names /\ None \notin Names
  BY TmuxSessionsAssumption DEF Inv, Typed, TypeOK
<1>2. CASE Shown(v, l) = Shown(view, list)
  <2>1. attached' = attached
    BY <1>2 DEF Render, sockets
  <2>2. attached # None => Shown(v, l) = view /\ view # None
    BY <1>1, <1>2 DEF Current, Shown
  <2>3. attached # None => v \in l
    BY <2>2 DEF Shown
  <2> QED BY <2>1, <2>3
<1>3. CASE Shown(v, l) # Shown(view, list)
  BY <1>3 DEF Render, Shown
<1> QED BY <1>2, <1>3

LEMMA CurrentInit == Init => Current
BY DEF Init, Current, NoFetch

LEMMA CurrentStep == Inv /\ Current /\ [Next]_vars => Current'
<1> SUFFICES ASSUME Inv, Current, [Next]_vars PROVE Current'
  OBVIOUS
<1> USE DEF page, sockets, history, bounds
<1>0. /\ faults \in Nat /\ None \notin Names /\ view \in Names \cup {None} /\ list \subseteq Names
      /\ fetch.names \subseteq Names /\ attached \in sessions \cup {None}
  BY TmuxSessionsAssumption DEF Inv, Typed, TypeOK
<1>1. CASE Outside
  <2>1. ASSUME NEW n \in Names, Make(n) PROVE Current'
    BY <2>1 DEF Make, Current
  <2>2. ASSUME NEW n \in Names, End(n) PROVE Current'
    BY <2>2 DEF End, Current
  <2>3. ASSUME NEW n \in Names, NEW m \in Names, Rename(n, m) PROVE Current'
    <3>1. attached # None => view \in list
      BY DEF Current
    <3>2. attached' # None => view' \in list'
      BY <1>0, <2>3, <3>1 DEF Rename
    <3> QED BY <2>3, <3>2 DEF Rename, Current
  <2>4. ASSUME Leave PROVE Current'
    BY <2>4 DEF Leave, Current
  <2> QED BY <1>1, <2>1, <2>2, <2>3, <2>4 DEF Outside
<1>2. CASE Terminal
  <2>1. PICK n \in Names : ServeTerminal(n)
    BY <1>2 DEF Terminal
  <2>2. Shown(view, list) = n => view \in list
    BY <1>0 DEF Shown
  <2>3. attached' # None => view' \in list'
    BY <2>1, <2>2 DEF ServeTerminal, Current
  <2> QED BY <2>1, <2>3 DEF ServeTerminal, Current
<1>3. CASE LoseSocket
  BY <1>0, <1>3 DEF LoseSocket, Current
<1>4. CASE Poll
  BY <1>4 DEF Poll, NoFetch, Current
<1>5. CASE ServeList
  <2>1. CASE fetch' = [step |-> "served", names |-> sessions] /\ faults' = faults
    BY <1>5, <2>1 DEF ServeList, Current
  <2>2. CASE fetch' = [step |-> "served", names |-> {}] /\ faults' = faults + 1
    <3>1. faults' # 0 /\ fetch'.names = {}
      BY <1>0, <2>2
    <3> QED BY <1>5, <3>1 DEF ServeList, Current
  <2> QED BY <1>5, <2>1, <2>2 DEF ServeList
<1>6. CASE ListArrives
  <2>1. /\ fetch.step = "served" /\ list' = fetch.names /\ fetch' = NoFetch /\ view' = view
        /\ sessions' = sessions /\ ended' = ended /\ Render(view, fetch.names)
    BY <1>6 DEF ListArrives
  <2>2. attached' # None => view \in fetch.names
    BY <1>0, <2>1, RenderCurrent
  <2> QED BY <2>1, <2>2 DEF Current, NoFetch
<1>7. CASE ListFails
  BY <1>0, <1>7 DEF ListFails, NoFetch, Current
<1>8. CASE Form
  <2>1. /\ attached' = attached /\ view' = view /\ list' = list /\ ended' = ended /\ fetch' = fetch
        /\ faults' = faults \/ faults' = faults + 1
    BY <1>8 DEF Form, OpenForm, CloseForm, Submit, ServeCreate, CreateReturns, CreateFails
  <2>2. sessions \subseteq sessions'
    BY <1>8 DEF Form, OpenForm, CloseForm, Submit, ServeCreate, CreateReturns, CreateFails
  <2>3. faults' = 0 => faults = 0
    BY <1>0, <2>1
  <2> QED BY <2>1, <2>2, <2>3 DEF Current
<1>9. CASE Reload
  <2>1. list' = {} /\ fetch' = NoFetch /\ view' = view /\ Render(view, {})
    BY <1>9 DEF Reload
  <2>2. attached' = None
    BY <1>0, <2>1, RenderCurrent
  <2> QED BY <2>1, <2>2 DEF Current, NoFetch
<1>10. CASE \E v \in Names \cup {None} : Visit(v)
  <2>1. PICK v \in Names \cup {None} : Visit(v)
    BY <1>10
  <2>2. attached' # None => v \in list
    BY <1>0, <2>1, RenderCurrent DEF Visit
  <2> QED BY <2>1, <2>2 DEF Visit, Current
<1>11. CASE UNCHANGED vars
  BY <1>11 DEF vars, Current
<1> QED BY <1>1, <1>2, <1>3, <1>4, <1>5, <1>6, <1>7, <1>8, <1>9, <1>10, <1>11 DEF Next, List

\* A step takes the terminal only if the session ended, the user turned away or
\* reloaded, or a list or the socket failed.
LEMMA KeptStep ==
  ASSUME Inv, Current, [Next]_vars, NEW n \in Names,
         view = n, attached = Heard[n], {n, Heard[n]} \cap ended' = {},
         view' = view, ~left', faults' = 0, reloads' = reloads
  PROVE  attached' = Heard[n]
<1> USE DEF page, sockets, history, bounds
<1>0. /\ faults \in Nat /\ reloads \in Nat /\ None \notin Names /\ n # None
      /\ list \subseteq Names /\ fetch.names \subseteq Names
      /\ attached # None => view \in list
      /\ n \notin ended' /\ Heard[n] \notin ended'
  BY TmuxSessionsAssumption DEF Inv, Typed, TypeOK, Current
<1>1. CASE Outside
  BY <1>0, <1>1 DEF Outside, Make, End, Rename, Leave
<1>2. CASE Terminal
  <2>1. PICK m \in Names : ServeTerminal(m)
    BY <1>2 DEF Terminal
  <2>2. Shown(view, list) \in {n, None}
    BY DEF Shown
  <2>3. Shown(view, list) = m => m = n
    BY <1>0, <2>2
  <2> QED BY <2>1, <2>3 DEF ServeTerminal
<1>3. CASE LoseSocket \/ ListFails
  BY <1>0, <1>3 DEF LoseSocket, ListFails
<1>4. CASE Poll \/ ServeList \/ Form
  BY <1>4 DEF Poll, ServeList, Form, OpenForm, CloseForm, Submit, ServeCreate, CreateReturns, CreateFails
<1>5. CASE ListArrives
  <2>1. /\ fetch.step = "served" /\ ended' = ended /\ faults' = faults /\ Render(view, fetch.names)
    BY <1>5 DEF ListArrives
  <2>2. CASE attached # None
    <3>1. view \in list /\ view \in fetch.names
      BY <1>0, <2>1, <2>2 DEF Current
    <3> QED BY <1>0, <2>1, <3>1, RenderCurrent
  <2>3. CASE attached = None
    BY <2>1, <2>3 DEF Render
  <2> QED BY <2>2, <2>3
<1>6. CASE Reload
  BY <1>0, <1>6 DEF Reload
<1>7. CASE \E v \in Names \cup {None} : Visit(v)
  BY <1>7 DEF Visit
<1>8. CASE UNCHANGED vars
  BY <1>8 DEF vars
<1> QED BY <1>1, <1>2, <1>3, <1>4, <1>5, <1>6, <1>7, <1>8 DEF Next, List

\* However requests for the list, their answers and what others do in tmux
\* interleave, polling does not take the terminal of a session that did not
\* end from a user who stays, nor that of the
\* session heard in its name (sessions_.$sessionId.tsx:16-44,
\* TerminalView.tsx:258-263, session_handler.go:25-32).
THEOREM PollingKeepsTerminal == Spec => TerminalKept
<1>1. Inv /\ Current /\ [Next]_vars
      => [\A n \in Names :
            view = n /\ attached = Heard[n] /\ {n, Heard[n]} \cap ended' = {}
              /\ view' = view /\ ~left' /\ faults' = 0 /\ reloads' = reloads
              => attached' = Heard[n]]_vars
  BY KeptStep
<1> QED BY InitInv, NextInv, CurrentInit, CurrentStep, <1>1, PTL DEF Spec, TerminalKept

=============================================================================
