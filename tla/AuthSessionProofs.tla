-------------------------- MODULE AuthSessionProofs --------------------------
(***************************************************************************)
(* Theorems about AuthSession, for every finite set of requests and any    *)
(* number of logins, reloads and lost calls.                               *)
(***************************************************************************)
EXTENDS AuthSession, FiniteSetTheorems, TLAPS

\* Requests that have used up the one refresh they may cause.
Spent == {r \in Requests : \/ stage[r] \in {"retry", "ok", "failed"}
                           \/ stage[r] = "refresh" /\ ~Arrived(r)}

\* Tokens are issued by the logins served and by the refreshes of the spent
\* requests; a login that is still to be served has been counted.
Budget ==
  /\ issued <= logins + Cardinality(Spent)
  /\ logins <= submitted
  /\ Arrived("login") => logins < submitted

TypeInv == TypeOK /\ Budget

-----------------------------------------------------------------------------
\* Facts about the constants, calls and cardinalities.

LEMMA ConstantFacts ==
  /\ Cardinality(Requests) \in Nat
  /\ MaxLogins \in Nat /\ 1 <= MaxLogins /\ MaxTokens \in Nat
  /\ MaxLogins <= MaxTokens
  /\ 0..MaxLogins \subseteq 0..MaxTokens
BY AuthSessionAssumption, FS_CardinalityType DEF MaxTokens

LEMMA CallerFacts ==
  /\ \A r \in Requests : r \in Callers /\ r # "check" /\ r # "logout" /\ r # "login"
  /\ "check" \in Callers /\ "logout" \in Callers /\ "login" \in Callers
BY AuthSessionAssumption DEF Callers

LEMMA CallFacts ==
  /\ NoCall \in Call /\ NoCall.leg = "none" /\ NoCall.answer = "none"
  /\ \A k \in 0..MaxTokens : /\ Fetch(k) \in Call /\ Fetch(k).leg = "out"
                             /\ Fetch(k).cookie = k /\ Fetch(k).answer = "none"
<1>1. 0 \in 0..MaxTokens
  BY ConstantFacts
<1>2. NoCall \in Call /\ NoCall.leg = "none" /\ NoCall.answer = "none"
  BY <1>1 DEF NoCall, Call
<1>3. ASSUME NEW k \in 0..MaxTokens
      PROVE  /\ Fetch(k) \in Call /\ Fetch(k).leg = "out"
             /\ Fetch(k).cookie = k /\ Fetch(k).answer = "none"
  <2>1. \A x \in Call : LET y == [x EXCEPT !.leg = "out", !.cookie = k]
                       IN y \in Call /\ y.leg = "out" /\ y.cookie = k /\ y.answer = x.answer
    BY DEF Call
  <2> QED
    BY <1>2, <2>1 DEF Fetch
<1> QED
  BY <1>2, <1>3

\* An answer replaces one call and leaves the others.
LEMMA AnswerFacts ==
  ASSUME call \in [Callers -> Call], NEW c \in Callers,
         NEW a \in {"ok", "error", "refused", "lost"}, NEW k \in 0..MaxTokens, Answer(c, a, k)
  PROVE  /\ call' \in [Callers -> Call]
         /\ call'[c].leg = "back" /\ call'[c].answer = a /\ call'[c].token = k
         /\ \A d \in Callers : d # c => call'[d] = call[d]
<1>1. [leg |-> "back", cookie |-> 0, answer |-> a, token |-> k] \in Call
  BY ConstantFacts DEF Call
<1> QED
  BY <1>1 DEF Answer

\* So does sending one.
LEMMA SendFacts ==
  ASSUME call \in [Callers -> Call], NEW c \in Callers, NEW x \in Call,
         call' = [call EXCEPT ![c] = x]
  PROVE  /\ call' \in [Callers -> Call]
         /\ call'[c] = x
         /\ \A d \in Callers : d # c => call'[d] = call[d]
OBVIOUS

LEMMA SpentFacts ==
  IsFiniteSet(Spent) /\ Cardinality(Spent) \in Nat /\ Cardinality(Spent) <= Cardinality(Requests)
<1>1. Spent \subseteq Requests
  BY DEF Spent
<1> QED
  BY <1>1, AuthSessionAssumption, FS_Subset, FS_CardinalityType

\* The set of spent requests grows, and with a refresh served by one more.
LEMMA SpentGrows ==
  ASSUME Spent \subseteq Spent'
  PROVE  Cardinality(Spent') \in Nat /\ Cardinality(Spent) <= Cardinality(Spent')
<1>1. Spent' \subseteq Requests
  BY DEF Spent
<1>2. IsFiniteSet(Spent')
  BY <1>1, AuthSessionAssumption, FS_Subset
<1> QED
  BY <1>2, FS_Subset, FS_CardinalityType

LEMMA SpentOneMore ==
  ASSUME NEW r \in Requests, r \notin Spent, Spent' = Spent \cup {r}
  PROVE  Cardinality(Spent') = Cardinality(Spent) + 1
BY SpentFacts, FS_AddElement

-----------------------------------------------------------------------------
\* Type correctness.

LEMMA TypeInit == Init => TypeInv
<1> SUFFICES ASSUME Init PROVE TypeInv
  OBVIOUS
<1>1. 0 \in 0..MaxTokens /\ 1 \in 0..MaxTokens /\ 1 \in 0..MaxLogins /\ 0 \in 0..MaxLogins
  BY ConstantFacts
<1>2. call \in [Callers -> Call] /\ call["login"] = NoCall
  BY <1>1, CallFacts, CallerFacts DEF Init
<1>3. /\ stage \in [Requests -> Stage] /\ executed \in [Requests -> Nat]
      /\ excused \in [Requests -> BOOLEAN] /\ page \in PageStatus
  BY DEF Init, PageStatus, Stage
<1>4. /\ access \in 0..MaxTokens /\ refresh \in 0..MaxLogins
      /\ issued \in 0..MaxTokens /\ dead \in 0..issued
      /\ logins \in 0..MaxLogins /\ lapsed \in 0..logins
      /\ submitted \in 0..MaxLogins /\ reloads \in 0..MaxReloads /\ lost \in 0..MaxLost
  BY <1>1, AuthSessionAssumption DEF Init
<1>5. signedOut \in BOOLEAN /\ misled \in BOOLEAN
  BY DEF Init
<1>6. TypeOK
  BY <1>2, <1>3, <1>4, <1>5, Zenon DEF TypeOK
<1>7. Budget
  BY <1>2, CallFacts, SpentFacts DEF Init, Budget, Arrived
<1> QED
  BY <1>6, <1>7 DEF TypeInv

\* There is room for the token a login or a refresh is about to issue.
LEMMA RoomForToken ==
  ASSUME TypeInv
  PROVE  /\ Arrived("login") => issued + 1 \in 0..MaxTokens /\ logins + 1 \in 0..MaxLogins
         /\ \A r \in Requests : r \notin Spent => issued + 1 \in 0..MaxTokens
<1> USE ConstantFacts, SpentFacts
<1>1. issued \in Nat /\ logins \in Nat /\ submitted \in 0..MaxLogins
  BY DEF TypeInv, TypeOK
<1>2. MaxTokens = MaxLogins + Cardinality(Requests)
  BY DEF MaxTokens
<1>3. ASSUME Arrived("login")
      PROVE  issued + 1 \in 0..MaxTokens /\ logins + 1 \in 0..MaxLogins
  BY <1>1, <1>2, <1>3 DEF TypeInv, Budget
<1>4. ASSUME NEW r \in Requests, r \notin Spent
      PROVE  issued + 1 \in 0..MaxTokens
  <2>1. Spent \cup {r} \subseteq Requests
    BY DEF Spent
  <2>2. Cardinality(Spent \cup {r}) = Cardinality(Spent) + 1
    BY <1>4, FS_AddElement
  <2>3. Cardinality(Spent \cup {r}) <= Cardinality(Requests)
    BY <2>1, AuthSessionAssumption, FS_Subset
  <2> QED
    BY <1>1, <1>2, <2>2, <2>3 DEF TypeInv, Budget
<1> QED
  BY <1>3, <1>4

\* A step that issues nothing, takes no login back and undoes no spending.
LEMMA BudgetStays ==
  ASSUME TypeInv, Spent \subseteq Spent', issued' = issued, logins' = logins,
         submitted' = submitted, Arrived("login")' => Arrived("login")
  PROVE  Budget'
<1>1. Cardinality(Spent) <= Cardinality(Spent') /\ Cardinality(Spent') \in Nat
  BY SpentGrows
<1> QED
  BY <1>1, SpentFacts DEF TypeInv, TypeOK, Budget

LEMMA TypeServe ==
  ASSUME TypeInv, NEW c \in Callers, Serve(c) \/ Lose(c)
  PROVE  TypeInv'
<1> USE ConstantFacts, CallerFacts
<1>0. /\ call \in [Callers -> Call] /\ 0 \in 0..MaxTokens
      /\ stage \in [Requests -> Stage] /\ executed \in [Requests -> Nat]
  BY DEF TypeInv, TypeOK
<1>1. CASE ServeProtected(c)
  <2>1. \E a \in {"ok", "error", "refused", "lost"} : Answer(c, a, 0)
    BY <1>1 DEF ServeProtected
  <2>2. /\ call' \in [Callers -> Call] /\ call'[c].leg = "back"
        /\ \A d \in Callers : d # c => call'[d] = call[d]
    BY <1>0, <2>1, AnswerFacts
  <2>3. TypeOK'
    BY <1>1, <2>2 DEF TypeInv, TypeOK, ServeProtected, cookies, tokens, history, bounds
  <2>4. Spent \subseteq Spent' /\ (Arrived("login")' => Arrived("login"))
    BY <1>1, <2>2 DEF Spent, Arrived, ServeProtected
  <2>5. Budget'
    BY <1>1, <2>4, BudgetStays DEF ServeProtected, tokens, bounds
  <2> QED
    BY <2>3, <2>5 DEF TypeInv
<1>2. CASE c \in Requests /\ ServeRequest(c)
  <2>1. \E a \in {"ok", "error", "refused", "lost"} : Answer(c, a, 0)
    BY <1>2 DEF ServeRequest
  <2>2. /\ call' \in [Callers -> Call] /\ call'[c].leg = "back"
        /\ \A d \in Callers : d # c => call'[d] = call[d]
    BY <1>0, <2>1, AnswerFacts
  <2>3. executed' \in [Requests -> Nat]
    BY <1>0, <1>2 DEF ServeRequest
  <2>4. TypeOK'
    BY <1>2, <2>2, <2>3 DEF TypeInv, TypeOK, ServeRequest, cookies, tokens, bounds
  <2>5. Spent \subseteq Spent' /\ (Arrived("login")' => Arrived("login"))
    BY <1>2, <2>2 DEF Spent, Arrived, ServeRequest
  <2>6. Budget'
    BY <1>2, <2>5, BudgetStays DEF ServeRequest, tokens, bounds
  <2> QED
    BY <2>4, <2>6 DEF TypeInv
<1>3. CASE c \in Requests /\ ServeRefresh(c)
  <2>0. c \notin Spent /\ issued + 1 \in 0..MaxTokens
    BY <1>3, RoomForToken DEF Spent, ServeRefresh
  <2>1. \E a \in {"ok", "error", "refused", "lost"}, k \in 0..MaxTokens : Answer(c, a, k)
    BY <1>3, <2>0 DEF ServeRefresh
  <2>2. /\ call' \in [Callers -> Call] /\ call'[c].leg = "back"
        /\ \A d \in Callers : d # c => call'[d] = call[d]
    BY <1>0, <2>1, AnswerFacts
  <2>3. issued' \in {issued, issued + 1}
    BY <1>3 DEF ServeRefresh
  <2>4. TypeOK'
    <3>1. issued' \in 0..MaxTokens /\ dead \in 0..issued'
      BY <2>0, <2>3 DEF TypeInv, TypeOK
    <3> QED
      BY <1>3, <2>2, <3>1 DEF TypeInv, TypeOK, ServeRefresh, cookies, history, bounds
  <2>5. Spent' = Spent \cup {c} /\ (Arrived("login")' => Arrived("login"))
    BY <1>3, <2>2 DEF Spent, Arrived, ServeRefresh
  <2>6. Cardinality(Spent') = Cardinality(Spent) + 1
    BY <1>3, <2>0, <2>5, SpentOneMore
  <2>7. logins' = logins /\ submitted' = submitted
    BY <1>3 DEF ServeRefresh, bounds
  <2>8. Budget'
    BY <2>3, <2>5, <2>6, <2>7, SpentFacts DEF TypeInv, TypeOK, Budget
  <2> QED
    BY <2>4, <2>8 DEF TypeInv
<1>4. CASE c = "login" /\ ServeLogin
  <2>0. Arrived("login") /\ issued + 1 \in 0..MaxTokens /\ logins + 1 \in 0..MaxLogins
    BY <1>4, RoomForToken DEF ServeLogin
  <2>1. \E a \in {"ok", "error", "refused", "lost"}, k \in 0..MaxTokens : Answer("login", a, k)
    BY <1>4, <2>0 DEF ServeLogin
  <2>2. /\ call' \in [Callers -> Call] /\ call'["login"].leg = "back"
        /\ \A d \in Callers : d # "login" => call'[d] = call[d]
    BY <1>0, <2>1, AnswerFacts
  <2>3. \/ issued' = issued + 1 /\ logins' = logins + 1
        \/ issued' = issued /\ logins' = logins
    BY <1>4 DEF ServeLogin
  <2>4. TypeOK'
    <3>1. /\ issued' \in 0..MaxTokens /\ dead \in 0..issued'
          /\ logins' \in 0..MaxLogins /\ lapsed \in 0..logins'
      BY <2>0, <2>3 DEF TypeInv, TypeOK
    <3> QED
      BY <1>4, <2>2, <3>1 DEF TypeInv, TypeOK, ServeLogin, cookies, history, bounds
  <2>5. Spent' = Spent /\ ~Arrived("login")'
    BY <1>4, <2>2 DEF Spent, Arrived, ServeLogin
  <2>6. submitted' = submitted
    BY <1>4 DEF ServeLogin, bounds
  <2>7. Budget'
    BY <2>0, <2>3, <2>5, <2>6, SpentFacts DEF TypeInv, TypeOK, Budget
  <2> QED
    BY <2>4, <2>7 DEF TypeInv
<1>5. CASE Lose(c)
  <2>2. /\ call' \in [Callers -> Call] /\ call'[c].leg = "back"
        /\ \A d \in Callers : d # c => call'[d] = call[d]
    BY <1>0, <1>5, AnswerFacts DEF Lose
  <2>3. lost' \in 0..MaxLost
    BY <1>5, AuthSessionAssumption DEF TypeInv, TypeOK, Lose
  <2>4. TypeOK'
    BY <1>5, <2>2, <2>3 DEF TypeInv, TypeOK, Lose, cookies, tokens, history
  <2>5. Spent \subseteq Spent' /\ (Arrived("login")' => Arrived("login"))
    BY <1>5, <2>2 DEF Spent, Arrived, Lose
  <2>6. Budget'
    BY <1>5, <2>5, BudgetStays DEF Lose, tokens
  <2> QED
    BY <2>4, <2>6 DEF TypeInv
<1> QED
  BY <1>1, <1>2, <1>3, <1>4, <1>5 DEF Serve

\* A request's own steps: it is sent, refreshed, retried and ended.
LEMMA TypeRequest ==
  ASSUME TypeInv, NEW r \in Requests, StartRequest(r) \/ Continue(r)
  PROVE  TypeInv'
<1> USE ConstantFacts, CallerFacts
<1>0. /\ call \in [Callers -> Call] /\ stage \in [Requests -> Stage]
      /\ excused \in [Requests -> BOOLEAN]
      /\ access \in 0..MaxTokens /\ refresh \in 0..MaxTokens /\ 0 \in 0..MaxTokens
      /\ Fetch(access) \in Call /\ Fetch(refresh) \in Call
  BY CallFacts DEF TypeInv, TypeOK
<1>t. call[r] \in Call /\ call[r].token \in 0..MaxTokens
  BY <1>0 DEF Call
<1>1. CASE StartRequest(r)
  <2>1. /\ call' \in [Callers -> Call] /\ \A d \in Callers : d # r => call'[d] = call[d]
        /\ stage' \in [Requests -> Stage] /\ excused' \in [Requests -> BOOLEAN]
    BY <1>0, <1>1, SendFacts DEF StartRequest, Stage, Renewable
  <2>2. TypeOK'
    BY <1>1, <2>1 DEF TypeInv, TypeOK, StartRequest, cookies, tokens, bounds
  <2>3. Spent \subseteq Spent' /\ (Arrived("login")' => Arrived("login"))
    BY <1>0, <1>1, <2>1 DEF Spent, Arrived, StartRequest
  <2>4. Budget'
    BY <1>1, <2>3, BudgetStays DEF StartRequest, tokens, bounds
  <2> QED
    BY <2>2, <2>4 DEF TypeInv
<1>2. CASE RefreshOn401(r)
  <2>1. /\ call' \in [Callers -> Call] /\ \A d \in Callers : d # r => call'[d] = call[d]
        /\ stage' \in [Requests -> Stage]
    BY <1>0, <1>2, SendFacts DEF RefreshOn401, Stage
  <2>2. TypeOK'
    BY <1>2, <2>1 DEF TypeInv, TypeOK, RefreshOn401, cookies, tokens, history, bounds
  <2>3. Spent \subseteq Spent' /\ (Arrived("login")' => Arrived("login"))
    BY <1>0, <1>2, <2>1 DEF Spent, Arrived, RefreshOn401
  <2>4. Budget'
    BY <1>2, <2>3, BudgetStays DEF RefreshOn401, tokens, bounds
  <2> QED
    BY <2>2, <2>4 DEF TypeInv
<1>3. CASE Retry(r)
  <2>0. Fetch(call[r].token) \in Call
    BY <1>t, CallFacts
  <2>1. /\ call' \in [Callers -> Call] /\ \A d \in Callers : d # r => call'[d] = call[d]
        /\ stage' \in [Requests -> Stage] /\ access' \in 0..MaxTokens
    BY <1>0, <1>t, <1>3, <2>0, SendFacts DEF Retry, Stage
  <2>2. TypeOK'
    BY <1>3, <2>1 DEF TypeInv, TypeOK, Retry, tokens, history, bounds
  <2>3. Spent \subseteq Spent' /\ (Arrived("login")' => Arrived("login"))
    BY <1>0, <1>3, <2>1 DEF Spent, Arrived, Retry
  <2>4. Budget'
    BY <1>3, <2>3, BudgetStays DEF Retry, tokens, bounds
  <2> QED
    BY <2>2, <2>4 DEF TypeInv
<1>4. CASE Finish(r)
  <2>0. \A x \in Call : [x EXCEPT !.leg = "none", !.token = 0] \in Call
    BY <1>0 DEF Call
  <2>1. /\ call' = [call EXCEPT ![r] = [call[r] EXCEPT !.leg = "none", !.token = 0]]
        /\ [call[r] EXCEPT !.leg = "none", !.token = 0] \in Call
    BY <1>t, <1>4, <2>0 DEF Finish
  <2>2. /\ call' \in [Callers -> Call] /\ \A d \in Callers : d # r => call'[d] = call[d]
        /\ stage' \in [Requests -> Stage]
    BY <1>0, <1>4, <2>1, SendFacts DEF Finish, Stage
  <2>3. TypeOK'
    BY <1>4, <2>2 DEF TypeInv, TypeOK, Finish, cookies, tokens, history, bounds
  <2>4. Spent \subseteq Spent' /\ (Arrived("login")' => Arrived("login"))
    BY <1>0, <1>4, <2>2 DEF Spent, Arrived, Finish
  <2>5. Budget'
    BY <1>4, <2>4, BudgetStays DEF Finish, tokens, bounds
  <2> QED
    BY <2>3, <2>5 DEF TypeInv
<1> QED
  BY <1>1, <1>2, <1>3, <1>4 DEF Continue

\* The page's other steps, and the passing of time.
LEMMA TypePage ==
  ASSUME TypeInv,
         CheckReturns \/ Logout \/ LogoutReturns \/ Login \/ LoginReturns \/ LoginBody \/ Reload
  PROVE  TypeInv'
<1> USE ConstantFacts, CallerFacts, CallFacts
<1>0. /\ call \in [Callers -> Call] /\ stage \in [Requests -> Stage]
      /\ excused \in [Requests -> BOOLEAN] /\ access \in 0..MaxTokens
      /\ logins \in 0..MaxLogins /\ misled \in BOOLEAN
      /\ call["login"] \in Call /\ 0 \in 0..MaxTokens /\ 0 \in 0..MaxLogins
  BY DEF TypeInv, TypeOK
<1>t. call["login"].token \in 0..MaxTokens
  BY <1>0 DEF Call
<1>1. CASE CheckReturns
  <2>1. /\ call' \in [Callers -> Call] /\ \A d \in Callers : d # "check" => call'[d] = call[d]
        /\ page' \in PageStatus /\ misled' \in BOOLEAN
    <3>1. page' \in PageStatus
      BY <1>1 DEF CheckReturns, PageStatus, TypeInv, TypeOK
    <3>2. misled' \in BOOLEAN
      BY <1>0, <1>1 DEF CheckReturns
    <3> QED
      BY <1>0, <1>1, <3>1, <3>2, SendFacts DEF CheckReturns
  <2>2. TypeOK'
    BY <1>1, <2>1 DEF TypeInv, TypeOK, CheckReturns, cookies, tokens, bounds
  <2>3. Spent \subseteq Spent' /\ (Arrived("login")' => Arrived("login"))
    BY <1>1, <2>1 DEF Spent, Arrived, CheckReturns
  <2>4. Budget'
    BY <1>1, <2>3, BudgetStays DEF CheckReturns, tokens, bounds
  <2> QED
    BY <2>2, <2>4 DEF TypeInv
<1>2. CASE Logout
  <2>1. call' \in [Callers -> Call] /\ \A d \in Callers : d # "logout" => call'[d] = call[d]
    BY <1>0, <1>2, SendFacts DEF Logout
  <2>2. TypeOK'
    BY <1>2, <2>1 DEF TypeInv, TypeOK, Logout, cookies, tokens, history, bounds
  <2>3. Spent \subseteq Spent' /\ (Arrived("login")' => Arrived("login"))
    BY <1>2, <2>1 DEF Spent, Arrived, Logout
  <2>4. Budget'
    BY <1>2, <2>3, BudgetStays DEF Logout, tokens, bounds
  <2> QED
    BY <2>2, <2>4 DEF TypeInv
<1>3. CASE LogoutReturns
  <2>1. /\ call' \in [Callers -> Call] /\ \A d \in Callers : d # "logout" => call'[d] = call[d]
        /\ access' \in 0..MaxTokens /\ refresh' \in 0..MaxLogins
    BY <1>0, <1>3, SendFacts DEF LogoutReturns, TypeInv, TypeOK, cookies
  <2>m. misled' \in BOOLEAN
    BY <1>0, <1>3, Zenon DEF LogoutReturns
  <2>e. excused' \in [Requests -> BOOLEAN] /\ page' \in PageStatus
    BY <1>0, <1>3 DEF LogoutReturns, PageStatus
  <2>2. TypeOK'
    BY <1>3, <2>1, <2>m, <2>e DEF TypeInv, TypeOK, LogoutReturns, tokens, bounds
  <2>3. Spent \subseteq Spent' /\ (Arrived("login")' => Arrived("login"))
    BY <1>3, <2>1 DEF Spent, Arrived, LogoutReturns
  <2>4. Budget'
    BY <1>3, <2>3, BudgetStays DEF LogoutReturns, tokens, bounds
  <2> QED
    BY <2>2, <2>4 DEF TypeInv
<1>4. CASE Login
  <2>1. call' \in [Callers -> Call] /\ \A d \in Callers : d # "login" => call'[d] = call[d]
    BY <1>0, <1>4, SendFacts DEF Login
  <2>2. submitted' = submitted + 1 /\ submitted' \in 0..MaxLogins
    BY <1>4 DEF TypeInv, TypeOK, Login
  <2>3. TypeOK'
    BY <1>4, <2>1, <2>2 DEF TypeInv, TypeOK, Login, cookies, tokens, history
  <2>4. Spent \subseteq Spent'
    BY <1>4, <2>1 DEF Spent, Arrived, Login
  <2>5. issued' = issued /\ logins' = logins
    BY <1>4 DEF Login, tokens
  <2>6. Budget'
    BY <2>2, <2>4, <2>5, SpentGrows, SpentFacts DEF TypeInv, TypeOK, Budget
  <2> QED
    BY <2>3, <2>6 DEF TypeInv
<1>b. [NoCall EXCEPT !.leg = "body"] \in Call /\ [NoCall EXCEPT !.leg = "body"].leg = "body"
  BY <1>0 DEF NoCall, Call
<1>5. CASE LoginReturns
  <2>0. PICK x \in Call : x.leg # "out" /\ call' = [call EXCEPT !["login"] = x]
    BY <1>b, <1>5 DEF LoginReturns
  <2>1. /\ call' \in [Callers -> Call] /\ \A d \in Callers : d # "login" => call'[d] = call[d]
        /\ ~Arrived("login")'
    BY <1>0, <2>0, SendFacts DEF Arrived
  <2>2. /\ access' \in 0..MaxTokens /\ refresh' \in 0..MaxLogins
        /\ signedOut' \in BOOLEAN /\ misled' \in BOOLEAN
    BY <1>0, <1>t, <1>5 DEF LoginReturns, TypeInv, TypeOK, cookies
  <2>3. TypeOK'
    BY <1>5, <2>1, <2>2 DEF TypeInv, TypeOK, LoginReturns, tokens, bounds
  <2>4. Spent \subseteq Spent'
    BY <1>5, <2>1 DEF Spent, Arrived, LoginReturns
  <2>5. Budget'
    BY <1>5, <2>1, <2>4, BudgetStays DEF LoginReturns, tokens, bounds
  <2> QED
    BY <2>3, <2>5 DEF TypeInv
<1>7. CASE LoginBody
  <2>1. /\ call' \in [Callers -> Call] /\ \A d \in Callers : d # "login" => call'[d] = call[d]
        /\ ~Arrived("login")'
    BY <1>0, <1>7, SendFacts DEF LoginBody, Arrived
  <2>2. page' \in PageStatus /\ misled' \in BOOLEAN
    BY <1>0, <1>7 DEF LoginBody, PageStatus, TypeInv, TypeOK
  <2>3. TypeOK'
    BY <1>7, <2>1, <2>2 DEF TypeInv, TypeOK, LoginBody, cookies, tokens, bounds
  <2>4. Spent \subseteq Spent'
    BY <1>7, <2>1 DEF Spent, Arrived, LoginBody
  <2>5. Budget'
    BY <1>7, <2>1, <2>4, BudgetStays DEF LoginBody, tokens, bounds
  <2> QED
    BY <2>3, <2>5 DEF TypeInv
<1>6. CASE Reload
  <2>1. /\ call' \in [Callers -> Call] /\ \A d \in Callers : d # "check" => call'[d] = NoCall
        /\ stage' \in [Requests -> Stage]
    BY <1>0, <1>6 DEF Reload, Stage
  <2>2. reloads' \in 0..MaxReloads /\ page' \in PageStatus
    BY <1>6, AuthSessionAssumption DEF TypeInv, TypeOK, Reload, PageStatus
  <2>3. TypeOK'
    BY <1>6, <2>1, <2>2 DEF TypeInv, TypeOK, Reload, cookies, tokens, history
  <2>4. Spent \subseteq Spent' /\ (Arrived("login")' => Arrived("login"))
    BY <1>0, <1>6, <2>1 DEF Spent, Arrived, Reload, Active
  <2>5. Budget'
    BY <1>6, <2>4, BudgetStays DEF Reload, tokens
  <2> QED
    BY <2>3, <2>5 DEF TypeInv
<1> QED
  BY <1>1, <1>2, <1>3, <1>4, <1>5, <1>6, <1>7

LEMMA TypeTime ==
  ASSUME TypeInv, ExpireAccess \/ ExpireRefresh
  PROVE  TypeInv'
<1>1. CASE ExpireAccess
  <2>1. dead' \in 0..issued /\ issued' = issued
    BY <1>1 DEF TypeInv, TypeOK, ExpireAccess
  <2>2. excused' \in [Requests -> BOOLEAN]
    BY <1>1 DEF TypeInv, TypeOK, ExpireAccess, Carries
  <2>3. TypeOK'
    BY <1>1, <2>1, <2>2 DEF TypeInv, TypeOK, ExpireAccess, cookies, bounds
  <2>4. Spent' = Spent /\ (Arrived("login")' = Arrived("login"))
    BY <1>1 DEF Spent, Arrived, ExpireAccess
  <2>5. Budget'
    BY <1>1, <2>4, BudgetStays DEF ExpireAccess, bounds
  <2> QED
    BY <2>3, <2>5 DEF TypeInv
<1>2. CASE ExpireRefresh
  <2>1. lapsed' \in 0..logins /\ logins' = logins
    BY <1>2 DEF TypeInv, TypeOK, ExpireRefresh
  <2>2. excused' \in [Requests -> BOOLEAN]
    BY <1>2 DEF TypeInv, TypeOK, ExpireRefresh, Uses
  <2>3. TypeOK'
    BY <1>2, <2>1, <2>2 DEF TypeInv, TypeOK, ExpireRefresh, cookies, bounds
  <2>4. Spent' = Spent /\ (Arrived("login")' = Arrived("login"))
    BY <1>2 DEF Spent, Arrived, ExpireRefresh
  <2>5. Budget'
    BY <1>2, <2>4, BudgetStays DEF ExpireRefresh, bounds
  <2> QED
    BY <2>3, <2>5 DEF TypeInv
<1> QED
  BY <1>1, <1>2

LEMMA TypeStep == TypeInv /\ [Next]_vars => TypeInv'
<1> SUFFICES ASSUME TypeInv, [Next]_vars PROVE TypeInv'
  OBVIOUS
<1>1. CASE Next
  BY <1>1, TypeServe, TypeRequest, TypePage, TypeTime DEF Next
<1>2. CASE UNCHANGED vars
  BY <1>2 DEF vars, cookies, tokens, history, bounds, TypeInv, TypeOK, Budget, Spent, Arrived
<1> QED
  BY <1>1, <1>2

LEMMA TypeInvHolds == Spec => []TypeInv
<1>1. Init => TypeInv
  BY TypeInit
<1>2. TypeInv /\ [Next]_vars => TypeInv'
  BY TypeStep
<1> QED
  BY <1>1, <1>2, PTL DEF Spec

\* Every variable keeps its type: in particular cookies and calls only ever
\* carry tokens that were issued, at most one per login and per request, and
\* none has expired before it was issued.
THEOREM AuthTypeCorrect == Spec => []TypeOK
<1>1. TypeInv => TypeOK
  BY DEF TypeInv
<1> QED
  BY <1>1, TypeInvHolds, PTL

-----------------------------------------------------------------------------
\* What steps do to requests and their calls.

\* Most steps are not about a request.
Elsewhere ==
  \/ \E c \in Callers \ Requests : Serve(c) \/ Lose(c)
  \/ CheckReturns \/ Logout \/ LogoutReturns \/ Login \/ LoginReturns \/ LoginBody
  \/ ExpireAccess \/ ExpireRefresh

LEMMA ElsewhereFacts ==
  ASSUME TypeInv, Elsewhere
  PROVE  stage' = stage /\ executed' = executed /\ \A r \in Requests : call'[r] = call[r]
<1> USE CallerFacts
<1>0. call \in [Callers -> Call] /\ \A r \in Requests : call[r] \in Call
  BY DEF TypeInv, TypeOK
<1>1. ASSUME NEW c \in Callers \ Requests, Serve(c) \/ Lose(c)
      PROVE  stage' = stage /\ executed' = executed /\ \A r \in Requests : call'[r] = call[r]
  BY <1>0, <1>1 DEF Serve, ServeProtected, ServeLogin, Lose, Answer, history
<1>2. CASE CheckReturns \/ Logout \/ LogoutReturns \/ Login \/ LoginReturns \/ LoginBody
  BY <1>0, <1>2 DEF CheckReturns, Logout, LogoutReturns, Login, LoginReturns, LoginBody, history
<1>3. CASE ExpireAccess \/ ExpireRefresh
  BY <1>3 DEF ExpireAccess, ExpireRefresh
<1> QED
  BY <1>1, <1>2, <1>3 DEF Elsewhere

LEMMA AnsweredElsewhere ==
  ASSUME TypeInv, NEW c \in Callers \ Requests, Serve(c) \/ Lose(c)
  PROVE  /\ access' = access /\ refresh' = refresh /\ dead' = dead /\ lapsed' = lapsed
         /\ logins <= logins' /\ page' = page
         /\ misled' = misled /\ signedOut' = signedOut /\ excused' = excused
         /\ call["login"].leg = "body" => call'["login"] = call["login"]
<1>1. CASE ServeProtected(c)
  BY <1>1, CallerFacts DEF ServeProtected, Answer, Arrived, cookies, tokens, history, TypeInv, TypeOK
<1>2. CASE c = "login" /\ ServeLogin
  BY <1>2 DEF ServeLogin, Arrived, cookies, history, TypeInv, TypeOK
<1>3. CASE Lose(c)
  BY <1>3, CallerFacts DEF Lose, Answer, cookies, tokens, history, TypeInv, TypeOK
<1> QED
  BY <1>1, <1>2, <1>3 DEF Serve

LEMMA NextSplit ==
  Next => \/ Elsewhere \/ Reload
          \/ \E r \in Requests : \/ ServeRequest(r) \/ ServeRefresh(r) \/ Lose(r)
                                 \/ StartRequest(r) \/ Continue(r)
<1> SUFFICES ASSUME Next
             PROVE  \/ Elsewhere \/ Reload
                    \/ \E r \in Requests : \/ ServeRequest(r) \/ ServeRefresh(r) \/ Lose(r)
                                           \/ StartRequest(r) \/ Continue(r)
  OBVIOUS
<1>1. ASSUME NEW c \in Requests, Serve(c)
      PROVE  ServeRequest(c) \/ ServeRefresh(c)
  BY <1>1, CallerFacts DEF Serve, ServeProtected
<1> QED
  BY <1>1 DEF Next, Elsewhere

\* The server's answers and the network's losses: what comes back to a request.
LEMMA AnsweredFacts ==
  ASSUME TypeInv, NEW r \in Requests, ServeRequest(r) \/ ServeRefresh(r) \/ Lose(r)
  PROVE  /\ stage' = stage /\ cookies' = cookies /\ call'[r].leg = "back"
         /\ page' = page /\ dead' = dead /\ lapsed' = lapsed
         /\ excused' = excused /\ misled' = misled /\ signedOut' = signedOut
         /\ \A s \in Requests : s # r => call'[s] = call[s]
         /\ call'["check"] = call["check"] /\ call'["logout"] = call["logout"]
         /\ call'["login"] = call["login"]
         /\ Lose(r) => call'[r].answer = "lost" /\ executed' = executed
         /\ ServeRefresh(r) => /\ executed' = executed
                               /\ \/ Renewable(call[r].cookie) /\ call'[r].token = issued + 1
                                  \/ call'[r].answer = "refused"
         /\ ServeRequest(r) => \/ /\ call'[r].answer \in {"ok", "error"}
                                  /\ executed' = [executed EXCEPT ![r] = @ + 1]
                               \/ /\ call'[r].answer = "refused" /\ executed' = executed
                                  /\ ~Accepted(call[r].cookie)
<1> USE CallerFacts, ConstantFacts
<1>0. call \in [Callers -> Call] /\ r \in Callers
  BY DEF TypeInv, TypeOK
<1>1. CASE ServeRequest(r)
  <2>1. stage[r] \in {"first", "retry"}
    BY <1>1 DEF ServeRequest
  <2>2. ~ServeRefresh(r)
    BY <2>1 DEF ServeRefresh
  <2> QED
    BY <1>0, <1>1, <2>2
       DEF ServeRequest, Answer, Lose, history, bounds, cookies, tokens
<1>2. CASE ServeRefresh(r)
  <2>1. ~ServeRequest(r)
    BY <1>2 DEF ServeRefresh, ServeRequest
  <2> QED
    BY <1>0, <1>2, <2>1
       DEF ServeRefresh, Answer, Lose, history, bounds, cookies, tokens
<1>3. CASE Lose(r)
  BY <1>0, <1>3
     DEF Lose, Answer, history, cookies, tokens, ServeRequest, ServeRefresh, bounds
<1> QED
  BY <1>1, <1>2, <1>3

\* The requests' own steps: what is sent, and what is kept.
LEMMA ContinuedFacts ==
  ASSUME TypeInv, NEW r \in Requests, StartRequest(r) \/ Continue(r)
  PROVE  /\ \A s \in Requests : s # r => call'[s] = call[s] /\ stage'[s] = stage[s]
         /\ call'["check"] = call["check"] /\ call'["logout"] = call["logout"]
         /\ call'["login"] = call["login"]
         /\ page' = page /\ dead' = dead /\ lapsed' = lapsed /\ executed' = executed
         /\ refresh' = refresh /\ misled' = misled /\ signedOut' = signedOut
         /\ \/ StartRequest(r) /\ stage'[r] = "first" /\ call'[r] = Fetch(access)
            \/ RefreshOn401(r) /\ stage'[r] = "refresh" /\ call'[r] = Fetch(refresh)
            \/ Retry(r) /\ stage'[r] = "retry" /\ call'[r] = Fetch(call[r].token)
            \/ /\ Finish(r) /\ stage'[r] \in {"ok", "failed"} /\ call'[r].leg = "none"
               /\ call'[r].answer = call[r].answer
<1> USE CallerFacts
<1>0. call \in [Callers -> Call] /\ stage \in [Requests -> Stage] /\ call[r] \in Call
  BY DEF TypeInv, TypeOK
<1>1. CASE StartRequest(r)
  BY <1>0, <1>1 DEF StartRequest, bounds, cookies, tokens
<1>2. CASE RefreshOn401(r)
  BY <1>0, <1>2 DEF RefreshOn401, history, bounds, cookies, tokens
<1>3. CASE Retry(r)
  BY <1>0, <1>3 DEF Retry, history, bounds, tokens
<1>4. CASE Finish(r)
  <2>1. \A x \in Call : LET y == [x EXCEPT !.leg = "none", !.token = 0]
                        IN y.leg = "none" /\ y.answer = x.answer
    BY DEF Call
  <2>2. call' = [call EXCEPT ![r] = [call[r] EXCEPT !.leg = "none", !.token = 0]]
    BY <1>0, <1>4 DEF Finish
  <2>3. call'[r].leg = "none" /\ call'[r].answer = call[r].answer
    BY <1>0, <2>1, <2>2
  <2> QED
    BY <1>0, <1>4, <2>2, <2>3 DEF Finish, history, bounds, cookies, tokens
<1> QED
  BY <1>1, <1>2, <1>3, <1>4 DEF Continue

LEMMA ReloadFacts ==
  ASSUME TypeInv, Reload
  PROVE  /\ \A r \in Requests : /\ call'[r] = NoCall /\ stage'[r] \notin Active
                                /\ stage'[r] # stage[r] => stage'[r] = "failed"
         /\ call'["check"] = Fetch(access) /\ call'["logout"] = NoCall
         /\ page' = "checking" /\ cookies' = cookies /\ dead' = dead /\ lapsed' = lapsed
         /\ history' = history
BY CallerFacts DEF TypeInv, TypeOK, Reload, Active, tokens, cookies, history

\* Tokens only ever expire.
LEMMA TimePasses ==
  ASSUME TypeInv, Next
  PROVE  /\ dead \in Nat /\ dead' \in Nat /\ dead <= dead'
         /\ lapsed \in Nat /\ lapsed' \in Nat /\ lapsed <= lapsed'
<1>0. dead \in Nat /\ lapsed \in Nat
  BY DEF TypeInv, TypeOK
<1>1. CASE Elsewhere
  <2>1. ASSUME NEW c \in Callers \ Requests, Serve(c) \/ Lose(c)
        PROVE  dead' = dead /\ lapsed' = lapsed
    BY <2>1, AnsweredElsewhere
  <2>2. ASSUME CheckReturns \/ Logout \/ LogoutReturns \/ Login \/ LoginReturns \/ LoginBody
        PROVE  dead' = dead /\ lapsed' = lapsed
    <3>1. tokens' = tokens
      BY <2>2, Zenon DEF CheckReturns, Logout, LogoutReturns, Login, LoginReturns, LoginBody
    <3> QED
      BY <3>1 DEF tokens
  <2>3. CASE ExpireAccess \/ ExpireRefresh
    BY <1>0, <2>3 DEF ExpireAccess, ExpireRefresh
  <2> QED
    BY <1>0, <1>1, <2>1, <2>2, <2>3 DEF Elsewhere
<1>2. CASE Reload
  BY <1>0, <1>2, ReloadFacts
<1>3. CASE \E r \in Requests : ServeRequest(r) \/ ServeRefresh(r) \/ Lose(r)
  BY <1>0, <1>3, AnsweredFacts
<1>4. CASE \E r \in Requests : StartRequest(r) \/ Continue(r)
  BY <1>0, <1>4, ContinuedFacts
<1> QED
  BY <1>1, <1>2, <1>3, <1>4, NextSplit

-----------------------------------------------------------------------------
\* A handler runs once.

\* Requests whose handler has not run: those that may still be served, and
\* those that were refused and may therefore be sent again.
Unserved(r) ==
  \/ stage[r] \in {"idle", "refresh"}
  \/ stage[r] = "first" /\ (Arrived(r) \/ call[r].answer = "refused")
  \/ stage[r] = "retry" /\ Arrived(r)

ExecInv == \A r \in Requests : executed[r] <= 1 /\ (Unserved(r) => executed[r] = 0)

LEMMA ExecKept ==
  ASSUME ExecInv, executed' = executed, \A r \in Requests : Unserved(r)' => Unserved(r)
  PROVE  ExecInv'
BY DEF ExecInv

LEMMA ExecStep == TypeInv /\ ExecInv /\ [Next]_vars => ExecInv'
<1> SUFFICES ASSUME TypeInv, ExecInv, [Next]_vars PROVE ExecInv'
  OBVIOUS
<1>1. CASE Elsewhere
  BY <1>1, ElsewhereFacts, ExecKept DEF Unserved, Arrived
<1>2. CASE Reload
  <2>1. executed' = executed
    BY <1>2, ReloadFacts DEF history
  <2>2. \A r \in Requests : Unserved(r)' => Unserved(r)
    BY <1>2, ReloadFacts DEF Unserved, Active
  <2> QED
    BY <2>1, <2>2, ExecKept
<1>3. ASSUME NEW r \in Requests, ServeRequest(r)
      PROVE  ExecInv'
  <2>1. Unserved(r) /\ executed[r] = 0
    BY <1>3 DEF ServeRequest, Unserved, ExecInv
  <2>2. \A s \in Requests : s # r => executed'[s] = executed[s] /\ (Unserved(s)' => Unserved(s))
    BY <1>3, AnsweredFacts DEF Unserved, Arrived, TypeInv, TypeOK
  <2>3. CASE call'[r].answer = "refused" /\ executed' = executed
    BY <2>1, <2>2, <2>3 DEF ExecInv
  <2>4. CASE call'[r].answer \in {"ok", "error"} /\ executed' = [executed EXCEPT ![r] = @ + 1]
    <3>1. executed'[r] = 1
      BY <2>1, <2>4 DEF TypeInv, TypeOK
    <3>2. ~Unserved(r)'
      BY <1>3, <2>4, AnsweredFacts DEF Unserved, Arrived, ServeRequest
    <3> QED
      BY <2>2, <3>1, <3>2 DEF ExecInv
  <2> QED
    BY <1>3, <2>3, <2>4, AnsweredFacts
<1>4. ASSUME NEW r \in Requests, ServeRefresh(r) \/ Lose(r)
      PROVE  ExecInv'
  <2>1. executed' = executed /\ \A s \in Requests : s # r => (Unserved(s)' => Unserved(s))
    BY <1>4, AnsweredFacts DEF Unserved, Arrived
  <2>2. Unserved(r)' => Unserved(r)
    BY <1>4, AnsweredFacts DEF Unserved, Arrived, ServeRefresh
  <2> QED
    BY <2>1, <2>2, ExecKept
<1>5. ASSUME NEW r \in Requests, StartRequest(r) \/ Continue(r)
      PROVE  ExecInv'
  <2>1. executed' = executed /\ \A s \in Requests : s # r => (Unserved(s)' => Unserved(s))
    BY <1>5, ContinuedFacts DEF Unserved, Arrived
  <2>2. Unserved(r)' => Unserved(r)
    BY <1>5, ContinuedFacts
       DEF Unserved, Arrived, StartRequest, RefreshOn401, Retry, Got, Returned
  <2> QED
    BY <2>1, <2>2, ExecKept
<1>6. CASE UNCHANGED vars
  BY <1>6 DEF vars, history, ExecInv, Unserved, Arrived
<1> QED
  BY <1>1, <1>2, <1>3, <1>4, <1>5, <1>6, NextSplit

\* The automatic retry never runs a handler twice, however many requests,
\* refreshes, logins, logouts and expiries interleave (client.ts:17-30): a
\* request is sent again only after an answer that proves it was not served.
THEOREM RetriesExecuteOnce == Spec => []ExecutedOnce
<1>1. Init => ExecInv
  BY DEF Init, ExecInv
<1>2. TypeInv /\ ExecInv /\ [Next]_vars => ExecInv'
  BY ExecStep
<1>3. ExecInv => ExecutedOnce
  BY DEF ExecInv, ExecutedOnce
<1> QED
  BY <1>1, <1>2, <1>3, TypeInvHolds, PTL DEF Spec

-----------------------------------------------------------------------------
\* A logout holds.

\* A refresh under way that will not set the access cookie.
Hopeless(r) ==
  stage[r] = "refresh" => (Arrived(r) => ~Renewable(call[r].cookie)) /\ ~Got(r, "ok")

HoldInv ==
  signedOut /\ ~misled => access = 0 /\ refresh = 0 /\ \A r \in Requests : Hopeless(r)

\* The absent cookie, numbered 0, is neither accepted nor renewed.
LEMMA AbsentRefused ==
  ASSUME TypeInv
  PROVE  ~Accepted(0) /\ ~Renewable(0)
BY DEF TypeInv, TypeOK, Accepted, Renewable

\* A hopeless refresh stays so, since refresh tokens only expire; another one
\* is hopeless if the refresh cookie is.
LEMMA HopelessStays ==
  ASSUME TypeInv, Next, NEW r \in Requests, Hopeless(r),
         stage[r] = "first" => ~Renewable(refresh)
  PROVE  Hopeless(r)'
<1>0. /\ lapsed \in Nat /\ refresh \in Nat /\ call[r].cookie \in Nat /\ call[r] \in Call
      /\ stage[r] \in Stage /\ 0..MaxTokens \subseteq Nat /\ refresh \in 0..MaxTokens
  <2>1. call[r] \in Call /\ 0..MaxTokens \subseteq Nat
    BY CallerFacts, ConstantFacts DEF TypeInv, TypeOK
  <2>2. call[r].cookie \in 0..MaxTokens
    BY <2>1 DEF Call
  <2> QED
    BY <2>1, <2>2, ConstantFacts DEF TypeInv, TypeOK
<1>1. CASE Elsewhere
  <2>1. lapsed' \in Nat /\ lapsed <= lapsed'
    BY TimePasses
  <2> QED
    BY <1>0, <1>1, <2>1, ElsewhereFacts DEF Hopeless, Arrived, Got, Returned, Renewable
<1>2. CASE Reload
  BY <1>2, ReloadFacts DEF Hopeless, Active
<1>3. ASSUME NEW q \in Requests, ServeRequest(q) \/ ServeRefresh(q) \/ Lose(q)
      PROVE  Hopeless(r)'
  <2>1. CASE q # r
    BY <1>3, <2>1, AnsweredFacts DEF Hopeless, Arrived, Got, Returned, Renewable
  <2>2. CASE q = r
    BY <1>3, <2>2, AnsweredFacts
       DEF Hopeless, Arrived, Got, Returned, Renewable, ServeRequest, ServeRefresh
  <2> QED
    BY <2>1, <2>2
<1>4. ASSUME NEW q \in Requests, StartRequest(q) \/ Continue(q)
      PROVE  Hopeless(r)'
  <2>1. CASE q # r
    BY <1>4, <2>1, ContinuedFacts DEF Hopeless, Arrived, Got, Returned, Renewable
  <2>2. CASE q = r
    BY <1>0, <1>4, <2>2, ContinuedFacts, CallFacts
       DEF Hopeless, Arrived, Got, Returned, Renewable, RefreshOn401
  <2> QED
    BY <2>1, <2>2
<1> QED
  BY <1>1, <1>2, <1>3, <1>4, NextSplit

\* The cookies change only at the answers to a refresh, a logout and a login.
LEMMA CookiesKept ==
  ASSUME TypeInv, Next, ~LogoutReturns, ~LoginReturns, \A r \in Requests : Hopeless(r)
  PROVE  access' = access /\ refresh' = refresh
<1>1. CASE Elsewhere
  <2>1. ASSUME NEW c \in Callers \ Requests, Serve(c) \/ Lose(c)
        PROVE  access' = access /\ refresh' = refresh
    BY <2>1, AnsweredElsewhere
  <2> QED
    BY <1>1, <2>1
       DEF Elsewhere, CheckReturns, Logout, Login, LoginBody, ExpireAccess, ExpireRefresh, cookies
<1>2. CASE Reload
  BY <1>2, ReloadFacts DEF cookies
<1>3. ASSUME NEW r \in Requests, ServeRequest(r) \/ ServeRefresh(r) \/ Lose(r)
      PROVE  access' = access /\ refresh' = refresh
  BY <1>3, AnsweredFacts DEF cookies
<1>4. ASSUME NEW r \in Requests, StartRequest(r) \/ Continue(r)
      PROVE  access' = access /\ refresh' = refresh
  <2>1. ~Retry(r)
    BY DEF Hopeless, Retry
  <2> QED
    BY <1>4, <2>1 DEF Continue, StartRequest, RefreshOn401, Finish, cookies
<1> QED
  BY <1>1, <1>2, <1>3, <1>4, NextSplit

LEMMA HoldStep == TypeInv /\ HoldInv /\ [Next]_vars => HoldInv'
<1> SUFFICES ASSUME TypeInv, HoldInv, [Next]_vars, signedOut', ~misled'
             PROVE  access' = 0 /\ refresh' = 0 /\ \A r \in Requests : Hopeless(r)'
  BY DEF HoldInv
<1>1. CASE LogoutReturns
  <2>1. call["logout"].answer = "ok" /\ \A r \in Requests : stage[r] # "refresh"
    BY <1>1 DEF LogoutReturns
  <2>2. \A r \in Requests : stage'[r] # "refresh"
    BY <1>1, <2>1, ElsewhereFacts DEF Elsewhere
  <2> QED
    BY <1>1, <2>1, <2>2 DEF LogoutReturns, Hopeless
<1>2. CASE LoginReturns
  <2>1. /\ signedOut /\ ~misled /\ cookies' = cookies
    BY <1>2 DEF LoginReturns, cookies
  <2>2. access = 0 /\ refresh = 0 /\ \A r \in Requests : Hopeless(r)
    BY <2>1 DEF HoldInv
  <2> QED
    BY <1>2, <2>1, <2>2, HopelessStays, AbsentRefused DEF cookies, Next
<1>3. CASE Next /\ ~LogoutReturns /\ ~LoginReturns
  <2>1. signedOut /\ ~misled
    <3>1. CASE Elsewhere
      <4>1. ASSUME NEW c \in Callers \ Requests, Serve(c) \/ Lose(c)
            PROVE  signedOut /\ ~misled
        BY <4>1, AnsweredElsewhere
      <4>2. CASE CheckReturns \/ LoginBody
        <5>1. CASE CheckReturns
          BY <5>1 DEF CheckReturns
        <5>2. CASE LoginBody
          <6>1. signedOut' = signedOut
            BY <5>2 DEF LoginBody
          <6>2. ~misled
            BY <5>2 DEF LoginBody, TypeInv, TypeOK
          <6> QED
            BY <6>1, <6>2, Zenon
        <5> QED
          BY <4>2, <5>1, <5>2
      <4>3. CASE Logout \/ Login
        <5>1. history' = history
          BY <4>3, Zenon DEF Logout, Login
        <5> QED
          BY <5>1 DEF history
      <4>4. CASE ExpireAccess \/ ExpireRefresh
        <5>1. signedOut' = signedOut /\ misled' = misled
          BY <4>4, Zenon DEF ExpireAccess, ExpireRefresh
        <5> QED
          BY <5>1, Zenon
      <4> QED
        BY <1>3, <3>1, <4>1, <4>2, <4>3, <4>4, Zenon DEF Elsewhere
    <3>2. CASE Reload
      BY <3>2, ReloadFacts DEF history
    <3> QED
      BY <1>3, <3>1, <3>2, AnsweredFacts, ContinuedFacts, NextSplit
  <2>2. access = 0 /\ refresh = 0 /\ \A r \in Requests : Hopeless(r)
    BY <2>1 DEF HoldInv
  <2> QED
    BY <1>3, <2>2, HopelessStays, AbsentRefused, CookiesKept
<1>4. CASE UNCHANGED vars
  BY <1>4 DEF vars, cookies, tokens, history, HoldInv, Hopeless, Arrived, Got, Returned, Renewable
<1> QED
  BY <1>1, <1>2, <1>3, <1>4

\* After a logout the handler answered, with no refresh under way, no cookie
\* comes back until the next login (auth_handler.go:100-127): requests of the
\* old session that are still running find no refresh token to renew.
THEOREM LogoutIsFinal == Spec => []LogoutHolds
<1>1. Init => HoldInv
  BY DEF Init, HoldInv
<1>2. TypeInv /\ HoldInv /\ [Next]_vars => HoldInv'
  BY HoldStep
<1>3. HoldInv => LogoutHolds
  BY DEF HoldInv, LogoutHolds
<1> QED
  BY <1>1, <1>2, <1>3, TypeInvHolds, PTL DEF Spec

-----------------------------------------------------------------------------
\* The login page is honest.

\* The login form has been answered and its body is still to be read.
Signing == call["login"].leg = "body"

\* While the page checks, no request or logout of it is under way, and the check
\* will be refused only if the access cookie is, or a login is setting it.
CheckInv ==
  /\ Returned("check") => call["check"].answer \in {"ok", "error", "refused", "lost"}
  /\ page = "checking" =>
       /\ \A r \in Requests : stage[r] \notin Active
       /\ call["logout"].leg = "none"
       /\ ~Signing /\ ~misled => /\ Arrived("check") => call["check"].cookie = access
                                 /\ Got("check", "refused") => ~Accepted(access)

\* A login page that was not misled has no session left, nor a request that
\* could renew it.
NoSession ==
  /\ ~Accepted(access)
  /\ \A r \in Requests : Hopeless(r) /\ (stage[r] = "first" => ~Renewable(refresh))

HonestInv == CheckInv /\ (page = "unauthenticated" /\ ~misled /\ ~Signing => NoSession)

\* What is said of the check stays true while it, the page and the access
\* cookie stay as they are.
LEMMA CheckKept ==
  ASSUME TypeInv, Next, CheckInv, page' = page, call'["check"] = call["check"],
         page = "checking" => /\ access' = access /\ call'["logout"] = call["logout"]
                              /\ \A r \in Requests : stage'[r] = stage[r]
                              /\ (Signing => Signing') /\ (misled => misled')
  PROVE  CheckInv'
<1>1. access \in Nat
  BY ConstantFacts DEF TypeInv, TypeOK
<1> QED
  BY <1>1, TimePasses DEF CheckInv, Signing, Returned, Arrived, Got, Accepted

LEMMA CheckStep == TypeInv /\ CheckInv /\ [Next]_vars => CheckInv'
<1> SUFFICES ASSUME TypeInv, CheckInv, [Next]_vars PROVE CheckInv'
  OBVIOUS
<1> USE CallerFacts
<1>0. call \in [Callers -> Call] /\ access \in 0..MaxTokens /\ page \in PageStatus
  BY DEF TypeInv, TypeOK
<1>1. ASSUME NEW c \in Callers \ Requests, Serve(c) \/ Lose(c)
      PROVE  CheckInv'
  <2>1. /\ page' = page /\ access' = access /\ dead' = dead /\ stage' = stage
        /\ misled' = misled /\ (Signing => Signing')
    BY <1>1, AnsweredElsewhere, ElsewhereFacts DEF Elsewhere, Signing
  <2>2. CASE c = "check"
    <3>1. /\ call'["check"].leg = "back" /\ call'["logout"] = call["logout"]
          /\ \/ call'["check"].answer \in {"ok", "error", "lost"}
             \/ /\ call'["check"].answer = "refused" /\ Arrived("check")
                /\ ~Accepted(call["check"].cookie)
      BY <1>0, <1>1, <2>2 DEF Serve, ServeProtected, Lose, Answer
    <3> QED
      BY <2>1, <3>1 DEF CheckInv, Returned, Arrived, Got, Accepted
  <2>3. CASE c # "check"
    <3>1. call'["check"] = call["check"]
      BY <1>0, <1>1, <2>3 DEF Serve, ServeProtected, ServeLogin, Lose, Answer
    <3>2. page = "checking" => call'["logout"] = call["logout"]
      <4>1. CASE c = "logout"
        BY <1>1, <4>1 DEF CheckInv, Serve, ServeProtected, Lose, Arrived
      <4>2. CASE c = "login"
        BY <1>0, <1>1, <4>2 DEF Serve, ServeProtected, ServeLogin, Lose, Answer
      <4> QED
        BY <2>3, <4>1, <4>2 DEF Callers
    <3> QED
      BY <2>1, <3>1, <3>2, <1>1, CheckKept DEF Next
  <2> QED
    BY <2>2, <2>3
<1>2. CASE CheckReturns
  <2>1. /\ call'["check"] = NoCall /\ call'["logout"] = call["logout"] /\ stage' = stage
        /\ page' \in {"authenticated", "unauthenticated", page}
    BY <1>0, <1>2 DEF CheckReturns
  <2> QED
    BY <2>1, CallFacts DEF CheckInv, Returned, Arrived, Got
<1>3. CASE Logout
  <2>1. call'["check"] = call["check"] /\ page' # "checking"
    BY <1>0, <1>3 DEF Logout
  <2> QED
    BY <2>1 DEF CheckInv, Returned
<1>4. CASE LogoutReturns
  <2>1. call'["check"] = call["check"] /\ page' # "checking"
    BY <1>0, <1>4 DEF LogoutReturns
  <2> QED
    BY <2>1 DEF CheckInv, Returned
<1>5. CASE Login
  <2>1. /\ call'["check"] = call["check"] /\ call'["logout"] = call["logout"]
        /\ page' = page /\ access' = access /\ stage' = stage /\ misled' = misled /\ ~Signing
    BY <1>0, <1>5 DEF Login, cookies, history, Signing
  <2> QED
    BY <1>5, <2>1, CheckKept DEF Next
<1>6. CASE LoginReturns
  <2>1. /\ call'["check"] = call["check"] /\ call'["logout"] = call["logout"]
        /\ stage' = stage /\ page' = page /\ ~Signing
    BY <1>0, <1>6 DEF LoginReturns, Returned, Signing
  <2>2. CASE call["login"].answer = "ok"
    <3>1. call'["login"].leg = "body"
      BY <1>0, <1>6, <2>2 DEF LoginReturns, NoCall
    <3> QED
      BY <2>1, <3>1 DEF CheckInv, Returned, Signing
  <2>3. CASE call["login"].answer # "ok"
    <3>1. access' = access /\ misled' = misled
      BY <1>6, <2>3 DEF LoginReturns, cookies
    <3> QED
      BY <1>6, <2>1, <3>1, CheckKept DEF Next
  <2> QED
    BY <2>2, <2>3
<1>12. CASE LoginBody
  <2>1. /\ call'["check"] = call["check"] /\ call'["logout"] = call["logout"]
        /\ stage' = stage
        /\ page' = "authenticated" \/ (page' = page /\ (page = "checking" => misled'))
    BY <1>0, <1>12 DEF LoginBody
  <2> QED
    BY <2>1 DEF CheckInv, Returned
<1>7. CASE ExpireAccess \/ ExpireRefresh
  <2>1. /\ call' = call /\ page' = page /\ access' = access /\ stage' = stage
        /\ misled' = misled
    BY <1>7 DEF ExpireAccess, ExpireRefresh, cookies
  <2> QED
    BY <1>7, <2>1, CheckKept DEF Next, Signing
<1>8. CASE Reload
  <2>1. /\ call'["check"] = Fetch(access) /\ call'["logout"] = NoCall /\ access' = access
        /\ \A r \in Requests : stage'[r] \notin Active
    BY <1>8, ReloadFacts DEF cookies
  <2> QED
    BY <1>0, <2>1, CallFacts DEF CheckInv, Returned, Arrived, Got
<1>9. ASSUME NEW r \in Requests, ServeRequest(r) \/ ServeRefresh(r) \/ Lose(r)
      PROVE  CheckInv'
  <2>1. /\ call'["check"] = call["check"] /\ call'["logout"] = call["logout"]
        /\ page' = page /\ access' = access /\ stage' = stage
        /\ call'["login"] = call["login"] /\ misled' = misled
    BY <1>9, AnsweredFacts DEF cookies
  <2> QED
    BY <1>9, <2>1, CheckKept DEF Next, Serve, Signing
<1>10. ASSUME NEW r \in Requests, StartRequest(r) \/ Continue(r)
       PROVE  CheckInv'
  <2>1. page' = page /\ call'["check"] = call["check"]
    BY <1>10, ContinuedFacts
  <2>2. page # "checking"
    BY <1>10 DEF CheckInv, StartRequest, Continue, RefreshOn401, Retry, Finish, Active
  <2> QED
    BY <1>10, <2>1, <2>2, CheckKept DEF Next
<1>11. CASE UNCHANGED vars
  BY <1>11 DEF vars, cookies, tokens, history, CheckInv, Signing, Returned, Arrived, Got, Accepted
<1> QED
  BY <1>1, <1>2, <1>3, <1>4, <1>5, <1>6, <1>7, <1>8, <1>9, <1>10, <1>11, <1>12, NextSplit DEF Elsewhere

\* Only a signed-in page starts requests.
LEMMA FirstStays ==
  ASSUME TypeInv, Next, page # "authenticated", NEW r \in Requests, stage'[r] = "first"
  PROVE  stage[r] = "first"
<1>1. CASE Elsewhere
  BY <1>1, ElsewhereFacts
<1>2. CASE Reload
  BY <1>2, ReloadFacts DEF Active
<1>3. CASE \E q \in Requests : ServeRequest(q) \/ ServeRefresh(q) \/ Lose(q)
  BY <1>3, AnsweredFacts
<1>4. ASSUME NEW q \in Requests, StartRequest(q) \/ Continue(q)
      PROVE  stage[r] = "first"
  BY <1>4, ContinuedFacts DEF StartRequest
<1> QED
  BY <1>1, <1>2, <1>3, <1>4, NextSplit

LEMMA NoSessionKept ==
  ASSUME TypeInv, Next, NoSession, ~LogoutReturns, ~LoginReturns, page # "authenticated"
  PROVE  NoSession'
<1>1. access' = access /\ refresh' = refresh
  BY CookiesKept DEF NoSession
<1>2. \A r \in Requests : Hopeless(r)'
  BY HopelessStays DEF NoSession
<1>3. access \in Nat /\ refresh \in Nat
  BY ConstantFacts DEF TypeInv, TypeOK
<1>4. ~Accepted(access)' /\ (~Renewable(refresh) => ~Renewable(refresh)')
  BY <1>1, <1>3, TimePasses DEF NoSession, Accepted, Renewable
<1> QED
  BY <1>1, <1>2, <1>4, FirstStays DEF NoSession

LEMMA HonestStep == TypeInv /\ HonestInv /\ [Next]_vars => HonestInv'
<1> SUFFICES ASSUME TypeInv, HonestInv, [Next]_vars, page' = "unauthenticated", ~misled', ~Signing'
             PROVE  NoSession'
  BY CheckStep DEF HonestInv
<1>1. CASE LogoutReturns
  <2>1. /\ call["logout"].answer = "ok" /\ access' = 0 /\ refresh' = 0
        /\ \A r \in Requests : stage[r] # "refresh"
    BY <1>1 DEF LogoutReturns
  <2>2. stage' = stage /\ dead' = dead /\ lapsed' = lapsed
    BY <1>1 DEF LogoutReturns, tokens
  <2> QED
    BY <2>1, <2>2, AbsentRefused DEF NoSession, Hopeless, Accepted, Renewable
<1>2. CASE CheckReturns
  <2>0. call'["login"] = call["login"] /\ ~Signing /\ ~misled
    BY <1>2, CallerFacts DEF CheckReturns, Signing, TypeInv, TypeOK
  <2>1. page = "unauthenticated" \/ (Got("check", "refused") /\ page # "authenticated")
    BY <1>2 DEF CheckReturns, HonestInv, CheckInv, Got
  <2>2. NoSession /\ page # "authenticated"
    <3>1. CASE page = "checking"
      BY <2>0, <2>1, <3>1 DEF HonestInv, CheckInv, NoSession, Hopeless, Active
    <3>2. CASE page = "unauthenticated"
      BY <2>0, <3>2 DEF HonestInv
    <3> QED
      BY <2>1, <3>1, <3>2 DEF TypeInv, TypeOK, PageStatus
  <2>3. ~LogoutReturns /\ ~LoginReturns
    <3>1. call'["check"] = NoCall /\ call["check"] # NoCall
      BY <1>2, CallerFacts, CallFacts DEF CheckReturns, Returned, TypeInv, TypeOK
    <3>2. LogoutReturns \/ LoginReturns => call'["check"] = call["check"]
      BY CallerFacts DEF LogoutReturns, LoginReturns, TypeInv, TypeOK
    <3> QED
      BY <3>1, <3>2
  <2> QED
    BY <1>2, <2>2, <2>3, NoSessionKept DEF Next
<1>3. CASE LoginReturns
  <2>0. call["login"].answer # "ok"
    <3>1. call["login"].answer = "ok" => call'["login"].leg = "body"
      BY <1>3, CallerFacts DEF LoginReturns, NoCall, TypeInv, TypeOK
    <3> QED
      BY <3>1 DEF Signing
  <2>1. /\ page = "unauthenticated" /\ ~misled /\ ~Signing /\ access' = access /\ refresh' = refresh
    BY <1>3, <2>0 DEF LoginReturns, cookies, Returned, Signing
  <2>2. NoSession /\ stage' = stage /\ dead' = dead /\ lapsed' = lapsed
    BY <1>3, <2>1 DEF HonestInv, LoginReturns, tokens
  <2>3. \A r \in Requests : Hopeless(r)'
    BY <1>3, <2>2, HopelessStays DEF NoSession, Next
  <2> QED
    BY <2>1, <2>2, <2>3 DEF NoSession, Accepted, Renewable
<1>6. CASE LoginBody
  BY <1>6 DEF LoginBody
<1>4. CASE Next /\ ~LogoutReturns /\ ~CheckReturns /\ ~LoginReturns /\ ~LoginBody
  <2>1. page = "unauthenticated" /\ ~misled /\ ~Signing
    <3>1. CASE Elsewhere
      <4>1. ASSUME NEW c \in Callers \ Requests, Serve(c) \/ Lose(c)
            PROVE  page = "unauthenticated" /\ ~misled /\ ~Signing
        BY <4>1, AnsweredElsewhere DEF Signing
      <4>2. CASE Logout \/ Login
        <5>1. history' = history /\ page' = page
          BY <4>2, Zenon DEF Logout, Login
        <5>2. ~Signing
          BY <4>2, CallerFacts DEF Logout, Login, Signing, TypeInv, TypeOK
        <5> QED
          BY <5>1, <5>2 DEF history
      <4>3. CASE ExpireAccess \/ ExpireRefresh
        <5>1. page' = page /\ misled' = misled /\ call' = call
          BY <4>3, Zenon DEF ExpireAccess, ExpireRefresh
        <5> QED
          BY <5>1, Zenon DEF Signing
      <4> QED
        BY <1>4, <3>1, <4>1, <4>2, <4>3, Zenon DEF Elsewhere
    <3>2. CASE Reload
      BY <3>2, ReloadFacts
    <3> QED
      BY <1>4, <3>1, <3>2, AnsweredFacts, ContinuedFacts, NextSplit DEF Signing
  <2> QED
    BY <1>4, <2>1, NoSessionKept DEF HonestInv
<1>5. CASE UNCHANGED vars
  BY <1>5 DEF vars, cookies, tokens, history, HonestInv, NoSession, Hopeless, Arrived, Got,
              Returned, Renewable, Accepted, Signing
<1> QED
  BY <1>1, <1>2, <1>3, <1>4, <1>5, <1>6

\* A page that asks for a password holds no access cookie that would still be
\* accepted, unless a check was lost, came late or failed behind the middleware,
\* a login's body is to be read or could not be, a logout was refused or lost,
\* or a refresh straddled one (auth-context.tsx:24-38, 46-52, LoginForm.tsx:18-32).
THEOREM LoginPageIsHonest == Spec => []LoginPageHonest
<1>1. Init => HonestInv
  <2> SUFFICES ASSUME Init PROVE HonestInv
    OBVIOUS
  <2>1. call["check"] = Fetch(access) /\ call["logout"] = NoCall /\ page = "checking"
    BY CallerFacts DEF Init
  <2>2. access \in 0..MaxTokens /\ \A r \in Requests : stage[r] = "idle"
    BY ConstantFacts DEF Init
  <2> QED
    BY <2>1, <2>2, CallFacts DEF HonestInv, CheckInv, Returned, Arrived, Got, Active
<1>2. TypeInv /\ HonestInv /\ [Next]_vars => HonestInv'
  BY HonestStep
<1>3. HonestInv => LoginPageHonest
  BY DEF HonestInv, NoSession, LoginPageHonest, Signing
<1> QED
  BY <1>1, <1>2, <1>3, TypeInvHolds, PTL DEF Spec

-----------------------------------------------------------------------------
\* Refreshing rescues.

\* Where an unexcused request stands, its next leg will succeed.
OnCourse(r) ==
  /\ stage[r] = "first" => Renewable(refresh)
  /\ stage[r] = "refresh" => /\ Arrived(r) => Renewable(call[r].cookie)
                             /\ Got(r, "ok") => Accepted(call[r].token)
                             /\ ~Got(r, "refused")
  /\ stage[r] = "retry" => (Arrived(r) => Accepted(call[r].cookie)) /\ ~Got(r, "refused")
  /\ stage[r] = "failed" => call[r].answer # "refused"

RescueInv ==
  /\ refresh <= logins
  /\ \A r \in Requests : excused[r] \/ OnCourse(r)

LEMMA RescueKept ==
  ASSUME RescueInv, NEW r \in Requests, stage'[r] = stage[r], call'[r] = call[r],
         dead' = dead, lapsed' = lapsed, refresh' = refresh, excused'[r] = excused[r]
  PROVE  excused'[r] \/ OnCourse(r)'
BY DEF RescueInv, OnCourse, Arrived, Got, Returned, Renewable, Accepted

LEMMA RescueStep == TypeInv /\ RescueInv /\ [Next]_vars => RescueInv'
<1> SUFFICES ASSUME TypeInv, RescueInv, [Next]_vars PROVE RescueInv'
  OBVIOUS
<1>0. /\ refresh \in Nat /\ logins \in Nat /\ lapsed \in Nat /\ dead \in Nat /\ issued \in Nat
      /\ dead <= issued /\ lapsed <= logins
      /\ excused \in [Requests -> BOOLEAN]
      /\ \A r \in Requests : call[r].cookie \in Nat /\ call[r].token \in Nat
  <2>1. \A r \in Requests : call[r] \in Call
    BY CallerFacts DEF TypeInv, TypeOK
  <2>2. \A x \in Call : x.cookie \in 0..MaxTokens /\ x.token \in 0..MaxTokens
    BY DEF Call
  <2> QED
    BY <2>1, <2>2, ConstantFacts DEF TypeInv, TypeOK
<1>1. ASSUME NEW c \in Callers \ Requests, Serve(c) \/ Lose(c)
      PROVE  RescueInv'
  <2>1. stage' = stage /\ \A r \in Requests : call'[r] = call[r]
    BY <1>1, ElsewhereFacts DEF Elsewhere
  <2>2. /\ dead' = dead /\ lapsed' = lapsed /\ refresh' = refresh /\ excused' = excused
        /\ logins <= logins' /\ logins' \in Nat
    BY <1>1, AnsweredElsewhere, TypeStep, ConstantFacts DEF TypeInv, TypeOK
  <2>3. refresh' <= logins'
    BY <1>0, <2>2 DEF RescueInv
  <2> QED
    BY <2>1, <2>2, <2>3, RescueKept DEF RescueInv
<1>2. CASE CheckReturns \/ Logout \/ Login \/ LoginBody
  <2>1. stage' = stage /\ \A r \in Requests : call'[r] = call[r]
    BY <1>2, ElsewhereFacts DEF Elsewhere
  <2>2. tokens' = tokens /\ cookies' = cookies /\ excused' = excused
    BY <1>2 DEF CheckReturns, Logout, Login, LoginBody, history
  <2> QED
    BY <2>1, <2>2, RescueKept DEF RescueInv, tokens, cookies
<1>3. CASE LogoutReturns
  <2>1. stage' = stage /\ \A r \in Requests : call'[r] = call[r]
    BY <1>3, ElsewhereFacts DEF Elsewhere
  <2>2. /\ dead' = dead /\ lapsed' = lapsed /\ logins' = logins /\ refresh' \in {refresh, 0}
        /\ \A r \in Requests : excused'[r] = (excused[r] \/ stage[r] \in Active)
    BY <1>3 DEF LogoutReturns, tokens, cookies
  <2>3. refresh' <= logins'
    BY <1>0, <2>2 DEF RescueInv
  <2>4. ASSUME NEW r \in Requests
        PROVE  excused'[r] \/ OnCourse(r)'
    BY <2>1, <2>2 DEF RescueInv, OnCourse, Active
  <2> QED
    BY <2>3, <2>4 DEF RescueInv
<1>4. CASE LoginReturns
  <2>1. stage' = stage /\ \A r \in Requests : call'[r] = call[r]
    BY <1>4, ElsewhereFacts DEF Elsewhere
  <2>2. /\ dead' = dead /\ lapsed' = lapsed /\ logins' = logins /\ refresh' \in {refresh, logins}
        /\ excused' = excused
    BY <1>4 DEF LoginReturns, tokens, cookies
  <2>3. refresh' <= logins' /\ (Renewable(refresh) => Renewable(refresh)')
    BY <1>0, <2>2 DEF RescueInv, Renewable
  <2>4. ASSUME NEW r \in Requests
        PROVE  excused'[r] \/ OnCourse(r)'
    BY <2>1, <2>2, <2>3 DEF RescueInv, OnCourse, Arrived, Got, Returned, Renewable, Accepted
  <2> QED
    BY <2>3, <2>4 DEF RescueInv
<1>5. CASE ExpireAccess
  <2>1. stage' = stage /\ \A r \in Requests : call'[r] = call[r]
    BY <1>5, ElsewhereFacts DEF Elsewhere
  <2>2. /\ dead' = dead + 1 /\ lapsed' = lapsed /\ refresh' = refresh /\ logins' = logins
        /\ \A r \in Requests : excused'[r] = (excused[r] \/ Carries(r, dead + 1))
    BY <1>5 DEF ExpireAccess, cookies
  <2>3. ASSUME NEW r \in Requests, OnCourse(r), ~Carries(r, dead + 1)
        PROVE  OnCourse(r)'
    <3>1. stage[r] = "refresh" /\ Got(r, "ok") => Accepted(call[r].token)'
      BY <1>0, <2>1, <2>2, <2>3 DEF OnCourse, Carries, Accepted
    <3>2. stage[r] = "retry" /\ Arrived(r) => Accepted(call[r].cookie)'
      BY <1>0, <2>1, <2>2, <2>3 DEF OnCourse, Carries, Accepted
    <3> QED
      BY <2>1, <2>2, <2>3, <3>1, <3>2 DEF OnCourse, Arrived, Got, Returned, Renewable
  <2> QED
    BY <2>2, <2>3 DEF RescueInv
<1>6. CASE ExpireRefresh
  <2>1. stage' = stage /\ \A r \in Requests : call'[r] = call[r]
    BY <1>6, ElsewhereFacts DEF Elsewhere
  <2>2. /\ dead' = dead /\ lapsed' = lapsed + 1 /\ refresh' = refresh /\ logins' = logins
        /\ \A r \in Requests : excused'[r] = (excused[r] \/ Uses(r, lapsed + 1))
    BY <1>6 DEF ExpireRefresh, cookies
  <2>3. ASSUME NEW r \in Requests, OnCourse(r), ~Uses(r, lapsed + 1)
        PROVE  OnCourse(r)'
    <3>1. stage[r] = "first" => Renewable(refresh)'
      BY <1>0, <2>1, <2>2, <2>3 DEF OnCourse, Uses, Renewable
    <3>2. stage[r] = "refresh" /\ Arrived(r) => Renewable(call[r].cookie)'
      BY <1>0, <2>1, <2>2, <2>3 DEF OnCourse, Uses, Renewable
    <3> QED
      BY <2>1, <2>2, <2>3, <3>1, <3>2 DEF OnCourse, Arrived, Got, Returned, Accepted
  <2> QED
    BY <2>2, <2>3 DEF RescueInv
<1>7. CASE Reload
  <2>1. /\ refresh' = refresh /\ logins' = logins /\ excused' = excused
        /\ \A r \in Requests : call'[r] = NoCall /\ stage'[r] \notin Active
    BY <1>7, ReloadFacts DEF Reload, cookies, tokens, history
  <2> QED
    BY <2>1, CallFacts DEF RescueInv, OnCourse, Active
<1>8. ASSUME NEW r \in Requests, ServeRequest(r) \/ ServeRefresh(r) \/ Lose(r)
      PROVE  RescueInv'
  <2>1. /\ stage' = stage /\ refresh' = refresh /\ excused' = excused /\ dead' = dead
        /\ lapsed' = lapsed /\ call'[r].leg = "back"
        /\ \A s \in Requests : s # r => call'[s] = call[s]
    BY <1>8, AnsweredFacts DEF cookies
  <2>2. logins' = logins
    BY <1>8 DEF ServeRequest, ServeRefresh, Lose, tokens
  <2>3. CASE Lose(r)
    <3>1. call'[r].answer = "lost"
      BY <1>8, <2>3, AnsweredFacts
    <3>2. excused'[r] \/ OnCourse(r)'
      <4>1. excused[r] \/ (stage[r] = "first" => Renewable(refresh)')
        BY <2>1 DEF RescueInv, OnCourse, Renewable
      <4> QED
        BY <2>1, <3>1, <4>1 DEF OnCourse, Arrived, Got, Returned
    <3> QED
      BY <2>1, <2>2, <3>2, RescueKept DEF RescueInv
  <2>4. CASE ServeRefresh(r)
    <3>1. /\ stage[r] = "refresh" /\ Arrived(r)
          /\ \/ Renewable(call[r].cookie) /\ call'[r].token = issued + 1
                /\ call'[r].answer = "ok"
             \/ ~Renewable(call[r].cookie)
      BY <2>4, CallerFacts DEF ServeRefresh, Answer, TypeInv, TypeOK
    <3>2. excused[r] \/ Renewable(call[r].cookie)
      BY <3>1 DEF RescueInv, OnCourse
    <3>3. call'[r].token = issued + 1 => Accepted(call[r].token)'
      BY <1>0, <2>1 DEF Accepted
    <3>4. excused'[r] \/ OnCourse(r)'
      BY <2>1, <3>1, <3>2, <3>3 DEF OnCourse, Arrived, Got, Returned
    <3> QED
      BY <2>1, <2>2, <3>4, RescueKept DEF RescueInv
  <2>5. CASE ServeRequest(r)
    <3>1. /\ stage[r] \in {"first", "retry"} /\ Arrived(r)
          /\ call'[r].answer = "refused" => ~Accepted(call[r].cookie)
      BY <1>8, <2>5, AnsweredFacts DEF ServeRequest
    <3>2. stage[r] = "retry" => excused[r] \/ Accepted(call[r].cookie)
      BY <3>1 DEF RescueInv, OnCourse
    <3>3. stage[r] = "first" => excused[r] \/ Renewable(refresh)'
      BY <2>1 DEF RescueInv, OnCourse, Renewable
    <3>4. excused'[r] \/ OnCourse(r)'
      BY <2>1, <3>1, <3>2, <3>3 DEF OnCourse, Arrived, Got, Returned
    <3> QED
      BY <2>1, <2>2, <3>4, RescueKept DEF RescueInv
  <2> QED
    BY <1>8, <2>3, <2>4, <2>5
<1>9. ASSUME NEW r \in Requests, StartRequest(r) \/ Continue(r)
      PROVE  RescueInv'
  <2>1. /\ \A s \in Requests : s # r => call'[s] = call[s] /\ stage'[s] = stage[s]
        /\ dead' = dead /\ lapsed' = lapsed /\ refresh' = refresh
    BY <1>9, ContinuedFacts
  <2>2. logins' = logins /\ \A s \in Requests : s # r => excused'[s] = excused[s]
    BY <1>0, <1>9 DEF StartRequest, Continue, RefreshOn401, Retry, Finish, tokens, history
  <2>3. excused'[r] \/ OnCourse(r)'
    <3>1. CASE StartRequest(r)
      <4>1. excused'[r] = ~Renewable(refresh) /\ stage'[r] = "first"
        BY <1>0, <3>1, <1>9 DEF StartRequest, TypeInv, TypeOK
      <4> QED
        BY <2>1, <4>1 DEF OnCourse, Renewable
    <3>2. CASE RefreshOn401(r)
      <4>1. /\ stage[r] = "first" /\ stage'[r] = "refresh" /\ call'[r] = Fetch(refresh)
            /\ excused' = excused /\ refresh \in 0..MaxTokens
        BY <3>2, CallerFacts, ConstantFacts DEF RefreshOn401, history, TypeInv, TypeOK
      <4> QED
        BY <2>1, <4>1, CallFacts DEF RescueInv, OnCourse, Arrived, Got, Returned, Renewable
    <3>3. CASE Retry(r)
      <4>1. /\ stage[r] = "refresh" /\ Got(r, "ok") /\ stage'[r] = "retry"
            /\ call'[r] = Fetch(call[r].token) /\ excused' = excused
        BY <3>3, CallerFacts DEF Retry, history, TypeInv, TypeOK
      <4>2. call[r].token \in 0..MaxTokens
        BY CallerFacts DEF TypeInv, TypeOK, Call
      <4> QED
        BY <2>1, <4>1, <4>2, CallFacts DEF RescueInv, OnCourse, Arrived, Got, Returned, Accepted
    <3>4. CASE Finish(r)
      <4>1. /\ stage[r] \in {"first", "refresh", "retry"} /\ Returned(r)
            /\ stage[r] = "first" => call[r].answer # "refused"
            /\ stage'[r] \in {"ok", "failed"} /\ excused' = excused
        BY <3>4 DEF Finish, history, TypeInv, TypeOK
      <4>2. call'[r].answer = call[r].answer
        BY <1>9, <3>4, <4>1, ContinuedFacts DEF StartRequest, RefreshOn401, Retry, Finish, Got
      <4> QED
        BY <4>1, <4>2 DEF RescueInv, OnCourse, Got
    <3> QED
      BY <1>9, <3>1, <3>2, <3>3, <3>4 DEF Continue
  <2> QED
    BY <2>1, <2>2, <2>3, RescueKept DEF RescueInv
<1>10. CASE UNCHANGED vars
  BY <1>10 DEF vars, cookies, tokens, history, RescueInv, OnCourse, Arrived, Got, Returned,
               Renewable, Accepted
<1> QED
  BY <1>1, <1>2, <1>3, <1>4, <1>5, <1>6, <1>7, <1>8, <1>9, <1>10, NextSplit DEF Elsewhere

\* A request ends in a 401 only when it had to: its refresh token was absent
\* or expired, the token it had just been given expired before it was served,
\* or a logout cut in.  Requests that refresh at the same time, each with the
\* cookie of its moment, do not get in each other's way (client.ts:17-30).
THEOREM RefreshDoesRescue == Spec => []RefreshRescues
<1>1. Init => RescueInv
  BY DEF Init, RescueInv, OnCourse
<1>2. TypeInv /\ RescueInv /\ [Next]_vars => RescueInv'
  BY RescueStep
<1>3. RescueInv => RefreshRescues
  BY DEF RescueInv, OnCourse, RefreshRescues
<1> QED
  BY <1>1, <1>2, <1>3, TypeInvHolds, PTL DEF Spec

=============================================================================
