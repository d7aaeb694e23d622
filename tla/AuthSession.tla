----------------------------- MODULE AuthSession -----------------------------
(***************************************************************************)
(* The login session: two cookies in the browser, the server's checks of   *)
(* them, and the page that logs in, checks, calls the API and logs out.    *)
(*                                                                         *)
(* The API client (request in client.ts) answers a 401 by refreshing and   *)
(* retrying once; several requests do so at the same time, and a logout, a *)
(* login or an expiry may fall between any two of their legs.  A call is   *)
(* sent with the cookies of that moment, served later, and its Set-Cookie  *)
(* takes effect when its answer arrives.                                   *)
(*                                                                         *)
(* Access tokens are numbered as they are issued and expire in that order, *)
(* since they live equally long; a login's refresh token has the login's   *)
(* number.  A cookie that has expired is refused like one that is absent.  *)
(***************************************************************************)
EXTENDS Naturals, FiniteSets

CONSTANTS
  Requests,     \* the page's API requests, each issued at most once
  MaxLogins,    \* bound on the logins submitted, the first session's included
  MaxReloads,   \* bound on reloads of the page
  MaxLost       \* bound on calls the network loses

ASSUME AuthSessionAssumption ==
  /\ IsFiniteSet(Requests)
  /\ Requests \cap {"check", "logout", "login"} = {}
  /\ MaxLogins \in Nat \ {0}
  /\ MaxReloads \in Nat
  /\ MaxLost \in Nat

VARIABLES
  access, refresh,   \* the browser's cookies bridge_token and bridge_refresh, 0 if absent
  issued, dead,      \* access tokens issued so far; those up to `dead` have expired
  logins, lapsed,    \* refresh tokens issued so far; those up to `lapsed` have expired
  submitted,         \* login forms submitted
  page,              \* React state `status`
  stage,             \* per request: where request() is
  call,              \* the fetch each activity has under way
  executed,          \* history, per request: times its handler ran
  excused,           \* history, per request: it may be refused in the end
  signedOut,         \* history: the last session ended by a logout
  misled,            \* history: the page and the cookies were told different things
  reloads, lost

cookies == <<access, refresh>>
tokens  == <<issued, dead, logins, lapsed>>
history == <<executed, excused, signedOut, misled>>
bounds  == <<submitted, reloads, lost>>
vars == <<cookies, tokens, page, stage, call, history, bounds>>

PageStatus == {"checking", "authenticated", "unauthenticated"}
Stage == {"idle", "first", "refresh", "retry", "ok", "failed"}
Active == {"first", "refresh", "retry"}
Callers == Requests \cup {"check", "logout", "login"}

MaxTokens == MaxLogins + Cardinality(Requests)
Call == [leg : {"none", "out", "back", "body"}, cookie : 0..MaxTokens,
         answer : {"none", "ok", "error", "refused", "lost"}, token : 0..MaxTokens]

NoCall == [leg |-> "none", cookie |-> 0, answer |-> "none", token |-> 0]

\* fetch: the browser attaches the cookie of the endpoint's path.
Fetch(cookie) == [NoCall EXCEPT !.leg = "out", !.cookie = cookie]

Accepted(tok) == tok > dead
Renewable(tok) == tok > lapsed

\* A browser that has, or has not, a session from an earlier visit.
Init ==
  /\ issued = 1 /\ logins = 1 /\ submitted = 1
  /\ dead \in {0, 1} /\ lapsed = 0
  /\ \/ access = 1 /\ refresh = 1
     \/ access = 0 /\ refresh \in {0, 1}
  /\ page = "checking"
  /\ stage = [r \in Requests |-> "idle"]
  /\ call = [c \in Callers |-> IF c = "check" THEN Fetch(access) ELSE NoCall]
  /\ executed = [r \in Requests |-> 0]
  /\ excused = [r \in Requests |-> FALSE]
  /\ signedOut = FALSE /\ misled = FALSE
  /\ reloads = 0 /\ lost = 0

-----------------------------------------------------------------------------
\* The server.

Arrived(c) == call[c].leg = "out"
Answer(c, a, tok) ==
  call' = [call EXCEPT ![c] = [leg |-> "back", cookie |-> 0, answer |-> a, token |-> tok]]

\* Handlers behind auth.Middleware: Logout, and Me, which may find no user row or
\* no database.
ServeProtected(c) ==
  /\ c \in {"check", "logout"} /\ Arrived(c)
  /\ \/ Accepted(call[c].cookie) /\ Answer(c, "ok", 0)
     \/ Accepted(call[c].cookie) /\ c = "check" /\ Answer(c, "error", 0)
     \/ ~Accepted(call[c].cookie) /\ Answer(c, "refused", 0)
  /\ UNCHANGED <<cookies, tokens, page, stage, history, bounds>>

\* Any other handler behind the middleware, which may answer an error of its own.
ServeRequest(r) ==
  /\ stage[r] \in {"first", "retry"} /\ Arrived(r)
  /\ IF Accepted(call[r].cookie)
     THEN /\ \E a \in {"ok", "error"} : Answer(r, a, 0)
          /\ executed' = [executed EXCEPT ![r] = @ + 1]
     ELSE Answer(r, "refused", 0) /\ UNCHANGED executed
  /\ UNCHANGED <<cookies, tokens, page, stage, excused, signedOut, misled, bounds>>

\* Mutant: a refresh issues a new refresh token as well.
ServeRefreshRotates(r) ==
  /\ stage[r] = "refresh" /\ Arrived(r)
  /\ IF Renewable(call[r].cookie)
     THEN issued' = issued + 1 /\ logins' = logins + 1 /\ Answer(r, "ok", issued + 1)
     ELSE UNCHANGED <<issued, logins>> /\ Answer(r, "refused", 0)
  /\ UNCHANGED <<cookies, dead, lapsed, page, stage, history, bounds>>

\* Refresh issues an access token and keeps the refresh token.
ServeRefresh(r) ==
  /\ stage[r] = "refresh" /\ Arrived(r)
  /\ IF Renewable(call[r].cookie)
     THEN issued' = issued + 1 /\ Answer(r, "ok", issued + 1)
     ELSE UNCHANGED issued /\ Answer(r, "refused", 0)
  /\ UNCHANGED <<cookies, dead, logins, lapsed, page, stage, history, bounds>>

\* Login issues both, or refuses the password.
ServeLogin ==
  /\ Arrived("login")
  /\ \/ /\ issued' = issued + 1 /\ logins' = logins + 1
        /\ Answer("login", "ok", issued + 1)
     \/ UNCHANGED <<issued, logins>> /\ Answer("login", "refused", 0)
  /\ UNCHANGED <<cookies, dead, lapsed, page, stage, history, bounds>>

\* Fifteen minutes pass for the oldest access token ...
Carries(r, tok) ==
  \/ stage[r] = "refresh" /\ call[r].token = tok
  \/ stage[r] = "retry" /\ call[r].cookie = tok

ExpireAccess ==
  /\ dead < issued
  /\ dead' = dead + 1
  /\ excused' = [r \in Requests |-> excused[r] \/ Carries(r, dead + 1)]
  /\ UNCHANGED <<cookies, issued, logins, lapsed, page, stage, call, executed,
                 signedOut, misled, bounds>>

\* ... or seven days for the oldest refresh token.
Uses(r, tok) ==
  \/ stage[r] = "first" /\ refresh = tok
  \/ stage[r] = "refresh" /\ call[r].cookie = tok

ExpireRefresh ==
  /\ lapsed < logins
  /\ lapsed' = lapsed + 1
  /\ excused' = [r \in Requests |-> excused[r] \/ Uses(r, lapsed + 1)]
  /\ UNCHANGED <<cookies, issued, dead, logins, page, stage, call, executed,
                 signedOut, misled, bounds>>

\* The network loses a call, before or after it was served.
Lose(c) ==
  /\ lost < MaxLost
  /\ lost' = lost + 1
  /\ call[c].leg \in {"out", "back"} /\ call[c].answer # "lost"
  /\ Answer(c, "lost", 0)
  /\ UNCHANGED <<cookies, tokens, page, stage, history, submitted, reloads>>

-----------------------------------------------------------------------------
\* The page.

Returned(c) == call[c].leg = "back"
Got(c, a) == Returned(c) /\ call[c].answer = a

\* A query or a mutation of a signed-in page.
StartRequest(r) ==
  /\ page = "authenticated" /\ stage[r] = "idle"
  /\ stage' = [stage EXCEPT ![r] = "first"]
  /\ call' = [call EXCEPT ![r] = Fetch(access)]
  /\ excused' = [excused EXCEPT ![r] = ~Renewable(refresh)]
  /\ UNCHANGED <<cookies, tokens, page, executed, signedOut, misled, bounds>>

\* Mutant: any answer but success is taken for an expired session.
RefreshAndRetryAlways(r) ==
  /\ stage[r] = "first" /\ Returned(r) /\ call[r].answer \in {"refused", "error"}
  /\ stage' = [stage EXCEPT ![r] = "refresh"]
  /\ call' = [call EXCEPT ![r] = Fetch(refresh)]
  /\ UNCHANGED <<cookies, tokens, page, history, bounds>>

\* A 401 sends the request to refresh ...
RefreshOn401(r) ==
  /\ stage[r] = "first" /\ Got(r, "refused")
  /\ stage' = [stage EXCEPT ![r] = "refresh"]
  /\ call' = [call EXCEPT ![r] = Fetch(refresh)]
  /\ UNCHANGED <<cookies, tokens, page, history, bounds>>

\* Mutant: the refreshed token is not stored before the retry.
RetryStale(r) ==
  /\ stage[r] = "refresh" /\ Got(r, "ok")
  /\ UNCHANGED access
  /\ stage' = [stage EXCEPT ![r] = "retry"]
  /\ call' = [call EXCEPT ![r] = Fetch(access)]
  /\ UNCHANGED <<refresh, tokens, page, history, bounds>>

\* ... whose answer sets the access cookie and starts the one retry.
Retry(r) ==
  /\ stage[r] = "refresh" /\ Got(r, "ok")
  /\ access' = call[r].token
  /\ stage' = [stage EXCEPT ![r] = "retry"]
  /\ call' = [call EXCEPT ![r] = Fetch(call[r].token)]
  /\ UNCHANGED <<refresh, tokens, page, history, bounds>>

\* Every other answer is the caller's.
Finish(r) ==
  /\ Returned(r)
  /\ \/ stage[r] = "first" /\ call[r].answer # "refused"
     \/ stage[r] = "refresh" /\ call[r].answer # "ok"
     \/ stage[r] = "retry"
  /\ stage' = [stage EXCEPT ![r] = IF call[r].answer = "ok" THEN "ok" ELSE "failed"]
  /\ call' = [call EXCEPT ![r].leg = "none", ![r].token = 0]
  /\ UNCHANGED <<cookies, tokens, page, history, bounds>>

\* AuthProvider's effect: whatever is not an ok shows the login page, also when
\* a login has succeeded in the meantime; an ok whose body cannot be read shows
\* nothing new.
CheckReturns ==
  /\ Returned("check")
  /\ page' \in IF call["check"].answer = "ok" THEN {"authenticated", page} ELSE {"unauthenticated"}
  /\ misled' = \/ misled
                \/ call["check"].answer \in {"lost", "error"}
                \/ (page = "authenticated" /\ call["check"].answer # "ok")
  /\ call' = [call EXCEPT !["check"] = NoCall]
  /\ UNCHANGED <<cookies, tokens, stage, executed, excused, signedOut, bounds>>

Logout ==
  /\ page = "authenticated" /\ call["logout"].leg = "none"
  /\ call' = [call EXCEPT !["logout"] = Fetch(access)]
  /\ UNCHANGED <<cookies, tokens, page, stage, history, bounds>>

\* Mutant: the refresh cookie is cleared under another path than it was set.
LogoutReturnsKeepsRefresh ==
  /\ Returned("logout")
  /\ IF call["logout"].answer = "ok"
     THEN /\ access' = 0 /\ UNCHANGED refresh
          /\ misled' = \E r \in Requests : stage[r] = "refresh"
     ELSE UNCHANGED cookies /\ misled' = TRUE
  /\ signedOut' = TRUE
  /\ excused' = [r \in Requests |-> excused[r] \/ stage[r] \in Active]
  /\ page' = "unauthenticated"
  /\ call' = [call EXCEPT !["logout"] = NoCall]
  /\ UNCHANGED <<tokens, stage, executed, bounds>>

\* logout() shows the login page whatever the answer; the cookies are cleared
\* only by an answer of the handler, which an expired access token never
\* reaches.  A refresh under way will set the access cookie again.
LogoutReturns ==
  /\ Returned("logout")
  /\ IF call["logout"].answer = "ok"
     THEN /\ access' = 0 /\ refresh' = 0
          /\ misled' = \E r \in Requests : stage[r] = "refresh"
     ELSE UNCHANGED cookies /\ misled' = TRUE
  /\ signedOut' = TRUE
  /\ excused' = [r \in Requests |-> excused[r] \/ stage[r] \in Active]
  /\ page' = "unauthenticated"
  /\ call' = [call EXCEPT !["logout"] = NoCall]
  /\ UNCHANGED <<tokens, stage, executed, bounds>>

Login ==
  /\ page # "authenticated" /\ call["login"].leg = "none" /\ submitted < MaxLogins
  /\ submitted' = submitted + 1
  /\ call' = [call EXCEPT !["login"] = Fetch(access)]
  /\ UNCHANGED <<cookies, tokens, page, stage, history, reloads, lost>>

\* The login form: the headers set the cookies, and the refresh token is the one
\* of the last login served ...
LoginReturns ==
  /\ Returned("login")
  /\ IF call["login"].answer = "ok"
     THEN /\ access' = call["login"].token /\ refresh' = logins
          /\ signedOut' = FALSE /\ misled' = FALSE
          /\ call' = [call EXCEPT !["login"] = [NoCall EXCEPT !.leg = "body"]]
     ELSE UNCHANGED <<cookies, signedOut, misled>> /\ call' = [call EXCEPT !["login"] = NoCall]
  /\ UNCHANGED <<tokens, page, stage, executed, excused, bounds>>

\* Mutant: the page is not told of the login.
LoginBodyIgnored ==
  /\ call["login"].leg = "body"
  /\ call' = [call EXCEPT !["login"] = NoCall]
  /\ UNCHANGED <<cookies, tokens, page, stage, history, bounds>>

\* ... and the body signs the page in, unless it cannot be read.
LoginBody ==
  /\ call["login"].leg = "body"
  /\ \/ page' = "authenticated" /\ UNCHANGED misled
     \/ UNCHANGED page /\ misled' = (misled \/ page # "authenticated")
  /\ call' = [call EXCEPT !["login"] = NoCall]
  /\ UNCHANGED <<cookies, tokens, stage, executed, excused, signedOut, bounds>>

\* A reload abandons what is under way and checks again, without refreshing.
Reload ==
  /\ reloads < MaxReloads
  /\ reloads' = reloads + 1
  /\ page' = "checking"
  /\ stage' = [r \in Requests |-> IF stage[r] \in Active THEN "failed" ELSE stage[r]]
  /\ call' = [c \in Callers |-> IF c = "check" THEN Fetch(access) ELSE NoCall]
  /\ UNCHANGED <<cookies, tokens, history, submitted, lost>>

-----------------------------------------------------------------------------
Serve(c) ==
  \/ ServeProtected(c)
  \/ c \in Requests /\ (ServeRequest(c) \/ ServeRefresh(c))
  \/ c = "login" /\ ServeLogin

Continue(r) == RefreshOn401(r) \/ Retry(r) \/ Finish(r)

Next ==
  \/ \E c \in Callers : Serve(c) \/ Lose(c)
  \/ \E r \in Requests : StartRequest(r) \/ Continue(r)
  \/ CheckReturns \/ Logout \/ LogoutReturns \/ Login \/ LoginReturns \/ LoginBody \/ Reload
  \/ ExpireAccess \/ ExpireRefresh

Spec == Init /\ [][Next]_vars

-----------------------------------------------------------------------------
\* Every variable keeps its type; tokens are issued at most once per login and
\* request, and none expires before it is issued.
TypeOK ==
  /\ access \in 0..MaxTokens /\ refresh \in 0..MaxLogins
  /\ issued \in 0..MaxTokens /\ dead \in 0..issued
  /\ logins \in 0..MaxLogins /\ lapsed \in 0..logins
  /\ page \in PageStatus
  /\ stage \in [Requests -> Stage]
  /\ call \in [Callers -> Call]
  /\ executed \in [Requests -> Nat]
  /\ excused \in [Requests -> BOOLEAN]
  /\ signedOut \in BOOLEAN /\ misled \in BOOLEAN
  /\ submitted \in 0..MaxLogins /\ reloads \in 0..MaxReloads /\ lost \in 0..MaxLost

\* The automatic retry (client.ts:17-30) never runs a handler twice, however
\* requests, refreshes, logins and expiries interleave.
ExecutedOnce == \A r \in Requests : executed[r] <= 1

\* A request ends in a 401 only when it had to: its refresh token was absent
\* or expired, the token it had just been given expired before it was served,
\* or a logout cut in.  Concurrent refreshes do not get in each other's way.
RefreshRescues ==
  \A r \in Requests : stage[r] = "failed" /\ call[r].answer = "refused" => excused[r]

\* After a logout that the handler answered, with no refresh under way, no
\* cookie comes back until the next login, although requests of the old
\* session may still be running.
LogoutHolds == signedOut /\ ~misled => access = 0 /\ refresh = 0

\* The same without the proviso: "Clear both cookies" (auth_handler.go:108).
LogoutClears == signedOut => access = 0 /\ refresh = 0

\* A page that asks for a password holds no access cookie that would still be
\* accepted, unless a check was lost, came late or failed behind the middleware
\* (auth_handler.go:160), a login's body is still to be read or could not be
\* (LoginForm.tsx:28), a logout was refused or lost, or a refresh straddled one.
LoginPageHonest ==
  page = "unauthenticated" /\ Accepted(access) => misled \/ call["login"].leg = "body"

=============================================================================
