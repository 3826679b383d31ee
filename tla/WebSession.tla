----------------------------- MODULE WebSession -----------------------------
(* The session of the web client: the access token kept in memory by every   *)
(* tab and in localStorage by the browser (auth-state.ts), the refresh and   *)
(* retry around every request (connect.ts), the identity the pages show      *)
(* (AuthContext.tsx), and the refresh cookie that the server rotates         *)
(* (auth_service_session.go).                                                *)
(*                                                                           *)
(* There is one account. An access token is stateless, so it is represented  *)
(* by the time at which it expires; None is the absence of a token. The unit *)
(* of time is the 30 s buffer of auth-state.ts.                              *)
EXTENDS Naturals, Sequences, FiniteSets

CONSTANTS
    Tabs,           \* tabs of one browser
    Requests,       \* request slots of a tab
    Calls,          \* refresh calls of a tab that may be under way
    Lifetime,       \* lifetime of an access token
    RequestBuffer,  \* REQUEST_TOKEN_EXPIRY_BUFFER_MS
    FocusBuffer,    \* FOCUS_TOKEN_EXPIRY_BUFFER_MS
    Events,         \* which of "logout", "loss", "signin" and "stuck" (a token that is not removed) happen
    Opened,         \* when the pages open, with a stored token of time 0
    MaxClock,       \* bound on the clock
    MaxSessions,    \* bound on the refresh tokens that may be left when a user signs in
    MaxToken        \* bound on the refresh tokens that exist at a time

VARIABLES
    clock,
    live,     \* server: the refresh tokens that are stored for the user
    cookie,   \* browser: the refresh token in the cookie
    stored,   \* browser: the access token in localStorage
    mem,      \* tab: accessToken, the token in memory
    inbox,    \* tab: messages of the BroadcastChannel not yet delivered
    promise,  \* tab: refreshPromise, the refresh call that callers share
    call,     \* tab: the refresh calls
    req,      \* tab: the requests
    ctx,      \* tab: AuthContext, "start", "init", "in" or "out"
    left,     \* history: the refresh tokens that a rotation left behind
    retired,  \* history: the tab whose refresh removed a refresh token
    outrun    \* history: the tabs whose refresh was lost, or refused as another tab's had
              \* replaced the cookie

vars == <<clock, live, cookie, stored, mem, inbox, promise, call, req, ctx, left, retired, outrun>>
browser == <<cookie, stored, mem, inbox>>
history == <<left, retired, outrun>>

None == 0
NoCall == "no call"
NoTab == "no tab"
Token == 0 .. (MaxClock + Lifetime)
RefreshId == 0 .. MaxToken

\* A refresh call: what it sends, what it is given, and how far it is.
NoRefresh == [pc |-> "idle", cookie |-> None, new |-> None, token |-> None]
RefreshCall ==
    [pc : {"idle", "sent", "checked", "added", "ok", "failed"}, cookie : RefreshId, new : RefreshId, token : Token]

\* A request: how far it is, what it asks for, the token and the cookie that it
\* carries, the call that it awaits, when it was sent, and whether it is a retry.
Kind == {"read", "list", "current", "settings", "signout"}
Idle == [pc |-> "idle", kind |-> "read", token |-> None, cookie |-> None, call |-> NoCall, at |-> 0, retry |-> FALSE]
Request ==
    [pc : {"idle", "boot", "start", "token", "again", "sent", "ok", "guest", "unauth", "lost"},
     kind : Kind, token : Token, cookie : RefreshId, call : Calls \cup {NoCall}, at : 0 .. MaxClock, retry : BOOLEAN]

\* The methods outside PublicMethods: a caller without identity is refused.
Protected(kind) == kind # "list"

\* The record of who removed a refresh token is kept while a call or the browser
\* still carries that token.
Recent(by) ==
    [i \in RefreshId |->
       IF i = cookie' \/ \E t \in DOMAIN call', c \in Calls : call'[t][c].pc = "sent" /\ call'[t][c].cookie = i
       THEN by[i] ELSE NoTab]

-----------------------------------------------------------------------------
(* auth-state.ts                                                             *)

\* The stored token is taken into memory unless it has expired.
GetAccessToken(t) ==
    IF mem[t] # None THEN mem[t] ELSE IF stored > clock THEN stored ELSE None

HasStoredToken(t) == mem[t] # None \/ stored # None

IsTokenExpired(token, buffer) == token = None \/ clock + buffer >= token

\* The token is kept in memory and in localStorage and sent to the other tabs.
SetAccessToken(t, token) ==
    /\ mem' = [mem EXCEPT ![t] = token]
    /\ stored' = token
    /\ inbox' = [u \in Tabs |-> IF u = t THEN inbox[u] ELSE Append(inbox[u], token)]

\* Nothing is sent to the other tabs.
ClearAccessToken(t) ==
    /\ mem' = [mem EXCEPT ![t] = None]
    /\ stored' = None
    /\ UNCHANGED inbox

\* Another tab refreshed: its token is adopted, whatever this tab holds.
Adopt(t) ==
    /\ inbox[t] # <<>>
    /\ mem' = [mem EXCEPT ![t] = Head(inbox[t])]
    /\ inbox' = [inbox EXCEPT ![t] = Tail(@)]
    /\ UNCHANGED <<clock, live, cookie, stored, promise, call, req, ctx, history>>

-----------------------------------------------------------------------------
(* connect.ts                                                                *)

\* Mutant: every caller starts a call of its own.
StartAlways(t, c) ==
    /\ call[t][c].pc = "idle"
    /\ promise' = [promise EXCEPT ![t] = c]
    /\ call' = [call EXCEPT ![t][c] = [NoRefresh EXCEPT !.pc = "sent", !.cookie = cookie]]

\* createTokenRefreshManager: a caller awaits the call under way, or starts c.
JoinRefresh(t, c) ==
    IF promise[t] # NoCall
    THEN c = promise[t] /\ UNCHANGED <<promise, call>>
    ELSE /\ call[t][c].pc = "idle"
         /\ promise' = [promise EXCEPT ![t] = c]
         /\ call' = [call EXCEPT ![t][c] = [NoRefresh EXCEPT !.pc = "sent", !.cookie = cookie]]

\* Mutant: the state of a request that nothing handles.
SentAgain(q, token, ck) == [q EXCEPT !.pc = "resent", !.token = token]

\* A request leaves the tab with its token and the browser's cookie.
Sent(q, token, ck) ==
    [q EXCEPT !.pc = "sent", !.token = token, !.cookie = ck, !.at = clock, !.call = NoCall]

\* Mutant: no buffer before the expiry.
NeedsRefreshOnceExpired(t) ==
    LET token == GetAccessToken(t)
    IN IF token = None THEN HasStoredToken(t) ELSE IsTokenExpired(token, 0)

\* getRequestToken: with no usable token but a stored one, or with a token about
\* to expire, the request first awaits a refresh.
NeedsRefresh(t) ==
    LET token == GetAccessToken(t)
    IN IF token = None THEN HasStoredToken(t) ELSE IsTokenExpired(token, RequestBuffer)

\* authInterceptor up to next(req).
Begin(t, r) ==
    LET q == req[t][r]  token == GetAccessToken(t)
    IN /\ q.pc = "start"
       /\ mem' = [mem EXCEPT ![t] = token]
       /\ \/ /\ NeedsRefresh(t)
             /\ \E c \in Calls :
                  /\ JoinRefresh(t, c)
                  /\ req' = [req EXCEPT ![t][r].pc = "token", ![t][r].token = token, ![t][r].call = c]
          \/ /\ ~NeedsRefresh(t)
             /\ req' = [req EXCEPT ![t][r] = Sent(q, token, cookie)]
             /\ UNCHANGED <<promise, call>>
       /\ UNCHANGED <<clock, live, cookie, stored, inbox, ctx, history>>

\* A refused request is retried once after a refresh.
RetryAfterRefresh(t, r) ==
    /\ req[t][r].pc = "unauth"
    /\ ~req[t][r].retry
    /\ \E c \in Calls :
         /\ JoinRefresh(t, c)
         /\ req' = [req EXCEPT ![t][r].pc = "again", ![t][r].call = c]
    /\ UNCHANGED <<clock, live, browser, ctx, history>>

\* The page is replaced: its requests and calls are gone, with the refresh tokens
\* that these were given, and a new one starts.
NewPage(t) ==
    /\ req' = [req EXCEPT ![t] = [r \in Requests |-> Idle]]
    /\ call' = [call EXCEPT ![t] = [c \in Calls |-> NoRefresh]]
    /\ promise' = [promise EXCEPT ![t] = NoCall]
    /\ ctx' = [ctx EXCEPT ![t] = "start"]
    /\ left' = left \cup ({call[t][c].new : c \in Calls} \ {None})
    /\ UNCHANGED <<retired, outrun>>

\* redirectOnAuthFailure on a page that is not public.
RedirectOnAuthFailure(t) == ClearAccessToken(t) /\ NewPage(t)

-----------------------------------------------------------------------------
(* AuthContext.tsx                                                           *)

\* initialize: with a token the user is asked for, without one a refresh is
\* tried first. It runs when the page starts and after a sign-in.
Initialize(t, r) ==
    /\ ctx[t] = "start"
    /\ req[t][r].pc = "idle"
    /\ ctx' = [ctx EXCEPT ![t] = "init"]
    /\ mem' = [mem EXCEPT ![t] = GetAccessToken(t)]
    /\ IF GetAccessToken(t) # None
       THEN /\ req' = [req EXCEPT ![t][r] = [Idle EXCEPT !.pc = "start", !.kind = "current"]]
            /\ UNCHANGED <<promise, call>>
       ELSE \E c \in Calls :
              /\ JoinRefresh(t, c)
              /\ req' = [req EXCEPT ![t][r] = [Idle EXCEPT !.pc = "boot", !.kind = "current", !.call = c]]
    /\ UNCHANGED <<clock, live, cookie, stored, inbox, history>>

\* What a finished request means to its caller: the user leads to the settings,
\* the settings to a settled identity; a failure of either, and a sign-out
\* whatever its outcome, to the unauthenticated state.
Finish(t, r, good) ==
    LET kind == req[t][r].kind
    IN CASE kind = "current" /\ good ->
              /\ req' = [req EXCEPT ![t][r] = [Idle EXCEPT !.pc = "start", !.kind = "settings"]]
              /\ UNCHANGED <<stored, mem, inbox, ctx>>
         [] kind = "settings" /\ good ->
              /\ req' = [req EXCEPT ![t][r] = Idle]
              /\ ctx' = [ctx EXCEPT ![t] = "in"]
              /\ UNCHANGED <<stored, mem, inbox>>
         [] kind = "signout" \/ (~good /\ kind \in {"current", "settings"}) ->
              /\ ClearAccessToken(t)
              /\ req' = [req EXCEPT ![t][r] = Idle]
              /\ ctx' = [ctx EXCEPT ![t] = "out"]
         [] OTHER ->
              /\ req' = [req EXCEPT ![t][r] = Idle]
              /\ UNCHANGED <<stored, mem, inbox, ctx>>

\* A response arrives. The one of SignOut also clears the cookie.
Receive(t, r) ==
    LET q == req[t][r]
    IN /\ q.pc \in {"ok", "guest", "unauth", "lost"}
       /\ cookie' = IF q.kind = "signout" /\ q.pc = "ok" THEN None ELSE cookie
       /\ \/ q.pc \in {"ok", "guest"} /\ Finish(t, r, TRUE) /\ UNCHANGED <<promise, call, history>>
          \/ q.pc = "lost" /\ ~q.retry /\ Finish(t, r, FALSE) /\ UNCHANGED <<promise, call, history>>
          \/ q.retry /\ q.pc \in {"unauth", "lost"} /\ Finish(t, r, FALSE) /\ UNCHANGED <<promise, call, history>>
          \/ q.retry /\ q.pc \in {"unauth", "lost"} /\ RedirectOnAuthFailure(t)
       /\ UNCHANGED <<clock, live>>

-----------------------------------------------------------------------------
(* The end of a refresh call: the cookie and the token are kept, and every   *)
(* request that awaits the call goes on in the same task.                    *)

Waits(t, c, pcs) == {r \in Requests : req[t][r].pc \in pcs /\ req[t][r].call = c}

Succeeded(q, token, ck) ==
    CASE q.pc = "boot" -> [Idle EXCEPT !.pc = "start", !.kind = "current"]
      [] q.pc = "token" -> Sent(q, token, ck)
      [] OTHER -> [Sent(q, token, ck) EXCEPT !.retry = TRUE]

RefreshSucceeds(t, c) ==
    LET k == call[t][c]
        all == Waits(t, c, {"boot", "token", "again"})
    IN /\ k.pc = "ok"
       /\ cookie' = k.new
       /\ SetAccessToken(t, k.token)
       /\ call' = [call EXCEPT ![t][c] = NoRefresh]
       /\ promise' = [promise EXCEPT ![t] = NoCall]
       /\ req' = [req EXCEPT ![t] =
                    [r \in Requests |-> IF r \in all THEN Succeeded(@[r], k.token, k.new) ELSE @[r]]]
       /\ left' = IF cookie = k.cookie THEN left ELSE left \cup {cookie}
       /\ retired' = Recent(retired)
       /\ UNCHANGED <<clock, live, ctx, outrun>>

\* A failure: the boot goes on without a token, a preflight with the token it
\* had, a retry is given up and redirects, unless the page is public.
Failed(q) == IF q.pc = "boot" THEN Idle ELSE Sent(q, q.token, cookie)

\* Mutant: the requests that await the call are forgotten.
FailsWithoutResuming(t, c) ==
    /\ call[t][c].pc = "failed"
    /\ call' = [call EXCEPT ![t][c] = NoRefresh]
    /\ promise' = [promise EXCEPT ![t] = NoCall]
    /\ UNCHANGED <<clock, live, browser, req, ctx, history>>

RefreshFails(t, c) ==
    LET boot == Waits(t, c, {"boot"})
        pre == Waits(t, c, {"token"})
        again == Waits(t, c, {"again"})
    IN /\ call[t][c].pc = "failed"
       /\ \/ /\ call' = [call EXCEPT ![t][c] = NoRefresh]
             /\ promise' = [promise EXCEPT ![t] = NoCall]
             /\ req' = [req EXCEPT ![t] =
                          [r \in Requests |-> IF r \in boot \cup pre THEN Failed(@[r])
                                              ELSE IF r \in again THEN [@[r] EXCEPT !.pc = "lost", !.call = NoCall]
                                              ELSE @[r]]]
             /\ ctx' = IF boot # {} THEN [ctx EXCEPT ![t] = "out"] ELSE ctx
             /\ UNCHANGED <<stored, mem, inbox, history>>
          \/ again # {} /\ RedirectOnAuthFailure(t)
       /\ UNCHANGED <<clock, live, cookie>>

-----------------------------------------------------------------------------
(* The server                                                                *)

\* A refresh token that nobody holds (None when MaxToken are in use).
GenUUID ==
    LET used == live \cup {cookie} \cup {call[t][c].cookie : t \in Tabs, c \in Calls}
                  \cup {call[t][c].new : t \in Tabs, c \in Calls}
                  \cup {req[t][r].cookie : t \in Tabs, r \in Requests}
        free == (1 .. MaxToken) \ used
    IN IF free = {} THEN None ELSE CHOOSE i \in free : \A j \in free : i <= j

\* RefreshToken: the cookie's token is looked up, the new one is stored, and
\* only then the old one removed.
Authenticate(t, c) ==
    /\ call[t][c].pc = "sent"
    /\ \/ /\ call[t][c].cookie \in live
          /\ call' = [call EXCEPT ![t][c].pc = "checked"]
          /\ UNCHANGED outrun
       \/ /\ call[t][c].cookie \notin live
          /\ call' = [call EXCEPT ![t][c].pc = "failed"]
          /\ outrun' = IF retired[call[t][c].cookie] \in {t, NoTab} THEN outrun ELSE outrun \cup {t}
    /\ UNCHANGED <<clock, live, browser, promise, req, ctx, left>>
    /\ retired' = Recent(retired)

AddNew(t, c) ==
    /\ call[t][c].pc = "checked"
    /\ \E i \in {GenUUID} \ {None} :
         /\ live' = live \cup {i}
         /\ call' = [call EXCEPT ![t][c].pc = "added", ![t][c].new = i]
    /\ UNCHANGED <<clock, browser, promise, req, ctx, history>>

\* A removal that fails is logged, and the old token stays until it expires.
RemoveOld(t, c) ==
    LET old == call[t][c].cookie
    IN /\ call[t][c].pc = "added"
       /\ call' = [call EXCEPT ![t][c].pc = "ok", ![t][c].token = clock + Lifetime]
       /\ UNCHANGED <<clock, browser, promise, req, ctx, outrun>>
       /\ \/ /\ live' = live \ {old}
             /\ left' = left \ {old}
             /\ retired' = Recent([retired EXCEPT ![old] = t])
          \/ /\ "stuck" \in Events
             /\ left' = left \cup {old}
             /\ UNCHANGED <<live, retired>>

\* A request is answered for the user, for a guest, or refused. SignOut removes
\* the refresh token that its cookie names.
Answer(t, r) ==
    LET q == req[t][r]  known == q.token > clock
    IN /\ q.pc = "sent"
       /\ req' = [req EXCEPT ![t][r].pc = IF known THEN "ok" ELSE IF Protected(q.kind) THEN "unauth" ELSE "guest"]
       /\ live' = IF q.kind = "signout" /\ known THEN live \ {q.cookie} ELSE live
       /\ left' = left \cap live'
       /\ UNCHANGED <<clock, browser, promise, call, ctx, retired, outrun>>

\* A sign-in stores a refresh token; the answer sets the cookie and the token,
\* and initialize runs again.
SignIn(t) ==
    /\ "signin" \in Events
    /\ ctx[t] = "out"
    /\ Cardinality(live) < MaxSessions
    /\ \E i \in {GenUUID} \ {None} :
         /\ live' = live \cup {i}
         /\ cookie' = i
    /\ SetAccessToken(t, clock + Lifetime)
    /\ ctx' = [ctx EXCEPT ![t] = "start"]
    /\ UNCHANGED <<clock, promise, call, req, history>>

-----------------------------------------------------------------------------
(* The environment                                                           *)

\* useTokenRefreshOnFocus: the tab becomes visible with a token about to expire.
Focus(t) ==
    /\ ctx[t] = "in"
    /\ HasStoredToken(t)
    /\ IsTokenExpired(mem[t], FocusBuffer)
    /\ \E c \in Calls : JoinRefresh(t, c)
    /\ UNCHANGED <<clock, live, browser, req, ctx, history>>

\* The page asks for something once its identity is settled.
Ask(t, r, kind) ==
    /\ ctx[t] \in {"in", "out"}
    /\ kind = "read" => ctx[t] = "in"
    /\ kind = "signout" => "logout" \in Events /\ ctx[t] = "in"
    /\ req[t][r].pc = "idle"
    /\ req' = [req EXCEPT ![t][r] = [Idle EXCEPT !.pc = "start", !.kind = kind]]
    /\ UNCHANGED <<clock, live, browser, promise, call, ctx, history>>

\* handleSignOut leaves for the auth page after logout.
LeaveAfterLogout(t) ==
    /\ "logout" \in Events
    /\ ctx[t] = "out"
    /\ stored' = None
    /\ NewPage(t)
    /\ mem' = [mem EXCEPT ![t] = None]
    /\ UNCHANGED <<clock, live, cookie, inbox>>

\* The network loses a request or a response.
Lose(t) ==
    /\ "loss" \in Events
    /\ \/ \E r \in Requests :
            /\ req[t][r].pc \in {"sent", "ok"}
            /\ req' = [req EXCEPT ![t][r].pc = "lost"]
            /\ UNCHANGED <<call, left>>
       \/ \E c \in Calls :
            /\ call[t][c].pc \in {"sent", "ok"}
            /\ call' = [call EXCEPT ![t][c].pc = "failed"]
            /\ left' = left \cup ({call[t][c].new} \ {None})
            /\ UNCHANGED req
    /\ outrun' = outrun \cup {t}
    /\ UNCHANGED <<clock, live, browser, promise, ctx, retired>>

\* Time passes. A request reaches the server within one unit of it, and the
\* answer to a refresh comes back in the unit in which it is given.
Tick ==
    /\ clock < MaxClock
    /\ \A t \in Tabs, c \in Calls : call[t][c].pc # "ok"
    /\ \A t \in Tabs, r \in Requests : req[t][r].pc # "start"
    /\ \A t \in Tabs, r \in Requests : req[t][r].pc = "sent" => req[t][r].at = clock
    /\ clock' = clock + 1
    /\ UNCHANGED <<live, browser, promise, call, req, ctx, history>>

-----------------------------------------------------------------------------
\* A tab with a request at its start is in the middle of a task.
Between(t) == \A r \in Requests : req[t][r].pc # "start"

TabStep(t) ==
    \/ Adopt(t)
    \/ Focus(t)
    \/ SignIn(t)
    \/ LeaveAfterLogout(t)
    \/ \E r \in Requests : Initialize(t, r) \/ Receive(t, r) \/ RetryAfterRefresh(t, r)
    \/ \E r \in Requests, kind \in {"read", "list", "signout"} : Ask(t, r, kind)
    \/ \E c \in Calls : RefreshSucceeds(t, c) \/ RefreshFails(t, c)

ServerStep(t) ==
    \/ \E r \in Requests : Answer(t, r)
    \/ \E c \in Calls : Authenticate(t, c) \/ AddNew(t, c) \/ RemoveOld(t, c)

\* The browser was used before: a token is stored and the cookie is live.
Init ==
    /\ clock = Opened
    /\ live = {1}
    /\ cookie = 1
    /\ stored = Lifetime
    /\ mem = [t \in Tabs |-> None]
    /\ inbox = [t \in Tabs |-> <<>>]
    /\ promise = [t \in Tabs |-> NoCall]
    /\ call = [t \in Tabs |-> [c \in Calls |-> NoRefresh]]
    /\ req = [t \in Tabs |-> [r \in Requests |-> Idle]]
    /\ ctx = [t \in Tabs |-> "start"]
    /\ left = {} /\ retired = [i \in RefreshId |-> NoTab] /\ outrun = {}

Next ==
    \/ Tick
    \/ \E t \in Tabs :
         \/ Between(t) /\ TabStep(t)
         \/ \E r \in Requests : Begin(t, r)
         \/ ServerStep(t)
         \/ Lose(t)

\* The server answers, the network delivers or reports the loss, and the event
\* loop of a tab runs its tasks in the order in which they are queued, so that
\* none waits for ever behind others (strong fairness: a task that starts
\* disables the others while it runs). Nothing obliges the user to act, or time
\* to pass.
RequestStep(t, r) ==
    \/ Begin(t, r)
    \/ Between(t) /\ (Receive(t, r) \/ RetryAfterRefresh(t, r))
    \/ Answer(t, r)

CallStep(t, c) ==
    \/ Between(t) /\ (RefreshSucceeds(t, c) \/ RefreshFails(t, c))
    \/ Authenticate(t, c) \/ AddNew(t, c) \/ RemoveOld(t, c)

Spec ==
    /\ Init
    /\ [][Next]_vars
    /\ \A t \in Tabs, r \in Requests : SF_vars(RequestStep(t, r))
    /\ \A t \in Tabs, c \in Calls : SF_vars(CallStep(t, c))

-----------------------------------------------------------------------------
(* Properties                                                                *)

\* The state of the browser, the tabs and the server is well formed.
TypeOK ==
    /\ clock \in 0 .. MaxClock
    /\ live \subseteq RefreshId \ {None}
    /\ cookie \in RefreshId
    /\ stored \in Token
    /\ mem \in [Tabs -> Token]
    /\ inbox \in [Tabs -> Seq(Token)]
    /\ promise \in [Tabs -> Calls \cup {NoCall}]
    /\ call \in [Tabs -> [Calls -> RefreshCall]]
    /\ req \in [Tabs -> [Requests -> Request]]
    /\ ctx \in [Tabs -> {"start", "init", "in", "out"}]
    /\ left \subseteq RefreshId \ {None}
    /\ retired \in [RefreshId -> Tabs \cup {NoTab}]
    /\ outrun \subseteq Tabs

\* While the browser holds a live refresh token no page settles on being signed
\* out and no public method answers it as a guest, unless a request or a refresh of
\* the tab was lost, or its refresh was overtaken by another tab's: the single-flight
\* refresh, the preflight of getRequestToken and the retry of the interceptor
\* together keep a session that the server still accepts.
SessionKept ==
    cookie \in live =>
      \A t \in Tabs \ outrun : ctx[t] # "out" /\ \A r \in Requests : req[t][r].pc # "guest"

\* Every refresh token the server stores is the browser's, belongs to a refresh
\* under way, or was left behind: its removal failed, the answer that carried it
\* was lost, or the answer of another tab's refresh replaced it.
OneSession ==
    \A i \in live \ left :
      i = cookie \/ \E t \in Tabs, c \in Calls : call[t][c].pc # "idle" /\ i = call[t][c].new

\* A page that is signed out has no access token, in memory or stored
\* (auth-state.ts: tokens are cleared on logout or expiry).
LogoutSticks == \A t \in Tabs : ctx[t] = "out" => mem[t] = None /\ stored = None

\* The refresh token in the browser's cookie is one that the server accepts,
\* unless a refresh that is under way is about to replace it: the session of an
\* active user does not end by itself (RefreshToken's sliding window).
CookieLive ==
    \/ cookie \in live \cup {None}
    \/ \E t \in Tabs, c \in Calls : call[t][c].pc # "idle" /\ call[t][c].new \in live

\* Every request is answered, refused or given up: nothing awaits a refresh for
\* ever, whoever started it and however it ended.
RequestsEnd == \A t \in Tabs, r \in Requests : req[t][r].pc # "idle" ~> req[t][r].pc = "idle"
=============================================================================
