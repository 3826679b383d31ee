------------------------------ MODULE MCPages ------------------------------
(* Parts of the web client that share no state, for TLC: the session of a     *)
(* browser, the cached memo, the paged list with its batch operations, and    *)
(* the Space that filters the pages.  A behaviour plays one instance of one   *)
(* of them (scene); the others stay in an initial state.                      *)
EXTENDS MemoBatch, TLC

CONSTANTS Scenes, Tabs, Both, Calls, Few, Requests, Spaces, Nil, Gone

VARIABLES scene,
    clock, live, cookie, token, mem, inbox, promise, call, req, ctx, left, retired, outrun,
    inSpace, memo, alive, entry, view, sent, notices, spent, raced,
    access, path, nav, stored, query, due, old, navSeen, pageSeen, asked, visits

sessionVars == <<clock, live, cookie, token, mem, inbox, promise, call, req, ctx, left, retired, outrun>>
cacheVars == <<inSpace, memo, alive, entry, view, sent, notices, spent, raced>>
scopeVars == <<access, path, nav, stored, query, due, old, navSeen, pageSeen, asked, visits>>

-----------------------------------------------------------------------------
(* The instances.  The paged list is the module extended here.  One unit of a *)
(* session's time is 30 s: a token lives for three, so that it passes through *)
(* the focus window and the request window before it expires.                 *)

\* One tab with two requests and two refresh calls.
Session == INSTANCE WebSession WITH
    Lifetime <- 3, RequestBuffer <- 1, FocusBuffer <- 2, Events <- {"stuck"},
    Opened <- 0, MaxClock <- 4, MaxSessions <- 1, MaxToken <- 6, stored <- token
\* One request, with answers that are lost.
Shaky == INSTANCE WebSession WITH
    Requests <- Few, Calls <- Few, Lifetime <- 3, RequestBuffer <- 1, FocusBuffer <- 2,
    Events <- {"loss", "stuck"},
    Opened <- 0, MaxClock <- 3, MaxSessions <- 1, MaxToken <- 6, stored <- token
\* Two tabs with one request each.
Pair == INSTANCE WebSession WITH
    Tabs <- Both, Requests <- Few, Calls <- Few, Lifetime <- 3, RequestBuffer <- 1, FocusBuffer <- 1,
    Events <- {}, Opened <- 2, MaxClock <- 3, MaxSessions <- 1, MaxToken <- 8, stored <- token
\* One request, with answers that are lost, a logout and another sign-in.
Unsteady == INSTANCE WebSession WITH
    Requests <- Few, Calls <- Few, Lifetime <- 3, RequestBuffer <- 1, FocusBuffer <- 2,
    Events <- {"loss", "logout", "signin"},
    Opened <- 0, MaxClock <- 3, MaxSessions <- 1, MaxToken <- 5, stored <- token

\* A memo of two fields, with everything that may go wrong but another client.
Cache == INSTANCE MemoCache WITH
    Fields <- {"content", "pinned"}, Values <- {0, 1}, MaxFetches <- 1, Overlap <- TRUE,
    Refocus <- TRUE, Lossy <- TRUE, Others <- FALSE, page <- view, req <- sent, None <- Nil
\* A memo of one field and one request, with everything that may go wrong.
List == INSTANCE MemoCache WITH
    Fields <- {"content"}, Values <- {0, 1}, Requests <- Few, MaxFetches <- 2, Overlap <- TRUE,
    Refocus <- TRUE, Lossy <- TRUE, Others <- TRUE, page <- view, req <- sent, None <- Nil

\* A visitor who waits until a page has settled.
Scope == INSTANCE SpaceScope WITH Patient <- TRUE, Losses <- TRUE, MaxMoves <- 5, moves <- visits, None <- Nil
\* One who does not.
Hasty == INSTANCE SpaceScope WITH Patient <- FALSE, Losses <- TRUE, MaxMoves <- 2, moves <- visits, None <- Nil

-----------------------------------------------------------------------------
\* Every scene begins in an initial state of its module; of the modules that
\* have several, the others stay in one.
Init ==
    /\ scene \in Scenes
    /\ CASE scene = "unsteady" -> Unsteady!Init
         [] scene = "shaky" -> Shaky!Init
         [] scene = "pair" -> Pair!Init
         [] OTHER -> Session!Init
    /\ IF scene = "list" THEN List!Init ELSE Cache!Init
    /\ BatchInit
    /\ IF scene = "hasty" THEN Hasty!Init ELSE Scope!Init
    /\ \A f \in DOMAIN memo : memo[f] = 0  \* the values of a field are alike
    /\ scene \notin {"cache", "list"} => inSpace /\ view = "list"
    /\ scene # "batch" => \A m \in DOMAIN server : ~server[m].private
    /\ scene \notin {"scope", "hasty"} =>
         access = {} /\ stored = Nil /\ path = [space |-> Nil, page |-> "home"]

NotSession == UNCHANGED <<scene, cacheVars, batchVars, scopeVars>>
NotCache == UNCHANGED <<scene, sessionVars, batchVars, scopeVars>>
NotBatch == UNCHANGED <<scene, sessionVars, cacheVars, scopeVars>>
NotScope == UNCHANGED <<scene, sessionVars, cacheVars, batchVars>>

Next ==
    \/ scene = "session" /\ Session!Next /\ NotSession
    \/ scene = "shaky" /\ Shaky!Next /\ NotSession
    \/ scene = "pair" /\ Pair!Next /\ NotSession
    \/ scene = "unsteady" /\ Unsteady!Next /\ NotSession
    \/ scene = "cache" /\ Cache!Next /\ NotCache
    \/ scene = "list" /\ List!Next /\ NotCache
    \/ scene = "batch" /\ BatchNext /\ NotBatch
    \/ scene = "scope" /\ Scope!Next /\ NotScope
    \/ scene = "hasty" /\ Hasty!Next /\ NotScope

vars == <<scene, sessionVars, cacheVars, batchVars, scopeVars>>
Spec == Init /\ [][Next]_vars

\* The fairness the modules state, for the scenes with a liveness property.
Fairness ==
    /\ \A t \in Tabs, r \in Few :
         /\ SF_sessionVars(scene = "unsteady" /\ Unsteady!RequestStep(t, r))
         /\ SF_sessionVars(scene = "unsteady" /\ Unsteady!CallStep(t, r))
    /\ WF_cacheVars(scene = "list" /\ List!Fetch("list"))
    /\ WF_cacheVars(scene = "list" /\ List!Notice)
    /\ \A k \in {"detail", "list"} :
         /\ WF_cacheVars(scene = "list" /\ List!Read(k))
         /\ WF_cacheVars(scene = "list" /\ List!Fetched(k))
    /\ \A r \in Few : WF_cacheVars(scene = "list" /\ List!Serve(r))
    /\ WF_batchVars(scene = "batch" /\ Load)
    /\ WF_batchVars(scene = "batch" /\ NextBatch)
    /\ WF_batchVars(scene = "batch" /\ EndRun)
    /\ \A m \in Memos : WF_batchVars(scene = "batch" /\ (Carried(m) \/ Failed(m)))
    /\ WF_scopeVars(scene = "hasty" /\ Hasty!SessionEffects)
    /\ WF_scopeVars(scene = "hasty" /\ Hasty!PageEffect)
    /\ WF_scopeVars(scene = "hasty" /\ Hasty!Land)
    /\ \A k \in {"batch", "detail"} \X Spaces :
         WF_scopeVars(scene = "hasty" /\ (Hasty!Answer(k) \/ Hasty!Fail(k)))

FairSpec == Spec /\ Fairness

-----------------------------------------------------------------------------
(* What the modules promise, of their instances; the paged list states        *)
(* BatchSafe and DoneIsDone itself.                                           *)

\* The session.  While the browser holds a live refresh token, no page settles on
\* being signed out and no request is answered as a guest's, whatever refreshes and
\* requests of its tab overlap (refreshAccessToken, getRequestToken, the
\* interceptor), unless an answer to the tab was lost or its refresh was overtaken
\* by another tab's; and every refresh token the server stores is the browser's,
\* belongs to a refresh under way, or is one whose removal failed, whose answer was
\* lost or that another tab's answer replaced: rotation leaves no other session.
SessionSafe ==
    /\ scene = "session" => Session!TypeOK /\ Session!SessionKept /\ Session!OneSession
    /\ scene = "shaky" => Shaky!TypeOK /\ Shaky!SessionKept /\ Shaky!OneSession
    /\ scene = "pair" => Pair!TypeOK /\ Pair!SessionKept /\ Pair!OneSession

\* When nothing is under way, the page of a memo that exists shows what the server
\* holds, however updates, deletions, undos and refetches overlapped (useUpdateMemo,
\* useDeleteMemo), unless an answer was lost or overtaken, or an update failed that
\* overlapped another request, and no later fetch made up for it.
DetailCurrent == scene = "cache" => Cache!TypeOK /\ Cache!DetailCurrent

\* Once at rest, the scope is the one that the visitor chose last, unless that
\* Space could not be opened (SpaceSession).
ScopeAsked == scene = "scope" => Scope!TypeOK /\ Scope!ScopeAsked

\* What the pages come to.  Every request is answered, refused or given up, none
\* awaits a refresh for ever (the interceptor of connect.ts); the list that stays
\* on the screen comes to show what the server holds (useMemoQueries); the reader
\* ends on a page that exists and a batch run ends (PagedMemoList); the address
\* settles, and at rest it tells the Space that filters the page (SpaceContext).
PagesEnd ==
    /\ scene = "unsteady" => Unsteady!RequestsEnd
    /\ scene = "list" => List!ListConverges
    /\ scene = "batch" => PageExists /\ RunEnds
    /\ scene = "hasty" => Hasty!Settles /\ []Hasty!UrlTellsScope

Symmetry == Permutations(Spaces) \cup Permutations(Requests)
=============================================================================
