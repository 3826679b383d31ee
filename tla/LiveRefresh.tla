---------------------------- MODULE LiveRefresh ----------------------------
(* The live refresh of the web client (hooks/useLiveMemoRefresh.ts): the     *)
(* visible tabs of a browser compete for a Web Lock, the one that holds it   *)
(* reads the event stream of the server (module SSEHub) and passes what it   *)
(* hears to the others over a BroadcastChannel, and a tab that may have      *)
(* missed something reloads.                                                 *)
(*                                                                           *)
(* An attempt of a tab to lead is one call of startLeadership, with its      *)
(* AbortController: a tab may start a second one while the first is ending.  *)
(* Of the requests that wait for the lock any may be granted next.           *)
EXTENDS Naturals, Sequences

CONSTANTS
    Tabs,         \* tabs of one browser, one user
    Attempts,     \* attempts of a tab that may exist at a time
    Browsers,     \* the browsers there are, see Browser
    Kinds,        \* the frames the server sends
    StreamBuffer, \* sseClientEventBufferSize of the server
    MaxChanges,   \* bound on the changes of the data
    MaxFaults,    \* bound on failures of the network
    MaxMoves      \* bound on what the user does with the pages and the network

NoAttempt == 0
NoLock == <<>>
Requests == Tabs \X Attempts

\* coordinate: it has Web Locks and BroadcastChannel, and the end of a lock request is
\* a task of its own; without, the tab listens for itself.
Browser == [coordinate : BOOLEAN]

ASSUME LiveAssumption ==
    /\ NoAttempt \notin Attempts
    /\ Browsers \subseteq Browser
    /\ {"connected", "request"} \cap Kinds = {}  \* a message of the channel is no frame
    /\ StreamBuffer \in Nat
    /\ {MaxChanges, MaxFaults, MaxMoves} \subseteq Nat

VARIABLES
    browser,  \* the browser of this behaviour
    page,     \* tab: "closed", "visible" or "hidden"
    timer,    \* tab: hiddenDisconnectTimeout is set
    online,   \* tab: navigator.onLine
    ctl,      \* tab: leadershipAbortController
    att,      \* tab: its attempts
    lock,     \* the Web Lock: the request that holds it
    once,     \* tab: hasConnectedOnceRef
    inbox,    \* tab: messages of the BroadcastChannel not yet delivered
    stream,   \* attempt: frames the server has buffered for it
    broken,   \* attempt: the server or the network closed its stream
    session,  \* the browser has a session (module WebSession)
    stale,    \* tab: cached data that changed since it was first connected
    early,    \* tab: cached data that changed between its load and that
    changes, faults, moves

tabVars == <<browser, page, timer, online, ctl, att, lock, once, inbox, stream, broken, session, stale, early, changes, faults, moves>>
cache == <<stale, early>>
bounds == <<browser, changes, faults, moves, session>>

\* What a page shows: memos outside any Space, memos of Spaces, and Spaces.
Memos == {"own memos", "space memos"}
Data == Memos \cup {"spaces"}
NoTry == [pc |-> "none", aborted |-> FALSE]
Running == {"connecting", "connected", "waiting"}

\* The data a frame is about: Broadcast announces a memo of a Space as memo.changed,
\* any other as memo.created, memo.updated, ...
Changed(kind) ==
    CASE kind = "space.changed" -> Data
      [] kind = "memo.changed" -> {"space memos"}
      [] OTHER -> {"own memos"}

\* handleSSEEvent: two types are known and invalidate data, any other frame is ignored.
Handled(kind) ==
    CASE kind = "memo.changed" -> Memos
      [] kind = "space.changed" -> Data
      [] OTHER -> {}

Eligible(t) == page[t] = "visible" /\ online[t]
IsLeader(t) == \E a \in Attempts : att[t][a].pc \in Running

\* invalidateAllLiveQueries and invalidateLiveMemoQueries: the data is fetched anew.
Invalidate(t, data) ==
    /\ stale' = [stale EXCEPT ![t] = @ \ data]
    /\ early' = [early EXCEPT ![t] = @ \ data]

\* postSyncMessage: to every other open page, with the sender.
Post(t, kind) ==
    [u \in Tabs |-> IF browser.coordinate /\ u # t /\ page[u] # "closed" THEN Append(inbox[u], <<kind, t>>) ELSE inbox[u]]

-----------------------------------------------------------------------------
(* Leadership                                                                *)

\* startLeadership: nothing if an attempt is registered or the page is not
\* eligible; else a lock is requested and the leader asked for its status.
StartLeadership(t, pages, net) ==
    IF ctl[t] # NoAttempt \/ pages[t] # "visible" \/ ~net
    THEN UNCHANGED <<ctl, att, lock, inbox>>
    ELSE \E a \in Attempts :
           /\ att[t][a].pc = "none"
           /\ ctl' = [ctl EXCEPT ![t] = a]
           /\ att' = [att EXCEPT ![t][a] = [pc |-> "queued", aborted |-> FALSE]]
           /\ UNCHANGED lock
           /\ inbox' = Post(t, "request")

\* stopLeadership: a request that waits is given up, a running loop is told.
StopLeadership(t) ==
    LET a == ctl[t]
    IN /\ ctl' = [ctl EXCEPT ![t] = NoAttempt]
       /\ att' = IF a = NoAttempt THEN att
                 ELSE IF att[t][a].pc = "queued" THEN [att EXCEPT ![t][a] = NoTry]
                 ELSE [att EXCEPT ![t][a].aborted = TRUE]
       /\ UNCHANGED <<lock, inbox>>

\* The lock is let go by the request that holds it.
Released(t, a) == IF lock = <<t, a>> THEN NoLock ELSE lock

\* The callback of the lock returns: the lock is free, and .finally drops the
\* controller if it is still this attempt's, at once or in a task of its own.
Return(t, a) ==
    /\ lock' = Released(t, a)
    /\ IF browser.coordinate
       THEN att' = [att EXCEPT ![t][a].pc = "closing"] /\ UNCHANGED ctl
       ELSE /\ att' = [att EXCEPT ![t][a] = NoTry]
            /\ ctl' = IF ctl[t] = a THEN [ctl EXCEPT ![t] = NoAttempt] ELSE ctl

Settle(t, a) ==
    /\ att[t][a].pc = "closing"
    /\ att' = [att EXCEPT ![t][a] = NoTry]
    /\ ctl' = IF ctl[t] = a THEN [ctl EXCEPT ![t] = NoAttempt] ELSE ctl
    /\ UNCHANGED <<page, timer, online, lock, once, inbox, stream, broken, cache, bounds>>

\* Mutant: the lock callback does not await the connection loop.
GrantedUnawaited(t, a) ==
    /\ att[t][a].pc = "queued"
    /\ browser.coordinate => lock = NoLock
    /\ IF Eligible(t)
       THEN att' = [att EXCEPT ![t][a].pc = "connecting"] /\ UNCHANGED <<ctl, lock>>
       ELSE Return(t, a)
    /\ UNCHANGED <<page, timer, online, once, inbox, stream, broken, cache, bounds>>

\* The lock is granted: the loop starts unless the page is no longer eligible.
Granted(t, a) ==
    /\ att[t][a].pc = "queued"
    /\ browser.coordinate => lock = NoLock
    /\ IF Eligible(t)
       THEN /\ att' = [att EXCEPT ![t][a].pc = "connecting"]
            /\ lock' = IF browser.coordinate THEN <<t, a>> ELSE lock
            /\ UNCHANGED ctl
       ELSE Return(t, a)
    /\ UNCHANGED <<page, timer, online, once, inbox, stream, broken, cache, bounds>>

-----------------------------------------------------------------------------
(* runConnectionLoop                                                         *)

\* Mutant: a reconnection is not followed by a reload.
ConnectWithoutResync(t, a) ==
    /\ att[t][a] = [pc |-> "connecting", aborted |-> FALSE]
    /\ online[t] /\ session
    /\ att' = [att EXCEPT ![t][a].pc = "connected"]
    /\ inbox' = Post(t, "connected")
    /\ once' = [once EXCEPT ![t] = TRUE]
    /\ stream' = [stream EXCEPT ![t][a] = <<>>]
    /\ broken' = [broken EXCEPT ![t][a] = FALSE]
    /\ UNCHANGED <<page, timer, online, ctl, lock, cache, bounds>>

\* The stream opens: the server buffers from here on, the other tabs are told,
\* and everything is reloaded unless this is the first connection.
Connect(t, a) ==
    /\ att[t][a] = [pc |-> "connecting", aborted |-> FALSE]
    /\ online[t] /\ session
    /\ att' = [att EXCEPT ![t][a].pc = "connected"]
    /\ inbox' = Post(t, "connected")
    /\ IF once[t] THEN Invalidate(t, Data) ELSE UNCHANGED cache
    /\ once' = [once EXCEPT ![t] = TRUE]
    /\ stream' = [stream EXCEPT ![t][a] = <<>>]
    /\ broken' = [broken EXCEPT ![t][a] = FALSE]
    /\ UNCHANGED <<page, timer, online, ctl, lock, bounds>>

\* The request fails, or is refused and the refresh fails.
ConnectFails(t, a) ==
    /\ att[t][a] = [pc |-> "connecting", aborted |-> FALSE]
    /\ faults < MaxFaults
    /\ faults' = faults + 1
    /\ att' = [att EXCEPT ![t][a].pc = "waiting"]
    /\ UNCHANGED <<page, timer, online, ctl, lock, once, inbox, stream, broken, cache, browser, session, changes, moves>>

\* There is no token: the loop does not retry.
NoToken(t, a) ==
    /\ att[t][a] = [pc |-> "connecting", aborted |-> FALSE]
    /\ ~session
    /\ Return(t, a)
    /\ UNCHANGED <<page, timer, online, once, inbox, stream, broken, cache, bounds>>

\* publishEvent: the leader handles the frame and passes it on.
Deliver(t, a) ==
    /\ att[t][a] = [pc |-> "connected", aborted |-> FALSE]
    /\ stream[t][a] # <<>>
    /\ Invalidate(t, Handled(Head(stream[t][a])))
    /\ inbox' = Post(t, Head(stream[t][a]))
    /\ stream' = [stream EXCEPT ![t][a] = Tail(@)]
    /\ UNCHANGED <<page, timer, online, ctl, att, lock, once, broken, bounds>>

\* The stream ends; what was buffered is gone. The loop backs off.
StreamEnds(t, a) ==
    /\ att[t][a] = [pc |-> "connected", aborted |-> FALSE]
    /\ broken[t][a] \/ ~online[t]
    /\ att' = [att EXCEPT ![t][a].pc = "waiting"]
    /\ stream' = [stream EXCEPT ![t][a] = <<>>]
    /\ UNCHANGED <<page, timer, online, ctl, lock, once, inbox, broken, cache, bounds>>

\* The back-off timer fires.
Retry(t, a) ==
    /\ att[t][a] = [pc |-> "waiting", aborted |-> FALSE]
    /\ att' = [att EXCEPT ![t][a].pc = "connecting"]
    /\ UNCHANGED <<page, timer, online, ctl, lock, once, inbox, stream, broken, cache, bounds>>

\* An aborted loop ends wherever it is.
LoopEnds(t, a) ==
    /\ att[t][a].pc \in Running /\ att[t][a].aborted
    /\ Return(t, a)
    /\ stream' = [stream EXCEPT ![t][a] = <<>>]
    /\ UNCHANGED <<page, timer, online, once, inbox, broken, cache, bounds>>

-----------------------------------------------------------------------------
(* The channel                                                               *)

\* handleSyncMessage: an event is handled, a connection is followed by a reload
\* unless it is the first one this tab hears of, a request is answered by the
\* leader.
HandleSyncMessage(t) ==
    LET kind == Head(inbox[t])[1]  from == Head(inbox[t])[2]  rest == [inbox EXCEPT ![t] = Tail(@)]
    IN /\ inbox[t] # <<>>
       /\ CASE kind = "connected" ->
                 /\ IF once[t] THEN Invalidate(t, Data) ELSE UNCHANGED cache
                 /\ once' = [once EXCEPT ![t] = TRUE]
                 /\ inbox' = rest
            [] kind \in Kinds ->
                 /\ Invalidate(t, Handled(kind))
                 /\ once' = [once EXCEPT ![t] = TRUE]
                 /\ inbox' = rest
            [] OTHER ->
                 /\ inbox' = IF \E a \in Attempts : att[t][a].pc = "connected"
                             THEN [rest EXCEPT ![from] = Append(@, <<"connected", t>>)]
                             ELSE rest
                 /\ UNCHANGED <<cache, once>>
       /\ UNCHANGED <<page, timer, online, ctl, att, lock, stream, broken, bounds>>

-----------------------------------------------------------------------------
(* The user and the network                                                  *)

Move == moves < MaxMoves /\ moves' = moves + 1 /\ UNCHANGED <<browser, changes, faults, session>>

\* A page is opened and loads its data.
OpenPage(t) ==
    /\ Move
    /\ page[t] = "closed"
    /\ page' = [page EXCEPT ![t] = "visible"]
    /\ once' = [once EXCEPT ![t] = FALSE]
    /\ stale' = [stale EXCEPT ![t] = {}]
    /\ early' = [early EXCEPT ![t] = {}]
    /\ StartLeadership(t, page', online[t])
    /\ UNCHANGED <<timer, online, stream, broken>>

\* A page is closed: its requests for the lock and its stream go with it.
ClosePage(t) ==
    /\ Move
    /\ page[t] # "closed"
    /\ page' = [page EXCEPT ![t] = "closed"]
    /\ timer' = [timer EXCEPT ![t] = FALSE]
    /\ ctl' = [ctl EXCEPT ![t] = NoAttempt]
    /\ att' = [att EXCEPT ![t] = [a \in Attempts |-> NoTry]]
    /\ lock' = IF lock \in {<<t, a>> : a \in Attempts} THEN NoLock ELSE lock
    /\ inbox' = [inbox EXCEPT ![t] = <<>>]
    /\ stream' = [stream EXCEPT ![t] = [a \in Attempts |-> <<>>]]
    /\ online' = [online EXCEPT ![t] = TRUE]
    /\ UNCHANGED <<once, broken, cache>>

\* reconcilePageState on a hidden page: the connection is kept for a while.
Hide(t) ==
    /\ Move
    /\ page[t] = "visible"
    /\ page' = [page EXCEPT ![t] = "hidden"]
    /\ timer' = [timer EXCEPT ![t] = TRUE]
    /\ UNCHANGED <<online, ctl, att, lock, once, inbox, stream, broken, cache>>

HiddenTooLong(t) ==
    /\ timer[t]
    /\ timer' = [timer EXCEPT ![t] = FALSE]
    /\ StopLeadership(t)
    /\ UNCHANGED <<page, online, once, stream, broken, cache, bounds>>

\* reconcilePageState on a visible page.
Show(t) ==
    /\ Move
    /\ page[t] = "hidden"
    /\ page' = [page EXCEPT ![t] = "visible"]
    /\ timer' = [timer EXCEPT ![t] = FALSE]
    /\ IF online[t] THEN StartLeadership(t, page', online[t]) ELSE StopLeadership(t)
    /\ UNCHANGED <<online, once, stream, broken, cache>>

\* The browser goes offline or online, and the page is told.
GoOffline(t) ==
    /\ Move
    /\ page[t] # "closed" /\ online[t]
    /\ online' = [online EXCEPT ![t] = FALSE]
    /\ StopLeadership(t)
    /\ UNCHANGED <<page, timer, once, stream, broken, cache>>

GoOnline(t) ==
    /\ Move
    /\ page[t] # "closed" /\ ~online[t]
    /\ online' = [online EXCEPT ![t] = TRUE]
    /\ IF page[t] = "hidden"
       THEN timer' = [timer EXCEPT ![t] = TRUE] /\ UNCHANGED <<ctl, att, lock, inbox>>
       ELSE StartLeadership(t, page, TRUE) /\ UNCHANGED timer
    /\ UNCHANGED <<page, once, stream, broken, cache>>

\* Mutant: the frame is appended to a buffer that is full.
ChangeUnbounded(kind) ==
    /\ changes < MaxChanges
    /\ changes' = changes + 1
    /\ stream' = [t \in Tabs |-> [a \in Attempts |->
                    IF att[t][a].pc = "connected" THEN Append(stream[t][a], kind) ELSE stream[t][a]]]
    /\ UNCHANGED <<page, timer, online, ctl, att, lock, once, inbox, broken, cache, browser, faults, moves, session>>

\* The session ends on the server or in another tab.
EndSession ==
    /\ moves < MaxMoves /\ session
    /\ moves' = moves + 1
    /\ session' = FALSE
    /\ UNCHANGED <<page, timer, online, ctl, att, lock, once, inbox, stream, broken, cache, browser, changes, faults>>

\* The data changes: a connected stream is sent the frame, one whose buffer is
\* full is closed instead (module SSEHub).
Change(kind) ==
    /\ changes < MaxChanges
    /\ changes' = changes + 1
    /\ LET open == {x \in Tabs \X Attempts : att[x[1]][x[2]].pc = "connected" /\ ~broken[x[1]][x[2]]}
           full == {x \in open : Len(stream[x[1]][x[2]]) >= StreamBuffer}
       IN /\ stream' = [t \in Tabs |-> [a \in Attempts |->
                          IF <<t, a>> \in open \ full THEN Append(stream[t][a], kind) ELSE stream[t][a]]]
          /\ broken' = [t \in Tabs |-> [a \in Attempts |-> broken[t][a] \/ <<t, a>> \in full]]
    /\ stale' = [t \in Tabs |-> IF page[t] # "closed" /\ once[t] THEN stale[t] \cup Changed(kind) ELSE stale[t]]
    /\ early' = [t \in Tabs |-> IF page[t] # "closed" /\ ~once[t] THEN early[t] \cup Changed(kind) ELSE early[t]]
    /\ UNCHANGED <<page, timer, online, ctl, att, lock, once, inbox, browser, faults, moves, session>>

\* The network drops a stream.
DropStream(t, a) ==
    /\ faults < MaxFaults
    /\ faults' = faults + 1
    /\ att[t][a].pc = "connected"
    /\ broken' = [broken EXCEPT ![t][a] = TRUE]
    /\ UNCHANGED <<page, timer, online, ctl, att, lock, once, inbox, stream, cache, browser, session, changes, moves>>

-----------------------------------------------------------------------------
TabsInit ==
    /\ browser \in Browsers
    /\ page = [t \in Tabs |-> "closed"]
    /\ timer = [t \in Tabs |-> FALSE]
    /\ online = [t \in Tabs |-> TRUE]
    /\ ctl = [t \in Tabs |-> NoAttempt]
    /\ att = [t \in Tabs |-> [a \in Attempts |-> NoTry]]
    /\ lock = NoLock
    /\ once = [t \in Tabs |-> FALSE]
    /\ inbox = [t \in Tabs |-> <<>>]
    /\ stream = [t \in Tabs |-> [a \in Attempts |-> <<>>]]
    /\ broken = [t \in Tabs |-> [a \in Attempts |-> FALSE]]
    /\ stale = [t \in Tabs |-> {}]
    /\ early = [t \in Tabs |-> {}]
    /\ session = TRUE
    /\ changes = 0 /\ faults = 0 /\ moves = 0

UserMove(t) ==
    OpenPage(t) \/ ClosePage(t) \/ Hide(t) \/ Show(t) \/ GoOffline(t) \/ GoOnline(t)

LoopStep(t, a) ==
    \/ Settle(t, a) \/ Granted(t, a) \/ Connect(t, a) \/ NoToken(t, a) \/ Deliver(t, a)
    \/ StreamEnds(t, a) \/ Retry(t, a) \/ LoopEnds(t, a)

TabsNext ==
    \/ EndSession
    \/ \E kind \in Kinds : Change(kind)
    \/ \E t \in Tabs : UserMove(t) \/ HiddenTooLong(t) \/ HandleSyncMessage(t)
    \/ \E t \in Tabs, a \in Attempts : LoopStep(t, a) \/ ConnectFails(t, a) \/ DropStream(t, a)

\* Timers fire, the lock manager grants, the network delivers. The user is not
\* obliged to do anything, and the failures of the network are finite.
TabsSpec ==
    /\ TabsInit
    /\ [][TabsNext]_tabVars
    /\ \A t \in Tabs : WF_tabVars(HandleSyncMessage(t)) /\ WF_tabVars(HiddenTooLong(t))
    /\ \A t \in Tabs, a \in Attempts : WF_tabVars(LoopStep(t, a))

-----------------------------------------------------------------------------
(* Properties                                                                *)

Messages == (Kinds \cup {"connected", "request"}) \X Tabs
Try == [pc : {"none", "queued", "closing"} \cup Running, aborted : BOOLEAN]

\* The state of the pages, the lock and the channel is well formed, and the
\* server buffers no more frames than it has room for.
TabsTypeOK ==
    /\ browser \in Browser
    /\ page \in [Tabs -> {"closed", "visible", "hidden"}]
    /\ timer \in [Tabs -> BOOLEAN] /\ online \in [Tabs -> BOOLEAN] /\ once \in [Tabs -> BOOLEAN]
    /\ ctl \in [Tabs -> Attempts \cup {NoAttempt}]
    /\ att \in [Tabs -> [Attempts -> Try]]
    /\ lock \in Requests \cup {NoLock}
    /\ inbox \in [Tabs -> Seq(Messages)]
    /\ stream \in [Tabs -> [Attempts -> Seq(Kinds)]]
    /\ \A t \in Tabs, a \in Attempts : Len(stream[t][a]) <= StreamBuffer
    /\ broken \in [Tabs -> [Attempts -> BOOLEAN]]
    /\ stale \in [Tabs -> SUBSET Data] /\ early \in [Tabs -> SUBSET Data]
    /\ session \in BOOLEAN
    /\ changes \in 0 .. MaxChanges /\ faults \in 0 .. MaxFaults /\ moves \in 0 .. MaxMoves

\* Among tabs that coordinate, at most one reads the event stream, through
\* aborted attempts of useLiveMemoRefresh, new ones that wait for them, and pages
\* that close: a second stream would have every event handled and passed on twice.
OneStream ==
    browser.coordinate =>
      \A t, u \in Tabs, a, b \in Attempts :
        att[t][a].pc = "connected" /\ att[u][b].pc = "connected" => <<t, a>> = <<u, b>>

\* The tabs of a browser: they are well formed, and one of them reads the stream.
TabsSafe == TabsTypeOK /\ OneStream

\* The tab leads or waits for the lock.
Competes(t) == \E a \in Attempts : att[t][a].pc # "none"

\* Whoever leads, and however often the stream is lost, a page that stays visible,
\* online and signed in does not keep showing Spaces or memos of Spaces that changed
\* after it was first connected: the frame, the message of the leader or a reload
\* reaches it. Memos outside Spaces are not part of it (handleSSEEvent ignores their
\* frames), nor, with Web Locks, is a page that was shown between the end of its
\* request and the task that drops its controller, and so stopped competing.
Converges ==
    \A t \in Tabs :
      <>[](Eligible(t) /\ session /\ (browser.coordinate => Competes(t)))
        => []<>(stale[t] \subseteq {"own memos"})

\* The comment of the hook promises it without these exceptions, and for all data that
\* changed since the page was loaded: real-time updates across all open instances of
\* the app.
UpToDate ==
    \A t \in Tabs : <>[](Eligible(t) /\ session) => []<>(stale[t] = {} /\ early[t] = {})

-----------------------------------------------------------------------------
(* Why OneStream holds                                                       *)

\* A loop runs under the lock, to its end: also an aborted one.
LoopHoldsLock ==
    browser.coordinate => \A t \in Tabs, a \in Attempts : att[t][a].pc \in Running => lock = <<t, a>>

TabsInv == TabsSafe /\ LoopHoldsLock
=============================================================================
