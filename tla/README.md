# A TLA+ development for Memos Plus

This directory specifies the concurrent and stateful core of Memos Plus in TLA+:
the server (Go, `server/`, `store/`, `internal/`) and the parts of the web client
(TypeScript, `web/src/`) that keep state across awaits, timers, tabs and restarts.
TLC model-checks it and TLAPS proves its main invariants. `PROJECT.json` lists the
components, the runs, the source lines each definition stands for, the hazards the
properties are aimed at, and the theorems.

## 1. Inventory of the system

Memos Plus is a note server: one Go process, an SQL database (SQLite, PostgreSQL or
MySQL through one `store.Driver` interface), attachment storage (database, local
files or S3), and a React client. Requests run concurrently; there is no leader and
no replication, and the server keeps only caches, rate limiters and live connections
in memory. The client is one event loop per tab; tabs of a browser share cookies,
`localStorage`, a lock and a `BroadcastChannel`.

### Server

| Component | State | Operations | What is hard |
| --- | --- | --- | --- |
| Space store (`store/space.go`, `store/db/*/space*.go`) | `user`, `space`, `space_member` rows | create, update, delete Space; invite, accept, decline, revoke; change role, remove; archive and delete users | last-administrator rule across rows of several users; orphan rows; three isolation levels |
| Space handlers (`space_service.go`) | requests under way, `inbox` notifications | transact, notify, compensate | the notification is a second write |
| Memo store (`store/memo*.go`, `store/db/*/memo*.go`) | memos, placement, audience, shares, comment relations, trash | create, update under a write policy, share, soft delete, restore, purge | policy re-validated in the transaction; comment trees in the trash |
| Attachments and cleanup (`store/attachment*.go`) | rows, files or objects, `attachment_cleanup` queue | upload, delete, retry | database and storage are not one transaction; crash between them |
| Caches (`store/cache`, `store/user.go`) | entries, item counter | read-through, write-through, evict, expire | a slow reader fills the cache with an old row; counter races |
| User settings (`store/user_setting.go`) | one row per user and key holding a list, its cached copy, a mutex | read, modify, write the list | lost updates; a mutex with many early returns |
| Sessions (`server/auth`, `auth_service_session.go`) | refresh-token rows, stateless access tokens | sign in, refresh (rotate), sign out | rotation races |
| SSE hub (`sse_hub.go`, `sse_handler.go`) | connected clients with a bounded buffer | attach, publish, disconnect slow clients, close | close races publish; an event lost silently |
| Moderation (`moderation_*.go`) | bans, reports, quarantine, user status | ban, report, restore, release expired bans | several writes without a transaction; a batch loop that must end |
| Scheduled publication, authentication configuration, polls, reactions, daily question, migrations, deployment configuration, scheduler, webhooks, email, import, filter engine, Markdown, MCP, gateway, file server | see `PROJECT.json` | | not modelled, section 8 |

### Web client

| Component | State | Operations | What is hard |
| --- | --- | --- | --- |
| Session (`connect.ts`, `auth-state.ts`, `AuthContext.tsx`) | token in memory and `localStorage`, shared refresh call, requests | request, refresh, retry, focus, start, sign in, log out | many callers, one rotation; lost answers |
| Live refresh (`useLiveMemoRefresh.ts`) | lock, stream, messages between tabs, visibility | lead, connect, reconnect, pass on | leadership changes while attempts are being aborted; missed events |
| Memo editor (`MemoEditor/`, `GlobalMemoEditorContext.tsx`) | text, debounce timer, `localStorage`, save under way | type, autosave, save, leave, be killed | timers and flushes between a save and its answer |
| Inline uploads (`useInlineImageUpload.ts`) | jobs, anchors, attachments, references | paste, upload, retry, give up, save | partial failure; saving while answers are on their way |
| Audio recorder (`useAudioRecorder.ts`) | permission request, `MediaRecorder`, microphone, transcription | start, stop, cancel, transcribe | late permissions and late events |
| Music player (`MusicPlayerContext.tsx`) | queue, audio element, stored choices | play, step, order, switch off, autoplay | effects that start music again |
| Memo cache (`useMemoQueries.ts`) | two query entries per memo, requests | optimistic update, rollback, delete, undo, refetch | answers, notices and refetches overlap |
| Paged list and batches (`PagedMemoList/`) | page, selection, dialog, run | pick, check, confirm, run in batches | the list is refetched under the dialog; partial failure |
| Space scope (`SpaceContext.tsx`, `Space.tsx`) | selection, address, queries | select, navigate, redirect, reload | effects that write each other's inputs |
| The rest | form fields, cached answers | render, submit | presentation, section 8 |

What makes each component correct is what section 3 says its run checks. In short:
a live Space keeps an active administrator and no row outlives its parents; a memo
belongs to a user and a Space that exist and comment trees stay connected; no send
on a closed channel, no client that missed an event stays connected; the bytes of a live attachment are never deleted and those of a
purged one are remembered until they are; concurrent changes of one list are kept;
a cached copy is old only by a race and not for ever; a refresh keeps the session and
leaves no other; one tab reads the stream and every visible tab converges; no text,
file or recording is lost, doubled or revived (section 4 says when one is); batch operations touch what was picked, checked and
confirmed; the address tells the scope; and whatever must end, ends.

## 2. Modules and how they correspond to the code

Modules named `MC*` only give TLC instances (section 3). `PROJECT.json` maps the
definitions of every other module to their lines. An operator under a comment
`Mutant:` is not part of the model: it is a plausible bug in the definition that
follows it, and shows that a property can fail.

### Server modules

**`Space`** has the tables `user`, `space` and `space_member` as functions, and one
action per method of `store/db/sqlite/space.go`, `space_delete.go`, `user.go` and
`user_delete.go`. SQLite has one writer at a time, so an action is one atomic step
with the guards `requireSQLiteActiveUser`, `authorizeSQLiteSpaceAdmin`, ... impose.
`inst` is the instance-administrator flag the handler passes. Ids are never reused
(AUTOINCREMENT), hence `UNUSED`, live, `DELETED`. **`Governance`** is the abstract
specification of what it promises: which Spaces live, who administers and who belongs
to them, changed by founding a Space, dissolving one, or moving one user's standing.
**`SpaceGovernance`** holds the refinement mapping.

**`SpacePostgres`** (extends `Space`) runs the same operations as READ COMMITTED
transactions over a pool of connections: a list of helpers (authorise, lock Space,
lock user, read, write), one step each; a step reads what is committed at that
moment; `FOR UPDATE` locks wait for each other and are released by commit or
rollback. It starts from one Space and its administrators, to spend the bound on the
race rather than on reaching it.

**`MemoStore`** (extends `Space`) puts memos on top of the relationship tables.
`WriteAllowed` is `ValidateMemoWriteSnapshot` with the snapshot the driver reads
inside the transaction; `CommentTree` is `MemoCommentTree`, stated as the least
closed set rather than as the driver's queue. Deleting a Space or a user takes the
memos along, so those actions conjoin the action of `Space`. `deletedTs` is the
number of the deletion; equal stamps of two deletions are not modelled.

**`SSEHub`**: `publishFrame` holds the read lock while it offers the frame to one
client after another (one step per client, in the map's arbitrary order), then
unsubscribes the slow ones; whatever takes the write lock waits. `panicked` makes a
send on a closed channel observable; `missed` and `pub[p].owed` only serve properties.

**`AttachmentCleanup`**: a request is a sequence of steps because database and
storage are separate systems: choose a place, write, insert, compensate; delete rows,
delete the object, acknowledge. The retry job selects a batch, counts other users of
the path, deletes, acknowledges or moves the row to the end. Any storage call may
fail, one for an id in `Broken` always does, an insert may commit and report an
error, and `Crash` ends everything in flight between any two steps.

**`UserSettings`**: `row` is the stored list, `cache` the cached copy (or none),
`mutex` its holder. A call locks, loads from the cache or the row (and fills the
cache), may return early, writes the row, writes the cache, unlocks. `Kind` chooses
the list: tokens and views hold the mutex, webhooks do not. A listing fills the cache
outside the mutex (`Refill`), which is what `overtaken` remembers.

**`UserCache`** takes `GetUser`, `UpdateUser` and `DeleteUser` apart into their steps
on the row, on the concurrent map and on the counter of `cache.go`: look up, count,
store, evict a fifth of the limit (`Eviction`; which items is left open), each
interleaved with other goroutines, with expiry and the cleanup goroutine. `MaxDrift`
bounds how far the counter may be from the map; `raced` and `crowded` only serve
properties.

**`Moderation`**: a ban, an automatic ban by reports, a restoration and a release are
lists of writes (`Writes`), one step each, any of which may fail; the scheduler lists
a batch of expired bans and restores them one after the other.

**`SpaceInvitations`**: inviting is two writes and a compensation; answering and
revoking are a write and the removal of the notification; a restart may cut a handler
off between them. Other requests write the same rows: the invitee deletes a
notification and leaves the invitation pending (`dismissed`), a Space is deleted with
its invitations and its notifications stay, an account is deleted with the notifications
it received and sent. `Shown` is what the notification list makes of the rows: it leaves
out those of a deleted Space.

### Client modules

**`WebSession`** models one browser against the server's `RefreshToken`. Tokens are
their expiry times, refresh tokens are numbers. A tab runs to its next `await` before
another of its tasks runs (`Between`); a refresh call on the server is three steps
(authenticate, add the new token, remove the old one) because the two writes are
separate, and the removal may fail (`"stuck"`), which the code logs and goes on.
`promise` is the single flight of `createTokenRefreshManager`. `left`, `retired` and
`outrun` are history: refresh tokens that a failed removal, a lost answer or another
tab's answer left behind, which tab's refresh removed a token last, and the tabs that
lost an answer or were overtaken by another tab's refresh.

**`LiveRefresh`** models tabs with `navigator.locks` (attempts that wait for it), the fetch
stream of the leader, the `BroadcastChannel` and visibility timers. What a page shows
is reduced to the kinds of data that changed since it was loaded (`stale`, and `early`
for what changed before its first connection). `browser`, chosen in the initial state,
says whether there are Web Locks (`coordinate`). The end of a lock request is a task of its
own (`Settle`), as the Web Locks API has it. Signed-in pages hear of a memo outside a Space
by kinds of events that they do not handle (`"memo.updated"`), which is why `Data` tells
those memos from the memos of Spaces.

**`MemoEditor`** keeps a text as a number in the editor, the debounce timer, in
`localStorage` under the slot's key, and in memos. `hosted`, chosen in the initial state,
tells the dialog of `GlobalMemoEditorContext` (which cannot be left during a save) from an
editor in the page (which can), `events` what may go wrong. **`InlineUpload`** has jobs with their files, anchors and answers,
attachments, references in the text, and `MaySave`. A save reads the editor once, uploads
the local files one after the other and then creates the memo; it may fail at any of these
steps, and what it uploaded stays local (`tried`). **`AudioRecorder`** has numbered
requests as `startRequestIdRef` numbers them, the device, recorders whose stop event
is still to come, transcriptions, and a save that begins, ends or fails while one of them
goes on. **`MusicPlayer`** treats a render and its effects as part of the step that caused
them (`Settled`); the autoplay effect runs again only when what it depends on has changed
(`deps`), and `blocked` says whether the browser waits for a gesture.

**`MemoCache`** has the two entries that hold a memo (`detail`, `list`), requests with
their rollback copies, and the query library as the hooks use it (cancel, set,
invalidate, refetch). Only a memo of a Space (`inSpace`) has notices: signed-in pages
handle no event of another. `raced` is history: the entries that a lost answer, an answer
overtaken by a later change, another client or the failure of an overlapping update may
have left behind the server, until a later fetch. **`MemoBatch`** has the server's memos,
the page as it was read and patched, selection, dialog and run. A request may be carried
out and its answer lost, after which the page shows the memo as it was before; another
client changes what a memo holds and its visibility (`edited`, history). **`SpaceScope`** has React state and session storage
(always written together), the address, navigation under way, the two kinds of
query, and what each effect last ran for.

## 3. Runs

The parts of an `MC` module share no state, so interleaving them would multiply
states and show nothing. Each behaviour therefore plays one *scene*: the variable
`scene` is chosen in the initial state and never changes, the module it names
takes its own steps, and all the others stay where they began. A run is then exactly
the union of the behaviours of its instances: an invariant `scene = s => P`, or a
property of the same shape, is `P` of instance `s`. Fairness is that of the module, with
the guard `scene = s`, which is constant in a behaviour; the bodies of the scenes are
the unchanged modules, instantiated. `MCServer`, `MCLive`, `MCEditing`
(for uploads and recorder) and `MCPages` (for the batches) extend the modules of their
scenes, so those properties are the modules' own, unguarded, the very ones the theorems of
section 5 state: they hold of the initial state, where the others stay. A module that is
extended has one set of constants; what a scene may see happen beyond that is a variable
of the module, chosen in its initial state.
The scenes of `MCMemoStore` are one `MemoStore` whose tables are kept small in different
ways (`InScene`).

| Run | Scenes and bounds | Checks |
| --- | --- | --- |
| `space` | 3 users, 2 Spaces, 2 access modes | `TypeOK`, `ActiveAdminKept`, `NoOrphanRows`, `MembershipByConsent`, and the refinement `Governed` |
| `space_postgres` | 2 users, 2 Spaces, 2 connections, 2 transactions | `NoOrphanRows`, `PgMembershipByConsent`, `EveryTxnEnds` (no lock order deadlocks, no early return keeps a lock) |
| `memo` | *spaces*: 2 users, 2 Spaces, a memo; *tree*: 3 memos, 2 deletions; *placed*: 2 memos, a Space | `MemoRowsValid` (`MemoTypeOK`, `OwnersExist`), `NoShareOnSpaceAudience`, `FormerMemberMovesOnly`, `TreeConnected` (`LiveCommentLiveParent`, `NoDanglingRelation`), `RestoreIsOneBatch` |
| `live` | *hub*: 2 publishers, 2 users and an anonymous caller, buffer 1; *tabs*: 2 tabs, 2 attempts each, with and without Web Locks, events of Spaces, of memos of Spaces and of other memos | `HubFormed`, `NoPanic`, `MissedIsDropped`, `TabsSafe` (`OneStream`), `LiveEnds` (`PublishersFinish`, `Converges`) |
| `server` | *settings*: 2 tokens, 3 goroutines, 4 calls; *users*: 2 users, 2 goroutines, a cache of 1; *invitations*: a Space and 2 invitees, 2 handlers, 2 notifications, 2 failures, deletions of notifications, Space and accounts; *files*: 3 attachments, a crash | `ServerTypeOK`, `ExactUnlessOvertaken`, `StaleOnlyByRace`, `CacheCounted` (`CountExact`, `ItemsBounded`), `NotifiedAlone`, `LiveObjectKept` |
| `server_ends` | *settings*: a memo view, 2 goroutines, 4 calls; *users*: a user, 2 goroutines; *files*: 2 files that may share a path, one never deletable, batches of 1, a crash | `PurgedNotForgotten`, `ServerEnds` (`CallsReturn`, `StaleEnds`, `RetryDrains`) |
| `bans` | *alone*: a user with one moderator, a reporter and an administrator who edits the account; *pair*: 2 users whose bans run out together; the scheduler with batches of 2; one failing write | `BanMatchesAccount`, `BansEnd` (`SchedulerReturns`, and every ban that ran out is lifted) |
| `editing` | *dialog*, *killed*, *left*: one editor, in the dialog or in the page, texts 1..4; *uploads*: 2 images, 2 jobs, saves that fail, places and references that are erased meanwhile or not; *recorder*: 4 requests, a save that goes on meanwhile, an editor that is left or a recording begun during a transcription or neither; *music*: a tab that waits for a gesture, 2 lists in 3 orders, 6 moves; *duet*: the same in 2 tabs that do not wait, 4 moves; *turns*: a tab and a list of 3 | `DraftSafe` (`SavedOnce`, `TextKept`, `SavedDraftGone`), `UploadsSafe` (`InlineBound`, `NothingLost`, `UploadedOnce`), `RecorderSafe` (`MicOwned`, `Controllable`, `CancelDiscards`), `MusicKept` (`OffStaysOff`, `OffRemembered`, `NoRepeat`, `KeepsCurrent`), `EditingEnds` (`DraftStored`, `JobsEnd`, `RecordingKept`, `EveryTrackPlays`) |
| `pages` | *session*: 2 requests, 2 refresh calls, a removal that may fail; *shaky*: the same with one request and lost answers; *pair*: 2 tabs with a request each; *cache*: a memo of 2 fields, 2 requests that overlap, the window's focus, lost answers, a notice or none; *batch*: 4 memos, pages of 3, batches of 2, lost answers, another client; *scope*: 2 Spaces, 5 moves | `SessionSafe` (`SessionKept`, `OneSession`), `DetailCurrent`, `BatchSafe` (`SelectionOnPage`, `DeletesAsked`, `PublicChecked`), `DoneIsDone`, `ScopeAsked` |
| `pages_ends` | *unsteady*: lost answers, logout, sign-in; *list*: a request, refetches, lost answers, another client; *batch*: 3 memos, a touch screen, another client's edits; *hasty*: 2 Spaces, a visitor who does not wait | `PagesEnd` (`RequestsEnd`, `ListConverges`, `PageExists`, `RunEnds`, `Settles`, `UrlTellsScope`) |
| `space_postgres_admin` | 2 administrators of a Space, 2 connections, 2 transactions | **violated**: finding 1 |
| `settings_revoked` | *settings* with 2 tokens, 2 goroutines | **violated**: finding 2 |

A property that names others in brackets is their conjunction, scene by scene; the
parts are stated and explained in their modules. Every part has a mutant of its own,
a definition changed the way a plausible bug would change the code, under which TLC
finds it violated.

### Bounds

* Three users are the least number with a departing administrator, a successor
  and somebody else; two Spaces show that one Space's checks do not leak into
  another's. `StoreProofs` removes these bounds for the SQLite store.
* A write skew, an orphan row and a lock cycle each need two overlapping
  transactions; two connections with two transactions give all of their orders.
* Three memos are a comment of a comment, which separates "children" from "tree";
  two deletions separate "the trash" from "this batch".
* A buffer of one is full after one frame, so slow clients are frequent.
* Two goroutines are enough for a stale fill, a double count or a lost update, three
  in *settings* add a listing to two changes; section 5 removes these bounds.
* `BatchSize = 1` with one row that always fails is the worst case for the queue. One
  crash is enough, as the state after it is again one with nothing in flight.
* Two tabs show every handover of leadership. Two attempts per tab are an aborted one
  and its successor. One change and one fault let a change fall into the gap before a
  reconnection; a second change, in shorter behaviours, meets a full buffer (`Bounded`).
* A token lives three units of 30 s, so it passes the focus window (2) and the request
  window (1) before it expires; two requests and two refresh calls share or race.
* Texts up to 4 tell the text that was sent from the one typed after it and
  from the one typed in the next editor. Two jobs overlap, and of two images one is
  uploaded and the other fails, in a job and in a save.
* Batches of two bans are full when both users of *pair* are banned, so the scheduler
  lists again (`len(ids) < 100`); with both accounts deleted it never returns (`Stuck`).
* Two requests for one memo overlap, race a refetch and are refused or lost in every
  order; four show an update that begins from what a deletion and its undo left, and were
  tried beside the run (section 4).
* Four requests of the recorder are a cancelled, a refused, a finished and a running one.
* Runs end when ids, calls, moves or crashes are spent, so deadlock is not checked in
  them; the liveness properties state what must not get stuck. `bans` checks it.

Symmetry is used for users, Spaces, memos, goroutines and pairs, in runs without a
liveness property only.

### Fairness

* `SpacePostgres`: weak fairness of each connection - the driver issues the next
  statement when the last one returns, and PostgreSQL wakes a waiter.
* `SSEHub`: weak fairness of each publisher. No client is assumed to read.
* `AttachmentCleanup`: weak fairness of the job (`server.go` calls it from an hourly
  ticker) and strong fairness of its count and of its deletion of an object that can
  be deleted: attempts are not all refused. Nothing is assumed of `Broken` objects.
* `UserSettings`: weak fairness of a running call, strong fairness of `Lock` - a Go
  mutex does not starve a waiter. `UserCache`: weak fairness of the steps of a call and of
  expiry, strong fairness of the cleanup goroutine, which has a ticker.
* `Moderation`: weak fairness of the steps of a handler, of the scheduler's ticker and
  of its query; time passes, so a temporary ban runs out.
* `WebSession`: strong fairness of each request and each refresh call - the event loop
  runs queued tasks in order, and a task that runs disables the others meanwhile. The
  network answers or reports a loss. Nothing obliges the user to act or time to pass.
* `LiveRefresh`: weak fairness of the loop of each attempt, of message delivery and of
  the hidden-page timer.
* `MemoEditor`: weak fairness of the debounce timer, of the server and of answers.
  `InlineUpload`: every upload ends in one way or another. `AudioRecorder`: a stopped recorder
  fires its event, a transcription ends. `MusicPlayer`: a track that plays ends.
* `MemoCache`: weak fairness of answers, of notices, and of the list's refetch interval
  (`refetchInterval` of 30 s). `MemoBatch`: of loading, of the next batch and of answers. `SpaceScope`: of effects,
  of a page that loads, and of answers or failures.

## 4. Findings

Two disagreements between the code and what the repository says of it are runs:

1. **Last administrator under PostgreSQL** (`space_postgres_admin`,
   `store/db/postgres/user.go:90`). The check reads other users' memberships without
   locking them: two administrators archived at the same time both pass and the Space
   has none. `docs/design/multi-spaces.md:120` says such changes are rejected; line
   188 defers broader serialisation. (With a second Space there is a shorter way that
   needs no check at all: an account is archived while its own request creates a Space,
   which then has an archived founder. The run has one Space, so that its trace is the
   two archivals.)
2. **A revoked token comes back** (`settings_revoked`, `store/user_setting.go:79`).
   `ListUserSettings` fills the cache outside the mutex with a row that a revocation
   has replaced; the next change is made to that copy and stores the token again.
   `user_service_access_tokens.go:120` says revocation "Immediately invalidates the
   token".

### Known deviations

The passing runs leave out some circumstances under which the code does not keep what
a comment, a test or a document says of it. Each was met while modelling; the model has
the behaviour, and an instance with the constants given reaches it (the property is
defined in the module, and is not part of a run).

**MemoStore**

- `OneMemoPerDeletion`, a memo with a comment
  (`store/db/sqlite/memo_delete_policy.go:83`). Soft deletion and purge collect the
  whole tree of COMMENT relations below the memo (MemoCommentTree) and delete every memo
  in it, whoever wrote it. store/memo_delete_policy.go:10 says of the same request:
  "Relations do not confer lifecycle authority, so no related memo is deleted.", and
  docs/design/multi-spaces.md:132: "It does not traverse relations or delete other
  memos."

**SSEHub**

- `ChangeReachesClients`, every instance (`server/router/api/v1/memo_service.go:957`).
  DeleteMemo, and likewise RestoreMemo, PurgeMemo, EmptyTrash, the reaction, poll and
  attachment handlers, only call publishMemoChanged, whose filter passes clients with
  userID 0 only (sse_hub.go:160), while handleSSE turns a caller with userID 0 away
  (sse_handler.go:44): no connected client hears of the change.
  server/router/api/v1/sse_hub.go:159 says "Authenticated subscribers receive one
  precise event from Broadcast instead.", and docs/design/multi-spaces.md:190
  "Successful memo and reaction mutations broadcast `{"type":"memo.changed"}`".

**AttachmentCleanup**

- `PurgedNotForgotten`, `StorageOf = "S3"` for two ids
  (`store/attachment_cleanup_queue.go:103`). S3 attachments are stored with an empty
  reference (attachment_service_storage.go:125, "S3 attachments carry no reference"), as
  are database attachments, so the reuse check SELECT COUNT(*) ... WHERE reference=? AND
  id<>? matches any other of them; the job then acknowledges the queue row without
  deleting the object. store/attachment_cleanup_queue.go:56 says "RetryAttachmentCleanup
  retries a bounded batch of failed local/S3 deletions." and line 19
  "EnqueueAttachmentCleanup keeps external object deletion retryable after database
  commit."
- `RetrySparesLive`, `FilenameOnly = TRUE`, two ids
  (`store/attachment_cleanup_queue.go:110`). The reuse check and the deletion are
  separate steps: an upload that was given the old path and inserts its row after the
  count loses its file to the deletion. store/attachment_cleanup_queue.go:100-101 says
  "A filename-only storage template may reuse a path after deletion. Never remove a new
  live attachment that now owns the old snapshot's path."

**WebSession**

- `SessionKept` without `outrun`, two `Tabs` (`web/src/auth-state.ts:11`). auth-state.ts:11-14 says that
  the BroadcastChannel lets "only one tab" refresh, "avoiding a redundant (and
  potentially conflicting) refresh request", and
  server/router/api/v1/auth_service_session.go:141 says "add before remove to handle
  race conditions". A token is only broadcast once its response arrives, so two tabs
  that start with an expired token both send the old cookie; the server removes it for
  the first, answers the second with Unauthenticated, and the second tab settles on
  UNAUTHENTICATED_STATE although the browser holds a live session.
- `SessionKept` without `outrun`, `Events = {"loss"}`
  (`web/src/auth-state.ts:12`). The same promise of a refresh that does no harm. With one
  tab it takes a lost answer: the browser keeps the old cookie, and a page that is opened
  later is refused a refresh. (`CookieLive` below is the same loss seen from the cookie.)
- `OneSession` without `left`, `Events = {"stuck"}`, or `{"loss"}`, or two `Tabs`
  (`server/router/api/v1/auth_service_session.go:155`). Line 109 says that a refresh token
  becomes "invalid after legitimate refresh". A removal that fails is only logged; a new
  token whose answer is lost stays stored; of two tabs that refresh at once one
  overwrites the other's cookie. Each leaves a refresh token that works until it expires,
  beside the one that the browser uses.
- `LogoutSticks`, `Events = {"logout"}`, two requests
  (`web/src/contexts/AuthContext.tsx:154`). auth-state.ts:2 says "Tokens are cleared on
  logout or expiry". logout clears them but neither cancels nor invalidates a refresh
  under way: when that call is answered afterwards doRefreshAccessToken
  (web/src/connect.ts:126) sets the token and the rotated cookie again, and the session
  that was left is alive.
- `CookieLive`, `Events = {"loss"}`
  (`server/router/api/v1/auth_service_session.go:153`). auth_service_session.go:108 says
  "Sliding window sessions: active users stay logged in indefinitely". The old refresh
  token is removed before the response reaches the browser; if that response is lost the
  browser keeps a cookie that the server refuses, and an active user is signed out when
  the access token expires.

**LiveRefresh**

- `Converges` without `Competes`, `browser.coordinate`, `MaxMoves = 5`
  (`web/src/hooks/useLiveMemoRefresh.ts:184`). useLiveMemoRefresh.ts:77 says of the hook
  "This enables real-time updates across all open instances of the app". When the lock
  is granted to a page that was hidden meanwhile the callback returns at once, but
  leadershipAbortController is dropped only when the request settles, in a later task; a
  page shown in between finds it set, does not start, and nothing starts it again until
  the next event of the page. With a single tab the stream is then read by nobody.
- `UpToDate`, two changes, no other event (`web/src/hooks/useLiveMemoRefresh.ts:154`).
  useLiveMemoRefresh.ts:77 says "This enables real-time updates across all open
  instances of the app". The reload on connection is skipped the first time
  (hasConnectedOnceRef), although the page fetched its data before the stream was open:
  a change in between stays unseen until another event.
- `Converges` for `"own memos"`, every instance (`web/src/hooks/useLiveMemoRefresh.ts:462`).
  server/router/api/v1/sse_hub.go:159 says "Authenticated subscribers receive one
  precise event from Broadcast instead" (memo.created, memo.updated, ...), and
  publishMemoChanged skips them; handleSSEEvent only knows memo.changed and
  space.changed, so a change of a memo outside a Space refreshes no signed-in page. The
  property is about Spaces and the memos of Spaces for this reason.

**MemoEditor**

- `TextKept` without its exception, `Hosts = {FALSE}`, two slots
  (`web/src/components/MemoEditor/hooks/useMemoSave.ts:68`). useAutoSave.ts:72 flushes
  on unmount "to ensure the draft is persisted before the component is torn down".
  discardDraft of an editor that is no longer mounted clears the entry of the key
  whatever it holds: a text typed in the next editor of that key and left there before
  the answer of the earlier save arrives is deleted.
- `SavedDraftGone` without its exception, two `Tabs`
  (`web/src/components/MemoEditor/hooks/useMemoSave.ts:66`). useMemoSave.ts:66 says
  "Prevent the autosave unmount flush from restoring the saved draft". The refs that
  prevent it belong to one editor: a second tab that loaded the draft before the save
  still shows it, and its timer or its next flush stores it again, ready to be posted
  twice.
- `TextKept` without its exception, `DraftEvents = {"typeahead"}`
  (`web/src/components/MemoEditor/hooks/useMemoSave.ts:82`). useAutoSave.ts:39 says
  "Persist the current draft on mount/enable, then on every relevant change". The editor
  is not read-only during a save (EditorContent.tsx has no such flag): what is typed
  before the answer is marked as discarded with the draft that was sent (discardDraft
  takes the latest draft, not the sent one) and removed by the reset.

A text typed less than a debounce delay before the browser is killed is lost: that is the
price of the delay, stated by no comment. `Kill` takes what is not yet stored out of
`kept`, so for a killed browser `TextKept` is about the text that was written to
`localStorage`; a page that is closed or left in order flushes first and is covered in full.

**InlineUpload**

- `InlineBound` without its exception, `UploadEvents = {"remove"}`
  (`web/src/components/MemoMetadata/Attachment/AttachmentListEditor.tsx:375`).
  AttachmentListEditor.tsx:276 says of an inline image "Keep the attachment bound to the
  memo". An attachment is listed, with its remove button, until the text refers to it;
  one that belongs to a running job can be removed between its upload and the end of the
  job, which then writes a reference to an attachment that is no longer bound.
- `UploadedOnce` without `\ tried` (`web/src/components/MemoEditor/services/memoService.ts:148`).
  A save uploads all local files before it creates the memo. When a later upload or the
  request fails, the files stay local (`useMemoSave.ts:96`), with nothing that remembers
  the attachments that were created, and the next save uploads them again. An inline job
  does remember: useInlineImageUpload.ts:181 skips what has an attachment.
- `Resolvable`, `UploadEvents = {"erase"}`
  (`web/src/components/MemoEditor/Editor/uploadAnchors.ts:105`).
  web/src/locales/en.json:336 tells the user to "Resolve image uploads before saving".
  The only controls that do so are in the anchor, a block widget with side 1 that is
  mapped through changes and dropped when the text after it is deleted; the job stays in
  jobsRef, pendingInlineImageInsertions stays above zero and canSave refuses for the
  rest of the life of the editor.

**AudioRecorder**

- `MicClosed`, `RecorderEvents = {"unmount"}`
  (`web/src/components/MemoEditor/hooks/useAudioRecorder.ts:116`).
  useAudioRecorder.ts:118 says "Mount-only: detect support once and tear down on
  unmount". The clean-up does not renew startRequestIdRef: getUserMedia that resolves
  afterwards passes the check of its request, starts a recorder and leaves the tracks
  live, with no control left that would end them.
- `RecordingKept` without `wiped`, a transcription
  (`web/src/components/MemoEditor/hooks/useMemoSave.ts:82`). validationService.ts:39 says
  "Cannot save while audio recorder is active", and index.tsx:186 attaches the recording
  when its transcription fails, so that it is not lost. But a transcription does not make
  the recorder busy: text that is typed can be saved meanwhile, and a recording or its
  text that joins the draft between the reading of the draft and the reset is neither in
  the memo nor in the draft afterwards.
- `Controllable` without its exception, `RecorderEvents = {"overlap"}`, three requests
  (`web/src/components/MemoEditor/index.tsx:200`). validationService.ts:39 says "Cannot
  save while audio recorder is active". The end of a transcription closes the recorder
  panel unconditionally; a recording started meanwhile (the menu only checks isBusy)
  keeps the microphone open and the save blocked, without a button to stop or to cancel
  it.

**MusicPlayer**

- `OffStaysOff` without `woken`, `blocked`
  (`web/src/contexts/MusicPlayerContext.tsx:353`). MusicPlayerContext.tsx:21 says "The
  visitor switched the music off; nothing starts by itself until they press play again."
  When autoplay is refused a pointerdown and a keydown listener are added, each for one
  event: the first click uses up one of them, the visitor switches the music off, and
  the first key pressed afterwards runs the other, which asks only whether the element
  is paused and starts the music.
- `OffRemembered` without its exception, two `Tabs` (`web/src/contexts/MusicPlayerContext.tsx:223`).
  MusicPlayerContext.tsx:64 promises "Stop and keep the music off for this visitor."
  updatePrefs writes everything the tab read when it was opened: another tab that
  changes the order, the volume or just comes to the next track stores its choices
  without off, and the next visit starts with music.

**MemoCache**

- `DetailCurrent` without `raced` (`web/src/hooks/useMemoQueries.ts:264`).
  useMemoQueries.ts:245 says "Cancel outgoing refetches to prevent race conditions" and
  line 262 "Rollback on error". One request is enough when its answer is lost: the
  rollback shows the old memo, invalidates nothing, and the page of a memo has no
  refetch interval. Two overlapping updates of which the second is refused put back the
  optimistic value of the first; a refetch that starts behind the cancellation, or another
  client's change whose notice was handled before, is overwritten by the answer. With a
  notice (`inSpace`), the window's focus or a visit the page is fetched again; without
  one, as for every memo outside a Space, it stays as it is. `raced` names these
  circumstances and nothing else: instances with three or four requests, of one field,
  were checked beside the run, exhaustively or by random behaviours, and kept the property.

**MemoBatch**

- `SelectionOnPage` without its exception, `Hold = TRUE`, `PageSize = 2`, three memos
  (`web/src/components/PagedMemoList/MemoSelection.tsx:176`). MemoSelection.tsx:55 says
  "The memos on the current page; the selection never reaches beyond them." The timer of
  a long press is not cleared when the card is unmounted: it starts picking with a memo
  that is no longer on the page, which stays selected until the memos of the page change
  again.
- `DoneIsDone` for every memo of the run
  (`web/src/components/PagedMemoList/MemoSelection.tsx:295`). Line 292 says "Memos already
  in the wanted state are skipped rather than sent again." The state is the one of the
  list as it was rendered: after an earlier run whose answer was lost (the rollback shows the
  old visibility), or up to thirty seconds after another client changed it, a memo is
  skipped that has the other visibility on the server, and is counted as done. `owed`
  leaves out the memos that the list showed with another visibility than the server's when
  the run began.
- `PublicChecked` without `edited`, `Edits = TRUE`
  (`web/src/components/PagedMemoList/MemoSelection.tsx:421`). MemoSelection.tsx:298 says
  "Going public passes the same privacy check as the editor, over every memo that is not
  public yet." The check reads the content of the list, the update sends only the
  visibility and the server does not check: content another client stored after the list
  was read, or under the open dialog, goes public unchecked.

**SpaceScope**

- `AllKept`, `Patient = FALSE` (`web/src/pages/Space.tsx:24`). The test
  web/tests/space-context.test.tsx:133 expects that after "Select Memos" the selection
  is gone (toBeNull). While the navigation to All is loading the Space page is still
  mounted: the answer of its query runs its effect, which selects the Space again, and
  the redirect takes the visitor back to the Space when All opens.
- `DeadNotOpened`, `Losses = FALSE`, two moves
  (`web/src/contexts/SpaceContext.tsx:142`). SpaceContext.tsx:140 says "Clear a
  confirmed stale session selection before it can become an authoritative Space URL",
  and web/tests/space-context.test.tsx:139 expects the path to stay /explore with a mock
  that answers at once. The redirect only waits when the answer has already come: with a
  query still under way (every cold start), or cached as found after the visitor himself
  deleted the Space, the address of the missing Space is opened, and there the selection
  is never cleared.

**UserCache**

- `CountExact`, two `Goroutines`, one user (`store/cache/cache.go:103`). Two goroutines
  that Set one new key both find it absent and both count it (and a Set that removes an
  item for replacement lets another count it again): the counter stays one too high for
  good. The comment at store/cache/cache.go:102 says "Check if item already exists to
  avoid double counting."
- `ItemsBounded`, two `Goroutines`, two users (`store/cache/cache.go:117`). A Set that
  found its key to replace loses it to an eviction counted off meanwhile and stores it
  uncounted: the counter is one too low from then on and the map keeps more than
  MaxItems items. store/cache/cache.go:49 says "MaxItems is the maximum number of items
  allowed in the cache."
- `MissingNotServed`, two `Goroutines`, one user (`store/user.go:172`). GetUser reads
  the row, the user is deleted and the cache invalidated, then GetUser stores what it
  read: until the item expires, ten minutes later, resolveBearer resolves the deleted
  user. Its comment at server/auth/authenticator.go:143 says it returns nobody when the
  token "is absent, malformed, expired, unknown, or resolves to a missing/archived
  user".

**Moderation**

- `SchedulerReturns` without `Stuck`, `BatchLimit` at most the number of users deleted
  with a ban, in the run too
  (`server/router/api/v1/moderation_user_ban.go:121`). Deleting a user leaves the active
  ban row behind; restoring that user fails at the first write and leaves the row, so
  once a full batch (100) of expired bans belongs to deleted users the loop lists the
  same ids for ever, lifts nobody else's ban, and the goroutine publishes no scheduled
  memo and purges no trash any more. The comment at server/router/api/v1/moderation_user_ban.go:119 says "It is
  safe to run repeatedly."
- `PermanentKept`, a reporter, `"forever" \in Terms`
  (`server/router/api/v1/moderation_user_ban.go:86`). An automatic ban overwrites
  expires_ts whatever ban is there: a single report beyond the threshold turns a
  moderator's permanent ban into one of some days, which the scheduler then releases.
  web/src/locales-custom/en.json:384 says "Ban days (empty means permanent)".
- `PermanentKept`, one handler, `"forever" \in Terms`
  (`server/router/api/v1/moderation_user_ban.go:131`). The ids are listed first and
  restored later without looking at the ban again: a permanent ban saved in between is
  deactivated. The comment at server/router/api/v1/moderation_user_ban.go:119 says
  "ReleaseExpiredUserBans restores temporary bans."
- `NotLockedOut`, two `Handlers` (`server/router/api/v1/moderation_user_ban.go:110`). An
  unban that deactivates the ban after another moderator archived the account and saved
  a temporary ban leaves the account archived with no active ban: it is never released.
  web/src/locales-custom/en.json:382 says "Set a temporary ban, or leave the number of
  days empty for a permanent ban."

**SpaceInvitations**

- `NotifiedAlone` with `dismissed` counted
  (`server/router/api/v1/user_service_notifications.go:180`). DeleteUserNotification deletes
  the notification of an invitation that is pending, and nothing writes it again; the
  invitation is still listed among those of the Space and of the user.
- `NotifiedAlways`, two `Handlers` (`server/router/api/v1/space_service.go:521`). The
  invitation is committed and visible before its notification is written: the invitee
  can accept or decline it in between, the deletion finds no notification, and the one
  written afterwards stays. The error at server/router/api/v1/space_service.go:774,
  "space invitation was accepted but its notification could not be removed", says the
  answer removes it.
- `TakesBackOwn`, three `Handlers`, `MaxFails = 1`
  (`server/router/api/v1/space_service.go:534`). The compensation revokes by Space and
  user: declined and made again by another administrator meanwhile, it is that
  administrator's invitation that disappears while its notification is kept. The comment
  at server/router/api/v1/space_service.go:532 says "Keep invitation state and the
  notification center consistent if the second write fails."

**UserSettings**

- `AddedStays`, `Kind = "webhooks"`, two `Threads` (`store/user_setting.go:359`).
  AddUserWebhook reads, extends and writes the list without a mutex: of two concurrent
  calls that both return success one webhook is lost. store/user_setting.go:358 says
  "AddUserWebhook adds a new webhook for the user."

## 5. Proofs

Eight modules hold theorems: `StoreProofs` (about `Space`, `SpaceGovernance` and
`MemoStore`), `SpacePostgresProofs`, `UserCacheProofs`, `ModerationProofs`, `ServerProofs`
(about `Server`, the module that joins `UserSettings`, `UserCache`, `SpaceInvitations` and
`AttachmentCleanup`), `LiveProofs` (`SSEHub`, `LiveRefresh`), `EditingProofs`
(`AudioRecorder`, `InlineUpload`, `MemoEditor`) and `PagesProofs` (`MemoBatch`). They hold for every
value of the constants, the bounds (`Max...`) included, under the named assumptions. An
invariant that needs strengthening has its strengthening at the end of its own module,
where TLC can evaluate it; `ServerTypeOK`, `HubFormed` and `TreeConnected` conjoin those
parts, so that they are checked on the instances too. (`LocksProtect` of `SpacePostgres`
is only proved.)

| Theorem | States |
| --- | --- |
| `TypeCorrect`, `SpaceSafe`, `OrphanFree`, `ConsentSafe` | `TypeOK`, `ActiveAdminKept`, `NoOrphanRows`, `MembershipByConsent` of `Space` |
| `SpaceImplementsGovernance` | `Governed` |
| `MemoStoreImplementsSpace` | `MemoSpec => Spec` |
| `MemoRowsSafe`, `ShareSafe`, `FormerMemberSafe`, `TreeSafe`, `RestoreSafe` | `MemoRowsValid`, `NoShareOnSpaceAudience`, `FormerMemberMovesOnly`, `TreeConnected`, `RestoreIsOneBatch` |
| `PgOrphanFree`, `PgConsentKept` | `NoOrphanRows`, `PgMembershipByConsent` of `SpacePostgres` |
| `SettingsTypeCorrect`, `SettingsExact` | `TypeOK`, `ExactUnlessOvertaken` of `UserSettings` |
| `ServedCurrent`, `CountedAlone` | `StaleOnlyByRace`, `CacheCounted` |
| `BansKeptTogether` | `BanMatchesAccount` |
| `InvitationsNotified` | `NotifiedAlone` |
| `LiveAttachmentHasItsBytes`, `PurgedFileIsQueued` | `LiveObjectKept`, `PurgedNotForgotten` |
| `ServerTypesKept` | `ServerTypeOK` of `Server` |
| `DraftKept` | `DraftSafe` of `MemoEditor` |
| `HubStaysFormed`, `HubNeverPanics`, `HubDropsMissed` | `HubFormed`, `NoPanic`, `MissedIsDropped` |
| `OneTabListens` | `TabsSafe` of `LiveRefresh` |
| `RecorderKept` | `RecorderSafe` of `AudioRecorder` |
| `UploadsKept` | `UploadsSafe` of `InlineUpload` |
| `BatchKept`, `RunsDone` | `BatchSafe`, `DoneIsDone` of `MemoBatch` |

### Space

For any sets of users, Spaces and access modes with finitely many users
(`UsersFinite`, needed because the driver counts administrators). The inductive
invariant is `IInv == TypeOK /\ NoOrphanRows /\ ActiveAdminKept`. Given the types, the
other two are each inductive without the other (`OrphanStep`, `AdminStep`): the guards
the driver evaluates inside the transaction are all a step needs. That is what the
serial transactions of SQLite buy; under READ COMMITTED the same guards are evaluated
on rows that change before the write, and `ActiveAdminKept` fails (finding 1). The
argument of `AdminStep` follows the code: `CreateSpace` makes an administrator;
archiving passes `ArchiveAllowed`, which names a successor; `DeleteUser` refuses anybody
with an accepted membership; demotion and removal pass a count, which `AnotherStays`
turns from "more than one" into "somebody else" with the cardinality theorems; the
rest touch no active administrator.

Under the mapping of `SpaceGovernance` initial states map to initial states, and every
transaction to one abstract step or a stutter. That rests on `IInv`: without
`ActiveAdminKept` a demotion would not be a step of `Governance`, which never leaves a
living Space without an administrator.

### Memo store

Every memo transaction is a transaction of `Space` or leaves its tables alone
(`MemoStepIsSpaceStep`), so the theorems above hold with memos around. For the memo
rows, `IInv` of `Space` supplies that members and Spaces exist, and
`MemoRowsValid /\ NoShareOnSpaceAudience` is inductive on top of it. The comment tree
needs more: `TreeInv == NoDanglingRelation /\ LiveCommentLiveParent /\ StampsInOrder`.
Without `StampsInOrder` (a trashed comment is in the trash at least as long as its
trashed parent) a restoration of the parent's batch could leave a live comment under
a trashed memo. No induction along the tree is used: `CommentTree` is defined as the
least closed set, and `TreeLeast` shows that whatever is closed under comments and
holds the root holds the tree.

### PostgreSQL driver

For any number of connections and transactions. The orphan and consent properties
survive READ COMMITTED because of `LocksProtect`: a transaction past the `FOR UPDATE`
of a user or Space row holds the lock, and what it read of that row is still so
(`HoldsUser`, `HoldsSpace`); an account about to be deleted has no membership and gets
none meanwhile (`MayDelete`), as whoever would accept or create one needs the lock of
the same row. `Stages` is the table of which helper comes after which in each operation;
`WriteStep` shows that one transaction's commit breaks nobody else's locks. The
argument has no counterpart for `ActiveAdminKept`, where the rows counted are not locked.

### User settings

For any set of goroutines, entries and any bound on calls. `TypeOK` contains mutual
exclusion: the mutex is held exactly by the one change between `Lock` and the deferred
unlock. `ExactUnlessOvertaken` is not inductive. The strengthening is `IInv == TypeOK /\
IdsFresh /\ Coherent /\ ExactUnlessOvertaken`: an id that a call is about to add is in
no list (`IdsFresh`), and unless something was overtaken the cache holds the row or
nothing, and the copy a change is about to write differs from the row by that change
alone (`Coherent`). Finding 2 is the exempted case.

### User cache

For finitely many users, any number of goroutines and any limit of at least one item
(`CacheSetting`).
`ServedCurrent` is about every interleaving: the copies goroutines are about to store
are those of the row unless the user is in `raced` (`CopiesCurrent`), and an item that
differs from the row has a goroutine that will replace or remove it (`StaleReplaced`);
the second alone is not inductive, since what replaces the item must be current.
`CountedAlone` is about the behaviours in which no goroutine enters while another is
inside, which the history variable `crowded` records (once two were, the counter may
drift, see Known deviations). `CountKept` says that then at most one is inside, and
`Counting` by how much the counter may be ahead of the map at each step of `SetWithTTL`
that one has reached; eviction brings it back under the limit because it takes at
least one item.

### Bans

For any number of users, handlers and reporters and any batch limit, with finitely
many users (`ModerationAssumption`). A ban and its release are writes to three tables, so
`BanMatchesAccount` does not hold while one is at work. `BansSound` says, for a user
nobody overlapped on, what the one goroutine at work has written so far (`OnTrack`), and
that the users who wait in the scheduler's list are still as the list found them. A
user may be deleted at any of these steps; the clauses about the account then lapse.

### Space invitations

For any number of handlers, Spaces, invitees, failures and restarts, and any deletion of
notifications, Spaces and accounts in between. `WorkedAlone` says of a pair that no two
handlers overlapped on and none was cut off from, while its Space and account exist: at
most one handler is at work on it, and what it needs to finish is there (`OnTrack`): the
invitation it made has no notification yet, the one it answered has none but those it
listed. The compensation is where this matters: it takes back "the invitation of this
pair", which is its own only as long as nobody overlapped. A pair whose Space or account
is deleted has no row any more (`member[p] = "NONE"`), and whatever notification a
handler still writes for it is not shown.

### Attachment cleanup

`Setting` is what the database and the configuration give: positive ids, finitely many
of them, a batch of at least one. `LiveAttachmentHasItsBytes` also assumes
`~FilenameOnly`: with a template that reduces paths to file names, two attachments can be
given one path and lose bytes to each other (Known deviations). `PurgedFileIsQueued`
assumes no object store (`NoObjectStore`): S3 attachments have an empty reference, so
any other live one counts as a user of "the same" path and the queue row is dropped
with the object still there (Known deviations). The strengthening is `OneLife` (a row lives once, and only
deleted ones are cleaned up after), `PlaceKept` and `WrittenKept` for the first, and
`GoneBeforeAcknowledged` (a row leaves the queue after its object is gone) for the
second, which holds with every template of paths.

### The server's parts together

`ServerTypesKept` is about the four modules of `Server` side by side: each step is of one
of them, and the strengthenings above hold together whatever the others do. They share
no variable, so it follows from the four invariants. Where paths are reduced to file
names (`FilenameOnly`), `WrittenKept` is exempted, as two uploads may then share a path.

### SSE hub

For any number of publishers, clients and frames, with the shutdown of the server at
any time. `NoPanic` and `MissedIsDropped` become inductive with `MapIsOpen` (the channels of the
clients in the map are open), `LoopIsLocked` (a publisher inside its loop works on
clients of the map, which the read lock keeps there) and `MissedWasOpen`.

### Tabs

For any number of tabs and of attempts of each, with and without Web Locks
(`LiveAssumption`). `OneStream` becomes inductive with `LoopHoldsLock`: an attempt that
is in its loop, an aborted one too, is the one that holds the lock. The lock changes
hands only when the callback returns (`Released`), after the loop, so a successor that
was granted it finds nobody reading. An abort alone ends no loop, which is why the
invariant cannot speak of the tab's controller. A browser without Web Locks is exempt:
there each tab reads a stream of its own.

### Recorder

For any number of requests, with saves that begin, end and fail in between.
`RecorderInv` adds to `RecorderSafe` that requests are
numbered in their order and what was cancelled is older than the last one
(`RequestsOrdered`); that the last request is at one place, waiting, running or stopped
(`OnePlace`); that what is transcribed or being saved was not cancelled (`CallsWanted`); and that
nothing is recorded during a save (`SavingIdle`). So the test
of `startRequestIdRef` in a late grant or stop event decides rightly. `Controllable`, that
a busy recorder is shown and can be stopped, needs `OneTranscription`, which fails once
a recording begins during a transcription (`"overlap"`, Known deviations).

### Inline uploads

For any sets of files and jobs. A job is retried with what it has no attachment for
(`JobsFormed`), two jobs share no file (`JobsApart`), and what is still to be uploaded, by
a job or by the save that is under way, was not uploaded before (`Fresh`), unless a save
that failed had uploaded it: that gives `UploadedOnce` through failures, retries,
dismissals and saves. `NothingLost` and `InlineBound` rest on `UploadedIsAttached`, and on
the guard of a save (`MaySave`), which is refused while a job is at work.

### Drafts

For any number of texts and memos, one editor at a time (`OneEditor`: one tab, where the
dialog, or the user of an inline editor, opens no other before a save has ended, and
nobody types during a save; Known deviations say what happens otherwise). `DraftInv` says
what an editor is at each point of a save (`EditorFormed`: the text in the request is the
text in the editor, and exactly a settling editor discards it), what is left when no
editor is on the screen (`LeftBehind`: no timer runs, and localStorage has the text),
that a saved text is nowhere but in a settling editor (`NotAgain`), and that what may
still be saved is in no memo (`Unsaved`, as long as nothing but failures happens: an answer
that is lost leaves a memo behind). The proof follows the one editor of the tab (`Lone`).

### Batch tidying

For any finite set of memos, any page and batch size, with lost answers and another
client. The page, the run and what a failure puts back are copies that may differ from
the server. `PageTrue` says in what they do not: a copy tells what the memo holds, and
shows a memo as public only if its content was checked (`Checked`), for memos that no
other client changed. `DialogTrue` is about what was asked while the selection only
shrinks under a dialog, `JobCleared` about a run that publishes. These give `BatchSafe`.
`JobTrue` says that a change that is owed is not skipped and is still to come unless it
failed; `RunsDone`, the action property, follows from it at the step that ends a run, and
needs no assumption on the other client: what it changes during a run is neither added to
what the run owes nor taken away, and what it changed before is owed only if the list
showed it. `Hold` (a long press whose card goes away) is exempted by `~Hold`, a memo that
was changed by another client (`edited`) from the privacy check alone.

### Only model-checked

TLAPS cannot prove liveness under fairness or reason about `ENABLED`, so every `...Ends`
property and `EveryTxnEnds` stay with TLC. It cannot do induction over data, so what a
recursive definition computes stays with TLC too, and no module a proof uses declares
a RECURSIVE operator. `RevokedStays` and `PgActiveAdminKept` are violated. The other safety
properties of the client (`MusicKept`, `SessionSafe`, `DetailCurrent`, `ScopeAsked`) are model-checked on the instances of section 3.

## 6. What is assumed of things outside the repository

React runs the effects of a render before the next task; TanStack Query cancels, sets,
invalidates and refetches as its documentation says and the hooks rely on; Web Locks
grant in order; `MediaRecorder` fires `stop` after `stop()`; PostgreSQL gives READ
COMMITTED with row locks, SQLite one writer. Each is a definition marked external or a
comment where it is used.

## 7. Plan

Done: the modules of section 2, and the theorems of section 5, which now cover every
safety property of the server's runs and most of the client's. Next, in this order:

1. Theorems for the rest of the client: `OneSession` of `WebSession`, `DetailCurrent` of `MemoCache`, `ScopeAsked` of `SpaceScope`.
2. Revisions and payload in `MemoStore` (edit history, scheduled publication), and memos
   in `SpacePostgres` (a memo created while its Space is deleted).
3. `LiveRefresh` composed with `SSEHub`: the buffer of a stream is a client's channel.
4. MySQL isolation, authentication configuration, migrations.

## 8. What is not modelled

* **Pure text**: wording, formatting, request parsing and rendering; the Markdown, filter
  and style-pack algorithms, which work on characters; external services beyond
  "succeeds or fails"; MCP, gateway, file server, which translate requests.
* **Server**: MySQL's isolation, scheduled publication, migrations, authentication
  configuration (planned); polls, reactions and the daily question (a row behind a unique
  key); import (sequential inserts).
* **Most of the web client.** `web/src` has some 93,500 lines, of which about 20,000 are
  generated protobuf code, 16,000 are tables of questions and translations, and most of
  the rest is layout, style and forms that send one request and show its answer. What
  keeps state across an await, a timer, a tab or a reload is modelled; a module for a
  settings form would restate its fields. The share of lines that the map covers is
  small for that reason, and cannot honestly be large.
* **Hazards without a property** are in `PROJECT.json` with the reason. Besides them: a
  demoted administrator keeps the stream that was opened with the old role
  (`sse_handler.go:67`); deleting attachments directly leaves no queue row, so a crash
  before the storage call leaks the object (`attachment_delete.go:47`); a memo created in
  a Space that another PostgreSQL transaction deletes (`postgres/memo.go:84`); a checkbox
  writes the content it was rendered from (`TaskListItem.tsx:58`).
