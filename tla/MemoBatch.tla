----------------------------- MODULE MemoBatch -----------------------------
(* A paged list of memos with batch tidying (PagedMemoList.tsx and           *)
(* MemoSelection.tsx): pages that shrink under the reader, the selection,    *)
(* the confirmation and privacy dialogs, and runs that send a few requests   *)
(* at a time while the list is refetched.                                    *)
(*                                                                           *)
(* Memos are listed by number. Of a memo the model keeps whether it is       *)
(* public, whether it is listed, archived or deleted, and whether its        *)
(* content holds something private. Reading a page is one step; the races of *)
(* a refetch with an update are in MemoCache.                                *)
EXTENDS Naturals, FiniteSets

CONSTANTS
    Memos,          \* the memos, numbers
    Mine,           \* those the visitor may manage
    PageSize,       \* memos per page
    BatchSize,      \* BATCH_CONCURRENCY
    Hold,           \* cards can be held on a touch screen
    Edits,          \* another client changes what a memo holds, or its visibility
    MaxMoves        \* bound on what the visitor and the other client do

\* Memos are listed by number; a page and a batch have room for something.
ASSUME BatchAssumption ==
    /\ Memos \subseteq Nat /\ IsFiniteSet(Memos)
    /\ Mine \subseteq Memos
    /\ {PageSize, BatchSize} \subseteq Nat \ {0}
    /\ {Hold, Edits} \subseteq BOOLEAN
    /\ MaxMoves \in Nat

VARIABLES
    server,     \* the memos
    page,       \* the number of the page, its memos as they were read, and the number of pages
    active,     \* picking
    selected,   \* the picked memos
    held,       \* the cards with a running timer of a long press
    dialog,     \* the open dialog, and the memos it asks about
    job,        \* the run
    cleared,    \* the memos whose findings the visitor let pass
    edited,     \* history: those that another client changed
    moves

batchVars == <<server, page, active, selected, held, dialog, job, cleared, edited, moves>>

Status == {"normal", "archived", "deleted"}
Fields == [public : BOOLEAN, status : Status, private : BOOLEAN]

NoDialog == [kind |-> "none", about |-> {}]
NoMemos == [m \in {} |-> m]

\* A run: its memos as the list showed them, the batch under way with what a failure
\* puts back, and, as history, those it owes a change.
NoJob == [kind |-> "none", targets |-> {}, copy |-> NoMemos, todo |-> {}, now |-> {}, kept |-> NoMemos,
          failed |-> {}, owed |-> {}]

Loading(n) == [number |-> n, memos |-> NoMemos, total |-> 0]

-----------------------------------------------------------------------------
(* The list                                                                  *)

Listed == {m \in Memos : server[m].status = "normal"}
Pages == IF Listed = {} THEN 1 ELSE (Cardinality(Listed) + PageSize - 1) \div PageSize
Rank(m) == Cardinality({o \in Listed : o < m})

OnPage(n) == {m \in Listed : Rank(m) \div PageSize = n - 1}

Shown == DOMAIN page.memos

\* Mutant: a memo that leaves the page stays selected.
Kept(S, names) == S

\* The effect that follows a change of the memos on the page.
Trimmed(S, names) == S \cap names

\* Mutant: an empty page beyond the end stays.
StayBeyond(n) == n

\* A page beyond the end leads to the last one.
Clamped(n) == IF n > Pages THEN Pages ELSE n

\* The page is read, on arrival and every thirty seconds.
Load ==
    LET n == Clamped(page.number)
    IN /\ page' = IF n # page.number THEN Loading(n)
                  ELSE [number |-> n, memos |-> [m \in OnPage(n) |-> server[m]], total |-> Pages]
       /\ selected' = Trimmed(selected, DOMAIN page'.memos)
       /\ UNCHANGED <<server, active, held, dialog, job, cleared, edited, moves>>

Move == moves < MaxMoves /\ moves' = moves + 1

\* goToPage
GoToPage ==
    /\ Move /\ dialog = NoDialog
    /\ \E n \in 1 .. page.total : n # page.number /\ page' = Loading(n)
    /\ selected' = {}
    /\ UNCHANGED <<server, active, held, dialog, job, cleared, edited>>

-----------------------------------------------------------------------------
(* The selection                                                             *)

Pickable == Shown \cap Mine
Picked == Pickable \cap selected

\* The batch button of the toolbar.
ToggleMode ==
    /\ Move /\ dialog = NoDialog
    /\ active' = ~active
    /\ selected' = {}
    /\ UNCHANGED <<server, page, held, dialog, job, cleared, edited>>

\* A finger is put on a card, and taken off; the timer runs on if the card goes.
Press(m) ==
    /\ Hold /\ Move /\ dialog = NoDialog
    /\ ~active /\ m \in Pickable
    /\ held' = {m}
    /\ UNCHANGED <<server, page, active, selected, dialog, job, cleared, edited>>

Release ==
    /\ held # {} /\ held \subseteq Shown
    /\ held' = {}
    /\ UNCHANGED <<server, page, active, selected, dialog, job, cleared, edited, moves>>

\* The timer of a long press starts picking with its card.
Held(m) ==
    /\ m \in held
    /\ held' = {}
    /\ active' = TRUE
    /\ selected' = {m}
    /\ UNCHANGED <<server, page, dialog, job, cleared, edited, moves>>

\* A click on a card, also while a run is under way.
Pick(m) ==
    /\ Move /\ dialog = NoDialog
    /\ active /\ m \in Pickable
    /\ selected' = (selected \ {m}) \cup ({m} \ selected)
    /\ UNCHANGED <<server, page, active, held, dialog, job, cleared, edited>>

PickPage ==
    /\ Move /\ dialog = NoDialog
    /\ active /\ job = NoJob
    /\ selected' = IF Picked = Pickable THEN {} ELSE Pickable
    /\ UNCHANGED <<server, page, active, held, dialog, job, cleared, edited>>

Finish ==
    /\ Move /\ dialog = NoDialog
    /\ active /\ job = NoJob
    /\ active' = FALSE /\ selected' = {}
    /\ UNCHANGED <<server, page, held, dialog, job, cleared, edited>>

-----------------------------------------------------------------------------
(* The actions                                                               *)

Enabled == active /\ job = NoJob /\ Picked # {}

\* What an action makes of a memo.
Changed(f, kind) ==
    CASE kind = "publish" -> [f EXCEPT !.public = TRUE]
      [] kind = "private" -> [f EXCEPT !.public = FALSE]
      [] kind = "archive" -> [f EXCEPT !.status = "archived"]
      [] kind = "delete" -> [f EXCEPT !.status = "deleted"]

\* run, over the memos that are picked now, as the list shows them now. It owes a
\* change to those that lack it, if the list shows the visibility they have.
Run(kind) ==
    [NoJob EXCEPT !.kind = kind, !.targets = Picked, !.copy = [m \in Picked |-> page.memos[m]], !.todo = Picked,
       !.owed = {m \in Picked : server[m] # Changed(server[m], kind) /\ page.memos[m].public = server[m].public}]

\* Making private and archiving start at once.
Start(kind) ==
    /\ Enabled /\ Move /\ dialog = NoDialog
    /\ job' = Run(kind)
    /\ UNCHANGED <<server, page, active, selected, held, dialog, cleared, edited>>

\* Mutant: findings are looked for in the first picked memo only.
MakePublicFirst ==
    LET first == CHOOSE m \in Picked : \A o \in Picked : m <= o
    IN /\ Enabled /\ Move /\ dialog = NoDialog
       /\ IF page.memos[first].private /\ ~page.memos[first].public
          THEN dialog' = [kind |-> "privacy", about |-> {first}] /\ UNCHANGED job
          ELSE job' = Run("publish") /\ UNCHANGED dialog
       /\ UNCHANGED <<server, page, active, selected, held, cleared, edited>>

\* makePublic: every memo that is not public yet is checked; findings are shown.
MakePublic ==
    LET risky == {m \in Picked : ~page.memos[m].public /\ page.memos[m].private}
    IN /\ Enabled /\ Move /\ dialog = NoDialog
       /\ IF risky # {}
          THEN dialog' = [kind |-> "privacy", about |-> risky] /\ UNCHANGED job
          ELSE job' = Run("publish") /\ UNCHANGED dialog
       /\ UNCHANGED <<server, page, active, selected, held, cleared, edited>>

\* Publish anyway: the findings that were shown are accepted.
Publish ==
    /\ dialog.kind = "privacy"
    /\ dialog' = NoDialog
    /\ job' = Run("publish")
    /\ cleared' = cleared \cup dialog.about
    /\ UNCHANGED <<server, page, active, selected, held, edited, moves>>

\* Mutant: the dialog names the memos, and the whole page is deleted.
ConfirmPage ==
    /\ dialog.kind = "delete" /\ job = NoJob
    /\ job' = [NoJob EXCEPT !.kind = "delete", !.targets = Pickable, !.copy = page.memos, !.todo = Pickable]
    /\ UNCHANGED <<server, page, active, selected, held, dialog, cleared, edited, moves>>

\* Deletion asks first; the dialog stays open until the run has ended.
AskDelete ==
    /\ Enabled /\ Move /\ dialog = NoDialog
    /\ dialog' = [kind |-> "delete", about |-> Picked]
    /\ UNCHANGED <<server, page, active, selected, held, job, cleared, edited>>

Confirm ==
    /\ dialog.kind = "delete" /\ job = NoJob
    /\ job' = Run("delete")
    /\ UNCHANGED <<server, page, active, selected, held, dialog, cleared, edited, moves>>

Dismiss ==
    /\ dialog # NoDialog /\ job = NoJob
    /\ dialog' = NoDialog
    /\ UNCHANGED <<server, page, active, selected, held, job, cleared, edited, moves>>

-----------------------------------------------------------------------------
(* The run                                                                   *)

\* Memos that have the visibility already are skipped.
Skipped(m) == job.kind \in {"publish", "private"} /\ Changed(job.copy[m], job.kind) = job.copy[m]

\* Mutant: a rest that does not fill a batch is forgotten.
NextFullBatch ==
    /\ job.now = {} /\ job.todo # {}
    /\ LET batch == {m \in job.todo : Cardinality({o \in job.todo : o < m}) < BatchSize}
           full == Cardinality(batch) = BatchSize
       IN job' = [job EXCEPT !.todo = IF full THEN @ \ batch ELSE {}, !.kept = job.copy,
                             !.now = IF full THEN {m \in batch : ~Skipped(m)} ELSE {}]
    /\ UNCHANGED <<server, page, active, selected, held, dialog, cleared, edited, moves>>

\* The next few of the memos, in their order.
NextFew(S) == {m \in S : Cardinality({o \in S : o < m}) < BatchSize}

\* runInBatches: a batch is sent at once. Each update first keeps the memo as it is
\* cached.
NextBatch ==
    /\ job.now = {} /\ job.todo # {}
    /\ LET batch == NextFew(job.todo)
           sent == {m \in batch : ~Skipped(m)}
       IN job' = [job EXCEPT !.todo = @ \ batch, !.now = sent,
                             !.kept = [m \in sent |-> IF m \in Shown THEN page.memos[m] ELSE job.copy[m]]]
    /\ UNCHANGED <<server, page, active, selected, held, dialog, cleared, edited, moves>>

\* What the list shows of a memo, if it shows the memo; a deletion patches nothing.
Patched(m, f) == IF m \in Shown /\ job.kind # "delete" THEN [page EXCEPT !.memos[m] = f] ELSE page

\* A request is carried out, if the memo is still there.
CarriedOut(m) ==
    /\ m \in job.now /\ server[m].status # "deleted"
    /\ server' = [server EXCEPT ![m] = Changed(@, job.kind)]

Carried(m) ==
    /\ CarriedOut(m)
    /\ page' = Patched(m, server'[m])
    /\ job' = [job EXCEPT !.now = @ \ {m}, !.owed = {o \in @ : server'[o] # Changed(server'[o], job.kind)}]
    /\ UNCHANGED <<active, selected, held, dialog, cleared, edited, moves>>

\* It fails, or its answer is lost, which is told as a failure as well. The memo is
\* shown again as it was kept.
Failed(m) ==
    /\ m \in job.now
    /\ UNCHANGED server \/ CarriedOut(m)
    /\ Move \/ (server[m].status = "deleted" /\ UNCHANGED moves)
    /\ page' = Patched(m, job.kept[m])
    /\ job' = [job EXCEPT !.now = @ \ {m}, !.failed = @ \cup {m}]
    /\ UNCHANGED <<active, selected, held, dialog, cleared, edited>>

\* Mutant: the run never says that it has ended.
EndRunBusy ==
    /\ job # NoJob /\ job.now = {} /\ job.todo = {}
    /\ selected' = {}
    /\ UNCHANGED <<server, page, active, held, dialog, job, cleared, edited, moves>>

\* The run ends: the selection is emptied, and a deletion's dialog closes.
EndRun ==
    /\ job # NoJob /\ job.now = {} /\ job.todo = {}
    /\ job' = NoJob
    /\ selected' = {}
    /\ dialog' = NoDialog
    /\ UNCHANGED <<server, page, active, held, cleared, edited, moves>>

\* Another client edits a memo.
Edit(m) ==
    /\ Edits /\ Move
    /\ server[m].status = "normal"
    /\ \E f \in {"public", "private"} : server' = [server EXCEPT ![m][f] = ~@]
    /\ edited' = edited \cup {m}
    /\ UNCHANGED <<page, active, selected, held, dialog, job, cleared>>

-----------------------------------------------------------------------------
BatchInit ==
    /\ server \in [Memos -> {[public |-> FALSE, status |-> "normal", private |-> p] : p \in BOOLEAN}]
    /\ page = Loading(1)
    /\ active = FALSE /\ selected = {} /\ held = {}
    /\ dialog = NoDialog /\ job = NoJob
    /\ cleared = {} /\ edited = {} /\ moves = 0

Visitor ==
    \/ GoToPage \/ ToggleMode \/ PickPage \/ Finish \/ MakePublic \/ AskDelete
    \/ Start("private") \/ Start("archive")
    \/ \E m \in Memos : Press(m) \/ Pick(m)

BatchNext ==
    \/ Load \/ Visitor \/ Release \/ Publish \/ Confirm \/ Dismiss \/ NextBatch \/ EndRun
    \/ \E m \in Memos : Held(m) \/ Carried(m) \/ Failed(m) \/ Edit(m)

\* The list is refetched, and requests are answered.
BatchFairness ==
    /\ WF_batchVars(Load) /\ WF_batchVars(NextBatch) /\ WF_batchVars(EndRun)
    /\ \A m \in Memos : WF_batchVars(Carried(m) \/ Failed(m))

BatchSpec == BatchInit /\ [][BatchNext]_batchVars /\ BatchFairness

-----------------------------------------------------------------------------
(* Properties                                                                *)

Kinds == {"publish", "private", "archive", "delete"}
Copies == UNION {[S -> Fields] : S \in SUBSET Memos}
PageState == [number : Nat \ {0}, memos : Copies, total : Nat]
Dialogs == [kind : {"none", "privacy", "delete"}, about : SUBSET Mine]
Job ==
    [kind : Kinds \cup {"none"}, targets : SUBSET Mine, copy : Copies, todo : SUBSET Mine,
     now : SUBSET Mine, kept : Copies, failed : SUBSET Mine, owed : SUBSET Mine]

\* A page has no more memos than it has room for, and a run is for its targets.
BatchTypeOK ==
    /\ server \in [Memos -> Fields]
    /\ page \in PageState /\ Cardinality(Shown) <= PageSize
    /\ active \in BOOLEAN /\ selected \subseteq Memos
    /\ held \subseteq Memos /\ (~Hold => held = {})
    /\ dialog \in Dialogs
    /\ job \in Job /\ DOMAIN job.copy = job.targets /\ job.now \subseteq DOMAIN job.kept
    /\ job.now \cup job.todo \cup job.failed \cup job.owed \subseteq job.targets
    /\ cleared \subseteq Mine /\ edited \subseteq Memos
    /\ moves \in 0 .. MaxMoves

\* The selection never reaches beyond the memos on the page, however the page
\* shrinks, moves on or is exchanged while memos are picked.
SelectionOnPage == ~Hold => selected \subseteq Shown

\* What a deletion deletes are memos of the visitor's that were picked when the
\* dialog asked: memos that came to the page under the open dialog are not among them.
DeletesAsked == ~Hold /\ job.kind = "delete" => job.targets \subseteq dialog.about \cap Mine

\* Nothing is published but memos whose content, as it is, passed the privacy check
\* or was let pass by the visitor, but for those that another client changed.
PublicChecked == ~Hold => \A m \in Memos \ edited : server[m].public /\ server[m].private => m \in cleared

\* Batch tidying.  The selection never reaches beyond the memos on the page; a
\* deletion deletes what the dialog asked about, of the visitor's memos alone; and
\* nothing is published but memos that passed the privacy check or were let pass
\* (MemoSelection).  A long press whose card goes away, and, of the last, a memo that
\* another client changed, are excepted.
BatchSafe == BatchTypeOK /\ SelectionOnPage /\ DeletesAsked /\ PublicChecked

\* When a run ends, every memo it was for came to be as it should or was reported as
\* failed (runInBatches): neither the rest of a batch nor a memo that looked as if it
\* needed no change is forgotten, unless the list showed another visibility than the
\* memo had when the run began.
DoneIsDone == [][EndRun => job.owed \subseteq job.failed]_batchVars

\* Whatever is archived or deleted, the reader ends on a page that exists.
PageExists == <>[](page.number <= Pages)

\* A run ends, and the buttons come back.
RunEnds == job # NoJob ~> job = NoJob

-----------------------------------------------------------------------------
(* Why they hold                                                             *)

\* A copy of a memo tells what the memo holds, and shows it as public only if that
\* was checked; so do the page, the run and what a failure puts back.
Checked(f, m) == f.private = server[m].private /\ (f.public /\ f.private => m \in cleared)

PageTrue ==
    ~Hold => \A m \in Memos \ edited :
               /\ m \in Shown => Checked(page.memos[m], m)
               /\ m \in job.targets => Checked(job.copy[m], m)
               /\ m \in job.now => Checked(job.kept[m], m)

\* A run is under way if its kind says so, and not under a privacy dialog; a
\* deletion runs under its own.
JobFormed ==
    /\ job.kind = "none" => job = NoJob
    /\ dialog.kind = "none" => dialog = NoDialog
    /\ dialog.kind = "privacy" => job = NoJob
    /\ job.now \cap job.todo = {}

\* A change that is owed is not skipped, and is yet to come unless it failed.
JobTrue ==
    /\ \A m \in job.owed : ~Skipped(m)
    /\ job.owed \subseteq job.todo \cup job.now \cup job.failed

\* Under a dialog the selection only shrinks; what it holds was asked about, or
\* needs no question.
DialogTrue ==
    ~Hold =>
      /\ dialog.kind = "delete" => selected \cap Mine \subseteq dialog.about
      /\ dialog.kind = "privacy" =>
           \A m \in (selected \cap Mine) \ edited : server[m].private => m \in cleared \cup dialog.about

\* A run that publishes is for memos that hold nothing private or were let pass.
JobCleared ==
    ~Hold /\ job.kind = "publish" => \A m \in job.targets \ edited : server[m].private => m \in cleared

BatchInv == BatchSafe /\ PageTrue /\ JobFormed /\ JobTrue /\ DialogTrue /\ JobCleared
=============================================================================
