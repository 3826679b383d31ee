------------------------- MODULE AttachmentCleanup -------------------------
(***************************************************************************)
(* Attachments have a row in the database and, unless the row holds the    *)
(* bytes, an object in external storage (a local file or an S3 object).    *)
(* No transaction spans the two.  An upload stores the object and then     *)
(* inserts the row; a deletion removes the row and then the object.  When  *)
(* memos are deleted for good, the transaction also writes a snapshot to   *)
(* attachment_cleanup, and the hourly background job retries the objects   *)
(* that are still there.  Every request and the job run step by step, any  *)
(* storage call may fail, and the process may crash between two steps.     *)
(***************************************************************************)
EXTENDS Integers, Sequences, FiniteSets

CONSTANTS Ids,           \* attachments; the order of their ids matters
          StorageOf,     \* storage type each is uploaded to
          FilenameOnly,  \* the storage template yields equal paths for equal names
          Broken,        \* attachments whose object can never be deleted
          BatchSize,     \* LIMIT of the retry query
          MaxCrashes     \* bound: process restarts

Shared == 0              \* what a filename-only template makes of every name
Nothing == -1            \* no object, no location, the empty reference

\* What the database gives and the configuration allows: AUTOINCREMENT ids.
Setting ==
  /\ Ids \subseteq Nat \ {0} /\ IsFiniteSet(Ids)
  /\ BatchSize \in Nat \ {0} /\ MaxCrashes \in Nat /\ FilenameOnly \in BOOLEAN

VARIABLES attachment, \* per attachment: not inserted, live or deleted
          location,   \* per attachment: where its object is stored
          object,     \* per location: whose bytes are there
          queued,     \* attachment_cleanup rows
          attempted,  \* their attempted_ts, as a rank (0: never attempted)
          purged,     \* attachments deleted together with their memo
          upload,     \* per attachment: progress of its CreateAttachment
          cleanup,    \* per attachment: progress of its deleting request
          job,        \* the retry job
          crashes     \* restarts so far

fileVars == <<attachment, location, object, queued, attempted, purged, upload, cleanup, job, crashes>>

Locations == Ids \cup {Shared}
IdleJob == [phase |-> "idle", batch |-> <<>>]

FilesTypeOK ==
  /\ attachment \in [Ids -> {"none", "live", "deleted"}]
  /\ location \in [Ids -> Locations \cup {Nothing}]
  /\ object \in [Locations -> Ids \cup {Nothing}]
  /\ queued \subseteq Ids /\ purged \subseteq Ids
  /\ attempted \in [Ids -> Nat]
  /\ upload \in [Ids -> {"idle", "write", "insert", "compensate", "done"}]
  /\ cleanup \in [Ids -> {"idle", "delete", "acknowledge", "done"}]
  /\ job \in [phase : {"idle", "count", "delete", "acknowledge"}, batch : Seq(Ids)]
  /\ crashes \in 0..MaxCrashes

----------------------------------------------------------------------------
(* The tables and the storage.                                             *)

External(a) == StorageOf[a] # "DATABASE"

\* The reference column: S3 and database attachments leave it empty.
Reference(a) == IF StorageOf[a] = "LOCAL" THEN location[a] ELSE Nothing

\* deleteAttachmentStorageImpl when it succeeds; a missing object is no error.
DeleteObject(a) ==
  object' = IF External(a) THEN [object EXCEPT ![location[a]] = Nothing] ELSE object

CanDelete(a) == a \notin Broken
CanFail(a) == External(a)

\* attempted_ts only orders the rows, so it is kept as a dense rank.
Ranked(q, f) ==
  [a \in Ids |-> IF a \in q THEN Cardinality({f[b] : b \in q} \cap 1..f[a]) ELSE 0]
Enqueue(a) ==
  /\ queued' = queued \cup {a}
  /\ attempted' = [attempted EXCEPT ![a] = 0]
Acknowledge(a) ==
  /\ queued' = queued \ {a}
  /\ attempted' = Ranked(queued \ {a}, attempted)
\* The row goes behind every other row; rows that fail within one second would
\* tie and be ordered by id, among themselves only.
MarkAttempted(a) ==
  attempted' = Ranked(queued, [attempted EXCEPT ![a] = Cardinality(Ids) + 1])

----------------------------------------------------------------------------
(* CreateAttachment: choose a place, store, insert, compensate.            *)

\* ensureUniqueLocalAttachmentPath looks before it is written; S3 never looks.
PlaceFor(a) ==
  CASE ~External(a)  -> Nothing
    [] ~FilenameOnly -> a
    [] OTHER         -> IF StorageOf[a] = "LOCAL" /\ object[Shared] # Nothing THEN a
                        ELSE Shared

ChoosePlace(a) ==
  /\ upload[a] = "idle"
  /\ location' = [location EXCEPT ![a] = PlaceFor(a)]
  /\ upload' = [upload EXCEPT ![a] = "write"]
  /\ UNCHANGED <<attachment, object, queued, attempted, purged, cleanup, job, crashes>>

SaveAttachmentBlob(a) ==
  /\ upload[a] = "write"
  /\ \/ /\ object' = IF External(a) THEN [object EXCEPT ![location[a]] = a] ELSE object
        /\ upload' = [upload EXCEPT ![a] = "insert"]
     \/ /\ External(a)          \* the write fails and the request ends
        /\ upload' = [upload EXCEPT ![a] = "done"]
        /\ UNCHANGED object
  /\ UNCHANGED <<attachment, location, queued, attempted, purged, cleanup, job, crashes>>

\* The insert commits, commits but reports an error, or fails.
InsertAttachment(a) ==
  /\ upload[a] = "insert"
  /\ \/ attachment' = [attachment EXCEPT ![a] = "live"] /\ upload' = [upload EXCEPT ![a] = "done"]
     \/ attachment' = [attachment EXCEPT ![a] = "live"] /\ upload' = [upload EXCEPT ![a] = "compensate"]
     \/ UNCHANGED attachment /\ upload' = [upload EXCEPT ![a] = "compensate"]
  /\ UNCHANGED <<location, object, queued, attempted, purged, cleanup, job, crashes>>

\* Mutant: the outcome of the insert is not looked up.
CompensateUnchecked(a) ==
  /\ upload[a] = "compensate"
  /\ DeleteObject(a)
  /\ upload' = [upload EXCEPT ![a] = "done"]
  /\ UNCHANGED <<attachment, location, queued, attempted, purged, cleanup, job, crashes>>

\* cleanupSavedAttachmentBlob: keep the object if the row did get in.
CleanupSavedAttachmentBlob(a) ==
  /\ upload[a] = "compensate"
  /\ \/ attachment[a] # "live" /\ CanDelete(a) /\ DeleteObject(a)
     \/ attachment[a] = "live" /\ UNCHANGED object
     \/ CanFail(a) /\ UNCHANGED object
  /\ upload' = [upload EXCEPT ![a] = "done"]
  /\ UNCHANGED <<attachment, location, queued, attempted, purged, cleanup, job, crashes>>

----------------------------------------------------------------------------
(* A request that deletes attachments.                                     *)

\* Mutant: the snapshot is not written in the deleting transaction.
DeleteMemoRowsUnqueued(a) ==
  /\ attachment[a] = "live"
  /\ attachment' = [attachment EXCEPT ![a] = "deleted"]
  /\ purged' = purged \cup {a}
  /\ cleanup' = [cleanup EXCEPT ![a] = "delete"]
  /\ UNCHANGED <<location, object, queued, attempted, upload, job, crashes>>

\* A memo, a Space or a user is deleted for good: rows and queue in one commit.
DeleteMemoRows(a) ==
  /\ attachment[a] = "live"
  /\ attachment' = [attachment EXCEPT ![a] = "deleted"]
  /\ purged' = purged \cup {a}
  /\ Enqueue(a)
  /\ cleanup' = [cleanup EXCEPT ![a] = "delete"]
  /\ UNCHANGED <<location, object, upload, job, crashes>>

\* The attachment itself is deleted or taken off its memo: no queue row.
DeleteAttachmentRow(a) ==
  /\ attachment[a] = "live"
  /\ attachment' = [attachment EXCEPT ![a] = "deleted"]
  /\ cleanup' = [cleanup EXCEPT ![a] = "delete"]
  /\ UNCHANGED <<location, object, queued, attempted, purged, upload, job, crashes>>

\* cleanupDeletedAttachmentStorage, its storage call; a failure is only reported.
CleanupDeletedStorage(a) ==
  /\ cleanup[a] = "delete"
  /\ \/ /\ CanDelete(a) /\ DeleteObject(a)
        /\ cleanup' = [cleanup EXCEPT ![a] = "acknowledge"]
     \/ /\ CanFail(a) /\ UNCHANGED object
        /\ cleanup' = [cleanup EXCEPT ![a] = "done"]
  /\ UNCHANGED <<attachment, location, queued, attempted, purged, upload, job, crashes>>

AcknowledgeCleanup(a) ==
  /\ cleanup[a] = "acknowledge"
  /\ Acknowledge(a)
  /\ cleanup' = [cleanup EXCEPT ![a] = "done"]
  /\ UNCHANGED <<attachment, location, object, purged, upload, job, crashes>>

----------------------------------------------------------------------------
(* RetryAttachmentCleanup.                                                 *)

Before(a, b) ==
  attempted[a] < attempted[b] \/ (attempted[a] = attempted[b] /\ a < b)

\* ORDER BY attempted_ts, id LIMIT BatchSize.
SelectBatch ==
  /\ job.phase = "idle"
  /\ queued # {}
  /\ LET rows == Cardinality(queued)
         n == IF rows < BatchSize THEN rows ELSE BatchSize
     IN  \E batch \in [1..n -> queued] :
           /\ \A i, j \in 1..n : i < j => Before(batch[i], batch[j])
           /\ \A a \in queued : \A i \in 1..n : Before(batch[i], a) \/ \E j \in 1..i : batch[j] = a
           /\ job' = [phase |-> "count", batch |-> batch]
  /\ UNCHANGED <<attachment, location, object, queued, attempted, purged, upload, cleanup, crashes>>

NextItem ==
  LET rest == Tail(job.batch) IN
    job' = [phase |-> IF rest = <<>> THEN "idle" ELSE "count", batch |-> rest]

Reused(a) == \E b \in Ids \ {a} : attachment[b] = "live" /\ Reference(b) = Reference(a)

\* "Never remove a new live attachment that now owns the old snapshot's path."
CountReuse(a) ==
  /\ job.phase = "count" /\ Head(job.batch) = a
  /\ \/ /\ Reused(a)
        /\ Acknowledge(a)
        /\ NextItem
     \/ /\ ~Reused(a)
        /\ job' = [job EXCEPT !.phase = "delete"]
        /\ UNCHANGED <<queued, attempted>>
  /\ UNCHANGED <<attachment, location, object, purged, upload, cleanup, crashes>>

\* The count query fails: the row keeps its place in the queue.
CountFails ==
  /\ job.phase = "count"
  /\ NextItem
  /\ UNCHANGED <<attachment, location, object, queued, attempted, purged, upload, cleanup, crashes>>

RetryDelete(a) ==
  /\ job.phase = "delete" /\ Head(job.batch) = a
  /\ CanDelete(a)
  /\ DeleteObject(a)
  /\ job' = [job EXCEPT !.phase = "acknowledge"]
  /\ UNCHANGED <<attachment, location, queued, attempted, purged, upload, cleanup, crashes>>

\* Mutant: the row that failed keeps its place at the head of the queue.
RetryFailsInPlace(a) ==
  /\ job.phase = "delete" /\ Head(job.batch) = a
  /\ CanFail(a)
  /\ NextItem
  /\ UNCHANGED <<attachment, location, object, queued, attempted, purged, upload, cleanup, crashes>>

RetryFails(a) ==
  /\ job.phase = "delete" /\ Head(job.batch) = a
  /\ CanFail(a)
  /\ MarkAttempted(a)
  /\ NextItem
  /\ UNCHANGED <<attachment, location, object, queued, purged, upload, cleanup, crashes>>

RetryAcknowledge(a) ==
  /\ job.phase = "acknowledge" /\ Head(job.batch) = a
  /\ Acknowledge(a)
  /\ NextItem
  /\ UNCHANGED <<attachment, location, object, purged, upload, cleanup, crashes>>

----------------------------------------------------------------------------
\* Requests and the job vanish; the database and the storage stay.
Crash ==
  /\ crashes < MaxCrashes
  /\ crashes' = crashes + 1
  /\ upload' = [a \in Ids |-> IF upload[a] = "idle" THEN "idle" ELSE "done"]
  /\ cleanup' = [a \in Ids |-> IF cleanup[a] = "idle" THEN "idle" ELSE "done"]
  /\ job' = IdleJob
  /\ UNCHANGED <<attachment, location, object, queued, attempted, purged>>

FilesInit ==
  /\ attachment = [a \in Ids |-> "none"]
  /\ location = [a \in Ids |-> Nothing]
  /\ object = [l \in Locations |-> Nothing]
  /\ queued = {} /\ purged = {}
  /\ attempted = [a \in Ids |-> 0]
  /\ upload = [a \in Ids |-> "idle"]
  /\ cleanup = [a \in Ids |-> "idle"]
  /\ job = IdleJob
  /\ crashes = 0

FileRequest(a) ==
  \/ ChoosePlace(a)
  \/ SaveAttachmentBlob(a)
  \/ InsertAttachment(a)
  \/ CleanupSavedAttachmentBlob(a)
  \/ DeleteMemoRows(a)
  \/ DeleteAttachmentRow(a)
  \/ CleanupDeletedStorage(a)
  \/ AcknowledgeCleanup(a)

Retry ==
  \/ SelectBatch
  \/ CountFails
  \/ \E a \in Ids : CountReuse(a) \/ RetryDelete(a) \/ RetryFails(a) \/ RetryAcknowledge(a)

FilesNext == (\E a \in Ids : FileRequest(a)) \/ Retry \/ Crash

\* The hourly ticker keeps the job going; the database answers the count, and
\* the storage a delete, sooner or later when asked again and again.
FilesFairness ==
  /\ WF_fileVars(Retry)
  /\ \A a \in Ids : SF_fileVars(CountReuse(a)) /\ SF_fileVars(RetryDelete(a))
FilesSpec == FilesInit /\ [][FilesNext]_fileVars /\ FilesFairness

----------------------------------------------------------------------------
(* Properties.                                                             *)

\* Whatever fails or crashes, a live attachment's bytes are there and are its
\* own (CreateAttachment's compensation and the cleanup never take them).
LiveObjectKept ==
  \A a \in Ids : attachment[a] = "live" /\ External(a) => object[location[a]] = a

\* "EnqueueAttachmentCleanup keeps external object deletion retryable after
\* database commit": an object whose memo is gone for good is still queued
\* unless another upload was given its place.
PurgedNotForgotten ==
  \A a \in purged :
    External(a) /\ object[location[a]] = a
      => a \in queued \/ \E b \in Ids \ {a} : location[b] = location[a]

\* The queue drains: a row whose object can be deleted leaves it, although
\* others ahead of it fail for ever.
RetryDrains == \A a \in Ids \ Broken : a \in queued ~> a \notin queued

\* "Never remove a new live attachment that now owns the old snapshot's path":
\* the job's deletion takes no object from under another live row.
RetrySparesLive ==
  [][\A a \in Ids : RetryDelete(a) =>
       ~\E b \in Ids \ {a} : attachment[b] = "live" /\ Reference(b) = Reference(a)]_fileVars

----------------------------------------------------------------------------
(* The inductive invariant behind LiveObjectKept and PurgedNotForgotten.   *)

\* Each row lives once, and only what is deleted is cleaned up after: by its
\* request, by the queue or by the job.
OneLife ==
  /\ \A a \in Ids : upload[a] \in {"idle", "write", "insert"} => attachment[a] = "none"
  /\ \A a \in Ids : cleanup[a] # "idle" => attachment[a] = "deleted"
  /\ queued \cup purged \subseteq {a \in Ids : attachment[a] = "deleted"}
  /\ \A i \in 1..Len(job.batch) : attachment[job.batch[i]] = "deleted"
  /\ job.phase # "idle" => job.batch # <<>>

\* Where an attachment's object is, from the choice of its place on.
PlaceKept ==
  \A a \in Ids :
    IF upload[a] = "idle" THEN location[a] = Nothing
    ELSE External(a) => location[a] \in {a, Shared} /\ (~FilenameOnly => location[a] = a)

\* What is written and about to be inserted is still there.
WrittenKept ==
  \A a \in Ids : upload[a] = "insert" /\ External(a) => object[location[a]] = a

\* A row leaves the queue after its object is gone.
GoneBeforeAcknowledged ==
  \A a \in Ids :
    /\ External(a)
    /\ \/ cleanup[a] = "acknowledge"
       \/ job.phase = "acknowledge" /\ Head(job.batch) = a
    => object[location[a]] # a
=============================================================================
