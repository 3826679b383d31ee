---------------------------- MODULE InlineUpload ----------------------------
(* Images placed in the text of a memo while they are uploaded               *)
(* (useInlineImageUpload.ts): the jobs, the anchor that each has in the      *)
(* document (uploadAnchors.ts), the list of attachments                      *)
(* (AttachmentListEditor.tsx) and the save that waits for the jobs           *)
(* (validationService.ts).                                                   *)
(*                                                                           *)
(* A file stands for itself, for the attachment that its upload creates and  *)
(* for the reference to it in the text. A job tries its entries one after    *)
(* the other; the order among them is left open.                             *)
EXTENDS Naturals

CONSTANTS
    Files,         \* the image files a user may choose
    Jobs,          \* jobs that exist at a time
    UploadEvents,  \* which of "remove" and "erase" may happen during a job
    MaxUploads     \* bound on the uploads of a file before a retry or a save

VARIABLES
    during,    \* the events of this behaviour, of UploadEvents
    job,       \* jobsRef
    anchors,   \* the jobs that have an anchor in the document
    local,     \* localFiles
    attached,  \* metadata.attachments
    refs,      \* the attachments that the text shows inline
    chosen,    \* the files that the user chose and did not give up
    picked,    \* the files that were chosen at some time
    uploads,   \* how often an upload of each file was answered
    save,      \* the save under way: what it read of the editor, and the files to upload
    tried,     \* files that a save uploaded which failed later on
    memo       \* server: the memo saved last

uploadVars == <<during, job, anchors, local, attached, refs, chosen, picked, uploads, save, tried, memo>>
saveVars == <<save, tried, memo>>
unuploaded == <<during, chosen, picked, saveVars>>

\* files: the entries; has: those with an attachment; todo: those that this run
\* of the job still has to try.
NoUpload == [pc |-> "none", files |-> {}, has |-> {}, todo |-> {}]
UploadJob == [pc : {"none", "active", "failed", "disposed"}, files : SUBSET Files, has : SUBSET Files, todo : SUBSET Files]

\* ui.isLoading.saving; a save goes on in vain for an editor that was left.
NoSave == [pc |-> "none", files |-> {}, todo |-> {}, attached |-> {}, refs |-> {}, chosen |-> {}]
SaveJob == [pc : {"none", "saving", "left"}, files : SUBSET Files, todo : SUBSET Files,
            attached : SUBSET Files, refs : SUBSET Files, chosen : SUBSET Files]
Saving == save.pc = "saving"

LiveJobs == {j \in Jobs : job[j].pc \in {"active", "failed"}}

\* uploadingLocalFileURLs
Uploading == UNION {job[j].files \ job[j].has : j \in {k \in Jobs : job[k].pc = "active"}}

-----------------------------------------------------------------------------
(* useInlineImageUpload.ts                                                   *)

\* createJob, its anchor, and the start of runJob.
CreateJob(j, files) ==
    /\ job[j].pc = "none"
    /\ job' = [job EXCEPT ![j] = [pc |-> "active", files |-> files, has |-> {}, todo |-> files]]
    /\ anchors' = anchors \cup {j}

\* handleInsertImages: files that were picked, pasted or dropped.
InsertLocalImages(j) ==
    /\ ~Saving
    /\ \E fs \in (SUBSET (Files \ picked)) \ {{}} :
         /\ CreateJob(j, fs)
         /\ chosen' = chosen \cup fs
         /\ picked' = picked \cup fs
    /\ UNCHANGED <<during, local, attached, refs, uploads, saveVars>>

\* handleInsertLocalMedia: a file of the list of attachments is placed in the
\* text, which any job and a save prevent (placementActionsDisabled).
PlaceLocalFile(j) ==
    /\ LiveJobs = {} /\ ~Saving
    /\ \E f \in local : CreateJob(j, {f})
    /\ UNCHANGED <<unuploaded, local, attached, refs, uploads>>

\* insertRemoteMedia: an attachment of the list is placed.
PlaceAttachment ==
    /\ LiveJobs = {} /\ ~Saving
    /\ \E f \in attached \ refs : refs' = refs \cup {f}
    /\ UNCHANGED <<unuploaded, job, anchors, local, attached, uploads>>

\* Mutant: the references are written although an upload failed.
JobEndedAnyhow(j, e) ==
    /\ job' = [job EXCEPT ![j] = NoUpload]
    /\ refs' = IF j \in anchors THEN refs \cup e.files ELSE refs
    /\ anchors' = anchors \ {j}

\* The end of runJob: with an upload missing the anchor offers to retry or to
\* give up; otherwise the references replace the anchor, if it is still there.
JobEnded(j, e) ==
    IF e.has # e.files
    THEN /\ job' = [job EXCEPT ![j] = [e EXCEPT !.pc = "failed"]]
         /\ UNCHANGED <<refs, anchors>>
    ELSE /\ job' = [job EXCEPT ![j] = NoUpload]
         /\ refs' = IF j \in anchors THEN refs \cup e.files ELSE refs
         /\ anchors' = anchors \ {j}

\* The next entry of the loop, or its end.
NextEntry(j, e) ==
    IF e.todo # {}
    THEN job' = [job EXCEPT ![j] = e] /\ UNCHANGED <<refs, anchors>>
    ELSE JobEnded(j, e)

\* An upload succeeds: appendAttachment.
UploadDone(j) ==
    /\ job[j].pc = "active"
    /\ \E f \in job[j].todo :
         /\ uploads' = [uploads EXCEPT ![f] = @ + 1]
         /\ attached' = attached \cup {f}
         /\ local' = local \ {f}
         /\ NextEntry(j, [job[j] EXCEPT !.has = @ \cup {f}, !.todo = @ \ {f}])
    /\ UNCHANGED unuploaded

\* Mutant: the error leaves the loop, and the job stays active.
UploadThrows(j) ==
    /\ job[j].pc = "active" /\ job[j].todo # {}
    /\ job' = [job EXCEPT ![j].todo = {}]
    /\ UNCHANGED <<unuploaded, anchors, refs, local, attached, uploads>>

\* An upload fails, and the loop goes on with the next file.
UploadFails(j) ==
    /\ job[j].pc = "active"
    /\ \E f \in job[j].todo : NextEntry(j, [job[j] EXCEPT !.todo = @ \ {f}])
    /\ UNCHANGED <<unuploaded, local, attached, uploads>>

\* Mutant: a retry uploads every file of the job again.
MissingAll(e) == e.files

\* The entries that have no attachment yet.
Missing(e) == e.files \ e.has

\* retryJob, from the anchor.
RetryJob(j) ==
    /\ job[j].pc = "failed"
    /\ j \in anchors
    /\ \A f \in Files : uploads[f] < MaxUploads
    /\ job' = [job EXCEPT ![j] = [@ EXCEPT !.pc = "active", !.todo = Missing(job[j])]]
    /\ UNCHANGED <<unuploaded, anchors, local, attached, refs, uploads>>

\* dismissJob, from the anchor: what was uploaded stays attached. A file that
\* came from the list is still there; the others are given up.
DismissJob(j) ==
    /\ job[j].pc = "failed"
    /\ j \in anchors
    /\ job' = [job EXCEPT ![j] = NoUpload]
    /\ anchors' = anchors \ {j}
    /\ chosen' = chosen \ (Missing(job[j]) \ local)
    /\ UNCHANGED <<during, local, attached, refs, picked, uploads, saveVars>>

\* The editor is unmounted: local files go with it, what is attached and
\* written is in the draft, and an upload or a save under way goes on.
UnmountUploads ==
    /\ Saving \/ \E j \in Jobs : job[j].pc # "none"
    /\ save' = IF Saving THEN [save EXCEPT !.pc = "left"] ELSE save
    /\ job' = [j \in Jobs |-> IF job[j].pc \in {"active", "disposed"} THEN [job[j] EXCEPT !.pc = "disposed"] ELSE NoUpload]
    /\ anchors' = {}
    /\ local' = {}
    /\ chosen' = chosen \cap attached
    /\ UNCHANGED <<during, attached, refs, picked, uploads, tried, memo>>

\* The answer to a job whose editor is gone ends it; a failure does not, and the
\* next file is tried.
LateUpload(j) ==
    /\ job[j].pc = "disposed"
    /\ \E f \in job[j].todo :
         \/ /\ uploads' = [uploads EXCEPT ![f] = @ + 1]
            /\ job' = [job EXCEPT ![j] = NoUpload]
         \/ /\ job' = [job EXCEPT ![j] = IF job[j].todo = {f} THEN NoUpload ELSE [job[j] EXCEPT !.todo = @ \ {f}]]
            /\ UNCHANGED uploads
    /\ UNCHANGED <<unuploaded, anchors, local, attached, refs>>

-----------------------------------------------------------------------------
(* The list of attachments and the text                                      *)

\* A file goes to the list and is uploaded by the save.
AddLocalFile ==
    /\ ~Saving
    /\ \E f \in Files \ picked :
         /\ local' = local \cup {f}
         /\ chosen' = chosen \cup {f}
         /\ picked' = picked \cup {f}
    /\ UNCHANGED <<during, job, anchors, attached, refs, uploads, saveVars>>

\* handleRemoveItem of a local file, which its upload prevents.
RemoveLocalFile ==
    /\ \E f \in local \ Uploading : local' = local \ {f} /\ chosen' = chosen \ {f}
    /\ UNCHANGED <<during, job, anchors, attached, refs, picked, uploads, saveVars>>

\* handleRemoveItem of an attachment, which is listed unless the text shows it.
RemoveAttachment ==
    /\ LiveJobs = {} \/ "remove" \in during
    /\ \E f \in attached \ refs : attached' = attached \ {f} /\ chosen' = chosen \ {f}
    /\ UNCHANGED <<during, job, anchors, local, refs, picked, uploads, saveVars>>

\* The user deletes a reference; the attachment is listed again.
EraseReference ==
    /\ \E f \in refs : refs' = refs \ {f}
    /\ UNCHANGED <<unuploaded, job, anchors, local, attached, uploads>>

\* The user deletes text around an anchor, and the anchor with it.
EraseAnchor ==
    /\ "erase" \in during
    /\ \E j \in anchors : anchors' = anchors \ {j}
    /\ UNCHANGED <<unuploaded, job, local, attached, refs, uploads>>

-----------------------------------------------------------------------------
(* The save (useMemoSave.ts, memoService.ts)                                 *)

\* Mutant: only running uploads are waited for.
MaySaveWhenIdle == Uploading = {} /\ attached \cup local \cup refs # {}

\* validationService.canSave: every job was resolved or dismissed.
MaySave == LiveJobs = {} /\ attached \cup local \cup refs # {}

\* The save reads the editor once.  The user may go on to remove and erase, but
\* not to add.
BeginSave ==
    /\ MaySave /\ save.pc = "none"
    /\ \A f \in Files : uploads[f] < MaxUploads
    /\ save' = [pc |-> "saving", files |-> local, todo |-> local,
                attached |-> attached, refs |-> refs, chosen |-> chosen]
    /\ UNCHANGED <<during, job, anchors, local, attached, refs, chosen, picked, uploads, tried, memo>>

\* uploadFiles: the local files, one after the other.
UploadLocalFile ==
    /\ \E f \in save.todo :
         /\ uploads' = [uploads EXCEPT ![f] = @ + 1]
         /\ save' = [save EXCEPT !.todo = @ \ {f}]
    /\ UNCHANGED <<during, job, anchors, local, attached, refs, chosen, picked, tried, memo>>

\* An upload or the request for the memo fails: the local files stay local, those
\* that were uploaded too.
SaveFails ==
    /\ save.pc # "none"
    /\ tried' = tried \cup (save.files \ save.todo)
    /\ save' = NoSave
    /\ UNCHANGED <<during, job, anchors, local, attached, refs, chosen, picked, uploads, memo>>

\* The memo is created, and the editor reset unless it was left.
SaveAttached ==
    /\ save.pc # "none" /\ save.todo = {}
    /\ memo' = [refs |-> save.refs, attachments |-> save.attached \cup save.files, chosen |-> save.chosen]
    /\ chosen' = chosen \ save.chosen
    /\ IF Saving
       THEN local' = {} /\ attached' = {} /\ refs' = {} /\ anchors' = {}
       ELSE UNCHANGED <<local, attached, refs, anchors>>
    /\ save' = NoSave
    /\ UNCHANGED <<during, job, picked, uploads, tried>>

UploadInit ==
    /\ during \in SUBSET UploadEvents
    /\ job = [j \in Jobs |-> NoUpload]
    /\ anchors = {} /\ local = {} /\ attached = {} /\ refs = {} /\ chosen = {} /\ picked = {}
    /\ uploads = [f \in Files |-> 0]
    /\ save = NoSave /\ tried = {}
    /\ memo = [refs |-> {}, attachments |-> {}, chosen |-> {}]

UploadNext ==
    \/ \E j \in Jobs :
         \/ InsertLocalImages(j) \/ PlaceLocalFile(j) \/ UploadDone(j) \/ UploadFails(j)
         \/ RetryJob(j) \/ DismissJob(j) \/ LateUpload(j)
    \/ PlaceAttachment \/ AddLocalFile \/ RemoveLocalFile \/ RemoveAttachment
    \/ EraseReference \/ EraseAnchor \/ UnmountUploads
    \/ BeginSave \/ UploadLocalFile \/ SaveFails \/ SaveAttached

\* Every upload is answered.
UploadSpec ==
    /\ UploadInit /\ [][UploadNext]_uploadVars
    /\ \A j \in Jobs : WF_uploadVars(UploadDone(j) \/ UploadFails(j) \/ LateUpload(j))

-----------------------------------------------------------------------------
(* Properties                                                                *)

UploadTypeOK ==
    /\ during \subseteq UploadEvents
    /\ job \in [Jobs -> UploadJob]
    /\ anchors \subseteq Jobs
    /\ {local, attached, refs, chosen, picked, tried} \subseteq SUBSET Files
    /\ save \in SaveJob
    /\ uploads \in [Files -> Nat]
    /\ memo \in [refs : SUBSET Files, attachments : SUBSET Files, chosen : SUBSET Files]

\* What the text shows inline is bound to the memo, while it is edited and once
\* it is saved (AttachmentListEditor: "Keep the attachment bound to the memo"),
\* unless an attachment is removed during the job that is about to show it.
InlineBound == "remove" \notin during => refs \subseteq attached /\ memo.refs \subseteq memo.attachments

\* A file that the user chose and did not give up is attached, listed or in a
\* job, and a saved memo has all of them: a save overtakes no upload.
NothingLost ==
    /\ chosen \subseteq attached \cup local \cup UNION {job[j].files : j \in LiveJobs}
    /\ memo.chosen \subseteq memo.attachments

\* No file whose upload was answered is uploaded again, however often a job is
\* retried, given up or followed by a save: only a save that failed leaves the
\* files that it uploaded to the next one.
UploadedOnce == \A f \in Files \ tried : uploads[f] <= 1

\* The inline uploads.  What the text shows inline is bound to the memo while it
\* is edited and once it is saved (AttachmentListEditor); a file that the user
\* chose is attached, listed or in a job, and a saved memo has all of them, what
\* was chosen before the save is answered included; no file is uploaded twice,
\* however often a job is retried or given up, but by a save after a failed one.
UploadsSafe == UploadTypeOK /\ InlineBound /\ NothingLost /\ UploadedOnce

\* A job that stopped can be retried or dismissed, without which the editor
\* never saves again (canSave: "resolve-image-uploads").
Resolvable == \A j \in Jobs : job[j].pc = "failed" => j \in anchors

\* A running job stops or succeeds: the save does not wait for ever.
JobsEnd == \A j \in Jobs : job[j].pc = "active" ~> job[j].pc # "active"

-----------------------------------------------------------------------------
(* Why UploadsSafe holds                                                     *)

\* A job tries what it has no attachment for; there is something to try while it
\* runs, and something missing when it has stopped.
JobsFormed ==
    \A j \in Jobs :
      /\ job[j].todo \subseteq job[j].files \ job[j].has
      /\ job[j].has \subseteq job[j].files
      /\ job[j].files \subseteq picked
      /\ job[j].pc \in {"active", "disposed"} => job[j].todo # {}
      /\ job[j].pc = "failed" => job[j].has # job[j].files
      /\ job[j].pc = "none" => job[j] = NoUpload

\* Two jobs share no file, and what a job of an editor that is gone holds is not
\* in the list.
JobsApart ==
    /\ \A j, k \in Jobs : j # k => job[j].files \cap job[k].files = {}
    /\ \A j \in Jobs : job[j].pc = "disposed" => job[j].files \cap local = {}

\* What is still to be uploaded was not uploaded before, but by a save that failed
\* or, of what is local, by the one under way.
Pending(f) == f \in local \/ f \notin picked \/ \E j \in Jobs : f \in job[j].files \ job[j].has
Fresh ==
    /\ local \subseteq picked
    /\ \A f \in Files : Pending(f) \/ f \in save.todo
         => uploads[f] = 0 \/ f \in tried \/ f \in save.files \ save.todo

\* A save has what it read; nothing is added to the editor meanwhile, and no job
\* has a file of it.
SaveFormed ==
    /\ save.pc = "none" => save = NoSave
    /\ save.todo \subseteq save.files /\ save.files \subseteq picked
    /\ save.chosen \subseteq save.attached \cup save.files
    /\ "remove" \notin during => save.refs \subseteq save.attached
    /\ Saving => LiveJobs = {} /\ local \subseteq save.files /\ chosen \subseteq save.chosen
    /\ save.pc = "left" => local \cap save.files = {}
    /\ \A j \in Jobs : job[j].files \cap save.files = {}

\* What a live job uploaded is attached, unless the user removed it.
UploadedIsAttached ==
    \A j \in LiveJobs :
      /\ chosen \cap job[j].has \subseteq attached
      /\ "remove" \notin during => job[j].has \subseteq attached

UploadInv == UploadsSafe /\ JobsFormed /\ JobsApart /\ Fresh /\ SaveFormed /\ UploadedIsAttached
=============================================================================
