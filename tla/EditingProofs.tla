--------------------------- MODULE EditingProofs ----------------------------
(* Proofs about the parts of the editor: the audio recorder, for any number of *)
(* requests, the inline uploads, for any files and any number of jobs, and the *)
(* draft, saveState, for any number of texts.                                             *)
EXTENDS AudioRecorder, InlineUpload, MemoEditor, TLAPS

-----------------------------------------------------------------------------
(* The audio recorder.                                                       *)

\* Nothing is recorded at first.
LEMMA RecorderInvInit == RecorderInit => RecorderInv
<1> SUFFICES ASSUME RecorderInit PROVE RecorderInv
  OBVIOUS
<1> USE RecorderAssumption DEF RecorderInit
<1>1. {mounted, panel, transcribing, sending} \subseteq BOOLEAN
  BY Zenon
<1>2. RecorderTypeOK
  BY <1>1 DEF RecorderTypeOK, RequestId
<1>3. MicOwned /\ CancelDiscards /\ Controllable
  BY DEF MicOwned, CancelDiscards, Controllable, IsBusy
<1> QED
  BY <1>2, <1>3 DEF RecorderInv, RecorderSafe, RequestsOrdered, OnePlace, CallsWanted, SavingIdle, OneTranscription, IsBusy

\* A step of the hook, of the browser or of the user keeps the types.
LEMMA RecorderTypeStep == RecorderInv /\ [RecorderNext]_recorderVars => RecorderTypeOK'
<1> SUFFICES ASSUME RecorderTypeOK, [RecorderNext]_recorderVars PROVE RecorderTypeOK'
  BY DEF RecorderInv, RecorderSafe
<1> USE RecorderAssumption DEF RecorderTypeOK, RequestId
<1>1. CASE StartRecording
  <2>1. request' \in 0 .. MaxRequests
    BY <1>1 DEF StartRecording
  <2>2. panel' \in BOOLEAN
    BY Zenon, <1>1 DEF StartRecording
  <2> QED
    BY <1>1, <2>1, <2>2 DEF StartRecording, draft, saveState
<1>2. CASE StopRecording
  <2>1. transcribing' \in BOOLEAN
    BY Zenon, <1>2 DEF StopRecording, saveState
  <2> QED
    BY <1>2, <2>1 DEF StopRecording, saveState
<1>3. CASE ResetRecording
  <2>1. request' \in 0 .. MaxRequests
    BY <1>3 DEF ResetRecording, saveState
  <2>2. panel' \in BOOLEAN
    BY Zenon, <1>3 DEF ResetRecording, saveState
  <2> QED
    BY <1>3, <2>1, <2>2 DEF ResetRecording, saveState, ResetRecorderRefs
<1>4. CASE BeginSaving \/ EndSaving \/ SavingFails
  <2>1. sending' \in BOOLEAN
    BY Zenon, <1>4 DEF BeginSaving, EndSaving, SavingFails
  <2> QED
    BY <1>4, <2>1 DEF BeginSaving, EndSaving, SavingFails, device
<1>5. CASE UnmountRecorder
  <2>1. mounted' \in BOOLEAN
    BY Zenon, <1>5 DEF UnmountRecorder, saveState
  <2> QED
    BY <1>5, <2>1 DEF UnmountRecorder, saveState, ResetRecorderRefs
<1>6. ASSUME NEW r \in RequestId, Granted(r) PROVE RecorderTypeOK'
  BY <1>6 DEF Granted, draft, saveState
<1>7. ASSUME NEW r \in RequestId, Refused(r) PROVE RecorderTypeOK'
  <2>1. panel' \in BOOLEAN
    BY Zenon, <1>7 DEF Refused
  <2> QED
    BY <1>7, <2>1 DEF Refused, ResetRecorderRefs, draft, saveState
<1>8. ASSUME NEW r \in RequestId, StopEvent(r) PROVE RecorderTypeOK'
  <2>1. panel' \in BOOLEAN /\ transcribing' \in BOOLEAN
    BY Zenon, <1>8 DEF StopEvent, saveState, RecordingComplete
  <2>2. /\ mic' \subseteq RequestId /\ stopped' \subseteq RequestId /\ wanted' \subseteq RequestId
        /\ calls' \subseteq RequestId /\ noted' \subseteq RequestId
    BY ZenonT(60), <1>8 DEF StopEvent, saveState, RecordingComplete
  <2>3. {request', recorder'} \subseteq RequestId
    BY <1>8 DEF StopEvent, saveState
  <2> QED
    BY <1>8, <2>1, <2>2, <2>3 DEF StopEvent, saveState
<1>9. ASSUME NEW r \in RequestId, TranscriptionEnds(r) PROVE RecorderTypeOK'
  <2>1. panel' \in BOOLEAN /\ transcribing' \in BOOLEAN
    BY Zenon, <1>9 DEF TranscriptionEnds, saveState
  <2> QED
    BY <1>9, <2>1 DEF TranscriptionEnds, saveState, device
<1>10. CASE UNCHANGED recorderVars
  BY <1>10 DEF recorderVars
<1> QED
  BY <1>1, <1>2, <1>3, <1>4, <1>5, <1>6, <1>7, <1>8, <1>9, <1>10 DEF RecorderNext

\* The last request, and the recordings that were cancelled.
LEMMA RecorderStep == RecorderInv /\ [RecorderNext]_recorderVars => RecorderInv'
<1> SUFFICES ASSUME RecorderInv, [RecorderNext]_recorderVars PROVE RecorderInv'
  OBVIOUS
<1>t. RecorderTypeOK' /\ RecorderTypeOK
  BY RecorderTypeStep DEF RecorderInv, RecorderSafe
<1> DEFINE Rest == MicOwned /\ CancelDiscards /\ RequestsOrdered /\ OnePlace /\ CallsWanted /\ SavingIdle
           Shown == Controllable /\ OneTranscription
<1>r. Rest /\ Shown
  BY DEF RecorderInv, RecorderSafe
<1> USE RecorderAssumption DEF RecorderTypeOK, RequestId
<1>1. ASSUME StartRecording PROVE Rest' /\ Shown'
  <2>1. Rest'
    BY <1>1, <1>t, <1>r DEF StartRecording, draft, saveState, MicOwned, CancelDiscards, RequestsOrdered, OnePlace, CallsWanted, SavingIdle, IsBusy
  <2>2. Shown'
    BY <1>1, <1>t, <1>r DEF StartRecording, draft, saveState, Controllable, OneTranscription, PanelShown, IsBusy
  <2> QED
    BY <2>1, <2>2
<1>2. ASSUME StopRecording PROVE Rest' /\ Shown'
  <2>1. Rest'
    BY <1>2, <1>t, <1>r DEF StopRecording, saveState, MicOwned, CancelDiscards, RequestsOrdered, OnePlace, CallsWanted, SavingIdle, IsBusy
  <2>2. Shown'
    BY <1>2, <1>t, <1>r DEF StopRecording, saveState, Controllable, OneTranscription, PanelShown, IsBusy
  <2> QED
    BY <2>1, <2>2
<1>3. ASSUME ResetRecording PROVE Rest' /\ Shown'
  <2>1. Rest'
    BY <1>3, <1>t, <1>r DEF ResetRecording, saveState, ResetRecorderRefs, PanelShown, MicOwned, CancelDiscards, RequestsOrdered, OnePlace, CallsWanted, SavingIdle, IsBusy
  <2>2. Shown'
    BY <1>3, <1>t, <1>r DEF ResetRecording, saveState, Controllable, OneTranscription, PanelShown, IsBusy
  <2> QED
    BY <2>1, <2>2
<1>4. ASSUME BeginSaving \/ EndSaving \/ SavingFails PROVE Rest' /\ Shown'
  <2> USE DEF BeginSaving, EndSaving, SavingFails, device
  <2>1. Rest'
    BY <1>4, <1>t, <1>r DEF MicOwned, CancelDiscards, RequestsOrdered, OnePlace, CallsWanted, SavingIdle, IsBusy
  <2>2. Shown'
    BY <1>4, <1>t, <1>r DEF Controllable, OneTranscription, PanelShown, IsBusy
  <2> QED
    BY <2>1, <2>2
<1>5. ASSUME UnmountRecorder PROVE Rest' /\ Shown'
  <2>1. Rest'
    BY <1>5, <1>t, <1>r DEF UnmountRecorder, saveState, ResetRecorderRefs, MicOwned, CancelDiscards, RequestsOrdered, OnePlace, CallsWanted, SavingIdle, IsBusy
  <2>2. Shown'
    BY <1>5, <1>t, <1>r DEF UnmountRecorder, saveState, Controllable, OneTranscription, PanelShown, IsBusy
  <2> QED
    BY <2>1, <2>2
<1>6. ASSUME NEW r \in RequestId, Granted(r) PROVE Rest' /\ Shown'
  <2>1. Rest'
    BY <1>6, <1>t, <1>r DEF Granted, draft, saveState, MicOwned, CancelDiscards, RequestsOrdered, OnePlace, CallsWanted, SavingIdle, IsBusy
  <2>2. Shown'
    BY <1>6, <1>t, <1>r DEF Granted, draft, saveState, OnePlace, Controllable, OneTranscription, PanelShown, IsBusy
  <2> QED
    BY <2>1, <2>2
<1>7. ASSUME NEW r \in RequestId, Refused(r) PROVE Rest' /\ Shown'
  <2>1. Rest'
    BY <1>7, <1>t, <1>r DEF Refused, ResetRecorderRefs, draft, saveState, MicOwned, CancelDiscards, RequestsOrdered, OnePlace, CallsWanted, SavingIdle, IsBusy
  <2>2. Shown'
    BY <1>7, <1>t, <1>r DEF Refused, draft, saveState, Controllable, OneTranscription, PanelShown, IsBusy
  <2> QED
    BY <2>1, <2>2
<1>8. ASSUME NEW r \in RequestId, StopEvent(r) PROVE Rest' /\ Shown'
  <2>1. Rest'
    BY <1>8, <1>t, <1>r DEF StopEvent, saveState, RecordingComplete, MicOwned, CancelDiscards, RequestsOrdered, OnePlace, CallsWanted, SavingIdle, IsBusy
  <2>2. Shown'
    BY <1>8, <1>t, <1>r DEF StopEvent, saveState, RecordingComplete, Controllable, OneTranscription, PanelShown, IsBusy
  <2> QED
    BY <2>1, <2>2
<1>9. ASSUME NEW r \in RequestId, TranscriptionEnds(r) PROVE Rest' /\ Shown'
  <2>1. Rest'
    BY <1>9, <1>t, <1>r DEF TranscriptionEnds, saveState, device, MicOwned, CancelDiscards, RequestsOrdered, OnePlace, CallsWanted, SavingIdle, IsBusy
  <2>2. Shown'
    BY <1>9, <1>t, <1>r DEF TranscriptionEnds, saveState, device, Controllable, OneTranscription, PanelShown, IsBusy
  <2> QED
    BY <2>1, <2>2
<1>10. ASSUME UNCHANGED recorderVars PROVE Rest' /\ Shown'
  <2>1. Rest'
    BY <1>10, <1>r DEF recorderVars, MicOwned, CancelDiscards, RequestsOrdered, OnePlace, CallsWanted, SavingIdle, IsBusy
  <2>2. Shown'
    BY <1>10, <1>r DEF recorderVars, Controllable, OneTranscription, PanelShown, IsBusy
  <2> QED
    BY <2>1, <2>2
<1>11. Rest' /\ Shown'
  BY <1>1, <1>2, <1>3, <1>4, <1>5, <1>6, <1>7, <1>8, <1>9, <1>10 DEF RecorderNext
<1> QED
  BY <1>t, <1>11 DEF RecorderInv, RecorderSafe

\* Whatever the user starts, stops, cancels and saves, and whenever the browser grants
\* the microphone, refuses it or ends a recording: the microphone is open for the
\* last request alone, a recorder that is busy is shown, and nothing of a cancelled
\* recording reaches the draft or a memo.
THEOREM RecorderKept == RecorderSpec => []RecorderSafe
<1>1. RecorderInv => RecorderSafe
  BY DEF RecorderInv
<1> QED
  BY RecorderInvInit, RecorderStep, <1>1, PTL DEF RecorderSpec

-----------------------------------------------------------------------------
(* The inline uploads.                                                       *)

\* A job that does not exist.
LEMMA NoUploadType == NoUpload \in UploadJob
  BY DEF NoUpload, UploadJob

\* A save that is not under way.
LEMMA NoSaveType == NoSave \in SaveJob
  BY DEF NoSave, SaveJob

\* There is no file at first.
LEMMA UploadInvInit == UploadInit => UploadInv
<1> SUFFICES ASSUME UploadInit PROVE UploadInv
  OBVIOUS
<1> USE NoUploadType, NoSaveType DEF UploadInit
<1>1. UploadTypeOK
  BY DEF UploadTypeOK
<1>2. LiveJobs = {}
  BY DEF LiveJobs, NoUpload
<1>3. InlineBound /\ NothingLost /\ UploadedOnce
  BY <1>2 DEF InlineBound, NothingLost, UploadedOnce
<1>4. JobsFormed /\ JobsApart /\ Fresh /\ SaveFormed /\ UploadedIsAttached
  BY <1>2 DEF JobsFormed, JobsApart, Fresh, SaveFormed, UploadedIsAttached, NoUpload, NoSave, Saving
<1> QED
  BY <1>1, <1>3, <1>4 DEF UploadInv, UploadsSafe

\* How the loop of runJob goes on with a job that it left as e: it waits for the
\* next upload, stops with an upload missing, or ends with all of them.
LEMMA NextEntryCases ==
  ASSUME NEW j \in Jobs, NEW e \in UploadJob, NextEntry(j, e)
  PROVE  \/ e.todo # {} /\ job' = [job EXCEPT ![j] = e] /\ refs' = refs /\ anchors' = anchors
         \/ /\ e.todo = {} /\ e.has # e.files /\ refs' = refs /\ anchors' = anchors
            /\ job' = [job EXCEPT ![j] = [e EXCEPT !.pc = "failed"]]
         \/ /\ e.todo = {} /\ e.has = e.files /\ refs' \subseteq refs \cup e.files /\ refs \subseteq refs'
            /\ anchors' = anchors \ {j} /\ job' = [job EXCEPT ![j] = NoUpload]
  BY DEF NextEntry, JobEnded

\* A step of a job, of the editor or of the user keeps the types.
LEMMA UploadTypeStep == UploadTypeOK /\ [UploadNext]_uploadVars => UploadTypeOK'
<1> SUFFICES ASSUME UploadTypeOK, [UploadNext]_uploadVars PROVE UploadTypeOK'
  OBVIOUS
<1> USE NoUploadType, NoSaveType DEF UploadTypeOK, unuploaded, saveVars
<1>0. ASSUME NEW j \in Jobs, NEW fs \in SUBSET Files, CreateJob(j, fs)
      PROVE  job' \in [Jobs -> UploadJob] /\ anchors' \subseteq Jobs
  <2>1. [pc |-> "active", files |-> fs, has |-> {}, todo |-> fs] \in UploadJob
    BY DEF UploadJob
  <2> QED
    BY <1>0, <2>1 DEF CreateJob
<1>1. ASSUME NEW j \in Jobs, InsertLocalImages(j) PROVE UploadTypeOK'
  BY <1>0, <1>1 DEF InsertLocalImages
<1>2. ASSUME NEW j \in Jobs, PlaceLocalFile(j) PROVE UploadTypeOK'
  <2>1. PICK f \in local : CreateJob(j, {f})
    BY <1>2 DEF PlaceLocalFile
  <2> QED
    BY <1>0, <1>2, <2>1 DEF PlaceLocalFile
<1>e. ASSUME NEW j \in Jobs, NEW e \in UploadJob, NextEntry(j, e)
      PROVE  job' \in [Jobs -> UploadJob] /\ anchors' \subseteq Jobs /\ refs' \subseteq Files
  <2>1. [e EXCEPT !.pc = "failed"] \in UploadJob /\ e.files \subseteq Files
    BY DEF UploadJob
  <2> QED
    BY <1>e, <2>1, NextEntryCases
<1>3. ASSUME NEW j \in Jobs, UploadDone(j) PROVE UploadTypeOK'
  <2>1. PICK f \in job[j].todo :
          /\ uploads' = [uploads EXCEPT ![f] = @ + 1]
          /\ attached' = attached \cup {f}
          /\ local' = local \ {f}
          /\ NextEntry(j, [job[j] EXCEPT !.has = @ \cup {f}, !.todo = @ \ {f}])
    BY <1>3 DEF UploadDone
  <2>2. f \in Files /\ [job[j] EXCEPT !.has = @ \cup {f}, !.todo = @ \ {f}] \in UploadJob
    BY DEF UploadJob
  <2>3. uploads' \in [Files -> Nat]
    BY <2>1, <2>2
  <2> QED
    BY <1>3, <1>e, <2>1, <2>2, <2>3 DEF UploadDone
<1>4. ASSUME NEW j \in Jobs, UploadFails(j) PROVE UploadTypeOK'
  <2>1. PICK f \in job[j].todo : NextEntry(j, [job[j] EXCEPT !.todo = @ \ {f}])
    BY <1>4 DEF UploadFails
  <2>2. [job[j] EXCEPT !.todo = @ \ {f}] \in UploadJob
    BY DEF UploadJob
  <2> QED
    BY <1>4, <1>e, <2>1, <2>2 DEF UploadFails
<1>5. ASSUME NEW j \in Jobs, RetryJob(j) PROVE UploadTypeOK'
  <2>1. [job[j] EXCEPT !.pc = "active", !.todo = Missing(job[j])] \in UploadJob
    BY DEF UploadJob, Missing
  <2> QED
    BY <1>5, <2>1 DEF RetryJob
<1>6. ASSUME NEW j \in Jobs, DismissJob(j) PROVE UploadTypeOK'
  BY <1>6 DEF DismissJob
<1>7. ASSUME NEW j \in Jobs, LateUpload(j) PROVE UploadTypeOK'
  <2>1. PICK f \in job[j].todo :
          \/ /\ uploads' = [uploads EXCEPT ![f] = @ + 1]
             /\ job' = [job EXCEPT ![j] = NoUpload]
          \/ /\ job' = [job EXCEPT ![j] = IF job[j].todo = {f} THEN NoUpload ELSE [job[j] EXCEPT !.todo = @ \ {f}]]
             /\ uploads' = uploads
    BY <1>7 DEF LateUpload
  <2>2. f \in Files /\ [job[j] EXCEPT !.todo = @ \ {f}] \in UploadJob
    BY DEF UploadJob
  <2>3. uploads' \in [Files -> Nat]
    BY <2>1, <2>2
  <2>4. job' \in [Jobs -> UploadJob]
    BY <2>1, <2>2
  <2> QED
    BY <1>7, <2>3, <2>4 DEF LateUpload
<1>8. CASE PlaceAttachment
  BY <1>8 DEF PlaceAttachment
<1>9. CASE AddLocalFile
  BY <1>9 DEF AddLocalFile
<1>10. CASE RemoveLocalFile
  BY <1>10 DEF RemoveLocalFile
<1>11. CASE RemoveAttachment
  BY <1>11 DEF RemoveAttachment
<1>12. CASE EraseReference
  BY <1>12 DEF EraseReference
<1>13. CASE EraseAnchor
  BY <1>13 DEF EraseAnchor
<1>14. CASE UnmountUploads
  <2>1. \A j \in Jobs : [job[j] EXCEPT !.pc = "disposed"] \in UploadJob
    BY DEF UploadJob
  <2>2. job' \in [Jobs -> UploadJob]
    BY <1>14, <2>1 DEF UnmountUploads
  <2>3. save' \in SaveJob
    BY <1>14 DEF UnmountUploads, SaveJob
  <2> QED
    BY <1>14, <2>2, <2>3 DEF UnmountUploads
<1>15. CASE BeginSave
  <2>1. save' \in SaveJob
    BY <1>15 DEF BeginSave, SaveJob
  <2> QED
    BY <1>15, <2>1 DEF BeginSave
<1>16. CASE UploadLocalFile
  <2>1. PICK f \in save.todo : uploads' = [uploads EXCEPT ![f] = @ + 1] /\ save' = [save EXCEPT !.todo = @ \ {f}]
    BY <1>16 DEF UploadLocalFile
  <2>2. f \in Files
    BY DEF SaveJob
  <2>3. uploads' \in [Files -> Nat]
    BY <2>1, <2>2
  <2>4. save' \in SaveJob
    BY <2>1 DEF SaveJob
  <2> QED
    BY <1>16, <2>3, <2>4 DEF UploadLocalFile
<1>17. CASE SaveFails
  <2>1. tried' \subseteq Files
    BY <1>17 DEF SaveFails, SaveJob
  <2> QED
    BY <1>17, <2>1 DEF SaveFails
<1>18. CASE SaveAttached
  <2>1. memo' \in [refs : SUBSET Files, attachments : SUBSET Files, chosen : SUBSET Files]
    BY <1>18 DEF SaveAttached, SaveJob
  <2> QED
    BY <1>18, <2>1 DEF SaveAttached
<1>19. CASE UNCHANGED uploadVars
  BY <1>19 DEF uploadVars
<1> QED
  BY <1>1, <1>2, <1>3, <1>4, <1>5, <1>6, <1>7, <1>8, <1>9, <1>10, <1>11, <1>12, <1>13, <1>14, <1>15, <1>16,
     <1>17, <1>18, <1>19
     DEF UploadNext

\* What every step keeps: a file is in one job at most, and was uploaded at most once
\* if the job it is in has it.
LEMMA UploadStep == UploadInv /\ [UploadNext]_uploadVars => UploadInv'
<1> SUFFICES ASSUME UploadInv, [UploadNext]_uploadVars PROVE UploadInv'
  OBVIOUS
<1>t. UploadTypeOK /\ UploadTypeOK'
  BY UploadTypeStep DEF UploadInv, UploadsSafe
<1> DEFINE Parts == InlineBound /\ NothingLost /\ UploadedOnce /\ JobsFormed /\ JobsApart /\ Fresh /\ SaveFormed /\ UploadedIsAttached
<1>p. Parts
  BY DEF UploadInv, UploadsSafe
<1> USE DEF UploadTypeOK, unuploaded, saveVars
<1>1. ASSUME NEW j \in Jobs, InsertLocalImages(j) PROVE Parts'
  <2> PICK fs \in (SUBSET (Files \ picked)) \ {{}} :
        CreateJob(j, fs) /\ chosen' = chosen \cup fs /\ picked' = picked \cup fs
    BY <1>1 DEF InsertLocalImages
  <2>0. /\ job' = [job EXCEPT ![j] = [pc |-> "active", files |-> fs, has |-> {}, todo |-> fs]]
        /\ job[j].pc = "none" /\ fs # {} /\ fs \subseteq Files /\ fs \cap picked = {}
    <3>1. fs \in SUBSET (Files \ picked) /\ fs # {}
      OBVIOUS
    <3>2. fs \subseteq Files /\ fs \cap picked = {}
      BY <3>1
    <3>3. CreateJob(j, fs)
      OBVIOUS
    <3> QED
      BY <3>1, <3>2, <3>3 DEF CreateJob
  <2>1. InlineBound'
    BY <1>1, <1>t, <1>p DEF InsertLocalImages, InlineBound
  <2>2. NothingLost'
    BY <1>1, <2>0, <1>t, <1>p DEF InsertLocalImages, NothingLost, LiveJobs
  <2>3. UploadedOnce'
    BY <1>1, <1>t, <1>p DEF InsertLocalImages, UploadedOnce
  <2>4. JobsFormed'
    BY <2>0, <1>t, <1>p DEF JobsFormed, NoUpload
  <2>5. JobsApart'
    BY <1>1, <2>0, <1>t, <1>p DEF InsertLocalImages, JobsApart, JobsFormed
  <2>6. Fresh'
    BY <1>1, <2>0, <1>t, <1>p DEF InsertLocalImages, Pending, Fresh, JobsFormed
  <2>7. UploadedIsAttached'
    BY <1>1, <2>0, <1>t, <1>p DEF InsertLocalImages, UploadedIsAttached, LiveJobs, JobsFormed
  <2>8. SaveFormed'
    BY <1>1, <2>0, <1>t, <1>p DEF InsertLocalImages, SaveFormed, Saving, LiveJobs, JobsFormed, JobsApart, NoUpload, NoSave, UploadJob, SaveJob
  <2> QED
    BY <2>1, <2>2, <2>3, <2>4, <2>5, <2>6, <2>7, <2>8
<1>2. ASSUME NEW j \in Jobs, PlaceLocalFile(j) PROVE Parts'
  <2> PICK f \in local : CreateJob(j, {f})
    BY <1>2 DEF PlaceLocalFile
  <2>0. /\ job' = [job EXCEPT ![j] = [pc |-> "active", files |-> {f}, has |-> {}, todo |-> {f}]]
        /\ job[j].pc = "none" /\ f \in picked /\ f \in Files
        /\ \A k \in Jobs : job[k].pc \in {"none", "disposed"}
    BY <1>2, <1>t, <1>p DEF CreateJob, Pending, Fresh, PlaceLocalFile, LiveJobs, UploadJob
  <2>1. InlineBound'
    BY <1>2, <1>t, <1>p DEF PlaceLocalFile, InlineBound
  <2>2. NothingLost'
    BY <1>2, <2>0, <1>t, <1>p DEF PlaceLocalFile, NothingLost, LiveJobs
  <2>3. UploadedOnce'
    BY <1>2, <1>t, <1>p DEF PlaceLocalFile, UploadedOnce
  <2>4. JobsFormed'
    BY <1>2, <2>0, <1>t, <1>p DEF PlaceLocalFile, JobsFormed, NoUpload
  <2>5. JobsApart'
    <3>1. \A k \in Jobs : job[k].files \cap {f} = {}
      BY <2>0, <1>p DEF JobsApart, JobsFormed, NoUpload
    <3> QED
      BY <1>2, <2>0, <3>1, <1>t, <1>p DEF PlaceLocalFile, JobsApart
  <2>6. Fresh'
    BY <1>2, <2>0, <1>t, <1>p DEF PlaceLocalFile, Pending, Fresh
  <2>7. UploadedIsAttached'
    BY <1>2, <2>0, <1>t, <1>p DEF PlaceLocalFile, UploadedIsAttached, LiveJobs
  <2>8. SaveFormed'
    BY <1>2, <2>0, <1>t, <1>p DEF PlaceLocalFile, SaveFormed, Saving, LiveJobs, JobsFormed, JobsApart, NoUpload, NoSave, UploadJob, SaveJob
  <2> QED
    BY <2>1, <2>2, <2>3, <2>4, <2>5, <2>6, <2>7, <2>8
<1>3. ASSUME NEW j \in Jobs, UploadDone(j) PROVE Parts'
  <2> PICK f \in job[j].todo :
        /\ uploads' = [uploads EXCEPT ![f] = @ + 1]
        /\ attached' = attached \cup {f}
        /\ local' = local \ {f}
        /\ NextEntry(j, [job[j] EXCEPT !.has = @ \cup {f}, !.todo = @ \ {f}])
    BY <1>3 DEF UploadDone
  <2> DEFINE e == [job[j] EXCEPT !.has = @ \cup {f}, !.todo = @ \ {f}]
  <2>e. /\ e \in UploadJob /\ e.pc = "active" /\ e.files = job[j].files
        /\ e.has = job[j].has \cup {f} /\ e.todo = job[j].todo \ {f} /\ job[j].pc = "active"
    <3>1. job[j].pc = "active" /\ job[j] \in UploadJob /\ f \in Files
      BY <1>3, <1>t DEF UploadJob, UploadDone
    <3>2. e \in UploadJob
      BY <3>1 DEF UploadJob
    <3>3. e.pc = job[j].pc /\ e.files = job[j].files /\ e.has = job[j].has \cup {f} /\ e.todo = job[j].todo \ {f}
      BY <3>1 DEF UploadJob
    <3> QED
      BY <3>1, <3>2, <3>3
  <2>f. /\ f \in Files /\ f \in job[j].files \ job[j].has /\ (uploads[f] = 0 \/ f \in tried)
        /\ f \notin save.files
        /\ job[j].has \subseteq job[j].files /\ job[j].files \subseteq picked
        /\ e.todo \subseteq e.files \ e.has
    BY <2>e, <1>t, <1>p DEF UploadJob, JobsFormed, Pending, Fresh, SaveFormed
  <2> HIDE DEF e
  <2>n. NextEntry(j, e)
    BY DEF e
  <2>s. /\ refs' \subseteq refs \cup e.files /\ (refs' = refs \/ e.has = e.files)
        /\ \E d \in UploadJob :
             /\ job' = [job EXCEPT ![j] = d]
             /\ (d = NoUpload /\ e.has = e.files) \/ (d.pc \in {"active", "failed"} /\ d.files = e.files /\ d.has = e.has)
             /\ d.todo = e.todo /\ (d.pc = "active" <=> d.todo # {}) /\ (d.pc = "failed" => d.has # d.files)
    <3>1. [e EXCEPT !.pc = "failed"] \in UploadJob /\ [e EXCEPT !.pc = "failed"].files = e.files
          /\ [e EXCEPT !.pc = "failed"].has = e.has /\ [e EXCEPT !.pc = "failed"].todo = e.todo
          /\ [e EXCEPT !.pc = "failed"].pc = "failed"
      BY <2>e DEF UploadJob
    <3>2. NoUpload.todo = {} /\ NoUpload.pc = "none"
      BY DEF NoUpload
    <3>3. CASE e.todo # {} /\ job' = [job EXCEPT ![j] = e] /\ refs' = refs
      BY <2>e, <3>3
    <3>4. CASE e.todo = {} /\ e.has # e.files /\ refs' = refs /\ job' = [job EXCEPT ![j] = [e EXCEPT !.pc = "failed"]]
      <4> DEFINE x == [e EXCEPT !.pc = "failed"]
      <4>1. /\ x \in UploadJob /\ x.pc = "failed" /\ x.files = e.files /\ x.has = e.has /\ x.todo = e.todo
            /\ job' = [job EXCEPT ![j] = x]
        BY <3>1, <3>4
      <4> HIDE DEF x
      <4> QED
        BY <4>1, <3>4
    <3>5. CASE /\ e.todo = {} /\ e.has = e.files /\ refs' \subseteq refs \cup e.files
               /\ job' = [job EXCEPT ![j] = NoUpload]
      <4>1. /\ NoUpload = NoUpload /\ e.has = e.files /\ NoUpload.todo = e.todo
            /\ (NoUpload.pc = "active" <=> NoUpload.todo # {})
            /\ (NoUpload.pc = "failed" => NoUpload.has # NoUpload.files)
        BY <3>2, <3>5
      <4> QED
        BY <4>1, <3>5, NoUploadType
    <3> QED
      BY <2>e, <2>n, <3>3, <3>4, <3>5, NextEntryCases
  <2> PICK d \in UploadJob :
        /\ job' = [job EXCEPT ![j] = d]
        /\ (d = NoUpload /\ e.has = e.files) \/ (d.pc \in {"active", "failed"} /\ d.files = e.files /\ d.has = e.has)
        /\ d.todo = e.todo /\ (d.pc = "active" <=> d.todo # {}) /\ (d.pc = "failed" => d.has # d.files)
    BY <2>s
  <2>d. NoUpload.files = {} /\ NoUpload.has = {} /\ NoUpload.todo = {} /\ NoUpload.pc = "none"
    BY DEF NoUpload
  <2>1. InlineBound'
    BY <1>3, <2>e, <2>f, <2>s, <1>t, <1>p DEF UploadDone, InlineBound, UploadedIsAttached, LiveJobs
  <2>2. NothingLost'
    <3>1. \A g \in chosen : g \in attached' \cup local' \/ \E k \in LiveJobs' : g \in job'[k].files
      BY <1>3, <2>e, <2>f, <2>d, <1>t, <1>p DEF UploadDone, NothingLost, UploadedIsAttached, LiveJobs
    <3> QED
      BY <1>3, <3>1, <1>p DEF UploadDone, NothingLost
  <2>3. UploadedOnce'
    BY <1>3, <2>f, <1>t, <1>p DEF UploadDone, UploadedOnce
  <2>4. JobsFormed'
    BY <1>3, <2>e, <2>f, <2>d, <1>t, <1>p DEF UploadDone, JobsFormed
  <2>5. JobsApart'
    BY <2>e, <2>f, <2>d, <1>t, <1>p DEF JobsApart
  <2>6. Fresh'
    <3>1. \A g \in Files : g # f => uploads'[g] = uploads[g]
      BY <2>f, <1>t
    <3>2. \A g \in Files : Pending(g)' => Pending(g) /\ g # f
      BY <1>3, <2>e, <2>f, <2>d, <1>t, <1>p DEF UploadDone, JobsApart, Pending
    <3> QED
      BY <1>3, <2>f, <3>1, <3>2, <1>p DEF UploadDone, Fresh, SaveFormed
  <2>7. UploadedIsAttached'
    BY <1>3, <2>e, <2>f, <2>d, <1>t, <1>p DEF UploadDone, UploadedIsAttached, LiveJobs
  <2>8. SaveFormed'
    BY <1>3, <2>e, <2>f, <2>d, <1>t, <1>p DEF UploadDone, SaveFormed, Saving, LiveJobs, JobsFormed, JobsApart, NoUpload, NoSave, UploadJob, SaveJob
  <2> QED
    BY <2>1, <2>2, <2>3, <2>4, <2>5, <2>6, <2>7, <2>8
<1>4. ASSUME NEW j \in Jobs, UploadFails(j) PROVE Parts'
  <2> PICK f \in job[j].todo : NextEntry(j, [job[j] EXCEPT !.todo = @ \ {f}])
    BY <1>4 DEF UploadFails
  <2> DEFINE e == [job[j] EXCEPT !.todo = @ \ {f}]
             d == [job[j] EXCEPT !.pc = IF e.todo = {} THEN "failed" ELSE "active", !.todo = @ \ {f}]
  <2>e. /\ e \in UploadJob /\ e.files = job[j].files /\ e.has = job[j].has /\ e.todo = job[j].todo \ {f}
        /\ d.files = job[j].files /\ d.has = job[j].has /\ d.todo = job[j].todo \ {f}
        /\ d.pc = (IF e.todo = {} THEN "failed" ELSE "active") /\ job[j].pc = "active"
    BY <1>4, <1>t DEF UploadJob, UploadFails
  <2>f. f \in job[j].files \ job[j].has
    BY <1>p DEF JobsFormed
  <2>j. job' = [job EXCEPT ![j] = d] /\ refs' = refs
    <3>1. NextEntry(j, e)
      OBVIOUS
    <3>2. e.todo # {} => d = e
      BY <2>e, <1>t DEF UploadJob
    <3>3. e.todo = {} => d = [e EXCEPT !.pc = "failed"]
      BY <2>e, <1>t DEF UploadJob
    <3>4. e.has # e.files
      BY <2>e, <2>f
    <3> HIDE DEF e, d
    <3> QED
      BY <2>e, <3>1, <3>2, <3>3, <3>4, NextEntryCases
  <2> HIDE DEF e, d
  <2>1. InlineBound'
    BY <1>4, <2>j, <1>p DEF UploadFails, InlineBound
  <2>2. NothingLost'
    <3>1. \A g \in chosen : g \in attached \cup local \/ \E k \in LiveJobs' : g \in job'[k].files
      BY <1>4, <2>e, <2>j, <1>t, <1>p DEF UploadFails, NothingLost, LiveJobs
    <3> QED
      BY <1>4, <3>1, <1>p DEF UploadFails, NothingLost
  <2>3. UploadedOnce'
    BY <1>4, <1>p DEF UploadFails, UploadedOnce
  <2>4. JobsFormed'
    BY <1>4, <2>e, <2>f, <2>j, <1>t, <1>p DEF UploadFails, JobsFormed
  <2>5. JobsApart'
    BY <1>4, <2>e, <2>j, <1>t, <1>p DEF UploadFails, JobsApart
  <2>6. Fresh'
    BY <1>4, <2>e, <2>j, <1>t, <1>p DEF UploadFails, Pending, Fresh
  <2>7. UploadedIsAttached'
    BY <1>4, <2>e, <2>j, <1>t, <1>p DEF UploadFails, UploadedIsAttached, LiveJobs
  <2>8. SaveFormed'
    BY <1>4, <2>e, <2>f, <2>j, <1>t, <1>p DEF UploadFails, SaveFormed, Saving, LiveJobs, JobsFormed, JobsApart, NoUpload, NoSave, UploadJob, SaveJob
  <2> QED
    BY <2>1, <2>2, <2>3, <2>4, <2>5, <2>6, <2>7, <2>8
<1>5. ASSUME NEW j \in Jobs, RetryJob(j) PROVE Parts'
  <2>1. InlineBound'
    BY <1>5, <1>t, <1>p DEF RetryJob, Missing, InlineBound, UploadedIsAttached, LiveJobs
  <2>2. NothingLost'
    BY <1>5, <1>t, <1>p DEF RetryJob, Missing, NothingLost, LiveJobs, UploadedIsAttached
  <2>3. UploadedOnce'
    BY <1>5, <1>t, <1>p DEF RetryJob, Missing, UploadedOnce, Pending, Fresh, JobsFormed
  <2>4. JobsFormed'
    <3> DEFINE x == [job[j] EXCEPT !.pc = "active", !.todo = Missing(job[j])]
    <3>1. /\ x.pc = "active" /\ x.files = job[j].files /\ x.has = job[j].has
          /\ x.todo = job[j].files \ job[j].has
      BY <1>t DEF UploadJob, Missing
    <3>2. job' = [job EXCEPT ![j] = x] /\ picked' = picked /\ job[j].pc = "failed"
      BY <1>5 DEF RetryJob
    <3>3. job[j].files \ job[j].has # {}
      BY <3>2, <1>p DEF JobsFormed
    <3> HIDE DEF x
    <3> QED
      BY <3>1, <3>2, <3>3, <1>t, <1>p DEF JobsFormed
  <2>5. JobsApart'
    BY <1>5, <1>t, <1>p DEF RetryJob, Missing, JobsApart, JobsFormed, NoUpload, LiveJobs
  <2>6. Fresh'
    BY <1>5, <1>t, <1>p DEF RetryJob, Missing, Pending, Fresh, JobsFormed, JobsApart, NoUpload, LiveJobs
  <2>7. UploadedIsAttached'
    BY <1>5, <1>t, <1>p DEF RetryJob, Missing, UploadedIsAttached, LiveJobs, JobsFormed, JobsApart, NoUpload
  <2>8. SaveFormed'
    BY <1>5, <1>t, <1>p DEF RetryJob, Missing, SaveFormed, Saving, LiveJobs, JobsFormed, JobsApart, NoUpload, NoSave, UploadJob, SaveJob
  <2> QED
    BY <2>1, <2>2, <2>3, <2>4, <2>5, <2>6, <2>7, <2>8
<1>6. ASSUME NEW j \in Jobs, DismissJob(j) PROVE Parts'
  <2>1. InlineBound'
    BY <1>6, <1>t, <1>p DEF DismissJob, Missing, InlineBound, UploadedIsAttached, LiveJobs
  <2>2. NothingLost'
    BY <1>6, <1>t, <1>p DEF DismissJob, Missing, NothingLost, LiveJobs, UploadedIsAttached
  <2>3. UploadedOnce'
    BY <1>6, <1>t, <1>p DEF DismissJob, Missing, UploadedOnce, Pending, Fresh, JobsFormed
  <2>4. JobsFormed'
    BY <1>6, <1>t, <1>p DEF DismissJob, Missing, JobsFormed, UploadJob, NoUpload
  <2>5. JobsApart'
    BY <1>6, <1>t, <1>p DEF DismissJob, Missing, JobsApart, JobsFormed, NoUpload, LiveJobs
  <2>6. Fresh'
    BY <1>6, <1>t, <1>p DEF DismissJob, Missing, Pending, Fresh, JobsFormed, JobsApart, NoUpload, LiveJobs
  <2>7. UploadedIsAttached'
    BY <1>6, <1>t, <1>p DEF DismissJob, Missing, UploadedIsAttached, LiveJobs, JobsFormed, JobsApart, NoUpload
  <2>8. SaveFormed'
    BY <1>6, <1>t, <1>p DEF DismissJob, Missing, SaveFormed, Saving, LiveJobs, JobsFormed, JobsApart, NoUpload, NoSave, UploadJob, SaveJob
  <2> QED
    BY <2>1, <2>2, <2>3, <2>4, <2>5, <2>6, <2>7, <2>8
<1>7. ASSUME NEW j \in Jobs, LateUpload(j) PROVE Parts'
  <2> PICK f \in job[j].todo :
        \/ /\ uploads' = [uploads EXCEPT ![f] = @ + 1]
           /\ job' = [job EXCEPT ![j] = NoUpload]
        \/ /\ job' = [job EXCEPT ![j] = IF job[j].todo = {f} THEN NoUpload ELSE [job[j] EXCEPT !.todo = @ \ {f}]]
           /\ uploads' = uploads
    BY <1>7 DEF LateUpload
  <2> DEFINE d == [job[j] EXCEPT !.todo = @ \ {f}]
  <2>d. /\ NoUpload.files = {} /\ NoUpload.has = {} /\ NoUpload.todo = {} /\ NoUpload.pc = "none"
        /\ d.files = job[j].files /\ d.has = job[j].has /\ d.todo = job[j].todo \ {f} /\ d.pc = "disposed"
        /\ job[j].pc = "disposed"
    BY <1>7, <1>t DEF NoUpload, UploadJob, LateUpload
  <2>f. /\ f \in Files /\ f \in job[j].files \ job[j].has /\ f \notin local /\ f \in picked
        /\ (uploads[f] = 0 \/ f \in tried) /\ f \notin save.files
    BY <2>d, <1>t, <1>p DEF JobsFormed, JobsApart, Pending, Fresh, SaveFormed, UploadJob
  <2>j. \/ uploads' = [uploads EXCEPT ![f] = @ + 1] /\ job' = [job EXCEPT ![j] = NoUpload]
        \/ uploads' = uploads /\ job' = [job EXCEPT ![j] = NoUpload]
        \/ uploads' = uploads /\ job' = [job EXCEPT ![j] = d] /\ job[j].todo # {f}
    OBVIOUS
  <2> HIDE DEF d
  <2>1. InlineBound'
    BY <1>7, <1>p DEF LateUpload, InlineBound
  <2>2. NothingLost'
    <3>1. \A g \in chosen : g \in attached \cup local \/ \E k \in LiveJobs' : g \in job'[k].files
      BY <2>d, <2>j, <1>t, <1>p DEF NothingLost, LiveJobs
    <3> QED
      BY <1>7, <3>1, <1>p DEF LateUpload, NothingLost
  <2>3. UploadedOnce'
    BY <1>7, <2>f, <2>j, <1>t, <1>p DEF LateUpload, UploadedOnce
  <2>4. JobsFormed'
    BY <1>7, <2>d, <2>f, <2>j, <1>t, <1>p DEF LateUpload, JobsFormed
  <2>5. JobsApart'
    BY <1>7, <2>d, <2>j, <1>t, <1>p DEF LateUpload, JobsApart
  <2>6. Fresh'
    BY <1>7, <2>d, <2>f, <2>j, <1>t, <1>p DEF LateUpload, JobsApart, Pending, Fresh, SaveFormed
  <2>7. UploadedIsAttached'
    BY <1>7, <2>d, <2>j, <1>t, <1>p DEF LateUpload, UploadedIsAttached, LiveJobs
  <2>8. SaveFormed'
    BY <1>7, <2>d, <2>f, <2>j, <1>t, <1>p DEF LateUpload, SaveFormed, Saving, LiveJobs, JobsFormed, JobsApart, NoUpload, NoSave, UploadJob, SaveJob
  <2> QED
    BY <2>1, <2>2, <2>3, <2>4, <2>5, <2>6, <2>7, <2>8
<1>8. ASSUME PlaceAttachment PROVE Parts'
  <2>1. InlineBound'
    BY <1>8, <1>t, <1>p DEF PlaceAttachment, InlineBound, UploadedIsAttached, LiveJobs
  <2>2. NothingLost'
    BY <1>8, <1>t, <1>p DEF PlaceAttachment, NothingLost, LiveJobs, UploadedIsAttached
  <2>3. UploadedOnce'
    BY <1>8, <1>t, <1>p DEF PlaceAttachment, UploadedOnce, Pending, Fresh, JobsFormed
  <2>4. JobsFormed'
    BY <1>8, <1>t, <1>p DEF PlaceAttachment, JobsFormed, UploadJob, NoUpload
  <2>5. JobsApart'
    BY <1>8, <1>t, <1>p DEF PlaceAttachment, JobsApart, JobsFormed, NoUpload, LiveJobs
  <2>6. Fresh'
    BY <1>8, <1>t, <1>p DEF PlaceAttachment, Pending, Fresh, JobsFormed, JobsApart, NoUpload, LiveJobs
  <2>7. UploadedIsAttached'
    BY <1>8, <1>t, <1>p DEF PlaceAttachment, UploadedIsAttached, LiveJobs, JobsFormed, JobsApart, NoUpload
  <2>8. SaveFormed'
    BY <1>8, <1>t, <1>p DEF PlaceAttachment, SaveFormed, Saving, LiveJobs, JobsFormed, JobsApart, NoUpload, NoSave, UploadJob, SaveJob
  <2> QED
    BY <2>1, <2>2, <2>3, <2>4, <2>5, <2>6, <2>7, <2>8
<1>9. ASSUME AddLocalFile PROVE Parts'
  <2>1. InlineBound'
    BY <1>9, <1>t, <1>p DEF AddLocalFile, InlineBound, UploadedIsAttached, LiveJobs
  <2>2. NothingLost'
    BY <1>9, <1>t, <1>p DEF AddLocalFile, NothingLost, LiveJobs, UploadedIsAttached
  <2>3. UploadedOnce'
    BY <1>9, <1>t, <1>p DEF AddLocalFile, UploadedOnce, Pending, Fresh, JobsFormed
  <2>4. JobsFormed'
    BY <1>9, <1>t, <1>p DEF AddLocalFile, JobsFormed, UploadJob, NoUpload
  <2>5. JobsApart'
    BY <1>9, <1>t, <1>p DEF AddLocalFile, JobsApart, JobsFormed, NoUpload, LiveJobs
  <2>6. Fresh'
    BY <1>9, <1>t, <1>p DEF AddLocalFile, Pending, Fresh, JobsFormed, JobsApart, NoUpload, LiveJobs
  <2>7. UploadedIsAttached'
    BY <1>9, <1>t, <1>p DEF AddLocalFile, UploadedIsAttached, LiveJobs, JobsFormed, JobsApart, NoUpload
  <2>8. SaveFormed'
    BY <1>9, <1>t, <1>p DEF AddLocalFile, SaveFormed, Saving, LiveJobs, JobsFormed, JobsApart, NoUpload, NoSave, UploadJob, SaveJob
  <2> QED
    BY <2>1, <2>2, <2>3, <2>4, <2>5, <2>6, <2>7, <2>8
<1>10. ASSUME RemoveLocalFile PROVE Parts'
  <2>1. InlineBound'
    BY <1>10, <1>t, <1>p DEF RemoveLocalFile, InlineBound, UploadedIsAttached, LiveJobs
  <2>2. NothingLost'
    BY <1>10, <1>t, <1>p DEF RemoveLocalFile, NothingLost, LiveJobs, UploadedIsAttached
  <2>3. UploadedOnce'
    BY <1>10, <1>t, <1>p DEF RemoveLocalFile, UploadedOnce, Pending, Fresh, JobsFormed
  <2>4. JobsFormed'
    BY <1>10, <1>t, <1>p DEF RemoveLocalFile, JobsFormed, UploadJob, NoUpload
  <2>5. JobsApart'
    BY <1>10, <1>t, <1>p DEF RemoveLocalFile, JobsApart, JobsFormed, NoUpload, LiveJobs
  <2>6. Fresh'
    BY <1>10, <1>t, <1>p DEF RemoveLocalFile, Pending, Fresh, JobsFormed, JobsApart, NoUpload, LiveJobs
  <2>7. UploadedIsAttached'
    BY <1>10, <1>t, <1>p DEF RemoveLocalFile, UploadedIsAttached, LiveJobs, JobsFormed, JobsApart, NoUpload
  <2>8. SaveFormed'
    BY <1>10, <1>t, <1>p DEF RemoveLocalFile, SaveFormed, Saving, LiveJobs, JobsFormed, JobsApart, NoUpload, NoSave, UploadJob, SaveJob
  <2> QED
    BY <2>1, <2>2, <2>3, <2>4, <2>5, <2>6, <2>7, <2>8
<1>11. ASSUME RemoveAttachment PROVE Parts'
  <2>1. InlineBound'
    BY <1>11, <1>t, <1>p DEF RemoveAttachment, InlineBound, UploadedIsAttached, LiveJobs
  <2>2. NothingLost'
    BY <1>11, <1>t, <1>p DEF RemoveAttachment, NothingLost, LiveJobs, UploadedIsAttached
  <2>3. UploadedOnce'
    BY <1>11, <1>t, <1>p DEF RemoveAttachment, UploadedOnce, Pending, Fresh, JobsFormed
  <2>4. JobsFormed'
    BY <1>11, <1>t, <1>p DEF RemoveAttachment, JobsFormed, UploadJob, NoUpload
  <2>5. JobsApart'
    BY <1>11, <1>t, <1>p DEF RemoveAttachment, JobsApart, JobsFormed, NoUpload, LiveJobs
  <2>6. Fresh'
    BY <1>11, <1>t, <1>p DEF RemoveAttachment, Pending, Fresh, JobsFormed, JobsApart, NoUpload, LiveJobs
  <2>7. UploadedIsAttached'
    BY <1>11, <1>t, <1>p DEF RemoveAttachment, UploadedIsAttached, LiveJobs, JobsFormed, JobsApart, NoUpload
  <2>8. SaveFormed'
    BY <1>11, <1>t, <1>p DEF RemoveAttachment, SaveFormed, Saving, LiveJobs, JobsFormed, JobsApart, NoUpload, NoSave, UploadJob, SaveJob
  <2> QED
    BY <2>1, <2>2, <2>3, <2>4, <2>5, <2>6, <2>7, <2>8
<1>12. ASSUME EraseReference PROVE Parts'
  <2>1. InlineBound'
    BY <1>12, <1>t, <1>p DEF EraseReference, InlineBound, UploadedIsAttached, LiveJobs
  <2>2. NothingLost'
    BY <1>12, <1>t, <1>p DEF EraseReference, NothingLost, LiveJobs, UploadedIsAttached
  <2>3. UploadedOnce'
    BY <1>12, <1>t, <1>p DEF EraseReference, UploadedOnce, Pending, Fresh, JobsFormed
  <2>4. JobsFormed'
    BY <1>12, <1>t, <1>p DEF EraseReference, JobsFormed, UploadJob, NoUpload
  <2>5. JobsApart'
    BY <1>12, <1>t, <1>p DEF EraseReference, JobsApart, JobsFormed, NoUpload, LiveJobs
  <2>6. Fresh'
    BY <1>12, <1>t, <1>p DEF EraseReference, Pending, Fresh, JobsFormed, JobsApart, NoUpload, LiveJobs
  <2>7. UploadedIsAttached'
    BY <1>12, <1>t, <1>p DEF EraseReference, UploadedIsAttached, LiveJobs, JobsFormed, JobsApart, NoUpload
  <2>8. SaveFormed'
    BY <1>12, <1>t, <1>p DEF EraseReference, SaveFormed, Saving, LiveJobs, JobsFormed, JobsApart, NoUpload, NoSave, UploadJob, SaveJob
  <2> QED
    BY <2>1, <2>2, <2>3, <2>4, <2>5, <2>6, <2>7, <2>8
<1>13. ASSUME EraseAnchor PROVE Parts'
  <2>1. InlineBound'
    BY <1>13, <1>t, <1>p DEF EraseAnchor, InlineBound, UploadedIsAttached, LiveJobs
  <2>2. NothingLost'
    BY <1>13, <1>t, <1>p DEF EraseAnchor, NothingLost, LiveJobs, UploadedIsAttached
  <2>3. UploadedOnce'
    BY <1>13, <1>t, <1>p DEF EraseAnchor, UploadedOnce, Pending, Fresh, JobsFormed
  <2>4. JobsFormed'
    BY <1>13, <1>t, <1>p DEF EraseAnchor, JobsFormed, UploadJob, NoUpload
  <2>5. JobsApart'
    BY <1>13, <1>t, <1>p DEF EraseAnchor, JobsApart, JobsFormed, NoUpload, LiveJobs
  <2>6. Fresh'
    BY <1>13, <1>t, <1>p DEF EraseAnchor, Pending, Fresh, JobsFormed, JobsApart, NoUpload, LiveJobs
  <2>7. UploadedIsAttached'
    BY <1>13, <1>t, <1>p DEF EraseAnchor, UploadedIsAttached, LiveJobs, JobsFormed, JobsApart, NoUpload
  <2>8. SaveFormed'
    BY <1>13, <1>t, <1>p DEF EraseAnchor, SaveFormed, Saving, LiveJobs, JobsFormed, JobsApart, NoUpload, NoSave, UploadJob, SaveJob
  <2> QED
    BY <2>1, <2>2, <2>3, <2>4, <2>5, <2>6, <2>7, <2>8
<1>14. ASSUME UnmountUploads PROVE Parts'
  <2>1. InlineBound'
    BY <1>14, <1>t, <1>p DEF UnmountUploads, InlineBound, UploadedIsAttached, LiveJobs
  <2>2. NothingLost'
    BY <1>14, <1>t, <1>p DEF UnmountUploads, NothingLost, LiveJobs, UploadedIsAttached
  <2>3. UploadedOnce'
    BY <1>14, <1>t, <1>p DEF UnmountUploads, UploadedOnce, Pending, Fresh, JobsFormed
  <2>4. JobsFormed'
    BY <1>14, <1>t, <1>p DEF UnmountUploads, JobsFormed, UploadJob, NoUpload
  <2>5. JobsApart'
    BY <1>14, <1>t, <1>p DEF UnmountUploads, JobsApart, JobsFormed, NoUpload, LiveJobs
  <2>6. Fresh'
    BY <1>14, <1>t, <1>p DEF UnmountUploads, Pending, Fresh, JobsFormed, JobsApart, NoUpload, LiveJobs
  <2>7. UploadedIsAttached'
    BY <1>14, <1>t, <1>p DEF UnmountUploads, UploadedIsAttached, LiveJobs, JobsFormed, JobsApart, NoUpload
  <2>8. SaveFormed'
    <3>1. /\ save'.files = save.files /\ save'.todo = save.todo /\ save'.attached = save.attached
          /\ save'.refs = save.refs /\ save'.chosen = save.chosen /\ save'.pc # "saving"
          /\ save'.pc = "none" => save' = save
      BY <1>14, <1>t DEF UnmountUploads, Saving, SaveJob
    <3>2. \A j \in Jobs : job'[j].files = job[j].files \/ job'[j].files = {}
      BY <1>14, <1>t DEF UnmountUploads, NoUpload, UploadJob
    <3> QED
      BY <1>14, <3>1, <3>2, <1>t, <1>p DEF UnmountUploads, SaveFormed, Saving
  <2> QED
    BY <2>1, <2>2, <2>3, <2>4, <2>5, <2>6, <2>7, <2>8
<1>15. ASSUME BeginSave PROVE Parts'
  <2>0. /\ LiveJobs = {} /\ save'.pc = "saving" /\ save'.files = local /\ save'.todo = local
        /\ save'.attached = attached /\ save'.refs = refs /\ save'.chosen = chosen
        /\ \A j \in Jobs : job[j].files \cap local = {}
    <3>1. LiveJobs = {}
      BY <1>15 DEF BeginSave, MaySave
    <3>2. \A j \in Jobs : job[j].files \cap local = {}
      BY <3>1, <1>t, <1>p DEF JobsFormed, JobsApart, NoUpload, LiveJobs, UploadJob
    <3> QED
      BY <1>15, <3>1, <3>2 DEF BeginSave
  <2>1. InlineBound'
    BY <1>15, <2>0, <1>t, <1>p DEF BeginSave, InlineBound, SaveFormed
  <2>2. NothingLost'
    BY <1>15, <2>0, <1>t, <1>p DEF BeginSave, NothingLost, LiveJobs, SaveFormed, Saving
  <2>3. UploadedOnce'
    BY <1>15, <2>0, <1>t, <1>p DEF BeginSave, UploadedOnce, Fresh, SaveFormed
  <2>4. JobsFormed'
    BY <1>15, <1>t, <1>p DEF BeginSave, JobsFormed
  <2>5. JobsApart'
    BY <1>15, <1>t, <1>p DEF BeginSave, JobsApart
  <2>6. Fresh'
    BY <1>15, <2>0, <1>t, <1>p DEF BeginSave, Pending, Fresh, SaveFormed, NoSave
  <2>7. UploadedIsAttached'
    BY <1>15, <2>0, <1>t, <1>p DEF BeginSave, UploadedIsAttached, LiveJobs, SaveFormed, Saving
  <2>8. SaveFormed'
    BY <1>15, <2>0, <1>t, <1>p DEF BeginSave, SaveFormed, Saving, LiveJobs, NothingLost, InlineBound, NoSave, SaveJob, Fresh
  <2> QED
    BY <2>1, <2>2, <2>3, <2>4, <2>5, <2>6, <2>7, <2>8
<1>16. ASSUME UploadLocalFile PROVE Parts'
  <2> PICK f \in save.todo : uploads' = [uploads EXCEPT ![f] = @ + 1] /\ save' = [save EXCEPT !.todo = @ \ {f}]
    BY <1>16 DEF UploadLocalFile
  <2>0. /\ f \in Files /\ f \in save.files /\ save'.todo = save.todo \ {f}
        /\ save'.files = save.files /\ save'.pc = save.pc /\ save'.chosen = save.chosen
        /\ save'.attached = save.attached /\ save'.refs = save.refs /\ save.pc # "none"
    BY <1>t, <1>p DEF SaveFormed, SaveJob, NoSave
  <2>1. InlineBound'
    BY <1>16, <2>0, <1>t, <1>p DEF UploadLocalFile, InlineBound, SaveFormed
  <2>2. NothingLost'
    BY <1>16, <2>0, <1>t, <1>p DEF UploadLocalFile, NothingLost, LiveJobs, SaveFormed, Saving
  <2>3. UploadedOnce'
    BY <1>16, <2>0, <1>t, <1>p DEF UploadLocalFile, UploadedOnce, Fresh, SaveFormed
  <2>4. JobsFormed'
    BY <1>16, <1>t, <1>p DEF UploadLocalFile, JobsFormed
  <2>5. JobsApart'
    BY <1>16, <1>t, <1>p DEF UploadLocalFile, JobsApart
  <2>6. Fresh'
    BY <1>16, <2>0, <1>t, <1>p DEF UploadLocalFile, Pending, Fresh, SaveFormed, Saving
  <2>7. UploadedIsAttached'
    BY <1>16, <2>0, <1>t, <1>p DEF UploadLocalFile, UploadedIsAttached, LiveJobs, SaveFormed, Saving
  <2>8. SaveFormed'
    BY <1>16, <2>0, <1>t, <1>p DEF UploadLocalFile, SaveFormed, Saving, LiveJobs, NothingLost, InlineBound, NoSave, SaveJob, Fresh
  <2> QED
    BY <2>1, <2>2, <2>3, <2>4, <2>5, <2>6, <2>7, <2>8
<1>17. ASSUME SaveFails PROVE Parts'
  <2>0. save' \in SaveJob /\ save \in SaveJob /\ NoSave.todo = {} /\ NoSave.files = {} /\ NoSave.pc = "none"
    BY <1>t DEF NoSave
  <2>1. InlineBound'
    BY <1>17, <2>0, <1>t, <1>p DEF SaveFails, InlineBound, SaveFormed
  <2>2. NothingLost'
    BY <1>17, <2>0, <1>t, <1>p DEF SaveFails, NothingLost, LiveJobs, SaveFormed, Saving
  <2>3. UploadedOnce'
    BY <1>17, <2>0, <1>t, <1>p DEF SaveFails, UploadedOnce, Fresh, SaveFormed
  <2>4. JobsFormed'
    BY <1>17, <1>t, <1>p DEF SaveFails, JobsFormed
  <2>5. JobsApart'
    BY <1>17, <1>t, <1>p DEF SaveFails, JobsApart
  <2>6. Fresh'
    BY <1>17, <2>0, <1>t, <1>p DEF SaveFails, Pending, Fresh, SaveFormed, Saving
  <2>7. UploadedIsAttached'
    BY <1>17, <2>0, <1>t, <1>p DEF SaveFails, UploadedIsAttached, LiveJobs, SaveFormed, Saving
  <2>8. SaveFormed'
    BY <1>17, <2>0, <1>t, <1>p DEF SaveFails, SaveFormed, Saving, LiveJobs, NothingLost, InlineBound, NoSave, SaveJob, Fresh
  <2> QED
    BY <2>1, <2>2, <2>3, <2>4, <2>5, <2>6, <2>7, <2>8
<1>18. ASSUME SaveAttached PROVE Parts'
  <2>0. save' \in SaveJob /\ save \in SaveJob /\ NoSave.todo = {} /\ NoSave.files = {} /\ NoSave.pc = "none"
    BY <1>t DEF NoSave
  <2>1. InlineBound'
    BY <1>18, <2>0, <1>t, <1>p DEF SaveAttached, InlineBound, SaveFormed
  <2>2. NothingLost'
    BY <1>18, <2>0, <1>t, <1>p DEF SaveAttached, NothingLost, LiveJobs, SaveFormed, Saving
  <2>3. UploadedOnce'
    BY <1>18, <2>0, <1>t, <1>p DEF SaveAttached, UploadedOnce, Fresh, SaveFormed
  <2>4. JobsFormed'
    BY <1>18, <1>t, <1>p DEF SaveAttached, JobsFormed
  <2>5. JobsApart'
    BY <1>18, <1>t, <1>p DEF SaveAttached, JobsApart
  <2>6. Fresh'
    <3>1. save.todo = {} /\ save' = NoSave /\ UNCHANGED <<job, picked, uploads, tried>> /\ local' \subseteq local
      BY <1>18 DEF SaveAttached
    <3>2. ASSUME NEW g \in Files, Pending(g)' PROVE Pending(g) /\ g \notin save.files
      <4>1. Saving \/ save.pc = "left"
        BY <1>18, <2>0 DEF SaveAttached, Saving, SaveJob
      <4>2. ASSUME NEW j \in Jobs, g \in job'[j].files \ job'[j].has PROVE Pending(g) /\ g \notin save.files
        BY <3>1, <4>2, <1>p DEF Pending, SaveFormed
      <4>3. ASSUME g \in local' PROVE Pending(g) /\ g \notin save.files
        BY <1>18, <3>1, <4>1, <4>3, <1>p DEF SaveAttached, Pending, SaveFormed
      <4>4. ASSUME g \notin picked' PROVE Pending(g) /\ g \notin save.files
        BY <3>1, <4>4, <1>p DEF Pending, SaveFormed
      <4> QED
        BY <3>2, <4>2, <4>3, <4>4 DEF Pending
    <3> QED
      BY <2>0, <3>1, <3>2, <1>p DEF Fresh
  <2>7. UploadedIsAttached'
    BY <1>18, <2>0, <1>t, <1>p DEF SaveAttached, UploadedIsAttached, LiveJobs, SaveFormed, Saving
  <2>8. SaveFormed'
    BY <1>18, <2>0, <1>t, <1>p DEF SaveAttached, SaveFormed, Saving, LiveJobs, NothingLost, InlineBound, NoSave, SaveJob, Fresh
  <2> QED
    BY <2>1, <2>2, <2>3, <2>4, <2>5, <2>6, <2>7, <2>8
<1>19. ASSUME UNCHANGED uploadVars PROVE Parts'
  <2>1. InlineBound'
    BY <1>19, <1>t, <1>p DEF uploadVars, InlineBound, UploadedIsAttached, LiveJobs
  <2>2. NothingLost'
    BY <1>19, <1>t, <1>p DEF uploadVars, NothingLost, LiveJobs, UploadedIsAttached
  <2>3. UploadedOnce'
    BY <1>19, <1>t, <1>p DEF uploadVars, UploadedOnce, Pending, Fresh, JobsFormed
  <2>4. JobsFormed'
    BY <1>19, <1>t, <1>p DEF uploadVars, JobsFormed, UploadJob, NoUpload
  <2>5. JobsApart'
    BY <1>19, <1>t, <1>p DEF uploadVars, JobsApart, JobsFormed, NoUpload, LiveJobs
  <2>6. Fresh'
    BY <1>19, <1>t, <1>p DEF uploadVars, Pending, Fresh, JobsFormed, JobsApart, NoUpload, LiveJobs
  <2>7. UploadedIsAttached'
    BY <1>19, <1>t, <1>p DEF uploadVars, UploadedIsAttached, LiveJobs, JobsFormed, JobsApart, NoUpload
  <2>8. SaveFormed'
    BY <1>19, <1>t, <1>p DEF uploadVars, SaveFormed, Saving, LiveJobs
  <2> QED
    BY <2>1, <2>2, <2>3, <2>4, <2>5, <2>6, <2>7, <2>8
<1>20. Parts'
  BY <1>1, <1>2, <1>3, <1>4, <1>5, <1>6, <1>7, <1>8, <1>9, <1>10, <1>11, <1>12, <1>13, <1>14, <1>15, <1>16, <1>17, <1>18, <1>19 DEF UploadNext
<1> QED
  BY <1>t, <1>20 DEF UploadInv, UploadsSafe

\* For any files, jobs, failures and retries: what the text shows inline is bound to
\* the memo, no file that the user chose is lost, and none is uploaded twice but by
\* a save after one that failed.
THEOREM UploadsKept == UploadSpec => []UploadsSafe
<1>1. UploadInv => UploadsSafe
  BY DEF UploadInv
<1> QED
  BY UploadInvInit, UploadTypeStep, UploadStep, <1>1, PTL DEF UploadSpec

-----------------------------------------------------------------------------
(* The draft.                                                                *)

\* The one editor of a tab, and what the rest of the state is to it.
Lone(t, s) ==
    /\ \A u \in Slots : u = s \/ ed[t][u] = NoEditor
    /\ EditorFormed(ed[t][s])
    /\ ed[t][s].is # "mounted" => timer[t] = None /\ kept \subseteq {stored} \cup Range(memos)
    /\ ed[t][s].is # "none" => kept \subseteq {ed[t][s].text} \cup Range(memos)
    /\ ed[t][s].pc = "settling" => stored = Blank /\ timer[t] = None
    /\ stored \notin acked /\ timer[t] \notin acked
    /\ ed[t][s].pc # "settling" => ed[t][s].text \notin acked

\* Its text may still be saved.
LoneUnsaved(t, s) ==
    ed[t][s].made = None =>
      /\ stored \notin Range(memos) /\ timer[t] \notin Range(memos)
      /\ ed[t][s].pc # "settling" => ed[t][s].text \notin Range(memos)

\* The constants of the draft are apart, and a new editor is an editor.
LEMMA NewEditorFormed ==
    /\ None \notin Text /\ Blank \in Text /\ None \in Nat
    /\ NoEditor \in Editor
    /\ NoEditor.is = "none" /\ NoEditor.text = Blank /\ NoEditor.latest = Blank /\ NoEditor.discarded = None
    /\ NoEditor.pc = "idle" /\ NoEditor.sent = <<>> /\ NoEditor.made = None
<1> USE DraftAssumption DEF None, Blank, Text
<1>1. <<>> \in Seq(Text \ {Blank})
  OBVIOUS
<1> QED
  BY <1>1 DEF NoEditor, Editor

\* The range of a sequence that grows.
LEMMA RangeOfAppend ==
    ASSUME NEW S, NEW q \in Seq(S), NEW x \in S
    PROVE  Append(q, x) \in Seq(S) /\ Range(Append(q, x)) = Range(q) \cup {x} /\ Range(q) \subseteq S
<1>1. Append(q, x) \in Seq(S) /\ Len(Append(q, x)) = Len(q) + 1 /\ Len(q) \in Nat
  OBVIOUS
<1>2. DOMAIN Append(q, x) = 1 .. Len(q) + 1 /\ DOMAIN q = 1 .. Len(q)
  OBVIOUS
<1>3. \A i \in 1 .. Len(q) : Append(q, x)[i] = q[i]
  OBVIOUS
<1>4. Append(q, x)[Len(q) + 1] = x
  OBVIOUS
<1>5. Range(Append(q, x)) = Range(q) \cup {x}
  BY <1>1, <1>2, <1>3, <1>4 DEF Range
<1>6. \A i \in 1 .. Len(q) : q[i] \in S
  OBVIOUS
<1> QED
  BY <1>1, <1>5, <1>2, <1>6 DEF Range

\* Nothing was typed at first.
LEMMA DraftInvInit == DraftInit => DraftInv
<1> SUFFICES ASSUME DraftInit PROVE DraftInv
  OBVIOUS
<1> USE DraftAssumption DEF DraftInit
<1>1. Range(memos) = {}
  BY DEF Range
<1>2. \A t \in Tabs, s \in Slots : ed[t][s] = NoEditor
  OBVIOUS
<1>3. DraftTypeOK
  <2>1. ed \in [Tabs -> [Slots -> Editor]]
    BY NewEditorFormed
  <2>2. memos \in Seq(Text \ {Blank})
    OBVIOUS
  <2> QED
    BY <2>1, <2>2, NewEditorFormed DEF DraftTypeOK, Text, Blank
<1>4. \A t \in Tabs, s \in Slots : EditorFormed(ed[t][s])
  BY <1>2, NewEditorFormed DEF EditorFormed, Blank
<1>5. \A t \in Tabs : Busy(t) = {} /\ Mounted(t) = {}
  BY <1>2, NewEditorFormed DEF Busy, Mounted
<1>6. TextsOld /\ LeftBehind /\ NotAgain /\ Unsaved
  BY <1>1, <1>2, <1>5, NewEditorFormed DEF TextsOld, LeftBehind, NotAgain, Unsaved, Blank
<1>7. SavedOnce
  BY DEF SavedOnce, IsInjective
<1> QED
  BY <1>3, <1>4, <1>5, <1>6, <1>7 DEF DraftInv

\* In a behaviour with one editor at a time the invariant speaks of that editor.
LEMMA LoneEditor ==
    ASSUME DraftInv, OneEditor, NEW t \in Tabs, NEW s \in Slots, Busy(t) \subseteq {s}
    PROVE  TextsOld /\ Lone(t, s)
<1>1. /\ \A u \in Slots : EditorFormed(ed[t][u])
      /\ TextsOld /\ LeftBehind /\ NotAgain
  BY DEF DraftInv
<1>2. \A u \in Slots : u = s \/ ed[t][u] = NoEditor
  BY <1>1 DEF Busy, EditorFormed
<1>3. ed[t][s].is # "none" => s \in Busy(t)
  BY DEF Busy
<1>4. ed[t][s].is # "mounted" => Mounted(t) = {}
  BY <1>2, NewEditorFormed DEF Mounted
<1> QED
  BY <1>1, <1>2, <1>3, <1>4 DEF Lone, LeftBehind, NotAgain

\* There is such an editor, and each that is at work is it.
LEMMA LoneBusy ==
    ASSUME DraftInv, OneEditor, NEW t \in Tabs, NEW s \in Slots, s \in Busy(t) \/ (Mounted(t) = {} /\ ed[t][s].is = "none")
    PROVE  Busy(t) \subseteq {s}
<1>1. ASSUME NEW u \in Busy(t) PROVE u = s
  <2>1. u \in Slots /\ EditorFormed(ed[t][u]) /\ EditorFormed(ed[t][s])
    BY DEF DraftInv, Busy
  <2>2. CASE s \in Busy(t)
    BY <2>1, <2>2, <1>1 DEF DraftInv
  <2>3. CASE Mounted(t) = {} /\ ed[t][s].is = "none"
    <3>1. ed[t][u].is \in {"none", "mounted", "gone"}
      BY <2>1 DEF DraftInv, DraftTypeOK, Editor
    <3>2. ed[t][u].is = "gone" /\ ~hosted
      BY <2>1, <2>3, <3>1, <1>1 DEF Busy, Mounted, EditorFormed
    <3> QED
      BY <2>1, <3>2 DEF OneEditor
  <2> QED
    BY <2>2, <2>3
<1> QED
  BY <1>1

\* And the other way round, after a step.
LEMMA LoneKept ==
    ASSUME DraftTypeOK', OneEditor, OneEditor', NEW t \in Tabs, NEW s \in Slots, TextsOld', Lone(t, s)'
    PROVE  /\ \A v \in Tabs, u \in Slots : EditorFormed(ed[v][u])'
           /\ \A v \in Tabs, u, w \in Slots : (u \in Busy(v) /\ w \in Busy(v) => u = w)'
           /\ LeftBehind' /\ NotAgain'
<1>0. \A v \in Tabs : v = t
  BY DEF OneEditor
<1>1. ASSUME NEW u \in Slots, u # s PROVE (ed[t][u])' = NoEditor
  BY <1>1 DEF Lone
<1>2. Blank \notin acked' /\ Blank <= typed'
  BY DEF TextsOld, DraftTypeOK, Blank
<1>3. ASSUME NEW u \in Slots PROVE EditorFormed(ed[t][u])'
  <2>1. CASE u = s
    BY <2>1 DEF Lone
  <2>2. CASE u # s
    BY <2>2, <1>1, <1>2, NewEditorFormed DEF EditorFormed
  <2> QED
    BY <2>1, <2>2
<1>4. ASSUME NEW u \in Slots, u # s PROVE u \notin Busy(t)' /\ u \notin Mounted(t)'
  BY <1>1, <1>4, NewEditorFormed DEF Busy, Mounted
<1>5. LeftBehind'
  <2>1. Mounted(t)' = {} => (ed[t][s].is # "mounted")'
    BY DEF Mounted
  <2>2. \A u \in Busy(t)' : u = s /\ (ed[t][s].is # "none")'
    BY <1>4 DEF Busy
  <2>3. ASSUME NEW u \in Slots, (ed[t][u].pc = "settling")' PROVE u = s
    BY <1>1, <2>3, NewEditorFormed
  <2> QED
    BY <1>0, <2>1, <2>2, <2>3 DEF LeftBehind, Lone
<1>6. NotAgain'
  <2>1. ASSUME NEW u \in Slots, (ed[t][u].pc # "settling")' PROVE (ed[t][u].text \notin acked)'
    <3>1. CASE u = s
      BY <2>1, <3>1 DEF Lone
    <3>2. CASE u # s
      BY <1>1, <1>2, <3>2, NewEditorFormed
    <3> QED
      BY <3>1, <3>2
  <2> QED
    BY <1>0, <2>1 DEF NotAgain, Lone
<1> QED
  BY <1>0, <1>3, <1>4, <1>5, <1>6

LEMMA UnsavedKept ==
    ASSUME DraftTypeOK', OneEditor, NEW t \in Tabs, NEW s \in Slots, TextsOld', Lone(t, s)', LoneUnsaved(t, s)'
    PROVE  Unsaved'
<1>0. \A v \in Tabs : v = t
  BY DEF OneEditor
<1>1. ASSUME NEW u \in Slots, u # s PROVE (ed[t][u])' = NoEditor
  BY <1>1 DEF Lone
<1>2. Blank \notin Range(memos)'
  BY DEF TextsOld, DraftTypeOK, Blank
<1>3. SUFFICES ASSUME (\A u \in Slots : ed[t][u].made = None)'
               PROVE  (/\ stored \notin Range(memos) /\ timer[t] \notin Range(memos)
                       /\ \A u \in Slots : ed[t][u].pc # "settling" => ed[t][u].text \notin Range(memos))'
  BY <1>0 DEF Unsaved
<1>4. (ed[t][s].made = None)'
  BY <1>3
<1>5. ASSUME NEW u \in Slots, (ed[t][u].pc # "settling")' PROVE (ed[t][u].text \notin Range(memos))'
  <2>1. CASE u = s
    BY <1>4, <1>5, <2>1 DEF LoneUnsaved
  <2>2. CASE u # s
    BY <1>1, <1>2, <2>2, NewEditorFormed
  <2> QED
    BY <2>1, <2>2
<1> QED
  BY <1>4, <1>5 DEF LoneUnsaved

\* A step of the editor, the cache, the user or the server keeps the types.
LEMMA DraftTypeStep == DraftTypeOK /\ [DraftNext]_draftVars => DraftTypeOK'
<1> SUFFICES ASSUME DraftTypeOK, [DraftNext]_draftVars PROVE DraftTypeOK'
  OBVIOUS
<1> USE DraftAssumption
<1>0. ASSUME UNCHANGED draftVars PROVE DraftTypeOK'
  BY <1>0 DEF draftVars, DraftTypeOK
<1>a. Blank \in Text /\ None \in Nat
  BY NewEditorFormed
<1>b. ASSUME NEW t \in Tabs, NEW s \in Slots, NEW e \in Editor, ed' = [ed EXCEPT ![t][s] = e]
      PROVE  ed' \in [Tabs -> [Slots -> Editor]]
  BY <1>b DEF DraftTypeOK
<1>c. ASSUME NEW t \in Tabs, NEW x \in Text, SaveNow(t, x) \/ SaveLater(t, x)
      PROVE  stored' \in Text /\ timer' \in [Tabs -> Text \cup {None}]
  BY <1>c DEF DraftTypeOK, SaveNow, SaveLater
<1>d. ASSUME NEW t \in Tabs, NEW s \in Slots, Flush(t, ed[t][s])
      PROVE  stored' \in Text /\ timer' \in [Tabs -> Text \cup {None}]
  <2>1. ed[t][s].latest \in Text
    BY DEF DraftTypeOK, Editor
  <2> QED
    BY <1>d, <2>1, <1>c DEF Flush, DraftTypeOK
<1>e. ASSUME NEW e \in Editor, NEW x \in Text PROVE Persisted(e, x) \in Editor
  BY DEF Editor, Persisted
<1>1. ASSUME NEW t \in Tabs, TimerFires(t) PROVE DraftTypeOK'
  <2>1. timer[t] \in Text
    BY <1>1 DEF TimerFires, DraftTypeOK
  <2> QED
    BY <1>1, <2>1, <1>c DEF TimerFires, DraftTypeOK, setting
<1>2. ASSUME NEW t \in Tabs, Kill(t) PROVE DraftTypeOK'
  <2>1. ed' \in [Tabs -> [Slots -> Editor]]
    BY <1>2, NewEditorFormed DEF Kill, DraftTypeOK
  <2> QED
    BY <1>2, <2>1 DEF Kill, DraftTypeOK, setting
<1>3. ASSUME NEW t \in Tabs, NEW s \in Slots, Mount(t, s) PROVE DraftTypeOK'
  <2>1. [NoEditor EXCEPT !.is = "mounted", !.text = stored, !.latest = stored] \in Editor
    BY NewEditorFormed DEF DraftTypeOK, Editor
  <2>2. ed' \in [Tabs -> [Slots -> Editor]]
    BY <1>3, <2>1, <1>b DEF Mount
  <2> QED
    BY <1>3, <2>2, <1>c DEF Mount, DraftTypeOK, setting
<1>4. ASSUME NEW t \in Tabs, NEW s \in Slots, Type(t, s) PROVE DraftTypeOK'
  <2>1. PICK text \in {Blank} \cup ({typed + 1} \cap Text) :
          /\ text # ed[t][s].text
          /\ ed' = [ed EXCEPT ![t][s] = Persisted(ed[t][s], text)]
          /\ SaveLater(t, text)
          /\ kept' = (kept \ {ed[t][s].text}) \cup ({text} \ {Blank})
          /\ typed' = IF text = Blank THEN typed ELSE text
    BY <1>4 DEF Type
  <2>2. text \in Text /\ ed[t][s] \in Editor
    BY <1>a DEF DraftTypeOK
  <2>3. ed' \in [Tabs -> [Slots -> Editor]]
    BY <2>1, <2>2, <1>e, <1>b
  <2>4. typed' \in 0 .. MaxText /\ kept' \subseteq Text \ {Blank}
    BY <2>1, <2>2 DEF DraftTypeOK, Text
  <2> QED
    BY <1>4, <2>1, <2>2, <2>3, <2>4, <1>c DEF Type, DraftTypeOK, setting
<1>5. ASSUME NEW t \in Tabs, NEW s \in Slots, Hide(t, s) PROVE DraftTypeOK'
  BY <1>5, <1>d DEF Hide, DraftTypeOK, setting
<1>6. ASSUME NEW t \in Tabs, NEW s \in Slots, Unmount(t, s) PROVE DraftTypeOK'
  <2>1. Unmounted(ed[t][s]) \in Editor
    <3>1. ed[t][s] \in Editor
      BY DEF DraftTypeOK
    <3>2. [ed[t][s] EXCEPT !.is = "gone"] \in Editor
      BY <3>1 DEF Editor
    <3> QED
      BY <3>2, NewEditorFormed DEF Unmounted
  <2>2. ed' \in [Tabs -> [Slots -> Editor]]
    BY <1>6, <2>1, <1>b DEF Unmount
  <2> QED
    BY <1>6, <2>2, <1>d DEF Unmount, DraftTypeOK, setting
<1>7. ASSUME NEW t \in Tabs, NEW s \in Slots, Save(t, s) PROVE DraftTypeOK'
  <2>1. ed[t][s] \in Editor /\ ed[t][s].text # Blank
    BY <1>7 DEF DraftTypeOK, Save, CanSave
  <2>2. Append(ed[t][s].sent, ed[t][s].text) \in Seq(Text \ {Blank})
    BY <2>1 DEF Editor
  <2>3. [ed[t][s] EXCEPT !.pc = "saving", !.sent = Append(@, ed[t][s].text)] \in Editor
    BY <2>1, <2>2 DEF Editor
  <2>4. ed' = [ed EXCEPT ![t][s] = [ed[t][s] EXCEPT !.pc = "saving", !.sent = Append(@, ed[t][s].text)]]
    BY <1>7 DEF Save, DraftTypeOK
  <2>5. ed' \in [Tabs -> [Slots -> Editor]]
    BY <2>3, <2>4, <1>b
  <2> QED
    BY <1>7, <2>5 DEF Save, DraftTypeOK, setting
<1>8. ASSUME NEW t \in Tabs, NEW s \in Slots, Create(t, s) PROVE DraftTypeOK'
  <2>1. ed[t][s] \in Editor /\ ed[t][s].sent \in Seq(Text \ {Blank}) /\ ed[t][s].sent # <<>>
    BY <1>8 DEF DraftTypeOK, Create, Editor
  <2>2. Head(ed[t][s].sent) \in Text \ {Blank} /\ Tail(ed[t][s].sent) \in Seq(Text \ {Blank})
    BY <2>1
  <2>3. [ed[t][s] EXCEPT !.sent = Tail(@), !.made = Head(ed[t][s].sent)] \in Editor
    BY <2>1, <2>2 DEF Editor
  <2>4. ed' = [ed EXCEPT ![t][s] = [ed[t][s] EXCEPT !.sent = Tail(@), !.made = Head(ed[t][s].sent)]]
    BY <1>8 DEF Create, DraftTypeOK
  <2>5. ed' \in [Tabs -> [Slots -> Editor]]
    BY <2>3, <2>4, <1>b
  <2>6. memos' \in Seq(Text \ {Blank})
    BY <1>8, <2>2, RangeOfAppend DEF Create, DraftTypeOK
  <2> QED
    BY <1>8, <2>5, <2>6 DEF Create, DraftTypeOK, setting
<1>9. ASSUME NEW t \in Tabs, NEW s \in Slots, Answered(t, s) PROVE DraftTypeOK'
  <2>1. ed[t][s] \in Editor /\ ed[t][s].made \in Text \ {Blank}
    BY <1>9 DEF DraftTypeOK, Answered, Editor
  <2>3. [ed[t][s] EXCEPT !.pc = "settling", !.made = None, !.discarded = ed[t][s].latest] \in Editor
    BY <2>1 DEF Editor
  <2>4. ed' = [ed EXCEPT ![t][s] = [ed[t][s] EXCEPT !.pc = "settling", !.made = None, !.discarded = ed[t][s].latest]]
    BY <1>9 DEF Answered, DraftTypeOK
  <2>5. ed' \in [Tabs -> [Slots -> Editor]]
    BY <2>3, <2>4, <1>b
  <2>6. stored' \in Text /\ timer' \in [Tabs -> Text \cup {None}]
    BY <1>9, <1>a DEF Answered, Clear, DraftTypeOK
  <2> QED
    BY <1>9, <2>1, <2>5, <2>6 DEF Answered, DraftTypeOK, setting
<1>10. ASSUME NEW t \in Tabs, NEW s \in Slots, Failed(t, s) PROVE DraftTypeOK'
  <2>1. ed[t][s] \in Editor /\ <<>> \in Seq(Text \ {Blank})
    BY DEF DraftTypeOK
  <2>2. [ed[t][s] EXCEPT !.pc = "idle", !.sent = <<>>, !.made = None] \in Editor
    BY <2>1 DEF Editor
  <2>3. Ended([ed[t][s] EXCEPT !.pc = "idle", !.sent = <<>>, !.made = None]) \in Editor
    BY <2>2, NewEditorFormed DEF Ended
  <2>4. ed' \in [Tabs -> [Slots -> Editor]]
    BY <1>10, <2>3, <1>b DEF Failed, DraftTypeOK
  <2> QED
    BY <1>10, <2>4 DEF Failed, DraftTypeOK, setting
<1>11. ASSUME NEW t \in Tabs, NEW s \in Slots, Finish(t, s) PROVE DraftTypeOK'
  <2>1. ed[t][s] \in Editor
    BY DEF DraftTypeOK
  <2>2. [ed[t][s] EXCEPT !.pc = "idle"] \in Editor
    BY <2>1 DEF Editor
  <2>3. Persisted([ed[t][s] EXCEPT !.pc = "idle"], Blank) \in Editor
    BY <2>2, <1>e, <1>a
  <2>4. PICK e \in Editor : ed' = [ed EXCEPT ![t][s] = e]
    BY <1>11, <2>3, NewEditorFormed DEF Finish
  <2>5. stored' \in Text /\ timer' \in [Tabs -> Text \cup {None}]
    BY <1>11, <1>a, <1>c DEF Finish, DraftTypeOK
  <2> QED
    BY <1>11, <2>4, <2>5, <1>b DEF Finish, DraftTypeOK, setting
<1> QED
  BY <1>0, <1>1, <1>2, <1>3, <1>4, <1>5, <1>6, <1>7, <1>8, <1>9, <1>10, <1>11 DEF DraftNext

\* What the steps of the lone editor are proved from.
Before(t, s) == DraftTypeOK /\ OneEditor /\ TextsOld /\ Lone(t, s)

\* The numbers of the texts, for the provers.
LEMMA TextFacts ==
    ASSUME DraftTypeOK, NEW t \in Tabs, NEW s \in Slots
    PROVE  /\ MaxText \in Nat /\ None \notin Text /\ None \in Nat /\ Blank \in Text /\ Blank \notin 1 .. typed
           /\ stored \in Text /\ timer[t] \in Text \cup {None} /\ typed \in Text /\ typed \in Nat
           /\ ed[t][s] \in Editor /\ ed[t][s].text \in Text /\ ed[t][s].latest \in Text
           /\ ed[t][s].pc \in {"idle", "saving", "settling"}
           /\ ed[t][s].is \in {"none", "mounted", "gone"}
           /\ ed[t][s].made \in (Text \ {Blank}) \cup {None}
           /\ memos \in Seq(Text \ {Blank})
  BY DraftAssumption, NewEditorFormed DEF DraftTypeOK, Editor, Text, Blank

LEMMA TimerStep ==
    ASSUME NEW t \in Tabs, NEW s \in Slots, Before(t, s), TimerFires(t)
    PROVE  TextsOld' /\ Lone(t, s)'
<1>0. \A v \in Tabs : v = t
  BY DEF Before, OneEditor
<1>1. /\ DraftTypeOK /\ TextsOld /\ Lone(t, s)
      /\ timer[t] # None /\ timer' = [timer EXCEPT ![t] = None] /\ stored' = timer[t]
      /\ UNCHANGED <<hosted, events, ed, memos, acked, kept, typed>>
  BY DEF Before, TimerFires, SaveNow, setting
<1>2. timer'[t] = None
  BY <1>1 DEF DraftTypeOK
<1>3. None \notin acked
  BY <1>1, TextFacts, NewEditorFormed DEF DraftTypeOK
<1>4. TextsOld'
  BY <1>0, <1>1, <1>2 DEF TextsOld
<1>5. EditorFormed(ed[t][s])'
  BY <1>1 DEF Lone, EditorFormed
<1>6. ed[t][s].is = "mounted" /\ ed[t][s].pc # "settling"
  BY <1>1 DEF Lone
<1> QED
  BY <1>1, <1>2, <1>3, <1>4, <1>5, <1>6 DEF Lone

LEMMA KillStep ==
    ASSUME NEW t \in Tabs, NEW s \in Slots, Before(t, s), Kill(t)
    PROVE  TextsOld' /\ Lone(t, s)'
<1>0. \A v \in Tabs : v = t
  BY DEF Before, OneEditor
<1>1. /\ DraftTypeOK /\ TextsOld /\ Lone(t, s)
      /\ ed' = [ed EXCEPT ![t] = [u \in Slots |-> NoEditor]]
      /\ timer' = [timer EXCEPT ![t] = None]
      /\ kept' = kept \ ({ed[t][u].text : u \in Mounted(t)} \ {stored})
      /\ UNCHANGED <<hosted, events, stored, memos, acked, typed>>
  BY DEF Before, Kill, setting
<1>2. timer'[t] = None /\ \A u \in Slots : ed'[t][u] = NoEditor
  BY <1>1 DEF DraftTypeOK
<1>3. None \notin acked /\ Blank \notin acked /\ Blank <= typed
  BY <1>1, TextFacts, NewEditorFormed DEF DraftTypeOK, TextsOld, Text, Blank
<1>4. TextsOld'
  BY <1>0, <1>1, <1>2 DEF TextsOld
<1>5. EditorFormed(ed[t][s])'
  BY <1>1, <1>2, <1>3, NewEditorFormed DEF EditorFormed
<1>6. kept' \subseteq {stored} \cup Range(memos)
  <2>1. CASE ed[t][s].is = "mounted"
    <3>1. s \in Mounted(t)
      BY <2>1 DEF Mounted
    <3> QED
      BY <1>1, <2>1, <3>1 DEF Lone
  <2>2. CASE ed[t][s].is # "mounted"
    BY <1>1, <2>2 DEF Lone
  <2> QED
    BY <2>1, <2>2
<1> QED
  BY <1>1, <1>2, <1>3, <1>4, <1>5, <1>6, NewEditorFormed DEF Lone

LEMMA MountStep ==
    ASSUME NEW t \in Tabs, NEW s \in Slots, Before(t, s), Mount(t, s)
    PROVE  TextsOld' /\ Lone(t, s)'
<1>0. \A v \in Tabs : v = t
  BY DEF Before, OneEditor
<1> DEFINE e == [NoEditor EXCEPT !.is = "mounted", !.text = stored, !.latest = stored]
<1>1. /\ DraftTypeOK /\ TextsOld /\ Lone(t, s)
      /\ ed[t][s].is = "none"
      /\ ed' = [ed EXCEPT ![t][s] = e]
      /\ timer' = [timer EXCEPT ![t] = stored] /\ stored' = stored
      /\ UNCHANGED <<hosted, events, memos, acked, kept, typed>>
  BY DEF Before, Mount, SaveLater, setting
<1>2. timer'[t] = stored
  BY <1>1 DEF DraftTypeOK
<1>3. ed'[t][s] = e /\ \A u \in Slots : u # s => ed'[t][u] = ed[t][u]
  BY <1>1 DEF DraftTypeOK
<1>4. /\ e.is = "mounted" /\ e.text = stored /\ e.latest = stored
      /\ e.pc = "idle" /\ e.sent = <<>> /\ e.made = None /\ e.discarded = None
  BY NewEditorFormed DEF NoEditor
<1> HIDE DEF e
<1>5. TextsOld'
  BY <1>0, <1>1, <1>2 DEF TextsOld
<1>6. EditorFormed(ed[t][s])'
  BY <1>1, <1>3, <1>4, <1>5 DEF EditorFormed, TextsOld
<1> QED
  BY <1>1, <1>2, <1>3, <1>4, <1>5, <1>6 DEF Lone

LEMMA TypeStep ==
    ASSUME NEW t \in Tabs, NEW s \in Slots, Before(t, s), Type(t, s)
    PROVE  TextsOld' /\ Lone(t, s)'
<1>0. (\A v \in Tabs : v = t) /\ "typeahead" \notin events
  BY DEF Before, OneEditor
<1>1. DraftTypeOK /\ TextsOld /\ Lone(t, s) /\ ed[t][s].is = "mounted" /\ ed[t][s].pc = "idle"
  BY <1>0 DEF Before, Type, Mounted
<1>2. UNCHANGED <<hosted, events, memos, acked>>
  BY DEF Type, setting
<1>3. PICK text \in {Blank} \cup ({typed + 1} \cap Text) :
        /\ ed' = [ed EXCEPT ![t][s] = Persisted(ed[t][s], text)]
        /\ timer' = [timer EXCEPT ![t] = text] /\ stored' = stored
        /\ kept' = (kept \ {ed[t][s].text}) \cup ({text} \ {Blank})
        /\ typed' = IF text = Blank THEN typed ELSE text
  BY DEF Type, SaveLater
<1> DEFINE e == Persisted(ed[t][s], text)
<1>4. ed'[t][s] = e /\ \A u \in Slots : u # s => ed'[t][u] = ed[t][u]
  BY <1>1, <1>3 DEF DraftTypeOK
<1>5. /\ ed[t][s].discarded = None /\ ed[t][s].sent = <<>> /\ ed[t][s].made = None
      /\ ed[t][s] \in Editor
  BY <1>1, TextFacts DEF Lone, EditorFormed
<1>6. /\ e.is = "mounted" /\ e.text = text /\ e.latest = text
      /\ e.pc = "idle" /\ e.sent = <<>> /\ e.made = None /\ e.discarded = None
  BY <1>1, <1>5 DEF Persisted, Editor
<1> HIDE DEF e
<1>7. timer'[t] = text
  BY <1>1, <1>3 DEF DraftTypeOK
<1>8. typed \in Nat /\ Blank <= typed /\ text \in Nat /\ typed <= typed' /\ text <= typed' /\ typed' \in Nat
      /\ (text = Blank \/ text = typed + 1)
  BY <1>1, <1>3, TextFacts DEF Text, Blank
<1>9. text \notin acked
  BY <1>1, <1>8 DEF TextsOld, Blank
<1>10. TextsOld'
  <2>1. stored' <= typed'
    BY <1>1, <1>3, <1>8, TextFacts DEF TextsOld, Text
  <2>2. acked' \subseteq 1 .. typed' /\ Range(memos)' \subseteq 1 .. typed'
    BY <1>1, <1>2, <1>8 DEF TextsOld
  <2> QED
    BY <1>0, <1>7, <1>8, <2>1, <2>2 DEF TextsOld
<1>11. EditorFormed(ed[t][s])'
  BY <1>4, <1>6, <1>8 DEF EditorFormed
<1>12. kept' \subseteq {text} \cup Range(memos)
  BY <1>1, <1>3 DEF Lone
<1> QED
  BY <1>1, <1>2, <1>3, <1>4, <1>6, <1>7, <1>9, <1>10, <1>11, <1>12 DEF Lone

\* What is flushed is the text, unless it is discarded.
LEMMA Flushed ==
    ASSUME NEW t \in Tabs, NEW s \in Slots, Before(t, s), Flush(t, ed[t][s])
    PROVE  \/ ed[t][s].pc = "settling" /\ UNCHANGED <<stored, timer>>
           \/ ed[t][s].pc # "settling" /\ stored' = ed[t][s].text /\ timer'[t] = None
<1>1. EditorFormed(ed[t][s]) /\ ed[t][s].text # None
  BY TextFacts DEF Before, Lone
<1>2. timer[t] \in Text \cup {None} /\ timer \in [Tabs -> Text \cup {None}]
  BY DEF Before, DraftTypeOK
<1> QED
  BY <1>1, <1>2 DEF Flush, SaveNow, EditorFormed

LEMMA HideStep ==
    ASSUME NEW t \in Tabs, NEW s \in Slots, Before(t, s), Hide(t, s)
    PROVE  TextsOld' /\ Lone(t, s)'
<1>0. \A v \in Tabs : v = t
  BY DEF Before, OneEditor
<1>1. /\ DraftTypeOK /\ TextsOld /\ Lone(t, s) /\ ed[t][s].is = "mounted"
      /\ UNCHANGED <<hosted, events, ed, memos, acked, kept, typed>>
      /\ EditorFormed(ed[t][s])
  BY DEF Before, Hide, Mounted, setting, Lone
<1>2. \/ ed[t][s].pc = "settling" /\ UNCHANGED <<stored, timer>>
      \/ ed[t][s].pc # "settling" /\ stored' = ed[t][s].text /\ timer'[t] = None
  BY Flushed DEF Hide
<1>3. None \notin acked
  BY <1>1, TextFacts, NewEditorFormed DEF DraftTypeOK
<1>4. TextsOld'
  BY <1>0, <1>1, <1>2 DEF TextsOld, EditorFormed
<1>5. EditorFormed(ed[t][s])'
  BY <1>1 DEF EditorFormed
<1> QED
  BY <1>1, <1>2, <1>3, <1>4, <1>5 DEF Lone

LEMMA UnmountStep ==
    ASSUME NEW t \in Tabs, NEW s \in Slots, Before(t, s), Unmount(t, s)
    PROVE  TextsOld' /\ Lone(t, s)'
<1>0. \A v \in Tabs : v = t
  BY DEF Before, OneEditor
<1>1. /\ DraftTypeOK /\ TextsOld /\ Lone(t, s) /\ ed[t][s].is = "mounted"
      /\ hosted => ed[t][s].pc = "idle"
      /\ ed' = [ed EXCEPT ![t][s] = Unmounted(ed[t][s])]
      /\ UNCHANGED <<hosted, events, memos, acked, kept, typed>>
      /\ EditorFormed(ed[t][s])
  BY DEF Before, Unmount, Mounted, setting, Lone
<1>2. \/ ed[t][s].pc = "settling" /\ UNCHANGED <<stored, timer>>
      \/ ed[t][s].pc # "settling" /\ stored' = ed[t][s].text /\ timer'[t] = None
  BY Flushed DEF Unmount
<1>3. None \notin acked /\ Blank \notin acked /\ Blank <= typed
  BY <1>1, TextFacts, NewEditorFormed DEF DraftTypeOK, TextsOld, Text, Blank
<1>4. TextsOld'
  BY <1>0, <1>1, <1>2 DEF TextsOld, EditorFormed
<1>5. ed'[t][s] = Unmounted(ed[t][s]) /\ \A u \in Slots : u # s => ed'[t][u] = ed[t][u]
  BY <1>1 DEF DraftTypeOK
<1>6. timer'[t] = None /\ kept' \subseteq {stored'} \cup Range(memos)
  BY <1>1, <1>2 DEF Lone, EditorFormed
<1>7. stored' \notin acked
  BY <1>1, <1>2 DEF Lone
<1>8. CASE ed[t][s].pc = "idle"
  <2>1. ed'[t][s] = NoEditor
    BY <1>5, <1>8 DEF Unmounted
  <2>2. EditorFormed(ed[t][s])'
    BY <1>1, <1>3, <2>1, NewEditorFormed DEF EditorFormed
  <2> QED
    BY <1>1, <1>3, <1>4, <1>5, <1>6, <1>7, <2>1, <2>2, NewEditorFormed DEF Lone
<1>9. CASE ed[t][s].pc # "idle"
  <2>1. ed'[t][s] = [ed[t][s] EXCEPT !.is = "gone"] /\ ed[t][s] \in Editor
    BY <1>1, <1>5, <1>9, TextFacts DEF Unmounted
  <2>2. /\ ed'[t][s].is = "gone" /\ ed'[t][s].pc = ed[t][s].pc /\ ed'[t][s].text = ed[t][s].text
        /\ ed'[t][s].latest = ed[t][s].latest /\ ed'[t][s].discarded = ed[t][s].discarded
        /\ ed'[t][s].sent = ed[t][s].sent /\ ed'[t][s].made = ed[t][s].made
    BY <2>1 DEF Editor
  <2>3. EditorFormed(ed[t][s])'
    BY <1>1, <1>9, <2>2 DEF EditorFormed
  <2> QED
    BY <1>1, <1>2, <1>3, <1>4, <1>5, <1>6, <1>7, <2>2, <2>3 DEF Lone
<1> QED
  BY <1>8, <1>9

LEMMA SaveStep ==
    ASSUME NEW t \in Tabs, NEW s \in Slots, Before(t, s), Save(t, s)
    PROVE  TextsOld' /\ Lone(t, s)'
<1> DEFINE e == [ed[t][s] EXCEPT !.pc = "saving", !.sent = Append(@, ed[t][s].text)]
<1>1. /\ DraftTypeOK /\ TextsOld /\ Lone(t, s)
      /\ ed[t][s].is = "mounted" /\ ed[t][s].text # Blank /\ ed[t][s].pc = "idle"
      /\ ed' = [ed EXCEPT ![t][s] = e]
      /\ UNCHANGED <<hosted, events, stored, timer, memos, acked, kept, typed>>
      /\ EditorFormed(ed[t][s])
  BY DEF Before, Save, CanSave, Mounted, setting, Lone, DraftTypeOK
<1>2. TextsOld'
  BY <1>1 DEF TextsOld
<1>3. /\ ed'[t][s] = e
      /\ \A u \in Slots : u # s => ed'[t][u] = ed[t][u]
      /\ ed[t][s] \in Editor
  <2> HIDE DEF e
  <2> QED
    BY <1>1, TextFacts DEF DraftTypeOK
<1>4. ed[t][s].sent = <<>>
  BY <1>1 DEF EditorFormed
<1>5. /\ ed'[t][s].is = ed[t][s].is /\ ed'[t][s].pc = "saving" /\ ed'[t][s].text = ed[t][s].text
      /\ ed'[t][s].latest = ed[t][s].latest /\ ed'[t][s].discarded = ed[t][s].discarded
      /\ ed'[t][s].sent = <<ed[t][s].text>> /\ ed'[t][s].made = ed[t][s].made
  BY <1>3, <1>4 DEF Editor
<1>6. EditorFormed(ed[t][s])'
  BY <1>1, <1>5 DEF EditorFormed
<1> QED
  BY <1>1, <1>2, <1>3, <1>5, <1>6 DEF Lone

\* What the server creates is the text of the editor.
LEMMA Created ==
    ASSUME NEW t \in Tabs, NEW s \in Slots, Before(t, s), Create(t, s)
    PROVE  /\ ed[t][s].pc = "saving" /\ ed[t][s].sent = <<ed[t][s].text>> /\ ed[t][s].made = None
           /\ ed[t][s].text \in Text \ {Blank}
           /\ memos' = Append(memos, ed[t][s].text) /\ Range(memos') = Range(memos) \cup {ed[t][s].text}
           /\ ed'[t][s] = [ed[t][s] EXCEPT !.sent = <<>>, !.made = ed[t][s].text]
           /\ \A u \in Slots : u # s => ed'[t][u] = ed[t][u]
<1>1. /\ DraftTypeOK /\ EditorFormed(ed[t][s]) /\ ed[t][s].sent # <<>>
      /\ ed' = [ed EXCEPT ![t][s] = [ed[t][s] EXCEPT !.sent = Tail(@), !.made = Head(ed[t][s].sent)]]
      /\ memos' = Append(memos, Head(ed[t][s].sent))
  BY DEF Before, Create, Lone, DraftTypeOK
<1>0. ed \in [Tabs -> [Slots -> Editor]]
  BY <1>1 DEF DraftTypeOK
<1>2. ed[t][s].pc = "saving" /\ ed[t][s].sent = <<ed[t][s].text>> /\ ed[t][s].made = None
  BY <1>1 DEF EditorFormed
<1>3. ed[t][s].text \in Text \ {Blank} /\ ed[t][s] \in Editor /\ memos \in Seq(Text \ {Blank})
  BY <1>1, <1>2, TextFacts DEF EditorFormed
<1>4. Head(ed[t][s].sent) = ed[t][s].text /\ Tail(ed[t][s].sent) = <<>>
  BY <1>2, <1>3
<1>5. memos' = Append(memos, ed[t][s].text) /\ Range(memos') = Range(memos) \cup {ed[t][s].text}
  BY <1>1, <1>3, <1>4, RangeOfAppend
<1> DEFINE e == [ed[t][s] EXCEPT !.sent = <<>>, !.made = ed[t][s].text]
<1>6. ed' = [ed EXCEPT ![t][s] = e]
  BY <1>1, <1>3, <1>4 DEF Editor
<1>7. ed'[t][s] = e /\ \A u \in Slots : u # s => ed'[t][u] = ed[t][u]
  <2> HIDE DEF e
  <2> QED
    BY <1>0, <1>6
<1> QED
  BY <1>2, <1>3, <1>5, <1>7

LEMMA CreateStep ==
    ASSUME NEW t \in Tabs, NEW s \in Slots, Before(t, s), Create(t, s)
    PROVE  TextsOld' /\ Lone(t, s)'
<1>1. /\ DraftTypeOK /\ TextsOld /\ Lone(t, s) /\ EditorFormed(ed[t][s])
      /\ UNCHANGED <<hosted, events, stored, timer, acked, kept, typed>>
      /\ ed[t][s] \in Editor
  BY TextFacts DEF Before, Create, setting, Lone
<1>2. /\ ed[t][s].pc = "saving"
      /\ ed[t][s].text \in Text \ {Blank}
      /\ Range(memos') = Range(memos) \cup {ed[t][s].text}
      /\ ed'[t][s] = [ed[t][s] EXCEPT !.sent = <<>>, !.made = ed[t][s].text]
      /\ \A u \in Slots : u # s => ed'[t][u] = ed[t][u]
  BY Created
<1>3. /\ ed'[t][s].is = ed[t][s].is /\ ed'[t][s].pc = "saving" /\ ed'[t][s].text = ed[t][s].text
      /\ ed'[t][s].latest = ed[t][s].latest /\ ed'[t][s].discarded = ed[t][s].discarded
      /\ ed'[t][s].sent = <<>> /\ ed'[t][s].made = ed[t][s].text
  BY <1>1, <1>2 DEF Editor
<1>4. ed[t][s].text \in 1 .. typed
  BY <1>1, <1>2, TextFacts DEF EditorFormed, Text, Blank
<1>5. TextsOld'
  BY <1>1, <1>2, <1>4 DEF TextsOld
<1>6. EditorFormed(ed[t][s])'
  BY <1>1, <1>2, <1>3, NewEditorFormed DEF EditorFormed
<1> QED
  BY <1>1, <1>2, <1>3, <1>5, <1>6 DEF Lone

LEMMA AnsweredStep ==
    ASSUME NEW t \in Tabs, NEW s \in Slots, Before(t, s), Answered(t, s)
    PROVE  TextsOld' /\ Lone(t, s)'
<1>0. \A v \in Tabs : v = t
  BY DEF Before, OneEditor
<1> DEFINE e == [ed[t][s] EXCEPT !.pc = "settling", !.made = None, !.discarded = ed[t][s].latest]
<1>1. /\ DraftTypeOK /\ TextsOld /\ Lone(t, s) /\ EditorFormed(ed[t][s])
      /\ UNCHANGED <<hosted, events, memos, kept, typed>>
      /\ ed[t][s].pc = "saving" /\ ed[t][s].made # None
      /\ ed' = [ed EXCEPT ![t][s] = e]
      /\ acked' = acked \cup {ed[t][s].made}
      /\ timer' = [timer EXCEPT ![t] = None] /\ stored' = Blank
  BY DEF Before, Answered, Clear, setting, Lone, DraftTypeOK
<1>2. /\ ed[t][s].made = ed[t][s].text /\ ed[t][s].sent = <<>> /\ ed[t][s].latest = ed[t][s].text
      /\ ed[t][s].text # Blank /\ ed[t][s].text \in Range(memos)
  BY <1>1 DEF EditorFormed
<1>3. /\ ed'[t][s] = e
      /\ \A u \in Slots : u # s => ed'[t][u] = ed[t][u]
      /\ ed[t][s] \in Editor
  <2> HIDE DEF e
  <2> QED
    BY <1>1, TextFacts DEF DraftTypeOK
<1>4. /\ ed'[t][s].is = ed[t][s].is /\ ed'[t][s].pc = "settling" /\ ed'[t][s].text = ed[t][s].text
      /\ ed'[t][s].latest = ed[t][s].text /\ ed'[t][s].discarded = ed[t][s].text
      /\ ed'[t][s].sent = <<>> /\ ed'[t][s].made = None
  BY <1>2, <1>3 DEF Editor
<1>5. timer'[t] = None
  BY <1>1 DEF DraftTypeOK
<1>6. acked' \subseteq 1 .. typed
  BY <1>1, <1>2 DEF TextsOld
<1>7. None \notin acked' /\ Blank \notin acked' /\ Blank <= typed
  BY <1>1, <1>6, TextFacts, NewEditorFormed DEF Text, Blank
<1>8. TextsOld'
  BY <1>0, <1>1, <1>5, <1>6, <1>7 DEF TextsOld
<1>9. EditorFormed(ed[t][s])'
  BY <1>1, <1>2, <1>4, NewEditorFormed DEF EditorFormed
<1>10. kept' \subseteq Range(memos)
  BY <1>1, <1>2, NewEditorFormed DEF Lone, EditorFormed
<1> QED
  BY <1>1, <1>2, <1>3, <1>4, <1>5, <1>7, <1>8, <1>9, <1>10 DEF Lone

LEMMA FailedStep ==
    ASSUME NEW t \in Tabs, NEW s \in Slots, Before(t, s), Failed(t, s)
    PROVE  TextsOld' /\ Lone(t, s)'
<1> DEFINE back == [ed[t][s] EXCEPT !.pc = "idle", !.sent = <<>>, !.made = None]
           e == Ended(back)
<1>1. /\ DraftTypeOK /\ TextsOld /\ Lone(t, s) /\ EditorFormed(ed[t][s])
      /\ UNCHANGED <<hosted, events, stored, timer, memos, acked, kept, typed>>
      /\ ed[t][s].pc = "saving"
      /\ ed' = [ed EXCEPT ![t][s] = e]
  BY DEF Before, Failed, setting, Lone, DraftTypeOK
<1>2. /\ ed'[t][s] = e
      /\ \A u \in Slots : u # s => ed'[t][u] = ed[t][u]
      /\ ed[t][s] \in Editor
  <2> HIDE DEF e
  <2> QED
    BY <1>1, TextFacts DEF DraftTypeOK
<1>3. /\ back.is = ed[t][s].is /\ back.text = ed[t][s].text /\ back.latest = ed[t][s].latest
      /\ back.discarded = ed[t][s].discarded
      /\ back.pc = "idle" /\ back.sent = <<>> /\ back.made = None
  BY <1>2 DEF Editor
<1>4. ed'[t][s] = IF ed[t][s].is = "gone" THEN NoEditor ELSE back
  BY <1>2, <1>3 DEF Ended
<1> HIDE DEF back, e
<1>5. None \notin acked /\ Blank \notin acked /\ Blank <= typed
  BY <1>1, TextFacts, NewEditorFormed DEF DraftTypeOK, TextsOld, Text, Blank
<1>6. TextsOld'
  BY <1>1 DEF TextsOld
<1>7. CASE ed[t][s].is = "gone"
  <2>1. ed'[t][s] = NoEditor
    BY <1>4, <1>7
  <2>2. EditorFormed(ed[t][s])'
    BY <1>1, <1>5, <2>1, NewEditorFormed DEF EditorFormed
  <2> QED
    BY <1>1, <1>2, <1>5, <1>6, <1>7, <2>1, <2>2, NewEditorFormed DEF Lone
<1>8. CASE ed[t][s].is # "gone"
  <2>1. ed'[t][s] = back
    BY <1>4, <1>8
  <2>2. EditorFormed(ed[t][s])'
    BY <1>1, <1>3, <1>8, <2>1, NewEditorFormed DEF EditorFormed
  <2> QED
    BY <1>1, <1>2, <1>3, <1>6, <2>1, <2>2 DEF Lone
<1> QED
  BY <1>7, <1>8

LEMMA FinishStep ==
    ASSUME NEW t \in Tabs, NEW s \in Slots, Before(t, s), Finish(t, s)
    PROVE  TextsOld' /\ Lone(t, s)'
<1>0. \A v \in Tabs : v = t
  BY DEF Before, OneEditor
<1>1. /\ DraftTypeOK /\ TextsOld /\ Lone(t, s) /\ EditorFormed(ed[t][s])
      /\ UNCHANGED <<hosted, events, memos, acked, kept, typed>>
      /\ ed[t][s].pc = "settling" /\ ed[t][s] \in Editor
      /\ stored = Blank /\ timer[t] = None
  BY TextFacts DEF Before, Finish, setting, Lone
<1>2. /\ ed[t][s].text # Blank /\ ed[t][s].latest = ed[t][s].text /\ ed[t][s].discarded = ed[t][s].text
      /\ ed[t][s].sent = <<>> /\ ed[t][s].made = None /\ ed[t][s].text \in Range(memos)
      /\ ed[t][s].is # "none" /\ ed[t][s].text # None
  BY <1>1, NewEditorFormed, TextFacts DEF EditorFormed
<1>3. None \notin acked /\ Blank \notin acked /\ Blank <= typed
  BY <1>1, TextFacts, NewEditorFormed DEF DraftTypeOK, TextsOld, Text, Blank
<1>4. kept \subseteq Range(memos)
  BY <1>1, <1>2 DEF Lone
<1> DEFINE idle == [ed[t][s] EXCEPT !.pc = "idle"]
           e == Persisted(idle, Blank)
<1>5. idle.is = ed[t][s].is
  BY <1>1 DEF Editor
<1>6. \/ /\ ed' = [ed EXCEPT ![t][s] = NoEditor]
         /\ stored' = Blank /\ timer'[t] = None
      \/ /\ ed' = [ed EXCEPT ![t][s] = e]
         /\ stored' = Blank /\ timer'[t] = Blank /\ ed[t][s].is = "mounted"
  <2>1. CASE idle.is = "gone"
    BY <1>1, <2>1 DEF Finish
  <2>2. CASE idle.is = "mounted" /\ hosted
    BY <1>1, <2>2 DEF Finish, SaveNow, DraftTypeOK
  <2>3. CASE idle.is # "gone" /\ ~(idle.is = "mounted" /\ hosted)
    <3>1. ed' = [ed EXCEPT ![t][s] = e] /\ SaveLater(t, Blank)
      BY <2>3 DEF Finish
    <3>2. ed[t][s].is = "mounted"
      BY <1>1, <1>2, <1>5, <2>3, TextFacts
    <3> QED
      BY <1>1, <3>1, <3>2 DEF SaveLater, DraftTypeOK
  <2> QED
    BY <2>1, <2>2, <2>3
<1>7. TextsOld'
  BY <1>0, <1>1, <1>3, <1>6 DEF TextsOld
<1>8. CASE ed' = [ed EXCEPT ![t][s] = NoEditor] /\ stored' = Blank /\ timer'[t] = None
  <2>1. ed'[t][s] = NoEditor /\ \A u \in Slots : u # s => ed'[t][u] = ed[t][u]
    BY <1>1, <1>8 DEF DraftTypeOK
  <2>2. EditorFormed(ed[t][s])'
    BY <1>1, <1>3, <2>1, NewEditorFormed DEF EditorFormed
  <2> QED
    BY <1>1, <1>3, <1>4, <1>7, <1>8, <2>1, <2>2, NewEditorFormed DEF Lone
<1>9. CASE ed' = [ed EXCEPT ![t][s] = e] /\ stored' = Blank /\ timer'[t] = Blank /\ ed[t][s].is = "mounted"
  <2>1. /\ e.is = "mounted" /\ e.text = Blank /\ e.latest = Blank /\ e.discarded = None
        /\ e.pc = "idle" /\ e.sent = <<>> /\ e.made = None
    BY <1>1, <1>2, <1>9 DEF Persisted, Editor
  <2> HIDE DEF e
  <2>2. ed'[t][s] = e /\ \A u \in Slots : u # s => ed'[t][u] = ed[t][u]
    BY <1>1, <1>9 DEF DraftTypeOK
  <2>3. EditorFormed(ed[t][s])'
    BY <1>1, <1>3, <2>1, <2>2 DEF EditorFormed
  <2> QED
    BY <1>1, <1>3, <1>4, <1>7, <1>9, <2>1, <2>2, <2>3 DEF Lone
<1> QED
  BY <1>6, <1>8, <1>9

\* A sequence without repetition stays so with an element that it has not.
LEMMA InjectiveAppend ==
    ASSUME NEW S, NEW q \in Seq(S), NEW x \in S, IsInjective(q), x \notin Range(q)
    PROVE  IsInjective(Append(q, x))
<1>1. /\ Len(q) \in Nat /\ DOMAIN q = 1 .. Len(q) /\ DOMAIN Append(q, x) = 1 .. Len(q) + 1
      /\ Append(q, x)[Len(q) + 1] = x
  OBVIOUS
<1>2. \A i \in 1 .. Len(q) : Append(q, x)[i] = q[i] /\ q[i] # x
  BY <1>1 DEF Range
<1>3. ASSUME NEW i \in 1 .. Len(q) + 1, NEW k \in 1 .. Len(q) + 1, Append(q, x)[i] = Append(q, x)[k] PROVE i = k
  <2>1. CASE i \in 1 .. Len(q) /\ k \in 1 .. Len(q)
    BY <1>1, <1>2, <1>3, <2>1 DEF IsInjective
  <2>2. CASE i = Len(q) + 1 \/ k = Len(q) + 1
    BY <1>1, <1>2, <1>3, <2>2
  <2> QED
    BY <1>1, <2>1, <2>2
<1> QED
  BY <1>1, <1>3 DEF IsInjective

\* What is still to be saved stays out of the memos.
LEMMA UnsavedStep ==
    ASSUME NEW t \in Tabs, NEW s \in Slots, Before(t, s), LoneUnsaved(t, s), events \subseteq {"failure"},
           \/ TimerFires(t) \/ Mount(t, s) \/ Type(t, s) \/ Hide(t, s) \/ Unmount(t, s)
           \/ Save(t, s) \/ Create(t, s) \/ Answered(t, s) \/ Failed(t, s) \/ Finish(t, s)
    PROVE  LoneUnsaved(t, s)'
<1>1. /\ DraftTypeOK /\ TextsOld /\ EditorFormed(ed[t][s]) /\ ed[t][s] \in Editor
      /\ ed \in [Tabs -> [Slots -> Editor]] /\ timer \in [Tabs -> Text \cup {None}]
  BY TextFacts DEF Before, Lone, DraftTypeOK
<1>2. Blank \notin Range(memos) /\ None \notin Range(memos) /\ \A x \in Range(memos) : x <= typed
  <2>1. Range(memos) \subseteq 1 .. typed /\ typed \in Nat /\ typed \in Text
    BY <1>1, TextFacts DEF TextsOld
  <2>2. typed <= MaxText /\ MaxText \in Nat
    BY <2>1, DraftAssumption DEF Text
  <2> QED
    BY <2>1, <2>2 DEF Text, Blank, None
<1>3. CASE TimerFires(t)
  <2>1. stored' = timer[t] /\ timer'[t] = None /\ UNCHANGED <<ed, memos>>
    BY <1>1, <1>3 DEF TimerFires, SaveNow
  <2> QED
    BY <1>2, <2>1 DEF LoneUnsaved
<1>4. CASE Mount(t, s)
  <2>1. stored' = stored /\ timer'[t] = stored /\ memos' = memos
    BY <1>1, <1>4 DEF Mount, SaveLater
  <2>2. ed'[t][s] = [NoEditor EXCEPT !.is = "mounted", !.text = stored, !.latest = stored]
    BY <1>1, <1>4 DEF Mount
  <2>3. ed'[t][s].text = stored
    BY <2>2 DEF NoEditor
  <2>4. ed[t][s].made = None
    BY <1>1, <1>4, NewEditorFormed DEF Mount, EditorFormed
  <2> QED
    BY <2>1, <2>3, <2>4 DEF LoneUnsaved
<1>5. CASE Type(t, s)
  <2>1. PICK text \in {Blank} \cup ({typed + 1} \cap Text) :
          ed' = [ed EXCEPT ![t][s] = Persisted(ed[t][s], text)] /\ SaveLater(t, text)
    BY <1>5 DEF Type
  <2>2. ed'[t][s] = Persisted(ed[t][s], text) /\ timer'[t] = text /\ stored' = stored
    BY <1>1, <2>1 DEF SaveLater
  <2>3. ed'[t][s].text = text
    BY <1>1, <2>2 DEF Persisted, Editor
  <2>4. text \notin Range(memos)
    BY <1>1, <1>2, TextFacts
  <2>5. ed[t][s].made = None /\ memos' = memos
    BY <1>1, <1>5 DEF Type, EditorFormed, Before, OneEditor
  <2> QED
    BY <2>2, <2>3, <2>4, <2>5 DEF LoneUnsaved
<1>6. CASE Hide(t, s)
  <2>1. UNCHANGED <<ed, memos>>
    BY <1>6 DEF Hide
  <2>2. \/ ed[t][s].pc = "settling" /\ UNCHANGED <<stored, timer>>
        \/ ed[t][s].pc # "settling" /\ stored' = ed[t][s].text /\ timer'[t] = None
    BY <1>6, Flushed DEF Hide
  <2> QED
    BY <1>2, <2>1, <2>2 DEF LoneUnsaved
<1>7. CASE Unmount(t, s)
  <2>1. ed'[t][s] = Unmounted(ed[t][s]) /\ memos' = memos
    BY <1>1, <1>7 DEF Unmount
  <2>2. \/ ed[t][s].pc = "settling" /\ UNCHANGED <<stored, timer>>
        \/ ed[t][s].pc # "settling" /\ stored' = ed[t][s].text /\ timer'[t] = None
    BY <1>7, Flushed DEF Unmount
  <2>3. CASE ed[t][s].pc = "idle"
    <3>1. ed'[t][s] = NoEditor /\ ed[t][s].made = None
      BY <1>1, <2>1, <2>3 DEF Unmounted, EditorFormed
    <3> QED
      BY <1>2, <2>1, <2>2, <2>3, <3>1, NewEditorFormed DEF LoneUnsaved
  <2>4. CASE ed[t][s].pc # "idle"
    <3>1. ed'[t][s] = [ed[t][s] EXCEPT !.is = "gone"]
      BY <2>1, <2>4 DEF Unmounted
    <3>2. ed'[t][s].made = ed[t][s].made /\ ed'[t][s].pc = ed[t][s].pc /\ ed'[t][s].text = ed[t][s].text
      BY <1>1, <3>1 DEF Editor
    <3> QED
      BY <1>2, <2>1, <2>2, <3>2 DEF LoneUnsaved
  <2> QED
    BY <2>3, <2>4
<1>8. CASE Save(t, s)
  <2>1. UNCHANGED <<stored, timer, memos>> /\ ed[t][s].pc = "idle"
    BY <1>8 DEF Save, CanSave
  <2>2. ed'[t][s].text = ed[t][s].text /\ ed[t][s].made = None
    BY <1>1, <1>8, <2>1 DEF Save, Editor, EditorFormed
  <2> QED
    BY <2>1, <2>2 DEF LoneUnsaved
<1>9. CASE Create(t, s)
  <2>1. ed'[t][s] = [ed[t][s] EXCEPT !.sent = <<>>, !.made = ed[t][s].text]
    BY <1>9, Created
  <2>2. ed'[t][s].made = ed[t][s].text
    BY <1>1, <2>1 DEF Editor
  <2>3. ed[t][s].text # None
    BY <1>1, TextFacts
  <2> QED
    BY <2>2, <2>3 DEF LoneUnsaved
<1>10. CASE Answered(t, s)
  <2>1. stored' = Blank /\ timer'[t] = None /\ memos' = memos
    BY <1>1, <1>10 DEF Answered, Clear
  <2>2. ed'[t][s].pc = "settling"
    BY <1>1, <1>10 DEF Answered, Editor
  <2> QED
    BY <1>2, <2>1, <2>2 DEF LoneUnsaved
<1>11. CASE Failed(t, s)
  <2>1. /\ UNCHANGED <<stored, timer, memos>> /\ ed[t][s].pc = "saving" /\ ed[t][s].sent # <<>>
        /\ ed'[t][s] = Ended([ed[t][s] EXCEPT !.pc = "idle", !.sent = <<>>, !.made = None])
    BY <1>1, <1>11 DEF Failed
  <2>2. ed[t][s].made = None
    BY <1>1, <2>1 DEF EditorFormed
  <2>3. ed'[t][s] = NoEditor \/ ed'[t][s].text = ed[t][s].text
    BY <1>1, <2>1 DEF Ended, Editor
  <2> QED
    BY <1>2, <2>1, <2>2, <2>3, NewEditorFormed DEF LoneUnsaved
<1>12. CASE Finish(t, s)
  <2>1. memos' = memos /\ ed[t][s].pc = "settling" /\ stored = Blank /\ timer[t] = None
    BY <1>12 DEF Finish, Before, Lone
  <2>2. stored' = Blank /\ timer'[t] \in {Blank, None}
    BY <1>1, <1>12, <2>1 DEF Finish, SaveNow, SaveLater
  <2>3. ed'[t][s] = NoEditor \/ ed'[t][s] = Persisted([ed[t][s] EXCEPT !.pc = "idle"], Blank)
    BY <1>1, <1>12 DEF Finish
  <2>4. ed'[t][s].text = Blank
    BY <1>1, <2>3, NewEditorFormed DEF Persisted, Editor
  <2> QED
    BY <1>2, <2>1, <2>2, <2>4 DEF LoneUnsaved
<1> QED
  BY <1>3, <1>4, <1>5, <1>6, <1>7, <1>8, <1>9, <1>10, <1>11, <1>12

\* No draft becomes a second memo.
LEMMA SavedOnceStep ==
    ASSUME NEW t \in Tabs, NEW s \in Slots, Before(t, s), LoneUnsaved(t, s), SavedOnce, Create(t, s)
    PROVE  SavedOnce'
<1>1. /\ ed[t][s].pc = "saving" /\ ed[t][s].made = None /\ ed[t][s].text \in Text \ {Blank}
      /\ memos' = Append(memos, ed[t][s].text)
  BY Created
<1>2. ed[t][s].text \notin Range(memos)
  BY <1>1 DEF LoneUnsaved
<1> QED
  BY <1>1, <1>2, TextFacts, InjectiveAppend DEF SavedOnce, Before

\* One step of the lone editor.
LEMMA DraftInvStep == DraftInv /\ [DraftNext]_draftVars => DraftInv'
<1> SUFFICES ASSUME DraftInv, [DraftNext]_draftVars PROVE DraftInv'
  OBVIOUS
<1>1. DraftTypeOK /\ DraftTypeOK'
  BY DraftTypeStep DEF DraftInv
<1>2. UNCHANGED <<hosted, events>>
  <2>1. ASSUME NEW t \in Tabs, TimerFires(t) \/ Kill(t) PROVE UNCHANGED <<hosted, events>>
    BY <2>1 DEF TimerFires, Kill, setting
  <2>2. ASSUME NEW t \in Tabs, NEW s \in Slots,
               \/ Mount(t, s) \/ Type(t, s) \/ Hide(t, s) \/ Unmount(t, s)
               \/ Save(t, s) \/ Create(t, s) \/ Answered(t, s) \/ Failed(t, s) \/ Finish(t, s)
        PROVE  UNCHANGED <<hosted, events>>
    BY <2>2 DEF Mount, Type, Hide, Unmount, Save, Create, Answered, Failed, Finish, setting
  <2> QED
    BY <2>1, <2>2 DEF DraftNext, draftVars
<1>3. CASE UNCHANGED draftVars
  BY <1>1, <1>3 DEF DraftInv, draftVars, OneEditor, EditorFormed, Busy, TextsOld, LeftBehind, Mounted, NotAgain,
        Unsaved, SavedOnce
<1>4. SUFFICES ASSUME OneEditor, DraftNext
               PROVE  /\ \A v \in Tabs, u \in Slots : EditorFormed(ed[v][u])'
                      /\ \A v \in Tabs, u, w \in Slots : (u \in Busy(v) /\ w \in Busy(v) => u = w)'
                      /\ TextsOld' /\ LeftBehind' /\ NotAgain'
                      /\ events \subseteq {"failure"} => Unsaved' /\ SavedOnce'
  BY <1>1, <1>2, <1>3 DEF DraftInv, OneEditor
<1>5. OneEditor'
  BY <1>2, <1>4 DEF OneEditor
<1>6. PICK t \in Tabs :
        \/ TimerFires(t) \/ Kill(t)
        \/ \E s \in Slots :
             \/ Mount(t, s) \/ Type(t, s) \/ Hide(t, s) \/ Unmount(t, s)
             \/ Save(t, s) \/ Create(t, s) \/ Answered(t, s) \/ Failed(t, s) \/ Finish(t, s)
  BY <1>4 DEF DraftNext
<1>7. PICK s \in Slots :
        /\ Busy(t) \subseteq {s}
        /\ \/ TimerFires(t) \/ Kill(t) \/ Mount(t, s) \/ Type(t, s) \/ Hide(t, s) \/ Unmount(t, s)
           \/ Save(t, s) \/ Create(t, s) \/ Answered(t, s) \/ Failed(t, s) \/ Finish(t, s)
  <2>1. CASE TimerFires(t)
    <3>1. timer[t] # None /\ LeftBehind
      BY <1>4, <2>1 DEF TimerFires, DraftInv
    <3>2. PICK s \in Slots : s \in Busy(t)
      BY <3>1 DEF LeftBehind, Mounted, Busy
    <3>3. Busy(t) \subseteq {s}
      BY <1>4, <3>2, LoneBusy, Zenon
    <3> QED
      BY <2>1, <3>3
  <2>2. CASE Kill(t)
    <3>1. PICK s \in Slots : s \in Busy(t)
      BY <2>2 DEF Kill, Busy
    <3>2. Busy(t) \subseteq {s}
      BY <1>4, <3>1, LoneBusy, Zenon
    <3> QED
      BY <2>2, <3>2
  <2>3. ASSUME NEW s \in Slots, Mount(t, s) PROVE Busy(t) \subseteq {s}
    BY <1>4, <2>3, LoneBusy DEF Mount
  <2>4. ASSUME NEW s \in Slots,
               \/ Type(t, s) \/ Hide(t, s) \/ Unmount(t, s)
               \/ Save(t, s) \/ Create(t, s) \/ Answered(t, s) \/ Failed(t, s) \/ Finish(t, s)
        PROVE  Busy(t) \subseteq {s}
    <3>1. EditorFormed(ed[t][s])
      BY <1>4 DEF DraftInv
    <3>2. s \in Mounted(t) \/ ed[t][s].pc # "idle" \/ ed[t][s].sent # <<>>
      BY <2>4 DEF Type, Hide, Unmount, Save, Create, Answered, Failed, Finish
    <3>3. s \in Busy(t)
      BY <3>1, <3>2, NewEditorFormed DEF Busy, Mounted, EditorFormed
    <3> QED
      BY <1>4, <3>3, LoneBusy, Zenon
  <2> QED
    BY <1>6, <2>1, <2>2, <2>3, <2>4
<1>8. Before(t, s)
  BY <1>1, <1>4, <1>7, LoneEditor DEF Before
<1>9. TextsOld' /\ Lone(t, s)'
  BY <1>7, <1>8, TimerStep, KillStep, MountStep, TypeStep, HideStep, UnmountStep, SaveStep, CreateStep,
     AnsweredStep, FailedStep, FinishStep
<1>10. ASSUME events \subseteq {"failure"} PROVE Unsaved' /\ SavedOnce'
  <2>1. Unsaved /\ SavedOnce /\ ~Kill(t)
    BY <1>4, <1>10 DEF DraftInv, Kill
  <2>2. \A u \in Slots : u = s \/ ed[t][u] = NoEditor
    BY <1>8 DEF Before, Lone
  <2>3. LoneUnsaved(t, s)
    BY <2>1, <2>2, NewEditorFormed DEF Unsaved, LoneUnsaved
  <2>4. LoneUnsaved(t, s)'
    BY <1>7, <1>8, <1>10, <2>1, <2>3, UnsavedStep
  <2>5. SavedOnce'
    <3>1. CASE Create(t, s)
      BY <1>8, <2>1, <2>3, <3>1, SavedOnceStep
    <3>2. CASE ~Create(t, s)
      <4>1. memos' = memos
        BY <1>7, <3>2 DEF TimerFires, Kill, Mount, Type, Hide, Unmount, Save, Answered, Failed, Finish
      <4> QED
        BY <2>1, <4>1 DEF SavedOnce
    <3> QED
      BY <3>1, <3>2
  <2> QED
    BY <1>1, <1>4, <1>9, <2>4, <2>5, UnsavedKept
<1> QED
  BY <1>1, <1>4, <1>5, <1>9, <1>10, LoneKept

\* What an editor shows or holds is what the user typed, or in the memos.
LEMMA DraftInvSafe == DraftInv => DraftSafe
<1> SUFFICES ASSUME DraftInv, OneEditor PROVE TextKept /\ SavedDraftGone
  BY DEF DraftInv, DraftSafe
<1>1. LeftBehind /\ NotAgain
  BY DEF DraftInv
<1>2. TextKept
  <2>1. ASSUME NEW x \in kept PROVE x \in OnScreen \cup {stored} \cup Range(memos)
    <3>1. CASE \E t \in Tabs : Mounted(t) # {}
      <4>1. PICK t \in Tabs, s \in Slots : s \in Mounted(t)
        BY <3>1 DEF Mounted
      <4>2. x \in {ed[t][s].text} \cup Range(memos)
        BY <1>1, <2>1, <4>1 DEF LeftBehind, Mounted, Busy
      <4> QED
        BY <4>1, <4>2 DEF OnScreen
    <3>2. CASE \E t \in Tabs : Mounted(t) = {}
      BY <1>1, <2>1, <3>2 DEF LeftBehind
    <3> QED
      BY <3>1, <3>2, DraftAssumption
  <2> QED
    BY <2>1 DEF TextKept
<1>3. SavedDraftGone
  BY <1>1 DEF NotAgain, SavedDraftGone, Mounted
<1> QED
  BY <1>2, <1>3

\* What the user typed is on the screen, in localStorage or in a memo, nothing that
\* was saved comes back, and no draft becomes two memos, whatever timers, answers
\* and deaths of the browser come in between (useAutoSave, useMemoSave, cacheService).
THEOREM DraftKept == DraftSpec => []DraftSafe
<1>1. DraftSpec => []DraftInv
  BY DraftInvInit, DraftInvStep, PTL DEF DraftSpec
<1> QED
  BY <1>1, DraftInvSafe, PTL
=============================================================================
