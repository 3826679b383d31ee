---------------------------- MODULE AudioRecorder ----------------------------
(* Voice notes in the editor: the recorder (useAudioRecorder.ts) with the    *)
(* asynchronous answers and events of the browser, and the panel, the        *)
(* transcription and the save around it (MemoEditor/index.tsx).              *)
(*                                                                           *)
(* The module follows one mounted editor. A recording is named by the        *)
(* request that started it.                                                  *)
EXTENDS Naturals, FiniteSets

CONSTANTS
    CanTranscribe,   \* a provider for transcription is configured
    RecorderEvents,  \* which of "unmount" and "overlap" may happen
    MaxRequests      \* bound on the requests, those of a reset included

ASSUME RecorderAssumption == MaxRequests \in Nat

VARIABLES
    happens,       \* the events of this behaviour, of RecorderEvents
    mounted,
    request,       \* startRequestIdRef
    asked,         \* the requests that await the microphone
    mic,           \* the recordings whose tracks are live
    recorder,      \* mediaRecorderRef, 0 without a running recorder
    stopped,       \* the recordings whose "stop" event is still to come
    status,        \* status of the hook
    mode,          \* completionModeRef
    panel,         \* isAudioRecorderOpen
    transcribing,  \* isTranscribingAudio
    calls,         \* the recordings that are being transcribed
    noted,         \* the recordings in the draft, as a file or as text
    sending,       \* isLoading.saving
    sent,          \* the recordings of the draft that the running save read
    saved,         \* the recordings in saved memos
    wiped,         \* history: the recordings that joined the draft during a save whose end reset it
    wanted,        \* the recordings that the user finished
    cancelled      \* the recordings that the user cancelled

recorderVars == <<happens, mounted, request, asked, mic, recorder, stopped, status, mode, panel, transcribing,
          calls, noted, sending, sent, saved, wiped, wanted, cancelled>>
device == <<happens, mounted, request, asked, mic, recorder, stopped>>
saveState == <<sending, sent, saved, wiped>>
draft == <<noted, saveState, wanted, cancelled>>

RequestId == 0 .. MaxRequests
IsBusy == status \in {"requesting_permission", "recording"}

\* What index.tsx shows of the recorder; its buttons are the only way to it.
PanelShown == panel /\ (IsBusy \/ transcribing)

-----------------------------------------------------------------------------
(* useAudioRecorder.ts                                                       *)

\* resetRecorderRefs: the tracks end, and with them a recorder that still runs.
ResetRecorderRefs ==
    /\ mic' = {}
    /\ stopped' = stopped \cup ({recorder} \ {0})
    /\ recorder' = 0

\* handleAudioRecorderClick and startRecording up to getUserMedia. The menu
\* offers it whenever the recorder is not busy and nothing is saved, during a
\* transcription too.
StartRecording ==
    /\ mounted /\ ~IsBusy /\ ~sending
    /\ transcribing => "overlap" \in happens
    /\ request < MaxRequests
    /\ request' = request + 1
    /\ asked' = asked \cup {request + 1}
    /\ status' = "requesting_permission"
    /\ panel' = TRUE
    /\ UNCHANGED <<happens, mounted, mic, recorder, stopped, mode, transcribing, calls, draft>>

\* Mutant: a late answer is not recognised.
GrantedLate(r) ==
    /\ r \in asked
    /\ asked' = asked \ {r}
    /\ mic' = mic \cup {r} /\ recorder' = r /\ status' = "recording"
    /\ UNCHANGED <<happens, mounted, request, stopped, mode, panel, transcribing, calls, draft>>

\* The user grants the microphone: a request that is no longer the last one
\* ends its tracks at once.
Granted(r) ==
    /\ r \in asked
    /\ asked' = asked \ {r}
    /\ \/ request = r /\ mic' = mic \cup {r} /\ recorder' = r /\ status' = "recording"
       \/ request # r /\ UNCHANGED <<mic, recorder, status>>
    /\ UNCHANGED <<happens, mounted, request, stopped, mode, panel, transcribing, calls, draft>>

\* Mutant: a refusal closes the panel whichever request it answers.
RefusedLate(r) ==
    /\ r \in asked
    /\ asked' = asked \ {r}
    /\ \/ request = r /\ ResetRecorderRefs /\ status' = "error"
       \/ request # r /\ UNCHANGED <<mic, recorder, stopped, status>>
    /\ panel' = FALSE
    /\ UNCHANGED <<happens, mounted, request, mode, transcribing, calls, draft>>

\* The microphone is refused or missing; the effect on the error closes the panel.
Refused(r) ==
    /\ r \in asked
    /\ asked' = asked \ {r}
    /\ \/ request = r /\ ResetRecorderRefs /\ status' = "error" /\ panel' = FALSE
       \/ request # r /\ UNCHANGED <<mic, recorder, stopped, status, panel>>
    /\ UNCHANGED <<happens, mounted, request, mode, transcribing, calls, draft>>

\* stopRecording, from a button of the panel: "attach", or "transcribe" where
\* that is configured.
StopRecording ==
    /\ mounted /\ PanelShown
    /\ status = "recording" /\ ~transcribing
    /\ recorder # 0
    /\ \E m \in {"attach"} \cup (IF CanTranscribe THEN {"transcribe"} ELSE {}) :
         /\ mode' = m
         /\ transcribing' = (m = "transcribe")
    /\ stopped' = stopped \cup {recorder}
    /\ recorder' = 0
    /\ wanted' = wanted \cup {recorder}
    /\ UNCHANGED <<happens, mounted, request, asked, mic, status, panel, calls, noted, saveState, cancelled>>

\* Mutant: the request is not renewed, so that late events are still heard.
ResetUnnumbered ==
    /\ mounted /\ PanelShown /\ ~transcribing /\ request < MaxRequests
    /\ request' = request
    /\ cancelled' = cancelled \cup {request} /\ wanted' = wanted \ {request}
    /\ ResetRecorderRefs
    /\ mode' = "attach" /\ status' = "idle" /\ panel' = FALSE
    /\ UNCHANGED <<happens, mounted, asked, transcribing, calls, noted, saveState>>

\* handleCancelAudioRecording and resetRecording.
ResetRecording ==
    /\ mounted /\ PanelShown /\ ~transcribing
    /\ request < MaxRequests
    /\ request' = request + 1
    /\ cancelled' = cancelled \cup {request} /\ wanted' = wanted \ {request}
    /\ ResetRecorderRefs
    /\ mode' = "attach" /\ status' = "idle" /\ panel' = FALSE
    /\ UNCHANGED <<happens, mounted, asked, transcribing, calls, noted, saveState>>

\* onRecordingComplete: the file is attached, or sent to be transcribed.
RecordingComplete(r) ==
    IF mode = "transcribe"
    THEN calls' = calls \cup {r} /\ UNCHANGED <<noted, panel>>
    ELSE /\ noted' = IF mounted THEN noted \cup {r} ELSE noted
         /\ panel' = FALSE
         /\ UNCHANGED calls

\* The "stop" event of a recorder, with the data that it collected or empty.
StopEvent(r) ==
    /\ r \in stopped
    /\ \/ /\ request # r
          /\ stopped' = stopped \ {r}
          /\ UNCHANGED <<mic, recorder, status, mode, panel, transcribing, calls, noted, wanted>>
       \/ /\ request = r
          /\ status' = "idle" /\ mode' = "attach"
          /\ mic' = {} /\ recorder' = 0 /\ stopped' = stopped \ {r}
          /\ \/ RecordingComplete(r) /\ UNCHANGED <<transcribing, wanted>>
             \/ \* onRecordingEmpty
                /\ transcribing' = (transcribing /\ mode # "transcribe")
                /\ panel' = FALSE
                /\ wanted' = wanted \ {r}
                /\ UNCHANGED <<calls, noted>>
    /\ UNCHANGED <<happens, mounted, request, asked, saveState, cancelled>>

-----------------------------------------------------------------------------
(* index.tsx                                                                 *)

\* Mutant: a failed transcription leaves nothing.
TranscriptionEndsBare(r) ==
    /\ r \in calls
    /\ calls' = calls \ {r}
    /\ noted' \in {noted, IF mounted THEN noted \cup {r} ELSE noted}
    /\ transcribing' = FALSE /\ panel' = FALSE
    /\ UNCHANGED <<device, status, mode, saveState, wanted, cancelled>>

\* handleTranscribeRecordedAudio: the text is inserted, or the file attached
\* when there is none or the call failed.
TranscriptionEnds(r) ==
    /\ r \in calls
    /\ calls' = calls \ {r}
    /\ noted' = IF mounted THEN noted \cup {r} ELSE noted
    /\ transcribing' = FALSE /\ panel' = FALSE
    /\ UNCHANGED <<device, status, mode, saveState, wanted, cancelled>>

\* A save begins, with the draft as it is: text that is typed can be saved without
\* a recording. A busy recorder blocks it; a running transcription does not.
BeginSaving ==
    /\ mounted /\ ~IsBusy /\ ~sending
    /\ sending' = TRUE /\ sent' = noted
    /\ UNCHANGED <<device, status, mode, panel, transcribing, calls, noted, saved, wiped, wanted, cancelled>>

\* The save ends: what it read is in the memo, and discardDraft and reset empty the
\* draft, of what joined it meanwhile too.
EndSaving ==
    /\ sending
    /\ saved' = saved \cup sent
    /\ wiped' = wiped \cup (noted \ sent)
    /\ noted' = {}
    /\ sending' = FALSE /\ sent' = {}
    /\ UNCHANGED <<device, status, mode, panel, transcribing, calls, wanted, cancelled>>

\* The save fails, or its answer is lost: the draft stays as it is.
SavingFails ==
    /\ sending
    /\ saved' \in {saved, saved \cup sent}
    /\ sending' = FALSE /\ sent' = {}
    /\ UNCHANGED <<device, status, mode, panel, transcribing, calls, noted, wiped, wanted, cancelled>>

\* The clean-up of the hook. The request stays the last one.
UnmountRecorder ==
    /\ mounted /\ "unmount" \in happens
    /\ mounted' = FALSE
    /\ ResetRecorderRefs
    /\ noted' = {}
    /\ UNCHANGED <<happens, request, asked, status, mode, panel, transcribing, calls, saveState, wanted, cancelled>>

RecorderInit ==
    /\ happens \in SUBSET RecorderEvents
    /\ mounted = TRUE
    /\ request = 0 /\ recorder = 0
    /\ asked = {} /\ mic = {} /\ stopped = {} /\ calls = {}
    /\ status = "idle" /\ mode = "attach"
    /\ panel = FALSE /\ transcribing = FALSE
    /\ noted = {} /\ sending = FALSE /\ sent = {} /\ saved = {} /\ wiped = {}
    /\ wanted = {} /\ cancelled = {}

RecorderNext ==
    \/ StartRecording \/ StopRecording \/ ResetRecording \/ UnmountRecorder
    \/ BeginSaving \/ EndSaving \/ SavingFails
    \/ \E r \in RequestId : Granted(r) \/ Refused(r) \/ StopEvent(r) \/ TranscriptionEnds(r)

\* The browser delivers its events, and a transcription ends.
RecorderSpec ==
    /\ RecorderInit /\ [][RecorderNext]_recorderVars
    /\ \A r \in RequestId : WF_recorderVars(StopEvent(r)) /\ WF_recorderVars(TranscriptionEnds(r))

-----------------------------------------------------------------------------
(* Properties                                                                *)

RecorderTypeOK ==
    /\ happens \subseteq RecorderEvents
    /\ {mounted, panel, transcribing, sending} \subseteq BOOLEAN
    /\ {request, recorder} \subseteq RequestId
    /\ {asked, mic, stopped, calls, noted, sent, saved, wiped, wanted, cancelled} \subseteq SUBSET RequestId
    /\ status \in {"idle", "requesting_permission", "recording", "error"}
    /\ mode \in {"attach", "transcribe"}

\* The microphone is open for the last request alone, and only while the editor
\* says that it records: a grant that comes after a cancel opens nothing.
MicOwned == mic # {} => mic = {request} /\ status = "recording"

\* Nothing of a cancelled recording reaches the draft or a memo, however late
\* the recorder's events come.
CancelDiscards == cancelled \cap (noted \cup saved) = {}

\* A recorder that is busy can be stopped or cancelled: its panel is shown
\* (canSave: "Cannot save while audio recorder is active"), as long as no
\* recording starts during a transcription, whose end closes the panel.
Controllable == mounted /\ IsBusy /\ "overlap" \notin happens => PanelShown

\* The recorder.  The microphone is open for the last request alone, and only
\* while the editor says that it records (useAudioRecorder); a recorder that is
\* busy can be stopped or cancelled, as its panel is shown; and nothing of a
\* cancelled recording reaches the draft or a memo.
RecorderSafe == RecorderTypeOK /\ MicOwned /\ Controllable /\ CancelDiscards

\* Without the editor the microphone is closed (useAudioRecorder: "tear down on
\* unmount").
MicClosed == ~mounted => mic = {}

\* A recording that the user finished is in the draft or in a memo in the end,
\* unless its transcription ended during a save.
RecordingKept ==
    \A r \in RequestId : r \in wanted ~> (r \in noted \cup saved \cup wiped \/ r \notin wanted \/ ~mounted)

-----------------------------------------------------------------------------
(* Why RecorderSafe holds                                                    *)

\* No request is newer than the last one, and what was cancelled is older.
RequestsOrdered ==
    /\ \A r \in asked \cup stopped \cup calls \cup noted \cup sent \cup saved : r <= request
    /\ \A r \in cancelled : r < request

\* The last request is at one place: it awaits the microphone, runs, or is
\* stopped, and its recording is not in the draft while the editor is busy.
OnePlace ==
    /\ request \in asked => status = "requesting_permission" /\ request \notin stopped
    /\ recorder # 0 => recorder = request /\ status = "recording" /\ request \notin stopped \cup asked
    /\ IsBusy => request \notin calls \cup noted \cup saved

\* What is transcribed or being saved was not cancelled.
CallsWanted == cancelled \cap (calls \cup sent) = {}

\* A save reads the draft of an editor that does not record, and nothing is recorded
\* before it ends.
SavingIdle == IF sending THEN ~IsBusy ELSE sent = {}

\* Without an overlap nothing is recorded during a transcription.
OneTranscription ==
    "overlap" \notin happens =>
      /\ status = "requesting_permission" => ~transcribing
      /\ mode = "transcribe" => transcribing /\ calls = {}
      /\ \A r, q \in calls : r = q
      /\ calls # {} => transcribing /\ status \notin {"requesting_permission", "recording"}

RecorderInv == RecorderSafe /\ RequestsOrdered /\ OnePlace /\ CallsWanted /\ SavingIdle /\ OneTranscription
=============================================================================
