----------------------------- MODULE MCEditing -----------------------------
(* Parts of a page of the web client that share no state, for TLC: the memo   *)
(* editor and its draft, its inline uploads, its audio recorder, and the      *)
(* music player.  A behaviour plays one instance of one of them (scene); the  *)
(* others stay in their initial state.                                        *)
EXTENDS Integers, Sequences, MemoEditor, InlineUpload, AudioRecorder

CONSTANT Both

VARIABLES scene, site, prefs, tab, blocked, moves

musicVars == <<site, prefs, tab, blocked, moves>>

-----------------------------------------------------------------------------
(* The instances.  The draft, the uploads and the recorder are the modules     *)
(* extended here; which of their events may happen is chosen in the initial    *)
(* state.                                                                      *)

\* The editor of the dialog, where a save may fail; an editor anywhere, in a browser
\* that is killed and with answers that are lost; an editor in the page, which may
\* be left during a save.
DraftScene ==
    \/ scene = "dialog" /\ hosted /\ events = {"failure"}
    \/ scene = "killed" /\ events = {"kill", "failure", "loss"}
    \/ scene = "left" /\ ~hosted /\ events = {"failure"}
    \/ scene \notin {"dialog", "killed", "left"} /\ hosted /\ events = {}

\* Two tabs of a browser, and two playlists in all three orders.
Music == INSTANCE MusicPlayer WITH
    Tabs <- Both, Sizes <- <<3, 2>>, Modes <- {"sequential", "reverse", "random"},
    Gestures <- {"pointerdown", "keydown"}, Blocking <- BOOLEAN, MaxMoves <- 6, stored <- prefs
\* One tab in a browser that waits for a gesture; both tabs, for some moves, of a
\* browser that does not; one tab and one playlist, to the end.
OneTab == \A t \in Both \ Tabs : tab'[t] = tab[t]
MusicScene ==
    \/ scene = "music" /\ OneTab
    \/ scene = "duet" /\ moves' <= 4
    \/ scene = "turns" /\ OneTab /\ moves' <= 4 /\ site'.list = 1

-----------------------------------------------------------------------------
Init ==
    /\ scene \in {"dialog", "killed", "left", "uploads", "recorder", "music", "duet", "turns"}
    /\ DraftInit /\ DraftScene
    /\ UploadInit /\ (scene # "uploads" => during = {})
    /\ RecorderInit /\ (scene # "recorder" => happens = {})
    /\ Music!Init /\ (blocked <=> scene = "music")

NotDraft == UNCHANGED <<scene, uploadVars, recorderVars, musicVars>>
NotUploads == UNCHANGED <<scene, draftVars, recorderVars, musicVars>>
NotRecorder == UNCHANGED <<scene, draftVars, uploadVars, musicVars>>
NotMusic == UNCHANGED <<scene, draftVars, uploadVars, recorderVars>>

Next ==
    \/ scene \in {"dialog", "killed", "left"} /\ DraftNext /\ NotDraft
    \/ scene = "uploads" /\ UploadNext /\ NotUploads
    \/ scene = "recorder" /\ RecorderNext /\ NotRecorder
    \/ scene \in {"music", "duet", "turns"} /\ Music!Next /\ MusicScene /\ NotMusic

\* The fairness the modules state, for the scenes with a liveness property.
Fairness ==
    /\ \A t \in Tabs :
         /\ WF_draftVars(scene = "dialog" /\ TimerFires(t))
         /\ \A s \in Slots :
              /\ WF_draftVars(scene = "dialog" /\ Create(t, s))
              /\ WF_draftVars(scene = "dialog" /\ Answered(t, s))
              /\ WF_draftVars(scene = "dialog" /\ Finish(t, s))
         /\ WF_musicVars(scene = "turns" /\ Music!Ended(t))
    /\ \A j \in Jobs : WF_uploadVars(scene = "uploads" /\ (UploadDone(j) \/ UploadFails(j) \/ LateUpload(j)))
    /\ \A r \in RequestId :
         /\ WF_recorderVars(scene = "recorder" /\ StopEvent(r))
         /\ WF_recorderVars(scene = "recorder" /\ TranscriptionEnds(r))

Spec == Init /\ [][Next]_<<scene, draftVars, uploadVars, recorderVars, musicVars>> /\ Fairness

-----------------------------------------------------------------------------
(* What the modules promise, of their instances; the draft, the uploads and    *)
(* the recorder state DraftSafe, UploadsSafe and RecorderSafe themselves.      *)

\* The music player.  Music that the visitor switched off neither plays nor is about
\* to, unless a listener that autoplay left hears a first gesture; that choice, once
\* stored, is taken back by play, by a choice of a track, by a reset or by another tab
\* that was open already, alone; a song of a list of several is never followed by
\* itself; another order never jumps away from the song that is current.
MusicKept ==
    /\ []Music!OffStaysOff
    /\ Music!OffRemembered
    /\ Music!NoRepeat
    /\ Music!KeepsCurrent

\* What comes about in the end: a text that stays in the editor reaches
\* localStorage or the server; a running upload job stops or succeeds, whatever is
\* erased meanwhile; a recording that the user finished is in the draft or in a
\* memo; every track of the list has its turn while the music plays on.
EditingEnds ==
    /\ scene = "dialog" => DraftStored
    /\ scene = "uploads" => JobsEnd
    /\ scene = "recorder" => RecordingKept
    /\ scene = "turns" => Music!EveryTrackPlays
=============================================================================
