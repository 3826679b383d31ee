----------------------------- MODULE MemoEditor -----------------------------
(* The composer of new memos: the draft that it keeps in localStorage        *)
(* (cacheService.ts, useAutoSave.ts), the editor that loads it               *)
(* (useMemoInit.ts), the save (useMemoSave.ts, memoService.ts) and the       *)
(* dialog that hosts it (GlobalMemoEditorContext.tsx).                       *)
(*                                                                           *)
(* Every editor here has the same user and cache key, so that they share one *)
(* entry of localStorage. A text is a number that no other typing produces;  *)
(* attachments of the draft follow its text.                                 *)
EXTENDS Naturals, Sequences, Functions

CONSTANTS
    Tabs,      \* tabs of the browser
    Slots,     \* editors of a tab that exist at a time; one of them is mounted
    Hosts,       \* where editors live: TRUE for the dialog, FALSE for the page
    DraftEvents, \* which of "kill", "typeahead", "failure" and "loss" may happen
    MaxText,     \* bound on the texts that are typed
    MaxMemos     \* bound on the memos that are created

ASSUME DraftAssumption == Tabs # {} /\ Hosts \subseteq BOOLEAN /\ MaxText \in Nat /\ MaxMemos \in Nat

VARIABLES
    hosted,   \* the editors of this behaviour live in the dialog, which stays open during a save
    events,   \* the events of this behaviour, of DraftEvents
    stored,   \* browser: the draft in localStorage
    timer,    \* tab: pendingSaves, the draft that a timer is about to write
    ed,       \* tab: its editors
    memos,    \* server: the texts of the memos, in the order of their creation
    acked,    \* the texts whose save was answered
    kept,     \* what users typed and did not replace themselves
    typed     \* the number of texts typed so far

draftVars == <<hosted, events, stored, timer, ed, memos, acked, kept, typed>>
setting == <<hosted, events>>

Blank == 0
None == MaxText + 1
Text == 0 .. MaxText

\* latest and discarded are the refs of useAutoSave; sent holds the text of a
\* request that the server has not seen, made the one it has just answered.
NoEditor == [is |-> "none", text |-> Blank, latest |-> Blank, discarded |-> None, pc |-> "idle",
             sent |-> <<>>, made |-> None]
Editor ==
    [is : {"none", "mounted", "gone"}, text : Text, latest : Text, discarded : Text \cup {None},
     pc : {"idle", "saving", "settling"}, sent : Seq(Text \ {Blank}), made : (Text \ {Blank}) \cup {None}]

Mounted(t) == {s \in Slots : ed[t][s].is = "mounted"}

-----------------------------------------------------------------------------
(* cacheService.ts                                                           *)

\* Mutant: the timer of the key is cancelled and not started again.
SaveNever(t, text) == timer' = [timer EXCEPT ![t] = None] /\ UNCHANGED stored

\* save: the timer of the key is restarted.
SaveLater(t, text) == timer' = [timer EXCEPT ![t] = text] /\ UNCHANGED stored

\* saveNow: an entry without text is removed.
SaveNow(t, text) == timer' = [timer EXCEPT ![t] = None] /\ stored' = text

\* Mutant: the entry is overwritten with undefined.
ClearToUndefined(t) == timer' = [timer EXCEPT ![t] = None] /\ stored' = None

\* clear: the timer goes with the entry.
Clear(t) == timer' = [timer EXCEPT ![t] = None] /\ stored' = Blank

\* The debounced write.
TimerFires(t) ==
    /\ timer[t] # None
    /\ SaveNow(t, timer[t])
    /\ UNCHANGED <<setting, ed, memos, acked, kept, typed>>

-----------------------------------------------------------------------------
(* useAutoSave.ts                                                            *)

\* persist: a text other than the discarded one ends the discarding.
Persisted(e, text) ==
    [e EXCEPT !.text = text, !.latest = text,
              !.discarded = IF @ # None /\ @ # text THEN None ELSE @]

\* flushDraft
Flush(t, e) ==
    IF e.discarded = e.latest
    THEN UNCHANGED <<stored, timer>>
    ELSE SaveNow(t, e.latest)

\* The listener of visibilitychange and pagehide.
Hide(t, s) ==
    /\ s \in Mounted(t)
    /\ Flush(t, ed[t][s])
    /\ UNCHANGED <<setting, ed, memos, acked, kept, typed>>

-----------------------------------------------------------------------------
(* The life of an editor                                                     *)

\* useMemoInit loads the draft; useAutoSave then persists it.
Mount(t, s) ==
    /\ Mounted(t) = {}
    /\ ed[t][s].is = "none"
    /\ ed' = [ed EXCEPT ![t][s] = [NoEditor EXCEPT !.is = "mounted", !.text = stored, !.latest = stored]]
    /\ SaveLater(t, stored)
    /\ UNCHANGED <<setting, memos, acked, kept, typed>>

\* The end of a save of an editor that was unmounted meanwhile.
Ended(e) == IF e.is = "gone" THEN NoEditor ELSE e

\* Of an unmounted editor only the save that is under way goes on.
Unmounted(e) == IF e.pc = "idle" THEN NoEditor ELSE [e EXCEPT !.is = "gone"]

\* Mutant: nothing is written when the editor goes.
UnmountUnflushed(t, s) ==
    /\ s \in Mounted(t)
    /\ hosted => ed[t][s].pc = "idle"
    /\ ed' = [ed EXCEPT ![t][s] = Unmounted(ed[t][s])]
    /\ timer' = [timer EXCEPT ![t] = None]
    /\ UNCHANGED <<setting, stored, memos, acked, kept, typed>>

\* The user closes the dialog, which a save prevents (requestCloseEditor), or
\* leaves the page of an inline editor, which nothing prevents.
Unmount(t, s) ==
    /\ s \in Mounted(t)
    /\ hosted => ed[t][s].pc = "idle"
    /\ Flush(t, ed[t][s])
    /\ ed' = [ed EXCEPT ![t][s] = Unmounted(ed[t][s])]
    /\ UNCHANGED <<setting, memos, acked, kept, typed>>

\* The editor stays editable during a save. The user replaces what it shows by
\* a new text or by nothing.
Type(t, s) ==
    /\ s \in Mounted(t)
    /\ ed[t][s].pc = "idle" \/ "typeahead" \in events
    /\ \E text \in {Blank} \cup ({typed + 1} \cap Text) :
         /\ text # ed[t][s].text
         /\ ed' = [ed EXCEPT ![t][s] = Persisted(ed[t][s], text)]
         /\ SaveLater(t, text)
         /\ kept' = (kept \ {ed[t][s].text}) \cup ({text} \ {Blank})
         /\ typed' = IF text = Blank THEN typed ELSE text
    /\ UNCHANGED <<setting, memos, acked>>

\* The browser or the page dies: what no timer has written yet is lost.
Kill(t) ==
    /\ "kill" \in events
    /\ \E s \in Slots : ed[t][s].is # "none"
    /\ ed' = [ed EXCEPT ![t] = [s \in Slots |-> NoEditor]]
    /\ timer' = [timer EXCEPT ![t] = None]
    /\ kept' = kept \ ({ed[t][s].text : s \in Mounted(t)} \ {stored})
    /\ UNCHANGED <<setting, stored, memos, acked, typed>>

-----------------------------------------------------------------------------
(* useMemoSave.ts                                                            *)

\* Mutant: a second save may start during the first.
CanSaveTwice(e) == e.text # Blank /\ e.pc # "settling"

\* validationService.canSave
CanSave(e) == e.text # Blank /\ e.pc = "idle"

\* Up to the request that creates the memo.
Save(t, s) ==
    /\ s \in Mounted(t)
    /\ CanSave(ed[t][s])
    /\ ed' = [ed EXCEPT ![t][s].pc = "saving", ![t][s].sent = Append(@, ed[t][s].text)]
    /\ UNCHANGED <<setting, stored, timer, memos, acked, kept, typed>>

\* The server creates the memo.
Create(t, s) ==
    LET e == ed[t][s]
    IN /\ e.sent # <<>>
       /\ Len(memos) < MaxMemos
       /\ memos' = Append(memos, Head(e.sent))
       /\ ed' = [ed EXCEPT ![t][s].sent = Tail(@), ![t][s].made = Head(e.sent)]
       /\ UNCHANGED <<setting, stored, timer, acked, kept, typed>>

\* Mutant: the draft is not discarded.
AnsweredUndiscarded(t, s) ==
    LET e == ed[t][s]
    IN /\ e.pc = "saving"
       /\ e.made # None
       /\ acked' = acked \cup {e.made}
       /\ ed' = [ed EXCEPT ![t][s].pc = "settling", ![t][s].made = None]
       /\ UNCHANGED <<setting, stored, timer, memos, kept, typed>>

\* The answer: discardDraft, and the wait for the queries that are invalidated.
Answered(t, s) ==
    LET e == ed[t][s]
    IN /\ e.pc = "saving"
       /\ e.made # None
       /\ acked' = acked \cup {e.made}
       /\ ed' = [ed EXCEPT ![t][s].pc = "settling", ![t][s].made = None, ![t][s].discarded = e.latest]
       /\ Clear(t)
       /\ UNCHANGED <<setting, memos, kept, typed>>

\* The upload, the creation or its answer fails, and the text stays in the
\* editor.
Failed(t, s) ==
    /\ ed[t][s].pc = "saving"
    /\ \/ "failure" \in events /\ ed[t][s].sent # <<>>
       \/ "loss" \in events /\ ed[t][s].made # None
    /\ ed' = [ed EXCEPT ![t][s] = Ended([@ EXCEPT !.pc = "idle", !.sent = <<>>, !.made = None])]
    /\ UNCHANGED <<setting, stored, timer, memos, acked, kept, typed>>

\* The reset, which a mounted editor persists, and onConfirm, which closes the
\* dialog: the flush of its unmounting removes the entry.
Finish(t, s) ==
    LET e == [ed[t][s] EXCEPT !.pc = "idle"]
    IN /\ ed[t][s].pc = "settling"
       /\ CASE e.is = "gone" ->
                 /\ ed' = [ed EXCEPT ![t][s] = NoEditor]
                 /\ UNCHANGED <<stored, timer>>
            [] e.is = "mounted" /\ hosted ->
                 /\ ed' = [ed EXCEPT ![t][s] = NoEditor]
                 /\ SaveNow(t, Blank)
            [] OTHER ->
                 /\ ed' = [ed EXCEPT ![t][s] = Persisted(e, Blank)]
                 /\ SaveLater(t, Blank)
       /\ UNCHANGED <<setting, memos, acked, kept, typed>>

-----------------------------------------------------------------------------
DraftInit ==
    /\ hosted \in Hosts
    /\ events \in SUBSET DraftEvents
    /\ stored = Blank
    /\ timer = [t \in Tabs |-> None]
    /\ ed = [t \in Tabs |-> [s \in Slots |-> NoEditor]]
    /\ memos = <<>>
    /\ acked = {}
    /\ kept = {}
    /\ typed = 0

DraftNext ==
    \E t \in Tabs :
      \/ TimerFires(t) \/ Kill(t)
      \/ \E s \in Slots :
           \/ Mount(t, s) \/ Type(t, s) \/ Hide(t, s) \/ Unmount(t, s)
           \/ Save(t, s) \/ Create(t, s) \/ Answered(t, s) \/ Failed(t, s) \/ Finish(t, s)

\* Timers fire, the server answers, and the queries settle.
DraftSpec ==
    /\ DraftInit /\ [][DraftNext]_draftVars
    /\ \A t \in Tabs :
         /\ WF_draftVars(TimerFires(t))
         /\ \A s \in Slots : WF_draftVars(Create(t, s)) /\ WF_draftVars(Answered(t, s)) /\ WF_draftVars(Finish(t, s))

-----------------------------------------------------------------------------
DraftTypeOK ==
    /\ hosted \in BOOLEAN /\ events \subseteq DraftEvents
    /\ stored \in Text
    /\ timer \in [Tabs -> Text \cup {None}]
    /\ ed \in [Tabs -> [Slots -> Editor]]
    /\ memos \in Seq(Text \ {Blank})
    /\ acked \subseteq Text
    /\ kept \subseteq Text \ {Blank}
    /\ typed \in 0 .. MaxText

OnScreen == UNION {{ed[t][s].text : s \in Mounted(t)} : t \in Tabs}

\* What a user typed is on the screen, in the entry of localStorage or in a memo
\* until the user replaces it (useAutoSave: "to ensure the draft is persisted
\* before the component is torn down").
TextKept == kept \subseteq OnScreen \cup {stored} \cup Range(memos)

\* A draft becomes one memo (canSave: "Cannot save while already saving").
SavedOnce == IsInjective(memos)

\* A text whose save was answered comes back neither from localStorage nor from
\* a timer, and no editor that is at rest shows it (useMemoSave: "Prevent the
\* autosave unmount flush from restoring the saved draft").
SavedDraftGone ==
    /\ stored \notin acked
    /\ \A t \in Tabs :
         /\ timer[t] \notin acked
         /\ \A s \in Mounted(t) : ed[t][s].pc = "idle" => ed[t][s].text \notin acked

\* One editor at a time: in one tab, where the dialog or the user opens no other
\* before a save has ended, and nobody types during a save.
OneEditor ==
    /\ \A t, u \in Tabs : t = u
    /\ hosted \/ \A s, u \in Slots : s = u
    /\ "typeahead" \notin events

\* The editor and its draft, one editor at a time.  What a user typed is on the
\* screen, in localStorage or in a memo until the user replaces it, although the
\* browser may be killed (useAutoSave); a text whose save was answered does not
\* come back from localStorage, a timer or an editor at rest (useMemoSave); and a
\* draft becomes one memo (canSave: "Cannot save while already saving") unless an
\* answer is lost or the browser killed in between.
DraftSafe ==
    /\ DraftTypeOK
    /\ OneEditor => TextKept /\ SavedDraftGone
    /\ OneEditor /\ events \subseteq {"failure"} => SavedOnce

\* A text that stays in the editor reaches localStorage or the server: the
\* debounce of every key stroke does not put the write off for ever.
DraftStored ==
    \A t \in Tabs, s \in Slots, text \in 1 .. MaxText :
      (s \in Mounted(t) /\ ed[t][s].text = text)
        ~> (stored = text \/ text \in Range(memos) \/ ~(s \in Mounted(t) /\ ed[t][s].text = text))
-----------------------------------------------------------------------------
(* Why DraftSafe holds                                                       *)

Busy(t) == {s \in Slots : ed[t][s].is # "none"}

\* An editor is what a new one is once it has gone; only a save goes on without
\* its editor. The text does not change during a save, which is about that text
\* and discards it when it is answered.
EditorFormed(e) ==
    /\ e.is = "none" => e = NoEditor
    /\ e.is = "gone" => e.pc # "idle" /\ ~hosted
    /\ e.latest = e.text /\ e.text <= typed
    /\ e.discarded = IF e.pc = "settling" THEN e.text ELSE None
    /\ e.pc # "saving" => e.sent = <<>> /\ e.made = None
    /\ e.pc # "idle" => e.text # Blank
    /\ e.pc = "saving" => (e.sent = <<e.text>> /\ e.made = None) \/ (e.sent = <<>> /\ e.made = e.text)
    /\ e.pc = "settling" \/ e.made # None => e.text \in Range(memos)

\* Nothing is newer than the text typed last.
TextsOld ==
    /\ stored <= typed /\ acked \subseteq 1 .. typed /\ Range(memos) \subseteq 1 .. typed
    /\ \A t \in Tabs : timer[t] = None \/ timer[t] <= typed

\* Without an editor on the screen localStorage has what was typed and no timer
\* runs; a save that goes on without its editor has left its text there.
LeftBehind ==
    \A t \in Tabs :
      /\ Mounted(t) = {} => timer[t] = None /\ kept \subseteq {stored} \cup Range(memos)
      /\ \A s \in Busy(t) : kept \subseteq {ed[t][s].text} \cup Range(memos)
      /\ \A s \in Slots : ed[t][s].pc = "settling" => stored = Blank /\ timer[t] = None

\* A text whose save was answered is nowhere but in an editor that settles.
NotAgain ==
    /\ stored \notin acked
    /\ \A t \in Tabs :
         /\ timer[t] \notin acked
         /\ \A s \in Slots : ed[t][s].pc # "settling" => ed[t][s].text \notin acked

\* What may still be saved is in no memo, until the answer is on its way.
Unsaved ==
    \A t \in Tabs :
      (\A s \in Slots : ed[t][s].made = None) =>
        /\ stored \notin Range(memos) /\ timer[t] \notin Range(memos)
        /\ \A s \in Slots : ed[t][s].pc # "settling" => ed[t][s].text \notin Range(memos)

DraftInv ==
    /\ DraftTypeOK
    /\ OneEditor =>
         /\ \A t \in Tabs, s \in Slots : EditorFormed(ed[t][s])
         /\ \A t \in Tabs, s, u \in Slots : s \in Busy(t) /\ u \in Busy(t) => s = u
         /\ TextsOld /\ LeftBehind /\ NotAgain
    /\ OneEditor /\ events \subseteq {"failure"} => Unsaved /\ SavedOnce
=============================================================================
