---------------------------- MODULE MusicPlayer ----------------------------
(* The background music of a site (MusicPlayerContext.tsx): the play order,  *)
(* the audio element, autoplay with the browser's wait for a gesture, and    *)
(* the choices of a visitor, kept in localStorage for every tab.             *)
(*                                                                           *)
(* A track is its number in the list. A render and the effects that follow   *)
(* it belong to the step that caused them. Volume, mute, seeking and the     *)
(* analyser are left out: they change neither what plays nor whether it does.*)
EXTENDS Naturals, Sequences, FiniteSets, SequencesExt

CONSTANTS
    Tabs,       \* tabs of one browser
    Sizes,      \* the number of tracks of each playlist the admin may set
    Modes,      \* the orders in use, of "sequential", "reverse" and "random"
    Gestures,   \* which of "pointerdown" and "keydown" a visitor makes
    Blocking,   \* whether the browser may refuse to play before a gesture: of FALSE and TRUE
    MaxMoves    \* bound on what the visitor and the admin do

VARIABLES
    site,     \* the admin's settings: the playlist, whether music is on, whether it starts by itself
    stored,   \* localStorage: the visitor's choices
    tab,      \* the player of every tab
    blocked,  \* the browser refuses to play with sound before a gesture
    moves

vars == <<site, stored, tab, blocked, moves>>

NoTrack == 0
Tracks(list) == 1 .. Sizes[list]

\* MusicPrefs: the mode the visitor set ("" for the admin's), whether the music
\* was switched off, and the track and playlist that played last.
NoPrefs == [mode |-> "", off |-> FALSE, track |-> NoTrack, list |-> 0]

\* The settings as the tab knows them; prefs; the queue, the position in it and what
\* it was dealt for; the playlist of the last deal (previousPlaylistRef); what is
\* loaded in the audio element and whether that is paused; wantsPlayRef; what the
\* autoplay effect ran for, autoplayAttemptedRef, and what the attempt left behind;
\* whether the visitor has used the page; and, as history, whether a listener of the
\* attempt started the music after it was switched off.
Closed ==
    [open |-> FALSE, site |-> [list |-> 1, on |-> TRUE, auto |-> TRUE], prefs |-> NoPrefs,
     queue |-> <<>>, pos |-> 0, list |-> 0, mode |-> "", prev |-> 0,
     loaded |-> <<NoTrack, 0>>, paused |-> TRUE, wants |-> FALSE, deps |-> <<>>,
     attempted |-> FALSE, started |-> FALSE, armed |-> {}, used |-> FALSE, woken |-> FALSE]

\* The admin's mode applies until the visitor sets one.
DefaultMode == CHOOSE m \in Modes : TRUE
ModeOf(prefs) == IF prefs.mode = "" THEN DefaultMode ELSE prefs.mode

\* current: the track at the position, once the queue is dealt for the playlist.
Current(p) ==
    IF p.site.on /\ p.list = p.site.list /\ Len(p.queue) = Sizes[p.site.list] THEN p.queue[p.pos] ELSE NoTrack

CanPlay(p) == ~blocked \/ p.used

-----------------------------------------------------------------------------
(* The play order                                                            *)

\* buildQueue: a random order starts with the given track.
BuildQueue(n, mode, first) ==
    CASE mode = "sequential" -> {[i \in 1 .. n |-> i]}
      [] mode = "reverse" -> {[i \in 1 .. n |-> n + 1 - i]}
      [] OTHER -> IF first = NoTrack
                  THEN SetToSeqs(1 .. n)
                  ELSE {<<first>> \o q : q \in SetToSeqs((1 .. n) \ {first})}

\* Mutant: a random order starts anywhere, whatever plays.
KeepsAny(p, n, mode) ==
    IF mode = "random"
    THEN {i \in 1 .. n : n = 1 \/ i # p.prefs.track}
    ELSE {IF p.queue = <<>> THEN 1 ELSE p.queue[p.pos]}

\* The track that a fresh order keeps: the one that plays, the one saved for this
\* playlist, or for another playlist its first track or a random one.
Keeps(p, n, mode) ==
    LET changed == p.prev # 0 /\ p.prev # p.site.list
        plays == IF p.queue = <<>> THEN NoTrack ELSE p.queue[p.pos]
        same == plays \in 1 .. n
    IN CASE mode = "random" /\ (changed \/ ~same) -> {i \in 1 .. n : n = 1 \/ i # p.prefs.track}
         [] changed /\ mode # "random" -> {1}
         [] ~changed /\ same -> {plays}
         [] OTHER -> {IF p.prefs.list = p.site.list THEN p.prefs.track ELSE NoTrack}

\* The effect that deals a fresh order when the playlist or the mode changed.
Dealt(p) ==
    LET n == Sizes[p.site.list]  mode == ModeOf(p.prefs)
    IN IF ~p.open \/ (p.list = p.site.list /\ p.mode = mode)
       THEN {p}
       ELSE UNION {{[p EXCEPT !.queue = q, !.pos = IF k = NoTrack THEN 1 ELSE CHOOSE i \in 1 .. n : q[i] = k,
                              !.list = p.site.list, !.mode = mode, !.prev = p.site.list]
                      : q \in BuildQueue(n, mode, k)} : k \in Keeps(p, n, mode)}

-----------------------------------------------------------------------------
(* The effects                                                               *)

\* Mutant: the new track is loaded and waits for a click.
LoadedSilent(p) ==
    IF Current(p) = NoTrack \/ p.loaded = <<Current(p), p.list>>
    THEN p
    ELSE [p EXCEPT !.loaded = <<Current(p), p.list>>, !.paused = TRUE]

\* A change of the track loads it, which pauses the element, and goes on playing
\* if that is what was wanted.
Loaded(p) ==
    IF Current(p) = NoTrack \/ p.loaded = <<Current(p), p.list>>
    THEN p
    ELSE [p EXCEPT !.loaded = <<Current(p), p.list>>, !.paused = ~(p.wants /\ CanPlay(p))]

\* The track and the playlist are noted among the visitor's choices.
Noted(p) ==
    IF Current(p) = NoTrack THEN p ELSE [p EXCEPT !.prefs.track = Current(p), !.prefs.list = p.site.list]

\* startPlayback
Played(p) == [p EXCEPT !.wants = TRUE, !.paused = @ /\ ~CanPlay(p)]

\* The clean-up of the autoplay effect: an attempt that started nothing may be made
\* again, and no gesture is awaited any more.
Disarmed(p) == [p EXCEPT !.armed = {}, !.attempted = @ /\ p.started]

\* One attempt; if the browser refuses, the first gesture of each kind is awaited.
Attempted(p) ==
    LET q == Played([p EXCEPT !.attempted = TRUE])
    IN [q EXCEPT !.started = ~q.paused, !.armed = IF q.paused THEN {"pointerdown", "keydown"} ELSE {}]

\* Autoplay on arrival: the effect runs when music, autoplay or the presence of a
\* current track changed, and at no other render.
Autoplayed(p) ==
    LET deps == <<p.site.on, p.site.auto, Current(p) # NoTrack>>
        q == [Disarmed(p) EXCEPT !.deps = deps]
    IN CASE deps = p.deps -> p
         [] deps # p.deps /\ ~(p.site.on /\ p.site.auto) -> [q EXCEPT !.attempted = FALSE]
         [] OTHER -> IF q.attempted \/ q.prefs.off \/ Current(q) = NoTrack THEN q ELSE Attempted(q)

\* Music that is switched off by the admin stops.
Silenced(p) == IF p.site.on THEN p ELSE [p EXCEPT !.wants = FALSE, !.paused = TRUE]

\* What a tab may become by the effects of a render, before the order is dealt and
\* after it.
Settled(p) == {Silenced(Autoplayed(Loaded(Noted(q)))) : q \in Dealt(Autoplayed(p))}

-----------------------------------------------------------------------------
(* The visitor                                                               *)

\* A click or a key anywhere on the page: onFirstGesture, which every kind of
\* gesture runs once.
Gesture(p, g) ==
    LET q == [p EXCEPT !.used = TRUE, !.armed = @ \ {g}]
    IN IF g \in p.armed /\ p.paused THEN [Played(q) EXCEPT !.started = TRUE, !.woken = p.prefs.off] ELSE q

\* A step of the visitor in a tab, that leaves the player in one of the states of
\* After, and the render. A handler that saves calls updatePrefs, which writes all
\* that this tab knows of the choices over what is stored; a new track does so too.
Becomes(t, saves, After) ==
    /\ \E h \in After : \E q \in Settled(h) :
         /\ tab' = [tab EXCEPT ![t] = q]
         /\ stored' = IF saves \/ q.prefs # tab[t].prefs THEN q.prefs ELSE stored
    /\ UNCHANGED <<site, blocked>>

Move == moves < MaxMoves /\ moves' = moves + 1

\* A handler that runs by a click or a key, which is a gesture first.
Does(t, saves, Handler(_)) ==
    /\ tab[t].open /\ Move
    /\ \E g \in Gestures : Becomes(t, saves, Handler(Gesture(tab[t], g)))

\* Any click or key that is not for the player.
Elsewhere(t) == Does(t, FALSE, LAMBDA p : {p})

\* toggle: the player may have been started by the gesture that is its click.
Toggle(t) ==
    /\ Current(tab[t]) # NoTrack
    /\ \E g \in Gestures :
         LET p == Gesture(tab[t], g)
         IN Move /\ Becomes(t, p.paused, {IF p.paused THEN Played([p EXCEPT !.prefs.off = FALSE])
                                    ELSE [p EXCEPT !.wants = FALSE, !.paused = TRUE]})

\* playAt a place of the queue.
PlayAt(t) ==
    \E i \in 1 .. Len(tab[t].queue) :
      Does(t, TRUE, LAMBDA p : LET q == [p EXCEPT !.prefs.off = FALSE, !.wants = TRUE]
                               IN {IF i = p.pos THEN Played(q) ELSE [q EXCEPT !.pos = i]})

\* Mutant: the new round may open with the song that just played.
MovedAnew(p, d) ==
    LET n == Len(p.queue)  over == p.mode = "random" /\ p.pos + d > n
        Q == IF over THEN SetToSeqs(1 .. n) ELSE {p.queue}
        pos == IF over \/ p.pos + d > n THEN 1 ELSE IF p.pos + d < 1 THEN n ELSE p.pos + d
    IN {IF q[pos] = p.queue[p.pos] /\ p.wants THEN Played([p EXCEPT !.queue = q, !.pos = pos])
        ELSE [p EXCEPT !.queue = q, !.pos = pos] : q \in Q}

\* move: the next or the previous place, around the list; a random round that is
\* over deals a new one, which ends with the song that just played. A song that
\* stays is restarted by hand.
Moved(p, d) ==
    LET n == Len(p.queue)  index == p.queue[p.pos]
        over == p.mode = "random" /\ p.pos + d > n
        Q == IF over THEN {Append(q, index) : q \in SetToSeqs((1 .. n) \ {index})} ELSE {p.queue}
        pos == IF p.pos + d > n THEN 1 ELSE IF p.pos + d < 1 THEN n ELSE p.pos + d
    IN {IF q[pos] = index /\ p.wants THEN Played([p EXCEPT !.queue = q, !.pos = pos])
        ELSE [p EXCEPT !.queue = q, !.pos = pos] : q \in Q}

\* step: the next and the previous button.
Step(t) ==
    /\ tab[t].queue # <<>>
    /\ \E d \in {1, -1} : Does(t, TRUE, LAMBDA p : Moved([p EXCEPT !.prefs.off = FALSE, !.wants = TRUE], d))

\* The track comes to its end: the element pauses, and the next track follows.
Ended(t) ==
    /\ ~tab[t].paused
    /\ Becomes(t, FALSE, Moved([tab[t] EXCEPT !.paused = TRUE], 1))
    /\ UNCHANGED moves

\* setMode
SetMode(t) == \E m \in Modes : Does(t, TRUE, LAMBDA p : {[p EXCEPT !.prefs.mode = m]})

\* Mutant: the music stops, and the wish to play stays.
TurnOffPaused(t) ==
    Does(t, TRUE, LAMBDA p : {[p EXCEPT !.paused = TRUE, !.prefs.off = TRUE, !.woken = FALSE]})

\* turnOff
TurnOff(t) ==
    Does(t, TRUE, LAMBDA p : {[p EXCEPT !.wants = FALSE, !.paused = TRUE, !.prefs.off = TRUE, !.woken = FALSE]})

\* resetPrefs: the entry is removed, and the track of the player is noted again.
ResetPrefs(t) == Does(t, TRUE, LAMBDA p : {[p EXCEPT !.prefs = NoPrefs]})

\* Mutant: a tab opens without the choices.
OpenFresh(t) ==
    /\ ~tab[t].open /\ Move
    /\ Becomes(t, FALSE, {[Closed EXCEPT !.open = TRUE, !.site = site]})

\* A tab opens with the choices that are stored, and closes.
Open(t) ==
    /\ ~tab[t].open /\ Move
    /\ Becomes(t, FALSE, {[Closed EXCEPT !.open = TRUE, !.prefs = stored, !.prev = stored.list, !.site = site]})

Close(t) ==
    /\ tab[t].open /\ Move
    /\ tab' = [tab EXCEPT ![t] = Closed]
    /\ UNCHANGED <<site, stored, blocked>>

-----------------------------------------------------------------------------
(* The admin                                                                 *)

\* The playlist is exchanged, or the music switched.
Configure ==
    /\ Move
    /\ \E s \in [list : 1 .. Len(Sizes), on : BOOLEAN, auto : BOOLEAN] : s # site /\ site' = s
    /\ UNCHANGED <<stored, tab, blocked>>

\* A tab learns of the settings. Another playlist leaves it without a track until
\* the order is dealt.
Refetch(t) ==
    /\ tab[t].open /\ tab[t].site # site
    /\ Becomes(t, FALSE, {[tab[t] EXCEPT !.site = site]})
    /\ UNCHANGED moves

-----------------------------------------------------------------------------
Init ==
    /\ site = [list |-> 1, on |-> TRUE, auto |-> TRUE]
    /\ stored = NoPrefs
    /\ blocked \in Blocking
    /\ tab = [t \in Tabs |-> Closed]
    /\ moves = 0

Visit(t) ==
    \/ Elsewhere(t) \/ Toggle(t) \/ PlayAt(t) \/ Step(t) \/ SetMode(t)
    \/ TurnOff(t) \/ ResetPrefs(t) \/ Open(t) \/ Close(t)

Next == Configure \/ \E t \in Tabs : Visit(t) \/ Ended(t) \/ Refetch(t)

\* A track that plays comes to its end.
Spec == Init /\ [][Next]_vars /\ \A t \in Tabs : WF_vars(Ended(t))

-----------------------------------------------------------------------------
(* Properties                                                                *)

\* The order is one of all the tracks it was dealt for, and the element holds a
\* track of a playlist.
TypeOK ==
    /\ site \in [list : 1 .. Len(Sizes), on : BOOLEAN, auto : BOOLEAN] /\ moves \in 0 .. MaxMoves
    /\ \A t \in Tabs :
         LET p == tab[t]
         IN /\ p.list # 0 => ToSet(p.queue) = Tracks(p.list) /\ Len(p.queue) = Sizes[p.list] /\ p.pos \in 1 .. Len(p.queue)
            /\ p.armed # {} => p.attempted
            /\ {p.paused, p.wants, p.attempted, p.started, p.woken} \subseteq BOOLEAN

\* Music that the visitor switched off in a tab does not play there, and nothing
\* starts it, not the end of a track, a new playlist or autoplay, until the visitor
\* presses play or a listener that an attempt at autoplay left hears a first gesture.
OffStaysOff == \A t \in Tabs : tab[t].prefs.off /\ ~tab[t].woken => tab[t].paused /\ ~tab[t].wants

\* The stored choice to keep the music off is taken back by play, by a choice of a
\* track, by a reset, or by a tab that was open already and does not know of it; and
\* by nothing else that a tab does.
OffRemembered ==
    [][stored.off /\ ~stored'.off =>
         \E t \in Tabs :
           \/ Toggle(t) \/ PlayAt(t) \/ Step(t) \/ ResetPrefs(t)
           \/ tab[t].open /\ ~tab[t].prefs.off /\ stored' = tab'[t].prefs]_vars

\* A song of a list of several is never followed by itself: not in any order, not
\* from one random round to the next.
NoRepeat ==
    [][\A t \in Tabs : Ended(t) /\ Sizes[tab[t].list] > 1 => Current(tab'[t]) # Current(tab[t])]_vars

\* Another order never jumps away from the song that is current.
KeepsCurrent ==
    [][\A t \in Tabs : tab[t].open /\ SetMode(t) => Current(tab'[t]) = Current(tab[t])]_vars

\* While music is wanted and on, the songs follow each other without end and every
\* one gets its turn.
EveryTrackPlays ==
    \A t \in Tabs, i \in Tracks(1) :
      <>[](tab[t].wants /\ tab[t].site.list = 1 /\ tab[t].site.on)
        => []<>(Current(tab[t]) = i /\ ~tab[t].paused)
=============================================================================
