----------------------------- MODULE ServerProofs -----------------------------
(* Proofs about the parts of the server that work without a transaction: lists *)
(* of user settings, Space invitations and attachments, for any sets of ids,   *)
(* goroutines, pairs and attachments and any failures and crashes. The cache   *)
(* of users has its proofs in UserCacheProofs.                                 *)
EXTENDS Server, UserCacheProofs

-----------------------------------------------------------------------------
(* User settings.                                                            *)

LEMMA TypeInit == Init => TypeOK
<1> SUFFICES ASSUME Init PROVE TypeOK
  OBVIOUS
<1> USE DEF Init, Places, Changes, Reads
<1>1. stored \in BOOLEAN /\ cached \in BOOLEAN /\ overtaken \in BOOLEAN
  BY Zenon
<1>2. OneInside
  BY UserSettingsAssumption DEF Inside, OneInside
<1>3. Placed
  BY DEF Placed
<1> QED
  BY <1>1, <1>2, <1>3 DEF TypeOK, Types

\* Every step of user_setting.go keeps the types and the mutex with the one
\* change that is inside.
LEMMA TypeStep == TypeOK /\ [Next]_vars => TypeOK'
<1> SUFFICES ASSUME TypeOK, [Next]_vars PROVE TypeOK'
  OBVIOUS
<1> USE UserSettingsAssumption DEF TypeOK, Places, Changes, Reads
<1>1. ASSUME NEW t \in Threads, NEW what \in Changes \cup Reads, NEW x \in Items,
             Begin(t, what, x)
      PROVE  TypeOK'
  <2>1. Types'
    BY <1>1 DEF Begin, Types
  <2>2. Placed'
    BY <1>1 DEF Begin, Types, Placed
  <2>3. OneInside'
    BY <1>1 DEF Begin, Types, OneInside, Inside, Locked
  <2> QED
    BY <2>1, <2>2, <2>3
<1>2. ASSUME NEW t \in Threads, Lock(t) PROVE TypeOK'
  <2>1. Types'
    BY <1>2 DEF Lock, Types
  <2>2. Placed'
    BY <1>2 DEF Lock, Types, Placed
  <2>3. OneInside'
    BY <1>2 DEF Lock, Types, Placed, OneInside, Inside, Locked
  <2> QED
    BY <2>1, <2>2, <2>3
<1>3. ASSUME NEW t \in Threads, LoadCached(t) PROVE TypeOK'
  <2>1. Types'
    BY <1>3 DEF LoadCached, Types
  <2>2. Placed'
    BY <1>3 DEF LoadCached, Types, Placed
  <2>3. OneInside'
    BY <1>3 DEF LoadCached, Types, Placed, OneInside, Inside, Locked
  <2> QED
    BY <2>1, <2>2, <2>3
<1>4. ASSUME NEW t \in Threads, LoadRow(t) PROVE TypeOK'
  <2>1. Types'
    BY <1>4 DEF LoadRow, Types
  <2>2. Placed'
    BY <1>4 DEF LoadRow, Types, Placed
  <2>3. OneInside'
    BY <1>4 DEF LoadRow, Types, Placed, OneInside, Inside, Locked
  <2> QED
    BY <2>1, <2>2, <2>3
<1>5. ASSUME NEW t \in Threads, Fill(t) PROVE TypeOK'
  <2>1. Types'
    BY <1>5 DEF Fill, SetCache, Types
  <2>2. Placed'
    BY <1>5 DEF Fill, SetCache, Types, Placed
  <2>3. OneInside'
    BY <1>5 DEF Fill, SetCache, Types, Placed, OneInside, Inside, Locked
  <2> QED
    BY <2>1, <2>2, <2>3
<1>6. ASSUME NEW t \in Threads, Refill(t) PROVE TypeOK'
  <2>1. Types'
    BY <1>6 DEF Refill, SetCache, Types
  <2>2. Placed'
    BY <1>6 DEF Refill, SetCache, Types, Placed
  <2>3. OneInside'
    BY <1>6 DEF Refill, SetCache, Types, Placed, OneInside, Inside, Locked
  <2> QED
    BY <2>1, <2>2, <2>3
<1>7. ASSUME NEW t \in Threads, Skip(t) PROVE TypeOK'
  <2>1. Types'
    BY <1>7 DEF Skip, Leave, Types
  <2>2. Placed'
    BY <1>7 DEF Skip, Leave, Types, Placed
  <2>3. OneInside'
    BY <1>7 DEF Skip, Leave, Types, Placed, OneInside, Inside, Locked
  <2> QED
    BY <2>1, <2>2, <2>3
<1>8. ASSUME NEW t \in Threads, Write(t) PROVE TypeOK'
  <2>1. Types'
    BY <1>8 DEF Write, Changed, Types
  <2>2. Placed'
    BY <1>8 DEF Write, Changed, Types, Placed
  <2>3. OneInside'
    BY <1>8 DEF Write, Changed, Types, Placed, OneInside, Inside, Locked
  <2> QED
    BY <2>1, <2>2, <2>3
<1>9. ASSUME NEW t \in Threads, Set(t) PROVE TypeOK'
  <2>1. Types'
    BY <1>9 DEF Set, Leave, SetCache, Types
  <2>2. Placed'
    BY <1>9 DEF Set, Leave, SetCache, Types, Placed
  <2>3. OneInside'
    BY <1>9 DEF Set, Leave, SetCache, Types, Placed, OneInside, Inside, Locked
  <2> QED
    BY <2>1, <2>2, <2>3
<1>10. ASSUME NEW t \in Threads, Fail(t) PROVE TypeOK'
  <2>1. Types'
    BY <1>10 DEF Fail, Leave, Types
  <2>2. Placed'
    BY <1>10 DEF Fail, Leave, Types, Placed
  <2>3. OneInside'
    BY <1>10 DEF Fail, Leave, Types, Placed, OneInside, Inside, Locked
  <2> QED
    BY <2>1, <2>2, <2>3
<1>11. CASE Evict
  BY <1>11 DEF Evict, Types, Placed, OneInside, Inside, Locked
<1>12. CASE UNCHANGED vars
  BY <1>12 DEF vars, Types, Placed, OneInside, Inside, Locked
<1> QED
  BY <1>1, <1>2, <1>3, <1>4, <1>5, <1>6, <1>7, <1>8, <1>9, <1>10, <1>11, <1>12
     DEF Next, Step

\* No step makes two calls add one id, or a call add an id that was used.
LEMMA IdsStep == TypeOK /\ IdsFresh /\ [Next]_vars => IdsFresh'
<1> SUFFICES ASSUME TypeOK, IdsFresh, [Next]_vars PROVE IdsFresh'
  OBVIOUS
<1> USE DEF TypeOK, Types, IdsFresh, BeforeWrite, Changes
<1>1. ASSUME NEW t \in Threads, NEW what \in Changes \cup Reads, NEW x \in Items,
             Begin(t, what, x)
      PROVE  IdsFresh'
  BY <1>1 DEF Begin
<1>2. ASSUME NEW t \in Threads, Lock(t) PROVE IdsFresh'
  BY <1>2 DEF Lock
<1>3. ASSUME NEW t \in Threads, LoadCached(t) PROVE IdsFresh'
  BY <1>3 DEF LoadCached
<1>4. ASSUME NEW t \in Threads, LoadRow(t) PROVE IdsFresh'
  BY <1>4 DEF LoadRow
<1>5. ASSUME NEW t \in Threads, Fill(t) PROVE IdsFresh'
  BY <1>5 DEF Fill, SetCache
<1>6. ASSUME NEW t \in Threads, Refill(t) PROVE IdsFresh'
  BY <1>6 DEF Refill, SetCache
<1>7. ASSUME NEW t \in Threads, Skip(t) PROVE IdsFresh'
  BY <1>7 DEF Skip, Leave
<1>8. ASSUME NEW t \in Threads, Write(t) PROVE IdsFresh'
  BY <1>8 DEF Write, Changed
<1>9. ASSUME NEW t \in Threads, Set(t) PROVE IdsFresh'
  BY <1>9 DEF Set, Leave, SetCache
<1>10. ASSUME NEW t \in Threads, Fail(t) PROVE IdsFresh'
  BY <1>10 DEF Fail, Leave
<1>11. CASE Evict
  BY <1>11 DEF Evict
<1>12. CASE UNCHANGED vars
  BY <1>12 DEF vars
<1> QED
  BY <1>1, <1>2, <1>3, <1>4, <1>5, <1>6, <1>7, <1>8, <1>9, <1>10, <1>11, <1>12
     DEF Next, Step

\* Under the mutex a change works on the row, until a list is overtaken.
LEMMA CoherentStep == TypeOK /\ Coherent /\ [Next]_vars => Coherent'
<1> SUFFICES ASSUME TypeOK, Coherent, [Next]_vars, Locked PROVE Coherent'
  BY DEF Coherent, Locked
<1> USE UserSettingsAssumption DEF TypeOK, Types, Placed, OneInside, Inside, Coherent, Changes
<1>1. ASSUME NEW t \in Threads, NEW what \in Changes \cup Reads, NEW x \in Items,
             Begin(t, what, x)
      PROVE  Coherent'
  BY <1>1 DEF Begin
<1>2. ASSUME NEW t \in Threads, Lock(t) PROVE Coherent'
  BY <1>2 DEF Lock
<1>3. ASSUME NEW t \in Threads, LoadCached(t) PROVE Coherent'
  BY <1>3 DEF LoadCached
<1>4. ASSUME NEW t \in Threads, LoadRow(t) PROVE Coherent'
  BY <1>4 DEF LoadRow
<1>5. ASSUME NEW t \in Threads, Fill(t) PROVE Coherent'
  BY <1>5 DEF Fill, SetCache
<1>6. ASSUME NEW t \in Threads, Refill(t) PROVE Coherent'
  BY <1>6 DEF Refill, SetCache
<1>7. ASSUME NEW t \in Threads, Skip(t) PROVE Coherent'
  BY <1>7 DEF Skip, Leave
<1>8. ASSUME NEW t \in Threads, Write(t) PROVE Coherent'
  BY <1>8 DEF Write, Changed
<1>9. ASSUME NEW t \in Threads, Set(t) PROVE Coherent'
  BY <1>9 DEF Set, Leave, SetCache
<1>10. ASSUME NEW t \in Threads, Fail(t) PROVE Coherent'
  BY <1>10 DEF Fail, Leave
<1>11. CASE Evict
  BY <1>11 DEF Evict
<1>12. CASE UNCHANGED vars
  BY <1>12 DEF vars
<1> QED
  BY <1>1, <1>2, <1>3, <1>4, <1>5, <1>6, <1>7, <1>8, <1>9, <1>10, <1>11, <1>12
     DEF Next, Step

\* Only a write changes the row, and it changes it the way it is recorded.
LEMMA ExactStep == IInv /\ [Next]_vars => ExactUnlessOvertaken'
<1> SUFFICES ASSUME IInv, [Next]_vars, Locked, ~overtaken' PROVE Exact'
  BY DEF ExactUnlessOvertaken, Locked
<1>1. ~overtaken => Exact
  BY DEF IInv, ExactUnlessOvertaken
<1>2. ASSUME NEW t \in Threads, Write(t) PROVE Exact'
  <2>1. Exact /\ seen[t] = row
    BY <1>1, <1>2 DEF Write, IInv, TypeOK, Placed, Coherent, Inside
  <2>2. BeforeWrite(t)
    BY <1>2 DEF Write, BeforeWrite
  <2> QED
    BY <1>2, <2>1, <2>2 DEF Write, Changed, Exact, IInv, IdsFresh
<1>3. CASE UNCHANGED <<row, added, removed>> /\ ~overtaken
  BY <1>1, <1>3 DEF Exact
<1>4. (\E t \in Threads : Write(t)) \/ (UNCHANGED <<row, added, removed>> /\ ~overtaken)
  BY ZenonT(60) DEF Next, Step, Begin, Lock, LoadCached, LoadRow, Fill, Refill, SetCache, Skip, Set,
         Fail, Evict, vars
<1> QED
  BY <1>2, <1>3, <1>4

LEMMA SettingsInvariant == Spec => []IInv
<1>1. Init => IInv
  <2> SUFFICES ASSUME Init PROVE IInv
    OBVIOUS
  <2>1. IdsFresh /\ Coherent /\ ExactUnlessOvertaken
    BY DEF Init, IdsFresh, BeforeWrite, Coherent, Inside, ExactUnlessOvertaken, Exact
  <2> QED
    BY <2>1, TypeInit DEF IInv
<1>2. IInv /\ [Next]_vars => IInv'
  BY TypeStep, IdsStep, CoherentStep, ExactStep DEF IInv
<1> QED
  BY <1>1, <1>2, PTL DEF Spec

\* Types are kept, and no return path of user_setting.go forgets the mutex or
\* lets two changes of one list in.
THEOREM SettingsTypeCorrect == Spec => []TypeOK
  BY SettingsInvariant, PTL DEF IInv

\* The lists guarded by a mutex (refresh tokens, personal access tokens, memo
\* views) are what their finished changes say, until a reader puts a list in the
\* cache that was overwritten since it was read.
THEOREM SettingsExact == Spec => []ExactUnlessOvertaken
  BY SettingsInvariant, PTL DEF IInv

-----------------------------------------------------------------------------
(* Space invitations.                                                        *)

\* The invariant of one pair.
Sound(p) ==
    p \in mixed \cup owed \cup gone
      \/ /\ Busy(p) = {} => Noted(p)
         /\ \A h, g \in Busy(p) : h = g
         /\ \A h \in Busy(p) : OnTrack(h)

LEMMA SoundPairs == WorkedAlone <=> (\A p \in gone : member[p] = "NONE") /\ \A p \in Pairs : Sound(p)
  BY DEF WorkedAlone, Sound

\* Handler h goes from nothing, or from work on p, to nothing or to work on p,
\* and touches no other pair.
Touches(h, p) ==
  /\ \A q \in Pairs \ {p} : member'[q] = member[q] /\ NotesOf(q)' = NotesOf(q)
                           /\ (q \in dismissed' <=> q \in dismissed)
  /\ gone' = gone
  /\ \A n \in inbox : n.pair # p => n \in inbox'
  /\ \A g \in Handlers \ {h} : work'[g] = work[g]
  /\ work[h] = NoJob \/ work[h].pair = p
  /\ work'[h] = NoJob \/ work'[h].pair = p
  /\ mixed \subseteq mixed' /\ owed \subseteq owed'

LEMMA OtherPairs ==
  ASSUME InviteTypeOK, NEW h \in Handlers, NEW p \in Pairs, Touches(h, p), NEW q \in Pairs \ {p}, Sound(q)
  PROVE  Sound(q)'
<1>1. Busy(q)' = Busy(q)
  BY DEF Busy, Touches
<1>2. \A g \in Busy(q) : work'[g] = work[g] /\ work[g].pair = q
  BY DEF Busy, Touches
<1>3. member'[q] = member[q] /\ NotesOf(q)' = NotesOf(q) /\ (q \in dismissed' <=> q \in dismissed)
  BY DEF Touches
<1>4. \A g \in Busy(q) : OnTrack(g) => OnTrack(g)'
  BY <1>2, <1>3 DEF OnTrack
<1>5. (\E n \in inbox : NotesOf(q) = {n}) => \E n \in inbox' : NotesOf(q)' = {n}
  BY <1>3 DEF Touches, NotesOf
<1>6. CASE q \in mixed \cup owed \cup gone
  BY <1>6 DEF Sound, Touches
<1>7. CASE q \notin mixed \cup owed \cup gone
  <2>1. /\ Busy(q) = {} => Noted(q)
        /\ \A g, k \in Busy(q) : g = k
        /\ \A g \in Busy(q) : OnTrack(g)
    BY <1>7 DEF Sound
  <2>2. Noted(q) => Noted(q)'
    BY <1>3, <1>5 DEF Noted
  <2> QED
    BY <1>1, <1>4, <2>1, <2>2 DEF Sound
<1> QED
  BY <1>6, <1>7

\* What a handler at work is doing.
LEMMA AtWork ==
  ASSUME InviteTypeOK, NEW h \in Handlers, work[h].at # "idle"
  PROVE  /\ work[h] \in Job /\ work[h] # NoJob /\ work[h].pair \in Pairs
         /\ h \in Busy(work[h].pair) /\ work[h].ids \in SUBSET Note
  BY DEF InviteTypeOK, NoJob, Job, Busy

LEMMA StartsSound == InviteInit => InviteTypeOK /\ WorkedAlone
<1> SUFFICES ASSUME InviteInit PROVE InviteTypeOK /\ WorkedAlone
  OBVIOUS
<1>1. InviteTypeOK
  BY DEF InviteInit, InviteTypeOK, NoJob
<1>2. \A p \in Pairs : Busy(p) = {} /\ NotesOf(p) = {} /\ member[p] # "INVITED"
  BY DEF InviteInit, Busy, NotesOf
<1>3. \A p \in gone : member[p] = "NONE"
  BY DEF InviteInit
<1> QED
  BY <1>1, <1>2, <1>3 DEF WorkedAlone, Noted

\* A transaction that changes the row of p, and the handler it leaves at work.
LEMMA StartStep ==
  ASSUME InviteTypeOK, WorkedAlone, NEW h \in Handlers, NEW p \in Pairs,
         NEW from, NEW to \in {"NONE", "INVITED", "ACTIVE"}, NEW place, Start(h, p, from, to, place),
         \/ from = "NONE" /\ to = "INVITED" /\ place = "notify" /\ p \notin gone
         \/ from = "INVITED" /\ to # "INVITED" /\ place = "list"
  PROVE  InviteTypeOK' /\ WorkedAlone'
<1> DEFINE w == [at |-> place, pair |-> p, ids |-> {}]
<1>1. w \in Job /\ w # NoJob
  BY DEF Job, NoJob
<1>2. work' = [work EXCEPT ![h] = w] /\ member' = [member EXCEPT ![p] = to]
  BY DEF Start
<1>3. work'[h] = w /\ \A g \in Handlers \ {h} : work'[g] = work[g]
  BY <1>2 DEF InviteTypeOK
<1>4. member'[p] = to /\ \A q \in Pairs \ {p} : member'[q] = member[q]
  BY <1>2 DEF InviteTypeOK
<1>5. /\ UNCHANGED <<inbox, gone, owed>> /\ mixed \subseteq mixed' /\ work[h] = NoJob /\ member[p] = from
      /\ dismissed' = IF to = "INVITED" THEN dismissed \ {p} ELSE dismissed
  BY DEF Start
<1>6. InviteTypeOK'
  <2>1. work' \in [Handlers -> Job \cup {NoJob}] /\ member' \in [Pairs -> {"NONE", "INVITED", "ACTIVE"}]
    BY <1>1, <1>2 DEF InviteTypeOK
  <2>2. \A g \in Handlers : work'[g] # NoJob => \A n \in work'[g].ids : n.pair = work'[g].pair
    BY <1>3 DEF InviteTypeOK
  <2>3. owner' \in [Pairs -> Handlers \cup {"nobody"}] /\ dismissed' \cup gone' \cup owed' \cup mixed' \subseteq Pairs
    BY DEF Start, InviteTypeOK
  <2> QED
    BY <1>5, <2>1, <2>2, <2>3 DEF InviteTypeOK, Start
<1>7. Touches(h, p)
  BY <1>3, <1>4, <1>5 DEF Touches, NotesOf
<1>8. Sound(p)'
  <2>1. CASE Busy(p) # {} \/ p \in mixed \cup owed \cup gone
    BY <1>5, <2>1 DEF Start, Sound
  <2>2. CASE Busy(p) = {} /\ p \notin mixed \cup owed \cup gone
    <3>1. Busy(p)' = {h}
      BY <1>1, <1>3, <2>2 DEF Busy
    <3>2. NotesOf(p)' = NotesOf(p) /\ (member[p] # "INVITED" => NotesOf(p) = {})
      BY <1>5, <2>2 DEF WorkedAlone, NotesOf, Noted
    <3>3. OnTrack(h)'
      BY <1>3, <1>4, <1>5, <3>2 DEF OnTrack
    <3> QED
      BY <3>1, <3>3 DEF Sound
  <2> QED
    BY <2>1, <2>2
<1>9. \A q \in gone' : member'[q] = "NONE"
  BY <1>4, <1>5 DEF WorkedAlone, InviteTypeOK
<1>10. \A q \in Pairs : Sound(q)'
  BY <1>7, <1>8, OtherPairs, SoundPairs
<1> QED
  BY <1>6, <1>9, <1>10 DEF WorkedAlone, Sound

\* Memberships end and notifications are deleted by nobody at work on the pair.
LEMMA RemovalStep ==
  ASSUME InviteTypeOK, WorkedAlone, NEW s \in SUBSET inbox, RemoveNotes(s),
         member' \in [Pairs -> {"NONE", "INVITED", "ACTIVE"}],
         UNCHANGED <<owner, notes, work, fails, mixed>>, owed \subseteq owed', owed' \subseteq Pairs,
         gone \subseteq gone', gone' \subseteq Pairs,
         \A q \in Pairs : \/ member'[q] = member[q] /\ (q \in gone' => q \in gone)
                          \/ member'[q] = "NONE" /\ (q \in gone' \/ member[q] = "ACTIVE")
  PROVE  InviteTypeOK' /\ WorkedAlone'
<1>1. inbox' = inbox \ s /\ dismissed' = dismissed \cup {n.pair : n \in s}
  BY DEF RemoveNotes
<1>2. \A n \in s : n \in Note /\ n.pair \in Pairs
  BY DEF InviteTypeOK, Note
<1>3. InviteTypeOK'
  BY <1>1, <1>2 DEF InviteTypeOK
<1>4. \A q \in gone' : member'[q] = "NONE"
  BY DEF WorkedAlone, InviteTypeOK
<1>5. ASSUME NEW q \in Pairs \ (mixed' \cup owed' \cup gone')
      PROVE  /\ Busy(q)' = {} => Noted(q)'
             /\ \A h, g \in Busy(q)' : h = g
             /\ \A h \in Busy(q)' : OnTrack(h)'
  <2>1. /\ Busy(q) = {} => Noted(q)
        /\ \A h, g \in Busy(q) : h = g
        /\ \A h \in Busy(q) : OnTrack(h)
    BY <1>5 DEF WorkedAlone
  <2>2. Busy(q)' = Busy(q) /\ (member'[q] = "INVITED" <=> member[q] = "INVITED")
    BY <1>5 DEF Busy
  <2>3. NotesOf(q)' = NotesOf(q) \ s
    BY <1>1 DEF NotesOf
  <2>4. \/ NotesOf(q)' = NotesOf(q) /\ (q \in dismissed' <=> q \in dismissed)
        \/ q \in dismissed' /\ \E n \in NotesOf(q) : n \in s
    <3>1. CASE \E n \in s : n.pair = q
      BY <1>1, <3>1 DEF NotesOf
    <3>2. CASE ~\E n \in s : n.pair = q
      BY <1>1, <2>3, <3>2 DEF NotesOf
    <3> QED
      BY <3>1, <3>2
  <2>5. Noted(q) => Noted(q)'
    <3>1. CASE NotesOf(q)' = NotesOf(q) /\ (q \in dismissed' <=> q \in dismissed)
      BY <1>1, <2>2, <3>1 DEF Noted, NotesOf
    <3>2. CASE q \in dismissed' /\ \E n \in NotesOf(q) : n \in s
      BY <2>2, <2>3, <3>2 DEF Noted
    <3> QED
      BY <2>4, <3>1, <3>2
  <2>6. ASSUME NEW h \in Busy(q), OnTrack(h) PROVE OnTrack(h)'
    <3>1. work'[h] = work[h] /\ work[h].pair = q
      BY DEF Busy
    <3> QED
      BY <2>2, <2>3, <2>4, <2>6, <3>1 DEF OnTrack
  <2> QED
    BY <2>1, <2>2, <2>5, <2>6
<1> QED
  BY <1>3, <1>4, <1>5 DEF WorkedAlone

LEMMA LeaveStep ==
  ASSUME InviteTypeOK, WorkedAlone, NEW p \in Pairs, LeaveSpace(p)
  PROVE  InviteTypeOK' /\ WorkedAlone'
<1>1. RemoveNotes({}) /\ UNCHANGED <<owner, notes, work, fails, gone, owed, mixed>>
  BY DEF LeaveSpace, RemoveNotes
<1>2. member' \in [Pairs -> {"NONE", "INVITED", "ACTIVE"}] /\ gone \cup owed \subseteq Pairs
  BY DEF LeaveSpace, InviteTypeOK
<1>3. \A q \in Pairs : member'[q] = member[q] \/ (member'[q] = "NONE" /\ member[q] = "ACTIVE")
  BY DEF LeaveSpace, InviteTypeOK
<1> QED
  BY <1>1, <1>2, <1>3, RemovalStep

LEMMA DismissStep ==
  ASSUME InviteTypeOK, WorkedAlone, NEW n \in inbox, DeleteUserNotification(n)
  PROVE  InviteTypeOK' /\ WorkedAlone'
<1>1. RemoveNotes({n}) /\ UNCHANGED <<member, owner, notes, work, fails, gone, owed, mixed>>
  BY DEF DeleteUserNotification
<1>2. member' \in [Pairs -> {"NONE", "INVITED", "ACTIVE"}] /\ gone \cup owed \subseteq Pairs
  BY <1>1 DEF InviteTypeOK
<1> QED
  BY <1>1, <1>2, RemovalStep

LEMMA DeleteSpaceStep ==
  ASSUME InviteTypeOK, WorkedAlone, NEW s, DeleteSpace(s)
  PROVE  InviteTypeOK' /\ WorkedAlone'
<1>1. RemoveNotes({}) /\ UNCHANGED <<owner, notes, work, fails, owed, mixed>>
  BY DEF DeleteSpace, RemoveNotes
<1>2. member' \in [Pairs -> {"NONE", "INVITED", "ACTIVE"}]
  BY DEF DeleteSpace, InviteTypeOK
<1>3. gone \subseteq gone' /\ gone' \subseteq Pairs /\ owed \subseteq Pairs
  BY DEF DeleteSpace, InviteTypeOK
<1>4. \A q \in Pairs : \/ member'[q] = member[q] /\ (q \in gone' => q \in gone)
                       \/ member'[q] = "NONE" /\ q \in gone'
  BY DEF DeleteSpace
<1> QED
  BY <1>1, <1>2, <1>3, <1>4, RemovalStep

LEMMA DeleteAccountStep ==
  ASSUME InviteTypeOK, WorkedAlone, NEW ps \in SUBSET Pairs, NEW sent \in SUBSET inbox,
         NEW running \in SUBSET Pairs, DeleteAccount(ps, sent, running)
  PROVE  InviteTypeOK' /\ WorkedAlone'
<1>1. RemoveNotes(sent \cup {n \in inbox : n.pair \in ps}) /\ UNCHANGED <<owner, notes, work, fails, mixed>>
  BY DEF DeleteAccount
<1>2. member' \in [Pairs -> {"NONE", "INVITED", "ACTIVE"}]
  BY DEF DeleteAccount, InviteTypeOK
<1>3. gone \subseteq gone' /\ gone' \subseteq Pairs /\ owed \subseteq owed' /\ owed' \subseteq Pairs
  BY DEF DeleteAccount, InviteTypeOK
<1>4. \A q \in Pairs : \/ member'[q] = member[q] /\ (q \in gone' => q \in gone)
                       \/ member'[q] = "NONE" /\ q \in gone'
  BY DEF DeleteAccount
<1> QED
  BY <1>1, <1>2, <1>3, <1>4, RemovalStep

\* The handler at work on a pair that nobody else is at work on.
LEMMA Alone ==
  ASSUME InviteTypeOK, WorkedAlone, NEW h \in Handlers, work[h].at # "idle", work[h].pair \notin mixed \cup owed \cup gone
  PROVE  Busy(work[h].pair) = {h} /\ OnTrack(h)
<1>1. h \in Busy(work[h].pair) /\ work[h].pair \in Pairs
  BY AtWork
<1> QED
  BY <1>1 DEF WorkedAlone

\* The handler is done with the pair, which is as it should be.
LEMMA DoneStep ==
  ASSUME InviteTypeOK, WorkedAlone, NEW h \in Handlers, work[h].at # "idle", NEW p \in Pairs, p = work[h].pair,
         Answered(h), member' \in [Pairs -> {"NONE", "INVITED", "ACTIVE"}], inbox' \in SUBSET Note,
         notes' \in Nat, fails' \in Nat, UNCHANGED <<owner, dismissed, gone, mixed>>, owed' \in {owed, owed \cup {p}},
         member'[p] \in {member[p], "NONE"},
         \A q \in Pairs \ {p} : member'[q] = member[q] /\ NotesOf(q)' = NotesOf(q),
         p \in mixed \cup owed' \cup gone \/ Noted(p)'
  PROVE  InviteTypeOK' /\ WorkedAlone'
<1>1. work[h] # NoJob
  BY AtWork
<1>2. work'[h] = NoJob /\ (\A g \in Handlers \ {h} : work'[g] = work[g]) /\ work' \in [Handlers -> Job \cup {NoJob}]
  BY DEF Answered, InviteTypeOK
<1>3. InviteTypeOK'
  <2>1. \A g \in Handlers : work'[g] # NoJob => \A n \in work'[g].ids : n.pair = work'[g].pair
    BY <1>2 DEF InviteTypeOK
  <2>2. dismissed' \cup gone' \cup owed' \cup mixed' \subseteq Pairs
    BY <1>1 DEF InviteTypeOK
  <2> QED
    BY <1>2, <2>1, <2>2 DEF InviteTypeOK
<1>4. \A n \in inbox : n.pair # p => n \in inbox'
  <2> SUFFICES ASSUME NEW n \in inbox, n.pair # p PROVE n \in inbox'
    OBVIOUS
  <2>1. n.pair \in Pairs \ {p} /\ n \in NotesOf(n.pair)
    BY DEF InviteTypeOK, Note, NotesOf
  <2> QED
    BY <2>1 DEF NotesOf
<1>5. Touches(h, p)
  BY <1>2, <1>4 DEF Touches
<1>6. Sound(p)'
  <2>1. CASE p \in mixed \cup owed' \cup gone
    BY <2>1 DEF Sound
  <2>2. CASE p \notin mixed \cup owed' \cup gone
    <3>1. Busy(p) = {h}
      BY <1>1, <2>2, Alone
    <3>2. Busy(p)' = {}
      BY <1>2, <3>1 DEF Busy
    <3> QED
      BY <2>2, <3>2 DEF Sound
  <2> QED
    BY <2>1, <2>2
<1>7. \A q \in gone' : member'[q] = "NONE"
  BY DEF WorkedAlone, InviteTypeOK
<1>8. \A q \in Pairs : Sound(q)'
  BY <1>1, <1>5, <1>6, OtherPairs, SoundPairs
<1> QED
  BY <1>3, <1>7, <1>8 DEF WorkedAlone, Sound

\* The handler goes on with the pair.
LEMMA OnwardStep ==
  ASSUME InviteTypeOK, WorkedAlone, NEW h \in Handlers, work[h].at # "idle", NEW p \in Pairs, p = work[h].pair,
         NEW w \in Job, w.pair = p, work' = [work EXCEPT ![h] = w], \A n \in w.ids : n.pair = p,
         inbox' \in SUBSET inbox, fails' \in Nat, UNCHANGED <<owner, member, notes, dismissed, gone, owed, mixed>>,
         \A q \in Pairs \ {p} : NotesOf(q)' = NotesOf(q), p \in mixed \cup owed \cup gone \/ OnTrack(h)'
  PROVE  InviteTypeOK' /\ WorkedAlone'
<1>1. work[h] # NoJob /\ w # NoJob
  BY AtWork DEF Job, NoJob
<1>2. work'[h] = w /\ (\A g \in Handlers \ {h} : work'[g] = work[g]) /\ work' \in [Handlers -> Job \cup {NoJob}]
  BY DEF InviteTypeOK
<1>3. InviteTypeOK'
  <2>1. \A g \in Handlers : work'[g] # NoJob => \A n \in work'[g].ids : n.pair = work'[g].pair
    BY <1>2 DEF InviteTypeOK
  <2> QED
    BY <1>2, <2>1 DEF InviteTypeOK
<1>4. \A n \in inbox : n.pair # p => n \in inbox'
  <2> SUFFICES ASSUME NEW n \in inbox, n.pair # p PROVE n \in inbox'
    OBVIOUS
  <2>1. n.pair \in Pairs \ {p} /\ n \in NotesOf(n.pair)
    BY DEF InviteTypeOK, Note, NotesOf
  <2> QED
    BY <2>1 DEF NotesOf
<1>5. Touches(h, p)
  BY <1>2, <1>4 DEF Touches
<1>6. Sound(p)'
  <2>1. CASE p \in mixed \cup owed \cup gone
    BY <2>1 DEF Sound
  <2>2. CASE p \notin mixed \cup owed \cup gone
    <3>1. Busy(p) = {h}
      BY <1>1, <2>2, Alone
    <3>2. Busy(p)' = {h}
      BY <1>1, <1>2, <3>1 DEF Busy
    <3> QED
      BY <2>2, <3>2 DEF Sound
  <2> QED
    BY <2>1, <2>2
<1>7. \A q \in gone' : member'[q] = "NONE"
  BY DEF WorkedAlone, InviteTypeOK
<1>8. \A q \in Pairs : Sound(q)'
  BY <1>1, <1>5, <1>6, OtherPairs, SoundPairs
<1> QED
  BY <1>3, <1>7, <1>8 DEF WorkedAlone, Sound

LEMMA HandlerInvariant ==
  ASSUME InviteTypeOK, WorkedAlone, NEW h \in Handlers, HandlerStep(h)
  PROVE  InviteTypeOK' /\ WorkedAlone'
<1>1. work[h].at # "idle"
  BY DEF HandlerStep, CreateInbox, CreateInboxFails, Compensate, ListInboxes, DeleteInbox, CutOff,
         InviteTypeOK, Job
<1>0. PICK p \in Pairs : p = work[h].pair
  BY <1>1, AtWork
<1>2. work[h] \in Job /\ \A n \in work[h].ids : n.pair = p
  BY <1>0, <1>1, AtWork DEF InviteTypeOK
<1>3. p \in mixed \cup owed \cup gone \/ OnTrack(h)
  BY <1>0, <1>1, Alone
<1>4. CASE CreateInbox(h)
  <2> DEFINE n == [id |-> notes, pair |-> p]
  <2>1. n \in Note /\ n.pair = p
    BY <1>0, <1>2 DEF Note, InviteTypeOK
  <2>2. inbox' = inbox \cup {n} /\ notes' = notes + 1 /\ UNCHANGED <<owner, member, fails, dismissed, gone, owed, mixed>> /\ Answered(h)
    BY <1>0, <1>4 DEF CreateInbox
  <2> HIDE DEF n
  <2>3. NotesOf(p)' = NotesOf(p) \cup {n} /\ \A q \in Pairs \ {p} : NotesOf(q)' = NotesOf(q)
    BY <1>0, <2>1, <2>2 DEF NotesOf
  <2>4. p \in mixed \cup owed \cup gone \/ Noted(p)'
    BY <1>0, <1>3, <1>4, <2>2, <2>3 DEF OnTrack, CreateInbox, Noted
  <2>5. inbox' \in SUBSET Note /\ notes' \in Nat /\ fails' \in Nat
    BY <1>0, <2>1, <2>2 DEF InviteTypeOK
  <2>6. member' \in [Pairs -> {"NONE", "INVITED", "ACTIVE"}]
    BY <1>0, <2>2 DEF InviteTypeOK
  <2> QED
    BY <1>0, <1>1, <2>2, <2>3, <2>4, <2>5, <2>6, DoneStep
<1>5. CASE CreateInboxFails(h)
  <2> DEFINE w == [work[h] EXCEPT !.at = "revoke"]
  <2>1. w \in Job /\ w.pair = p /\ w.ids = work[h].ids /\ w.at = "revoke"
    BY <1>0, <1>2 DEF Job
  <2>2. work' = [work EXCEPT ![h] = w] /\ fails' \in Nat /\ UNCHANGED <<owner, member, inbox, notes, dismissed, gone, owed, mixed>>
    BY <1>0, <1>5 DEF CreateInboxFails, InviteTypeOK
  <2> HIDE DEF w
  <2>3. work'[h] = w /\ \A q \in Pairs : NotesOf(q)' = NotesOf(q)
    BY <1>0, <2>2 DEF InviteTypeOK, NotesOf
  <2>4. p \in mixed \cup owed \cup gone \/ OnTrack(h)'
    BY <1>0, <1>2, <1>3, <1>5, <2>1, <2>2, <2>3 DEF OnTrack, CreateInboxFails
  <2> QED
    BY <1>0, <1>1, <1>2, <2>1, <2>2, <2>3, <2>4, OnwardStep
<1>6. CASE Compensate(h)
  <2>1. /\ UNCHANGED <<owner, inbox, notes, fails, dismissed, gone, owed, mixed>> /\ Answered(h)
        /\ member' \in [Pairs -> {"NONE", "INVITED", "ACTIVE"}]
        /\ member'[p] # "INVITED" /\ member'[p] \in {member[p], "NONE"} /\ \A q \in Pairs \ {p} : member'[q] = member[q]
    BY <1>0, <1>2, <1>6 DEF Compensate, InviteTypeOK
  <2>2. \A q \in Pairs : NotesOf(q)' = NotesOf(q)
    BY <1>0, <2>1 DEF NotesOf
  <2>3. p \in mixed \cup owed \cup gone \/ Noted(p)'
    BY <1>0, <1>2, <1>3, <1>6, <2>1, <2>2 DEF OnTrack, Compensate, Noted
  <2>4. inbox' \in SUBSET Note /\ notes' \in Nat /\ fails' \in Nat
    BY <1>0, <2>1 DEF InviteTypeOK
  <2> QED
    BY <1>0, <1>1, <2>1, <2>2, <2>3, <2>4, DoneStep
<1>7. CASE ListInboxes(h)
  <2> DEFINE w == [work[h] EXCEPT !.at = "delete", !.ids = NotesOf(p)]
  <2>1. NotesOf(p) \in SUBSET Note /\ \A n \in NotesOf(p) : n.pair = p
    BY DEF NotesOf, InviteTypeOK
  <2>2. w \in Job /\ w.pair = p /\ w.ids = NotesOf(p) /\ w.at = "delete"
    BY <1>0, <1>2, <2>1 DEF Job
  <2>3. work' = [work EXCEPT ![h] = w] /\ UNCHANGED <<owner, member, inbox, notes, fails, dismissed, gone, owed, mixed>>
    BY <1>0, <1>2, <1>7 DEF ListInboxes, InviteTypeOK, Job
  <2> HIDE DEF w
  <2>4. work'[h] = w /\ \A q \in Pairs : NotesOf(q)' = NotesOf(q)
    BY <1>0, <2>3 DEF InviteTypeOK, NotesOf
  <2>5. p \in mixed \cup owed \cup gone \/ OnTrack(h)'
    BY <1>0, <1>2, <1>3, <1>7, <2>2, <2>3, <2>4 DEF OnTrack, ListInboxes
  <2>6. fails' \in Nat /\ inbox' \in SUBSET inbox /\ UNCHANGED <<owner, member, notes, dismissed, gone, owed, mixed>>
    BY <1>0, <2>3 DEF InviteTypeOK
  <2>7. (\A n \in w.ids : n.pair = p) /\ \A q \in Pairs \ {p} : NotesOf(q)' = NotesOf(q)
    BY <2>1, <2>2, <2>4
  <2>8. w \in Job /\ w.pair = p /\ work' = [work EXCEPT ![h] = w]
    BY <2>2, <2>3
  <2> QED
    BY <1>0, <1>1, <2>5, <2>6, <2>7, <2>8, OnwardStep
<1>8. ASSUME DeleteInbox(h), NEW n \in work[h].ids, inbox' = inbox \ {n},
             work' = [work EXCEPT ![h].ids = @ \ {n}]
      PROVE  InviteTypeOK' /\ WorkedAlone'
  <2> DEFINE w == [work[h] EXCEPT !.ids = work[h].ids \ {n}]
  <2>1. w \in Job /\ w.pair = p /\ w.ids = work[h].ids \ {n} /\ w.at = work[h].at
    BY <1>0, <1>2 DEF Job
  <2>2. work' = [work EXCEPT ![h] = w] /\ UNCHANGED <<owner, member, notes, fails, dismissed, gone, owed, mixed>>
    BY <1>0, <1>8 DEF DeleteInbox
  <2> HIDE DEF w
  <2>3. work'[h] = w /\ n.pair = p
    BY <1>0, <1>2, <2>2 DEF InviteTypeOK
  <2>4. NotesOf(p)' = NotesOf(p) \ {n} /\ \A q \in Pairs \ {p} : NotesOf(q)' = NotesOf(q)
    BY <1>0, <1>8, <2>3 DEF NotesOf
  <2>5. work[h].at = "delete"
    BY <1>0, <1>8 DEF DeleteInbox
  <2>6. p \in mixed \cup owed \cup gone \/ OnTrack(h)'
    BY <1>0, <1>2, <1>3, <2>1, <2>2, <2>3, <2>4, <2>5 DEF OnTrack
  <2>7. inbox' \in SUBSET inbox /\ fails' \in Nat
    BY <1>0, <1>8, <2>2 DEF InviteTypeOK
  <2> QED
    BY <1>0, <1>1, <1>2, <2>1, <2>2, <2>4, <2>6, <2>7, OnwardStep
<1>9. CASE DeleteInbox(h) /\ work[h].ids = {} /\ Answered(h) /\ UNCHANGED inbox
  <2>1. UNCHANGED <<owner, member, inbox, notes, fails, dismissed, gone, owed, mixed>> /\ Answered(h) /\ work[h].at = "delete"
    BY <1>0, <1>9 DEF DeleteInbox
  <2>2. \A q \in Pairs : NotesOf(q)' = NotesOf(q)
    BY <1>0, <2>1 DEF NotesOf
  <2>3. p \in mixed \cup owed \cup gone \/ Noted(p)'
    BY <1>0, <1>2, <1>3, <1>9, <2>1, <2>2 DEF OnTrack, Noted
  <2>4. inbox' \in SUBSET Note /\ notes' \in Nat /\ fails' \in Nat /\ member' \in [Pairs -> {"NONE", "INVITED", "ACTIVE"}]
    BY <1>0, <2>1 DEF InviteTypeOK
  <2> QED
    BY <1>0, <1>1, <2>1, <2>2, <2>3, <2>4, DoneStep
<1>10. CASE CutOff(h)
  <2>1. UNCHANGED <<owner, member, inbox, notes, dismissed, gone, mixed>> /\ owed' = owed \cup {p} /\ Answered(h)
    BY <1>0, <1>10 DEF CutOff
  <2>2. \A q \in Pairs : NotesOf(q)' = NotesOf(q)
    BY <1>0, <2>1 DEF NotesOf
  <2>3. inbox' \in SUBSET Note /\ notes' \in Nat /\ fails' \in Nat /\ member' \in [Pairs -> {"NONE", "INVITED", "ACTIVE"}]
    BY <1>0, <1>10, <2>1 DEF InviteTypeOK, CutOff
  <2> QED
    BY <1>0, <1>1, <2>1, <2>2, <2>3, DoneStep
<1> QED
  BY <1>4, <1>5, <1>6, <1>7, <1>8, <1>9, <1>10 DEF HandlerStep, DeleteInbox

\* Every step keeps each pair sound.
LEMMA InvitationsInvariant == InviteSpec => [](InviteTypeOK /\ WorkedAlone)
<1>1. InviteTypeOK /\ WorkedAlone /\ [InviteNext]_inviteVars => InviteTypeOK' /\ WorkedAlone'
  <2> SUFFICES ASSUME InviteTypeOK, WorkedAlone, [InviteNext]_inviteVars PROVE InviteTypeOK' /\ WorkedAlone'
    OBVIOUS
  <2>1. CASE UNCHANGED inviteVars
    BY <2>1 DEF inviteVars, InviteTypeOK, WorkedAlone, Noted, OnTrack, Busy, NotesOf
  <2>2. ASSUME NEW h \in Handlers, NEW p \in Pairs,
               CreateSpaceInvitation(h, p) \/ AcceptSpaceInvitation(h, p) \/ DeclineOrRevoke(h, p)
        PROVE  InviteTypeOK' /\ WorkedAlone'
    BY <2>2, StartStep DEF CreateSpaceInvitation, AcceptSpaceInvitation, DeclineOrRevoke
  <2>3. ASSUME NEW h \in Handlers, HandlerStep(h) PROVE InviteTypeOK' /\ WorkedAlone'
    BY <2>3, HandlerInvariant
  <2>4. ASSUME NEW p \in Pairs, LeaveSpace(p) PROVE InviteTypeOK' /\ WorkedAlone'
    BY <2>4, LeaveStep
  <2>5. ASSUME NEW p \in Pairs, DeleteSpace(SpaceOf[p]) PROVE InviteTypeOK' /\ WorkedAlone'
    BY <2>5, DeleteSpaceStep
  <2>6. ASSUME NEW n \in inbox, DeleteUserNotification(n) PROVE InviteTypeOK' /\ WorkedAlone'
    BY <2>6, DismissStep
  <2>7. ASSUME NEW ps \in {{p \in Pairs : InviteeOf[p] = InviteeOf[q]} : q \in Pairs} \cup {{}},
               NEW sent \in SUBSET inbox, NEW running \in SUBSET {q \in Pairs : Busy(q) # {}},
               DeleteAccount(ps, sent, running)
        PROVE  InviteTypeOK' /\ WorkedAlone'
    <3>1. ps \in SUBSET Pairs /\ running \in SUBSET Pairs
      OBVIOUS
    <3> QED
      BY <2>7, <3>1, DeleteAccountStep
  <2> QED
    BY <2>1, <2>2, <2>3, <2>4, <2>5, <2>6, <2>7 DEF InviteNext
<1> QED
  BY <1>1, StartsSound, PTL DEF InviteSpec

\* However many handlers invite, answer, revoke and compensate, whoever deletes
\* notifications, Spaces and accounts, and whatever fails or is cut off by a
\* restart: a pending invitation that nobody dismissed is shown to the invitee in
\* one notification and one that is not pending in none, once nobody is at work
\* on it, unless two handlers overlapped on it or one could not finish.
THEOREM InvitationsNotified == InviteSpec => []NotifiedAlone
<1>1. WorkedAlone => NotifiedAlone
  <2> SUFFICES ASSUME WorkedAlone, NEW p \in Pairs \ (mixed \cup owed), Busy(p) = {} PROVE Consistent(p)
    BY DEF NotifiedAlone
  <2>1. \A n : Cardinality({n}) = 1
    BY FS_Singleton
  <2>2. CASE p \in gone
    BY <2>2 DEF WorkedAlone, Consistent, Shown
  <2>3. CASE p \notin gone
    BY <2>1, <2>3 DEF WorkedAlone, Noted, Consistent, Shown
  <2> QED
    BY <2>2, <2>3
<1> QED
  BY <1>1, InvitationsInvariant, PTL

-----------------------------------------------------------------------------
(* Attachments.                                                              *)

LEMMA RankedType ==
  ASSUME NEW q \in SUBSET Ids, NEW f \in [Ids -> Nat]
  PROVE  Ranked(q, f) \in [Ids -> Nat]
<1>1. ASSUME NEW a \in Ids PROVE Cardinality({f[b] : b \in q} \cap 1..f[a]) \in Nat
  <2>1. IsFiniteSet(1..f[a])
    BY FS_Interval
  <2>2. IsFiniteSet({f[b] : b \in q} \cap 1..f[a])
    BY <2>1, FS_Subset
  <2> QED
    BY <2>2, FS_CardinalityType
<1> QED
  BY <1>1 DEF Ranked

LEMMA CleanupInit ==
  ASSUME Setting
  PROVE  FilesInit => FilesTypeOK /\ OneLife /\ PlaceKept /\ GoneBeforeAcknowledged
                 /\ WrittenKept /\ LiveObjectKept /\ PurgedNotForgotten
  BY DEF Setting, FilesInit, FilesTypeOK, OneLife, PlaceKept, GoneBeforeAcknowledged, WrittenKept,
         LiveObjectKept, PurgedNotForgotten, IdleJob, Locations, Shared, Nothing

\* NextItem leaves a shorter batch.
LEMMA NextItemType ==
  ASSUME FilesTypeOK, job.batch # <<>>, NextItem
  PROVE  /\ job' \in [phase : {"idle", "count", "delete", "acknowledge"}, batch : Seq(Ids)]
         /\ \A i \in 1..Len(job'.batch) : i + 1 \in 1..Len(job.batch) /\ job'.batch[i] = job.batch[i + 1]
         /\ job'.phase # "idle" => job'.batch # <<>>
         /\ job'.phase \in {"idle", "count"}
<1>1. job.batch \in Seq(Ids)
  BY DEF FilesTypeOK
<1>2. Tail(job.batch) \in Seq(Ids) /\ Len(Tail(job.batch)) = Len(job.batch) - 1
      /\ \A i \in 1..Len(Tail(job.batch)) : Tail(job.batch)[i] = job.batch[i + 1]
  BY <1>1
<1> QED
  BY <1>1, <1>2 DEF NextItem

LEMMA FilesTypeStep ==
  ASSUME Setting, FilesTypeOK, OneLife, PlaceKept, [FilesNext]_fileVars
  PROVE  FilesTypeOK'
<1> DEFINE JobType == [phase : {"idle", "count", "delete", "acknowledge"}, batch : Seq(Ids)]
<1>1. ASSUME NEW a \in Ids, Acknowledge(a) PROVE queued' \subseteq Ids /\ attempted' \in [Ids -> Nat]
  BY <1>1, RankedType DEF Acknowledge, FilesTypeOK
<1>2. ASSUME NEW a \in Ids, DeleteObject(a) PROVE object' \in [Locations -> Ids \cup {Nothing}]
  BY <1>2 DEF DeleteObject, FilesTypeOK
<1> USE DEF FilesTypeOK
<1>3. ASSUME NEW a \in Ids, ChoosePlace(a) PROVE FilesTypeOK'
  BY <1>3 DEF ChoosePlace, PlaceFor, Locations
<1>4. ASSUME NEW a \in Ids, SaveAttachmentBlob(a) PROVE FilesTypeOK'
  <2>1. object' \in [Locations -> Ids \cup {Nothing}]
    BY <1>4 DEF SaveAttachmentBlob
  <2> QED
    BY <1>4, <2>1 DEF SaveAttachmentBlob
<1>5. ASSUME NEW a \in Ids, InsertAttachment(a) PROVE FilesTypeOK'
  BY <1>5 DEF InsertAttachment
<1>6. ASSUME NEW a \in Ids, CleanupSavedAttachmentBlob(a) PROVE FilesTypeOK'
  BY <1>2, <1>6 DEF CleanupSavedAttachmentBlob
<1>7. ASSUME NEW a \in Ids, DeleteMemoRows(a) PROVE FilesTypeOK'
  BY <1>7 DEF DeleteMemoRows, Enqueue
<1>8. ASSUME NEW a \in Ids, DeleteAttachmentRow(a) PROVE FilesTypeOK'
  BY <1>8 DEF DeleteAttachmentRow
<1>9. ASSUME NEW a \in Ids, CleanupDeletedStorage(a) PROVE FilesTypeOK'
  BY <1>2, <1>9 DEF CleanupDeletedStorage
<1>10. ASSUME NEW a \in Ids, AcknowledgeCleanup(a) PROVE FilesTypeOK'
  BY <1>1, <1>10 DEF AcknowledgeCleanup
<1>11. CASE SelectBatch
  <2>1. PICK n \in Nat : \E batch \in [1..n -> queued] : job' = [phase |-> "count", batch |-> batch]
    <3>1. Cardinality(queued) \in Nat
      BY FS_Subset, FS_CardinalityType DEF Setting
    <3> QED
      BY <1>11, <3>1 DEF SelectBatch, Setting
  <2>2. \A batch \in [1..n -> queued] : batch \in Seq(Ids)
    OBVIOUS
  <2> QED
    BY <1>11, <2>1, <2>2 DEF SelectBatch
<1>12. CASE CountFails
  BY <1>12, NextItemType DEF CountFails, OneLife
<1>13. ASSUME NEW a \in Ids, CountReuse(a) PROVE FilesTypeOK'
  <2>1. CASE NextItem /\ Acknowledge(a)
    BY <1>1, <1>13, <2>1, NextItemType DEF CountReuse, OneLife
  <2>2. CASE job' = [job EXCEPT !.phase = "delete"] /\ UNCHANGED <<queued, attempted>>
    BY <1>13, <2>2 DEF CountReuse
  <2> QED
    BY <1>13, <2>1, <2>2 DEF CountReuse
<1>14. ASSUME NEW a \in Ids, RetryDelete(a) PROVE FilesTypeOK'
  BY <1>2, <1>14 DEF RetryDelete
<1>15. ASSUME NEW a \in Ids, RetryFails(a) PROVE FilesTypeOK'
  <2>1. Cardinality(Ids) \in Nat
    BY FS_CardinalityType DEF Setting
  <2>2. [attempted EXCEPT ![a] = Cardinality(Ids) + 1] \in [Ids -> Nat]
    BY <2>1
  <2>3. attempted' \in [Ids -> Nat]
    BY <1>15, <2>2, RankedType DEF RetryFails, MarkAttempted
  <2> QED
    BY <1>15, <2>3, NextItemType DEF RetryFails, OneLife
<1>16. ASSUME NEW a \in Ids, RetryAcknowledge(a) PROVE FilesTypeOK'
  BY <1>1, <1>16, NextItemType DEF RetryAcknowledge, OneLife
<1>17. CASE Crash
  BY <1>17 DEF Crash, IdleJob, Setting
<1>18. CASE UNCHANGED fileVars
  BY <1>18 DEF fileVars
<1> QED
  BY <1>3, <1>4, <1>5, <1>6, <1>7, <1>8, <1>9, <1>10, <1>11, <1>12, <1>13, <1>14, <1>15, <1>16,
     <1>17, <1>18 DEF FilesNext, FileRequest, Retry

\* No row comes back, and what the requests and the job clean up after stays
\* deleted.
LEMMA LifeStep ==
  ASSUME Setting, FilesTypeOK, OneLife, [FilesNext]_fileVars
  PROVE  OneLife'
<1> USE DEF FilesTypeOK, OneLife
<1>1. ASSUME NEW a \in Ids, ChoosePlace(a) PROVE OneLife'
  BY <1>1 DEF ChoosePlace
<1>2. ASSUME NEW a \in Ids, SaveAttachmentBlob(a) PROVE OneLife'
  BY <1>2 DEF SaveAttachmentBlob
<1>3. ASSUME NEW a \in Ids, InsertAttachment(a) PROVE OneLife'
  <2>1. attachment[a] = "none" /\ \A b \in Ids \ {a} : attachment'[b] = attachment[b] /\ upload'[b] = upload[b]
    BY <1>3 DEF InsertAttachment
  <2>2. upload'[a] \notin {"idle", "write", "insert"} /\ attachment' \in [Ids -> {"none", "live", "deleted"}]
    BY ZenonT(60), <1>3 DEF InsertAttachment
  <2>3. UNCHANGED <<cleanup, queued, purged, job>>
    BY <1>3 DEF InsertAttachment
  <2>4. \A b \in Ids : attachment[b] = "deleted" => attachment'[b] = "deleted"
    BY <2>1
  <2>5. \A i \in 1..Len(job.batch) : job.batch[i] \in Ids
    OBVIOUS
  <2> QED
    BY <2>1, <2>2, <2>3, <2>4, <2>5
<1>4. ASSUME NEW a \in Ids, CleanupSavedAttachmentBlob(a) PROVE OneLife'
  BY <1>4 DEF CleanupSavedAttachmentBlob
<1>5. ASSUME NEW a \in Ids, DeleteMemoRows(a) PROVE OneLife'
  BY <1>5 DEF DeleteMemoRows, Enqueue
<1>6. ASSUME NEW a \in Ids, DeleteAttachmentRow(a) PROVE OneLife'
  BY <1>6 DEF DeleteAttachmentRow
<1>7. ASSUME NEW a \in Ids, CleanupDeletedStorage(a) PROVE OneLife'
  BY <1>7 DEF CleanupDeletedStorage
<1>8. ASSUME NEW a \in Ids, AcknowledgeCleanup(a) PROVE OneLife'
  BY <1>8 DEF AcknowledgeCleanup, Acknowledge
<1>9. CASE SelectBatch
  <2>1. PICK n \in Nat \ {0} : \E batch \in [1..n -> queued] : job' = [phase |-> "count", batch |-> batch]
    <3>1. Cardinality(queued) \in Nat \ {0}
      BY <1>9, FS_Subset, FS_CardinalityType, FS_EmptySet DEF Setting, SelectBatch
    <3> QED
      BY <1>9, <3>1 DEF SelectBatch, Setting
  <2>2. PICK batch \in [1..n -> queued] : job' = [phase |-> "count", batch |-> batch]
    BY <2>1
  <2>3. batch \in Seq(Ids) /\ Len(batch) = n /\ \A i \in 1..n : batch[i] \in queued
    OBVIOUS
  <2> QED
    BY <1>9, <2>2, <2>3 DEF SelectBatch
<1>10. CASE CountFails
  BY SMTT(30), <1>10, NextItemType DEF CountFails
<1>11. ASSUME NEW a \in Ids, CountReuse(a) PROVE OneLife'
  <2>1. CASE NextItem /\ Acknowledge(a)
    BY SMTT(30), <1>11, <2>1, NextItemType DEF CountReuse, Acknowledge
  <2>2. CASE job' = [job EXCEPT !.phase = "delete"] /\ UNCHANGED <<queued, attempted>>
    BY <1>11, <2>2 DEF CountReuse
  <2> QED
    BY <1>11, <2>1, <2>2 DEF CountReuse
<1>12. ASSUME NEW a \in Ids, RetryDelete(a) PROVE OneLife'
  BY <1>12 DEF RetryDelete
<1>13. ASSUME NEW a \in Ids, RetryFails(a) PROVE OneLife'
  <2>1. NextItem /\ job.batch # <<>> /\ UNCHANGED <<attachment, queued, purged, upload, cleanup>>
    BY <1>13 DEF RetryFails
  <2>2. /\ \A i \in 1..Len(job'.batch) : i + 1 \in 1..Len(job.batch) /\ job'.batch[i] = job.batch[i + 1]
        /\ job'.phase # "idle" => job'.batch # <<>>
    BY <2>1, NextItemType
  <2>3. ASSUME NEW i \in 1..Len(job'.batch) PROVE attachment'[job'.batch[i]] = "deleted"
    <3>1. i + 1 \in 1..Len(job.batch) /\ job'.batch[i] = job.batch[i + 1]
      BY <2>2
    <3>2. attachment[job.batch[i + 1]] = "deleted"
      BY <3>1
    <3> QED
      BY <2>1, <3>1, <3>2
  <2> QED
    BY <2>1, <2>2, <2>3
<1>14. ASSUME NEW a \in Ids, RetryAcknowledge(a) PROVE OneLife'
  <2>1. /\ NextItem /\ job.batch # <<>> /\ UNCHANGED <<attachment, purged, upload, cleanup>>
        /\ queued' \subseteq queued
    BY <1>14 DEF RetryAcknowledge, Acknowledge
  <2>2. /\ \A i \in 1..Len(job'.batch) : i + 1 \in 1..Len(job.batch) /\ job'.batch[i] = job.batch[i + 1]
        /\ job'.phase # "idle" => job'.batch # <<>>
    BY <2>1, NextItemType
  <2>3. ASSUME NEW i \in 1..Len(job'.batch) PROVE attachment'[job'.batch[i]] = "deleted"
    <3>1. i + 1 \in 1..Len(job.batch) /\ job'.batch[i] = job.batch[i + 1]
      BY <2>2
    <3>2. attachment[job.batch[i + 1]] = "deleted"
      BY <3>1
    <3> QED
      BY <2>1, <3>1, <3>2
  <2> QED
    BY <2>1, <2>2, <2>3
<1>15. CASE Crash
  BY <1>15 DEF Crash, IdleJob
<1>16. CASE UNCHANGED fileVars
  BY <1>16 DEF fileVars
<1> QED
  BY <1>1, <1>2, <1>3, <1>4, <1>5, <1>6, <1>7, <1>8, <1>9, <1>10, <1>11, <1>12, <1>13, <1>14,
     <1>15, <1>16 DEF FilesNext, FileRequest, Retry

\* A place is chosen once.
LEMMA PlaceStep ==
  ASSUME Setting, FilesTypeOK, PlaceKept, [FilesNext]_fileVars
  PROVE  PlaceKept'
<1> USE DEF FilesTypeOK, PlaceKept
<1>1. ASSUME NEW a \in Ids, ChoosePlace(a) PROVE PlaceKept'
  BY <1>1 DEF ChoosePlace, PlaceFor, External, Setting
<1>2. ASSUME NEW a \in Ids,
             SaveAttachmentBlob(a) \/ InsertAttachment(a) \/ CleanupSavedAttachmentBlob(a)
      PROVE  PlaceKept'
  BY <1>2 DEF SaveAttachmentBlob, InsertAttachment, CleanupSavedAttachmentBlob, External
<1>3. CASE Crash
  BY <1>3 DEF Crash, External
<1>4. CASE UNCHANGED <<upload, location>>
  BY <1>4 DEF External
<1> QED
  BY <1>1, <1>2, <1>3, <1>4
     DEF FilesNext, FileRequest, Retry, DeleteMemoRows, DeleteAttachmentRow, CleanupDeletedStorage,
         AcknowledgeCleanup, SelectBatch, CountFails, CountReuse, RetryDelete, RetryFails,
         RetryAcknowledge, fileVars

\* Deleting the object at an attachment's place leaves it without its bytes and
\* gives nobody else new ones.
LEMMA ObjectDeleted ==
  ASSUME Setting, FilesTypeOK, PlaceKept, NEW a \in Ids, DeleteObject(a), upload[a] # "idle"
  PROVE  /\ External(a) => object'[location[a]] = Nothing
         /\ \A l \in Locations : object'[l] \in {object[l], Nothing}
         /\ \A l \in Locations : l # location[a] => object'[l] = object[l]
  BY DEF Setting, DeleteObject, FilesTypeOK, PlaceKept, Locations

\* An attachment is cleaned up after only once its row is deleted, so its upload
\* is long over and its place is fixed.
LEMMA CleanedWasPlaced ==
  ASSUME Setting, FilesTypeOK, OneLife, PlaceKept
  PROVE  /\ Nothing \notin Ids /\ Nothing \notin Locations
         /\ \A a \in Ids : attachment[a] # "none" => upload[a] \in {"compensate", "done"}
         /\ \A a \in Ids : upload[a] # "idle" /\ External(a) => location[a] \in Locations
         /\ job.phase # "idle" => Head(job.batch) \in Ids /\ attachment[Head(job.batch)] = "deleted"
<1>1. Nothing \notin Ids /\ Nothing \notin Locations
  BY DEF Setting, Nothing, Locations, Shared
<1>2. \A a \in Ids : attachment[a] # "none" => upload[a] \in {"compensate", "done"}
  BY DEF FilesTypeOK, OneLife
<1>3. \A a \in Ids : upload[a] # "idle" /\ External(a) => location[a] \in Locations
  BY DEF PlaceKept, Locations
<1>4. job.phase # "idle" => Head(job.batch) \in Ids /\ attachment[Head(job.batch)] = "deleted"
  BY DEF FilesTypeOK, OneLife
<1> QED
  BY <1>1, <1>2, <1>3, <1>4

\* What a step may do to the places and the objects: a place changes only when
\* it is chosen; bytes come from an upload that is writing, and go when somebody
\* cleans up after an attachment that is not live and is not being uploaded.
LEMMA StorageStep ==
  ASSUME Setting, FilesTypeOK, OneLife, PlaceKept, [FilesNext]_fileVars
  PROVE  /\ \A a \in Ids : location'[a] = location[a] \/ upload[a] = "idle"
         /\ \/ UNCHANGED object
            \/ \E b \in Ids : /\ upload[b] = "write" /\ External(b)
                              /\ object' = [object EXCEPT ![location[b]] = b]
            \/ \E b \in Ids : /\ attachment[b] # "live" /\ upload[b] \in {"compensate", "done"}
                              /\ DeleteObject(b)
<1>1. \A a \in Ids : location'[a] = location[a] \/ upload[a] = "idle"
  BY DEF FilesTypeOK, FilesNext, FileRequest, Retry, ChoosePlace, SaveAttachmentBlob, InsertAttachment,
         Crash,
         CleanupSavedAttachmentBlob, DeleteMemoRows, DeleteAttachmentRow, CleanupDeletedStorage,
         AcknowledgeCleanup, SelectBatch, CountFails, CountReuse, RetryDelete, RetryFails,
         RetryAcknowledge, fileVars
<1> DEFINE Deletes == \E b \in Ids : /\ attachment[b] # "live" /\ upload[b] \in {"compensate", "done"}
                                     /\ DeleteObject(b)
           Writes == \E b \in Ids : /\ upload[b] = "write" /\ External(b)
                                    /\ object' = [object EXCEPT ![location[b]] = b]
<1>2. ASSUME NEW b \in Ids, SaveAttachmentBlob(b) PROVE UNCHANGED object \/ Writes
  BY <1>2 DEF SaveAttachmentBlob
<1>3. ASSUME NEW b \in Ids, CleanupSavedAttachmentBlob(b) PROVE UNCHANGED object \/ Deletes
  BY <1>3 DEF CleanupSavedAttachmentBlob
<1>4. ASSUME NEW b \in Ids, CleanupDeletedStorage(b) PROVE UNCHANGED object \/ Deletes
  <2>1. attachment[b] = "deleted" /\ upload[b] \in {"compensate", "done"}
    BY <1>4, CleanedWasPlaced DEF CleanupDeletedStorage, OneLife
  <2> QED
    BY <1>4, <2>1 DEF CleanupDeletedStorage
<1>5. ASSUME NEW b \in Ids, RetryDelete(b) PROVE Deletes
  <2>1. attachment[b] = "deleted" /\ upload[b] \in {"compensate", "done"}
    BY <1>5, CleanedWasPlaced DEF RetryDelete
  <2> QED
    BY <1>5, <2>1 DEF RetryDelete
<1>6. UNCHANGED object \/ Writes \/ Deletes
  <2> HIDE DEF Writes, Deletes
  <2> QED
    BY <1>2, <1>3, <1>4, <1>5
       DEF FilesNext, FileRequest, Retry, ChoosePlace, InsertAttachment, DeleteMemoRows, DeleteAttachmentRow,
           AcknowledgeCleanup, SelectBatch, CountFails, CountReuse, RetryFails, RetryAcknowledge,
           Crash, fileVars
<1> QED
  BY <1>1, <1>6

\* Only a deletion that succeeded leads to an acknowledgement, and nothing puts
\* the bytes of a deleted attachment back.
LEMMA GoneStep ==
  ASSUME Setting, FilesTypeOK, OneLife, PlaceKept, GoneBeforeAcknowledged, [FilesNext]_fileVars
  PROVE  GoneBeforeAcknowledged'
<1> USE CleanedWasPlaced
<1> SUFFICES ASSUME NEW a \in Ids, External(a),
                    cleanup'[a] = "acknowledge" \/ (job'.phase = "acknowledge" /\ Head(job'.batch) = a)
             PROVE  object'[location'[a]] # a
  BY DEF GoneBeforeAcknowledged, External
\* The acknowledgement was due before this step, or this step made it due.
<1>1. \/ cleanup[a] = "acknowledge"
      \/ job.phase = "acknowledge" /\ Head(job.batch) = a
      \/ CleanupDeletedStorage(a) /\ DeleteObject(a)
      \/ RetryDelete(a)
  <2>1. cleanup'[a] = "acknowledge" => cleanup[a] = "acknowledge" \/ (CleanupDeletedStorage(a) /\ DeleteObject(a))
    <3>1. ASSUME NEW b \in Ids, FileRequest(b), cleanup'[a] = "acknowledge", cleanup[a] # "acknowledge"
          PROVE  CleanupDeletedStorage(a) /\ DeleteObject(a)
      BY <3>1 DEF FilesTypeOK, FileRequest, ChoosePlace, SaveAttachmentBlob, InsertAttachment,
                  CleanupSavedAttachmentBlob, DeleteMemoRows, DeleteAttachmentRow,
                  CleanupDeletedStorage, AcknowledgeCleanup
    <3> QED
      BY <3>1 DEF FilesTypeOK, FilesNext, Retry, SelectBatch, CountFails, CountReuse, RetryDelete,
                  RetryFails,
                  RetryAcknowledge, Crash, fileVars
  <2>2. ASSUME job'.phase = "acknowledge" /\ Head(job'.batch) = a
        PROVE  (job.phase = "acknowledge" /\ Head(job.batch) = a) \/ RetryDelete(a)
    <3>1. CASE UNCHANGED job
      BY <2>2, <3>1
    <3>2. ASSUME NEW b \in Ids, RetryDelete(b) PROVE RetryDelete(a)
      BY <2>2, <3>2 DEF RetryDelete, FilesTypeOK
    <3>3. CASE NextItem
      BY <2>2, <3>3 DEF NextItem
    <3> QED
      BY <2>2, <3>1, <3>2, <3>3
         DEF FilesTypeOK, FilesNext, FileRequest, Retry, ChoosePlace, SaveAttachmentBlob, InsertAttachment,
             CleanupSavedAttachmentBlob, DeleteMemoRows, DeleteAttachmentRow, CleanupDeletedStorage,
             AcknowledgeCleanup, SelectBatch, CountFails, CountReuse, RetryFails, RetryAcknowledge,
             Crash, IdleJob, fileVars
  <2> QED
    BY <2>1, <2>2
<1>2. attachment[a] = "deleted" /\ upload[a] \in {"compensate", "done"} /\ location'[a] = location[a]
      /\ location[a] \in Locations
  BY <1>1, StorageStep DEF OneLife, RetryDelete, CleanupDeletedStorage
<1>3. CASE DeleteObject(a)
  BY <1>2, <1>3, ObjectDeleted
<1>4. CASE object[location[a]] # a
  <2>1. CASE UNCHANGED object
    BY <1>2, <1>4, <2>1
  <2>2. ASSUME NEW b \in Ids, upload[b] = "write", object' = [object EXCEPT ![location[b]] = b]
        PROVE  object'[location[a]] # a
    BY <1>2, <1>4, <2>2 DEF FilesTypeOK
  <2>3. ASSUME NEW b \in Ids, upload[b] \in {"compensate", "done"}, DeleteObject(b)
        PROVE  object'[location[a]] # a
    BY <1>2, <1>4, <2>3, ObjectDeleted
  <2> QED
    BY <1>2, <2>1, <2>2, <2>3, <1>4, StorageStep
<1> QED
  BY <1>1, <1>3, <1>4 DEF GoneBeforeAcknowledged, RetryDelete

\* With a place for every attachment nobody writes or deletes what another one
\* is going to insert or has inserted.
LEMMA ObjectStep ==
  ASSUME Setting, ~FilenameOnly, FilesTypeOK, OneLife, PlaceKept, WrittenKept, LiveObjectKept, [FilesNext]_fileVars
  PROVE  WrittenKept' /\ LiveObjectKept'
<1> SUFFICES ASSUME NEW a \in Ids, External(a), upload'[a] = "insert" \/ attachment'[a] = "live"
             PROVE  object'[location'[a]] = a
  BY DEF WrittenKept, LiveObjectKept, External
<1> USE CleanedWasPlaced
\* It is being written in this step, or its bytes were there and are needed.
<1>1. \/ SaveAttachmentBlob(a) /\ object' = [object EXCEPT ![location[a]] = a]
      \/ upload[a] = "insert"
      \/ attachment[a] = "live"
  BY DEF FilesTypeOK, FilesNext, FileRequest, Retry, ChoosePlace, SaveAttachmentBlob, InsertAttachment,
         Crash,
         CleanupSavedAttachmentBlob, DeleteMemoRows, DeleteAttachmentRow, CleanupDeletedStorage,
         AcknowledgeCleanup, SelectBatch, CountFails, CountReuse, RetryDelete, RetryFails,
         RetryAcknowledge, fileVars
<1>2. upload[a] # "idle" /\ location'[a] = location[a] /\ location[a] = a /\ a \in Locations
  BY <1>1, StorageStep DEF SaveAttachmentBlob, PlaceKept, Locations
<1>3. CASE SaveAttachmentBlob(a) /\ object' = [object EXCEPT ![location[a]] = a]
  BY <1>2, <1>3 DEF FilesTypeOK
<1>4. CASE upload[a] = "insert" \/ attachment[a] = "live"
  <2>1. object[a] = a
    BY <1>2, <1>4 DEF WrittenKept, LiveObjectKept
  <2>2. ASSUME NEW b \in Ids, upload[b] = "write", External(b), object' = [object EXCEPT ![location[b]] = b]
        PROVE  object'[a] = a
    BY <1>2, <2>1, <2>2 DEF FilesTypeOK, PlaceKept
  <2>3. ASSUME NEW b \in Ids, attachment[b] # "live", upload[b] \in {"compensate", "done"}, DeleteObject(b)
        PROVE  object'[a] = a
    <3>1. b # a
      BY <1>4, <2>3
    <3>2. External(b) => location[b] = b
      BY <2>3 DEF PlaceKept
    <3> QED
      BY <2>1, <2>3, <3>1, <3>2, <1>2 DEF DeleteObject, FilesTypeOK
  <2> QED
    BY <1>2, <2>1, <2>2, <2>3, StorageStep
<1> QED
  BY <1>1, <1>3, <1>4

\* Without an object store every external object is a local file.
NoObjectStore == \A a \in Ids : StorageOf[a] \in {"LOCAL", "DATABASE"}

\* A queue row that goes leaves no object behind, or leaves it to the upload
\* that was given its place.
LEMMA PurgedStep ==
  ASSUME Setting, NoObjectStore, FilesTypeOK, OneLife, PlaceKept, GoneBeforeAcknowledged,
         PurgedNotForgotten, [FilesNext]_fileVars
  PROVE  PurgedNotForgotten'
<1> SUFFICES ASSUME NEW a \in purged', External(a), object'[location'[a]] = a, a \notin queued'
             PROVE  \E b \in Ids \ {a} : location'[b] = location'[a]
  BY DEF PurgedNotForgotten, External
<1> USE CleanedWasPlaced
<1>1. a \in purged
  BY DEF FilesNext, FileRequest, Retry, ChoosePlace, SaveAttachmentBlob, InsertAttachment, Crash, Enqueue,
         CleanupSavedAttachmentBlob, DeleteMemoRows, DeleteAttachmentRow, CleanupDeletedStorage,
         AcknowledgeCleanup, SelectBatch, CountFails, CountReuse, RetryDelete, RetryFails,
         RetryAcknowledge, fileVars
<1>2. a \in Ids /\ attachment[a] = "deleted" /\ upload[a] \in {"compensate", "done"}
  BY <1>1 DEF OneLife
<1>3. location'[a] = location[a] /\ location[a] \in Locations
  BY <1>2, StorageStep
<1>4. object[location[a]] = a
  <2>1. ASSUME NEW b \in Ids, upload[b] = "write", object' = [object EXCEPT ![location[b]] = b]
        PROVE  object[location[a]] = a
    BY <1>2, <1>3, <2>1 DEF FilesTypeOK
  <2>2. ASSUME NEW b \in Ids, upload[b] \in {"compensate", "done"}, DeleteObject(b)
        PROVE  object[location[a]] = a
    BY <1>2, <1>3, <2>2, ObjectDeleted
  <2> QED
    BY <1>2, <1>3, <2>1, <2>2, StorageStep
<1>5. CASE \E b \in Ids \ {a} : location[b] = location[a]
  <2>1. PICK b \in Ids \ {a} : location[b] = location[a]
    BY <1>5
  <2>2. upload[b] # "idle"
    BY <1>3, <2>1 DEF PlaceKept
  <2> QED
    BY <1>3, <2>1, <2>2, StorageStep
<1>6. CASE a \in queued
  \* The row leaves the queue: its object is gone, or its path is in use.
  <2>1. AcknowledgeCleanup(a) \/ RetryAcknowledge(a) \/ (CountReuse(a) /\ Reused(a))
    BY <1>6
       DEF FilesNext, FileRequest, Retry, ChoosePlace, SaveAttachmentBlob, InsertAttachment, Crash, Enqueue,
           CleanupSavedAttachmentBlob, DeleteMemoRows, DeleteAttachmentRow, CleanupDeletedStorage,
           AcknowledgeCleanup, SelectBatch, CountFails, CountReuse, RetryDelete, RetryFails,
           RetryAcknowledge, Acknowledge, fileVars
  <2>2. ~AcknowledgeCleanup(a) /\ ~RetryAcknowledge(a)
    BY <1>2, <1>4 DEF GoneBeforeAcknowledged, AcknowledgeCleanup, RetryAcknowledge
  <2>3. PICK b \in Ids \ {a} : attachment[b] = "live" /\ Reference(b) = Reference(a)
    BY <2>1, <2>2 DEF Reused
  <2>4. Reference(a) = location[a] /\ location[b] = location[a]
    BY <1>2, <1>3, <2>3 DEF Reference, External, NoObjectStore
  <2> QED
    BY <1>3, <2>3, <2>4, StorageStep
<1> QED
  BY <1>1, <1>2, <1>4, <1>5, <1>6 DEF PurgedNotForgotten

-----------------------------------------------------------------------------
\* What is known of an attachment at every step of its upload and its deletion.
LEMMA FilesInvariant ==
  ASSUME Setting
  PROVE  FilesSpec => [](FilesTypeOK /\ OneLife /\ PlaceKept /\ GoneBeforeAcknowledged)
<1> DEFINE Inv == FilesTypeOK /\ OneLife /\ PlaceKept /\ GoneBeforeAcknowledged
<1>1. FilesInit => Inv
  BY CleanupInit
<1>2. Inv /\ [FilesNext]_fileVars => Inv'
  BY FilesTypeStep, LifeStep, PlaceStep, GoneStep
<1> QED
  BY <1>1, <1>2, PTL DEF FilesSpec

\* With a place for every attachment its bytes are where they are needed.
LEMMA BytesInvariant ==
  ASSUME Setting, ~FilenameOnly
  PROVE  FilesSpec => [](WrittenKept /\ LiveObjectKept)
<1> DEFINE Inv == FilesTypeOK /\ OneLife /\ PlaceKept /\ WrittenKept /\ LiveObjectKept
<1>1. FilesInit => Inv
  BY CleanupInit
<1>2. Inv /\ [FilesNext]_fileVars => Inv'
  BY FilesTypeStep, LifeStep, PlaceStep, ObjectStep
<1> QED
  BY <1>1, <1>2, PTL DEF FilesSpec

\* When the storage template gives every attachment a path of its own,
\* a live attachment's bytes are there and its own, whatever storage call fails
\* and wherever the process crashes between the database and the storage: the
\* compensation of CreateAttachment, the deleting requests and the retry job
\* take nobody else's object.
THEOREM LiveAttachmentHasItsBytes ==
  ASSUME Setting, ~FilenameOnly
  PROVE  FilesSpec => []LiveObjectKept
  BY BytesInvariant, PTL

\* Without an object store, the file of a memo that was purged for good
\* is still queued for deletion or its path was given to another upload, however
\* often the process crashes between the commit, the deletion and the
\* acknowledgement, and for any batch size and any template of paths.
THEOREM PurgedFileIsQueued ==
  ASSUME Setting, NoObjectStore
  PROVE  FilesSpec => []PurgedNotForgotten
<1> DEFINE Inv == FilesTypeOK /\ OneLife /\ PlaceKept /\ GoneBeforeAcknowledged /\ PurgedNotForgotten
<1>1. FilesInit => Inv
  BY CleanupInit
<1>2. Inv /\ [FilesNext]_fileVars => Inv'
  BY FilesTypeStep, LifeStep, PlaceStep, GoneStep, PurgedStep
<1> QED
  BY <1>1, <1>2, PTL DEF FilesSpec

-----------------------------------------------------------------------------
(* The server.                                                               *)

\* Whatever the requests, the ticker, the retry job, the failures and the restarts
\* of the server do in between: the rows, the caches, the mutexes and the files are
\* as well formed as the theorems above need them.
THEOREM ServerTypesKept ==
  ASSUME CacheSetting, Setting
  PROVE  Spec /\ CacheSpec /\ InviteSpec /\ FilesSpec => []ServerTypeOK
<1>1. Spec => []TypeOK
  BY SettingsTypeCorrect
<1>2. CacheSpec => [](CacheTypeOK /\ CopiesCurrent /\ StaleReplaced /\ CountKept)
  BY CacheInvariant, PTL DEF Fresh
<1>3. InviteSpec => [](InviteTypeOK /\ WorkedAlone)
  BY InvitationsInvariant
<1>4. FilesSpec => [](FilesTypeOK /\ OneLife /\ PlaceKept /\ GoneBeforeAcknowledged)
  BY FilesInvariant
<1>5. CASE FilenameOnly
  <2>1. /\ TypeOK
        /\ CacheTypeOK /\ CopiesCurrent /\ StaleReplaced /\ CountKept
        /\ InviteTypeOK /\ WorkedAlone
        /\ FilesTypeOK /\ OneLife /\ PlaceKept /\ GoneBeforeAcknowledged
        => ServerTypeOK
    BY <1>5 DEF ServerTypeOK
  <2> QED
    BY <1>1, <1>2, <1>3, <1>4, <2>1, PTL
<1>6. CASE ~FilenameOnly
  <2>1. FilesSpec => [](WrittenKept /\ LiveObjectKept)
    BY <1>6, BytesInvariant
  <2>2. /\ TypeOK
        /\ CacheTypeOK /\ CopiesCurrent /\ StaleReplaced /\ CountKept
        /\ InviteTypeOK /\ WorkedAlone
        /\ FilesTypeOK /\ OneLife /\ PlaceKept /\ GoneBeforeAcknowledged
        /\ WrittenKept
        => ServerTypeOK
    BY DEF ServerTypeOK
  <2> QED
    BY <1>1, <1>2, <1>3, <1>4, <2>1, <2>2, PTL
<1> QED
  BY <1>5, <1>6
=============================================================================
