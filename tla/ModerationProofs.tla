-------------------------- MODULE ModerationProofs --------------------------
(***************************************************************************)
(* Proofs about module Moderation, for any number of users, reporters and  *)
(* handlers, any threshold and any batch size.                             *)
(***************************************************************************)
EXTENDS Moderation, FiniteSetTheorems, SequenceTheorems, TLAPS

LEMMA ModerationInit == Init => RowsTyped /\ JobsTyped /\ BansSound
<1> SUFFICES ASSUME Init PROVE RowsTyped /\ JobsTyped /\ BansSound
  OBVIOUS
<1>1. RowsTyped
  <2>1. NoBan \in [active : BOOLEAN, until : {"none", "forever", "running", "expired"}, strikes : Nat]
    BY DEF NoBan
  <2> QED
    BY <2>1 DEF Init, RowsTyped
<1>2. JobsTyped
  BY DEF Init, JobsTyped, Workers, Idle, Listing
<1>3. \A u \in Users : Busy(u) = {} /\ Matched(u)
  <2>1. Range(queue) = {}
    BY DEF Init, Range
  <2> QED
    BY <2>1 DEF Init, Busy, Matched, NoBan, Workers
<1> QED
  BY <1>1, <1>2, <1>3 DEF BansSound, Sound

\* What a worker that writes is doing.
LEMMA AtWork ==
  ASSUME RowsTyped, JobsTyped, NEW w \in Workers, work[w].at \notin {"idle", "list"}
  PROVE  /\ work[w] \in BanJob \cup LiftJob /\ Target(w) \in Users
         /\ w \in Busy(Target(w)) /\ InHand(w, Target(w))
         /\ work[w] \in BanJob => w \in Handlers
         /\ w = Sched => queue # <<>> /\ work[w].user = Head(queue)
<1>1. work[w] \in BanJob \cup LiftJob /\ work[w] # Idle
  BY DEF JobsTyped, Idle, Listing
<1>2. Target(w) \in Users /\ InHand(w, Target(w))
  BY <1>1 DEF Target, InHand, BanJob, LiftJob
<1>3. CASE w \in Handlers
  BY <1>1, <1>2, <1>3, ModerationAssumption DEF Busy, Target
<1>4. CASE w = Sched
  <2>1. queue # <<>> /\ work[w] \in LiftJob /\ work[w].user = Head(queue)
    BY <1>4 DEF JobsTyped, Idle, Listing
  <2>2. work[w] \notin BanJob
    BY <2>1 DEF LiftJob, BanJob
  <2>3. Head(queue) \in Range(queue)
    BY <2>1 DEF Range, RowsTyped
  <2> QED
    BY <1>1, <1>2, <1>4, <2>1, <2>2, <2>3 DEF Busy, Target
<1> QED
  BY <1>3, <1>4 DEF Workers


\* The rest of the scheduler's list.
LEMMA RestOfList ==
  ASSUME NEW s \in Seq(Users), s # <<>>
  PROVE  /\ Tail(s) \in Seq(Users) /\ Tail(s) # <<>> => s[2] = Head(Tail(s)) /\ s[2] \in Users
         /\ \A q : q # Head(s) => (q \in Range(s) <=> q \in Range(Tail(s)))
         /\ Range(Tail(s)) \subseteq Range(s)
<1>1. Len(s) \in Nat \ {0} /\ Len(Tail(s)) = Len(s) - 1 /\ Tail(s) \in Seq(Users)
  OBVIOUS
<1>2. \A i \in 1..Len(s) - 1 : Tail(s)[i] = s[i + 1]
  OBVIOUS
<1>3. DOMAIN s = 1..Len(s) /\ DOMAIN Tail(s) = 1..Len(s) - 1 /\ Head(s) = s[1]
  BY <1>1
<1>4. Range(Tail(s)) \subseteq Range(s)
  BY <1>1, <1>2, <1>3 DEF Range
<1>5. ASSUME NEW q, q # Head(s), q \in Range(s) PROVE q \in Range(Tail(s))
  <2>1. PICK i \in 1..Len(s) : s[i] = q
    BY <1>3, <1>5 DEF Range
  <2>2. i - 1 \in 1..Len(s) - 1 /\ Tail(s)[i - 1] = q
    BY <1>1, <1>2, <1>3, <1>5, <2>1
  <2> QED
    BY <1>3, <2>2 DEF Range
<1>6. Tail(s) # <<>> => s[2] = Head(Tail(s)) /\ s[2] \in Users
  <2> SUFFICES ASSUME Tail(s) # <<>> PROVE s[2] = Head(Tail(s)) /\ s[2] \in Users
    OBVIOUS
  <2>1. Len(s) >= 2 /\ Head(Tail(s)) = Tail(s)[1]
    BY <1>1
  <2> QED
    BY <1>1, <1>2, <2>1
<1> QED
  BY <1>1, <1>4, <1>5, <1>6

\* A user whose rows stay as they are, and whom the scheduler at most gets to.
LEMMA Frame ==
  ASSUME RowsTyped, NEW q \in Users, Sound(q), fails' \in {fails, fails + 1},
         mixed \subseteq mixed', edited \subseteq edited',
         status'[q] = status[q], ban'[q].active = ban[q].active, q \in quarantine' <=> q \in quarantine,
         Busy(q)' = Busy(q),
         \A w \in Busy(q) : work'[w] = work[w] \/ (~InHand(w, q) /\ (InHand(w, q)' => work'[w].at = "normal"))
  PROVE  Sound(q)'
<1> SUFFICES ASSUME fails' = 0, q \notin mixed' \cup edited'
             PROVE  /\ Busy(q)' = {} => Matched(q)'
                    /\ \A v, w \in Busy(q)' : v = w
                    /\ \A w \in Busy(q)' : IF InHand(w, q)' THEN OnTrack(w)' ELSE Matched(q)'
  BY DEF Sound
<1>1. fails = 0 /\ q \notin mixed \cup edited
  BY DEF RowsTyped
<1>2. /\ Busy(q) = {} => Matched(q)
      /\ \A v, w \in Busy(q) : v = w
      /\ \A w \in Busy(q) : IF InHand(w, q) THEN OnTrack(w) ELSE Matched(q)
  BY <1>1 DEF Sound
<1>3. Matched(q) => Matched(q)'
  BY DEF Matched
<1>4. ASSUME NEW w \in Busy(q), InHand(w, q)' PROVE OnTrack(w)'
  <2>1. CASE work'[w] = work[w]
    <3>1. InHand(w, q) /\ OnTrack(w) /\ Target(w) = q /\ Target(w)' = q
      BY <1>2, <1>4, <2>1 DEF InHand, Target
    <3> QED
      BY <1>3, <2>1, <3>1 DEF OnTrack, Doing
  <2>2. CASE ~InHand(w, q) /\ work'[w].at = "normal"
    <3>1. Matched(q)' /\ Target(w)' = q
      BY <1>2, <1>3, <1>4, <2>2 DEF InHand
    <3> QED
      BY <2>2, <3>1 DEF OnTrack, Doing
  <2> QED
    BY <1>4, <2>1, <2>2
<1>5. ASSUME NEW w \in Busy(q), ~InHand(w, q)' PROVE Matched(q)'
  <2>1. ~InHand(w, q)
    BY <1>5 DEF InHand, Target
  <2> QED
    BY <1>2, <1>3, <2>1
<1> QED
  BY <1>2, <1>3, <1>4, <1>5

\* The tables a write may change.
Tables ==
    /\ status \in [Users -> {"NORMAL", "ARCHIVED", "DELETED"}]
    /\ ban \in [Users -> [active : BOOLEAN, until : {"none", "forever", "running", "expired"},
                          strikes : Nat]]
    /\ quarantine \subseteq Users
    /\ reports \in [Users -> SUBSET Reporters]
    /\ fails \in Nat

\* A write to the rows of u alone.
WritesTo(u) ==
    \A q \in Users \ {u} : /\ status'[q] = status[q] /\ ban'[q].active = ban[q].active
                           /\ q \in quarantine' <=> q \in quarantine


\* The worker goes on to another write of its job.
LEMMA OnwardStep ==
  ASSUME RowsTyped, JobsTyped, BansSound, NEW w \in Workers, work[w].at \notin {"idle", "list"},
         NEW u \in Users, u = Target(w), NEW job \in BanJob \cup LiftJob, job.user = u,
         work[w] \in LiftJob => job \in LiftJob, work' = [work EXCEPT ![w] = job],
         UNCHANGED <<queue, batch, mixed, edited>>, Tables', fails' \in {fails, fails + 1}, WritesTo(u),
         fails' # 0 \/ u \in mixed \cup edited \/ OnTrack(w)'
  PROVE  RowsTyped' /\ JobsTyped' /\ BansSound'
<1>1. work'[w] = job /\ \A v \in Workers \ {w} : work'[v] = work[v]
  BY DEF JobsTyped
<1>2. job # Idle /\ job # Listing /\ job.at \notin {"idle", "list"}
  BY DEF BanJob, LiftJob, Idle, Listing
<1>3. /\ work[w] \in BanJob \cup LiftJob /\ work[w] # Idle /\ w \in Busy(u) /\ work[w].user = u
      /\ work[w] \in BanJob => w \in Handlers
      /\ w = Sched => queue # <<>> /\ u = Head(queue)
  BY AtWork DEF Target, Idle
<1>4. RowsTyped'
  BY DEF RowsTyped, Tables
<1>5. JobsTyped'
  <2>1. work' \in [Workers -> BanJob \cup LiftJob \cup {Idle, Listing}]
    BY DEF JobsTyped
  <2>2. \A h \in Handlers : work'[h] # Listing
    BY <1>1, <1>2 DEF JobsTyped, Workers
  <2>3. IF queue' = <<>> THEN work'[Sched] \in {Idle, Listing}
        ELSE work'[Sched] \in LiftJob /\ work'[Sched].user = Head(queue')
    <3>1. CASE w = Sched
      <4>1. work[w] \in LiftJob
        BY <1>3, <3>1 DEF JobsTyped
      <4> QED
        BY <1>1, <1>3, <3>1, <4>1
    <3>2. CASE w # Sched
      BY <1>1, <3>2 DEF JobsTyped, Workers
    <3> QED
      BY <3>1, <3>2
  <2> QED
    BY <2>1, <2>2, <2>3 DEF JobsTyped
<1>6. \A q \in Users : Busy(q)' = Busy(q)
  <2>1. \A q \in Users, h \in Handlers :
          (work'[h] # Idle /\ work'[h].user = q) <=> (work[h] # Idle /\ work[h].user = q)
    BY <1>1, <1>2, <1>3 DEF Workers
  <2> QED
    BY <2>1 DEF Busy
<1>7. ASSUME NEW q \in Users \ {u} PROVE Sound(q)'
  <2>1. \A v \in Busy(q) : work'[v] = work[v] \/ (~InHand(v, q) /\ ~InHand(v, q)')
    BY <1>1, <1>3 DEF Busy, InHand, Target, Workers
  <2>2. Sound(q)
    BY DEF BansSound
  <2> QED
    BY <1>6, <2>1, <2>2, Frame DEF WritesTo
<1>8. Sound(u)'
  <2> SUFFICES ASSUME fails' = 0, u \notin mixed' \cup edited'
               PROVE  Busy(u)' = {w} /\ OnTrack(w)' /\ InHand(w, u)'
    BY DEF Sound
  <2>1. fails = 0 /\ u \notin mixed \cup edited
    BY DEF RowsTyped
  <2>2. \A v, x \in Busy(u) : v = x
    BY <2>1 DEF BansSound, Sound
  <2> QED
    BY <1>1, <1>2, <1>3, <1>6, <2>1, <2>2 DEF InHand, Target
<1> QED
  BY <1>4, <1>5, <1>7, <1>8 DEF BansSound

\* The worker is done with u, whose rows agree.
LEMMA DoneStep ==
  ASSUME RowsTyped, JobsTyped, BansSound, NEW w \in Workers, work[w].at \notin {"idle", "list"},
         NEW u \in Users, u = Target(w), Finish(w),
         Tables', fails' \in {fails, fails + 1}, WritesTo(u),
         fails' # 0 \/ u \in mixed \cup edited \/ Matched(u)'
  PROVE  RowsTyped' /\ JobsTyped' /\ BansSound'
<1>1. /\ work[w] \in BanJob \cup LiftJob /\ work[w] # Idle /\ w \in Busy(u) /\ work[w].user = u
      /\ w = Sched => queue # <<>> /\ u = Head(queue)
  BY AtWork DEF Target, Idle
<1>2. queue \in Seq(Users) /\ UNCHANGED <<mixed, edited>>
  BY DEF RowsTyped, Finish
<1>3. CASE w \in Handlers
  <2>1. w # Sched /\ work' = [work EXCEPT ![w] = Idle] /\ UNCHANGED <<queue, batch>>
    BY <1>3, ModerationAssumption DEF Finish
  <2>2. work'[w] = Idle /\ \A v \in Workers \ {w} : work'[v] = work[v]
    BY <2>1 DEF JobsTyped
  <2>3. RowsTyped'
    BY <1>2, <2>1 DEF RowsTyped, Tables
  <2>4. JobsTyped'
    <3>1. work' \in [Workers -> BanJob \cup LiftJob \cup {Idle, Listing}]
      BY <2>1 DEF JobsTyped
    <3>2. Idle # Listing
      BY DEF Idle, Listing
    <3>3. \A h \in Handlers : work'[h] # Listing
      BY <2>2, <3>2 DEF JobsTyped, Workers
    <3>4. work'[Sched] = work[Sched]
      BY <2>1, <2>2 DEF Workers
    <3> QED
      BY <2>1, <3>1, <3>3, <3>4 DEF JobsTyped
  <2>5. Busy(u)' = Busy(u) \ {w} /\ \A q \in Users \ {u} : Busy(q)' = Busy(q)
    <3>1. \A q \in Users : (q \in Range(queue)) <=> (q \in Range(queue'))
      BY <2>1
    <3> QED
      BY <1>1, <2>1, <2>2, <3>1 DEF Busy, Workers
  <2>6. ASSUME NEW q \in Users \ {u} PROVE Sound(q)'
    <3>1. \A v \in Busy(q) : work'[v] = work[v]
      BY <1>1, <2>1, <2>2 DEF Busy, Workers
    <3>2. Sound(q)
      BY DEF BansSound
    <3> QED
      BY <1>2, <2>5, <3>1, <3>2, Frame DEF WritesTo
  <2>7. Sound(u)'
    <3> SUFFICES ASSUME fails' = 0, u \notin mixed' \cup edited'
                 PROVE  Busy(u)' = {} /\ Matched(u)'
      BY DEF Sound
    <3>1. fails = 0 /\ u \notin mixed \cup edited
      BY <1>2 DEF RowsTyped
    <3>2. \A v, x \in Busy(u) : v = x
      BY <3>1 DEF BansSound, Sound
    <3> QED
      BY <1>1, <2>5, <3>1, <3>2
  <2> QED
    BY <2>3, <2>4, <2>6, <2>7 DEF BansSound
<1>4. CASE w = Sched
  <2> DEFINE job == IF Tail(queue) # <<>> THEN Lift("release", queue[2])
                    ELSE IF batch < BatchLimit THEN Idle ELSE Listing
  <2>1. /\ queue' = Tail(queue) /\ work' = [work EXCEPT ![w] = job]
        /\ batch' = IF Tail(queue) # <<>> THEN batch ELSE 0
    BY <1>4 DEF Finish, Listing
  <2>2. Tail(queue) # <<>> => job \in LiftJob /\ job.user = Head(Tail(queue)) /\ job.at = "normal"
    BY <1>1, <1>2, <1>4, RestOfList DEF Lift, LiftJob
  <2>3. Tail(queue) = <<>> => job \in {Idle, Listing} /\ job.at \in {"idle", "list"}
    BY DEF Idle, Listing
  <2> HIDE DEF job
  <2>4. work'[w] = job /\ \A v \in Workers \ {w} : work'[v] = work[v]
    BY <2>1 DEF JobsTyped
  <2>5. Tail(queue) \in Seq(Users) /\ batch' \in Nat
    BY <1>1, <1>2, <1>4, <2>1, RestOfList DEF RowsTyped
  <2>6. RowsTyped'
    BY <1>2, <2>1, <2>5 DEF RowsTyped, Tables
  <2>7. JobsTyped'
    <3>1. work' \in [Workers -> BanJob \cup LiftJob \cup {Idle, Listing}]
      BY <2>1, <2>2, <2>3 DEF JobsTyped
    <3>2. \A h \in Handlers : work'[h] = work[h]
      BY <1>4, <2>4, ModerationAssumption DEF Workers
    <3> QED
      BY <1>4, <2>1, <2>2, <2>3, <2>4, <3>1, <3>2 DEF JobsTyped
  <2>8. /\ \A h \in Handlers : work'[h] = work[h]
        /\ \A q \in Users : q # u => (q \in Range(queue) <=> q \in Range(queue'))
    BY <1>1, <1>2, <1>4, <2>1, <2>4, RestOfList, ModerationAssumption DEF Workers
  <2>9. \A q \in Users \ {u} : Busy(q)' = Busy(q)
    BY <2>8 DEF Busy
  <2>10. ASSUME NEW q \in Users \ {u} PROVE Sound(q)'
    <3>1. \A v \in Busy(q) : work'[v] = work[v] \/ (~InHand(v, q) /\ (InHand(v, q)' => work'[v].at = "normal"))
      <4> SUFFICES ASSUME NEW v \in Busy(q), v = Sched
                   PROVE  ~InHand(v, q) /\ (InHand(v, q)' => work'[v].at = "normal")
        BY <2>8 DEF Busy
      <4> QED
        BY <1>1, <1>4, <2>2, <2>3, <2>4 DEF InHand, Target
    <3>2. Sound(q)
      BY DEF BansSound
    <3> QED
      BY <1>2, <2>9, <3>1, <3>2, Frame DEF WritesTo
  <2>11. Sound(u)'
    <3> SUFFICES ASSUME fails' = 0, u \notin mixed' \cup edited'
                 PROVE  /\ Matched(u)' /\ \A v, x \in Busy(u)' : v = x
                        /\ \A v \in Busy(u)' : InHand(v, u)' => OnTrack(v)'
      BY DEF Sound
    <3>1. fails = 0 /\ u \notin mixed \cup edited
      BY <1>2 DEF RowsTyped
    <3>2. \A v, x \in Busy(u) : v = x
      BY <3>1 DEF BansSound, Sound
    <3>3. Busy(u)' \subseteq {Sched}
      BY <1>1, <1>4, <2>8, <3>2, ModerationAssumption DEF Busy
    <3>4. InHand(Sched, u)' => work'[Sched].at = "normal" /\ Target(Sched)' = u
      BY <1>4, <2>2, <2>3, <2>4 DEF InHand
    <3>5. Matched(u)'
      BY <3>1
    <3> QED
      BY <3>3, <3>4, <3>5 DEF OnTrack, Doing
  <2> QED
    BY <2>6, <2>7, <2>10, <2>11 DEF BansSound
<1> QED
  BY <1>3, <1>4 DEF Workers


\* One write of a ban, of its compensation or of a restoration.
LEMMA WorkInvariant ==
  ASSUME RowsTyped, JobsTyped, BansSound, NEW w \in Workers, WorkStep(w)
  PROVE  RowsTyped' /\ JobsTyped' /\ BansSound'
<1>1. work[w].at \notin {"idle", "list"}
  BY DEF WorkStep, CountReports, ArchiveUser, UpsertBan, QuarantineUser, NormalUser, DeactivateBan,
         ClearTarget, WriteFails, Doing, Writes
<1>2. PICK u \in Users : u = Target(w)
  BY <1>1, AtWork
<1>3. /\ work[w] \in BanJob \cup LiftJob /\ work[w].user = u /\ w \in Busy(u) /\ InHand(w, u)
      /\ work[w] \in BanJob => w \in Handlers
  BY <1>1, <1>2, AtWork DEF Target
<1>4. fails # 0 \/ u \in mixed \cup edited \/ OnTrack(w)
  BY <1>3 DEF BansSound, Sound
<1>5. Tables
  BY DEF RowsTyped, Tables
<1>6. /\ work[w].at \in {"count", "archive", "upsert", "quarantine", "undo"} => work[w] \in BanJob
      /\ work[w].at \in {"normal", "deactivate", "clear"} => work[w] \in LiftJob
  BY <1>3 DEF BanJob, LiftJob
<1>7. ASSUME NEW at \in {"archive", "upsert", "quarantine", "undo"}, work[w] \in BanJob
      PROVE  /\ [work[w] EXCEPT !.at = at] \in BanJob /\ [work[w] EXCEPT !.at = at].user = u
             /\ [work[w] EXCEPT !.at = at].at = at
  BY <1>3, <1>7 DEF BanJob
<1>8. ASSUME NEW at \in {"deactivate", "clear"}, work[w] \in LiftJob
      PROVE  /\ [work[w] EXCEPT !.at = at] \in LiftJob /\ [work[w] EXCEPT !.at = at].user = u
             /\ [work[w] EXCEPT !.at = at].at = at
  BY <1>3, <1>8 DEF LiftJob
<1>9. work[w] \notin LiftJob \/ work[w] \notin BanJob
  BY DEF LiftJob, BanJob
<1>10. CASE CountReports(w)
  <2>1. work[w] \in BanJob /\ work[w].at = "count" /\ UNCHANGED <<rows, queue, batch, fails, mixed, edited>>
    BY <1>6, <1>10 DEF CountReports, Doing
  <2>2. Tables' /\ WritesTo(u) /\ (Matched(u) => Matched(u)')
    BY <1>5, <2>1 DEF Tables, WritesTo, rows, Matched
  <2>3. fails # 0 \/ u \in mixed \cup edited \/ Matched(u)'
    BY <1>2, <1>4, <2>1, <2>2 DEF OnTrack
  <2>4. CASE work' = [work EXCEPT ![w].at = "archive", ![w].strikes = ban[u].strikes + 1]
    <3> DEFINE job == [work[w] EXCEPT !.at = "archive", !.strikes = ban[u].strikes + 1]
    <3>1. ban[u].strikes + 1 \in Nat
      BY DEF RowsTyped
    <3>2. job \in BanJob /\ job.user = u /\ job.at = "archive"
      BY <1>3, <2>1, <3>1 DEF BanJob
    <3>3. work' = [work EXCEPT ![w] = job]
      BY <2>1, <2>4 DEF JobsTyped, BanJob
    <3> HIDE DEF job
    <3>4. work'[w] = job
      BY <3>3 DEF JobsTyped
    <3>5. fails' # 0 \/ u \in mixed \cup edited \/ OnTrack(w)'
      BY <2>1, <2>3, <3>2, <3>4 DEF OnTrack, Target, Doing
    <3> QED
      BY <1>1, <1>2, <1>9, <2>1, <2>2, <3>2, <3>3, <3>5, OnwardStep
  <2>5. CASE work' = [work EXCEPT ![w] = Idle]
    <3>1. Finish(w)
      BY <1>3, <2>1, <2>5, ModerationAssumption DEF Finish
    <3> QED
      BY <1>1, <1>2, <2>1, <2>2, <2>3, <3>1, DoneStep
  <2> QED
    BY <1>2, <1>10, <2>4, <2>5 DEF CountReports
<1>11. CASE ArchiveUser(w)
  <2>1. work[w] \in BanJob /\ work[w].at = "archive" /\ UNCHANGED <<ban, quarantine, reports, fails>>
    BY <1>6, <1>11 DEF ArchiveUser, Doing
  <2>2. CASE status[u] = "DELETED"
    <3>1. Finish(w) /\ UNCHANGED status
      BY <1>2, <1>11, <2>2 DEF ArchiveUser
    <3>2. Tables' /\ WritesTo(u) /\ Matched(u)'
      BY <1>5, <2>1, <2>2, <3>1 DEF Tables, WritesTo, Matched
    <3> QED
      BY <1>1, <1>2, <2>1, <3>1, <3>2, DoneStep
  <2>3. CASE status[u] # "DELETED"
    <3> DEFINE job == [work[w] EXCEPT !.at = "upsert"]
    <3>1. status' = [status EXCEPT ![u] = "ARCHIVED"] /\ UNCHANGED <<queue, batch, mixed, edited>>
          /\ work' = [work EXCEPT ![w].at = "upsert"]
      BY <1>2, <1>11, <2>3 DEF ArchiveUser, Onward
    <3>2. job \in BanJob /\ job.user = u /\ job.at = "upsert"
      BY <1>7, <2>1
    <3>3. work' = [work EXCEPT ![w] = job]
      BY <3>1 DEF JobsTyped
    <3> HIDE DEF job
    <3>4. work'[w] = job
      BY <3>3 DEF JobsTyped
    <3>5. Tables' /\ WritesTo(u) /\ status'[u] = "ARCHIVED"
      BY <1>5, <2>1, <3>1 DEF Tables, WritesTo
    <3>6. OnTrack(w)'
      BY <3>2, <3>4, <3>5 DEF OnTrack, Target, Doing
    <3> QED
      BY <1>1, <1>2, <1>9, <2>1, <3>1, <3>2, <3>3, <3>5, <3>6, OnwardStep
  <2> QED
    BY <2>2, <2>3
<1>12. CASE UpsertBan(w)
  <2> DEFINE job == [work[w] EXCEPT !.at = "quarantine"]
             r == [active |-> TRUE, until |-> work[w].until, strikes |-> work[w].strikes]
  <2>1. work[w] \in BanJob /\ work[w].at = "upsert" /\ UNCHANGED <<status, quarantine, reports, fails>>
    BY <1>6, <1>12 DEF UpsertBan, Doing
  <2>2. r \in [active : BOOLEAN, until : {"none", "forever", "running", "expired"}, strikes : Nat] /\ r.active
    BY <2>1 DEF BanJob
  <2>3. ban' = [ban EXCEPT ![u] = r] /\ UNCHANGED <<queue, batch, mixed, edited>>
        /\ work' = [work EXCEPT ![w].at = "quarantine"]
    BY <1>2, <1>12 DEF UpsertBan, Onward
  <2>4. job \in BanJob /\ job.user = u /\ job.at = "quarantine"
    BY <1>7, <2>1
  <2>5. work' = [work EXCEPT ![w] = job]
    BY <2>3 DEF JobsTyped
  <2> HIDE DEF job, r
  <2>6. work'[w] = job
    BY <2>5 DEF JobsTyped
  <2>7. Tables' /\ WritesTo(u) /\ ban'[u].active
    BY <1>5, <2>1, <2>2, <2>3 DEF Tables, WritesTo
  <2>8. fails' # 0 \/ u \in mixed \cup edited \/ OnTrack(w)'
    <3>1. fails # 0 \/ u \in mixed \cup edited \/ (status[u] # "DELETED" => status[u] = "ARCHIVED")
      BY <1>2, <1>4, <2>1 DEF OnTrack
    <3> QED
      BY <2>1, <2>4, <2>6, <2>7, <3>1 DEF OnTrack, Target, Doing
  <2> QED
    BY <1>1, <1>2, <1>9, <2>1, <2>3, <2>4, <2>5, <2>7, <2>8, OnwardStep
<1>13. CASE QuarantineUser(w)
  <2>1. work[w].at = "quarantine" /\ UNCHANGED <<status, ban, reports, fails>>
        /\ quarantine' = quarantine \cup {u} /\ Finish(w)
    BY <1>2, <1>13 DEF QuarantineUser, Doing
  <2>2. Tables' /\ WritesTo(u)
    BY <1>5, <2>1 DEF Tables, WritesTo
  <2>3. fails' # 0 \/ u \in mixed \cup edited \/ Matched(u)'
    BY <1>2, <1>4, <2>1 DEF OnTrack, Matched, Doing
  <2> QED
    BY <1>1, <1>2, <2>1, <2>2, <2>3, DoneStep
<1>14. CASE NormalUser(w)
  <2>1. work[w].at \in {"normal", "undo"} /\ UNCHANGED <<ban, quarantine, reports, fails>>
        /\ status' = IF status[u] = "DELETED" THEN status ELSE [status EXCEPT ![u] = "NORMAL"]
    BY <1>2, <1>14 DEF NormalUser, Doing
  <2>2. Tables' /\ WritesTo(u)
    BY <1>5, <2>1 DEF Tables, WritesTo
  <2>3. CASE work[w].at = "undo" \/ status[u] = "DELETED"
    <3>1. Finish(w)
      BY <1>2, <1>14, <2>3 DEF NormalUser, Doing
    <3>2. fails' # 0 \/ u \in mixed \cup edited \/ Matched(u)'
      BY <1>4, <2>1, <2>3 DEF OnTrack, Matched, Doing
    <3> QED
      BY <1>1, <1>2, <2>1, <2>2, <3>1, <3>2, DoneStep
  <2>4. CASE work[w].at = "normal" /\ status[u] # "DELETED"
    <3> DEFINE job == [work[w] EXCEPT !.at = "deactivate"]
    <3>1. work' = [work EXCEPT ![w].at = "deactivate"] /\ UNCHANGED <<queue, batch, mixed, edited>>
      BY <1>2, <1>14, <2>4 DEF NormalUser, Doing, Onward
    <3>2. job \in LiftJob /\ job.user = u /\ job.at = "deactivate"
      BY <1>6, <1>8, <2>4
    <3>3. work' = [work EXCEPT ![w] = job]
      BY <3>1 DEF JobsTyped
    <3> HIDE DEF job
    <3>4. work'[w] = job /\ status'[u] = "NORMAL"
      BY <2>1, <2>4, <3>3 DEF JobsTyped, RowsTyped
    <3>5. OnTrack(w)'
      BY <3>2, <3>4 DEF OnTrack, Target, Doing
    <3> QED
      BY <1>1, <1>2, <2>1, <2>2, <3>1, <3>2, <3>3, <3>5, OnwardStep
  <2> QED
    BY <2>1, <2>3, <2>4
<1>15. CASE DeactivateBan(w)
  <2> DEFINE job == [work[w] EXCEPT !.at = "clear"]
             r == [ban[u] EXCEPT !.active = FALSE]
  <2>1. work[w] \in LiftJob /\ work[w].at = "deactivate" /\ UNCHANGED <<status, quarantine, reports, fails>>
    BY <1>6, <1>15 DEF DeactivateBan, Doing
  <2>2. r \in [active : BOOLEAN, until : {"none", "forever", "running", "expired"}, strikes : Nat] /\ r.active = FALSE
    BY DEF RowsTyped
  <2>3. ban' = [ban EXCEPT ![u] = r] /\ UNCHANGED <<queue, batch, mixed, edited>>
        /\ work' = [work EXCEPT ![w].at = "clear"]
    BY <1>2, <1>15 DEF DeactivateBan, Onward, RowsTyped
  <2>4. job \in LiftJob /\ job.user = u /\ job.at = "clear"
    BY <1>8, <2>1
  <2>5. work' = [work EXCEPT ![w] = job]
    BY <2>3 DEF JobsTyped
  <2> HIDE DEF job, r
  <2>6. work'[w] = job
    BY <2>5 DEF JobsTyped
  <2>7. Tables' /\ WritesTo(u) /\ ban'[u].active = FALSE
    BY <1>5, <2>1, <2>2, <2>3 DEF Tables, WritesTo
  <2>8. fails' # 0 \/ u \in mixed \cup edited \/ OnTrack(w)'
    <3>1. fails # 0 \/ u \in mixed \cup edited \/ (status[u] # "DELETED" => status[u] = "NORMAL")
      BY <1>2, <1>4, <2>1 DEF OnTrack
    <3> QED
      BY <2>1, <2>4, <2>6, <2>7, <3>1 DEF OnTrack, Target, Doing
  <2> QED
    BY <1>1, <1>2, <2>1, <2>3, <2>4, <2>5, <2>7, <2>8, OnwardStep
<1>16. CASE ClearTarget(w)
  <2>1. work[w].at = "clear" /\ UNCHANGED <<status, ban, fails>> /\ Finish(w)
        /\ quarantine' = quarantine \ {u} /\ reports' = [reports EXCEPT ![u] = {}]
    BY <1>2, <1>16 DEF ClearTarget, Doing
  <2>2. Tables' /\ WritesTo(u)
    BY <1>5, <2>1 DEF Tables, WritesTo
  <2>3. fails' # 0 \/ u \in mixed \cup edited \/ Matched(u)'
    BY <1>2, <1>4, <2>1 DEF OnTrack, Matched, Doing
  <2> QED
    BY <1>1, <1>2, <2>1, <2>2, <2>3, DoneStep
<1>17. CASE WriteFails(w)
  <2>1. fails' = fails + 1 /\ fails' # 0 /\ UNCHANGED rows
    BY <1>17 DEF WriteFails, RowsTyped
  <2>2. Tables' /\ WritesTo(u)
    BY <1>5, <2>1 DEF Tables, WritesTo, rows
  <2>3. CASE Finish(w)
    BY <1>1, <1>2, <2>1, <2>2, <2>3, DoneStep
  <2>4. CASE Doing(w, "upsert") /\ Onward(w, "undo")
    <3> DEFINE job == [work[w] EXCEPT !.at = "undo"]
    <3>1. work' = [work EXCEPT ![w].at = "undo"] /\ UNCHANGED <<queue, batch, mixed, edited>>
      BY <2>4 DEF Onward
    <3>2. work[w] \in BanJob /\ job \in BanJob /\ job.user = u
      BY <1>6, <1>7, <2>4 DEF Doing
    <3>3. work' = [work EXCEPT ![w] = job]
      BY <3>1 DEF JobsTyped
    <3> HIDE DEF job
    <3> QED
      BY <1>1, <1>2, <1>9, <2>1, <2>2, <3>1, <3>2, <3>3, OnwardStep
  <2> QED
    BY <1>17, <2>3, <2>4 DEF WriteFails
<1> QED
  BY <1>10, <1>11, <1>12, <1>13, <1>14, <1>15, <1>16, <1>17 DEF WorkStep


\* A request takes up work on a user.
LEMMA StartStep ==
  ASSUME RowsTyped, JobsTyped, BansSound, NEW h \in Handlers, NEW u \in Users, NEW job \in BanJob \cup LiftJob,
         job.user = u, job.at \in {"count", "archive", "normal"}, Start(h, u, job),
         UNCHANGED <<status, ban, quarantine>>, reports' \in [Users -> SUBSET Reporters]
  PROVE  RowsTyped' /\ JobsTyped' /\ BansSound'
<1>1. /\ work[h] = Idle /\ work' = [work EXCEPT ![h] = job] /\ UNCHANGED <<queue, batch, fails, edited>>
      /\ mixed' = IF Busy(u) = {} THEN mixed ELSE mixed \cup {u}
  BY DEF Start
<1>2. h \in Workers /\ h # Sched /\ job # Idle /\ job # Listing
  BY ModerationAssumption DEF Workers, Idle, Listing
<1>3. work'[h] = job /\ \A v \in Workers \ {h} : work'[v] = work[v]
  BY <1>1, <1>2 DEF JobsTyped
<1>4. RowsTyped'
  BY <1>1 DEF RowsTyped
<1>5. JobsTyped'
  <2>1. work' \in [Workers -> BanJob \cup LiftJob \cup {Idle, Listing}]
    BY <1>1 DEF JobsTyped
  <2>2. work'[Sched] = work[Sched] /\ \A g \in Handlers : work'[g] # Listing
    BY <1>2, <1>3 DEF JobsTyped, Workers
  <2> QED
    BY <1>1, <2>1, <2>2 DEF JobsTyped
<1>6. Busy(u)' = Busy(u) \cup {h} /\ \A q \in Users \ {u} : Busy(q)' = Busy(q)
  <2>1. \A q : q \in Range(queue) <=> q \in Range(queue')
    BY <1>1
  <2> QED
    BY <1>1, <1>2, <1>3, <2>1 DEF Busy, Workers
<1>7. ASSUME NEW q \in Users \ {u} PROVE Sound(q)'
  <2>1. \A v \in Busy(q) : work'[v] = work[v]
    BY <1>1, <1>2, <1>3 DEF Busy, Workers
  <2>2. Sound(q)
    BY DEF BansSound
  <2> QED
    BY <1>1, <1>6, <2>1, <2>2, Frame
<1>8. Sound(u)'
  <2> SUFFICES ASSUME fails' = 0, u \notin mixed' \cup edited'
               PROVE  Busy(u)' = {h} /\ OnTrack(h)' /\ InHand(h, u)'
    BY DEF Sound
  <2>1. Busy(u) = {} /\ fails = 0 /\ u \notin mixed \cup edited
    BY <1>1
  <2>2. Matched(u)'
    BY <2>1 DEF BansSound, Sound, Matched
  <2> QED
    BY <1>3, <1>6, <2>1, <2>2 DEF OnTrack, InHand, Target, Doing
<1> QED
  BY <1>4, <1>5, <1>7, <1>8 DEF BansSound

LEMMA RequestInvariant ==
  ASSUME RowsTyped, JobsTyped, BansSound, NEW h \in Handlers, NEW u \in Users, Request(h, u)
  PROVE  RowsTyped' /\ JobsTyped' /\ BansSound'
<1>1. status[u] \in {"NORMAL", "ARCHIVED", "DELETED"} /\ ban[u].strikes \in Nat
  BY DEF RowsTyped
<1>2. ASSUME BanUser(h, u) PROVE RowsTyped' /\ JobsTyped' /\ BansSound'
  <2>1. PICK until \in Terms : Start(h, u, Ban("ban", "archive", u, until, ban[u].strikes)) /\ UNCHANGED rows
    BY <1>2 DEF BanUser
  <2> DEFINE job == Ban("ban", "archive", u, until, ban[u].strikes)
  <2>2. until \in {"forever", "running"}
    BY ModerationAssumption
  <2>3. job \in BanJob /\ job.user = u /\ job.at = "archive"
    BY <1>1, <2>2 DEF Ban, BanJob
  <2> HIDE DEF job
  <2>4. UNCHANGED <<status, ban, quarantine>> /\ reports' \in [Users -> SUBSET Reporters]
    BY <2>1 DEF rows, RowsTyped
  <2>5. Start(h, u, job)
    BY <2>1 DEF job
  <2> QED
    BY <2>3, <2>4, <2>5, StartStep
<1>3. ASSUME UnbanUser(h, u) PROVE RowsTyped' /\ JobsTyped' /\ BansSound'
  <2> DEFINE job == Lift("unban", u)
  <2>1. job \in LiftJob /\ job.user = u /\ job.at = "normal"
    BY DEF Lift, LiftJob
  <2>2. Start(h, u, job) /\ UNCHANGED <<status, ban, quarantine>> /\ reports' \in [Users -> SUBSET Reporters]
    BY <1>3 DEF UnbanUser, rows, RowsTyped
  <2> HIDE DEF job
  <2> QED
    BY <2>1, <2>2, StartStep
<1>4. ASSUME NEW r \in Reporters, ReportUser(h, u, r) PROVE RowsTyped' /\ JobsTyped' /\ BansSound'
  <2> DEFINE job == Ban("auto", "count", u, "running", 0)
  <2>1. job \in BanJob /\ job.user = u /\ job.at = "count"
    BY <1>1 DEF Ban, BanJob
  <2>2. Start(h, u, job) /\ UNCHANGED <<status, ban, quarantine>> /\ reports' \in [Users -> SUBSET Reporters]
    BY <1>4 DEF ReportUser, RowsTyped
  <2> HIDE DEF job
  <2> QED
    BY <2>1, <2>2, StartStep
<1> QED
  BY <1>2, <1>3, <1>4 DEF Request

\* An account is edited or deleted, or the time of a ban passes.
LEMMA RowInvariant ==
  ASSUME RowsTyped, JobsTyped, BansSound, NEW u \in Users, EditState(u) \/ DeleteUser(u) \/ Expire(u)
  PROVE  RowsTyped' /\ JobsTyped' /\ BansSound'
<1>1. UNCHANGED <<quarantine, reports, work, queue, batch, fails, mixed>> /\ edited' \in {edited, edited \cup {u}}
  BY DEF EditState, DeleteUser, Expire
<1>2. status' \in [Users -> {"NORMAL", "ARCHIVED", "DELETED"}] /\ \A q \in Users \ {u} : status'[q] = status[q]
  BY DEF EditState, DeleteUser, Expire, RowsTyped
<1>3. /\ ban' \in [Users -> [active : BOOLEAN, until : {"none", "forever", "running", "expired"}, strikes : Nat]]
      /\ \A q \in Users : ban'[q].active = ban[q].active
  <2>1. CASE UNCHANGED ban
    BY <2>1 DEF RowsTyped
  <2>2. CASE Expire(u)
    <3> DEFINE r == [ban[u] EXCEPT !.until = "expired"]
    <3>1. r \in [active : BOOLEAN, until : {"none", "forever", "running", "expired"}, strikes : Nat] /\ r.active = ban[u].active
      BY DEF RowsTyped
    <3>2. ban' = [ban EXCEPT ![u] = r]
      BY <2>2 DEF Expire, RowsTyped
    <3> HIDE DEF r
    <3> QED
      BY <3>1, <3>2 DEF RowsTyped
  <2> QED
    BY <2>1, <2>2 DEF EditState, DeleteUser
<1>4. RowsTyped' /\ JobsTyped'
  BY <1>1, <1>2, <1>3 DEF RowsTyped, JobsTyped
<1>5. \A q \in Users : Sound(q) /\ Busy(q)' = Busy(q)
  BY <1>1 DEF BansSound, Busy
<1>6. \A q \in Users : status'[q] = status[q] => Sound(q)'
  BY <1>1, <1>3, <1>5, Frame
<1>7. CASE EditState(u)
  <2>1. Sound(u)'
    BY <1>7 DEF EditState, Sound
  <2> QED
    BY <1>2, <1>4, <1>6, <2>1 DEF BansSound
<1>8. CASE DeleteUser(u)
  <2>1. status'[u] = "DELETED" /\ UNCHANGED edited
    BY <1>8 DEF DeleteUser, RowsTyped
  <2>2. Matched(u)' /\ \A w : Doing(w, "undo")' <=> Doing(w, "undo")
    BY <1>1, <2>1 DEF Matched, Doing
  <2>3. \A w : InHand(w, u)' /\ ~Doing(w, "undo") => OnTrack(w)'
    BY <2>1, <2>2 DEF OnTrack, InHand
  <2>4. \A w : InHand(w, u)' <=> InHand(w, u)
    BY <1>1 DEF InHand, Target
  <2>5. Sound(u)'
    BY <1>1, <1>5, <2>1, <2>2, <2>3, <2>4 DEF Sound, OnTrack
  <2> QED
    BY <1>2, <1>4, <1>6, <2>5 DEF BansSound
<1>9. CASE Expire(u)
  BY <1>4, <1>6, <1>9 DEF Expire, BansSound
<1> QED
  BY <1>7, <1>8, <1>9

\* The scheduler's turn begins, and lists a batch.
LEMMA SchedulerInvariant ==
  ASSUME RowsTyped, JobsTyped, BansSound, Tick \/ ListExpired
  PROVE  RowsTyped' /\ JobsTyped' /\ BansSound'
<1>1. Sched \in Workers /\ Sched \notin Handlers /\ UNCHANGED <<status, ban, quarantine, reports, fails, edited>>
  BY ModerationAssumption DEF Workers, Tick, ListExpired, rows
<1>2. work[Sched].at \in {"idle", "list"} /\ queue = <<>>
  BY DEF Tick, ListExpired, JobsTyped, Idle, Doing, LiftJob
<1>3. CASE Tick
  <2>1. work' = [work EXCEPT ![Sched] = Listing] /\ UNCHANGED <<queue, batch, mixed>>
    BY <1>3 DEF Tick, Listing
  <2>2. work'[Sched] = Listing /\ \A h \in Handlers : work'[h] = work[h]
    BY <1>1, <2>1 DEF JobsTyped, Workers
  <2>3. RowsTyped' /\ JobsTyped'
    BY <1>1, <1>2, <2>1, <2>2 DEF RowsTyped, JobsTyped
  <2>4. \A q \in Users : Busy(q)' = Busy(q) /\ Sched \notin Busy(q)
    <3>1. Range(queue) = {} /\ Range(queue') = {}
      BY <1>2, <2>1 DEF Range
    <3> QED
      BY <1>1, <2>2, <3>1 DEF Busy
  <2>5. ASSUME NEW q \in Users PROVE Sound(q)'
    <3>1. \A v \in Busy(q) : work'[v] = work[v]
      BY <2>2, <2>4 DEF Busy
    <3>2. Sound(q)
      BY DEF BansSound
    <3> QED
      BY <1>1, <2>1, <2>4, <3>1, <3>2, Frame
  <2> QED
    BY <2>3, <2>5 DEF BansSound
<1>4. CASE ListExpired
  <2> DEFINE found == {u \in Users : Expired(u)}
             size == IF Cardinality(found) < BatchLimit THEN Cardinality(found) ELSE BatchLimit
  <2>1. size \in Nat
    <3>1. IsFiniteSet(found)
      BY ModerationAssumption, FS_Subset
    <3> QED
      BY <3>1, FS_CardinalityType, ModerationAssumption
  <2>2. PICK ids \in [1..size -> found] :
          /\ queue' = ids /\ batch' = size
          /\ work' = [work EXCEPT ![Sched] = IF size = 0 THEN Idle ELSE Lift("release", ids[1])]
          /\ mixed' = mixed \cup {u \in found : Busy(u) # {}}
    BY <1>4 DEF ListExpired
  <2> HIDE DEF size
  <2>3. ids \in Seq(Users) /\ Len(ids) = size /\ (ids = <<>> <=> size = 0) /\ (size # 0 => Head(ids) = ids[1] /\ ids[1] \in Users)
    BY <2>1
  <2> DEFINE job == IF size = 0 THEN Idle ELSE Lift("release", ids[1])
  <2>4. /\ size = 0 => job = Idle
        /\ size # 0 => job \in LiftJob /\ job.user = Head(ids) /\ job.at = "normal"
    BY <2>3 DEF Lift, LiftJob
  <2>5. work' = [work EXCEPT ![Sched] = job]
    BY <2>2
  <2> HIDE DEF job
  <2>6. work'[Sched] = job /\ \A h \in Handlers : work'[h] = work[h]
    BY <1>1, <2>5 DEF JobsTyped, Workers
  <2>7. RowsTyped'
    BY <1>1, <2>1, <2>2, <2>3 DEF RowsTyped
  <2>8. JobsTyped'
    <3>1. work' \in [Workers -> BanJob \cup LiftJob \cup {Idle, Listing}]
      BY <2>4, <2>5 DEF JobsTyped
    <3> QED
      BY <2>2, <2>3, <2>4, <2>6, <3>1 DEF JobsTyped
  <2>9. ASSUME NEW q \in Users PROVE Sound(q)'
    <3>1. Range(queue) = {} /\ Range(queue') \subseteq found
      BY <1>2, <2>1, <2>2 DEF Range
    <3>2. Sound(q)
      BY DEF BansSound
    <3>3. CASE q \notin Range(queue')
      <4>1. Busy(q)' = Busy(q) /\ Sched \notin Busy(q)
        BY <1>1, <2>6, <3>1, <3>3 DEF Busy
      <4>2. \A v \in Busy(q) : work'[v] = work[v]
        BY <2>6, <4>1 DEF Busy
      <4> QED
        BY <1>1, <2>2, <3>2, <4>1, <4>2, Frame
    <3>4. CASE q \in Range(queue')
      <4> SUFFICES ASSUME fails' = 0, q \notin mixed' \cup edited'
                   PROVE  /\ Busy(q)' = {Sched} /\ Matched(q)'
                          /\ InHand(Sched, q)' => OnTrack(Sched)'
        BY DEF Sound
      <4>1. Busy(q) = {} /\ fails = 0 /\ q \notin mixed \cup edited
        BY <1>1, <2>2, <3>1, <3>4
      <4>2. Matched(q)'
        BY <1>1, <3>2, <4>1 DEF Sound, Matched
      <4>3. Busy(q)' = {Sched}
        BY <2>6, <3>4, <4>1 DEF Busy
      <4>4. InHand(Sched, q)' => work'[Sched].at = "normal" /\ Target(Sched)' = q
        BY <2>4, <2>6 DEF InHand, Idle
      <4> QED
        BY <4>2, <4>3, <4>4 DEF OnTrack, Doing
    <3> QED
      BY <3>3, <3>4
  <2> QED
    BY <2>7, <2>8, <2>9 DEF BansSound
<1> QED
  BY <1>3, <1>4

\* However often a user is banned for good or for days, reported, released by the
\* scheduler and restored: account, ban and quarantine agree once nobody is at
\* work on them, unless two goroutines worked on the user at once, a write
\* failed or an administrator edited the account (moderation_user_ban.go).
THEOREM BansKeptTogether == Spec => []BanMatchesAccount
<1>1. RowsTyped /\ JobsTyped /\ BansSound /\ [Next]_vars => RowsTyped' /\ JobsTyped' /\ BansSound'
  <2> SUFFICES ASSUME RowsTyped, JobsTyped, BansSound, [Next]_vars PROVE RowsTyped' /\ JobsTyped' /\ BansSound'
    OBVIOUS
  <2>1. CASE UNCHANGED vars
    BY <2>1 DEF vars, RowsTyped, JobsTyped, BansSound, Sound, Busy, InHand, OnTrack, Matched, Target, Doing
  <2> QED
    BY <2>1, WorkInvariant, RequestInvariant, RowInvariant, SchedulerInvariant DEF Next
<1>2. BansSound => BanMatchesAccount
  BY DEF BansSound, Sound, BanMatchesAccount, Matched
<1> QED
  BY <1>1, <1>2, ModerationInit, PTL DEF Spec
=============================================================================
