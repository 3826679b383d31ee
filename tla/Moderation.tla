----------------------------- MODULE Moderation -----------------------------
(* Bans of the moderation service (moderation_user_ban.go and the handlers of *)
(* moderation_routes.go that call it): a ban is three writes without a        *)
(* transaction, lifting one another three, made by request handlers and by    *)
(* the scheduler that releases expired bans.  Any write may fail.             *)
(*                                                                            *)
(* Left open: which of several expired bans ran out first, and how long a     *)
(* temporary ban lasts.  Reports are about users; administrators' corrections *)
(* of the report counter are left out.                                        *)
EXTENDS Naturals, Sequences, FiniteSets, Functions

CONSTANTS
    Users, Reporters,
    Handlers,       \* goroutines serving requests
    Sched,          \* the scheduler's goroutine
    Threshold,      \* UserReportThreshold
    Terms,          \* what moderators ban for: "forever", or days that are "running"
    BatchLimit,     \* ids one listing of expired bans returns (100 in the code)
    MaxStrikes,     \* bound: automatic bans of one user
    MaxFails,       \* bound: writes that fail
    MaxEdited       \* bound: users edited directly

ASSUME ModerationAssumption ==
    /\ Sched \notin Handlers /\ Terms \subseteq {"forever", "running"}
    /\ {Threshold, BatchLimit} \subseteq Nat \ {0}
    /\ {MaxStrikes, MaxFails, MaxEdited} \subseteq Nat
    /\ IsFiniteSet(Users)

Workers == Handlers \cup {Sched}

VARIABLES
    status,         \* row_status of each account, or DELETED
    ban,            \* moderation_user_ban; until is the state of expires_ts
    quarantine,     \* moderation_quarantine, users only
    reports,        \* moderation_report: who reported each user
    work,           \* what each goroutine is doing
    queue,          \* ids the scheduler listed and has still to release
    batch,          \* how many it listed
    fails,          \* writes that failed so far
    mixed,          \* users two goroutines worked on at a time
    edited          \* users whose account an administrator edited directly

vars == <<status, ban, quarantine, reports, work, queue, batch, fails, mixed, edited>>
rows == <<status, ban, quarantine, reports>>

NoBan == [active |-> FALSE, until |-> "none", strikes |-> 0]
Idle == [at |-> "idle"]

Expired(u) == ban[u].active /\ ban[u].until = "expired"

\* The goroutines with work on u in hand, a place in the scheduler's list included.
Busy(u) == {h \in Handlers : work[h] # Idle /\ work[h].user = u}
             \cup (IF u \in Range(queue) THEN {Sched} ELSE {})

Init ==
    /\ status = [u \in Users |-> "NORMAL"]
    /\ ban = [u \in Users |-> NoBan]
    /\ quarantine = {}
    /\ reports = [u \in Users |-> {}]
    /\ work = [w \in Workers |-> Idle]
    /\ queue = <<>>
    /\ batch = 0
    /\ fails = 0
    /\ mixed = {}
    /\ edited = {}

-----------------------------------------------------------------------------
(* Requests.                                                                 *)

\* Handler h starts work on u; whoever is at it already now has company.
Start(h, u, job) ==
    /\ work[h] = Idle
    /\ work' = [work EXCEPT ![h] = job]
    /\ mixed' = IF Busy(u) = {} THEN mixed ELSE mixed \cup {u}
    /\ UNCHANGED <<queue, batch, fails, edited>>

\* banModerationUser for u, and restoreModerationUser.
Ban(op, at, u, until, strikes) ==
    [op |-> op, at |-> at, user |-> u, until |-> until, strikes |-> strikes, was |-> status[u]]
Lift(op, u) == [op |-> op, at |-> "normal", user |-> u]

\* POST .../ban: for good, or for a number of days.
BanUser(h, u) ==
    /\ status[u] # "DELETED"
    /\ \E until \in Terms :
         Start(h, u, Ban("ban", "archive", u, until, ban[u].strikes))
    /\ UNCHANGED rows

\* POST .../unban and .../quarantine/:type/:id/restore.
UnbanUser(h, u) ==
    /\ status[u] # "DELETED"
    /\ Start(h, u, Lift("unban", u))
    /\ UNCHANGED rows

\* POST .../reports: one report of each reporter; the count comes next.
ReportUser(h, u, r) ==
    /\ status[u] # "DELETED" /\ r \notin reports[u] /\ ban[u].strikes < MaxStrikes
    /\ Start(h, u, Ban("auto", "count", u, "running", 0))
    /\ reports' = [reports EXCEPT ![u] = @ \cup {r}]
    /\ UNCHANGED <<status, ban, quarantine>>

\* UpdateUser with the path "state": an administrator edits the account itself.
EditState(u) ==
    /\ status[u] # "DELETED" /\ Cardinality(edited \cup {u}) <= MaxEdited
    /\ status' = [status EXCEPT ![u] = IF @ = "NORMAL" THEN "ARCHIVED" ELSE "NORMAL"]
    /\ edited' = edited \cup {u}
    /\ UNCHANGED <<ban, quarantine, reports, work, queue, batch, fails, mixed>>

\* DeleteUser removes the account and leaves the moderation tables alone.
DeleteUser(u) ==
    /\ status[u] # "DELETED"
    /\ status' = [status EXCEPT ![u] = "DELETED"]
    /\ UNCHANGED <<ban, quarantine, reports, work, queue, batch, fails, mixed, edited>>

\* The expiry time of a temporary ban passes.
Expire(u) ==
    /\ ban[u].until = "running"
    /\ ban' = [ban EXCEPT ![u].until = "expired"]
    /\ UNCHANGED <<status, quarantine, reports, work, queue, batch, fails, mixed, edited>>

-----------------------------------------------------------------------------
(* banModerationUser and restoreModerationUser, write by write.              *)

\* Worker w goes on to another write of its job.
Onward(w, at) ==
    /\ work' = [work EXCEPT ![w].at = at]
    /\ UNCHANGED <<queue, batch, mixed, edited>>

\* Mutant: the scheduler lists again whenever it found anything.
FinishAgain(w) ==
    /\ IF w # Sched
       THEN work' = [work EXCEPT ![w] = Idle] /\ UNCHANGED <<queue, batch>>
       ELSE /\ queue' = Tail(queue)
            /\ work' = [work EXCEPT ![w] =
                  IF Tail(queue) # <<>> THEN Lift("release", queue[2])
                  ELSE [at |-> "list"]]
            /\ batch' = IF Tail(queue) # <<>> THEN batch ELSE 0
    /\ UNCHANGED <<mixed, edited>>

\* Mutant: an id that cannot be released ends the batch.
FinishStops(w) ==
    /\ IF w # Sched
       THEN work' = [work EXCEPT ![w] = Idle] /\ UNCHANGED <<queue, batch>>
       ELSE queue' = <<>> /\ work' = [work EXCEPT ![w] = Idle] /\ batch' = 0
    /\ UNCHANGED <<mixed, edited>>

\* The job is over, done or given up: a handler answers; the scheduler turns
\* to the next id, lists again after a full batch, and else is done.
Finish(w) ==
    /\ IF w # Sched
       THEN work' = [work EXCEPT ![w] = Idle] /\ UNCHANGED <<queue, batch>>
       ELSE /\ queue' = Tail(queue)
            /\ work' = [work EXCEPT ![w] =
                  IF Tail(queue) # <<>> THEN Lift("release", queue[2])
                  ELSE IF batch < BatchLimit THEN Idle ELSE [at |-> "list"]]
            /\ batch' = IF Tail(queue) # <<>> THEN batch ELSE 0
    /\ UNCHANGED <<mixed, edited>>

Doing(w, at) == work[w].at = at
Target(w) == work[w].user

\* A report that reaches the threshold bans the user, one strike more than read.
CountReports(w) ==
    /\ Doing(w, "count")
    /\ IF Cardinality(reports[Target(w)]) >= Threshold
       THEN work' = [work EXCEPT ![w].at = "archive", ![w].strikes = ban[Target(w)].strikes + 1]
       ELSE work' = [work EXCEPT ![w] = Idle]
    /\ UNCHANGED <<rows, queue, batch, fails, mixed, edited>>

\* UpdateUser of one row: nobody to update is an error.
ArchiveUser(w) ==
    /\ Doing(w, "archive")
    /\ IF status[Target(w)] = "DELETED" THEN Finish(w) /\ UNCHANGED status
       ELSE Onward(w, "upsert") /\ status' = [status EXCEPT ![Target(w)] = "ARCHIVED"]
    /\ UNCHANGED <<ban, quarantine, reports, fails>>

\* Mutant: the row is written and left inactive, as a released one was.
UpsertBanInactive(w) ==
    /\ Doing(w, "upsert")
    /\ ban' = [ban EXCEPT ![Target(w)] =
                 [active |-> @.active, until |-> work[w].until, strikes |-> work[w].strikes]]
    /\ Onward(w, "quarantine")
    /\ UNCHANGED <<status, quarantine, reports, fails>>

UpsertBan(w) ==
    /\ Doing(w, "upsert")
    /\ ban' = [ban EXCEPT ![Target(w)] =
                 [active |-> TRUE, until |-> work[w].until, strikes |-> work[w].strikes]]
    /\ Onward(w, "quarantine")
    /\ UNCHANGED <<status, quarantine, reports, fails>>

QuarantineUser(w) ==
    /\ Doing(w, "quarantine")
    /\ quarantine' = quarantine \cup {Target(w)}
    /\ Finish(w)
    /\ UNCHANGED <<status, ban, reports, fails>>

\* restoreModerationUser, and the compensation of a ban that was not saved.
NormalUser(w) ==
    /\ Doing(w, "normal") \/ Doing(w, "undo")
    /\ status' = IF status[Target(w)] = "DELETED" THEN status
                 ELSE [status EXCEPT ![Target(w)] = "NORMAL"]
    /\ IF Doing(w, "undo") \/ status[Target(w)] = "DELETED" THEN Finish(w)
       ELSE Onward(w, "deactivate")
    /\ UNCHANGED <<ban, quarantine, reports, fails>>

DeactivateBan(w) ==
    /\ Doing(w, "deactivate")
    /\ ban' = [ban EXCEPT ![Target(w)].active = FALSE]
    /\ Onward(w, "clear")
    /\ UNCHANGED <<status, quarantine, reports, fails>>

ClearTarget(w) ==
    /\ Doing(w, "clear")
    /\ reports' = [reports EXCEPT ![Target(w)] = {}]
    /\ quarantine' = quarantine \ {Target(w)}
    /\ Finish(w)
    /\ UNCHANGED <<status, ban, fails>>

Writes == {"archive", "upsert", "quarantine", "normal", "undo", "deactivate", "clear"}

\* A write fails: the job is given up, after archiving an account that was
\* not archived before by way of the compensation.
WriteFails(w) ==
    /\ work[w].at \in Writes
    /\ fails < MaxFails
    /\ fails' = fails + 1
    /\ IF Doing(w, "upsert") /\ work[w].was # "ARCHIVED"
       THEN Onward(w, "undo")
       ELSE Finish(w)
    /\ UNCHANGED rows

\* ReleaseExpiredUserBans runs every fifteen seconds ...
Tick ==
    /\ work[Sched] = Idle
    /\ work' = [work EXCEPT ![Sched] = [at |-> "list"]]
    /\ UNCHANGED <<rows, queue, batch, fails, mixed, edited>>

\* ... and lists the ids of a batch, the oldest first.
ListExpired ==
    /\ Doing(Sched, "list")
    /\ LET found == {u \in Users : Expired(u)}
           size == IF Cardinality(found) < BatchLimit THEN Cardinality(found) ELSE BatchLimit
       IN  \E ids \in [1..size -> found] :
             /\ \A i, j \in 1..size : ids[i] = ids[j] => i = j
             /\ queue' = ids
             /\ batch' = size
             /\ work' = [work EXCEPT ![Sched] =
                           IF size = 0 THEN Idle ELSE Lift("release", ids[1])]
             /\ mixed' = mixed \cup {u \in found : Busy(u) # {}}
    /\ UNCHANGED <<rows, fails, edited>>

-----------------------------------------------------------------------------
WorkStep(w) ==
    \/ CountReports(w) \/ ArchiveUser(w) \/ UpsertBan(w) \/ QuarantineUser(w)
    \/ NormalUser(w) \/ DeactivateBan(w) \/ ClearTarget(w) \/ WriteFails(w)

Request(h, u) ==
    \/ BanUser(h, u) \/ UnbanUser(h, u) \/ \E r \in Reporters : ReportUser(h, u, r)

Next ==
    \/ \E w \in Workers : WorkStep(w)
    \/ \E h \in Handlers, u \in Users : Request(h, u)
    \/ \E u \in Users : EditState(u) \/ DeleteUser(u) \/ Expire(u)
    \/ Tick \/ ListExpired

Spec == Init /\ [][Next]_vars

\* Goroutines go on, the ticker ticks, time passes.
FairSpec ==
    /\ Spec
    /\ \A w \in Workers : WF_vars(WorkStep(w))
    /\ WF_vars(Tick) /\ WF_vars(ListExpired)
    /\ \A u \in Users : WF_vars(Expire(u))

-----------------------------------------------------------------------------
(* Properties.                                                               *)

BanJob == [op : {"ban", "auto"}, at : {"count", "archive", "upsert", "quarantine", "undo"},
           user : Users, until : {"forever", "running"}, strikes : Nat,
           was : {"NORMAL", "ARCHIVED", "DELETED"}]
LiftJob == [op : {"unban", "release"}, at : {"normal", "deactivate", "clear"}, user : Users]
Listing == [at |-> "list"]

RowsTyped ==
    /\ status \in [Users -> {"NORMAL", "ARCHIVED", "DELETED"}]
    /\ ban \in [Users -> [active : BOOLEAN, until : {"none", "forever", "running", "expired"},
                          strikes : Nat]]
    /\ quarantine \subseteq Users /\ mixed \cup edited \subseteq Users
    /\ reports \in [Users -> SUBSET Reporters]
    /\ queue \in Seq(Users) /\ batch \in Nat /\ fails \in Nat

\* The scheduler lifts the ban of the first id it listed, and only it lists.
JobsTyped ==
    /\ work \in [Workers -> BanJob \cup LiftJob \cup {Idle, Listing}]
    /\ \A h \in Handlers : work[h] # Listing
    /\ IF queue = <<>> THEN work[Sched] \in {Idle, Listing}
       ELSE work[Sched] \in LiftJob /\ work[Sched].user = Head(queue)

\* Every variable keeps its type.
TypeOK ==
    /\ RowsTyped /\ JobsTyped
    /\ \A u \in Users : ban[u].strikes <= MaxStrikes + Cardinality(Handlers)
    /\ Len(queue) <= batch /\ batch <= BatchLimit /\ fails <= MaxFails

\* Whoever is not being worked on is shut out exactly while a ban of theirs is
\* active, and an active ban is listed in the quarantine: no sequence of bans,
\* reports, releases and restorations parts the three tables, as long as no
\* two of them ran at once on the user, no write failed, and nobody edited the
\* account itself.
BanMatchesAccount ==
    fails = 0 =>
        \A u \in Users \ (mixed \cup edited) :
            status[u] # "DELETED" /\ Busy(u) = {}
                => /\ status[u] = "ARCHIVED" <=> ban[u].active
                   /\ ban[u].active => u \in quarantine

\* A full batch of accounts that were deleted while a ban was active: none of
\* them is ever released, and each listing returns them again.
Stuck == Cardinality({u \in DOMAIN ban : Expired(u) /\ status[u] = "DELETED"}) >= BatchLimit

\* The run of a release always comes to its end, full batches, ids that cannot
\* be released and writes that fail included: the goroutine that also publishes
\* scheduled memos and empties the trash is not caught in it, but by a full batch
\* of deleted accounts or by bans that run out anew for ever.
SchedulerReturns ==
    []<>(work[Sched] = Idle \/ Stuck) \/ []<><<\E u \in DOMAIN ban : Expire(u)>>_vars

\* A ban for good ends only by a moderator's hand: an unban, or a new ban with
\* a number of days.
PermanentKept ==
    [][\A u \in Users :
         ban[u].active /\ ban[u].until = "forever" /\ ~(ban[u].active /\ ban[u].until = "forever")'
             => \E h \in Handlers \cap Busy(u) : work[h].op \in {"ban", "unban"}]_vars

\* No temporary ban lasts for ever: a user who is shut out, without a ban for
\* good and without having been edited, has a ban the scheduler will release.
NotLockedOut ==
    \A u \in Users \ edited :
        status[u] = "ARCHIVED" /\ Busy(u) = {} /\ ban[u].until # "forever" => ban[u].active

-----------------------------------------------------------------------------
(* The inductive invariant behind BanMatchesAccount.                         *)

Matched(u) ==
    status[u] # "DELETED" => /\ status[u] = "ARCHIVED" <=> ban[u].active
                             /\ ban[u].active => u \in quarantine

\* What the goroutine at work on a user has written so far.
OnTrack(w) ==
    LET u == Target(w) IN
    /\ ~Doing(w, "undo")
    /\ work[w].at \in {"count", "archive", "normal"} => Matched(u)
    /\ status[u] # "DELETED" =>
         /\ work[w].at \in {"upsert", "quarantine"} => status[u] = "ARCHIVED"
         /\ work[w].at \in {"deactivate", "clear"} => status[u] = "NORMAL"
         /\ Doing(w, "quarantine") => ban[u].active
         /\ Doing(w, "clear") => ~ban[u].active

\* Of the users the scheduler listed it has one in hand; the others wait.
InHand(w, u) == work[w].at \notin {"idle", "list"} /\ Target(w) = u
Sound(u) ==
    fails = 0 /\ u \notin mixed \cup edited =>
        /\ Busy(u) = {} => Matched(u)
        /\ \A v, w \in Busy(u) : v = w
        /\ \A w \in Busy(u) : IF InHand(w, u) THEN OnTrack(w) ELSE Matched(u)
BansSound == \A u \in Users : Sound(u)
=============================================================================
