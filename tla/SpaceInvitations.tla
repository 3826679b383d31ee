-------------------------- MODULE SpaceInvitations --------------------------
(* The invitation handlers of the Space service (space_service.go): each      *)
(* changes the invitation with one transaction of the store and then brings  *)
(* the invitee's notifications in line with writes of their own.  A write of *)
(* a notification may fail, and the server may stop between two of them.     *)
(*                                                                           *)
(* Every invitation is one of a Space and an invitee; the guards of the      *)
(* store's transactions on roles and accounts are those of module Space.     *)
EXTENDS Naturals, FiniteSets

CONSTANTS
    Pairs,          \* a Space and a user who may be invited to it
    SpaceOf,        \* the Space of each pair
    InviteeOf,      \* and the user
    Handlers,       \* goroutines serving requests
    MaxNotes,       \* bound: notifications ever written
    MaxFails        \* bound: writes that fail, and restarts

VARIABLES
    member,         \* the row of space_member of each pair
    owner,          \* the handler whose transaction made the pending invitation
    inbox,          \* invitation notifications, each with an id of its own
    notes,          \* notifications written so far
    work,           \* what each handler is doing
    fails,          \* failures so far
    dismissed,      \* pairs whose pending invitation lost its notification by hand
    gone,           \* pairs whose Space or account is deleted
    owed,           \* pairs whose handler reported that it could not finish, or was cut off
    mixed           \* pairs two handlers worked on at a time

inviteVars == <<member, owner, inbox, notes, work, fails, dismissed, gone, owed, mixed>>

NoJob == [at |-> "idle"]
Busy(p) == {h \in Handlers : work[h] # NoJob /\ work[h].pair = p}
NotesOf(p) == {n \in inbox : n.pair = p}

InviteInit ==
    /\ member = [p \in Pairs |-> "NONE"]
    /\ owner = [p \in Pairs |-> "nobody"]
    /\ inbox = {}
    /\ notes = 0
    /\ work = [h \in Handlers |-> NoJob]
    /\ fails = 0
    /\ dismissed = {}
    /\ gone = {}
    /\ owed = {}
    /\ mixed = {}

-----------------------------------------------------------------------------
\* Handler h changes the row of p in its transaction and goes on to the notifications.
Start(h, p, from, to, at) ==
    /\ work[h] = NoJob
    /\ member[p] = from
    /\ member' = [member EXCEPT ![p] = to]
    /\ work' = [work EXCEPT ![h] = [at |-> at, pair |-> p, ids |-> {}]]
    /\ mixed' = IF Busy(p) = {} THEN mixed ELSE mixed \cup {p}
    /\ owner' = IF to = "INVITED" THEN [owner EXCEPT ![p] = h] ELSE owner
    /\ dismissed' = IF to = "INVITED" THEN dismissed \ {p} ELSE dismissed
    /\ UNCHANGED <<inbox, notes, fails, gone, owed>>

Answered(h) == work' = [work EXCEPT ![h] = NoJob]

CreateSpaceInvitation(h, p) ==
    /\ notes + Cardinality({g \in Handlers : work[g].at = "notify"}) < MaxNotes
    /\ p \notin gone
    /\ Start(h, p, "NONE", "INVITED", "notify")

AcceptSpaceInvitation(h, p) == Start(h, p, "INVITED", "ACTIVE", "list")

\* DeclineSpaceInvitation by the invitee, DeleteSpaceInvitation by an administrator.
DeclineOrRevoke(h, p) == Start(h, p, "INVITED", "NONE", "list")

\* DeleteSpaceMember: the member leaves or is removed; no notification is involved.
LeaveSpace(p) ==
    /\ member[p] = "ACTIVE"
    /\ member' = [member EXCEPT ![p] = "NONE"]
    /\ UNCHANGED <<owner, inbox, notes, work, fails, dismissed, gone, owed, mixed>>

\* Notifications are deleted by other requests than those that answer them.
RemoveNotes(s) ==
    /\ inbox' = inbox \ s
    /\ dismissed' = dismissed \cup {n.pair : n \in s}

\* The invitee deletes the notification and leaves the invitation pending.
DeleteUserNotification(n) ==
    /\ n \in inbox
    /\ RemoveNotes({n})
    /\ UNCHANGED <<member, owner, notes, work, fails, gone, owed, mixed>>

\* The Space is deleted with its memberships and pending invitations; their
\* notifications stay and are no longer shown.
DeleteSpace(s) ==
    LET ps == {p \in Pairs : SpaceOf[p] = s} IN
    /\ member' = [p \in Pairs |-> IF p \in ps THEN "NONE" ELSE member[p]]
    /\ gone' = gone \cup ps
    /\ UNCHANGED <<owner, inbox, notes, work, fails, dismissed, owed, mixed>>

\* An account that is in no Space is deleted, with the invitations of its pairs
\* ps and the notifications it received and sent; what its requests still
\* running on other pairs write has no sender any more.
DeleteAccount(ps, sent, running) ==
    /\ \A p \in ps : member[p] # "ACTIVE"
    /\ member' = [p \in Pairs |-> IF p \in ps THEN "NONE" ELSE member[p]]
    /\ RemoveNotes(sent \cup {n \in inbox : n.pair \in ps})
    /\ gone' = gone \cup ps
    /\ owed' = owed \cup running
    /\ UNCHANGED <<owner, notes, work, fails, mixed>>

CreateInbox(h) ==
    /\ work[h].at = "notify"
    /\ inbox' = inbox \cup {[id |-> notes, pair |-> work[h].pair]}
    /\ notes' = notes + 1
    /\ Answered(h)
    /\ UNCHANGED <<owner, member, fails, dismissed, gone, owed, mixed>>

\* The second write fails: the invitation is to be taken back ...
CreateInboxFails(h) ==
    /\ work[h].at = "notify" /\ fails < MaxFails
    /\ fails' = fails + 1
    /\ work' = [work EXCEPT ![h].at = "revoke"]
    /\ UNCHANGED <<owner, member, inbox, notes, dismissed, gone, owed, mixed>>

\* Mutant: the failed notification is only reported.
CompensateNot(h) ==
    /\ work[h].at = "revoke"
    /\ Answered(h)
    /\ UNCHANGED <<owner, member, inbox, notes, fails, dismissed, gone, owed, mixed>>

\* ... by RevokeSpaceInvitation for the Space and the user, whichever
\* invitation that is by now; its own outcome is ignored.
Compensate(h) ==
    /\ work[h].at = "revoke"
    /\ member' = IF member[work[h].pair] = "INVITED"
                 THEN [member EXCEPT ![work[h].pair] = "NONE"] ELSE member
    /\ Answered(h)
    /\ UNCHANGED <<owner, inbox, notes, fails, dismissed, gone, owed, mixed>>

\* deleteSpaceInvitationNotifications lists the receiver's notifications ...
ListInboxes(h) ==
    /\ work[h].at = "list"
    /\ work' = [work EXCEPT ![h].at = "delete", ![h].ids = NotesOf(work[h].pair)]
    /\ UNCHANGED <<owner, member, inbox, notes, fails, dismissed, gone, owed, mixed>>

\* ... deletes those of the Space one by one, and is done.
DeleteInbox(h) ==
    /\ work[h].at = "delete"
    /\ \/ \E n \in work[h].ids :
            /\ inbox' = inbox \ {n}
            /\ work' = [work EXCEPT ![h].ids = @ \ {n}]
       \/ work[h].ids = {} /\ Answered(h) /\ UNCHANGED inbox
    /\ UNCHANGED <<owner, member, notes, fails, dismissed, gone, owed, mixed>>

\* Listing, deleting or taking back fails, or the server stops: what is left
\* undone stays so, and with a restart nobody is told.
CutOff(h) ==
    /\ work[h] # NoJob /\ fails < MaxFails
    /\ fails' = fails + 1
    /\ owed' = owed \cup {work[h].pair}
    /\ Answered(h)
    /\ UNCHANGED <<owner, member, inbox, notes, dismissed, gone, mixed>>

HandlerStep(h) ==
    \/ CreateInbox(h) \/ CreateInboxFails(h) \/ Compensate(h)
    \/ ListInboxes(h) \/ DeleteInbox(h) \/ CutOff(h)

InviteNext ==
    \/ \E h \in Handlers, p \in Pairs :
         CreateSpaceInvitation(h, p) \/ AcceptSpaceInvitation(h, p) \/ DeclineOrRevoke(h, p)
    \/ \E h \in Handlers : HandlerStep(h)
    \/ \E p \in Pairs : LeaveSpace(p) \/ DeleteSpace(SpaceOf[p])
    \/ \E n \in inbox : DeleteUserNotification(n)
    \/ \E ps \in {{p \in Pairs : InviteeOf[p] = InviteeOf[q]} : q \in Pairs} \cup {{}},
          sent \in SUBSET inbox, running \in SUBSET {q \in Pairs : Busy(q) # {}} :
         DeleteAccount(ps, sent, running)

InviteSpec == InviteInit /\ [][InviteNext]_inviteVars

-----------------------------------------------------------------------------
(* Properties.                                                               *)

Note == [id : Nat, pair : Pairs]
Job == [at : {"notify", "revoke", "list", "delete"}, pair : Pairs, ids : SUBSET Note]

\* Every variable keeps its type, and a handler deletes its own pair's notes only.
InviteTypeOK ==
    /\ member \in [Pairs -> {"NONE", "INVITED", "ACTIVE"}]
    /\ owner \in [Pairs -> Handlers \cup {"nobody"}]
    /\ inbox \in SUBSET Note
    /\ notes \in Nat /\ fails \in Nat
    /\ work \in [Handlers -> Job \cup {NoJob}]
    /\ \A h \in Handlers : work[h] # NoJob => \A n \in work[h].ids : n.pair = work[h].pair
    /\ dismissed \cup gone \cup owed \cup mixed \subseteq Pairs

\* What the notification list shows: none of a deleted Space or account.
Shown(p) == IF p \in gone THEN {} ELSE NotesOf(p)

\* A pending invitation that nobody dismissed is shown in one notification,
\* and an invitation that is not pending in none.
Consistent(p) ==
    IF member[p] = "INVITED" /\ p \notin dismissed
    THEN Cardinality(Shown(p)) = 1 ELSE Shown(p) = {}

\* When nobody is at work on a pair, its invitation and its notifications
\* agree, a notification that could not be written included: unless two
\* handlers overlapped on it or one of them could not finish.  A deleted Space,
\* and a deleted account of the invitee or of the inviter, leave no notification
\* that leads nowhere.
NotifiedAlone ==
    \A p \in Pairs \ (mixed \cup owed) : Busy(p) = {} => Consistent(p)

\* The same with handlers that overlap: nobody answers an invitation and is
\* notified of it afterwards.
NotifiedAlways ==
    \A p \in Pairs \ owed : Busy(p) = {} => Consistent(p)

\* When the notification of an invitation cannot be written, what is taken
\* back is that invitation and never another administrator's, whose
\* notification was or will be written.
TakesBackOwn ==
    [][\A h \in Handlers :
         work[h].at = "revoke" /\ work'[h] = NoJob /\ member' # member
             => owner[work[h].pair] = h]_inviteVars

-----------------------------------------------------------------------------
(* The inductive invariant behind NotifiedAlone.                             *)

\* The one handler at work on a pair has what it needs to finish: the invitation
\* it made has no notification yet, the one it answered has none but those
\* it is about to delete.
OnTrack(h) ==
    LET p == work[h].pair IN
    /\ work[h].at \in {"notify", "revoke"} =>
         member[p] = "INVITED" /\ p \notin dismissed /\ NotesOf(p) = {}
    /\ work[h].at \in {"list", "delete"} => member[p] # "INVITED"
    /\ work[h].at = "delete" => NotesOf(p) \subseteq work[h].ids
Noted(p) ==
    IF member[p] = "INVITED" /\ p \notin dismissed
    THEN \E n \in inbox : NotesOf(p) = {n} ELSE NotesOf(p) = {}
WorkedAlone ==
    /\ \A p \in gone : member[p] = "NONE"
    /\ \A p \in Pairs \ (mixed \cup owed \cup gone) :
        /\ Busy(p) = {} => Noted(p)
        /\ \A h, g \in Busy(p) : h = g
        /\ \A h \in Busy(p) : OnTrack(h)
=============================================================================
