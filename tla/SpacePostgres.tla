--------------------------- MODULE SpacePostgres ---------------------------
(***************************************************************************)
(* The transactions of Space as the PostgreSQL driver runs them: READ      *)
(* COMMITTED, each statement seeing what is committed when it runs, and    *)
(* row locks (FOR UPDATE) only on the parents of a relationship row.       *)
(*                                                                         *)
(* A transaction is a request and the helpers it still has to run.  The    *)
(* reads of one helper are one step; the writes and the commit are the     *)
(* last step, which releases the locks; an error path rolls back at once.  *)
(***************************************************************************)
EXTENDS Space, Sequences

CONSTANTS Procs,      \* database connections
          NoProc,     \* owner of a free row
          HomeSpace,  \* the Space that exists at the start
          AppAdmins,  \* users whose application role starts as ADMIN
          MaxTxns     \* bound: transactions begun in a behaviour

ASSUME PostgresAssumption ==
  /\ AppAdmins \subseteq Users /\ HomeSpace \in Spaces
  /\ NoProc \notin Procs /\ MaxTxns \in Nat

VARIABLES txn,        \* per connection: request, helpers left, values read
          userLock,   \* connection that holds the user row FOR UPDATE
          spaceLock,  \* connection that holds the Space row FOR UPDATE
          begun       \* transactions begun so far

lockVars   == <<userLock, spaceLock>>
pgVars     == <<vars, txn, lockVars, begun>>

\* Mutant: the invitation no longer takes the Space row before inserting.
HelpersInviteUnlocked(op) ==
  CASE op = "Invite" -> <<"authorize", "lockUser", "write">>
    [] op \in {"CreateSpace", "Accept"} -> <<"lockUser", "write">>
    [] op = "DeleteUser" -> <<"lockUser", "memberships", "write">>
    [] op = "DeleteSpace" -> <<"authorize", "lockSpace", "write">>
    [] op \in {"SetRole", "Remove"} -> <<"authorize", "member", "count", "write">>
    [] OTHER -> <<"authorize", "write">>

\* The helpers each driver method calls, in its order.
Helpers(op) ==
  CASE op = "Invite" -> <<"authorize", "lockSpace", "lockUser", "write">>
    [] op \in {"CreateSpace", "Accept"} -> <<"lockUser", "write">>
    [] op = "DeleteUser" -> <<"lockUser", "memberships", "write">>
    [] op = "DeleteSpace" -> <<"authorize", "lockSpace", "write">>
    [] op \in {"SetRole", "Remove"} -> <<"authorize", "member", "count", "write">>
    [] OTHER -> <<"authorize", "write">>

\* arg is the role offered, the status or role stored, or the InstanceAdmin flag.
Flags == {"InstanceAdmin", "caller"}
ArgsOf(op) ==
  CASE op \in {"Invite", "SetRole"} -> Roles
    [] op = "UpdateUser" -> Roles \cup {"NORMAL", "ARCHIVED"}
    [] op \in {"Remove", "UpdateSpace", "DeleteSpace"} -> Flags
    [] OTHER -> {"none"}
Ops == {"Invite", "SetRole", "Remove", "Revoke", "Accept", "Decline",
        "CreateSpace", "UpdateSpace", "DeleteSpace", "UpdateUser", "DeleteUser"}
OnTarget == {"Invite", "SetRole", "Remove", "Revoke"}

\* Operations without a target of their own have the actor as target.
Requests ==
  {r \in [op : Ops, actor : Users, space : Spaces, target : Users,
          arg : UNION {ArgsOf(op) : op \in Ops}] :
     /\ r.arg \in ArgsOf(r.op)
     /\ r.op \notin OnTarget => r.target = r.actor
     /\ (r.op = "CreateSpace") = (spaceStatus[r.space] = "UNUSED")}

Idle == [left |-> <<>>]
Running(p) == txn[p].left # <<>>
At(p, helper) == Running(p) /\ Head(txn[p].left) = helper
Advance(p) == txn' = [txn EXCEPT ![p].left = Tail(@)]

----------------------------------------------------------------------------
\* Mutant: an error path that returns without the deferred Rollback.
EndKeepsLocks(p) ==
  /\ txn' = [txn EXCEPT ![p] = Idle]
  /\ UNCHANGED lockVars

\* Commit, or the deferred Rollback: either way the row locks are released.
End(p) ==
  /\ txn' = [txn EXCEPT ![p] = Idle]
  /\ userLock' = [u \in Users |-> IF userLock[u] = p THEN NoProc ELSE userLock[u]]
  /\ spaceLock' = [s \in Spaces |-> IF spaceLock[s] = p THEN NoProc ELSE spaceLock[s]]
Rollback(p) == End(p) /\ UNCHANGED vars

\* Run a read: go on with what it saw, or fail and roll back.
Check(p, ok) ==
  \/ ok /\ Advance(p) /\ UNCHANGED <<vars, lockVars>>
  \/ ~ok /\ Rollback(p)

----------------------------------------------------------------------------
Begin(p) ==
  /\ ~Running(p)
  /\ begun < MaxTxns
  /\ begun' = begun + 1
  /\ \E r \in Requests :
       txn' = [txn EXCEPT ![p] =
                 [req |-> r, left |-> Helpers(r.op), seen |-> {}]]
  /\ UNCHANGED <<vars, lockVars>>

\* The reads a method starts with.  DeleteSpaceMember remembers whether its
\* target was NORMAL, requirePostgresSpaceDeleteAdmin the caller's role.
AuthorizePasses(r) ==
  CASE r.op \in {"Invite", "Revoke", "SetRole"} ->
         Authorized(r.space, r.actor, FALSE)
    [] r.op = "UpdateSpace" ->
         ActiveUser(r.actor) /\ Authorized(r.space, r.actor, r.arg = "InstanceAdmin")
    [] r.op = "Remove" ->
         /\ spaceStatus[r.space] = "LIVE"
         /\ \/ r.actor = r.target
            \/ ActiveUser(r.actor) /\ r.arg = "InstanceAdmin"
            \/ r.actor \in ActiveAdmins(r.space)
    [] r.op \in {"Decline", "DeleteSpace"} -> ActiveUser(r.actor)
    [] r.op = "UpdateUser" -> r.arg = "ARCHIVED" => ArchiveAllowed(r.actor)
    [] OTHER -> TRUE
Remembered(r) ==
  (IF r.op = "Remove" /\ ActiveUser(r.target) THEN {"targetNormal"} ELSE {})
    \cup (IF r.op = "DeleteSpace" /\ userRole[r.actor] = "ADMIN"
          THEN {"appAdmin"} ELSE {})
Authorize(p) ==
  /\ At(p, "authorize")
  /\ LET r == txn[p].req IN
       \/ /\ AuthorizePasses(r)
          /\ txn' = [txn EXCEPT ![p].left = Tail(@), ![p].seen = Remembered(r)]
          /\ UNCHANGED <<vars, lockVars>>
       \/ ~AuthorizePasses(r) /\ Rollback(p)
  /\ UNCHANGED begun

\* lockPostgresSpace waits for the row, then fails if it is gone.
LockSpace(p) ==
  /\ At(p, "lockSpace")
  /\ LET s == txn[p].req.space IN
       /\ spaceLock[s] = NoProc
       /\ \/ /\ spaceStatus[s] = "LIVE"
             /\ spaceLock' = [spaceLock EXCEPT ![s] = p]
             /\ Advance(p)
             /\ UNCHANGED <<vars, userLock>>
          \/ spaceStatus[s] # "LIVE" /\ Rollback(p)
  /\ UNCHANGED begun

\* Mutant: the user row is read, not locked.
LockUserReads(p) ==
  /\ At(p, "lockUser")
  /\ LET r == txn[p].req IN Check(p, ActiveUser(r.target))
  /\ UNCHANGED begun

\* lockPostgresActiveUser, and the same SELECT in DeleteUser, which takes an
\* archived user too.
LockUser(p) ==
  /\ At(p, "lockUser")
  /\ LET r == txn[p].req
         ok == IF r.op = "DeleteUser" THEN UserExists(r.target)
               ELSE ActiveUser(r.target)
     IN /\ userLock[r.target] = NoProc
        /\ \/ /\ ok
              /\ userLock' = [userLock EXCEPT ![r.target] = p]
              /\ Advance(p)
              /\ UNCHANGED <<vars, spaceLock>>
           \/ ~ok /\ Rollback(p)
  /\ UNCHANGED begun

\* getPostgresSpaceMember, after requirePostgresActiveUser in UpdateSpaceMember.
\* Only a step away from ADMIN goes on to count; the others write at once.
NeedsCount(r, seen) ==
  /\ memberRole[r.space][r.target] = "ADMIN"
  /\ \/ r.op = "SetRole" /\ r.arg # "ADMIN"
     \/ r.op = "Remove" /\ "targetNormal" \in seen
ReadMember(p) ==
  /\ At(p, "member")
  /\ LET r == txn[p].req
         found == /\ memberStatus[r.space][r.target] = "ACTIVE"
                  /\ r.op = "SetRole" => ActiveUser(r.target)
     IN \/ /\ found
           /\ txn' = [txn EXCEPT ![p].left =
                        IF NeedsCount(r, txn[p].seen) THEN Tail(@) ELSE <<"write">>]
           /\ UNCHANGED <<vars, lockVars>>
        \/ ~found /\ Rollback(p)
  /\ UNCHANGED begun

CountAdmins(p) ==
  /\ At(p, "count")
  /\ Check(p, AnotherAdminStays(txn[p].req.space))
  /\ UNCHANGED begun

CountMemberships(p) ==
  /\ At(p, "memberships")
  /\ Check(p, \A s \in Spaces : memberStatus[s][txn[p].req.target] # "ACTIVE")
  /\ UNCHANGED begun

----------------------------------------------------------------------------
(* The writes: each statement's WHERE clause is evaluated on what is       *)
(* committed now, and a statement on a locked row waits for the lock.      *)

SlotIs(r, status) == memberStatus[r.space][r.target] = status

\* The rows the last statements find; finding none is an error return.  (The
\* DELETE of a member row that is gone commits, which changes nothing either.)
WriteFinds(r, seen) ==
  CASE r.op = "CreateSpace" -> spaceStatus[r.space] = "UNUSED"
    [] r.op = "Invite" -> SlotIs(r, "NONE")
    [] r.op \in {"Accept", "Decline", "Revoke"} -> SlotIs(r, "INVITED")
    [] r.op = "SetRole" -> SlotIs(r, "ACTIVE")
    [] r.op = "Remove" -> SlotIs(r, "ACTIVE")
    [] r.op = "UpdateSpace" ->
         /\ spaceStatus[r.space] = "LIVE"
         /\ r.arg = "InstanceAdmin" \/ ActiveMember(r.space, r.actor)
    [] r.op = "DeleteSpace" ->
         \/ r.arg = "InstanceAdmin" /\ "appAdmin" \in seen
         \/ SlotIs(r, "ACTIVE") /\ memberRole[r.space][r.actor] = "ADMIN"
    [] OTHER -> UserExists(r.target)

\* UPDATE "user" and UPDATE space wait for the row like a lock does.
WriteWaits(p, r) ==
  \/ r.op = "UpdateUser" /\ userLock[r.target] \notin {p, NoProc}
  \/ r.op = "UpdateSpace" /\ spaceLock[r.space] \notin {p, NoProc}

SetSlot(r, status, role) ==
  /\ memberStatus' = [memberStatus EXCEPT ![r.space][r.target] = status]
  /\ memberRole' = [memberRole EXCEPT ![r.space][r.target] = role]

WriteMember(r) ==
  /\ \/ r.op = "Invite" /\ SetSlot(r, "INVITED", r.arg)
     \/ r.op = "Accept" /\ SetSlot(r, "ACTIVE", memberRole[r.space][r.target])
     \/ r.op \in {"Decline", "Revoke", "Remove"} /\ DropRow(r.space, r.target)
     \/ r.op = "SetRole" /\ SetSlot(r, "ACTIVE", r.arg)
  /\ UNCHANGED <<userVars, spaceVars>>

WriteUser(r) ==
  \/ /\ r.op = "UpdateUser"
     /\ \/ /\ r.arg \in Roles
           /\ userRole' = [userRole EXCEPT ![r.target] = r.arg]
           /\ UNCHANGED userStatus
        \/ /\ r.arg \notin Roles
           /\ userStatus' = [userStatus EXCEPT ![r.target] = r.arg]
           /\ UNCHANGED userRole
     /\ UNCHANGED <<spaceVars, memberVars>>
  \/ /\ r.op = "DeleteUser"
     /\ userStatus' = [userStatus EXCEPT ![r.target] = "DELETED"]
     /\ memberStatus' = [s \in Spaces |-> [memberStatus[s] EXCEPT ![r.target] =
                           IF @ = "INVITED" THEN "NONE" ELSE @]]
     /\ memberRole' = [s \in Spaces |-> [memberRole[s] EXCEPT ![r.target] =
                         IF memberStatus[s][r.target] = "INVITED" THEN "USER" ELSE @]]
     /\ UNCHANGED <<userRole, spaceVars>>

WriteSpace(r) ==
  \/ /\ r.op = "CreateSpace"
     /\ spaceStatus' = [spaceStatus EXCEPT ![r.space] = "LIVE"]
     /\ SetSlot(r, "ACTIVE", "ADMIN")
     /\ UNCHANGED <<userVars, accessMode>>
  \/ /\ r.op = "UpdateSpace"
     /\ \E mode \in AccessModes : accessMode' = [accessMode EXCEPT ![r.space] = mode]
     /\ UNCHANGED <<userVars, spaceStatus, memberVars>>
  \/ /\ r.op = "DeleteSpace"
     /\ spaceStatus' = [spaceStatus EXCEPT ![r.space] = "DELETED"]
     /\ memberStatus' = [memberStatus EXCEPT ![r.space] = [u \in Users |-> "NONE"]]
     /\ memberRole' = [memberRole EXCEPT ![r.space] = [u \in Users |-> "USER"]]
     /\ UNCHANGED <<userVars, accessMode>>

Write(p) ==
  /\ At(p, "write")
  /\ LET r == txn[p].req IN
       /\ ~WriteWaits(p, r)
       /\ \/ /\ WriteFinds(r, txn[p].seen)
             /\ WriteMember(r) \/ WriteUser(r) \/ WriteSpace(r)
             /\ End(p)
          \/ ~WriteFinds(r, txn[p].seen) /\ Rollback(p)
  /\ UNCHANGED begun

----------------------------------------------------------------------------
\* Any membership of one Space the driver can leave behind: at least one active
\* administrator, and every other slot empty, invited or active.
PgInit ==
  /\ userStatus = [u \in Users |-> "NORMAL"]
  /\ userRole = [u \in Users |-> IF u \in AppAdmins THEN "ADMIN" ELSE "USER"]
  /\ accessMode \in [Spaces -> AccessModes]
  /\ \A s, t \in Spaces : accessMode[s] = accessMode[t]
  /\ spaceStatus = [s \in Spaces |-> IF s = HomeSpace THEN "LIVE" ELSE "UNUSED"]
  /\ memberStatus \in [Spaces -> [Users -> {"NONE", "INVITED", "ACTIVE"}]]
  /\ memberRole \in [Spaces -> [Users -> Roles]]
  /\ ActiveAdmins(HomeSpace) # {}
  /\ \A s \in Spaces, u \in Users :
       /\ s # HomeSpace => memberStatus[s][u] = "NONE"
       /\ memberStatus[s][u] = "NONE" => memberRole[s][u] = "USER"
  /\ txn = [p \in Procs |-> Idle]
  /\ userLock = [u \in Users |-> NoProc]
  /\ spaceLock = [s \in Spaces |-> NoProc]
  /\ begun = 0

Step(p) ==
  \/ Authorize(p)
  \/ LockSpace(p)
  \/ LockUser(p)
  \/ ReadMember(p)
  \/ CountAdmins(p)
  \/ CountMemberships(p)
  \/ Write(p)

PgNext == \E p \in Procs : Begin(p) \/ Step(p)

\* A connection keeps executing the statements of its transaction.
PgSpec == PgInit /\ [][PgNext]_pgVars /\ \A p \in Procs : WF_pgVars(Step(p))

----------------------------------------------------------------------------
(* Properties.  NoOrphanRows and ConsentStep are those of Space.           *)

\* A user archived or deleted while a transaction holds its row never becomes
\* a member, and nobody becomes one but through a pending invitation: the
\* parent locks make AcceptSpaceInvitation's check hold at its commit.
PgMembershipByConsent == [][ConsentStep]_pgVars

\* Every transaction ends, whatever locks the others take: Space-then-User is
\* an order without a cycle and every return path rolls back.
EveryTxnEnds == \A p \in Procs : Running(p) ~> ~Running(p)

\* What the design promises of every driver: each Space keeps an active
\* administrator.  Reads without locks let two transactions break it.
PgActiveAdminKept == ActiveAdminKept

----------------------------------------------------------------------------
(* The inductive invariant behind NoOrphanRows and PgMembershipByConsent.  *)

\* What is left of a transaction's helpers, from each place it can be at.
Remaining(op) ==
  CASE op = "Invite" ->
         {<<"authorize", "lockSpace", "lockUser", "write">>, <<"lockSpace", "lockUser", "write">>,
          <<"lockUser", "write">>, <<"write">>}
    [] op \in {"CreateSpace", "Accept"} -> {<<"lockUser", "write">>, <<"write">>}
    [] op = "DeleteUser" ->
         {<<"lockUser", "memberships", "write">>, <<"memberships", "write">>, <<"write">>}
    [] op = "DeleteSpace" ->
         {<<"authorize", "lockSpace", "write">>, <<"lockSpace", "write">>, <<"write">>}
    [] op \in {"SetRole", "Remove"} ->
         {<<"authorize", "member", "count", "write">>, <<"member", "count", "write">>,
          <<"count", "write">>, <<"write">>}
    [] OTHER -> {<<"authorize", "write">>, <<"write">>}

Request == [op : Ops, actor : Users, space : Spaces, target : Users,
            arg : UNION {ArgsOf(op) : op \in Ops}]
Txn == [req : Request, left : UNION {Remaining(op) : op \in Ops}, seen : SUBSET {"targetNormal", "appAdmin"}]

PgTypeOK ==
  /\ TypeOK
  /\ txn \in [Procs -> Txn \cup {Idle}]
  /\ \A p \in Procs : Running(p) =>
       txn[p].left \in Remaining(txn[p].req.op) /\ txn[p].req.arg \in ArgsOf(txn[p].req.op)
  /\ userLock \in [Users -> Procs \cup {NoProc}]
  /\ spaceLock \in [Spaces -> Procs \cup {NoProc}]
  /\ begun \in Nat

\* A transaction past the lock of a user or Space row holds it, and what it saw
\* of the row is still so: whoever would change it waits.
HoldsUser(p) ==
  /\ At(p, "write") \/ At(p, "memberships")
  /\ txn[p].req.op \in {"Invite", "CreateSpace", "Accept", "DeleteUser"}
  => /\ userLock[txn[p].req.target] = p
     /\ UserExists(txn[p].req.target)
     /\ txn[p].req.op # "DeleteUser" => ActiveUser(txn[p].req.target)
HoldsSpace(p) ==
  /\ At(p, "write") \/ At(p, "lockUser")
  /\ txn[p].req.op \in {"Invite", "DeleteSpace"}
  => spaceLock[txn[p].req.space] = p /\ spaceStatus[txn[p].req.space] = "LIVE"

\* The account about to be deleted has no membership, and gets none.
MayDelete(p) ==
  At(p, "write") /\ txn[p].req.op = "DeleteUser"
    => \A s \in Spaces : memberStatus[s][txn[p].req.target] # "ACTIVE"

LocksProtect == \A p \in Procs : HoldsUser(p) /\ HoldsSpace(p) /\ MayDelete(p)
=============================================================================
