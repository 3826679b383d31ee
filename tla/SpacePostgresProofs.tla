------------------------- MODULE SpacePostgresProofs -------------------------
(***************************************************************************)
(* Proofs about module SpacePostgres, for any number of connections, users *)
(* and Spaces and any number of transactions: what the row locks of the    *)
(* PostgreSQL driver are for.                                              *)
(***************************************************************************)
EXTENDS SpacePostgres, TLAPS

\* The helpers left after each helper.
LEMMA Tails ==
  /\ <<"write">> # <<>> /\ Head(<<"write">>) = "write"
  /\ <<"lockUser", "write">> # <<>> /\ Head(<<"lockUser", "write">>) = "lockUser" /\ Tail(<<"lockUser", "write">>) = <<"write">>
  /\ <<"lockSpace", "lockUser", "write">> # <<>> /\ Head(<<"lockSpace", "lockUser", "write">>) = "lockSpace" /\ Tail(<<"lockSpace", "lockUser", "write">>) = <<"lockUser", "write">>
  /\ <<"authorize", "lockSpace", "lockUser", "write">> # <<>> /\ Head(<<"authorize", "lockSpace", "lockUser", "write">>) = "authorize" /\ Tail(<<"authorize", "lockSpace", "lockUser", "write">>) = <<"lockSpace", "lockUser", "write">>
  /\ <<"memberships", "write">> # <<>> /\ Head(<<"memberships", "write">>) = "memberships" /\ Tail(<<"memberships", "write">>) = <<"write">>
  /\ <<"lockUser", "memberships", "write">> # <<>> /\ Head(<<"lockUser", "memberships", "write">>) = "lockUser" /\ Tail(<<"lockUser", "memberships", "write">>) = <<"memberships", "write">>
  /\ <<"lockSpace", "write">> # <<>> /\ Head(<<"lockSpace", "write">>) = "lockSpace" /\ Tail(<<"lockSpace", "write">>) = <<"write">>
  /\ <<"authorize", "lockSpace", "write">> # <<>> /\ Head(<<"authorize", "lockSpace", "write">>) = "authorize" /\ Tail(<<"authorize", "lockSpace", "write">>) = <<"lockSpace", "write">>
  /\ <<"count", "write">> # <<>> /\ Head(<<"count", "write">>) = "count" /\ Tail(<<"count", "write">>) = <<"write">>
  /\ <<"member", "count", "write">> # <<>> /\ Head(<<"member", "count", "write">>) = "member" /\ Tail(<<"member", "count", "write">>) = <<"count", "write">>
  /\ <<"authorize", "member", "count", "write">> # <<>> /\ Head(<<"authorize", "member", "count", "write">>) = "authorize" /\ Tail(<<"authorize", "member", "count", "write">>) = <<"member", "count", "write">>
  /\ <<"authorize", "write">> # <<>> /\ Head(<<"authorize", "write">>) = "authorize" /\ Tail(<<"authorize", "write">>) = <<"write">>
  OBVIOUS

\* Where each helper stands in its transaction.
LEMMA Stages ==
  ASSUME NEW op \in Ops, NEW l \in Remaining(op)
  PROVE  /\ l # <<>> /\ <<"write">> \in Remaining(op)
         /\ Head(l) # "write" => Tail(l) \in Remaining(op)
         /\ Head(l) = "authorize" =>
              /\ op \notin {"CreateSpace", "Accept", "DeleteUser"}
              /\ op \in {"Invite", "DeleteSpace"} => Head(Tail(l)) = "lockSpace"
         /\ Head(l) = "lockSpace" =>
              op \in {"Invite", "DeleteSpace"} /\ (op = "Invite" => Head(Tail(l)) = "lockUser")
         /\ Head(l) = "lockUser" =>
              /\ op \in {"Invite", "CreateSpace", "Accept", "DeleteUser"}
              /\ op = "DeleteUser" => Head(Tail(l)) = "memberships"
         /\ Head(l) \in {"member", "count"} => op \in {"SetRole", "Remove"}
         /\ Head(l) = "memberships" => op = "DeleteUser"
<1> USE Tails
<1>1. CASE op = "Invite"
  BY <1>1 DEF Remaining
<1>2. CASE op \in {"CreateSpace", "Accept"}
  BY <1>2 DEF Remaining
<1>3. CASE op = "DeleteUser"
  BY <1>3 DEF Remaining
<1>4. CASE op = "DeleteSpace"
  BY <1>4 DEF Remaining
<1>5. CASE op \in {"SetRole", "Remove"}
  BY <1>5 DEF Remaining
<1>6. CASE op \in {"Revoke", "Decline", "UpdateSpace", "UpdateUser"}
  BY <1>6 DEF Remaining
<1> QED
  BY <1>1, <1>2, <1>3, <1>4, <1>5, <1>6 DEF Ops

LEMMA FirstStage ==
  ASSUME NEW op \in Ops
  PROVE  /\ Helpers(op) \in Remaining(op)
         /\ op \in {"Invite", "DeleteSpace"} => Head(Helpers(op)) = "authorize"
         /\ op \in {"CreateSpace", "Accept", "DeleteUser"} => Head(Helpers(op)) = "lockUser"
<1> USE Tails
<1>1. CASE op = "Invite"
  BY <1>1 DEF Remaining, Helpers
<1>2. CASE op \in {"CreateSpace", "Accept"}
  BY <1>2 DEF Remaining, Helpers
<1>3. CASE op = "DeleteUser"
  BY <1>3 DEF Remaining, Helpers
<1>4. CASE op = "DeleteSpace"
  BY <1>4 DEF Remaining, Helpers
<1>5. CASE op \in {"SetRole", "Remove"}
  BY <1>5 DEF Remaining, Helpers
<1>6. CASE op \in {"Revoke", "Decline", "UpdateSpace", "UpdateUser"}
  BY <1>6 DEF Remaining, Helpers
<1> QED
  BY <1>1, <1>2, <1>3, <1>4, <1>5, <1>6 DEF Ops

LEMMA PgInitHolds == PgInit => PgTypeOK /\ NoOrphanRows /\ LocksProtect
<1> SUFFICES ASSUME PgInit PROVE PgTypeOK /\ NoOrphanRows /\ LocksProtect
  OBVIOUS
<1> USE PostgresAssumption DEF PgInit
<1>1. \A p \in Procs : ~Running(p)
  BY DEF Running, Idle
<1>2. TypeOK
  BY DEF TypeOK, Roles
<1>3. PgTypeOK
  BY <1>1, <1>2 DEF PgTypeOK
<1>4. NoOrphanRows
  BY DEF NoOrphanRows, UserExists
<1>5. LocksProtect
  BY <1>1 DEF LocksProtect, HoldsUser, HoldsSpace, MayDelete, At
<1> QED
  BY <1>3, <1>4, <1>5

-----------------------------------------------------------------------------
(* How a transaction moves on.                                               *)

\* The rest of a running transaction, and what stays of the others.
Moved(p, left) ==
  /\ txn' \in [Procs -> Txn \cup {Idle}]
  /\ txn'[p].req = txn[p].req /\ txn'[p].left = left
  /\ \A q \in Procs \ {p} : txn'[q] = txn[q]

LEMMA RunningTxn ==
  ASSUME PgTypeOK, NEW p \in Procs, Running(p)
  PROVE  /\ txn[p] \in Txn /\ txn[p].req.op \in Ops /\ txn[p].left \in Remaining(txn[p].req.op)
         /\ txn[p].req \in Request /\ txn[p].req.arg \in ArgsOf(txn[p].req.op)
         /\ txn[p].req.target \in Users /\ txn[p].req.actor \in Users /\ txn[p].req.space \in Spaces
<1>1. txn[p] \in Txn
  BY DEF PgTypeOK, Running, Idle
<1> QED
  BY <1>1 DEF PgTypeOK, Txn, Request

LEMMA MovedOn ==
  ASSUME PgTypeOK, NEW p \in Procs, Running(p), NEW l \in Remaining(txn[p].req.op),
         \/ txn' = [txn EXCEPT ![p].left = l]
         \/ \E sn \in SUBSET {"targetNormal", "appAdmin"} :
              txn' = [txn EXCEPT ![p].left = l, ![p].seen = sn]
  PROVE  Moved(p, l)
<1>1. txn[p] \in Txn /\ txn[p].req.op \in Ops
  BY RunningTxn
<1>2. l \in UNION {Remaining(op) : op \in Ops}
  BY <1>1
<1>3. CASE txn' = [txn EXCEPT ![p].left = l]
  <2>1. [txn[p] EXCEPT !.left = l] \in Txn
    BY <1>1, <1>2 DEF Txn
  <2>2. txn' = [txn EXCEPT ![p] = [txn[p] EXCEPT !.left = l]]
    BY <1>3
  <2> QED
    BY <1>1, <2>1, <2>2 DEF PgTypeOK, Moved, Txn
<1>4. ASSUME NEW sn \in SUBSET {"targetNormal", "appAdmin"},
             txn' = [txn EXCEPT ![p].left = l, ![p].seen = sn]
      PROVE  Moved(p, l)
  <2>1. [txn[p] EXCEPT !.left = l, !.seen = sn] \in Txn
    BY <1>1, <1>2 DEF Txn
  <2>2. txn' = [txn EXCEPT ![p] = [txn[p] EXCEPT !.left = l, !.seen = sn]]
    BY <1>1, <1>4 DEF PgTypeOK, Txn
  <2> QED
    BY <1>1, <2>1, <2>2 DEF PgTypeOK, Moved, Txn
<1> QED
  BY <1>3, <1>4

Holds(p) == HoldsUser(p) /\ HoldsSpace(p) /\ MayDelete(p)

\* Nobody but p loses a lock.
LocksOfOthersStay(p) ==
  /\ userLock' \in [Users -> Procs \cup {NoProc}] /\ spaceLock' \in [Spaces -> Procs \cup {NoProc}]
  /\ \A q \in Procs \ {p}, u \in Users : userLock[u] = q => userLock'[u] = q
  /\ \A q \in Procs \ {p}, s \in Spaces : spaceLock[s] = q => spaceLock'[s] = q

\* A transaction that moves on without writing.
LEMMA ReadStep ==
  ASSUME PgTypeOK, NoOrphanRows, LocksProtect, NEW p \in Procs, Running(p),
         NEW l \in Remaining(txn[p].req.op), Moved(p, l), UNCHANGED <<vars, begun>>,
         LocksOfOthersStay(p), Holds(p)'
  PROVE  (PgTypeOK /\ NoOrphanRows /\ LocksProtect)'
<1>1. UNCHANGED <<userStatus, userRole, spaceStatus, accessMode, memberStatus, memberRole>>
  BY DEF vars, userVars, spaceVars, memberVars
<1>2. TypeOK' /\ NoOrphanRows'
  BY <1>1 DEF PgTypeOK, TypeOK, NoOrphanRows, UserExists
<1>3. ASSUME NEW q \in Procs, Running(q)'
      PROVE  txn'[q].left \in Remaining(txn'[q].req.op) /\ txn'[q].req.arg \in ArgsOf(txn'[q].req.op)
  <2>1. CASE q = p
    BY <2>1, RunningTxn DEF Moved
  <2>2. CASE q # p
    BY <1>3, <2>2, RunningTxn DEF Moved, Running
  <2> QED
    BY <2>1, <2>2
<1>4. PgTypeOK'
  BY <1>2, <1>3 DEF PgTypeOK, Moved, LocksOfOthersStay
<1>5. ASSUME NEW q \in Procs \ {p} PROVE Holds(q)'
  <2>1. txn'[q] = txn[q] /\ Holds(q)
    BY DEF Moved, LocksProtect, Holds
  <2>2. CASE ~Running(q)
    BY <2>1, <2>2 DEF Holds, HoldsUser, HoldsSpace, MayDelete, At, Running
  <2>3. CASE Running(q)
    <3>1. txn[q].req.target \in Users /\ txn[q].req.space \in Spaces
      BY <2>3, RunningTxn
    <3> QED
      BY <1>1, <2>1, <3>1
         DEF Holds, HoldsUser, HoldsSpace, MayDelete, At, Running, LocksOfOthersStay, UserExists, ActiveUser
  <2> QED
    BY <2>2, <2>3
<1> QED
  BY <1>2, <1>4, <1>5 DEF LocksProtect, Holds

\* The end of a transaction releases its locks and nobody else's.
LEMMA EndReleases ==
  ASSUME PgTypeOK, NEW p \in Procs, End(p)
  PROVE  /\ txn' \in [Procs -> Txn \cup {Idle}] /\ ~Running(p)'
         /\ \A q \in Procs \ {p} : txn'[q] = txn[q]
         /\ LocksOfOthersStay(p)
  BY DEF End, PgTypeOK, LocksOfOthersStay, Running, Idle

\* Rows another transaction has locked are spared: the user keeps its status and
\* gets no membership, the Space stays.
RowsSpared(p) ==
  /\ \A u \in Users : userLock[u] \in Procs \ {p} =>
       /\ userStatus'[u] = userStatus[u]
       /\ \A s \in Spaces : memberStatus'[s][u] = "ACTIVE" => memberStatus[s][u] = "ACTIVE"
  /\ \A s \in Spaces : spaceLock[s] \in Procs \ {p} /\ spaceStatus[s] = "LIVE" => spaceStatus'[s] = "LIVE"

\* A transaction that ends, with or without having written.
LEMMA EndStep ==
  ASSUME PgTypeOK, LocksProtect, NEW p \in Procs, End(p), UNCHANGED begun, TypeOK', RowsSpared(p)
  PROVE  (PgTypeOK /\ LocksProtect)'
<1>1. PgTypeOK'
  <2>1. ASSUME NEW q \in Procs, Running(q)'
        PROVE  txn'[q].left \in Remaining(txn'[q].req.op) /\ txn'[q].req.arg \in ArgsOf(txn'[q].req.op)
    BY <2>1, EndReleases, RunningTxn DEF Running
  <2> QED
    BY <2>1, EndReleases DEF PgTypeOK, LocksOfOthersStay
<1>2. Holds(p)'
  BY EndReleases DEF Holds, HoldsUser, HoldsSpace, MayDelete, At
<1>3. ASSUME NEW q \in Procs \ {p} PROVE Holds(q)'
  <2>1. txn'[q] = txn[q] /\ Holds(q)
    BY EndReleases DEF LocksProtect, Holds
  <2>2. CASE ~Running(q)
    BY <2>1, <2>2 DEF Holds, HoldsUser, HoldsSpace, MayDelete, At, Running
  <2>3. CASE Running(q)
    <3>1. txn[q].req.target \in Users /\ txn[q].req.space \in Spaces
      BY <2>3, RunningTxn
    <3>2. LocksOfOthersStay(p)
      BY EndReleases
    <3>3. HoldsUser(q)'
      BY <2>1, <3>1, <3>2
         DEF Holds, HoldsUser, At, Running, LocksOfOthersStay, RowsSpared, UserExists, ActiveUser
    <3>4. HoldsSpace(q)'
      BY <2>1, <3>1, <3>2 DEF Holds, HoldsSpace, At, Running, LocksOfOthersStay, RowsSpared
    <3>5. MayDelete(q)'
      BY <2>1, <3>1 DEF Holds, HoldsUser, MayDelete, At, Running, RowsSpared
    <3> QED
      BY <3>3, <3>4, <3>5 DEF Holds
  <2> QED
    BY <2>2, <2>3
<1> QED
  BY <1>1, <1>2, <1>3 DEF LocksProtect, Holds

LEMMA RollbackStep ==
  ASSUME PgTypeOK, NoOrphanRows, LocksProtect, NEW p \in Procs, Rollback(p), UNCHANGED begun
  PROVE  (PgTypeOK /\ NoOrphanRows /\ LocksProtect)'
<1>1. UNCHANGED <<userStatus, userRole, spaceStatus, accessMode, memberStatus, memberRole>> /\ End(p)
  BY DEF Rollback, vars, userVars, spaceVars, memberVars
<1>2. TypeOK' /\ NoOrphanRows' /\ RowsSpared(p)
  BY <1>1 DEF PgTypeOK, TypeOK, NoOrphanRows, UserExists, RowsSpared
<1> QED
  BY <1>1, <1>2, EndStep

-----------------------------------------------------------------------------
(* The writes.                                                               *)

LEMMA WriteStep ==
  ASSUME PgTypeOK, NoOrphanRows, LocksProtect, NEW p \in Procs, Write(p)
  PROVE  (PgTypeOK /\ NoOrphanRows /\ LocksProtect)'
<1> DEFINE r == txn[p].req
           s == r.space
           u == r.target
<1>1. Running(p) /\ At(p, "write")
  BY DEF Write, At
<1>2. r.op \in Ops /\ s \in Spaces /\ u \in Users /\ r.arg \in ArgsOf(r.op)
  BY <1>1, RunningTxn
<1>3. HoldsUser(p) /\ HoldsSpace(p) /\ MayDelete(p)
  BY DEF LocksProtect
<1>4. CASE Rollback(p)
  BY <1>4, RollbackStep DEF Write
<1>5. CASE /\ WriteFinds(r, txn[p].seen) /\ ~WriteWaits(p, r)
           /\ WriteMember(r) \/ WriteUser(r) \/ WriteSpace(r)
           /\ End(p)
  <2> DEFINE Good == TypeOK' /\ NoOrphanRows' /\ RowsSpared(p)
  <2> SUFFICES Good
    BY <1>5, EndStep DEF Write
  <2> USE DEF PgTypeOK, TypeOK, NoOrphanRows, RowsSpared, UserExists, ActiveUser, SlotIs, SetSlot, DropRow,
              userVars, spaceVars, memberVars
  <2>1. ASSUME r.op = "Invite", SetSlot(r, "INVITED", r.arg), UNCHANGED <<userVars, spaceVars>>
        PROVE  Good
    <3>1. r.arg \in Roles /\ ActiveUser(u) /\ spaceStatus[s] = "LIVE"
      BY <1>1, <1>2, <1>3, <2>1 DEF ArgsOf, HoldsUser, HoldsSpace
    <3> QED
      BY <1>2, <2>1, <3>1
  <2>2. ASSUME r.op = "Accept", SetSlot(r, "ACTIVE", memberRole[s][u]), UNCHANGED <<userVars, spaceVars>>
        PROVE  Good
    <3>1. memberStatus[s][u] = "INVITED"
      BY <1>5, <2>2 DEF WriteFinds
    <3>2. userLock[u] = p
      BY <1>1, <1>3, <2>2 DEF HoldsUser
    <3> QED
      BY <1>2, <2>2, <3>1, <3>2
  <2>3. ASSUME DropRow(s, u), UNCHANGED <<userVars, spaceVars>>
        PROVE  Good
    BY <1>2, <2>3 DEF Roles
  <2>4. ASSUME r.op = "SetRole", SetSlot(r, "ACTIVE", r.arg), UNCHANGED <<userVars, spaceVars>>
        PROVE  Good
    <3>1. r.arg \in Roles
      BY <1>2, <2>4 DEF ArgsOf
    <3>2. memberStatus[s][u] = "ACTIVE"
      BY <1>5, <2>4 DEF WriteFinds
    <3> QED
      BY <1>2, <2>4, <3>1, <3>2
  <2>5. CASE WriteMember(r)
    BY <2>1, <2>2, <2>3, <2>4, <2>5 DEF WriteMember
  <2>6. CASE WriteUser(r) /\ r.op = "UpdateUser"
    <3>1. r.arg \in Roles \cup {"NORMAL", "ARCHIVED"} /\ userLock[u] \in {p, NoProc}
      BY <1>2, <1>5, <2>6 DEF ArgsOf, WriteWaits
    <3>2. UserExists(u) /\ UNCHANGED <<spaceStatus, accessMode, memberStatus, memberRole>>
      BY <1>5, <2>6 DEF WriteFinds, WriteUser
    <3>3. CASE r.arg \in Roles
      <4>1. userRole' \in [Users -> Roles] /\ userStatus' = userStatus
        BY <1>2, <2>6, <3>3 DEF WriteUser
      <4> QED
        BY <3>2, <4>1
    <3>4. CASE r.arg \notin Roles
      <4>1. r.arg \in {"NORMAL", "ARCHIVED"}
        BY <3>1, <3>4
      <4>2. userStatus' = [userStatus EXCEPT ![u] = r.arg] /\ userRole' = userRole
        BY <2>6, <3>4 DEF WriteUser
      <4>3. \A v \in Users : v # u => userStatus'[v] = userStatus[v]
        BY <4>2
      <4>4. userStatus'[u] = r.arg
        BY <1>2, <4>2
      <4>5. TypeOK'
        BY <1>2, <3>2, <4>1, <4>2
      <4>6. NoOrphanRows'
        BY <1>2, <3>2, <4>1, <4>3, <4>4
      <4>7. RowsSpared(p)
        BY <1>2, <3>1, <3>2, <4>3, PostgresAssumption
      <4> QED
        BY <4>5, <4>6, <4>7
    <3> QED
      BY <3>3, <3>4
  <2>7. CASE WriteUser(r) /\ r.op = "DeleteUser"
    <3>1. userLock[u] = p /\ \A t \in Spaces : memberStatus[t][u] # "ACTIVE"
      BY <1>1, <1>3, <2>7 DEF HoldsUser, MayDelete
    <3>2. /\ userStatus' = [userStatus EXCEPT ![u] = "DELETED"]
          /\ memberStatus' = [t \in Spaces |-> [memberStatus[t] EXCEPT ![u] =
                                IF @ = "INVITED" THEN "NONE" ELSE @]]
          /\ memberRole' = [t \in Spaces |-> [memberRole[t] EXCEPT ![u] =
                              IF memberStatus[t][u] = "INVITED" THEN "USER" ELSE @]]
          /\ UNCHANGED <<userRole, spaceStatus, accessMode>>
      BY <2>7 DEF WriteUser
    <3>3. ASSUME NEW t \in Spaces
          PROVE  /\ memberStatus'[t] \in [Users -> {"NONE", "INVITED", "ACTIVE"}]
                 /\ memberRole'[t] \in [Users -> Roles]
                 /\ memberStatus'[t][u] = "NONE"
                 /\ \A v \in Users : v # u => memberStatus'[t][v] = memberStatus[t][v]
      <4>1. memberStatus[t] \in [Users -> {"NONE", "INVITED", "ACTIVE"}] /\ memberRole[t] \in [Users -> Roles]
        OBVIOUS
      <4>2. memberStatus'[t] = [memberStatus[t] EXCEPT ![u] = IF @ = "INVITED" THEN "NONE" ELSE @]
        BY <3>2
      <4>3. memberRole'[t] = [memberRole[t] EXCEPT ![u] = IF memberStatus[t][u] = "INVITED" THEN "USER" ELSE @]
        BY <3>2
      <4>4. memberRole'[t] \in [Users -> Roles]
        BY <1>2, <4>1, <4>3 DEF Roles
      <4> QED
        BY <1>2, <3>1, <4>1, <4>2, <4>4
    <3>4. /\ userStatus' \in [Users -> {"UNUSED", "NORMAL", "ARCHIVED", "DELETED"}]
          /\ \A v \in Users : v # u => userStatus'[v] = userStatus[v]
      BY <1>2, <3>2
    <3>5. TypeOK'
      BY <3>2, <3>3, <3>4
    <3>6. NoOrphanRows'
      BY <3>2, <3>3, <3>4
    <3>7. RowsSpared(p)
      BY <1>2, <3>1, <3>2, <3>3, <3>4
    <3> QED
      BY <3>5, <3>6, <3>7
  <2>8. CASE WriteSpace(r) /\ r.op = "CreateSpace"
    <3>1. userLock[u] = p /\ ActiveUser(u) /\ spaceStatus[s] = "UNUSED"
      BY <1>1, <1>3, <1>5, <2>8 DEF HoldsUser, WriteFinds
    <3>2. /\ spaceStatus' = [spaceStatus EXCEPT ![s] = "LIVE"]
          /\ memberStatus' = [memberStatus EXCEPT ![s][u] = "ACTIVE"]
          /\ memberRole' = [memberRole EXCEPT ![s][u] = "ADMIN"]
          /\ UNCHANGED <<userStatus, userRole, accessMode>>
      BY <2>8 DEF WriteSpace
    <3>3. TypeOK'
      BY <1>2, <3>2 DEF Roles
    <3>4. NoOrphanRows'
      BY <1>2, <3>1, <3>2
    <3>5. RowsSpared(p)
      BY <1>2, <3>1, <3>2
    <3> QED
      BY <3>3, <3>4, <3>5
  <2>9. CASE WriteSpace(r) /\ r.op = "UpdateSpace"
    <3>1. UNCHANGED <<userStatus, userRole, spaceStatus, memberStatus, memberRole>>
      BY <2>9 DEF WriteSpace
    <3>2. accessMode' \in [Spaces -> AccessModes]
      BY <1>2, <2>9 DEF WriteSpace
    <3> QED
      BY <3>1, <3>2
  <2>10. CASE WriteSpace(r) /\ r.op = "DeleteSpace"
    <3>1. spaceLock[s] = p
      BY <1>1, <1>3, <2>10 DEF HoldsSpace
    <3>2. /\ spaceStatus' = [spaceStatus EXCEPT ![s] = "DELETED"]
          /\ memberStatus' = [memberStatus EXCEPT ![s] = [v \in Users |-> "NONE"]]
          /\ memberRole' = [memberRole EXCEPT ![s] = [v \in Users |-> "USER"]]
          /\ UNCHANGED <<userStatus, userRole, accessMode>>
      BY <2>10 DEF WriteSpace
    <3>3. TypeOK'
      BY <1>2, <3>2 DEF Roles
    <3>4. NoOrphanRows'
      BY <1>2, <3>2
    <3>5. RowsSpared(p)
      BY <1>2, <3>1, <3>2
    <3> QED
      BY <3>3, <3>4, <3>5
  <2> HIDE DEF Good
  <2> QED
    BY <1>5, <2>5, <2>6, <2>7, <2>8, <2>9, <2>10 DEF WriteUser, WriteSpace
<1> QED
  BY <1>4, <1>5 DEF Write


-----------------------------------------------------------------------------
(* The other steps.                                                          *)

Inv == PgTypeOK /\ NoOrphanRows /\ LocksProtect

\* A new transaction holds nothing and claims nothing yet.
LEMMA BeginStep ==
  ASSUME Inv, NEW p \in Procs, Begin(p)
  PROVE  Inv'
<1>1. PICK r \in Requests : txn' = [txn EXCEPT ![p] = [req |-> r, left |-> Helpers(r.op), seen |-> {}]]
  BY DEF Begin
<1>2. r \in Request /\ r.op \in Ops /\ r.arg \in ArgsOf(r.op)
  BY DEF Requests, Request
<1>3. Helpers(r.op) \in Remaining(r.op)
  BY <1>2, FirstStage
<1>4. [req |-> r, left |-> Helpers(r.op), seen |-> {}] \in Txn
  BY <1>2, <1>3 DEF Txn
<1>5. /\ txn' \in [Procs -> Txn \cup {Idle}]
      /\ txn'[p].req = r /\ txn'[p].left = Helpers(r.op)
      /\ \A q \in Procs \ {p} : txn'[q] = txn[q]
  BY <1>1, <1>4 DEF Inv, PgTypeOK
<1>6. UNCHANGED <<userStatus, userRole, spaceStatus, accessMode, memberStatus, memberRole, userLock, spaceLock>>
  BY DEF Begin, vars, userVars, spaceVars, memberVars, lockVars
<1>7. TypeOK' /\ NoOrphanRows'
  BY <1>6 DEF Inv, PgTypeOK, TypeOK, NoOrphanRows, UserExists
<1>8. PgTypeOK'
  <2>1. ASSUME NEW q \in Procs, Running(q)'
        PROVE  txn'[q].left \in Remaining(txn'[q].req.op) /\ txn'[q].req.arg \in ArgsOf(txn'[q].req.op)
    <3>1. CASE q = p
      BY <1>2, <1>3, <1>5, <3>1
    <3>2. CASE q # p
      BY <1>5, <2>1, <3>2, RunningTxn DEF Inv, Running
    <3> QED
      BY <3>1, <3>2
  <2>2. begun' \in Nat
    BY DEF Inv, PgTypeOK, Begin
  <2> QED
    BY <1>5, <1>6, <1>7, <2>1, <2>2 DEF Inv, PgTypeOK
<1>9. Holds(p)'
  BY <1>2, <1>5, FirstStage DEF Holds, HoldsUser, HoldsSpace, MayDelete, At, Running
<1>10. ASSUME NEW q \in Procs \ {p} PROVE Holds(q)'
  <2>1. txn'[q] = txn[q] /\ Holds(q)
    BY <1>5 DEF Inv, LocksProtect, Holds
  <2> QED
    BY <1>6, <2>1 DEF Holds, HoldsUser, HoldsSpace, MayDelete, At, Running, UserExists, ActiveUser
<1> QED
  BY <1>7, <1>8, <1>9, <1>10 DEF Inv, LocksProtect, Holds

\* The reads: authorization, the member row and the two counts.
LEMMA AuthorizeStep ==
  ASSUME Inv, NEW p \in Procs, Authorize(p)
  PROVE  Inv'
<1> DEFINE r == txn[p].req
           l == Tail(txn[p].left)
<1>1. Running(p) /\ Head(txn[p].left) = "authorize" /\ UNCHANGED begun
  BY DEF Authorize, At
<1>2. r.op \in Ops /\ txn[p].left \in Remaining(r.op)
  BY <1>1, RunningTxn DEF Inv
<1>3. CASE Rollback(p)
  BY <1>1, <1>3, RollbackStep DEF Inv
<1>4. CASE /\ txn' = [txn EXCEPT ![p].left = Tail(@), ![p].seen = Remembered(r)]
           /\ UNCHANGED <<vars, lockVars>>
  <2>1. l \in Remaining(r.op)
    BY <1>1, <1>2, Stages
  <2>2. Remembered(r) \in SUBSET {"targetNormal", "appAdmin"}
    BY DEF Remembered
  <2>3. txn' = [txn EXCEPT ![p].left = l, ![p].seen = Remembered(r)]
    BY <1>4
  <2>4. Moved(p, l)
    BY <1>1, <2>1, <2>2, <2>3, MovedOn DEF Inv
  <2>5. UNCHANGED <<userLock, spaceLock>>
    BY <1>4 DEF lockVars
  <2>6. LocksOfOthersStay(p)
    BY <2>5 DEF LocksOfOthersStay, Inv, PgTypeOK
  <2>7. Holds(p)'
    BY <1>1, <1>2, <2>4, Stages DEF Moved, Holds, HoldsUser, HoldsSpace, MayDelete, At, Running
  <2> QED
    BY <1>1, <1>4, <2>1, <2>4, <2>6, <2>7, ReadStep DEF Inv
<1> QED
  BY <1>3, <1>4 DEF Authorize

LEMMA ReadMemberStep ==
  ASSUME Inv, NEW p \in Procs, ReadMember(p)
  PROVE  Inv'
<1> DEFINE r == txn[p].req
           l == IF NeedsCount(r, txn[p].seen) THEN Tail(txn[p].left) ELSE <<"write">>
<1>1. Running(p) /\ Head(txn[p].left) = "member" /\ UNCHANGED begun
  BY DEF ReadMember, At
<1>2. r.op \in Ops /\ txn[p].left \in Remaining(r.op)
  BY <1>1, RunningTxn DEF Inv
<1>3. CASE Rollback(p)
  BY <1>1, <1>3, RollbackStep DEF Inv
<1>4. CASE /\ txn' = [txn EXCEPT ![p].left = IF NeedsCount(r, txn[p].seen) THEN Tail(@) ELSE <<"write">>]
           /\ UNCHANGED <<vars, lockVars>>
  <2>1. l \in Remaining(r.op) /\ r.op \in {"SetRole", "Remove"}
    BY <1>1, <1>2, Stages
  <2>2. txn' = [txn EXCEPT ![p].left = l]
    BY <1>4
  <2>3. Moved(p, l)
    <3> HIDE DEF l
    <3> QED
      BY <1>1, <2>1, <2>2, MovedOn DEF Inv
  <2>4. UNCHANGED <<userLock, spaceLock>>
    BY <1>4 DEF lockVars
  <2>5. LocksOfOthersStay(p)
    BY <2>4 DEF LocksOfOthersStay, Inv, PgTypeOK
  <2>6. Holds(p)'
    BY <2>1, <2>3 DEF Moved, Holds, HoldsUser, HoldsSpace, MayDelete
  <2> QED
    <3> HIDE DEF l
    <3> QED
      BY <1>1, <1>4, <2>1, <2>3, <2>5, <2>6, ReadStep DEF Inv
<1> QED
  BY <1>3, <1>4 DEF ReadMember

LEMMA CountStep ==
  ASSUME Inv, NEW p \in Procs, CountAdmins(p) \/ CountMemberships(p)
  PROVE  Inv'
<1> DEFINE r == txn[p].req
           l == Tail(txn[p].left)
<1>1. /\ Running(p) /\ Head(txn[p].left) \in {"count", "memberships"} /\ UNCHANGED begun
  BY DEF CountAdmins, CountMemberships, At
<1>2. r.op \in Ops /\ txn[p].left \in Remaining(r.op) /\ r.target \in Users
  BY <1>1, RunningTxn DEF Inv
<1>3. CASE Rollback(p)
  BY <1>1, <1>3, RollbackStep DEF Inv
<1>4. CASE Advance(p) /\ UNCHANGED <<vars, lockVars>> /\ ~Rollback(p)
  <2>1. l \in Remaining(r.op)
    BY <1>1, <1>2, Stages
  <2>2. txn' = [txn EXCEPT ![p].left = l]
    BY <1>4 DEF Advance
  <2>3. Moved(p, l)
    BY <1>1, <2>1, <2>2, MovedOn DEF Inv
  <2>4. UNCHANGED <<userLock, spaceLock>>
    BY <1>4 DEF lockVars
  <2>5. LocksOfOthersStay(p)
    BY <2>4 DEF LocksOfOthersStay, Inv, PgTypeOK
  <2>6. CASE Head(txn[p].left) = "count"
    <3>1. r.op \in {"SetRole", "Remove"}
      BY <1>2, <2>6, Stages
    <3>2. Holds(p)'
      BY <2>3, <3>1 DEF Moved, Holds, HoldsUser, HoldsSpace, MayDelete
    <3> QED
      BY <1>1, <1>4, <2>1, <2>3, <2>5, <3>2, ReadStep DEF Inv
  <2>7. CASE Head(txn[p].left) = "memberships"
    <3>1. r.op = "DeleteUser" /\ HoldsUser(p)
      BY <1>2, <2>7, Stages DEF Inv, LocksProtect
    <3>2. \A s \in Spaces : memberStatus[s][r.target] # "ACTIVE"
      BY <1>4, <2>7 DEF CountAdmins, CountMemberships, Check, At
    <3>3. UNCHANGED <<userStatus, memberStatus>>
      BY <1>4 DEF vars, userVars, memberVars
    <3>4. userLock[r.target] = p /\ UserExists(r.target)
      BY <1>1, <2>7, <3>1 DEF HoldsUser, At
    <3>5. Holds(p)'
      BY <2>3, <2>4, <3>1, <3>2, <3>3, <3>4 DEF Moved, Holds, HoldsUser, HoldsSpace, MayDelete, UserExists
    <3> QED
      BY <1>1, <1>4, <2>1, <2>3, <2>5, <3>5, ReadStep DEF Inv
  <2> QED
    BY <1>1, <2>6, <2>7
<1> QED
  BY <1>3, <1>4 DEF CountAdmins, CountMemberships, Check


\* The locks: the row is free, and its status is read under the lock.
LEMMA LockSpaceStep ==
  ASSUME Inv, NEW p \in Procs, LockSpace(p)
  PROVE  Inv'
<1> DEFINE r == txn[p].req
           s == r.space
           l == Tail(txn[p].left)
<1>1. Running(p) /\ Head(txn[p].left) = "lockSpace" /\ UNCHANGED begun /\ spaceLock[s] = NoProc
  BY DEF LockSpace, At
<1>2. r.op \in Ops /\ txn[p].left \in Remaining(r.op) /\ s \in Spaces
  BY <1>1, RunningTxn DEF Inv
<1>3. CASE Rollback(p)
  BY <1>1, <1>3, RollbackStep DEF Inv
<1>4. CASE /\ spaceStatus[s] = "LIVE" /\ spaceLock' = [spaceLock EXCEPT ![s] = p]
           /\ Advance(p) /\ UNCHANGED <<vars, userLock>>
  <2>1. l \in Remaining(r.op) /\ r.op \in {"Invite", "DeleteSpace"}
    BY <1>1, <1>2, Stages
  <2>2. txn' = [txn EXCEPT ![p].left = l]
    BY <1>4 DEF Advance
  <2>3. Moved(p, l)
    BY <1>1, <2>1, <2>2, MovedOn DEF Inv
  <2>4. spaceLock' \in [Spaces -> Procs \cup {NoProc}]
    BY <1>2, <1>4 DEF Inv, PgTypeOK
  <2>5. LocksOfOthersStay(p)
    BY <1>1, <1>2, <1>4, <2>4, PostgresAssumption DEF LocksOfOthersStay, Inv, PgTypeOK
  <2>6. spaceStatus'[s] = "LIVE" /\ spaceLock'[s] = p
    BY <1>2, <1>4 DEF vars, spaceVars, Inv, PgTypeOK
  <2>7. r.op = "Invite" => Head(l) = "lockUser"
    BY ZenonT(60), <1>1, <1>2, Stages
  <2>8. Holds(p)'
    BY <2>1, <2>3, <2>6, <2>7 DEF Moved, Holds, HoldsUser, HoldsSpace, MayDelete, At, Running
  <2> QED
    BY <1>1, <1>4, <2>1, <2>3, <2>5, <2>8, ReadStep DEF Inv
<1> QED
  BY <1>3, <1>4 DEF LockSpace

LEMMA LockUserStep ==
  ASSUME Inv, NEW p \in Procs, LockUser(p)
  PROVE  Inv'
<1> DEFINE r == txn[p].req
           u == r.target
           l == Tail(txn[p].left)
<1>1. Running(p) /\ Head(txn[p].left) = "lockUser" /\ UNCHANGED begun /\ userLock[u] = NoProc
  BY DEF LockUser, At
<1>2. r.op \in Ops /\ txn[p].left \in Remaining(r.op) /\ u \in Users
  BY <1>1, RunningTxn DEF Inv
<1>3. CASE Rollback(p)
  BY <1>1, <1>3, RollbackStep DEF Inv
<1>4. CASE /\ IF r.op = "DeleteUser" THEN UserExists(u) ELSE ActiveUser(u)
           /\ userLock' = [userLock EXCEPT ![u] = p]
           /\ Advance(p) /\ UNCHANGED <<vars, spaceLock>>
  <2>1. l \in Remaining(r.op) /\ r.op \in {"Invite", "CreateSpace", "Accept", "DeleteUser"}
    BY <1>1, <1>2, Stages
  <2>2. txn' = [txn EXCEPT ![p].left = l]
    BY <1>4 DEF Advance
  <2>3. Moved(p, l)
    BY <1>1, <2>1, <2>2, MovedOn DEF Inv
  <2>4. userLock' \in [Users -> Procs \cup {NoProc}]
    BY <1>2, <1>4 DEF Inv, PgTypeOK
  <2>5. LocksOfOthersStay(p)
    BY <1>1, <1>2, <1>4, <2>4, PostgresAssumption DEF LocksOfOthersStay, Inv, PgTypeOK
  <2>6. userStatus' = userStatus /\ spaceStatus' = spaceStatus /\ userLock'[u] = p
    BY <1>2, <1>4 DEF vars, userVars, spaceVars, Inv, PgTypeOK
  <2>7. HoldsUser(p)'
    BY <1>4, <2>3, <2>6 DEF Moved, HoldsUser, UserExists, ActiveUser
  <2>8. HoldsSpace(p)'
    <3>1. HoldsSpace(p)
      BY DEF Inv, LocksProtect
    <3> QED
      BY <1>1, <1>4, <2>3, <2>6, <3>1 DEF Moved, HoldsSpace, At
  <2>9. MayDelete(p)'
    <3>1. r.op = "DeleteUser" => Head(l) = "memberships"
      BY <1>1, <1>2, Stages
    <3> QED
      BY <2>3, <3>1 DEF Moved, MayDelete, At
  <2>10. Holds(p)'
    BY <2>7, <2>8, <2>9 DEF Holds
  <2> QED
    BY <1>1, <1>4, <2>1, <2>3, <2>5, <2>10, ReadStep DEF Inv
<1> QED
  BY <1>3, <1>4 DEF LockUser

\* Every step of every connection keeps the invariant.
LEMMA PgStep == Inv /\ [PgNext]_pgVars => Inv'
<1> SUFFICES ASSUME Inv, [PgNext]_pgVars PROVE Inv'
  OBVIOUS
<1>1. CASE UNCHANGED pgVars
  BY <1>1 DEF Inv, pgVars, lockVars, vars, userVars, spaceVars, memberVars, PgTypeOK, TypeOK, NoOrphanRows,
              LocksProtect, HoldsUser, HoldsSpace, MayDelete, At, Running, UserExists, ActiveUser
<1>2. ASSUME NEW p \in Procs, Begin(p) \/ Step(p) PROVE Inv'
  BY <1>2, BeginStep, AuthorizeStep, LockSpaceStep, LockUserStep, ReadMemberStep, CountStep, WriteStep
     DEF Step, Inv
<1> QED
  BY <1>1, <1>2 DEF PgNext

\* The inductive invariant of the driver: while a transaction holds a row lock,
\* what it read of that row stays so, in whichever order the statements of the
\* others run.
THEOREM PgInvariant == PgSpec => []Inv
<1>1. PgInit => Inv
  BY PgInitHolds DEF Inv
<1> QED
  BY <1>1, PgStep, PTL DEF PgSpec

\* No relationship row outlives its Space or its user, though the transactions
\* that insert, delete and remove run statement by statement among each other:
\* the invitation locks both parents, the deletion of a Space or of an account
\* locks its row, and each reads the status under the lock.
THEOREM PgOrphanFree == PgSpec => []NoOrphanRows
<1>1. Inv => NoOrphanRows
  BY DEF Inv
<1> QED
  BY <1>1, PgInvariant, PTL

-----------------------------------------------------------------------------
(* Membership by consent.                                                    *)

\* Only AcceptSpaceInvitation and CreateSpace give a membership.
LEMMA PgConsent == Inv /\ [PgNext]_pgVars => [ConsentStep]_pgVars
<1> SUFFICES ASSUME Inv, PgNext PROVE ConsentStep
  OBVIOUS
<1>1. CASE UNCHANGED vars
  BY <1>1 DEF vars, memberVars, ConsentStep
<1>2. ASSUME NEW p \in Procs, Write(p), ~Rollback(p) PROVE ConsentStep
  <2> DEFINE r == txn[p].req
             s == r.space
             u == r.target
  <2>1. Running(p) /\ At(p, "write") /\ WriteFinds(r, txn[p].seen)
    BY <1>2 DEF Write, At
  <2>2. s \in Spaces /\ u \in Users /\ HoldsUser(p)
    BY <2>1, RunningTxn DEF Inv, LocksProtect
  <2>3. memberStatus \in [Spaces -> [Users -> {"NONE", "INVITED", "ACTIVE"}]] /\ memberRole \in [Spaces -> [Users -> Roles]]
    BY DEF Inv, PgTypeOK, TypeOK
  <2>4. CASE r.op = "Accept" /\ SetSlot(r, "ACTIVE", memberRole[s][u])
    <3>1. memberStatus[s][u] = "INVITED" /\ ActiveUser(u)
      BY <2>1, <2>2, <2>4 DEF WriteFinds, SlotIs, HoldsUser
    <3> QED
      BY <2>2, <2>3, <2>4, <3>1 DEF ConsentStep, SetSlot
  <2>5. CASE r.op = "SetRole" /\ SetSlot(r, "ACTIVE", r.arg)
    <3>1. memberStatus[s][u] = "ACTIVE"
      BY <2>1, <2>5 DEF WriteFinds, SlotIs
    <3> QED
      BY <2>2, <2>3, <2>5, <3>1 DEF ConsentStep, SetSlot
  <2>6. CASE r.op = "Invite" /\ SetSlot(r, "INVITED", r.arg)
    BY <2>2, <2>3, <2>6 DEF ConsentStep, SetSlot
  <2>7. CASE DropRow(s, u)
    BY <2>2, <2>3, <2>7 DEF ConsentStep, DropRow
  <2>8. CASE WriteUser(r)
    <3>1. CASE UNCHANGED memberStatus
      BY <3>1 DEF ConsentStep
    <3>2. CASE memberStatus' = [t \in Spaces |-> [memberStatus[t] EXCEPT ![u] =
                                  IF @ = "INVITED" THEN "NONE" ELSE @]]
      <4>1. ASSUME NEW t \in Spaces, NEW v \in Users, memberStatus'[t][v] = "ACTIVE"
            PROVE  memberStatus[t][v] = "ACTIVE"
        <5>1. memberStatus'[t] = [memberStatus[t] EXCEPT ![u] = IF @ = "INVITED" THEN "NONE" ELSE @]
          BY <3>2
        <5> QED
          BY <2>2, <2>3, <4>1, <5>1
      <4> QED
        BY <4>1 DEF ConsentStep
    <3> QED
      BY <2>8, <3>1, <3>2 DEF WriteUser, memberVars
  <2>9. CASE WriteSpace(r)
    <3>1. CASE UNCHANGED memberStatus
      BY <3>1 DEF ConsentStep
    <3>2. CASE r.op = "CreateSpace" /\ SetSlot(r, "ACTIVE", "ADMIN")
      <4>1. spaceStatus[s] = "UNUSED"
        BY <2>1, <3>2 DEF WriteFinds
      <4> QED
        BY <2>2, <2>3, <3>2, <4>1 DEF ConsentStep, SetSlot
    <3>3. CASE memberStatus' = [memberStatus EXCEPT ![s] = [v \in Users |-> "NONE"]]
      BY <2>2, <2>3, <3>3 DEF ConsentStep
    <3> QED
      BY <2>9, <3>1, <3>2, <3>3 DEF WriteSpace, memberVars
  <2> QED
    BY <1>2, <2>4, <2>5, <2>6, <2>7, <2>8, <2>9 DEF Write, WriteMember
<1>3. ASSUME NEW p \in Procs, Begin(p) \/ Step(p) PROVE (Write(p) /\ ~Rollback(p)) \/ UNCHANGED vars
  BY <1>3 DEF Begin, Step, Authorize, LockSpace, LockUser, ReadMember, CountAdmins, CountMemberships,
              Check, Write, Rollback
<1> QED
  BY <1>1, <1>2, <1>3 DEF PgNext

\* On PostgreSQL too, nobody becomes a member but by creating the Space or by
\* accepting, as an active user, an invitation that is pending at the commit and
\* with the role it offers: the row AcceptSpaceInvitation locks is the one whose
\* archival or deletion would have to wait.
THEOREM PgConsentKept == PgSpec => PgMembershipByConsent
<1> QED
  BY PgInvariant, PgConsent, PTL DEF PgSpec, PgMembershipByConsent
=============================================================================
