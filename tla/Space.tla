------------------------------- MODULE Space -------------------------------
(***************************************************************************)
(* The relationship store behind Memos Spaces: users, Spaces and the       *)
(* space_member table, with every transaction of the SQLite driver that    *)
(* changes them.  The driver runs each operation in one transaction on a   *)
(* database whose writers are serialized, so an operation is one atomic    *)
(* step; SpacePostgres splits the same operations into their statements.   *)
(*                                                                         *)
(* Row ids come from AUTOINCREMENT columns, so a deleted id never returns: *)
(* a user or Space is UNUSED, then a row, then DELETED for ever.           *)
(***************************************************************************)
EXTENDS Integers, FiniteSets

CONSTANTS Users,        \* ids the user table may hand out
          Spaces,       \* ids the space table may hand out
          AccessModes   \* values of space.access_mode

ASSUME UsersFinite == IsFiniteSet(Users)

VARIABLES
  userStatus,    \* user.row_status, or whether the id is in use at all
  userRole,      \* user.role, the application role
  spaceStatus,   \* whether the Space row exists
  accessMode,    \* space.access_mode
  memberStatus,  \* space_member.status of the (space, user) slot, or NONE
  memberRole     \* space_member.role of the slot

userVars   == <<userStatus, userRole>>
spaceVars  == <<spaceStatus, accessMode>>
memberVars == <<memberStatus, memberRole>>
vars       == <<userVars, spaceVars, memberVars>>

Roles == {"ADMIN", "USER"}

TypeOK ==
  /\ userStatus \in [Users -> {"UNUSED", "NORMAL", "ARCHIVED", "DELETED"}]
  /\ userRole \in [Users -> Roles]
  /\ spaceStatus \in [Spaces -> {"UNUSED", "LIVE", "DELETED"}]
  /\ accessMode \in [Spaces -> AccessModes]
  /\ memberStatus \in [Spaces -> [Users -> {"NONE", "INVITED", "ACTIVE"}]]
  /\ memberRole \in [Spaces -> [Users -> Roles]]

----------------------------------------------------------------------------
(* Queries of the driver.                                                  *)

UserExists(u) == userStatus[u] \in {"NORMAL", "ARCHIVED"}

\* requireSQLiteActiveUser
ActiveUser(u) == userStatus[u] = "NORMAL"

\* An ACTIVE membership row joined with a NORMAL user.
ActiveMember(s, u) == memberStatus[s][u] = "ACTIVE" /\ ActiveUser(u)

\* The rows the last-administrator queries count.
ActiveAdmins(s) ==
  {u \in Users : ActiveMember(s, u) /\ memberRole[s][u] = "ADMIN"}

\* authorizeSQLiteSpaceAdmin; inst is the InstanceAdmin flag the handler set.
Authorized(s, actor, inst) ==
  /\ spaceStatus[s] = "LIVE"
  /\ \/ inst
     \/ ActiveUser(actor) /\ userRole[actor] = "ADMIN"
     \/ actor \in ActiveAdmins(s)

\* "if count <= 1 return ErrLastSpaceAdmin" was not taken.
AnotherAdminStays(s) == Cardinality(ActiveAdmins(s)) > 1

\* DELETE FROM space_member: an empty slot has, by convention, role USER.
DropRow(s, u) ==
  /\ memberStatus' = [memberStatus EXCEPT ![s][u] = "NONE"]
  /\ memberRole' = [memberRole EXCEPT ![s][u] = "USER"]

----------------------------------------------------------------------------
(* User rows.                                                              *)

\* An empty instance makes its first user an administrator.
CreateUser(u, role) ==
  /\ userStatus[u] = "UNUSED"
  /\ (\E v \in Users : UserExists(v)) \/ role = "ADMIN"
  /\ userStatus' = [userStatus EXCEPT ![u] = "NORMAL"]
  /\ userRole' = [userRole EXCEPT ![u] = role]
  /\ UNCHANGED <<spaceVars, memberVars>>

\* Mutant: an invited or archived administrator is taken for a successor.
ArchiveAllowedAnyRow(u) ==
  userStatus[u] = "NORMAL" =>
    \A s \in Spaces :
      memberStatus[s][u] = "ACTIVE" /\ memberRole[s][u] = "ADMIN"
        => \E v \in Users \ {u} :
             memberStatus[s][v] # "NONE" /\ memberRole[s][v] = "ADMIN"

\* validateSQLiteUserArchive: no Space may lose its last active administrator.
ArchiveAllowed(u) ==
  userStatus[u] = "NORMAL" =>
    \A s \in Spaces :
      memberStatus[s][u] = "ACTIVE" /\ memberRole[s][u] = "ADMIN"
        => ActiveAdmins(s) \ {u} # {}

UpdateUser(u, status, role) ==
  /\ UserExists(u)
  /\ status = "ARCHIVED" => ArchiveAllowed(u)
  /\ userStatus' = [userStatus EXCEPT ![u] = status]
  /\ userRole' = [userRole EXCEPT ![u] = role]
  /\ UNCHANGED <<spaceVars, memberVars>>

\* Mutant: the pending invitations of the deleted account stay behind.
DeleteUserKeepsInvitations(u) ==
  /\ UserExists(u)
  /\ \A s \in Spaces : memberStatus[s][u] \in {"NONE", "INVITED"}
  /\ userStatus' = [userStatus EXCEPT ![u] = "DELETED"]
  /\ UNCHANGED <<userRole, spaceVars, memberVars>>

\* ErrUserHasSpaceMembership while an accepted membership is left; pending
\* invitations go with the account.
DeleteUser(u) ==
  /\ UserExists(u)
  /\ \A s \in Spaces : memberStatus[s][u] \in {"NONE", "INVITED"}
  /\ userStatus' = [userStatus EXCEPT ![u] = "DELETED"]
  /\ memberStatus' = [s \in Spaces |-> [memberStatus[s] EXCEPT ![u] = "NONE"]]
  /\ memberRole' = [s \in Spaces |-> [memberRole[s] EXCEPT ![u] = "USER"]]
  /\ UNCHANGED <<userRole, spaceVars>>

----------------------------------------------------------------------------
(* Space rows.                                                             *)

CreateSpace(s, creator, mode) ==
  /\ ActiveUser(creator)
  /\ spaceStatus[s] = "UNUSED"
  /\ spaceStatus' = [spaceStatus EXCEPT ![s] = "LIVE"]
  /\ accessMode' = [accessMode EXCEPT ![s] = mode]
  /\ memberStatus' = [memberStatus EXCEPT ![s][creator] = "ACTIVE"]
  /\ memberRole' = [memberRole EXCEPT ![s][creator] = "ADMIN"]
  /\ UNCHANGED userVars

\* The trailing summary query finds no row, and rolls back, for a caller that
\* is neither flagged as instance administrator nor an active member.
UpdateSpace(s, actor, inst, mode) ==
  /\ Authorized(s, actor, inst)
  /\ inst \/ ActiveMember(s, actor)
  /\ accessMode' = [accessMode EXCEPT ![s] = mode]
  /\ UNCHANGED <<userVars, spaceStatus, memberVars>>

\* requireSQLiteSpaceDeleteAdmin: the flag alone is not enough here.
DeleteAllowed(s, actor, inst) ==
  /\ ActiveUser(actor)
  /\ spaceStatus[s] = "LIVE"
  /\ \/ inst /\ userRole[actor] = "ADMIN"
     \/ memberStatus[s][actor] = "ACTIVE" /\ memberRole[s][actor] = "ADMIN"

\* Deletes the Space with all its relationship rows.  The memos placed in it
\* belong to module MemoStore, which extends this step.
DeleteSpace(s, actor, inst) ==
  /\ DeleteAllowed(s, actor, inst)
  /\ spaceStatus' = [spaceStatus EXCEPT ![s] = "DELETED"]
  /\ memberStatus' = [memberStatus EXCEPT ![s] = [u \in Users |-> "NONE"]]
  /\ memberRole' = [memberRole EXCEPT ![s] = [u \in Users |-> "USER"]]
  /\ UNCHANGED <<userVars, accessMode>>

----------------------------------------------------------------------------
(* Invitations and memberships: one slot per (space, user).                *)

CreateSpaceInvitation(s, actor, target, role) ==
  /\ Authorized(s, actor, FALSE)
  /\ ActiveUser(target)
  /\ memberStatus[s][target] = "NONE"      \* else ErrSpaceMemberAlreadyExists
  /\ memberStatus' = [memberStatus EXCEPT ![s][target] = "INVITED"]
  /\ memberRole' = [memberRole EXCEPT ![s][target] = role]
  /\ UNCHANGED <<userVars, spaceVars>>

\* Mutant: accepting also grants the administrator role.
AcceptSpaceInvitationAsAdmin(s, u) ==
  /\ ActiveUser(u)
  /\ memberStatus[s][u] = "INVITED"
  /\ memberStatus' = [memberStatus EXCEPT ![s][u] = "ACTIVE"]
  /\ memberRole' = [memberRole EXCEPT ![s][u] = "ADMIN"]
  /\ UNCHANGED <<userVars, spaceVars>>

AcceptSpaceInvitation(s, u) ==
  /\ ActiveUser(u)
  /\ memberStatus[s][u] = "INVITED"
  /\ memberStatus' = [memberStatus EXCEPT ![s][u] = "ACTIVE"]
  /\ UNCHANGED <<userVars, spaceVars, memberRole>>

\* Mutant: declining marks the row instead of deleting it.
DeclineSpaceInvitationMarks(s, u) ==
  /\ ActiveUser(u)
  /\ memberStatus[s][u] = "INVITED"
  /\ memberStatus' = [memberStatus EXCEPT ![s][u] = "DECLINED"]
  /\ UNCHANGED <<userVars, spaceVars, memberRole>>

DeclineSpaceInvitation(s, u) ==
  /\ ActiveUser(u)
  /\ memberStatus[s][u] = "INVITED"
  /\ DropRow(s, u)
  /\ UNCHANGED <<userVars, spaceVars>>

RevokeSpaceInvitation(s, actor, target) ==
  /\ Authorized(s, actor, FALSE)
  /\ memberStatus[s][target] = "INVITED"
  /\ DropRow(s, target)
  /\ UNCHANGED <<userVars, spaceVars>>

\* Mutant: a promotion forgets its user_id predicate.
UpdateSpaceMemberPromotesAll(s, actor, target, role) ==
  /\ Authorized(s, actor, FALSE)
  /\ ActiveMember(s, target)
  /\ memberRole[s][target] = "ADMIN" /\ role # "ADMIN" => AnotherAdminStays(s)
  /\ memberRole' = [memberRole EXCEPT ![s] = [v \in Users |->
       IF v = target \/ (role = "ADMIN" /\ memberStatus[s][v] = "ACTIVE") THEN role ELSE @[v]]]
  /\ UNCHANGED <<userVars, spaceVars, memberStatus>>

UpdateSpaceMember(s, actor, target, role) ==
  /\ Authorized(s, actor, FALSE)
  /\ ActiveMember(s, target)
  /\ memberRole[s][target] = "ADMIN" /\ role # "ADMIN" => AnotherAdminStays(s)
  /\ memberRole' = [memberRole EXCEPT ![s][target] = role]
  /\ UNCHANGED <<userVars, spaceVars, memberStatus>>

\* Leaving is not authorized further: the row itself is the authority.
RemovalAllowed(s, actor, target, inst) ==
  actor = target \/ inst \/ actor \in ActiveAdmins(s)

DeleteSpaceMember(s, actor, target, inst) ==
  /\ spaceStatus[s] = "LIVE"
  /\ RemovalAllowed(s, actor, target, inst)
  /\ memberStatus[s][target] = "ACTIVE"
  /\ target \in ActiveAdmins(s) => AnotherAdminStays(s)
  /\ DropRow(s, target)
  /\ UNCHANGED <<userVars, spaceVars>>

----------------------------------------------------------------------------
Init ==
  /\ userStatus = [u \in Users |-> "UNUSED"]
  /\ userRole = [u \in Users |-> "USER"]
  /\ spaceStatus = [s \in Spaces |-> "UNUSED"]
  /\ accessMode \in [Spaces -> AccessModes]
  /\ \A s, t \in Spaces : accessMode[s] = accessMode[t]
  /\ memberStatus = [s \in Spaces |-> [u \in Users |-> "NONE"]]
  /\ memberRole = [s \in Spaces |-> [u \in Users |-> "USER"]]

UserNext ==
  \E u \in Users :
    \/ \E role \in Roles : CreateUser(u, role)
    \/ \E status \in {"NORMAL", "ARCHIVED"}, role \in Roles :
         UpdateUser(u, status, role)
    \/ DeleteUser(u)

SpaceNext ==
  \E s \in Spaces, actor \in Users :
    \/ \E mode \in AccessModes : CreateSpace(s, actor, mode)
    \/ \E inst \in BOOLEAN, mode \in AccessModes :
         UpdateSpace(s, actor, inst, mode)
    \/ \E inst \in BOOLEAN : DeleteSpace(s, actor, inst)

MemberNext ==
  \E s \in Spaces, actor \in Users :
    \/ AcceptSpaceInvitation(s, actor)
    \/ DeclineSpaceInvitation(s, actor)
    \/ \E target \in Users :
         \/ \E role \in Roles : CreateSpaceInvitation(s, actor, target, role)
         \/ RevokeSpaceInvitation(s, actor, target)
         \/ \E role \in Roles : UpdateSpaceMember(s, actor, target, role)
         \/ \E inst \in BOOLEAN : DeleteSpaceMember(s, actor, target, inst)

Next == UserNext \/ SpaceNext \/ MemberNext

Spec == Init /\ [][Next]_vars

----------------------------------------------------------------------------
(* Properties.                                                             *)

\* Every Space keeps an active administrator, whatever membership changes,
\* archivals, restorations and account deletions are interleaved: the rule the
\* ErrLastSpaceAdmin checks exist for.
ActiveAdminKept ==
  \A s \in Spaces : spaceStatus[s] = "LIVE" => ActiveAdmins(s) # {}

\* A relationship row never outlives its Space or its user: DeleteSpace and
\* DeleteUser take the rows with them and no later operation brings one back.
NoOrphanRows ==
  \A s \in Spaces, u \in Users :
    memberStatus[s][u] # "NONE" => spaceStatus[s] = "LIVE" /\ UserExists(u)

\* A user becomes a member only by creating the Space, or by accepting as an
\* active user an invitation that is still pending, with the role it offered.
ConsentStep ==
  \A s \in Spaces, u \in Users :
    memberStatus[s][u] # "ACTIVE" /\ memberStatus'[s][u] = "ACTIVE" =>
      \/ spaceStatus[s] = "UNUSED"
      \/ /\ memberStatus[s][u] = "INVITED"
         /\ memberRole'[s][u] = memberRole[s][u]
         /\ ActiveUser(u)
MembershipByConsent == [][ConsentStep]_vars

=============================================================================
