----------------------------- MODULE MemoStore -----------------------------
(***************************************************************************)
(* Memos on top of Space: placement in a Space, audience, comments, share  *)
(* links, trash and purge, as the SQLite driver's transactions change      *)
(* them.  Every policy is checked inside the transaction, on the rows it   *)
(* finds, whatever the handler read before: an operation is one step.      *)
(*                                                                         *)
(* A memo id is never reused.  A slot that is ABSENT again stands for the  *)
(* next fresh id, which is sound while nothing refers to the old one: that *)
(* is NoDanglingRelation.  deleted_ts is the number of the deletion (the   *)
(* handlers stamp microseconds: two deletions never share a stamp).        *)
(***************************************************************************)
EXTENDS Space

CONSTANTS Memos,         \* ids the memo table may hand out
          Visibilities,  \* audiences in use
          NoSpace,       \* space_id IS NULL
          NoMemo,        \* no COMMENT relation
          MaxDeletions   \* bound: trash batches in a behaviour

ASSUME MemoAssumption ==
  /\ NoSpace \notin Spaces /\ NoMemo \notin Memos /\ MaxDeletions \in Nat

VARIABLES memo,       \* the memo row with its COMMENT relation and shares
          deletions   \* deletion batches stamped so far

memoVars == <<memo, deletions>>
allVars  == <<vars, memoVars>>

RowStatuses == {"NORMAL", "ARCHIVED"}

\* A row is live (deleted_ts IS NULL) or in the trash.
MemoRow ==
  [state : {"LIVE", "TRASH"}, deletedTs : Nat, creator : Users,
   status : RowStatuses, visibility : Visibilities,
   space : Spaces \cup {NoSpace}, parent : Memos \cup {NoMemo}, share : BOOLEAN]

\* The canonical content of a free slot.
Absent == [state |-> "ABSENT"]

MemoTypeOK ==
  /\ TypeOK
  /\ memo \in [Memos -> MemoRow \cup {Absent}]
  /\ deletions \in Nat

----------------------------------------------------------------------------
(* Queries.                                                                *)

Exists(m) == memo[m].state # "ABSENT"
Live(m) == memo[m].state = "LIVE"
Trashed(m) == memo[m].state = "TRASH"

SpaceWriteAllowed(s, u) ==
  memberStatus[s][u] = "ACTIVE" \/ accessMode[s] \in {"PUBLIC", "AUTHENTICATED"}

\* validateSQLiteMemoSpaceWriter
SpaceWriter(s, u) == spaceStatus[s] = "LIVE" /\ SpaceWriteAllowed(s, u)

\* The role a row gives in the Space of memo m; the user row is not joined.
SpaceAdminOf(m, u) ==
  /\ memo[m].space # NoSpace
  /\ memberStatus[memo[m].space][u] = "ACTIVE"
  /\ memberRole[memo[m].space][u] = "ADMIN"

\* The AdminOverride flag counts only for a role that is still held.
Override(m, actor, flag) ==
  flag /\ (userRole[actor] = "ADMIN" \/ SpaceAdminOf(m, actor))

\* MemoCommentTree: the least set with m that is closed under COMMENT children.
CommentTree(m) ==
  {x \in Memos :
     \A S \in SUBSET Memos :
       (m \in S /\ \A y \in Memos : Exists(y) /\ memo[y].parent \in S => y \in S)
         => x \in S}

----------------------------------------------------------------------------
(* Writes.                                                                 *)

Insert(m, u, s, v, p) ==
  memo' = [memo EXCEPT ![m] =
    [state |-> "LIVE", deletedTs |-> 0, creator |-> u, status |-> "NORMAL",
     visibility |-> v, space |-> s, parent |-> p, share |-> FALSE]]

\* Mutant: relations are removed only where the deleted memo is the comment.
EraseKeepsIncoming(gone) ==
  memo' = [m \in Memos |-> IF m \in gone THEN Absent ELSE memo[m]]

\* deleteSQLiteMemoSetTx: the rows, their shares and every relation that has
\* one of them as an endpoint; other memos lose the relation and stay.
Erase(gone) ==
  memo' = [m \in Memos |->
    IF m \in gone THEN Absent
    ELSE IF Exists(m) /\ memo[m].parent \in gone
         THEN [memo[m] EXCEPT !.parent = NoMemo]
         ELSE memo[m]]

----------------------------------------------------------------------------
(* Creation.                                                               *)

CreateAllowed(u, s, v) ==
  /\ v = "SPACE" => s # NoSpace              \* validateMemoCreate
  /\ ActiveUser(u)
  /\ s # NoSpace => SpaceWriter(s, u)

CreateMemo(m, u, s, v) ==
  /\ ~Exists(m)
  /\ CreateAllowed(u, s, v)
  /\ Insert(m, u, s, v, NoMemo)
  /\ UNCHANGED <<vars, deletions>>

\* authorizeSQLiteMemoComment: participation needs a membership row even where
\* the audience would let the caller read.
CommentAllowed(c, u) ==
  /\ Live(c)
  /\ memo[c].status = "NORMAL"
  /\ ActiveUser(u)
  /\ IF memo[c].space = NoSpace THEN memo[c].visibility # "SPACE"
     ELSE spaceStatus[memo[c].space] = "LIVE" /\ memberStatus[memo[c].space][u] = "ACTIVE"
  /\ memo[c].visibility = "PRIVATE" => memo[c].creator = u

CreateMemoComment(m, u, c, s, v) ==
  /\ ~Exists(m)
  /\ CreateAllowed(u, s, v)
  /\ CommentAllowed(c, u)
  /\ Insert(m, u, s, v, c)
  /\ UNCHANGED <<vars, deletions>>

----------------------------------------------------------------------------
(* Updates: ValidateMemoWriteSnapshot.                                     *)

Keep == "KEEP"   \* the update leaves the column alone

\* space is a target, NoSpace for ClearSpace, or Keep.  The other columns of an
\* update (content, payload, pinned, time stamps) are not modelled: like status
\* they rule out the lifecycle exception.
Updates ==
  [space : Spaces \cup {NoSpace, Keep}, visibility : Visibilities \cup {Keep},
   status : RowStatuses \cup {Keep}]
NoUpdate == [space |-> Keep, visibility |-> Keep, status |-> Keep]

ResultSpace(m, up) == IF up.space = Keep THEN memo[m].space ELSE up.space

\* Mutant: a column the update leaves alone is written all the same.
ResultVisibilityRaw(m, up) == up.visibility

ResultVisibility(m, up) ==
  IF up.visibility = Keep THEN memo[m].visibility ELSE up.visibility
Moves(m, up) == ResultSpace(m, up) # memo[m].space

\* isLifecycleOnlyMemoUpdate
LifecycleOnlyUpdate(up) == up.space # Keep /\ up.status = Keep

\* Mutant: the author is taken for a member of the memo's Space.
SourceWritableByAuthor(m, actor, flag, lifecycle) ==
  memo[m].space # NoSpace => spaceStatus[memo[m].space] = "LIVE"

\* The memo's own Space admits the write; an author who left may only use the
\* lifecycle exception.
SourceWritable(m, actor, flag, lifecycle) ==
  memo[m].space # NoSpace =>
    /\ spaceStatus[memo[m].space] = "LIVE"
    /\ \/ lifecycle
       \/ Override(m, actor, flag)
       \/ SpaceWriteAllowed(memo[m].space, actor)

\* A SPACE memo moves only with its audience restated, SPACE needs a placement
\* and is refused while a share link is active.
AudienceConfirmed(m, up) ==
  /\ Moves(m, up) /\ memo[m].visibility = "SPACE" => up.visibility # Keep
  /\ ResultVisibility(m, up) = "SPACE" => ResultSpace(m, up) # NoSpace
  /\ up.visibility = "SPACE" => ~memo[m].share

WriteAllowed(m, actor, flag, lifecycle, up) ==
  /\ ActiveUser(actor)
  /\ Live(m)
  /\ memo[m].creator = actor \/ Override(m, actor, flag)
  /\ lifecycle => LifecycleOnlyUpdate(up) /\ Moves(m, up)
  /\ SourceWritable(m, actor, flag, lifecycle)
  /\ up.space \in Spaces => SpaceWriter(up.space, actor)
  /\ AudienceConfirmed(m, up)

UpdateMemo(m, actor, flag, lifecycle, up) ==
  /\ WriteAllowed(m, actor, flag, lifecycle, up)
  /\ memo' = [memo EXCEPT ![m].space = ResultSpace(m, up),
                          ![m].visibility = ResultVisibility(m, up),
                          ![m].status = IF up.status = Keep THEN @ ELSE up.status]
  /\ UNCHANGED <<vars, deletions>>

----------------------------------------------------------------------------
(* Share links: share is whether an unexpired one exists.                  *)

\* Mutant: the handler's audience check is trusted inside the transaction.
CreateMemoShareUnchecked(m, actor) ==
  /\ WriteAllowed(m, actor, FALSE, FALSE, NoUpdate)
  /\ memo[m].status = "NORMAL"
  /\ memo' = [memo EXCEPT ![m].share = TRUE]
  /\ UNCHANGED <<vars, deletions>>

CreateMemoShare(m, actor) ==
  /\ WriteAllowed(m, actor, FALSE, FALSE, NoUpdate)
  /\ memo[m].status = "NORMAL"
  /\ memo[m].visibility # "SPACE"
  /\ memo' = [memo EXCEPT ![m].share = TRUE]
  /\ UNCHANGED <<vars, deletions>>

\* Also the revocation of one of several links, which leaves share as it is.
DeleteMemoShare(m, actor) ==
  /\ WriteAllowed(m, actor, FALSE, FALSE, NoUpdate)
  /\ memo[m].share
  /\ memo' = [memo EXCEPT ![m].share = FALSE]
  /\ UNCHANGED <<vars, deletions>>

\* expires_ts of the last link passes.
ShareExpires(m) ==
  /\ Exists(m) /\ memo[m].share
  /\ memo' = [memo EXCEPT ![m].share = FALSE]
  /\ UNCHANGED <<vars, deletions>>

----------------------------------------------------------------------------
(* Deletion, trash and purge.                                              *)

DeleteAllowedOn(m, actor, flag) ==
  /\ ActiveUser(actor)
  /\ Exists(m)
  /\ memo[m].creator = actor \/ Override(m, actor, flag)

\* Mutant: only the memo itself and its direct comments go to the trash.
SoftDeleteMemoChildren(m, actor, flag) ==
  /\ DeleteAllowedOn(m, actor, flag)
  /\ deletions < MaxDeletions
  /\ deletions' = deletions + 1
  /\ memo' = [x \in Memos |->
       IF Live(x) /\ (x = m \/ memo[x].parent = m)
       THEN [memo[x] EXCEPT !.state = "TRASH", !.deletedTs = deletions + 1]
       ELSE memo[x]]
  /\ UNCHANGED vars

\* DeleteMemoWithPolicy with a DeletedTs: the live part of the comment tree
\* gets one stamp.
SoftDeleteMemo(m, actor, flag) ==
  /\ DeleteAllowedOn(m, actor, flag)
  /\ deletions < MaxDeletions
  /\ deletions' = deletions + 1
  /\ memo' = [x \in Memos |->
       IF x \in CommentTree(m) /\ Live(x)
       THEN [memo[x] EXCEPT !.state = "TRASH", !.deletedTs = deletions + 1]
       ELSE memo[x]]
  /\ UNCHANGED vars

\* DeleteMemoWithPolicy without trash: exactly one row.
HardDeleteMemo(m, actor, flag) ==
  /\ DeleteAllowedOn(m, actor, flag)
  /\ Erase({m})
  /\ UNCHANGED <<vars, deletions>>

\* RequireDeleted: PurgeMemo and EmptyTrash.
PurgeMemo(m, actor, flag) ==
  /\ DeleteAllowedOn(m, actor, flag)
  /\ Trashed(m)
  /\ Erase(CommentTree(m))
  /\ UNCHANGED <<vars, deletions>>

\* The expiration runner.
PurgeDeletedMemo(m) ==
  /\ Trashed(m)
  /\ Erase(CommentTree(m))
  /\ UNCHANGED <<vars, deletions>>

\* Mutant: every trashed comment of the tree comes back, not just the batch.
RestoreDeletedMemoAll(m, actor, admin) ==
  /\ ActiveUser(actor)
  /\ Trashed(m)
  /\ memo[m].creator = actor \/ (admin /\ userRole[actor] = "ADMIN")
  /\ memo[m].parent # NoMemo => Live(memo[m].parent)
  /\ memo' = [x \in Memos |->
       IF x \in CommentTree(m) /\ Trashed(x)
       THEN [memo[x] EXCEPT !.state = "LIVE", !.deletedTs = 0]
       ELSE memo[x]]
  /\ UNCHANGED <<vars, deletions>>

RestoreDeletedMemo(m, actor, admin) ==
  /\ ActiveUser(actor)
  /\ Trashed(m)
  /\ memo[m].creator = actor \/ (admin /\ userRole[actor] = "ADMIN")
  /\ memo[m].parent # NoMemo => Live(memo[m].parent)
  /\ memo' = [x \in Memos |->
       IF x \in CommentTree(m) /\ Trashed(x) /\ memo[x].deletedTs = memo[m].deletedTs
       THEN [memo[x] EXCEPT !.state = "LIVE", !.deletedTs = 0]
       ELSE memo[x]]
  /\ UNCHANGED <<vars, deletions>>

----------------------------------------------------------------------------
(* Space and account deletion take the memos with them.                    *)

PlacedIn(s) == {m \in Memos : Exists(m) /\ memo[m].space = s}
WrittenBy(u) == {m \in Memos : Exists(m) /\ memo[m].creator = u}

\* Mutant: memos in the trash are taken for deleted already.
DeleteSpaceWithMemosLive(s, actor, inst) ==
  DeleteSpace(s, actor, inst) /\ Erase({m \in PlacedIn(s) : Live(m)}) /\ UNCHANGED deletions

DeleteSpaceWithMemos(s, actor, inst) ==
  DeleteSpace(s, actor, inst) /\ Erase(PlacedIn(s)) /\ UNCHANGED deletions

DeleteUserWithMemos(u) ==
  DeleteUser(u) /\ Erase(WrittenBy(u)) /\ UNCHANGED deletions

----------------------------------------------------------------------------
MemoInit ==
  /\ Init
  /\ memo = [m \in Memos |-> Absent]
  /\ deletions = 0

\* The steps of Space that leave memos alone.
AccountNext ==
  /\ \E u \in Users :
       \/ \E role \in Roles : CreateUser(u, role)
       \/ \E status \in RowStatuses, role \in Roles : UpdateUser(u, status, role)
  /\ UNCHANGED memoVars
MembershipNext ==
  /\ \/ MemberNext
     \/ \E s \in Spaces, u \in Users, mode \in AccessModes, inst \in BOOLEAN :
          CreateSpace(s, u, mode) \/ UpdateSpace(s, u, inst, mode)
  /\ UNCHANGED memoVars

DeleteOwners ==
  \/ \E s \in Spaces, u \in Users, inst \in BOOLEAN : DeleteSpaceWithMemos(s, u, inst)
  \/ \E u \in Users : DeleteUserWithMemos(u)

MemoWrites ==
  \E m \in Memos, u \in Users :
    \/ \E s \in Spaces \cup {NoSpace}, v \in Visibilities :
         \/ CreateMemo(m, u, s, v)
         \/ \E c \in Memos : CreateMemoComment(m, u, c, s, v)
    \/ \E flag, lifecycle \in BOOLEAN, up \in Updates : UpdateMemo(m, u, flag, lifecycle, up)
    \/ CreateMemoShare(m, u)
    \/ DeleteMemoShare(m, u)
    \/ ShareExpires(m)

MemoDeletes ==
  \E m \in Memos, u \in Users, flag \in BOOLEAN :
    \/ SoftDeleteMemo(m, u, flag)
    \/ HardDeleteMemo(m, u, flag)
    \/ PurgeMemo(m, u, flag)
    \/ PurgeDeletedMemo(m)
    \/ RestoreDeletedMemo(m, u, flag)

MemoNext ==
  AccountNext \/ MembershipNext \/ DeleteOwners \/ MemoWrites \/ MemoDeletes

MemoSpec == MemoInit /\ [][MemoNext]_allVars

----------------------------------------------------------------------------
(* Properties.                                                             *)

\* A comment that is visible has a visible parent, through every order of
\* deleting, restoring and purging comments and parents: SoftDeleteMemoSet
\* takes the whole live tree, RestoreDeletedMemo refuses under a trashed parent.
LiveCommentLiveParent ==
  \A m \in Memos :
    Live(m) /\ memo[m].parent # NoMemo => Live(memo[m].parent)

\* No COMMENT relation points at a row that is gone: every deletion path
\* removes the relations with either endpoint in the set.
NoDanglingRelation ==
  \A m \in Memos :
    Exists(m) /\ memo[m].parent # NoMemo => Exists(memo[m].parent)

\* A memo, in the trash or not, is placed in a Space that exists, belongs to a
\* user that exists, and has the SPACE audience only while it is placed.
OwnersExist ==
  \A m \in Memos : Exists(m) =>
    /\ UserExists(memo[m].creator)
    /\ memo[m].space # NoSpace => spaceStatus[memo[m].space] = "LIVE"
    /\ memo[m].visibility = "SPACE" => memo[m].space # NoSpace

\* A share link never opens a SPACE memo: creating one and changing the
\* audience exclude each other in both orders.
NoShareOnSpaceAudience ==
  \A m \in Memos : Exists(m) /\ memo[m].visibility = "SPACE" => ~memo[m].share

\* An author who may no longer write to the memo's Space can use UpdateMemo
\* only to move or withdraw it, with its row status untouched, and never leaves
\* it to the members of a Space he cannot write to: a mask that merely names
\* the current Space must not smuggle an audience change past the membership.
FormerMemberStep ==
  \A m \in Memos, u \in Users :
    /\ Exists(m) /\ memo'[m] # memo[m] /\ memo[m].creator = u
    /\ memo[m].space # NoSpace /\ ~SpaceWriteAllowed(memo[m].space, u)
    /\ \E lifecycle \in BOOLEAN, up \in Updates : UpdateMemo(m, u, FALSE, lifecycle, up)
    => /\ memo'[m].space # memo[m].space
       /\ memo'[m].status = memo[m].status
       /\ memo'[m].visibility = "SPACE" => SpaceWriter(memo'[m].space, u)
FormerMemberMovesOnly == [][FormerMemberStep]_allVars

\* A memo that one deletion put in the trash comes back only together with its
\* whole batch below it, and never with what an earlier deletion had taken.
RestoreStep ==
  \A m, x \in Memos :
    /\ Trashed(m) /\ Trashed(x)
    /\ memo'[m].state = "LIVE"
    /\ x \in CommentTree(m)
    => (memo'[x].state = "LIVE" <=> memo[x].deletedTs = memo[m].deletedTs)
RestoreIsOneBatch == [][RestoreStep]_allVars

\* "Relations do not confer lifecycle authority, so no related memo is
\* deleted": one memo at a time leaves, unless its Space or its author does.
OneMemoStep ==
  LET leaving == {m \in Memos : Live(m) /\ memo'[m].state # "LIVE"}
  IN Cardinality(leaving) <= 1 \/ spaceStatus' # spaceStatus \/ userStatus' # userStatus
OneMemoPerDeletion == [][OneMemoStep]_allVars

----------------------------------------------------------------------------
(* The inductive invariant behind the properties of the comment tree.      *)

\* Deletions are stamped in order, and a comment is in the trash at least as
\* long as its trashed parent: taking the parent takes what is live below it.
StampsInOrder ==
  \A x \in Memos : Trashed(x) =>
    /\ memo[x].deletedTs \in 1..deletions
    /\ memo[x].parent # NoMemo /\ Trashed(memo[x].parent)
         => memo[x].deletedTs <= memo[memo[x].parent].deletedTs

\* Every memo row is well formed: its audience is one its placement admits, and
\* it belongs to a user and a Space that exist, through moves, deletions of
\* Spaces and accounts, and the trash.
MemoRowsValid == MemoTypeOK /\ OwnersExist

\* The comment tree stays connected on the visible side of the trash and on the
\* other, whichever path deletes or restores a memo, the deletion of a Space
\* that held one end of a relation included.
TreeConnected == LiveCommentLiveParent /\ NoDanglingRelation /\ StampsInOrder
=============================================================================
