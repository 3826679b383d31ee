---------------------------- MODULE StoreProofs ----------------------------
(***************************************************************************)
(* Proofs about the SQLite store, for any finite set of users and any set  *)
(* of Spaces and memos: modules Space and SpaceGovernance, then MemoStore. *)
(***************************************************************************)
EXTENDS SpaceGovernance, MemoStore, FiniteSetTheorems, TLAPS

(* Space.  The inductive invariant is the conjunction of the three state     *)
(* properties.  Given the types, each of the other two is preserved by       *)
(* itself: the guards the driver evaluates inside the transaction are all a  *)
(* step needs, and no property leans on the other.                           *)

IInv == TypeOK /\ NoOrphanRows /\ ActiveAdminKept

\* The count the driver compares with one: if more than one active
\* administrator is counted, another one stays whoever leaves.
LEMMA AnotherStays ==
  ASSUME NEW s \in Spaces, NEW u \in Users, AnotherAdminStays(s)
  PROVE  \E v \in ActiveAdmins(s) : v # u
<1>1. IsFiniteSet(ActiveAdmins(s))
  BY UsersFinite, FS_Subset DEF ActiveAdmins
<1>2. SUFFICES ASSUME ActiveAdmins(s) \subseteq {u}
               PROVE  FALSE
  OBVIOUS
<1>3. IsFiniteSet({u}) /\ Cardinality({u}) = 1
  BY FS_Singleton
<1>4. Cardinality(ActiveAdmins(s)) <= Cardinality({u})
  BY <1>2, <1>3, FS_Subset
<1>5. Cardinality(ActiveAdmins(s)) \in Nat
  BY <1>1, FS_CardinalityType
<1> QED BY <1>3, <1>4, <1>5 DEF AnotherAdminStays

LEMMA InitIInv == Init => IInv
BY DEF Init, IInv, TypeOK, NoOrphanRows, ActiveAdminKept, Roles

\* The column types survive every step.
LEMMA TypeStep == TypeOK /\ [Next]_vars => TypeOK'
<1> SUFFICES ASSUME TypeOK, [Next]_vars PROVE TypeOK'
  OBVIOUS
<1> USE DEF TypeOK, Roles, userVars, spaceVars, memberVars, DropRow
<1>1. ASSUME NEW u \in Users, NEW role \in Roles, CreateUser(u, role)
      PROVE  TypeOK'
  BY <1>1 DEF CreateUser
<1>2. ASSUME NEW u \in Users, NEW status \in {"NORMAL", "ARCHIVED"},
             NEW role \in Roles, UpdateUser(u, status, role)
      PROVE  TypeOK'
  BY <1>2 DEF UpdateUser
<1>3. ASSUME NEW u \in Users, DeleteUser(u)
      PROVE  TypeOK'
  BY <1>3 DEF DeleteUser
<1>4. ASSUME NEW s \in Spaces, NEW actor \in Users, NEW mode \in AccessModes,
             CreateSpace(s, actor, mode)
      PROVE  TypeOK'
  BY <1>4 DEF CreateSpace
<1>5. ASSUME NEW s \in Spaces, NEW actor \in Users,
             NEW inst \in BOOLEAN, NEW mode \in AccessModes,
             UpdateSpace(s, actor, inst, mode)
      PROVE  TypeOK'
  BY <1>5 DEF UpdateSpace
<1>6. ASSUME NEW s \in Spaces, NEW actor \in Users,
             NEW inst \in BOOLEAN,
             DeleteSpace(s, actor, inst)
      PROVE  TypeOK'
  BY <1>6 DEF DeleteSpace
<1>7. ASSUME NEW s \in Spaces, NEW actor \in Users,
             AcceptSpaceInvitation(s, actor)
      PROVE  TypeOK'
  BY <1>7 DEF AcceptSpaceInvitation
<1>8. ASSUME NEW s \in Spaces, NEW actor \in Users,
             DeclineSpaceInvitation(s, actor)
      PROVE  TypeOK'
  BY <1>8 DEF DeclineSpaceInvitation
<1>9. ASSUME NEW s \in Spaces, NEW actor \in Users,
             NEW target \in Users, NEW role \in Roles,
             CreateSpaceInvitation(s, actor, target, role)
      PROVE  TypeOK'
  BY <1>9 DEF CreateSpaceInvitation
<1>10. ASSUME NEW s \in Spaces, NEW actor \in Users,
             NEW target \in Users, NEW role \in Roles,
             UpdateSpaceMember(s, actor, target, role)
      PROVE  TypeOK'
  BY <1>10 DEF UpdateSpaceMember
<1>11. ASSUME NEW s \in Spaces, NEW actor \in Users,
             NEW target \in Users,
             RevokeSpaceInvitation(s, actor, target)
      PROVE  TypeOK'
  BY <1>11 DEF RevokeSpaceInvitation
<1>12. ASSUME NEW s \in Spaces, NEW actor \in Users,
             NEW target \in Users, NEW inst \in BOOLEAN,
             DeleteSpaceMember(s, actor, target, inst)
      PROVE  TypeOK'
  BY <1>12 DEF DeleteSpaceMember
<1>13. CASE UNCHANGED vars
  BY <1>13 DEF vars
<1> HIDE DEF TypeOK, Roles
<1>14. CASE UserNext
  BY <1>1, <1>2, <1>3, <1>14 DEF UserNext
<1>15. CASE SpaceNext
  BY <1>4, <1>5, <1>6, <1>15 DEF SpaceNext
<1>16. CASE MemberNext
  BY <1>7, <1>8, <1>9, <1>10, <1>11, <1>12, <1>16 DEF MemberNext
<1> QED BY <1>13, <1>14, <1>15, <1>16 DEF Next

\* The type invariant, for every value of the constants: the columns only ever
\* hold values the driver's schema and constants name.
THEOREM TypeCorrect == Spec => []TypeOK
<1>1. Init => TypeOK
  BY InitIInv DEF IInv
<1> QED BY <1>1, TypeStep, PTL DEF Spec

\* No step leaves a relationship row without its Space or its user.
LEMMA OrphanStep == TypeOK /\ NoOrphanRows /\ [Next]_vars => NoOrphanRows'
<1> SUFFICES ASSUME TypeOK, NoOrphanRows, [Next]_vars PROVE NoOrphanRows'
  OBVIOUS
<1> USE DEF TypeOK, NoOrphanRows, UserExists, ActiveUser,
            userVars, spaceVars, memberVars, DropRow
<1>1. ASSUME NEW u \in Users, NEW role \in Roles, CreateUser(u, role)
      PROVE  NoOrphanRows'
  BY <1>1 DEF CreateUser
<1>2. ASSUME NEW u \in Users, NEW status \in {"NORMAL", "ARCHIVED"},
             NEW role \in Roles, UpdateUser(u, status, role)
      PROVE  NoOrphanRows'
  BY <1>2 DEF UpdateUser
<1>3. ASSUME NEW u \in Users, DeleteUser(u)
      PROVE  NoOrphanRows'
  BY <1>3 DEF DeleteUser
<1>4. CASE SpaceNext
  BY <1>4 DEF SpaceNext, CreateSpace, UpdateSpace, DeleteSpace
<1>5. CASE MemberNext
  BY <1>5 DEF MemberNext, AcceptSpaceInvitation, DeclineSpaceInvitation,
     CreateSpaceInvitation, RevokeSpaceInvitation, UpdateSpaceMember,
     DeleteSpaceMember, Authorized
<1>6. CASE UNCHANGED vars
  BY <1>6 DEF vars
<1> QED BY <1>1, <1>2, <1>3, <1>4, <1>5, <1>6 DEF Next, UserNext

\* No step takes the last active administrator from a Space.
LEMMA AdminStep == TypeOK /\ ActiveAdminKept /\ [Next]_vars => ActiveAdminKept'
<1> SUFFICES ASSUME TypeOK, ActiveAdminKept, [Next]_vars, NEW s \in Spaces,
                    spaceStatus'[s] = "LIVE"
             PROVE  ActiveAdmins(s)' # {}
  BY DEF ActiveAdminKept
<1> USE DEF TypeOK, ActiveAdminKept, ActiveAdmins, ActiveMember,
            ActiveUser, UserExists, userVars, spaceVars, memberVars, DropRow
<1>1. ASSUME NEW u \in Users, NEW role \in Roles, CreateUser(u, role)
      PROVE  ActiveAdmins(s)' # {}
  BY <1>1 DEF CreateUser
<1>2. ASSUME NEW u \in Users, NEW status \in {"NORMAL", "ARCHIVED"},
             NEW role \in Roles, UpdateUser(u, status, role)
      PROVE  ActiveAdmins(s)' # {}
  <2>1. CASE status = "NORMAL"
    BY <1>2, <2>1 DEF UpdateUser
  <2>2. CASE status = "ARCHIVED"
    <3>1. ArchiveAllowed(u)
      BY <1>2, <2>2 DEF UpdateUser
    <3>2. PICK v \in ActiveAdmins(s) : v # u
      BY <1>2, <3>1 DEF UpdateUser, ArchiveAllowed
    <3>3. v \in ActiveAdmins(s)'
      BY <1>2, <3>2 DEF UpdateUser
    <3> QED BY <3>3
  <2> QED BY <2>1, <2>2
<1>3. ASSUME NEW u \in Users, DeleteUser(u)
      PROVE  ActiveAdmins(s)' # {}
  <2>1. PICK v \in Users : v \in ActiveAdmins(s)
    BY <1>3 DEF DeleteUser
  <2>2. v # u
    BY <1>3, <2>1 DEF DeleteUser
  <2>3. v \in ActiveAdmins(s)'
    BY <1>3, <2>1, <2>2 DEF DeleteUser
  <2> QED BY <2>3
<1>4. ASSUME NEW t \in Spaces, NEW actor \in Users, NEW mode \in AccessModes,
             CreateSpace(t, actor, mode)
      PROVE  ActiveAdmins(s)' # {}
  <2>1. CASE s = t
    <3>1. actor \in ActiveAdmins(s)'
      BY <1>4, <2>1 DEF CreateSpace
    <3> QED BY <3>1
  <2>2. CASE s # t
    BY <1>4, <2>2 DEF CreateSpace
  <2> QED BY <2>1, <2>2
<1>5. ASSUME NEW t \in Spaces, NEW actor \in Users, NEW inst \in BOOLEAN,
             \/ \E mode \in AccessModes : UpdateSpace(t, actor, inst, mode)
             \/ DeleteSpace(t, actor, inst)
      PROVE  ActiveAdmins(s)' # {}
  BY <1>5 DEF UpdateSpace, DeleteSpace
<1>6. ASSUME NEW t \in Spaces, NEW actor \in Users, NEW target \in Users,
             NEW role \in Roles,
             \/ AcceptSpaceInvitation(t, actor)
             \/ DeclineSpaceInvitation(t, actor)
             \/ RevokeSpaceInvitation(t, actor, target)
             \/ CreateSpaceInvitation(t, actor, target, role)
      PROVE  ActiveAdmins(s)' # {}
  <2>1. PICK v \in Users : v \in ActiveAdmins(s)
    BY <1>6 DEF AcceptSpaceInvitation, DeclineSpaceInvitation,
       RevokeSpaceInvitation, CreateSpaceInvitation
  <2>2. CASE AcceptSpaceInvitation(t, actor)
    <3>1. v \in ActiveAdmins(s)'
      BY <2>1, <2>2 DEF AcceptSpaceInvitation
    <3> QED BY <3>1
  <2>3. CASE DeclineSpaceInvitation(t, actor)
    <3>1. v \in ActiveAdmins(s)'
      BY <2>1, <2>3 DEF DeclineSpaceInvitation
    <3> QED BY <3>1
  <2>4. CASE RevokeSpaceInvitation(t, actor, target)
    <3>1. v \in ActiveAdmins(s)'
      BY <2>1, <2>4 DEF RevokeSpaceInvitation
    <3> QED BY <3>1
  <2>5. CASE CreateSpaceInvitation(t, actor, target, role)
    <3>1. v \in ActiveAdmins(s)'
      BY <2>1, <2>5 DEF CreateSpaceInvitation
    <3> QED BY <3>1
  <2> QED BY <1>6, <2>2, <2>3, <2>4, <2>5
<1>7. ASSUME NEW t \in Spaces, NEW actor \in Users, NEW target \in Users,
             NEW role \in Roles, UpdateSpaceMember(t, actor, target, role)
      PROVE  ActiveAdmins(s)' # {}
  <2>1. CASE s = t /\ memberRole[s][target] = "ADMIN" /\ role # "ADMIN"
    <3>1. PICK v \in ActiveAdmins(s) : v # target
      BY <1>7, <2>1, AnotherStays DEF UpdateSpaceMember
    <3>2. v \in ActiveAdmins(s)'
      BY <1>7, <3>1 DEF UpdateSpaceMember
    <3> QED BY <3>2
  <2>2. CASE ~(s = t /\ memberRole[s][target] = "ADMIN" /\ role # "ADMIN")
    BY <1>7, <2>2 DEF UpdateSpaceMember
  <2> QED BY <2>1, <2>2
<1>8. ASSUME NEW t \in Spaces, NEW actor \in Users, NEW target \in Users,
             NEW inst \in BOOLEAN, DeleteSpaceMember(t, actor, target, inst)
      PROVE  ActiveAdmins(s)' # {}
  <2>1. CASE s = t /\ target \in ActiveAdmins(s)
    <3>1. PICK v \in ActiveAdmins(s) : v # target
      BY <1>8, <2>1, AnotherStays DEF DeleteSpaceMember
    <3>2. v \in ActiveAdmins(s)'
      BY <1>8, <3>1 DEF DeleteSpaceMember
    <3> QED BY <3>2
  <2>2. CASE ~(s = t /\ target \in ActiveAdmins(s))
    BY <1>8, <2>2 DEF DeleteSpaceMember
  <2> QED BY <2>1, <2>2
<1>9. CASE UNCHANGED vars
  BY <1>9 DEF vars
<1> HIDE DEF TypeOK, ActiveAdminKept, ActiveAdmins
<1>10. CASE UserNext
  BY <1>1, <1>2, <1>3, <1>10 DEF UserNext
<1>11. CASE SpaceNext
  BY <1>4, <1>5, <1>11 DEF SpaceNext
<1>12. CASE MemberNext
  <2>1. Roles # {}
    BY DEF Roles
  <2> QED BY <1>6, <1>7, <1>8, <1>12, <2>1 DEF MemberNext
<1> QED BY <1>9, <1>10, <1>11, <1>12 DEF Next

LEMMA SpaceInvariant == Spec => []IInv
<1>1. IInv /\ [Next]_vars => IInv'
  BY TypeStep, OrphanStep, AdminStep DEF IInv
<1> QED BY InitIInv, <1>1, PTL DEF Spec

\* Theorem: every Space keeps an active administrator, for any number of users
\* and Spaces: the checks behind ErrLastSpaceAdmin cover every way to lose one.
THEOREM SpaceSafe == Spec => []ActiveAdminKept
<1>1. IInv => ActiveAdminKept
  BY DEF IInv
<1> QED BY SpaceInvariant, <1>1, PTL

\* Theorem: no relationship row outlives its Space or its user, whatever is
\* deleted and in whichever order.
THEOREM OrphanFree == Spec => []NoOrphanRows
<1>1. IInv => NoOrphanRows
  BY DEF IInv
<1> QED BY SpaceInvariant, <1>1, PTL

\* Nobody becomes a member without having been invited, being active and
\* accepting the role that was offered, or creating the Space.
THEOREM ConsentSafe == Spec => MembershipByConsent
<1>1. TypeOK /\ [Next]_vars => [ConsentStep]_vars
  <2> SUFFICES ASSUME TypeOK, Next PROVE ConsentStep
    OBVIOUS
  <2> USE DEF TypeOK, ConsentStep, ActiveUser, userVars, spaceVars, memberVars,
              DropRow
  <2>1. CASE UserNext
    BY <2>1 DEF UserNext, CreateUser, UpdateUser, DeleteUser
  <2>2. CASE SpaceNext
    <3>1. ASSUME NEW s \in Spaces, NEW actor \in Users, NEW mode \in AccessModes,
                 CreateSpace(s, actor, mode)
          PROVE  ConsentStep
      BY <3>1 DEF CreateSpace
    <3>2. ASSUME NEW s \in Spaces, NEW actor \in Users, NEW inst \in BOOLEAN,
                 NEW mode \in AccessModes, UpdateSpace(s, actor, inst, mode)
          PROVE  ConsentStep
      BY <3>2 DEF UpdateSpace
    <3>3. ASSUME NEW s \in Spaces, NEW actor \in Users, NEW inst \in BOOLEAN,
                 DeleteSpace(s, actor, inst)
          PROVE  ConsentStep
      BY <3>3 DEF DeleteSpace
    <3> HIDE DEF TypeOK, ConsentStep
    <3> QED BY <2>2, <3>1, <3>2, <3>3 DEF SpaceNext
  <2>3. ASSUME NEW s \in Spaces, NEW actor \in Users,
               AcceptSpaceInvitation(s, actor)
        PROVE  ConsentStep
    BY <2>3 DEF AcceptSpaceInvitation
  <2>4. ASSUME NEW s \in Spaces, NEW actor \in Users,
               DeclineSpaceInvitation(s, actor)
        PROVE  ConsentStep
    BY <2>4 DEF DeclineSpaceInvitation
  <2>5. ASSUME NEW s \in Spaces, NEW actor \in Users,
               NEW target \in Users, NEW role \in Roles,
               CreateSpaceInvitation(s, actor, target, role)
        PROVE  ConsentStep
    BY <2>5 DEF CreateSpaceInvitation
  <2>6. ASSUME NEW s \in Spaces, NEW actor \in Users,
               NEW target \in Users, NEW role \in Roles,
               UpdateSpaceMember(s, actor, target, role)
        PROVE  ConsentStep
    BY <2>6 DEF UpdateSpaceMember
  <2>7. ASSUME NEW s \in Spaces, NEW actor \in Users,
               NEW target \in Users,
               RevokeSpaceInvitation(s, actor, target)
        PROVE  ConsentStep
    BY <2>7 DEF RevokeSpaceInvitation
  <2>8. ASSUME NEW s \in Spaces, NEW actor \in Users,
               NEW target \in Users, NEW inst \in BOOLEAN,
               DeleteSpaceMember(s, actor, target, inst)
        PROVE  ConsentStep
    BY <2>8 DEF DeleteSpaceMember
  <2> HIDE DEF TypeOK, ConsentStep
  <2>9. CASE MemberNext
    BY <2>3, <2>4, <2>5, <2>6, <2>7, <2>8, <2>9 DEF MemberNext
  <2> QED BY <2>1, <2>2, <2>9 DEF Next
<1> QED BY <1>1, TypeCorrect, PTL DEF Spec, MembershipByConsent

---------------------------------------------------------------------------
(* The Space store implements Governance: the administrators a step leaves   *)
(* are never none, and only living Spaces have any.                          *)

\* A step that leaves the Spaces and every other user's standing alone changes
\* the standing of one user.
LEMMA OneUserMoves ==
  ASSUME IInv, IInv', NEW u \in Users, UNCHANGED spaceStatus,
         \A s \in Spaces : ActiveAdmins(s)' \ {u} = ActiveAdmins(s) \ {u}
  PROVE  G!Move(u)
<1> DEFINE T == {s \in Spaces : u \in ActiveAdmins(s)'}
<1>1. T \in SUBSET G!Live
  BY DEF IInv, NoOrphanRows, G!Live, ActiveAdmins, ActiveMember
<1>2. \A s \in Spaces : ActiveAdmins(s)' =
         IF s \in T THEN ActiveAdmins(s) \cup {u} ELSE ActiveAdmins(s) \ {u}
  OBVIOUS
<1>3. [s \in Spaces |-> ActiveAdmins(s)]' =
        [s \in Spaces |-> IF s \in T THEN [t \in Spaces |-> ActiveAdmins(t)][s] \cup {u}
                                     ELSE [t \in Spaces |-> ActiveAdmins(t)][s] \ {u}]
  BY <1>2
<1>4. \A s \in G!Live : [t \in Spaces |-> ActiveAdmins(t)]'[s] # {}
  BY DEF IInv, ActiveAdminKept, G!Live
<1> QED BY <1>1, <1>3, <1>4 DEF G!Move

LEMMA InitRefines == Init => G!Init
BY DEF Init, G!Init, ActiveAdmins, ActiveMember

\* One transaction of the driver is one step of Governance, or none.
LEMMA StepRefines == IInv /\ IInv' /\ [Next]_vars => [G!Next]_(G!vars)
<1> SUFFICES ASSUME IInv, IInv', [Next]_vars PROVE [G!Next]_(G!vars)
  OBVIOUS
<1> USE DEF userVars, spaceVars, memberVars
<1> DEFINE OthersStay(u) == \A s \in Spaces : ActiveAdmins(s)' \ {u} = ActiveAdmins(s) \ {u}
<1>1. ASSUME NEW u \in Users, UNCHANGED spaceStatus, OthersStay(u)
      PROVE  [G!Next]_(G!vars)
  BY <1>1, OneUserMoves DEF G!Next
<1> HIDE DEF OthersStay
<1>2. ASSUME NEW u \in Users, NEW role \in Roles, CreateUser(u, role)
      PROVE  OthersStay(u)
  BY <1>2 DEF CreateUser, OthersStay, ActiveAdmins, ActiveMember, ActiveUser, IInv, TypeOK
<1>3. ASSUME NEW u \in Users, NEW status \in {"NORMAL", "ARCHIVED"},
             NEW role \in Roles, UpdateUser(u, status, role)
      PROVE  OthersStay(u)
  BY <1>3 DEF UpdateUser, OthersStay, ActiveAdmins, ActiveMember, ActiveUser, IInv, TypeOK
<1>4. ASSUME NEW u \in Users, DeleteUser(u)
      PROVE  OthersStay(u)
  BY <1>4 DEF DeleteUser, OthersStay, ActiveAdmins, ActiveMember, ActiveUser, IInv, TypeOK
<1>5. CASE UserNext
  BY <1>1, <1>2, <1>3, <1>4, <1>5 DEF UserNext, CreateUser, UpdateUser, DeleteUser
<1>6. ASSUME NEW s \in Spaces, NEW actor \in Users, NEW mode \in AccessModes,
             CreateSpace(s, actor, mode)
      PROVE  G!Found(s, actor)
  <2>1. \A t \in Spaces : ActiveAdmins(t)' = IF t = s THEN {actor} ELSE ActiveAdmins(t)
    BY <1>6 DEF CreateSpace, ActiveAdmins, ActiveMember, ActiveUser, IInv, TypeOK, NoOrphanRows
  <2> QED BY <1>6, <2>1 DEF G!Found, CreateSpace
<1>7. ASSUME NEW s \in Spaces, NEW actor \in Users, NEW inst \in BOOLEAN,
             DeleteSpace(s, actor, inst)
      PROVE  G!Dissolve(s)
  <2>1. \A t \in Spaces : ActiveAdmins(t)' = IF t = s THEN {} ELSE ActiveAdmins(t)
    BY <1>7 DEF DeleteSpace, ActiveAdmins, ActiveMember, ActiveUser, IInv, TypeOK
  <2> QED BY <1>7, <2>1 DEF G!Dissolve, DeleteSpace, DeleteAllowed
<1>8. ASSUME NEW s \in Spaces, NEW actor \in Users, NEW inst \in BOOLEAN,
             NEW mode \in AccessModes, UpdateSpace(s, actor, inst, mode)
      PROVE  UNCHANGED G!vars
  BY <1>8 DEF UpdateSpace, G!vars, ActiveAdmins, ActiveMember, ActiveUser
<1>9. CASE SpaceNext
  BY <1>6, <1>7, <1>8, <1>9 DEF SpaceNext, G!Next
<1>10. ASSUME NEW s \in Spaces, NEW u \in Users,
              AcceptSpaceInvitation(s, u) \/ DeclineSpaceInvitation(s, u)
       PROVE  OthersStay(u)
  BY SMTT(30), <1>10 DEF AcceptSpaceInvitation, DeclineSpaceInvitation, DropRow, OthersStay,
     ActiveAdmins, ActiveMember, ActiveUser, IInv, TypeOK
<1>11. ASSUME NEW s \in Spaces, NEW actor \in Users, NEW u \in Users, NEW role \in Roles,
              CreateSpaceInvitation(s, actor, u, role)
       PROVE  OthersStay(u)
  BY <1>11 DEF CreateSpaceInvitation, OthersStay, ActiveAdmins, ActiveMember, ActiveUser, IInv, TypeOK
<1>12. ASSUME NEW s \in Spaces, NEW actor \in Users, NEW u \in Users,
              RevokeSpaceInvitation(s, actor, u)
       PROVE  OthersStay(u)
  BY <1>12 DEF RevokeSpaceInvitation, DropRow, OthersStay, ActiveAdmins, ActiveMember, ActiveUser,
     IInv, TypeOK
<1>13. ASSUME NEW s \in Spaces, NEW actor \in Users, NEW u \in Users, NEW role \in Roles,
              UpdateSpaceMember(s, actor, u, role)
       PROVE  OthersStay(u)
  BY <1>13 DEF UpdateSpaceMember, OthersStay, ActiveAdmins, ActiveMember, ActiveUser, IInv, TypeOK
<1>14. ASSUME NEW s \in Spaces, NEW actor \in Users, NEW u \in Users, NEW inst \in BOOLEAN,
              DeleteSpaceMember(s, actor, u, inst)
       PROVE  OthersStay(u)
  BY <1>14 DEF DeleteSpaceMember, DropRow, OthersStay, ActiveAdmins, ActiveMember, ActiveUser,
     IInv, TypeOK
<1>15. MemberNext => UNCHANGED spaceStatus
  BY ZenonT(60) DEF MemberNext, AcceptSpaceInvitation, DeclineSpaceInvitation, CreateSpaceInvitation,
     RevokeSpaceInvitation, UpdateSpaceMember, DeleteSpaceMember
<1>16. CASE MemberNext
  BY <1>1, <1>10, <1>11, <1>12, <1>13, <1>14, <1>15, <1>16 DEF MemberNext
<1>17. CASE UNCHANGED vars
  BY <1>17 DEF vars, G!vars, ActiveAdmins, ActiveMember, ActiveUser
<1> QED BY <1>5, <1>9, <1>16, <1>17 DEF Next

\* The driver's Space store implements Governance, for any finite set of users
\* and any set of Spaces.
THEOREM SpaceImplementsGovernance == Spec => Governed
<1>1. IInv /\ [Next]_vars => IInv'
  BY TypeStep, OrphanStep, AdminStep DEF IInv
<1> QED BY InitIInv, InitRefines, <1>1, StepRefines, PTL DEF Spec, Governed, G!Spec

---------------------------------------------------------------------------
(* MemoStore.  A memo transaction is a step of Space or leaves its tables    *)
(* alone, so what is shown above carries over; the memo table has an         *)
(* inductive invariant of its own.                                           *)

\* A step of the memo store is a step of the relationship store below it.
LEMMA MemoStepIsSpaceStep == [MemoNext]_allVars => [Next]_vars
<1> SUFFICES ASSUME [MemoNext]_allVars PROVE [Next]_vars
  OBVIOUS
<1>1. CASE AccountNext
  BY <1>1 DEF AccountNext, Next, UserNext, RowStatuses
<1>2. CASE MembershipNext
  BY <1>2 DEF MembershipNext, Next, SpaceNext
<1>3. CASE DeleteOwners
  BY <1>3 DEF DeleteOwners, DeleteSpaceWithMemos, DeleteUserWithMemos, Next, SpaceNext, UserNext
<1>4. CASE MemoWrites
  <2>1. \A m, c \in Memos, u \in Users, s \in Spaces \cup {NoSpace}, v \in Visibilities :
          CreateMemo(m, u, s, v) \/ CreateMemoComment(m, u, c, s, v) => UNCHANGED vars
    BY DEF CreateMemo, CreateMemoComment
  <2>2. \A m \in Memos, u \in Users, flag, lifecycle \in BOOLEAN, up \in Updates :
          UpdateMemo(m, u, flag, lifecycle, up) => UNCHANGED vars
    BY DEF UpdateMemo
  <2>3. \A m \in Memos, u \in Users :
          CreateMemoShare(m, u) \/ DeleteMemoShare(m, u) \/ ShareExpires(m) => UNCHANGED vars
    BY DEF CreateMemoShare, DeleteMemoShare, ShareExpires
  <2> QED
    BY <1>4, <2>1, <2>2, <2>3 DEF MemoWrites
<1>5. CASE MemoDeletes
  BY <1>5 DEF MemoDeletes, SoftDeleteMemo, HardDeleteMemo, PurgeMemo, PurgeDeletedMemo,
              RestoreDeletedMemo
<1>6. CASE UNCHANGED allVars
  BY <1>6 DEF allVars
<1> QED
  BY <1>1, <1>2, <1>3, <1>4, <1>5, <1>6 DEF MemoNext

\* The memo transactions implement the relationship store: with memos around,
\* every Space still keeps an active administrator, no membership row is an
\* orphan and nobody becomes a member without consent.
THEOREM MemoStoreImplementsSpace == MemoSpec => Spec
  BY MemoStepIsSpaceStep, PTL DEF MemoSpec, MemoInit, Spec

-----------------------------------------------------------------------------
(* What a transaction does to the row of one memo.                           *)

LEMMA ExistsIsRow ==
  ASSUME MemoTypeOK, NEW m \in Memos
  PROVE  /\ Exists(m) <=> memo[m] \in MemoRow
         /\ Live(m) \/ Trashed(m) => Exists(m)
         /\ ~Exists(m) => memo[m] = Absent
  BY DEF MemoTypeOK, Exists, Live, Trashed, Absent, MemoRow

LEMMA InsertRow ==
  ASSUME MemoTypeOK, NEW m \in Memos, NEW u \in Users, NEW s \in Spaces \cup {NoSpace},
         NEW v \in Visibilities, NEW p \in Memos \cup {NoMemo}, Insert(m, u, s, v, p)
  PROVE  /\ memo' \in [Memos -> MemoRow \cup {Absent}]
         /\ memo'[m] \in MemoRow /\ memo'[m].state = "LIVE" /\ memo'[m].creator = u
         /\ memo'[m].space = s /\ memo'[m].visibility = v /\ memo'[m].parent = p
         /\ ~memo'[m].share
         /\ \A x \in Memos \ {m} : memo'[x] = memo[x]
<1> DEFINE r == [state |-> "LIVE", deletedTs |-> 0, creator |-> u, status |-> "NORMAL",
                 visibility |-> v, space |-> s, parent |-> p, share |-> FALSE]
<1>1. r \in MemoRow
  BY DEF MemoRow, RowStatuses
<1>2. memo' = [memo EXCEPT ![m] = r]
  BY DEF Insert
<1> QED
  BY <1>1, <1>2 DEF MemoTypeOK

LEMMA EraseRow ==
  ASSUME MemoTypeOK, NEW gone \in SUBSET Memos, Erase(gone)
  PROVE  /\ memo' \in [Memos -> MemoRow \cup {Absent}]
         /\ \A x \in gone : memo'[x] = Absent
         /\ \A x \in Memos \ gone :
              \/ memo'[x] = memo[x] /\ (Exists(x) => memo[x].parent \notin gone)
              \/ /\ Exists(x) /\ memo[x].parent \in gone
                 /\ memo'[x] = [memo[x] EXCEPT !.parent = NoMemo]
                 /\ memo'[x] \in MemoRow
<1>1. ASSUME NEW x \in Memos, Exists(x) PROVE [memo[x] EXCEPT !.parent = NoMemo] \in MemoRow
  BY <1>1, ExistsIsRow DEF MemoRow
<1> QED
  BY <1>1 DEF MemoTypeOK, Erase

LEMMA UpdateRow ==
  ASSUME MemoTypeOK, NEW m \in Memos, NEW actor \in Users, NEW flag \in BOOLEAN,
         NEW lifecycle \in BOOLEAN, NEW up \in Updates, UpdateMemo(m, actor, flag, lifecycle, up)
  PROVE  /\ memo' \in [Memos -> MemoRow \cup {Absent}]
         /\ Live(m) /\ memo'[m] \in MemoRow
         /\ memo'[m].space = ResultSpace(m, up) /\ memo'[m].visibility = ResultVisibility(m, up)
         /\ memo'[m].status = IF up.status = Keep THEN memo[m].status ELSE up.status
         /\ memo'[m].state = memo[m].state /\ memo'[m].deletedTs = memo[m].deletedTs
         /\ memo'[m].creator = memo[m].creator /\ memo'[m].parent = memo[m].parent
         /\ memo'[m].share = memo[m].share
         /\ \A x \in Memos \ {m} : memo'[x] = memo[x]
<1>1. Live(m) /\ memo[m] \in MemoRow
  BY ExistsIsRow DEF UpdateMemo, WriteAllowed
<1>2. ResultSpace(m, up) \in Spaces \cup {NoSpace} /\ ResultVisibility(m, up) \in Visibilities
  BY <1>1 DEF ResultSpace, ResultVisibility, Updates, MemoRow
<1> DEFINE st == IF up.status = Keep THEN memo[m].status ELSE up.status
           r == [memo[m] EXCEPT !.space = ResultSpace(m, up), !.visibility = ResultVisibility(m, up),
                                !.status = st]
<1>3. st \in RowStatuses
  BY <1>1 DEF Updates, MemoRow
<1>4. memo' = [memo EXCEPT ![m] = r]
  BY <1>1 DEF UpdateMemo, MemoTypeOK, MemoRow
<1>5. r \in MemoRow /\ r.space = ResultSpace(m, up) /\ r.visibility = ResultVisibility(m, up)
      /\ r.status = st /\ r.state = memo[m].state /\ r.deletedTs = memo[m].deletedTs
      /\ r.creator = memo[m].creator /\ r.parent = memo[m].parent /\ r.share = memo[m].share
  <2> HIDE DEF st
  <2> QED
    BY <1>1, <1>2, <1>3 DEF MemoRow
<1> HIDE DEF r
<1>6. memo'[m] = r /\ \A x \in Memos \ {m} : memo'[x] = memo[x]
  BY <1>4 DEF MemoTypeOK
<1>7. memo' \in [Memos -> MemoRow \cup {Absent}]
  BY <1>4, <1>5 DEF MemoTypeOK
<1> QED
  BY <1>1, <1>5, <1>6, <1>7

\* The three changes of the share column.
LEMMA ShareRow ==
  ASSUME MemoTypeOK, NEW m \in Memos, NEW on \in BOOLEAN, Exists(m),
         memo' = [memo EXCEPT ![m].share = on]
  PROVE  /\ memo' \in [Memos -> MemoRow \cup {Absent}]
         /\ memo'[m] \in MemoRow /\ memo'[m].share = on
         /\ memo'[m].state = memo[m].state /\ memo'[m].deletedTs = memo[m].deletedTs
         /\ memo'[m].creator = memo[m].creator /\ memo'[m].parent = memo[m].parent
         /\ memo'[m].space = memo[m].space /\ memo'[m].visibility = memo[m].visibility
         /\ \A x \in Memos \ {m} : memo'[x] = memo[x]
<1>1. memo[m] \in MemoRow
  BY ExistsIsRow
<1>2. [memo[m] EXCEPT !.share = on] \in MemoRow
  BY <1>1 DEF MemoRow
<1>3. memo' = [memo EXCEPT ![m] = [memo[m] EXCEPT !.share = on]]
  BY DEF MemoTypeOK
<1> QED
  BY <1>1, <1>2, <1>3 DEF MemoTypeOK, MemoRow

\* Deletion to the trash and restoration change the state and the stamp of a set
\* of rows and nothing else of them.
Stamped(stamped, st, ts) ==
  /\ memo' \in [Memos -> MemoRow \cup {Absent}]
  /\ stamped \subseteq Memos
  /\ \A x \in Memos \ stamped : memo'[x] = memo[x]
  /\ \A x \in stamped :
       /\ memo'[x] \in MemoRow /\ memo'[x].state = st /\ memo'[x].deletedTs = ts
       /\ memo'[x].creator = memo[x].creator /\ memo'[x].parent = memo[x].parent
       /\ memo'[x].space = memo[x].space /\ memo'[x].visibility = memo[x].visibility
       /\ memo'[x].share = memo[x].share

LEMMA StampRows ==
  ASSUME MemoTypeOK, NEW stamped \in SUBSET Memos, \A x \in stamped : Exists(x),
         NEW st \in {"LIVE", "TRASH"}, NEW ts \in Nat,
         memo' = [x \in Memos |-> IF x \in stamped
                                  THEN [memo[x] EXCEPT !.state = st, !.deletedTs = ts] ELSE memo[x]]
  PROVE  Stamped(stamped, st, ts)
<1>1. ASSUME NEW x \in stamped
      PROVE  LET r == [memo[x] EXCEPT !.state = st, !.deletedTs = ts] IN
             /\ r \in MemoRow /\ r.state = st /\ r.deletedTs = ts
             /\ r.creator = memo[x].creator /\ r.parent = memo[x].parent
             /\ r.space = memo[x].space /\ r.visibility = memo[x].visibility
             /\ r.share = memo[x].share
  <2>1. memo[x] \in MemoRow
    BY ExistsIsRow
  <2> QED
    BY <2>1 DEF MemoRow
<1> QED
  BY <1>1 DEF MemoTypeOK, Stamped

-----------------------------------------------------------------------------
(* Every step leaves the memo rows alone, or is one of six kinds of write;   *)
(* only deleting an owner changes the relationship store at the same time.   *)

Quiet == UNCHANGED <<memo, deletions>>
Inserts ==
  \E m \in Memos, u \in Users, s \in Spaces \cup {NoSpace}, v \in Visibilities,
     p \in Memos \cup {NoMemo} :
    /\ ~Exists(m) /\ CreateAllowed(u, s, v) /\ (p # NoMemo => Live(p))
    /\ Insert(m, u, s, v, p) /\ UNCHANGED <<vars, deletions>>
Changes ==
  \E m \in Memos, u \in Users, flag, lifecycle \in BOOLEAN, up \in Updates :
    UpdateMemo(m, u, flag, lifecycle, up)
Shares ==
  \E m \in Memos, on \in BOOLEAN :
    /\ Exists(m) /\ (on => memo[m].visibility # "SPACE")
    /\ memo' = [memo EXCEPT ![m].share = on] /\ UNCHANGED <<vars, deletions>>
Erases ==
  \E gone \in SUBSET Memos :
    /\ Erase(gone) /\ UNCHANGED deletions
    /\ \/ UNCHANGED vars
       \/ \E s \in Spaces, u \in Users, inst \in BOOLEAN :
            DeleteSpace(s, u, inst) /\ gone = PlacedIn(s)
       \/ \E u \in Users : DeleteUser(u) /\ gone = WrittenBy(u)
Trashes == \E m \in Memos, u \in Users, flag \in BOOLEAN : SoftDeleteMemo(m, u, flag)
Restores == \E m \in Memos, u \in Users, flag \in BOOLEAN : RestoreDeletedMemo(m, u, flag)

LEMMA MemoCases ==
  ASSUME MemoTypeOK, [MemoNext]_allVars
  PROVE  \/ Quiet /\ (AccountNext \/ MembershipNext \/ UNCHANGED vars)
         \/ Inserts \/ Changes \/ Shares \/ Erases \/ Trashes \/ Restores
<1>1. CASE AccountNext \/ MembershipNext \/ UNCHANGED allVars
  BY <1>1 DEF Quiet, AccountNext, MembershipNext, memoVars, allVars
<1>2. CASE DeleteOwners
  <2>1. ASSUME NEW s \in Spaces, NEW u \in Users, NEW inst \in BOOLEAN, DeleteSpaceWithMemos(s, u, inst)
        PROVE  Erases
    <3>1. PlacedIn(s) \in SUBSET Memos
      BY DEF PlacedIn
    <3> QED
      BY <2>1, <3>1 DEF Erases, DeleteSpaceWithMemos
  <2>2. ASSUME NEW u \in Users, DeleteUserWithMemos(u) PROVE Erases
    <3>1. WrittenBy(u) \in SUBSET Memos
      BY DEF WrittenBy
    <3> QED
      BY <2>2, <3>1 DEF Erases, DeleteUserWithMemos
  <2> QED
    BY <1>2, <2>1, <2>2 DEF DeleteOwners
<1>3. CASE MemoWrites
  <2>1. ASSUME NEW m \in Memos, NEW u \in Users, NEW s \in Spaces \cup {NoSpace}, NEW v \in Visibilities,
               CreateMemo(m, u, s, v) \/ \E c \in Memos : CreateMemoComment(m, u, c, s, v)
        PROVE  Inserts
    BY <2>1 DEF Inserts, CreateMemo, CreateMemoComment, CommentAllowed
  <2>2. ASSUME NEW m \in Memos, NEW u \in Users,
               CreateMemoShare(m, u) \/ DeleteMemoShare(m, u) \/ ShareExpires(m)
        PROVE  Shares
    <3>1. WriteAllowed(m, u, FALSE, FALSE, NoUpdate) => Exists(m)
      BY ExistsIsRow DEF WriteAllowed
    <3> QED
      BY <2>2, <3>1 DEF Shares, CreateMemoShare, DeleteMemoShare, ShareExpires
  <2> QED
    BY <1>3, <2>1, <2>2 DEF MemoWrites, Changes
<1>4. CASE MemoDeletes
  <2>1. ASSUME NEW m \in Memos, NEW u \in Users, NEW flag \in BOOLEAN,
               HardDeleteMemo(m, u, flag) \/ PurgeMemo(m, u, flag) \/ PurgeDeletedMemo(m)
        PROVE  Erases
    <3>1. {m} \in SUBSET Memos /\ CommentTree(m) \in SUBSET Memos
      BY DEF CommentTree
    <3> QED
      BY <2>1, <3>1 DEF Erases, HardDeleteMemo, PurgeMemo, PurgeDeletedMemo
  <2> QED
    BY <1>4, <2>1 DEF MemoDeletes, Trashes, Restores
<1> QED
  BY <1>1, <1>2, <1>3, <1>4 DEF MemoNext

\* The rows that go to the trash with m, and the batch that comes back with it.
TrashSet(m) == {x \in CommentTree(m) : Live(x)}
BatchSet(m) == {x \in CommentTree(m) : Trashed(x) /\ memo[x].deletedTs = memo[m].deletedTs}

LEMMA TrashRows ==
  ASSUME MemoTypeOK, NEW m \in Memos, NEW u \in Users, NEW flag \in BOOLEAN, SoftDeleteMemo(m, u, flag)
  PROVE  Stamped(TrashSet(m), "TRASH", deletions + 1)
<1>1. TrashSet(m) \in SUBSET Memos /\ \A x \in TrashSet(m) : Exists(x)
  BY ExistsIsRow DEF TrashSet, CommentTree
<1>2. deletions + 1 \in Nat
  BY DEF MemoTypeOK
<1>3. memo' = [x \in Memos |-> IF x \in TrashSet(m)
                 THEN [memo[x] EXCEPT !.state = "TRASH", !.deletedTs = deletions + 1] ELSE memo[x]]
  BY DEF SoftDeleteMemo, TrashSet
<1> QED
  BY <1>1, <1>2, <1>3, StampRows

LEMMA RestoreRows ==
  ASSUME MemoTypeOK, NEW m \in Memos, NEW u \in Users, NEW flag \in BOOLEAN, RestoreDeletedMemo(m, u, flag)
  PROVE  Stamped(BatchSet(m), "LIVE", 0)
<1>1. BatchSet(m) \in SUBSET Memos /\ \A x \in BatchSet(m) : Exists(x)
  BY ExistsIsRow DEF BatchSet, CommentTree
<1>2. 0 \in Nat
  BY DEF MemoTypeOK
<1>3. memo' = [x \in Memos |-> IF x \in BatchSet(m)
                 THEN [memo[x] EXCEPT !.state = "LIVE", !.deletedTs = 0] ELSE memo[x]]
  BY DEF RestoreDeletedMemo, BatchSet
<1> QED
  BY <1>1, <1>2, <1>3, StampRows

LEMMA MemoTypeStep == MemoTypeOK /\ [MemoNext]_allVars => MemoTypeOK'
<1> SUFFICES ASSUME MemoTypeOK, [MemoNext]_allVars PROVE MemoTypeOK'
  OBVIOUS
<1>1. TypeOK'
  BY MemoStepIsSpaceStep, TypeStep DEF MemoTypeOK
<1>2. memo' \in [Memos -> MemoRow \cup {Absent}] /\ deletions' \in Nat
  <2>1. CASE Quiet
    BY <2>1 DEF Quiet, MemoTypeOK
  <2>2. CASE Inserts
    BY <2>2, InsertRow DEF Inserts, MemoTypeOK
  <2>3. CASE Changes
    <3>1. PICK m \in Memos, u \in Users, flag, lifecycle \in BOOLEAN, up \in Updates :
            UpdateMemo(m, u, flag, lifecycle, up)
      BY <2>3 DEF Changes
    <3>2. deletions' = deletions
      BY <3>1 DEF UpdateMemo
    <3>3. memo' \in [Memos -> MemoRow \cup {Absent}]
      BY <3>1, UpdateRow
    <3> QED
      BY <3>2, <3>3 DEF MemoTypeOK
  <2>4. CASE Shares
    <3>1. PICK m \in Memos, on \in BOOLEAN :
            Exists(m) /\ memo' = [memo EXCEPT ![m].share = on] /\ UNCHANGED deletions
      BY <2>4 DEF Shares
    <3> QED
      BY <3>1, ShareRow DEF MemoTypeOK
  <2>5. CASE Erases
    BY <2>5, EraseRow DEF Erases, MemoTypeOK
  <2>6. CASE Trashes
    <3>1. PICK m \in Memos, u \in Users, flag \in BOOLEAN : SoftDeleteMemo(m, u, flag)
      BY <2>6 DEF Trashes
    <3>2. deletions' = deletions + 1
      BY <3>1 DEF SoftDeleteMemo
    <3>3. memo' \in [Memos -> MemoRow \cup {Absent}]
      BY <3>1, TrashRows DEF Stamped
    <3> QED
      BY <3>2, <3>3 DEF MemoTypeOK
  <2>7. CASE Restores
    <3>1. PICK m \in Memos, u \in Users, flag \in BOOLEAN : RestoreDeletedMemo(m, u, flag)
      BY <2>7 DEF Restores
    <3> QED
      BY <3>1, RestoreRows DEF RestoreDeletedMemo, MemoTypeOK, Stamped
  <2> QED
    BY <2>1, <2>2, <2>3, <2>4, <2>5, <2>6, <2>7, MemoCases
<1> QED
  BY <1>1, <1>2 DEF MemoTypeOK

\* A row is admissible where it is placed.
Admissible(r) ==
  /\ UserExists(r.creator)
  /\ r.space # NoSpace => spaceStatus[r.space] = "LIVE"
  /\ r.visibility = "SPACE" => r.space # NoSpace /\ ~r.share

\* A step that is not the deletion of an owner keeps users and Spaces.
LEMMA OwnersStay ==
  ASSUME TypeOK, UNCHANGED vars \/ AccountNext \/ MembershipNext
  PROVE  /\ \A u \in Users : UserExists(u) => UserExists(u)'
         /\ \A s \in Spaces : spaceStatus[s] = "LIVE" => spaceStatus'[s] = "LIVE"
<1> USE DEF TypeOK, UserExists
<1>1. CASE UNCHANGED vars
  BY <1>1 DEF vars, userVars, spaceVars
<1>2. CASE AccountNext
  BY <1>2 DEF AccountNext, CreateUser, UpdateUser, RowStatuses, spaceVars
<1>3. CASE MembershipNext
  <2>1. ASSUME NEW s \in Spaces, NEW u \in Users, NEW mode \in AccessModes, NEW inst \in BOOLEAN,
               CreateSpace(s, u, mode) \/ UpdateSpace(s, u, inst, mode)
        PROVE  userStatus' = userStatus
               /\ \A t \in Spaces : spaceStatus[t] = "LIVE" => spaceStatus'[t] = "LIVE"
    BY <2>1 DEF CreateSpace, UpdateSpace, userVars
  <2>2. CASE MemberNext
    BY ZenonT(60), <2>2 DEF MemberNext, AcceptSpaceInvitation, DeclineSpaceInvitation, CreateSpaceInvitation,
                RevokeSpaceInvitation, UpdateSpaceMember, DeleteSpaceMember, userVars, spaceVars
  <2> QED
    BY <1>3, <2>1, <2>2 DEF MembershipNext
<1> QED
  BY <1>1, <1>2, <1>3

\* Every write leaves the rows admissible where they are placed: the guards are
\* evaluated in the transaction, on the audience, the link and the placement it
\* finds, and the deletion of an owner takes all of its rows.
LEMMA AdmissibleStep ==
  ASSUME MemoTypeOK, [MemoNext]_allVars, \A m \in Memos : Exists(m) => Admissible(memo[m])
  PROVE  (\A m \in Memos : Exists(m) => Admissible(memo[m]))'
<1> SUFFICES ASSUME NEW x \in Memos, memo'[x].state # "ABSENT"
             PROVE  Admissible(memo[x])'
  BY DEF Exists
<1> DEFINE Kept == /\ Exists(x)
                   /\ memo'[x].creator = memo[x].creator /\ memo'[x].space = memo[x].space
                   /\ memo'[x].visibility = memo[x].visibility /\ memo'[x].share = memo[x].share
<1> USE DEF Admissible
<1>1. Exists(x) => memo[x].creator \in Users /\ memo[x].space \in Spaces \cup {NoSpace}
  BY ExistsIsRow DEF MemoRow
<1>2. ASSUME Kept, UNCHANGED vars \/ AccountNext \/ MembershipNext PROVE Admissible(memo[x])'
  BY <1>1, <1>2, OwnersStay DEF MemoTypeOK
<1>3. CASE memo'[x] = memo[x] /\ (UNCHANGED vars \/ AccountNext \/ MembershipNext)
  BY <1>2, <1>3 DEF Exists
<1>4. CASE Quiet /\ (AccountNext \/ MembershipNext \/ UNCHANGED vars)
  BY <1>3, <1>4 DEF Quiet
<1>5. CASE Inserts
  <2>1. PICK m \in Memos, u \in Users, s \in Spaces \cup {NoSpace}, v \in Visibilities,
             p \in Memos \cup {NoMemo} :
          CreateAllowed(u, s, v) /\ Insert(m, u, s, v, p) /\ UNCHANGED vars
    BY <1>5 DEF Inserts
  <2>2. CASE x = m
    BY <2>1, <2>2, InsertRow DEF CreateAllowed, ActiveUser, UserExists, SpaceWriter, vars, userVars, spaceVars
  <2> QED
    BY <1>3, <2>1, <2>2, InsertRow
<1>6. CASE Changes
  <2>1. PICK m \in Memos, u \in Users, flag, lifecycle \in BOOLEAN, up \in Updates :
          UpdateMemo(m, u, flag, lifecycle, up)
    BY <1>6 DEF Changes
  <2>2. UNCHANGED vars
    BY <2>1 DEF UpdateMemo
  <2>3. CASE x = m
    <3>1. /\ Exists(m) /\ memo'[m].creator = memo[m].creator /\ memo'[m].share = memo[m].share
          /\ memo'[m].space = ResultSpace(m, up) /\ memo'[m].visibility = ResultVisibility(m, up)
      BY <2>1, UpdateRow, ExistsIsRow
    <3>2. AudienceConfirmed(m, up) /\ (up.space \in Spaces => spaceStatus[up.space] = "LIVE")
      BY <2>1 DEF UpdateMemo, WriteAllowed, SpaceWriter
    <3>3. ResultSpace(m, up) # NoSpace => spaceStatus[ResultSpace(m, up)] = "LIVE"
      BY <2>3, <3>1, <3>2 DEF ResultSpace, Updates
    <3>4. ResultVisibility(m, up) = "SPACE" => ResultSpace(m, up) # NoSpace /\ ~memo[m].share
      BY <2>3, <3>1, <3>2 DEF AudienceConfirmed, ResultVisibility
    <3> QED
      BY <2>2, <2>3, <3>1, <3>3, <3>4 DEF UserExists, vars, userVars, spaceVars
  <2> QED
    BY <1>3, <2>1, <2>2, <2>3, UpdateRow
<1>7. CASE Shares
  <2>1. PICK m \in Memos, on \in BOOLEAN :
          /\ Exists(m) /\ (on => memo[m].visibility # "SPACE")
          /\ memo' = [memo EXCEPT ![m].share = on] /\ UNCHANGED vars
    BY <1>7 DEF Shares
  <2>2. CASE x = m
    BY <2>1, <2>2, ShareRow DEF UserExists, vars, userVars, spaceVars
  <2> QED
    BY <1>3, <2>1, <2>2, ShareRow
<1>8. CASE Erases
  <2>1. PICK gone \in SUBSET Memos :
          /\ Erase(gone)
          /\ \/ UNCHANGED vars
             \/ \E s \in Spaces, u \in Users, inst \in BOOLEAN :
                  DeleteSpace(s, u, inst) /\ gone = PlacedIn(s)
             \/ \E u \in Users : DeleteUser(u) /\ gone = WrittenBy(u)
    BY <1>8 DEF Erases
  <2>2. x \notin gone /\ Kept
    <3>1. x \notin gone
      BY <2>1, EraseRow DEF Absent
    <3>2. CASE memo'[x] = memo[x]
      BY <3>1, <3>2 DEF Exists
    <3>3. CASE Exists(x) /\ memo'[x] = [memo[x] EXCEPT !.parent = NoMemo]
      <4>1. memo[x] \in MemoRow
        BY <3>3, ExistsIsRow
      <4> QED
        BY <3>1, <3>3, <4>1 DEF MemoRow
    <3> QED
      BY <2>1, <3>1, <3>2, <3>3, EraseRow
  <2>3. CASE UNCHANGED vars
    BY <1>2, <2>2, <2>3
  <2>4. ASSUME NEW s \in Spaces, NEW u \in Users, NEW inst \in BOOLEAN,
               DeleteSpace(s, u, inst), gone = PlacedIn(s)
        PROVE  Admissible(memo[x])'
    <3>1. memo[x].space # s
      BY <2>2, <2>4 DEF PlacedIn
    <3> QED
      BY <1>1, <2>2, <2>4, <3>1 DEF DeleteSpace, MemoTypeOK, TypeOK, UserExists, userVars
  <2>5. ASSUME NEW u \in Users, DeleteUser(u), gone = WrittenBy(u)
        PROVE  Admissible(memo[x])'
    <3>1. memo[x].creator # u
      BY <2>2, <2>5 DEF WrittenBy
    <3> QED
      BY <1>1, <2>2, <2>5, <3>1 DEF DeleteUser, MemoTypeOK, TypeOK, UserExists, spaceVars
  <2> QED
    BY <2>1, <2>3, <2>4, <2>5
<1>9. CASE Trashes
  <2>1. PICK m \in Memos, u \in Users, flag \in BOOLEAN : SoftDeleteMemo(m, u, flag)
    BY <1>9 DEF Trashes
  <2>2. UNCHANGED vars /\ Stamped(TrashSet(m), "TRASH", deletions + 1)
    BY <2>1, TrashRows DEF SoftDeleteMemo
  <2>3. x \in TrashSet(m) => Exists(x)
    BY ExistsIsRow DEF TrashSet
  <2> QED
    BY <1>2, <1>3, <2>2, <2>3 DEF Stamped
<1>10. CASE Restores
  <2>1. PICK m \in Memos, u \in Users, flag \in BOOLEAN : RestoreDeletedMemo(m, u, flag)
    BY <1>10 DEF Restores
  <2>2. UNCHANGED vars /\ Stamped(BatchSet(m), "LIVE", 0)
    BY <2>1, RestoreRows DEF RestoreDeletedMemo
  <2>3. x \in BatchSet(m) => Exists(x)
    BY ExistsIsRow DEF BatchSet
  <2> QED
    BY <1>2, <1>3, <2>2, <2>3 DEF Stamped
<1> QED
  BY <1>4, <1>5, <1>6, <1>7, <1>8, <1>9, <1>10, MemoCases

-----------------------------------------------------------------------------
(* The properties of the rows.                                               *)

\* The rows are typed, their users and Spaces exist and no share link opens a
\* SPACE memo.  Admissibility is OwnersExist and NoShareOnSpaceAudience taken together.
LEMMA RowsInvariant == MemoSpec => [](MemoTypeOK /\ OwnersExist /\ NoShareOnSpaceAudience)
<1> DEFINE Rows == MemoTypeOK /\ \A m \in Memos : Exists(m) => Admissible(memo[m])
<1>1. MemoInit => Rows
  <2>1. Init => TypeOK
    BY InitIInv DEF IInv
  <2> QED
    BY <2>1 DEF MemoInit, MemoTypeOK, Exists, Absent
<1>2. Rows /\ [MemoNext]_allVars => Rows'
  BY MemoTypeStep, AdmissibleStep
<1>3. Rows => MemoTypeOK /\ OwnersExist /\ NoShareOnSpaceAudience
  BY DEF Admissible, OwnersExist, NoShareOnSpaceAudience
<1> QED
  BY <1>1, <1>2, <1>3, PTL DEF MemoSpec

\* Theorem: a memo row, in the trash or not, belongs to a user and is placed in a
\* Space that exist, and has the SPACE audience only while it is placed, through
\* every move, deletion of a Space or an account, and every trip to the trash.
THEOREM MemoRowsSafe == MemoSpec => []MemoRowsValid
  BY RowsInvariant, PTL DEF MemoRowsValid

\* Theorem: a share link never opens a SPACE memo: creating the link and changing
\* the audience exclude each other in both orders.
THEOREM ShareSafe == MemoSpec => []NoShareOnSpaceAudience
  BY RowsInvariant, PTL

\* Theorem: an author who may no longer write to the memo's Space can only move
\* or withdraw the memo, with its row status untouched, and leaves it to the
\* members of no Space he cannot write to.
THEOREM FormerMemberSafe == MemoSpec => FormerMemberMovesOnly
<1>1. MemoTypeOK => [FormerMemberStep]_allVars
  <2> SUFFICES ASSUME MemoTypeOK, NEW m \in Memos, NEW u \in Users, NEW lifecycle \in BOOLEAN,
                      NEW up \in Updates, UpdateMemo(m, u, FALSE, lifecycle, up),
                      memo[m].space # NoSpace, ~SpaceWriteAllowed(memo[m].space, u)
               PROVE  /\ memo'[m].space # memo[m].space
                      /\ memo'[m].status = memo[m].status
                      /\ memo'[m].visibility = "SPACE" => SpaceWriter(memo'[m].space, u)
    BY DEF FormerMemberStep
  <2>1. WriteAllowed(m, u, FALSE, lifecycle, up)
    BY DEF UpdateMemo
  <2>2. lifecycle
    BY <2>1 DEF WriteAllowed, SourceWritable, Override
  <2>3. up.space # Keep /\ up.status = Keep /\ ResultSpace(m, up) = up.space /\ up.space # memo[m].space
    BY <2>1, <2>2 DEF WriteAllowed, LifecycleOnlyUpdate, Moves, ResultSpace
  <2>4. /\ memo'[m].space = up.space /\ memo'[m].visibility = ResultVisibility(m, up)
        /\ memo'[m].status = memo[m].status
    BY <2>3, UpdateRow
  <2>5. ResultVisibility(m, up) = "SPACE" => SpaceWriter(up.space, u)
    BY <2>1, <2>3 DEF WriteAllowed, AudienceConfirmed, Updates
  <2> QED
    BY <2>3, <2>4, <2>5
<1> QED
  BY <1>1, RowsInvariant, PTL DEF FormerMemberMovesOnly

-----------------------------------------------------------------------------
(* The comment tree.                                                         *)

LEMMA TreeRoot ==
  ASSUME NEW m \in Memos
  PROVE  m \in CommentTree(m) /\ CommentTree(m) \subseteq Memos
  BY DEF CommentTree

LEMMA TreeClosed ==
  ASSUME NEW m \in Memos, NEW y \in Memos, Exists(y), memo[y].parent \in CommentTree(m)
  PROVE  y \in CommentTree(m)
  BY DEF CommentTree

\* The comment tree is the least closed set: what is closed and holds m holds
\* the whole tree.  This stands in for an induction along the relation.
LEMMA TreeLeast ==
  ASSUME NEW m \in Memos, NEW S \in SUBSET Memos, m \in S,
         \A y \in Memos : Exists(y) /\ memo[y].parent \in S => y \in S
  PROVE  CommentTree(m) \subseteq S
  BY DEF CommentTree

LEMMA TreeParent ==
  ASSUME NEW m \in Memos, NEW x \in CommentTree(m), x # m
  PROVE  Exists(x) /\ memo[x].parent \in CommentTree(m)
<1> SUFFICES ASSUME ~(Exists(x) /\ memo[x].parent \in CommentTree(m))
             PROVE  FALSE
  OBVIOUS
<1> DEFINE S == CommentTree(m) \ {x}
<1>1. S \in SUBSET Memos /\ m \in S
  BY TreeRoot
<1>2. \A y \in Memos : Exists(y) /\ memo[y].parent \in S => y \in S
  BY TreeClosed
<1>3. CommentTree(m) \subseteq S
  <2> HIDE DEF S
  <2> QED
    BY <1>1, <1>2, TreeLeast
<1> QED
  BY <1>3

LEMMA TreeOfMember ==
  ASSUME NEW r \in Memos, NEW m \in CommentTree(r)
  PROVE  CommentTree(m) \subseteq CommentTree(r)
<1>1. m \in Memos /\ CommentTree(r) \in SUBSET Memos
  BY TreeRoot
<1>2. \A y \in Memos : Exists(y) /\ memo[y].parent \in CommentTree(r) => y \in CommentTree(r)
  BY TreeClosed
<1> QED
  BY <1>1, <1>2, TreeLeast

TreeInv == NoDanglingRelation /\ LiveCommentLiveParent /\ StampsInOrder

\* Below a memo in the trash everything is in the trash, at least as long.
LEMMA TrashedBelow ==
  ASSUME MemoTypeOK, TreeInv, NEW m \in Memos, Trashed(m)
  PROVE  \A x \in CommentTree(m) : Trashed(x) /\ memo[x].deletedTs <= memo[m].deletedTs
<1> DEFINE S == {x \in Memos : Trashed(x) /\ memo[x].deletedTs <= memo[m].deletedTs}
<1>1. \A x \in Memos : Exists(x) => memo[x].deletedTs \in Nat /\ memo[x].parent \in Memos \cup {NoMemo}
                                    /\ (Live(x) \/ Trashed(x))
  BY ExistsIsRow DEF MemoRow, Live, Trashed
<1>2. S \in SUBSET Memos /\ m \in S
  BY <1>1, ExistsIsRow
<1>3. ASSUME NEW y \in Memos, Exists(y), memo[y].parent \in S PROVE y \in S
  <2>1. memo[y].parent \in Memos /\ memo[y].parent # NoMemo /\ Trashed(memo[y].parent)
        /\ memo[memo[y].parent].deletedTs <= memo[m].deletedTs
    BY <1>3, MemoAssumption
  <2>2. Trashed(y)
    BY <1>1, <1>3, <2>1 DEF TreeInv, LiveCommentLiveParent, Live, Trashed
  <2>3. memo[y].deletedTs <= memo[memo[y].parent].deletedTs
    BY <2>1, <2>2 DEF TreeInv, StampsInOrder
  <2>4. memo[y].deletedTs \in Nat /\ memo[memo[y].parent].deletedTs \in Nat /\ memo[m].deletedTs \in Nat
    BY <1>1, <1>3, <2>1, ExistsIsRow
  <2> QED
    BY <2>1, <2>2, <2>3, <2>4
<1>4. CommentTree(m) \subseteq S
  <2> HIDE DEF S
  <2> QED
    BY <1>2, <1>3, TreeLeast
<1> QED
  BY <1>4

\* The invariant of the tree, at one row.
TreeAt(x) ==
  /\ memo[x].parent # NoMemo =>
       /\ Exists(memo[x].parent)
       /\ Live(x) => Live(memo[x].parent)
       /\ Trashed(x) /\ Trashed(memo[x].parent)
            => memo[x].deletedTs <= memo[memo[x].parent].deletedTs
  /\ Trashed(x) => memo[x].deletedTs \in 1..deletions

LEMMA TreeInvAt == TreeInv <=> \A x \in Memos : Exists(x) => TreeAt(x)
  BY DEF TreeInv, TreeAt, NoDanglingRelation, LiveCommentLiveParent, StampsInOrder, Exists, Live, Trashed

LEMMA TreeStep == MemoTypeOK /\ TreeInv /\ [MemoNext]_allVars => TreeInv'
<1> SUFFICES ASSUME MemoTypeOK, TreeInv, [MemoNext]_allVars PROVE TreeInv'
  OBVIOUS
<1>t. MemoTypeOK'
  BY MemoTypeStep
<1>i. TreeInv' <=> \A x \in Memos : Exists(x)' => TreeAt(x)'
  BY DEF TreeInv, TreeAt, NoDanglingRelation, LiveCommentLiveParent, StampsInOrder, Exists, Live, Trashed
<1> SUFFICES ASSUME NEW x \in Memos, Exists(x)' PROVE TreeAt(x)'
  BY <1>i
<1> DEFINE p == memo[x].parent
<1> USE DEF Exists, Live, Trashed
<1>1. \A y \in Memos : Exists(y) => memo[y].deletedTs \in Nat /\ memo[y].parent \in Memos \cup {NoMemo}
                                    /\ (Live(y) \/ Trashed(y)) /\ TreeAt(y)
  BY ExistsIsRow, TreeInvAt DEF MemoRow
<1>2. deletions \in Nat
  BY DEF MemoTypeOK
\* Steps that leave state, stamp and relation of every row alone.
<1>3. ASSUME \A y \in Memos : /\ memo'[y].state = memo[y].state
                              /\ Exists(y) => /\ memo'[y].deletedTs = memo[y].deletedTs
                                              /\ memo'[y].parent = memo[y].parent,
             UNCHANGED deletions
      PROVE  TreeAt(x)'
  BY <1>1, <1>3 DEF TreeAt
<1>4. CASE Quiet
  BY <1>3, <1>4 DEF Quiet
<1>5. CASE Changes
  <2>1. PICK m \in Memos, u \in Users, flag, lifecycle \in BOOLEAN, up \in Updates :
          UpdateMemo(m, u, flag, lifecycle, up)
    BY <1>5 DEF Changes
  <2>2. UNCHANGED deletions
    BY <2>1 DEF UpdateMemo
  <2> QED
    BY <1>3, <2>1, <2>2, UpdateRow
<1>6. CASE Shares
  BY <1>3, <1>6, ShareRow DEF Shares
<1>7. CASE Inserts
  <2>1. PICK m \in Memos, u \in Users, s \in Spaces \cup {NoSpace}, v \in Visibilities,
             q \in Memos \cup {NoMemo} :
          /\ ~Exists(m) /\ (q # NoMemo => Live(q))
          /\ Insert(m, u, s, v, q) /\ UNCHANGED deletions
    BY <1>7 DEF Inserts
  <2>2. memo'[m].state = "LIVE" /\ memo'[m].parent = q /\ \A y \in Memos \ {m} : memo'[y] = memo[y]
    BY <2>1, InsertRow
  <2>3. CASE x = m
    BY <2>1, <2>2, <2>3, MemoAssumption DEF TreeAt
  <2>4. CASE x # m
    BY <1>1, <2>1, <2>2, <2>4, MemoAssumption DEF TreeAt
  <2> QED
    BY <2>3, <2>4
<1>8. CASE Erases
  <2>1. PICK gone \in SUBSET Memos : Erase(gone) /\ UNCHANGED deletions
    BY <1>8 DEF Erases
  <2>2. \A y \in gone : ~Exists(y)'
    BY <2>1, EraseRow DEF Absent
  <2>3. ASSUME NEW y \in Memos \ gone, Exists(y)
        PROVE  /\ memo'[y].state = memo[y].state /\ memo'[y].deletedTs = memo[y].deletedTs
               /\ \/ memo'[y].parent = NoMemo
                  \/ memo'[y].parent = memo[y].parent /\ memo[y].parent \notin gone
    <3>1. memo[y] \in MemoRow
      BY <2>3, ExistsIsRow
    <3>2. CASE memo'[y] = memo[y] /\ memo[y].parent \notin gone
      BY <3>2
    <3>3. CASE memo'[y] = [memo[y] EXCEPT !.parent = NoMemo]
      BY <3>1, <3>3 DEF MemoRow
    <3> QED
      BY <2>1, <2>3, <3>2, <3>3, EraseRow
  <2>4. x \notin gone /\ Exists(x)
    BY <2>1, <2>2, EraseRow
  <2>5. CASE memo'[x].parent = NoMemo
    BY <1>1, <2>1, <2>3, <2>4, <2>5 DEF TreeAt
  <2>6. CASE memo'[x].parent = p /\ p # NoMemo /\ p \notin gone
    BY <1>1, <2>1, <2>3, <2>4, <2>6 DEF TreeAt
  <2> QED
    BY <2>3, <2>4, <2>5, <2>6
<1>9. CASE Trashes
  <2>1. PICK m \in Memos, u \in Users, flag \in BOOLEAN : SoftDeleteMemo(m, u, flag)
    BY <1>9 DEF Trashes
  <2>2. deletions' = deletions + 1 /\ Stamped(TrashSet(m), "TRASH", deletions + 1)
    BY <2>1, TrashRows DEF SoftDeleteMemo
  <2>3. Exists(x) /\ memo'[x].parent = p /\ (p # NoMemo => p \in Memos /\ Exists(p))
    BY <1>1, <2>2, ExistsIsRow DEF Stamped, TrashSet, TreeAt
  <2>4. CASE x \in TrashSet(m)
    <3>1. Live(x) /\ (p # NoMemo => Live(p))
      BY <1>1, <2>3, <2>4 DEF TrashSet, TreeAt
    <3> QED
      BY <1>2, <2>2, <2>3, <2>4, <3>1 DEF Stamped, TreeAt
  <2>5. CASE x \notin TrashSet(m)
    <3>1. memo'[x] = memo[x]
      BY <2>2, <2>5 DEF Stamped
    <3>2. p # NoMemo /\ Live(x) => Live(p) /\ p \notin TrashSet(m)
      BY <1>1, <2>3, <2>5, TreeClosed DEF TrashSet, TreeAt
    <3>3. TreeAt(x)
      BY <1>1, <2>3
    <3>4. p # NoMemo => \/ memo'[p] = memo[p]
                        \/ p \in TrashSet(m) /\ memo'[p].state = "TRASH" /\ memo'[p].deletedTs = deletions + 1
      BY <2>2, <2>3 DEF Stamped
    <3> QED
      BY <1>1, <1>2, <2>2, <2>3, <3>1, <3>2, <3>3, <3>4 DEF TreeAt
  <2> QED
    BY <2>4, <2>5
<1>10. CASE Restores
  <2>1. PICK m \in Memos, u \in Users, flag \in BOOLEAN : RestoreDeletedMemo(m, u, flag)
    BY <1>10 DEF Restores
  <2>2. UNCHANGED deletions /\ Stamped(BatchSet(m), "LIVE", 0)
    BY <2>1, RestoreRows DEF RestoreDeletedMemo
  <2>3. Trashed(m) /\ (memo[m].parent # NoMemo => Live(memo[m].parent))
    BY <2>1 DEF RestoreDeletedMemo
  <2>4. Exists(x) /\ memo'[x].parent = p /\ (p # NoMemo => p \in Memos /\ Exists(p))
    BY <1>1, <2>2, ExistsIsRow DEF Stamped, BatchSet, TreeAt
  <2>5. \A y \in BatchSet(m) : Trashed(y)
    BY DEF BatchSet
  <2>6. CASE x \in BatchSet(m)
    <3>1. ASSUME p # NoMemo PROVE Live(p) \/ p \in BatchSet(m)
      <4>1. CASE x = m
        BY <2>3, <3>1, <4>1
      <4>2. CASE x # m
        <5>1. p \in CommentTree(m) /\ Trashed(x) /\ memo[x].deletedTs = memo[m].deletedTs
          BY <2>6, <4>2, TreeParent DEF BatchSet
        <5>2. Trashed(p) /\ memo[p].deletedTs <= memo[m].deletedTs
          BY <2>3, <5>1, TrashedBelow
        <5>3. memo[x].deletedTs <= memo[p].deletedTs
          BY <1>1, <2>4, <3>1, <5>1, <5>2 DEF TreeAt
        <5>4. memo[p].deletedTs = memo[m].deletedTs
          BY <1>1, <2>3, <2>4, <3>1, <5>1, <5>2, <5>3
        <5> QED
          BY <5>1, <5>2, <5>4 DEF BatchSet
      <4> QED
        BY <4>1, <4>2
    <3>2. p # NoMemo => Live(p)'
      BY <2>2, <2>4, <2>5, <3>1 DEF Stamped
    <3> QED
      BY <2>2, <2>4, <2>6, <3>2 DEF Stamped, TreeAt
  <2>7. CASE x \notin BatchSet(m)
    <3>1. memo'[x] = memo[x] /\ TreeAt(x)
      BY <1>1, <2>2, <2>4, <2>7 DEF Stamped
    <3>2. p # NoMemo => memo'[p] = memo[p] \/ (Live(p)' /\ Trashed(p))
      BY <2>2, <2>4, <2>5 DEF Stamped
    <3> QED
      BY <1>1, <1>2, <2>2, <2>4, <3>1, <3>2 DEF TreeAt
  <2> QED
    BY <2>6, <2>7
<1> QED
  BY <1>4, <1>5, <1>6, <1>7, <1>8, <1>9, <1>10, MemoCases

\* The inductive invariant of the comment trees holds throughout.
LEMMA TreeInvariant == MemoSpec => [](MemoTypeOK /\ TreeInv)
<1>1. MemoInit => TreeInv
  BY DEF MemoInit, TreeInv, NoDanglingRelation, LiveCommentLiveParent, StampsInOrder, Absent,
         Exists, Live, Trashed
<1>2. MemoSpec => []MemoTypeOK
  BY RowsInvariant, PTL
<1> QED
  BY <1>1, <1>2, TreeStep, PTL DEF MemoSpec

\* Theorem: in a comment tree of any shape, through every order of deleting,
\* restoring and purging, a visible comment has a visible parent and no COMMENT
\* relation points at a row that is gone.
THEOREM TreeSafe == MemoSpec => []TreeConnected
<1>1. TreeInv => TreeConnected
  BY DEF TreeInv, TreeConnected
<1> QED
  BY <1>1, TreeInvariant, PTL

\* Theorem: RestoreDeletedMemo brings back, below a memo, the batch of one
\* deletion, whole, and nothing that another deletion had taken.
THEOREM RestoreSafe == MemoSpec => RestoreIsOneBatch
<1>1. MemoTypeOK /\ [MemoNext]_allVars => [RestoreStep]_allVars
  <2> SUFFICES ASSUME MemoTypeOK, [MemoNext]_allVars, NEW m \in Memos, NEW x \in Memos,
                      Trashed(m), Trashed(x), memo'[m].state = "LIVE", x \in CommentTree(m)
               PROVE  memo'[x].state = "LIVE" <=> memo[x].deletedTs = memo[m].deletedTs
    BY DEF RestoreStep
  <2> USE DEF Exists, Live, Trashed
  <2>1. Restores
    <3>1. ~Quiet
      BY DEF Quiet
    <3>2. ~Inserts
      <4> SUFFICES ASSUME NEW n \in Memos, NEW u \in Users, NEW s \in Spaces \cup {NoSpace},
                          NEW v \in Visibilities, NEW q \in Memos \cup {NoMemo},
                          ~Exists(n), Insert(n, u, s, v, q)
                   PROVE  FALSE
        BY DEF Inserts
      <4> QED
        BY InsertRow
    <3>3. ~Changes
      BY UpdateRow DEF Changes
    <3>4. ~Shares
      BY ShareRow DEF Shares
    <3>5. ~Erases
      <4> SUFFICES ASSUME NEW gone \in SUBSET Memos, Erase(gone) PROVE FALSE
        BY DEF Erases
      <4>1. memo[m] \in MemoRow
        BY ExistsIsRow
      <4>2. memo'[m] \in {Absent, memo[m], [memo[m] EXCEPT !.parent = NoMemo]}
        BY EraseRow
      <4>3. Absent.state = "ABSENT" /\ [memo[m] EXCEPT !.parent = NoMemo].state = "TRASH"
        BY <4>1 DEF Absent, MemoRow
      <4> QED
        BY <4>2, <4>3
    <3>6. ~Trashes
      <4> SUFFICES ASSUME NEW n \in Memos, NEW u \in Users, NEW flag \in BOOLEAN, SoftDeleteMemo(n, u, flag)
                   PROVE  FALSE
        BY DEF Trashes
      <4> QED
        BY TrashRows DEF Stamped
    <3> QED
      BY <3>1, <3>2, <3>3, <3>4, <3>5, <3>6, MemoCases
  <2>2. PICK r \in Memos, u \in Users, flag \in BOOLEAN : RestoreDeletedMemo(r, u, flag)
    BY <2>1 DEF Restores
  <2>3. Stamped(BatchSet(r), "LIVE", 0)
    BY <2>2, RestoreRows
  <2>4. m \in CommentTree(r) /\ memo[m].deletedTs = memo[r].deletedTs
    BY <2>3 DEF Stamped, BatchSet
  <2>5. x \in CommentTree(r)
    BY <2>4, TreeOfMember
  <2>6. x \in BatchSet(r) <=> memo[x].deletedTs = memo[m].deletedTs
    BY <2>4, <2>5 DEF BatchSet
  <2> QED
    BY <2>3, <2>6 DEF Stamped
<1> QED
  BY <1>1, RowsInvariant, PTL DEF MemoSpec, RestoreIsOneBatch
=============================================================================
