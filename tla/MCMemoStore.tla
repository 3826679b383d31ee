---------------------------- MODULE MCMemoStore ----------------------------
(* MemoStore for TLC, in three scenes of which a behaviour plays one: a memo  *)
(* among two Spaces and their members, a tree of three memos of one user, and *)
(* two memos of one user that may be placed in a Space.                       *)
EXTENDS MemoStore, TLC

CONSTANTS TwoMemos, LoneMemo    \* the ids each scene uses

VARIABLE scene

Symmetry == Permutations(Users) \cup Permutations(Spaces) \cup Permutations(TwoMemos)

Used(rows) == {x \in DOMAIN rows : rows[x] # "UNUSED"}
Posted == {m \in Memos : Exists(m)}

\* What the tables hold in the scene.
InScene ==
  \/ /\ scene = "spaces"
     /\ Posted \subseteq LoneMemo /\ deletions <= 1
  \/ /\ scene = "tree"
     /\ Cardinality(Used(userStatus)) <= 1 /\ Used(spaceStatus) = {}
     /\ \A m \in Posted : memo[m].visibility = "PRIVATE"
  \/ /\ scene = "placed"
     /\ Cardinality(Used(userStatus)) <= 1 /\ Cardinality(Used(spaceStatus)) <= 1
     /\ Posted \subseteq TwoMemos
     /\ \A m \in Posted : memo[m].visibility = "PRIVATE"

MCInit == scene \in {"spaces", "tree", "placed"} /\ MemoInit
MCNext == MemoNext /\ UNCHANGED scene /\ InScene'
MCSpec == MCInit /\ [][MCNext]_<<scene, allVars>>
=============================================================================
