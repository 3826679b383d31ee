------------------------------ MODULE MCSpace ------------------------------
(* Instance of Space for TLC: users are interchangeable, and so are Spaces. *)
EXTENDS SpaceGovernance, TLC

Symmetry == Permutations(Users) \cup Permutations(Spaces)
=============================================================================
