-------------------------- MODULE MCSpacePostgres --------------------------
(* Instance of SpacePostgres for TLC. *)
EXTENDS SpacePostgres, TLC

Symmetry == Permutations(Procs)
=============================================================================
