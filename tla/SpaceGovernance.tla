-------------------------- MODULE SpaceGovernance --------------------------
(* The Space store of the SQLite driver implements Governance: accounts,     *)
(* invitations, roles and archival all come down to the standing of one user *)
(* at a time. The administrators of the abstract specification are the rows  *)
(* the driver's last-administrator queries count.                            *)
EXTENDS Space

G == INSTANCE Governance WITH phase <- spaceStatus, admins <- [s \in Spaces |-> ActiveAdmins(s)]

\* Every transaction of the driver, whatever it changes, is one step of
\* Governance or changes nothing in it: no archival, restoration, removal or
\* deletion touches two users' standing at once, takes the last administrator
\* from a living Space, or brings a deleted Space back.
Governed == G!Spec
=============================================================================
