----------------------------- MODULE Governance -----------------------------
(* What the Space store promises about who governs a Space, without rows,    *)
(* invitations or transactions: a Space is founded by one user, is governed  *)
(* by at least one administrator for as long as it lives, changes by the     *)
(* standing of one user at a time, and once dissolved is never governed      *)
(* again.                                                                    *)
CONSTANTS Users, Spaces

VARIABLES
    phase,      \* whether a Space was founded or dissolved
    admins      \* the users who can administer it now

vars == <<phase, admins>>

Live == {s \in Spaces : phase[s] = "LIVE"}

Init ==
    /\ phase = [s \in Spaces |-> "UNUSED"]
    /\ admins = [s \in Spaces |-> {}]

Found(s, u) ==
    /\ phase[s] = "UNUSED"
    /\ phase' = [phase EXCEPT ![s] = "LIVE"]
    /\ admins' = [admins EXCEPT ![s] = {u}]

Dissolve(s) ==
    /\ phase[s] = "LIVE"
    /\ phase' = [phase EXCEPT ![s] = "DELETED"]
    /\ admins' = [admins EXCEPT ![s] = {}]

\* The standing of u changes: from now on u administers exactly the Spaces of T.
Move(u) ==
    /\ \E T \in SUBSET Live :
         admins' = [s \in Spaces |-> IF s \in T THEN admins[s] \cup {u} ELSE admins[s] \ {u}]
    /\ \A s \in Live : admins'[s] # {}
    /\ UNCHANGED phase

Next ==
    \/ \E s \in Spaces : Dissolve(s) \/ \E u \in Users : Found(s, u)
    \/ \E u \in Users : Move(u)

Spec == Init /\ [][Next]_vars
=============================================================================
