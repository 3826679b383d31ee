------------------------------ MODULE MCServer ------------------------------
(* Parts of the server that share no state, for TLC: cached user settings,    *)
(* the cache of users, Space invitations, and attachment cleanup.  A          *)
(* behaviour picks one of them at its start (scene) and the others stay in    *)
(* their initial state, so the states are the sum of theirs, not the product. *)
EXTENDS Server, TLC

CONSTANT Scenes    \* the scenes a run plays

VARIABLE scene

settingVars == vars
allVars == <<scene, settingVars, cacheVars, inviteVars, fileVars>>

\* The scenes share their model values, which keeps the symmetries few.
Symmetry == Permutations(Users) \cup Permutations(Goroutines)

\* Where the attachments of the runs are stored.
FilesAndRows == <<"LOCAL", "LOCAL", "DATABASE">>
Files == <<"LOCAL", "LOCAL">>

\* The invitations of the runs: one Space, and a pair stands for its invitee.
OneSpace == [p \in Pairs |-> "space"]
Itself == [p \in Pairs |-> p]

-----------------------------------------------------------------------------
MCInit ==
    /\ scene \in Scenes
    /\ Init /\ item = [t \in Threads |-> CHOOSE i \in Items : TRUE]
    /\ CacheInit /\ InviteInit /\ FilesInit

MCNext ==
    \/ scene = "settings" /\ Next /\ UNCHANGED <<scene, cacheVars, inviteVars, fileVars>>
    \/ scene = "users" /\ CacheNext /\ UNCHANGED <<scene, settingVars, inviteVars, fileVars>>
    \/ scene = "invitations" /\ InviteNext
       /\ UNCHANGED <<scene, settingVars, cacheVars, fileVars>>
    \/ scene = "files" /\ FilesNext /\ UNCHANGED <<scene, settingVars, cacheVars, inviteVars>>

MCSpec == MCInit /\ [][MCNext]_allVars

\* With the fairness of the modules; what stays in its initial state is never
\* enabled.
MCFairSpec == MCSpec /\ Fairness /\ CacheFairness /\ FilesFairness

-----------------------------------------------------------------------------
\* Every call on a list of memo views returns, whichever early return it takes
\* (user_setting.go); a user that went stale in the cache leaves it again
\* (cache.go); the queue of files to delete drains past those that fail for ever
\* (RetryAttachmentCleanup).
ServerEnds == CallsReturn /\ StaleEnds /\ RetryDrains
=============================================================================
