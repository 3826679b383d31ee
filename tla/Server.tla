------------------------------- MODULE Server -------------------------------
(* The parts of the server that work without a transaction and share no state: *)
(* cached user settings, the cache of users, Space invitations and attachment  *)
(* cleanup. A step of the server is a step of one of them.                     *)
EXTENDS UserSettings, UserCache, SpaceInvitations, AttachmentCleanup

\* The variables keep their types; the mutex of a list has at most one holder, who
\* is at work on it (user_setting.go); the copies in the cache of users are rows,
\* and its counter counts them (cache.go); nobody but the handler at work on an
\* invitation has changed it; and of every attachment it is known how far its
\* upload and its deletion are, with their files.
ServerTypeOK ==
    /\ TypeOK
    /\ CacheTypeOK /\ CopiesCurrent /\ StaleReplaced /\ CountKept
    /\ InviteTypeOK /\ WorkedAlone
    /\ FilesTypeOK /\ OneLife /\ PlaceKept /\ GoneBeforeAcknowledged
    /\ FilenameOnly \/ WrittenKept
=============================================================================
